------------------------------ MODULE RemoteMedia ------------------------------
(***************************************************************************)
(* room/participant/RemoteParticipant.ts, room/track/RemoteTrackPublication.ts, *)
(* room/track/RemoteVideoTrack.ts and the parts of Room.ts that feed them: who *)
(* else is in the room and what they publish, as the signal connection tells  *)
(* it; the media, which arrives on its own and may come first; and what the    *)
(* page lets the server know of how much of each video it shows.               *)
(*                                                                         *)
(* A media <<t, n>> is the n-th MediaStreamTrack the server sends for track t.  *)
(* Sizes are numbers. The application attaches an element to one track at a     *)
(* time. What the elements and timers of a track do after its publication let  *)
(* go of it is left out: it has no listener then.                             *)
(***************************************************************************)
EXTENDS Integers, Sequences, FiniteSets, FiniteSetsExt

CONSTANTS
  Participants,  \* the others
  Tracks,        \* sids of their tracks
  Owner,         \* per track, who publishes it
  Elements,      \* video elements of the page
  MaxTries,      \* how often a media looks for its publication again (20)
  MaxMedia,      \* bound: media the server sends for a track
  Sessions       \* bound: the sessions to explore, see Init

Media == Tracks \X (1..MaxMedia)
NoMedia == <<"none", 0>>
TrackOf(m) == m[1]
Unset == -1

ASSUME SettingsAssumption ==
  /\ Owner \in [Tracks -> Participants] /\ MaxTries \in Nat \ {0} /\ MaxMedia \in Nat \ {0}
  /\ "none" \notin Tracks

VARIABLES
  left,      \* bound: what of each kind may still happen
  sid,       \* the server: per participant, the session it is in the room with, or 0
  ready,     \* the server: who in the room is ready to receive data, ACTIVE
  version,   \* the server: per participant, the version of what it tells of it
  born,      \* the server: per track, the session it is published in; 0 before, Gone after
  live,      \* media that has not ended
  removed,   \* live media that the server sends no more: the browser may only have muted it
  refused,   \* history: tracks the server refused to send
  inbox,     \* signal messages on the way to the page
  wire,      \* the signal connection: up, or dead whether or not that was noticed
  serves,    \* the server: per track, what it was asked for
  held,      \* queuedRequests: per track, what they ask for
  crossed,   \* history: tracks whose held requests were sent in another session
  room,      \* Room.state, and how far a reconnect is
  snapshot,  \* the others in the join response that is not applied yet
  parts,     \* remoteParticipants
  pub,       \* trackPublications of all of them
  fate,      \* what became of each media
  tries,     \* triesLeft
  track,     \* per publication, its RemoteVideoTrack
  on,        \* per element, the media it plays
  element,   \* per element: what the page shows of it, and its ElementInfo
  hidden     \* the page is in the background

server  == <<sid, ready, version, born, live, removed, refused>>
link    == <<inbox, wire>>
requests == <<serves, held, crossed>>
session == <<room, snapshot>>
roster  == <<parts, pub>>
arrival == <<fate, tries>>
view    == <<track, on, element, hidden>>
vars    == <<left, server, link, requests, session, roster, arrival, view>>

Gone    == -1
NoPart  == [sid |-> 0, version |-> 0, active |-> FALSE]
NewPub  == [there |-> TRUE, desired |-> TRUE, requested |-> "unset", wants |-> Unset, visible |-> TRUE,
            size |-> Unset, media |-> NoMedia]
NoPub   == [NewPub EXCEPT !.there = FALSE]
NoTrack == [lastVisible |-> "unset", lastSize |-> Unset, recheck |-> FALSE, resize |-> FALSE,
            background |-> FALSE, timer |-> FALSE, active |-> FALSE]
NoInfo  == [sid |-> 0, version |-> 0, tracks |-> {}, state |-> "none"]
NotHeld == [asks |-> "nothing", tells |-> FALSE, disabled |-> FALSE, size |-> Unset]
Default == [desired |-> TRUE, disabled |-> FALSE, size |-> Unset]

Uses(what) == left[what] > 0 /\ left' = [left EXCEPT ![what] = @ - 1]
Of(p) == {t \in Tracks : Owner[t] = p}
Info(p, s, v, b, r) ==
  [sid |-> s, version |-> v, tracks |-> {t \in Of(p) : b[t] > 0}, state |-> IF p \in r THEN "active" ELSE "joined"]
Present == {"joined", "active"}
Resuming == {"resuming", "signalResumed"}
Deferring == {"connecting", "offline", "restarting", "joined", "rejoined"}
Absent == [p \in Participants |-> NoInfo]

Init ==
  \E s \in Sessions :
    /\ left = s.left
    /\ sid = [p \in Participants |-> IF p \in s.present THEN 1 ELSE 0]
    /\ version = [p \in Participants |-> 0]
    /\ born = [t \in Tracks |-> IF t \in s.tracks THEN 1 ELSE 0]
    /\ live = {} /\ removed = {} /\ refused = {} /\ inbox = <<>> /\ wire = "up"
    /\ serves = [t \in Tracks |-> Default] /\ held = [t \in Tracks |-> NotHeld] /\ crossed = {}
    /\ room = "connecting" /\ snapshot = Absent
    /\ ready \in IF s.left.ready > 0 THEN SUBSET s.present ELSE {s.present}
    /\ parts = [p \in Participants |-> IF p \in s.present
                 THEN [sid |-> 1, version |-> 0, active |-> p \in ready] ELSE NoPart]
    /\ pub = [t \in Tracks |-> IF t \in s.tracks THEN NewPub ELSE NoPub]
    /\ fate = [m \in Media |-> "none"] /\ tries = [m \in Media |-> 0]
    /\ track = [t \in Tracks |-> NoTrack] /\ on = [e \in Elements |-> NoMedia]
    /\ element = [e \in Elements |-> [shown |-> TRUE, inPiP |-> FALSE, isPiP |-> FALSE, size |-> 1,
                                      fresh |-> FALSE, entering |-> FALSE]]
    /\ hidden = FALSE

-----------------------------------------------------------------------------
(* What the server is told: RemoteTrackPublication. *)

\* isEnabled
IsEnabled(p) ==
  IF p.requested # "unset" THEN p.requested = "on" ELSE p.media # NoMedia => p.visible

\* The size the elements have if it is smaller than what was asked for, or nothing was.
SizeOf(p) ==
  IF p.wants = Unset THEN p.size ELSE IF p.size = Unset THEN p.wants ELSE Min({p.size, p.wants})

Settings(asked, p) == [asked EXCEPT !.disabled = ~IsEnabled(p), !.size = SizeOf(p)]

\* sendRequest: held back while a resume is under way, lost when the connection is dead.
EmitTrackUpdates(T, p) ==
  /\ serves' = IF room \in Resuming \/ wire # "up" THEN serves
               ELSE [t \in Tracks |-> IF t \in T THEN Settings(serves[t], p[t]) ELSE serves[t]]
  /\ held' = IF room \notin Resuming THEN held
             ELSE [t \in Tracks |-> IF t \in T THEN Settings([held[t] EXCEPT !.tells = TRUE], p[t]) ELSE held[t]]

\* What the server was asked for once the requests h that were held back are sent as well.
Sent(asked, h) ==
  [desired  |-> IF h.asks = "nothing" THEN asked.desired ELSE h.asks = "yes",
   disabled |-> IF h.tells THEN h.disabled ELSE asked.disabled,
   size     |-> IF h.tells THEN h.size ELSE asked.size]

\* Bound: to subscribe again waits until the media that was given up has ended.
SetSubscribed(t, desired) ==
  /\ Uses("subscribe") /\ pub[t].there /\ pub[t].desired # desired
  /\ desired => \A m \in live : TrackOf(m) # t
  /\ pub' = [pub EXCEPT ![t].desired = desired]
  /\ serves' = IF room \in Resuming \/ wire # "up" THEN serves ELSE [serves EXCEPT ![t].desired = desired]
  /\ held' = IF room \notin Resuming THEN held ELSE [held EXCEPT ![t].asks = IF desired THEN "yes" ELSE "no"]
  /\ UNCHANGED <<server, link, crossed, session, parts, arrival, view>>

SetEnabled(t, how) ==
  /\ Uses("settings") /\ pub[t].there /\ pub[t].desired /\ pub[t].requested # how
  /\ pub' = [pub EXCEPT ![t].requested = how]
  /\ EmitTrackUpdates({t}, pub')
  /\ UNCHANGED <<server, link, crossed, session, parts, arrival, view>>

SetVideoDimensions(t, size) ==
  /\ Uses("settings") /\ pub[t].there /\ pub[t].desired /\ pub[t].wants # size
  /\ pub' = [pub EXCEPT ![t].wants = IF pub[t].media = NoMedia THEN @ ELSE size]
  /\ EmitTrackUpdates({t}, pub')
  /\ UNCHANGED <<server, link, crossed, session, parts, arrival, view>>

-----------------------------------------------------------------------------
(* What the page shows: RemoteVideoTrack and its elements. *)

ElementsOf(t, ons) == {e \in Elements : pub[t].media # NoMedia /\ ons[e] = pub[t].media}

IsVisible(t, ons, els, tr) ==
  \E e \in ElementsOf(t, ons) : els[e].isPiP \/ (els[e].shown /\ ~tr.background)

\* updateVisibility of one track: to hide is put off while an element changed lately.
Reevaluated(t, ons, els, tr) ==
  LET now == IF IsVisible(t, ons, els, tr) THEN "yes" ELSE "no"
      lately == \E e \in ElementsOf(t, ons) : els[e].fresh
  IN IF tr.lastVisible = now THEN tr
     ELSE IF now = "no" /\ lately THEN [tr EXCEPT !.recheck = TRUE]
     ELSE [tr EXCEPT !.lastVisible = now]

\* What handleVisibilityChange makes of the publications.
UpdateVisibility(T, ons, els, trs) ==
  /\ track' = [t \in Tracks |-> IF t \in T THEN Reevaluated(t, ons, els, trs[t]) ELSE trs[t]]
  /\ LET told == {t \in T : track'[t].lastVisible # trs[t].lastVisible} IN
       /\ pub' = [t \in Tracks |-> IF t \in told THEN [pub[t] EXCEPT !.visible = track'[t].lastVisible = "yes"] ELSE pub[t]]
       /\ EmitTrackUpdates(told, pub')

Watched(t) == ElementsOf(t, on) # {}
Shows(e) == {t \in Tracks : e \in ElementsOf(t, on)}
quietly == <<server, link, crossed, session, parts, arrival>>

Attach(e, t) ==
  /\ Uses("attach") /\ pub[t].media # NoMedia /\ on[e] = NoMedia
  /\ on' = [on EXCEPT ![e] = pub[t].media]
  /\ element' = [element EXCEPT ![e].isPiP = element[e].inPiP]
  /\ UpdateVisibility({t}, on', element',
       [track EXCEPT ![t].resize = TRUE, ![t].background = IF Watched(t) THEN @ ELSE hidden])
  /\ UNCHANGED <<quietly, hidden>>

Detach(e) ==
  /\ Uses("attach") /\ Shows(e) # {}
  /\ on' = [on EXCEPT ![e] = NoMedia]
  /\ element' = [element EXCEPT ![e].fresh = FALSE, ![e].entering = FALSE]
  /\ UpdateVisibility(Shows(e), on', element', [t \in Tracks |-> [track[t] EXCEPT !.resize = @ \/ t \in Shows(e)]])
  /\ UNCHANGED <<quietly, hidden>>

\* onVisibilityChanged, when the element is observed.
Intersects(e) ==
  /\ Uses("browser")
  /\ element' = [element EXCEPT ![e].shown = ~@, ![e].isPiP = element[e].inPiP, ![e].fresh = Shows(e) # {}]
  /\ UpdateVisibility(Shows(e), on, element', track)
  /\ UNCHANGED <<quietly, on, hidden>>

\* onEnterPiP looks at the element a frame later.
EnterPiP(e) ==
  /\ Uses("browser") /\ ~element[e].inPiP
  /\ element' = [element EXCEPT ![e].inPiP = TRUE, ![e].entering = Shows(e) # {}]
  /\ UNCHANGED <<quietly, serves, held, pub, track, on, hidden>>

AnimationFrame(e) ==
  /\ element[e].entering
  /\ element' = [element EXCEPT ![e].entering = FALSE, ![e].isPiP = element[e].inPiP]
  /\ UpdateVisibility(Shows(e), on, element', track)
  /\ UNCHANGED <<quietly, left, on, hidden>>

LeavePiP(e) ==
  /\ Uses("browser") /\ element[e].inPiP
  /\ element' = [element EXCEPT ![e].inPiP = FALSE, ![e].isPiP = FALSE]
  /\ UpdateVisibility(Shows(e), on, element', track)
  /\ UNCHANGED <<quietly, on, hidden>>

Resize(e, size) ==
  /\ Uses("resize") /\ element[e].size # size
  /\ element' = [element EXCEPT ![e].size = size]
  /\ track' = [t \in Tracks |-> [track[t] EXCEPT !.resize = @ \/ t \in Shows(e)]]
  /\ UNCHANGED <<quietly, serves, held, pub, on, hidden>>

\* updateDimensions
LargestOf(t) == Max({0} \union {element[e].size : e \in ElementsOf(t, on)})

UpdateDimensions(t) ==
  /\ track[t].resize
  /\ track' = [track EXCEPT ![t].resize = FALSE, ![t].lastSize = LargestOf(t)]
  /\ IF track[t].lastSize = LargestOf(t) THEN UNCHANGED <<pub, serves, held>>
     ELSE pub' = [pub EXCEPT ![t].size = LargestOf(t)] /\ EmitTrackUpdates({t}, pub')
  /\ UNCHANGED <<quietly, left, on, element, hidden>>

\* The timer of updateVisibility; Calm is the time that it waits for.
Recheck(t) ==
  /\ track[t].recheck
  /\ UpdateVisibility({t}, on, element, [track EXCEPT ![t].recheck = FALSE])
  /\ UNCHANGED <<quietly, left, on, element, hidden>>

Calm(e) ==
  /\ element[e].fresh
  /\ element' = [element EXCEPT ![e].fresh = FALSE]
  /\ UNCHANGED <<quietly, left, serves, held, pub, track, on, hidden>>

\* appVisibilityChangedListener of every track with an element: to hide waits 5 s.
PageHidden ==
  /\ Uses("page") /\ ~hidden /\ hidden' = TRUE
  /\ track' = [t \in Tracks |-> IF Watched(t) THEN [track[t] EXCEPT !.timer = TRUE] ELSE track[t]]
  /\ UNCHANGED <<quietly, serves, held, pub, on, element>>

PageShown ==
  /\ hidden /\ hidden' = FALSE
  /\ LET T == {t \in Tracks : Watched(t)} IN
       UpdateVisibility(T, on, element,
         [t \in Tracks |-> IF t \in T THEN [track[t] EXCEPT !.timer = FALSE, !.background = FALSE] ELSE track[t]])
  /\ UNCHANGED <<quietly, left, on, element>>

BackgroundTimeout(t) ==
  /\ track[t].timer
  /\ UpdateVisibility({t}, on, element, [track EXCEPT ![t].timer = FALSE, ![t].background = hidden])
  /\ UNCHANGED <<quietly, left, on, element, hidden>>

-----------------------------------------------------------------------------
(* Publications and their tracks. *)

\* The publications T let go of the tracks they have; stopped elements play nothing.
LetGo(T) ==
  /\ track' = [t \in Tracks |-> IF t \in T THEN NoTrack ELSE track[t]]
  /\ on' = [e \in Elements |-> IF Shows(e) \intersect T # {} THEN NoMedia ELSE on[e]]
  /\ element' = [e \in Elements |-> IF Shows(e) \intersect T # {}
                   THEN [element[e] EXCEPT !.fresh = FALSE, !.entering = FALSE] ELSE element[e]]
  /\ UNCHANGED hidden

\* setTrack for the publications of the media in M, one each; the others have the fate f.
SetTracks(M, f) ==
  /\ pub' = [t \in Tracks |-> IF \E m \in M : TrackOf(m) = t
               THEN [pub[t] EXCEPT !.media = CHOOSE m \in M : TrackOf(m) = t] ELSE pub[t]]
  /\ LetGo({TrackOf(m) : m \in M})
  /\ fate' = [m \in Media |-> IF m \in M THEN "playing"
                ELSE IF fate[m] = "playing" /\ pub'[TrackOf(m)].media # m THEN "replaced" ELSE f[m]]

SessionOf(t) == IF born[t] < 0 THEN -born[t] ELSE born[t]

\* onTrackAdded, once it is not put off: what becomes of a media.
Added(m) ==
  LET t == TrackOf(m) IN
  IF m \notin live' THEN "over"
  ELSE IF parts[Owner[t]].sid # SessionOf(t) THEN "dropped"
  ELSE IF pub[t].there THEN "playing" ELSE "retrying"

\* Of several media of a track the last one stays.
AddSubscribedMediaTracks(M) ==
  LET plays == {m \in M : Added(m) = "playing"}
      last  == {m \in plays : \A k \in plays : TrackOf(k) = TrackOf(m) => k[2] <= m[2]}
  IN /\ SetTracks(last, [m \in Media |-> IF m \in plays \ last THEN "replaced" ELSE IF m \in M THEN Added(m) ELSE fate[m]])
     /\ tries' = [m \in Media |-> IF m \in M /\ Added(m) = "retrying" THEN MaxTries - 1 ELSE tries[m]]

Arrived(t) == {m \in Media : TrackOf(m) = t /\ fate[m] # "none"}

\* The server sends media for t, and onTrackAdded handles it or puts it off. One that plays
\* may be replaced, and end after that.
OnTrack(t) ==
  LET m == <<t, Cardinality(Arrived(t)) + 1>> IN
  /\ Uses("media") /\ m \in Media
  /\ \A k \in live \ removed : TrackOf(k) = t => fate[k] = "playing"
  /\ born[t] > 0 /\ t \notin refused /\ serves[t].desired
  /\ room \notin {"restarting", "disconnected"}
  /\ live' = live \union {m} /\ UNCHANGED removed
  /\ IF room \in Deferring
       THEN fate' = [fate EXCEPT ![m] = "deferred"] /\ UNCHANGED <<tries, pub, view>>
       ELSE AddSubscribedMediaTracks({m})
  /\ UNCHANGED <<sid, ready, version, born, refused, link, requests, session, parts>>

\* Mutant: the tries of a participant that left are not counted.
RetryUncounted(m) ==
  /\ fate[m] \in {"retrying", "ghost"}
  /\ IF fate[m] = "retrying" /\ pub[TrackOf(m)].there
       THEN /\ IF m \in live THEN SetTracks({m}, fate)
               ELSE fate' = [fate EXCEPT ![m] = "failed"] /\ UNCHANGED <<pub, view>>
            /\ UNCHANGED tries
       ELSE /\ fate' = [fate EXCEPT ![m] = IF tries[m] = 0 /\ @ # "ghost" THEN "failed" ELSE @]
            /\ tries' = [tries EXCEPT ![m] = IF @ = 0 THEN 0 ELSE @ - 1]
            /\ UNCHANGED <<pub, view>>
  /\ UNCHANGED <<left, server, link, requests, session, parts>>

\* The timer of addSubscribedMediaTrack, also on a participant that left.
Retry(m) ==
  /\ fate[m] \in {"retrying", "ghost"}
  /\ IF fate[m] = "retrying" /\ pub[TrackOf(m)].there
       THEN /\ IF m \in live THEN SetTracks({m}, fate)
               ELSE fate' = [fate EXCEPT ![m] = "failed"] /\ UNCHANGED <<pub, view>>
            /\ UNCHANGED tries
       ELSE /\ fate' = [fate EXCEPT ![m] = IF tries[m] = 0 THEN "failed" ELSE @]
            /\ tries' = [tries EXCEPT ![m] = IF @ = 0 THEN 0 ELSE @ - 1]
            /\ UNCHANGED <<pub, view>>
  /\ UNCHANGED <<left, server, link, requests, session, parts>>

\* The server removes a media: handleEnded, if its publication still listens. The media ends if its
\* transceiver does; otherwise it stays live, which matters to who looks at it later.
RemoveTrack(m) ==
  LET sent == live \ removed IN
  /\ m \in sent /\ Uses("end")
  /\ \A k \in sent : TrackOf(k) = TrackOf(m) => k[2] >= m[2]
  /\ \/ live' = live \ {m} /\ UNCHANGED removed
     \/ removed' = removed \union {m} /\ fate[m] \in {"deferred", "retrying"} /\ UNCHANGED live
  /\ IF pub[TrackOf(m)].media = m
       THEN /\ pub' = [pub EXCEPT ![TrackOf(m)].media = NoMedia]
            /\ LetGo({TrackOf(m)})
            /\ fate' = [fate EXCEPT ![m] = "over"]
       ELSE UNCHANGED <<pub, view, fate>>
  /\ UNCHANGED <<sid, ready, version, born, refused, link, requests, session, parts, tries>>

-----------------------------------------------------------------------------
(* Participants: handleParticipantUpdates and updateInfo. *)

IsStale(p, info) == parts[p].sid = info.sid /\ parts[p].version > info.version

\* handleParticipantUpdates for all participants that infos tells something of.
HandleParticipantUpdates(infos) ==
  LET updated == {p \in Participants : infos[p].state \in Present /\ ~IsStale(p, infos[p])}
      departed == {p \in Participants : infos[p].state = "left"}
  IN
  /\ parts' = [p \in Participants |->
       IF p \in departed THEN NoPart
       ELSE IF p \notin updated THEN parts[p]
       ELSE [sid |-> infos[p].sid, version |-> infos[p].version, active |-> infos[p].state = "active"]]
  /\ pub' = [t \in Tracks |-> LET p == Owner[t] IN
       IF p \in departed \/ (p \in updated /\ t \notin infos[p].tracks) THEN NoPub
       ELSE IF p \in updated /\ ~pub[t].there THEN NewPub ELSE pub[t]]
  /\ LET unpublished == {t \in Tracks : pub[t].there /\ ~pub'[t].there} IN
       /\ LetGo(unpublished)
       /\ fate' = [m \in Media |->
            IF TrackOf(m) \in unpublished /\ fate[m] = "deferred" THEN "cancelled"
            ELSE IF TrackOf(m) \in unpublished /\ fate[m] = "playing" THEN "over"
            ELSE IF Owner[TrackOf(m)] \in departed /\ fate[m] = "retrying" THEN "ghost"
            ELSE fate[m]]

Update(p, info) == [kind |-> "update", infos |-> [Absent EXCEPT ![p] = info], t |-> "none"]
About(kind, t) == [kind |-> kind, infos |-> Absent, t |-> t]

\* handleSubscriptionError
HandleSubscriptionError(t) ==
  /\ fate' = [m \in Media |-> IF TrackOf(m) = t /\ fate[m] = "deferred" THEN "cancelled" ELSE fate[m]]
  /\ UNCHANGED <<roster, view, serves, held>>

\* setStreamState, for a stream that the server says is active
HandleStreamState(t) ==
  /\ IF pub[t].media = NoMedia THEN UNCHANGED <<pub, serves, held, track>>
     ELSE UpdateVisibility({t}, on, element, [track EXCEPT ![t].active = TRUE])
  /\ UNCHANGED <<parts, on, element, hidden, fate>>

\* Bound: no message that somebody left or joined anew overtakes a join response.
Overtakes(msg) ==
  \A p \in Participants : msg.infos[p].state # "none" =>
    msg.infos[p].state \in Present /\ msg.infos[p].sid = snapshot[p].sid

HandleMessage ==
  /\ inbox # <<>> /\ wire = "up" /\ room # "disconnected"
  /\ room = "joined" => Overtakes(Head(inbox))
  /\ inbox' = Tail(inbox)
  /\ LET msg == Head(inbox) IN
       \/ msg.kind = "update" /\ HandleParticipantUpdates(msg.infos) /\ UNCHANGED <<serves, held>>
       \/ msg.kind = "refused" /\ HandleSubscriptionError(msg.t)
       \/ msg.kind = "active" /\ HandleStreamState(msg.t)
  /\ UNCHANGED <<left, server, wire, crossed, session, tries>>

-----------------------------------------------------------------------------
(* The session: the engine and its reconnects. *)

Deferred == {m \in Media : fate[m] = "deferred"}

\* Connected or Reconnected is emitted, which hands on what was put off.
BackOnline ==
  /\ room' = "connected"
  /\ UNCHANGED server
  /\ AddSubscribedMediaTracks(Deferred)

Connected ==
  /\ room \in {"connecting", "rejoined"} /\ wire = "up"
  /\ BackOnline
  /\ UNCHANGED <<left, link, requests, snapshot, parts>>

\* The signal connection dies, and may do so unnoticed, or the browser goes offline.
Lose ==
  /\ Uses("fault") /\ wire = "up" /\ room \notin {"connecting", "disconnected"}
  /\ wire' = "dead"
  /\ room' \in IF room = "connected" THEN {room, "offline"} ELSE {room}
  /\ UNCHANGED <<server, inbox, requests, snapshot, roster, arrival, view>>

StartResume ==
  /\ wire = "dead" /\ room \in {"connected", "offline", "signalResumed"}
  /\ room' = "resuming"
  /\ UNCHANGED <<left, server, link, requests, snapshot, roster, arrival, view>>

\* Mutant: the sync state says only which tracks are disabled.
SignalResumedUnsubscribed ==
  /\ room = "resuming"
  /\ room' = "signalResumed" /\ wire' = "up"
  /\ serves' = [t \in Tracks |-> IF ~pub[t].there THEN serves[t]
                  ELSE [serves[t] EXCEPT !.disabled = ~IsEnabled(pub[t])]]
  /\ UNCHANGED <<left, server, inbox, held, crossed, snapshot, roster, arrival, view>>

\* SignalResumed: sendSyncState. What the server did not get to say it says now.
SignalResumed ==
  /\ room = "resuming"
  /\ room' = "signalResumed" /\ wire' = "up"
  /\ serves' = [t \in Tracks |-> IF ~pub[t].there THEN serves[t]
                  ELSE [serves[t] EXCEPT !.desired = pub[t].desired, !.disabled = ~IsEnabled(pub[t])]]
  /\ UNCHANGED <<left, server, inbox, held, crossed, snapshot, roster, arrival, view>>

\* setReconnected and then Resumed: updateSubscriptions, and Reconnected is emitted.
UpdateSubscriptions(was) ==
  [t \in Tracks |-> IF pub[t].desired /\ pub[t].media # NoMedia THEN Settings(was[t], pub[t]) ELSE was[t]]

Resumed ==
  /\ room = "signalResumed" /\ wire = "up"
  /\ BackOnline
  /\ serves' = UpdateSubscriptions([t \in Tracks |-> Sent(serves[t], held[t])])
  /\ held' = [t \in Tracks |-> NotHeld]
  /\ UNCHANGED <<left, link, crossed, snapshot, parts>>

\* handleRestarting, and the engine closes its connections.
Restarting ==
  /\ wire = "dead" /\ room \notin {"connecting", "restarting", "disconnected"}
  /\ room' = "restarting" /\ inbox' = <<>> /\ snapshot' = Absent /\ live' = {} /\ removed' = {}
  /\ HandleParticipantUpdates([p \in Participants |-> [NoInfo EXCEPT !.state = "left"]])
  /\ UNCHANGED <<left, sid, ready, version, born, refused, wire, requests, tries>>

\* The server lets the page join anew: setReconnected.
Rejoin ==
  /\ room = "restarting"
  /\ room' = "joined" /\ wire' = "up"
  /\ snapshot' = [p \in Participants |-> IF sid[p] > 0 THEN Info(p, sid[p], version[p], born, ready) ELSE NoInfo]
  /\ serves' = [t \in Tracks |-> Sent(Default, held[t])]
  /\ crossed' = crossed \union {t \in Tracks : held[t] # NotHeld}
  /\ held' = [t \in Tracks |-> NotHeld]
  /\ refused' = {}
  /\ UNCHANGED <<left, sid, ready, version, born, live, removed, inbox, roster, arrival, view>>

\* handleSignalRestarted: applyJoinResponse, perhaps after messages that followed it.
SignalRestarted ==
  /\ room = "joined"
  /\ room' = "rejoined" /\ snapshot' = Absent
  /\ HandleParticipantUpdates(snapshot)
  /\ UNCHANGED <<left, server, link, requests, tries>>

\* handleDisconnect
Disconnect ==
  /\ Uses("disconnect") /\ room # "disconnected"
  /\ room' = "disconnected" /\ wire' = "dead" /\ inbox' = <<>> /\ snapshot' = Absent
  /\ parts' = [p \in Participants |-> NoPart] /\ pub' = [t \in Tracks |-> NoPub]
  /\ LetGo(Tracks)
  /\ fate' = [m \in Media |-> CASE fate[m] = "deferred" -> "cancelled" [] fate[m] = "playing" -> "over"
                                [] fate[m] = "retrying" -> "ghost" [] OTHER -> fate[m]]
  /\ UNCHANGED <<server, requests, tries>>

-----------------------------------------------------------------------------
(* The server and the others. *)

others == <<live, removed, refused, wire, requests, session, roster, arrival, view>>
Tells(msg) == inbox' = IF room \in {"restarting", "disconnected"} THEN inbox ELSE Append(inbox, msg)

\* Somebody joins, or joins again, and may take a while to be ready.
ParticipantJoins(p) ==
  /\ Uses("join") /\ sid[p] <= 0
  /\ sid' = [sid EXCEPT ![p] = 1 - @] /\ version' = [version EXCEPT ![p] = 0]
  /\ ready' \in {ready \union {p}} \union (IF left.ready > 0 THEN {ready} ELSE {})
  /\ Tells(Update(p, Info(p, sid'[p], 0, born, ready')))
  /\ UNCHANGED <<others, born>>

Announces(p, b, r) ==
  /\ born' = b /\ ready' = r /\ version' = [version EXCEPT ![p] = @ + 1]
  /\ Tells(Update(p, Info(p, sid[p], version'[p], b, r)))
  /\ UNCHANGED <<others, sid>>

ParticipantReady(p) ==
  /\ Uses("ready") /\ sid[p] > 0 /\ p \notin ready
  /\ Announces(p, born, ready \union {p})

TrackPublished(t) ==
  /\ Uses("publish") /\ born[t] = 0 /\ sid[Owner[t]] > 0
  /\ Announces(Owner[t], [born EXCEPT ![t] = sid[Owner[t]]], ready)

TrackUnpublished(t) ==
  /\ Uses("unpublish") /\ born[t] > 0
  /\ Announces(Owner[t], [born EXCEPT ![t] = -@], ready)

ParticipantLeaves(p) ==
  /\ Uses("leave") /\ sid[p] > 0
  /\ sid' = [sid EXCEPT ![p] = -@] /\ ready' = ready \ {p}
  /\ born' = [t \in Tracks |-> IF Owner[t] = p /\ born[t] > 0 THEN -born[t] ELSE born[t]]
  /\ Tells(Update(p, [NoInfo EXCEPT !.state = "left", !.sid = sid[p]]))
  /\ UNCHANGED <<others, version>>

SubscriptionRefused(t) ==
  /\ Uses("refuse") /\ born[t] > 0 /\ serves[t].desired /\ t \notin refused
  /\ refused' = refused \union {t}
  /\ Tells(About("refused", t))
  /\ UNCHANGED <<sid, ready, version, born, live, removed, wire, requests, session, roster, arrival, view>>

StreamActive(t) ==
  /\ Uses("active") /\ \E m \in live \ removed : TrackOf(m) = t
  /\ Tells(About("active", t))
  /\ UNCHANGED <<sid, ready, version, born, others>>

-----------------------------------------------------------------------------
Remote ==
  \/ \E p \in Participants : ParticipantJoins(p) \/ ParticipantReady(p) \/ ParticipantLeaves(p)
  \/ \E t \in Tracks : TrackPublished(t) \/ TrackUnpublished(t) \/ SubscriptionRefused(t) \/ StreamActive(t) \/ OnTrack(t)
  \/ \E m \in Media : RemoveTrack(m)

Application ==
  \/ \E t \in Tracks, v \in BOOLEAN : SetSubscribed(t, v)
  \/ \E t \in Tracks, how \in {"on", "off"} : SetEnabled(t, how)
  \/ \E t \in Tracks : SetVideoDimensions(t, 1)
  \/ \E e \in Elements, t \in Tracks : Attach(e, t)
  \/ \E e \in Elements : Detach(e)
  \/ Disconnect

Browser ==
  \/ \E e \in Elements : Intersects(e) \/ EnterPiP(e) \/ LeavePiP(e) \/ Resize(e, 2)
  \/ PageHidden \/ Lose

\* What happens once it can: messages, timers, and a reconnect that succeeds.
Progress ==
  \/ HandleMessage
  \/ \E m \in Media : Retry(m)
  \/ \E t \in Tracks : UpdateDimensions(t) \/ Recheck(t) \/ BackgroundTimeout(t)
  \/ \E e \in Elements : AnimationFrame(e) \/ Calm(e)
  \/ Connected \/ StartResume \/ SignalResumed \/ Resumed \/ Restarting \/ Rejoin \/ SignalRestarted

Next == Remote \/ Application \/ Browser \/ PageShown \/ Progress
Spec == Init /\ [][Next]_vars
FairSpec == Spec /\ WF_vars(Progress)

-----------------------------------------------------------------------------
Fates == {"none", "deferred", "retrying", "ghost", "playing", "replaced", "dropped", "failed", "cancelled", "over"}
Rooms == {"connecting", "connected", "offline", "resuming", "signalResumed", "restarting", "joined", "rejoined", "disconnected"}

\* Every variable has its type, a publication plays its own media and is that of a participant in the map.
TypeOK ==
  /\ room \in Rooms /\ wire \in {"up", "dead"} /\ hidden \in BOOLEAN
  /\ fate \in [Media -> Fates] /\ tries \in [Media -> 0..MaxTries]
  /\ live \subseteq Media /\ removed \subseteq live /\ refused \subseteq Tracks /\ crossed \subseteq Tracks
  /\ \A t \in Tracks :
       /\ pub[t].there => parts[Owner[t]].sid > 0
       /\ pub[t].media # NoMedia => pub[t].there /\ TrackOf(pub[t].media) = t
       /\ serves[t].size \in Unset..2 /\ track[t].lastVisible \in {"unset", "yes", "no"}
  /\ \A e \in Elements : on[e] # NoMedia => \E t \in Tracks : pub[t].media = on[e]

\* The application and the page are done, and nothing is on the way or runs.
Quiet ==
  /\ room = "connected" /\ wire = "up" /\ inbox = <<>>
  /\ \A m \in Media : fate[m] \notin {"deferred", "retrying", "ghost"}
  /\ \A t \in Tracks : ~track[t].recheck /\ ~track[t].resize /\ ~track[t].timer
  /\ \A e \in Elements : ~element[e].fresh /\ ~element[e].entering

\* When nothing is on the way, the page knows of everyone in the room the session they are in
\* with, and exactly the tracks they publish there, whatever updates a join response overtook.
RosterIsCurrent ==
  Quiet => \A p \in Participants : sid[p] > 0 =>
             parts[p].sid = sid[p] /\ {t \in Of(p) : pub[t].there} = {t \in Of(p) : born[t] > 0}

\* A publication never has a track that has ended.
NoDeadTrackPlays == \A t \in Tracks : pub[t].media # NoMedia => pub[t].media \in live

\* When nothing is on the way, the last media that the server sends for a publication plays,
\* unless the failure was reported, it came for somebody unknown, the server refused the track, or an
\* earlier one, removed before its publication was found, is found live after it and takes its place.
TheNewestPlays ==
  Quiet => \A t \in Tracks \ refused :
    LET sends == {m \in live \ removed : TrackOf(m) = t}
    IN \A m \in sends : pub[t].there /\ (\A k \in sends : k[2] <= m[2])
         => pub[t].media \in {m} \union removed \/ fate[m] \in {"dropped", "failed"}

\* What the page has of the others is what there is: who is in the room, with which tracks and media.
ViewIsCurrent == TypeOK /\ RosterIsCurrent /\ NoDeadTrackPlays /\ TheNewestPlays

\* When nothing is on the way, the server was told of every watched or running video it sends whether
\* the page shows it, and of every watched one how large, as the application wants it.
SettingsMatchTheView ==
  Quiet => \A t \in Tracks : pub[t].desired /\ pub[t].media # NoMedia =>
    LET shown == \E e \in ElementsOf(t, on) : element[e].inPiP \/ (element[e].shown /\ ~hidden)
        wanted == IF pub[t].requested = "unset" THEN shown ELSE pub[t].requested = "on"
        size == IF pub[t].wants = Unset THEN LargestOf(t) ELSE Min({LargestOf(t), pub[t].wants})
    IN /\ Watched(t) \/ track[t].active => serves[t].disabled = ~wanted
       /\ Watched(t) => serves[t].size = size

\* When nothing is on the way, the server sends what the application wants to be subscribed to,
\* unless a request that a failed resume left behind was sent in the session after it.
DesireIsServed ==
  Quiet => \A t \in Tracks \ crossed : pub[t].there => serves[t].desired = pub[t].desired

\* What the page has of the others is what there is, and what the server sends is what the page shows and
\* the application wants.
OthersAreServed == ViewIsCurrent /\ SettingsMatchTheView /\ DesireIsServed

\* A media that arrived is not put off, and does not look for its publication, for ever.
ArrivalsSettle == []<>(\A m \in Media : fate[m] \notin {"deferred", "retrying", "ghost"})
=============================================================================

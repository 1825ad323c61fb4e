--------------------------- MODULE RoomParticipants ---------------------------
(***************************************************************************)
(* Who speaks, who is ready, and what the participant of the page is and asks to be: *)
(* the speakers of room/Room.ts, room/participant/Participant.ts, and of           *)
(* room/participant/LocalParticipant.ts its info, the requests that change it, and *)
(* the microphone that records before an agent is there.                           *)
(*                                                                         *)
(* It goes along with RemoteMedia: people come and go, the signal connection dies,  *)
(* resumes and is made anew as there, and each of those steps has its effects here. *)
(* An entry of activeSpeakers is a participant object, known by whose it is and the *)
(* session it is of; "me" is the participant of the page, which is one object.     *)
(***************************************************************************)
EXTENDS RemoteMedia

CONSTANTS
  Agents,   \* the participants that are agents
  Names,    \* values of a name and of metadata, none of them empty
  Extras    \* bound: what may happen here in a session, by what may happen there

ASSUME PeopleAssumption == Agents \subseteq Participants /\ "me" \notin Participants /\ "first" \in Names

VARIABLES
  may,      \* bound: what of each kind may still happen
  speaks,   \* the server tells of changes, in order, or sends lists over a data channel
  loud,     \* the server: who speaks
  lists,    \* lists of speakers on the way to the page
  speakers, \* activeSpeakers
  flagged,  \* who has isSpeaking
  unheard,  \* history: people of whom the page missed the last change
  waits,    \* what became of waitUntilActive, per participant
  agent,    \* firstActiveAgent
  own,      \* localParticipant
  ours,     \* the server: the same
  joined,   \* the participant in the join response that is not applied yet
  asks,     \* requestMetadataUpdate calls
  sent,     \* requests for them on the way to the server
  queued,   \* queuedRequests: requests for them
  mic       \* the microphone: its publication, its notice and its recording

speaking == <<speaks, loud, lists, speakers, flagged, unheard>>
meeting  == <<waits, agent>>
identity == <<own, ours, joined>>
asking   == <<asks, sent, queued>>
people   == <<may, speaking, meeting, identity, asking, mic>>

People == Participants \union {"me"}
InRoom == {"me"} \union {p \in Participants : sid[p] > 0}
May(what) == may[what] > 0 /\ may' = [may EXCEPT ![what] = @ - 1]
First == [sid |-> 1, version |-> 0, name |-> "first", metadata |-> "first"]
NoMic == [pub |-> "no", notice |-> "none", buffer |-> "off", stream |-> "none"]

PeopleInit ==
  /\ \E x \in Extras : x.left = left /\ may = x.may /\ speaks = x.speaks
  /\ loud = {} /\ lists = <<>> /\ speakers = {} /\ flagged = {} /\ unheard = {}
  /\ waits = [p \in Participants |-> "none"]
  /\ agent = IF \E p \in Agents : parts[p].active THEN CHOOSE p \in Agents : parts[p].active ELSE "none"
  /\ own = First /\ ours = First /\ joined = First
  /\ asks = <<>> /\ sent = <<>> /\ queued = <<>> /\ mic = NoMic

-----------------------------------------------------------------------------
(* What the steps of RemoteMedia do here. *)

Closes   == room # "disconnected" /\ room' = "disconnected"
Restarts == room # "restarting" /\ room' = "restarting"
Joins    == room = "restarting" /\ room' = "joined"
Flushes  == Joins \/ (room = "signalResumed" /\ room' = "connected")
Dies     == wire = "up" /\ wire' # "up"

Departed == {p \in Participants : parts[p].sid > 0 /\ parts'[p].sid = 0}
Woken    == {p \in Participants : parts'[p].active /\ ~parts[p].active}
JoinsAnew(p) == sid[p] <= 0 /\ sid'[p] > 0

Reached == room \notin {"restarting", "disconnected"}
Message(kind, about) == [kind |-> kind, infos |-> Absent, t |-> "none", about |-> about]
ListOf(P, s) == {<<p, IF p = "me" THEN ours.sid ELSE s[p]>> : p \in P}
Lost == {inbox[i].about[1] : i \in {k \in DOMAIN inbox : inbox[k].kind = "speaks"}}
          \union (IF lists # <<>> THEN People ELSE {})

\* A connection that is made anew leaves activeSpeakers as it is, with objects of the one before.
SpeakersFollow ==
  LET parted == {p \in loud \ {"me"} : sid'[p] <= 0} IN
  /\ loud' = loud \ (parted \union IF Joins THEN {"me"} ELSE {})
  /\ speakers' = IF Closes THEN {} ELSE speakers
  /\ flagged' = flagged \ Departed
  /\ lists' = IF Restarts \/ Closes THEN <<>>
              ELSE IF speaks = "lists" /\ parted # {} /\ Reached THEN Append(lists, ListOf(loud', sid')) ELSE lists
  /\ unheard' = {p \in unheard : p = "me" \/ ~JoinsAnew(p)} \union (IF Restarts THEN Lost ELSE {})
                  \union (IF Joins /\ speakers # {} THEN {"me"} ELSE {})

\* Active wakes who waits, setDisconnected rejects; a disconnect forgets the participants without it.
MeetingFollows ==
  /\ waits' = [p \in Participants |->
       IF waits[p] # "waiting" THEN waits[p]
       ELSE IF p \in Woken THEN "resolved" ELSE IF p \in Departed /\ ~Closes THEN "rejected" ELSE "waiting"]
  /\ agent' = IF Closes THEN "none" ELSE IF Woken \intersect Agents # {} THEN CHOOSE p \in Woken \intersect Agents : TRUE
              ELSE agent

\* Mutant: an info is taken whatever its version.
UpdatedAnyway(o, info) == info

\* updateInfo
Updated(o, info) == IF o.sid = info.sid /\ o.version > info.version THEN o ELSE info

\* handleSignalConnected and, once the restart is told to the room, applyJoinResponse. The server knows
\* what was asked for from the token it refreshed.
IdentityFollows ==
  /\ ours' = IF Joins THEN [ours EXCEPT !.sid = @ + 1, !.version = 0] ELSE ours
  /\ joined' = IF Joins THEN ours' ELSE joined
  /\ own' = IF Joins THEN Updated(own, ours') ELSE IF room = "joined" /\ room' = "rejoined" THEN Updated(own, joined) ELSE own

\* setReconnected sends what was held; what is on the way may be lost with the connection.
RequestsFollow ==
  /\ queued' = IF Flushes THEN <<>> ELSE queued
  /\ \/ Dies /\ sent' \in {<<>>, sent}
     \/ ~Dies /\ sent' = IF Restarts THEN <<>> ELSE IF Flushes THEN sent \o queued ELSE sent
  /\ UNCHANGED asks

\* handleClosing rejects the wait for an agent, the room forgets its tracks and notices.
MicFollows ==
  mic' = IF Closes THEN [mic EXCEPT !.pub = "no", !.notice = IF @ = "deferred" THEN "givenUp" ELSE @,
                                    !.stream = IF @ = "waiting" THEN "failed" ELSE @]
         ELSE [mic EXCEPT !.stream = IF @ = "waiting" /\ Woken \intersect Agents # {} THEN "open" ELSE @]

Follows ==
  /\ SpeakersFollow /\ MeetingFollows /\ IdentityFollows /\ RequestsFollow /\ MicFollows
  /\ UNCHANGED <<may, speaks>>

-----------------------------------------------------------------------------
(* Speakers. *)

Entry(p) == <<p, IF p = "me" THEN 0 ELSE parts[p].sid>>

\* getRemoteParticipantBySid, or the participant of the page
Known(p, s) == IF p = "me" THEN s = own.sid ELSE parts[p].sid > 0 /\ s <= parts[p].sid

\* handleSpeakersChanged. Participants that have left stay in the list.
HandleSpeakersChanged(p, s, active) ==
  LET kept == {e \in speakers : e[1] = "me" \/ parts[e[1]].sid \in {0, e[2]}} IN
  IF Known(p, s)
    THEN /\ speakers' = IF active THEN kept \union {Entry(p)} ELSE kept \ {Entry(p)}
         /\ flagged' = IF active THEN flagged \union {p} ELSE flagged \ {p}
         /\ unheard' = unheard \ {p}
    ELSE /\ speakers' = kept /\ unheard' = unheard \union {p}
         /\ UNCHANGED flagged

\* handleActiveSpeakersUpdate
HandleActiveSpeakersUpdate ==
  /\ lists # <<>> /\ Reached
  /\ lists' = Tail(lists)
  /\ LET known == {l \in Head(lists) : Known(l[1], l[2])} IN
       /\ speakers' = {Entry(l[1]) : l \in known}
       /\ flagged' = {l[1] : l \in {k \in known : k[1] = "me" \/ parts[k[1]].sid = k[2]}}
       /\ unheard' = {l[1] : l \in Head(lists) \ known}
  /\ UNCHANGED <<vars, may, speaks, loud, meeting, identity, asking, mic>>

\* Somebody starts or stops to speak, and the server tells the page if it is there.
Speaks(p) ==
  /\ May("speak") /\ p \in InRoom
  /\ loud' = IF p \in loud THEN loud \ {p} ELSE loud \union {p}
  /\ IF ~Reached THEN unheard' = unheard \union {p} /\ UNCHANGED <<inbox, lists>>
     ELSE /\ UNCHANGED unheard
          /\ IF speaks = "lists" THEN lists' = Append(lists, ListOf(loud', sid)) /\ UNCHANGED inbox
             ELSE /\ Tells(Message("speaks", <<p, IF p = "me" THEN ours.sid ELSE sid[p], p \in loud'>>))
                  /\ UNCHANGED lists
  /\ UNCHANGED <<left, server, wire, requests, session, roster, arrival, view,
                 speaks, speakers, flagged, meeting, identity, asking, mic>>

\* waitUntilActive; who waits already waits for the same.
WaitUntilActive(p) ==
  /\ May("wait") /\ parts[p].sid > 0
  /\ waits' = [waits EXCEPT ![p] = IF parts[p].active THEN "resolved" ELSE "waiting"]
  /\ UNCHANGED <<vars, speaking, agent, identity, asking, mic>>

-----------------------------------------------------------------------------
(* The name and the metadata of the page's participant. *)

Busy == sent # <<>> \/ queued # <<>> \/ own # ours \/ \E i \in DOMAIN asks : asks[i].state = "waiting"

\* requestMetadataUpdate: setName and setMetadata. A request tells both values, and what it does not
\* change is as the page knows it. It is done at once if the page knows that value already.
RequestMetadataUpdate(field, value) ==
  LET i == Len(asks) + 1
      wanted == [own EXCEPT ![field] = value]
      ask == [field |-> field, value |-> value, wanted |-> wanted, clean |-> ~Busy,
              state |-> IF own[field] = value THEN "resolved" ELSE "waiting"]
  IN
  /\ May("ask") /\ room # "disconnected"
  /\ asks' = Append([k \in DOMAIN asks |-> [asks[k] EXCEPT !.clean = @ /\ ~Busy]], ask)
  /\ queued' = IF room \in Resuming THEN Append(queued, i) ELSE queued
  /\ sent' = IF room \notin Resuming /\ wire = "up" THEN Append(sent, i) ELSE sent
  /\ UNCHANGED <<vars, speaking, meeting, identity, mic>>

\* The server does what it is asked to and tells so, or refuses. An answer that agrees changes nothing.
ServerTakes ==
  /\ sent # <<>> /\ Reached
  /\ sent' = Tail(sent)
  /\ LET i == Head(sent) IN
       \/ /\ ours' = [asks[i].wanted EXCEPT !.sid = ours.sid, !.version = ours.version + 1]
          /\ Tells(Message("own", ours'))
          /\ UNCHANGED may
       \/ /\ May("refuse") /\ Tells(Message("no", i)) /\ UNCHANGED ours
  /\ UNCHANGED <<left, server, wire, requests, session, roster, arrival, view,
                 speaking, meeting, own, joined, asks, queued, mic>>

\* The loop of requestMetadataUpdate finds the value it waits for, or gives up.
Notices(i) ==
  /\ asks[i].state = "waiting" /\ own[asks[i].field] = asks[i].value
  /\ asks' = [asks EXCEPT ![i].state = "resolved"]
  /\ UNCHANGED <<vars, may, speaking, meeting, identity, sent, queued, mic>>

TimesOut(i) ==
  /\ asks[i].state = "waiting"
  /\ asks' = [asks EXCEPT ![i].state = "timedOut"]
  /\ UNCHANGED <<vars, may, speaking, meeting, identity, sent, queued, mic>>

\* handleSignalRequestResponse, for an answer that refuses
HandleSignalRequestResponse(i) ==
  asks' = [asks EXCEPT ![i].state = IF @ = "waiting" THEN "rejected" ELSE @]

-----------------------------------------------------------------------------
(* A microphone with a buffer from before it is published. *)

StartPreConnectBuffer ==
  /\ May("mic") /\ mic = NoMic /\ Reached
  /\ mic' = [mic EXCEPT !.pub = "pending", !.buffer = "recording"]
  /\ UNCHANGED <<vars, speaking, meeting, identity, asking>>

AutoStopPreConnectBuffer ==
  /\ mic.buffer = "recording"
  /\ mic' = [mic EXCEPT !.buffer = "stopped"]
  /\ UNCHANGED <<vars, may, speaking, meeting, identity, asking>>

\* The server tells that somebody subscribed, perhaps before the publication is registered.
TrackTaken ==
  /\ May("taken") /\ mic.pub # "no" /\ Reached
  /\ Tells(Message("taken", <<>>))
  /\ UNCHANGED <<left, server, wire, requests, session, roster, arrival, view,
                 speaking, meeting, identity, asking, mic>>

\* handleLocalTrackSubscribed, and the listener of the publication, which stops the buffer
HandleLocalTrackSubscribed ==
  mic' = IF mic.pub = "yes" THEN [mic EXCEPT !.notice = "emitted", !.buffer = IF @ = "recording" THEN "stopped" ELSE @]
         ELSE [mic EXCEPT !.notice = "deferred"]

\* publishTrack registers the publication and emits LocalTrackPublished, which hands on a notice
\* that was put off, before it listens for one; then it waits for an agent to stream the buffer to.
PublicationAdded ==
  /\ mic.pub = "pending" /\ room = "connected"
  /\ mic' = [mic EXCEPT !.pub = "yes", !.notice = IF @ = "deferred" THEN "emitted" ELSE @,
                        !.stream = IF mic.buffer # "recording" THEN "none"
                                   ELSE IF agent # "none" THEN "open" ELSE "waiting"]
  /\ UNCHANGED <<vars, may, speaking, meeting, identity, asking>>

PublishFails ==
  /\ May("fail") /\ mic.pub = "pending"
  /\ mic' = [mic EXCEPT !.pub = "no"]
  /\ UNCHANGED <<vars, speaking, meeting, identity, asking>>

\* The 10 s for which a notice is put off.
NoticeTimer ==
  /\ mic.notice = "deferred"
  /\ mic' = [mic EXCEPT !.notice = IF mic.pub = "yes" THEN "emitted" ELSE "givenUp"]
  /\ UNCHANGED <<vars, may, speaking, meeting, identity, asking>>

StreamEnds ==
  /\ mic.stream = "open" /\ mic.buffer = "stopped"
  /\ mic' = [mic EXCEPT !.stream = "sent"]
  /\ UNCHANGED <<vars, may, speaking, meeting, identity, asking>>

-----------------------------------------------------------------------------
OwnMessage ==
  /\ inbox # <<>> /\ wire = "up" /\ Reached
  /\ inbox' = Tail(inbox)
  /\ LET msg == Head(inbox) IN
       \/ /\ msg.kind = "speaks" /\ HandleSpeakersChanged(msg.about[1], msg.about[2], msg.about[3])
          /\ UNCHANGED <<identity, asks, mic>>
       \/ /\ msg.kind = "own" /\ own' = Updated(own, msg.about)
          /\ UNCHANGED <<ours, joined, speakers, flagged, unheard, asks, mic>>
       \/ /\ msg.kind = "no" /\ HandleSignalRequestResponse(msg.about)
          /\ UNCHANGED <<identity, speakers, flagged, unheard, mic>>
       \/ /\ msg.kind = "taken" /\ HandleLocalTrackSubscribed
          /\ UNCHANGED <<identity, speakers, flagged, unheard, asks>>
  /\ UNCHANGED <<left, server, wire, requests, session, roster, arrival, view,
                 may, speaks, loud, lists, meeting, sent, queued>>

PeopleProgress ==
  \/ OwnMessage \/ HandleActiveSpeakersUpdate \/ ServerTakes
  \/ \E i \in DOMAIN asks : Notices(i) \/ TimesOut(i)
  \/ AutoStopPreConnectBuffer \/ PublicationAdded \/ NoticeTimer \/ StreamEnds

PeopleNext ==
  \/ \E p \in People : Speaks(p)
  \/ \E p \in Participants : WaitUntilActive(p)
  \/ \E f \in {"name", "metadata"}, v \in Names : RequestMetadataUpdate(f, v)
  \/ StartPreConnectBuffer \/ TrackTaken \/ PublishFails
  \/ PeopleProgress

RoomVars == <<vars, people>>
RoomInit == Init /\ PeopleInit
RoomNext == (Next /\ Follows) \/ PeopleNext
RoomProgress == (Progress /\ Follows) \/ PeopleProgress
RoomSpec == RoomInit /\ [][RoomNext]_RoomVars /\ WF_RoomVars(RoomProgress)

-----------------------------------------------------------------------------
PeopleTypeOK ==
  /\ loud \subseteq People /\ flagged \subseteq People /\ unheard \subseteq People
  /\ \A e \in speakers : e[1] \in People /\ e[2] \in Nat
  /\ waits \in [Participants -> {"none", "waiting", "resolved", "rejected"}]
  /\ agent \in Agents \union {"none"}
  /\ \A i \in DOMAIN asks : asks[i].state \in {"waiting", "resolved", "rejected", "timedOut"}
  /\ mic \in [pub : {"no", "pending", "yes"}, notice : {"none", "deferred", "emitted", "givenUp"},
              buffer : {"off", "recording", "stopped"}, stream : {"none", "waiting", "open", "sent", "failed"}]

QuietHere == Quiet /\ lists = <<>> /\ sent = <<>> /\ queued = <<>>

\* When nothing is on the way, the active speakers of whoever is in the room are those that speak,
\* whichever of its objects is listed, unless the page missed the last change.
SpeakersAreCurrent ==
  /\ QuietHere => \A p \in InRoom \ unheard : p \in loud <=> Entry(p) \in speakers
  /\ room # "disconnected" => \A p \in flagged : Entry(p) \in speakers

\* When nothing is on the way, nobody waits for a participant that is ready, or gone, and no recording
\* for an agent that is ready.
WaitsAreServed ==
  QuietHere =>
    /\ \A p \in Participants : waits[p] = "waiting" => sid[p] > 0 /\ p \notin ready
    /\ mic.stream = "waiting" => Agents \intersect ready = {}

\* When nothing is on the way, the page knows of itself what the server does; and a value that was
\* asked for while nothing else was, and said to be set, is set until another one is asked for.
OwnIsAsAsked ==
  QuietHere =>
    /\ own = ours
    /\ \A i \in DOMAIN asks :
         asks[i].state = "resolved" /\ asks[i].clean /\ (\A k \in DOMAIN asks : k > i => asks[k].field # asks[i].field)
           => own[asks[i].field] = asks[i].value

\* No notice is put off once the track it is about is published.
NoticesAreTold == mic.pub = "yes" => mic.notice # "deferred"

\* What the room and its participants tell of who speaks, who is ready, and of the page's own participant
\* is what the server has.
PeopleAreCurrent == PeopleTypeOK /\ SpeakersAreCurrent /\ WaitsAreServed /\ OwnIsAsAsked /\ NoticesAreTold

\* No media that arrived, request for a name or metadata, put off notice, or recording waits for ever.
AllSettles ==
  /\ ArrivalsSettle
  /\ []<>(/\ \A i \in DOMAIN asks : asks[i].state # "waiting"
          /\ mic.notice # "deferred" /\ mic.buffer # "recording")
=============================================================================

------------------------------ MODULE Publishing ------------------------------
(***************************************************************************)
(* room/participant/LocalParticipant.ts: publishing, unpublishing, enabling   *)
(* and disabling the camera, the republish after a full reconnect, and turning *)
(* encryption on, as overlapping calls around three shared promises: the one of *)
(* a reconnect, the one of a republish and the one of each track's publication. *)
(*                                                                         *)
(* at[c][t] is the await at which call c has suspended its work on track t,    *)
(* top[c] the await of the call itself. A settled promise wakes those who wait *)
(* for it before anything else happens (Drained): the order among them is left *)
(* open. All tracks are cameras. The retries of negotiation are in Negotiation, *)
(* the engine's in EngineReconnect; here a restart is asked for and happens.   *)
(***************************************************************************)
EXTENDS Integers, FiniteSets

CONSTANTS
  MaxCalls,     \* bound: calls of the application
  MaxReconnects, \* bound: resumes and full reconnects
  MaxTracks,    \* bound: local tracks; track 1 is the application's
  Kinds,        \* what the application calls
  Repeated,     \* bound: more than two calls are all of one of these kinds
  Parallel      \* the request and the offer of a publication are sent together

Tracks   == 1..MaxTracks
AppCalls == 1..MaxCalls
Calls    == 1..(MaxCalls + MaxReconnects)   \* the room calls once per restart

ASSUME BoundsAssumption ==
  /\ MaxCalls \in Nat /\ MaxReconnects \in Nat /\ MaxTracks \in Nat \ {0}
  /\ Kinds \subseteq {"publish", "unpublish", "enable", "enableBoth", "disable", "mute", "encrypt"}
  /\ Repeated \subseteq Kinds /\ Parallel \in BOOLEAN

VARIABLES
  conn,         \* the engine, as far as its events tell
  restarts, resumes,
  kind, target, \* per call: what it is, the track it is about
  top,          \* per call: where the call is
  turn,         \* per call: whose republishPromise it awaits
  at,           \* per call and track: where its work on the track is
  on,           \* per call and track: whose pendingPublishPromise, or republishPromise, it awaits
  req,          \* per call and track: the AddTrackRequest
  retried,      \* work that was begun again after a NegotiationError
  early,        \* history: of these, those whose error came while a restart was under way
  refused,      \* history: of these, those that met the resolver of their first attempt
  overtaken,    \* history: tracks whose pending promise another call deleted or replaced
  published,    \* per track: its entries in trackPublications
  encrypted,    \* per track: isEncrypted of its publication
  muted,        \* per track: isMuted
  made,         \* tracks made so far
  pending,      \* pendingPublishPromises: whose promise, or 0
  resolver,     \* engine.pendingTrackResolvers: whose request, or 0
  republish,    \* republishPromise: whose, or 0
  pendingPublishing, \* pendingPublishing has the camera
  encryption,   \* encryptionType is not NONE
  onServer, mutedOnServer  \* what the server's session knows of a track

engineVars == <<conn, restarts, resumes>>
callVars   == <<kind, target, top, turn>>
workVars   == <<at, on, req, retried, early, refused, overtaken>>
trackVars  == <<published, encrypted, muted, made>>
shared     == <<pending, resolver, republish, pendingPublishing, encryption>>
server     == <<onServer, mutedOnServer>>
removed    == <<published, encrypted, onServer, mutedOnServer>>
vars == <<engineVars, callVars, workVars, trackVars, shared, server>>

\* Where publishPromise of publishOrRepublishTrack is not settled.
InFlight == {"signal", "dims", "both", "answer", "negotiate", "undo"}
Failed   == {"failed", "late"}
Over     == {"none", "done"} \union Failed
Places   == InFlight \union Over
            \union {"held", "removing", "reacquire", "reconnect", "republish", "pending", "next"}
Tops     == {"idle", "work", "gate", "poll", "join", "create", "publishing", "flush", "turn",
             "all", "done", "failed"}

NoOwners  == [t \in Tracks |-> 0]
NoRequest == [enc |-> FALSE, muted |-> FALSE, sent |-> FALSE]

Init ==
  /\ conn = "initial" /\ restarts = 0 /\ resumes = 0
  /\ kind = [c \in Calls |-> IF c \in AppCalls THEN "none" ELSE "room"]
  /\ target = [c \in Calls |-> 0] /\ top = [c \in Calls |-> "idle"]
  /\ turn = [c \in Calls |-> 0]
  /\ at = [c \in Calls |-> [t \in Tracks |-> "none"]]
  /\ on = [c \in Calls |-> [t \in Tracks |-> 0]]
  /\ req = [c \in Calls |-> [t \in Tracks |-> NoRequest]]
  /\ retried = {} /\ early = {} /\ refused = {} /\ overtaken = {}
  /\ published = [t \in Tracks |-> 0] /\ encrypted = [t \in Tracks |-> FALSE]
  /\ muted = [t \in Tracks |-> FALSE] /\ made = 1
  /\ pending = [t \in Tracks |-> 0] /\ resolver = [t \in Tracks |-> 0]
  /\ republish = 0 /\ pendingPublishing = FALSE /\ encryption = FALSE
  /\ onServer = [t \in Tracks |-> FALSE] /\ mutedOnServer = [t \in Tracks |-> FALSE]

-----------------------------------------------------------------------------
(* Promises. *)

Reconnecting == conn \in {"resuming", "restarting"}   \* reconnectFuture is pending
Signalling   == conn \in {"up", "rejoined"}           \* the signal client is CONNECTED

Republishes(c) == kind[c] \in {"room", "encrypt"}

Settled(d, t)  == d \in Calls => at[d][t] \notin InFlight
Rejected(d, t) == d \in Calls /\ at[d][t] \in Failed \union {"next"}

TurnOver(d) == top[d] # "all"

Fell(c)     == \E t \in Tracks : at[c][t] \in Failed
Finished(c) == \A t \in Tracks : at[c][t] \in {"none", "done"}

WorkWoken(c, t) ==
  \/ at[c][t] = "reconnect" /\ ~Reconnecting
  \/ at[c][t] = "republish" /\ TurnOver(on[c][t])
  \/ at[c][t] \in {"held", "pending"} /\ Settled(on[c][t], t)
  \/ at[c][t] \in {"signal", "late"} /\ conn \notin {"initial", "closed"}

CallWoken(c) ==
  \/ top[c] \in {"gate", "turn"} /\ TurnOver(turn[c])
  \/ top[c] = "all" /\ (Fell(c) \/ Finished(c))
  \/ top[c] = "publishing" /\ at[c][target[c]] \in Over
  \/ top[c] = "join" /\ Settled(on[c][target[c]], target[c])
  \/ top[c] = "flush" /\ \/ \A t \in Tracks : Settled(on[c][t], t)
                         \/ \E t \in Tracks : Rejected(on[c][t], t)

\* Nobody waits for a promise that is settled.
Drained == \A c \in Calls : ~CallWoken(c) /\ \A t \in Tracks : ~WorkWoken(c, t)

Goes(c, t, to) == at' = [at EXCEPT ![c][t] = to]
CallGoes(c, to) == top' = [top EXCEPT ![c] = to]
Awaits(c, t, d) == on' = [on EXCEPT ![c][t] = d]

-----------------------------------------------------------------------------
(* publishOrRepublishTrack *)

\* Nothing is kept of a request that is over, but for one the server still has.
Drops(c, t) == req' = IF req[c][t].sent THEN req ELSE [req EXCEPT ![c][t] = NoRequest]

\* The finally of publishOrRepublishTrack: whoever's promise is there is deleted.
Forgets(c, t) ==
  /\ pending' = [pending EXCEPT ![t] = 0]
  /\ overtaken' = IF pending[t] \in {0, c} THEN overtaken ELSE overtaken \union {t}

\* A call that ends before it has a promise of its own comes to that finally only if it is
\* a retry, which is made inside the try of its first attempt.
Leaves(c, t) ==
  IF <<c, t>> \in retried THEN Forgets(c, t) ELSE UNCHANGED <<pending, overtaken>>

\* The promise of a publication is stored; by one that has waited, over whoever's is there.
Stores(c, t) ==
  /\ pending' = [pending EXCEPT ![t] = c]
  /\ overtaken' = IF pending[t] # 0 /\ at[c][t] = "pending"
                  THEN overtaken \union {t} ELSE overtaken

\* publish() up to the dimensions: without permission it throws.
Publishes(c, t) ==
  \/ /\ Goes(c, t, "dims")
     /\ req' = [req EXCEPT ![c][t] = [@ EXCEPT !.enc = encryption, !.muted = muted[t]]]
     /\ IF at[c][t] = "signal" THEN UNCHANGED <<pending, overtaken>> ELSE Stores(c, t)
  \/ /\ Goes(c, t, "failed") /\ Forgets(c, t) /\ UNCHANGED req

\* After the waits: a published track is skipped; the promise of a new publication waits
\* for the signal connection first.
Begins(c, t) ==
  \/ /\ published[t] > 0 /\ Goes(c, t, "done") /\ Leaves(c, t) /\ UNCHANGED req
  \/ /\ published[t] = 0 /\ Signalling /\ Publishes(c, t)
  \/ /\ published[t] = 0 /\ ~Signalling
     /\ Goes(c, t, "signal") /\ Stores(c, t) /\ UNCHANGED req

\* Mutant: a publication of the track that is under way is not waited for.
AwaitsPendingNot(c, t) == Begins(c, t) /\ Awaits(c, t, 0)

\* `if (isLocalTrack(track) && this.pendingPublishPromises.has(track))`: one wait, no loop.
AwaitsPending(c, t) ==
  \/ /\ pending[t] # 0 /\ Goes(c, t, "pending")
     /\ Awaits(c, t, pending[t]) /\ UNCHANGED <<req, pending, overtaken>>
  \/ /\ pending[t] = 0 /\ Begins(c, t) /\ Awaits(c, t, 0)

\* The call goes on when the promise it awaits is settled.
WorkWakes(c, t) ==
  /\ WorkWoken(c, t)
  /\ \/ /\ \/ at[c][t] = "reconnect" /\ (republish = 0 \/ Republishes(c))
           \/ at[c][t] = "republish" /\ top[on[c][t]] # "failed"
        /\ AwaitsPending(c, t)
     \/ /\ at[c][t] = "reconnect" /\ republish # 0 /\ ~Republishes(c)
        /\ Goes(c, t, "republish") /\ Awaits(c, t, republish)
        /\ UNCHANGED <<req, pending, overtaken>>
     \/ /\ at[c][t] = "pending" /\ ~Rejected(on[c][t], t) /\ Begins(c, t) /\ Awaits(c, t, 0)
     \/ /\ \/ at[c][t] = "republish" /\ top[on[c][t]] = "failed"
           \/ at[c][t] \in {"held", "pending"} /\ Rejected(on[c][t], t)
        /\ Goes(c, t, "failed") /\ Awaits(c, t, 0) /\ Leaves(c, t) /\ UNCHANGED req
     \/ /\ at[c][t] = "signal" /\ Publishes(c, t) /\ UNCHANGED on
  /\ UNCHANGED <<engineVars, callVars, retried, early, refused, trackVars, resolver, republish,
                 pendingPublishing, encryption, server>>

\* 15 s without a signal connection: the promise is rejected and the track stopped, while
\* its executor still waits for the connection.
SignalTimesOut(c, t) ==
  /\ at[c][t] = "signal" /\ Drained
  /\ Goes(c, t, "late") /\ Forgets(c, t)
  /\ UNCHANGED <<engineVars, callVars, on, req, retried, early, refused, trackVars, resolver,
                 republish, pendingPublishing, encryption, server>>

\* Mutant: the executor does not look at publicationTimedOut.
LateWakesCareless(c, t) ==
  /\ at[c][t] = "late" /\ conn \notin {"initial", "closed"}
  /\ Publishes(c, t)
  /\ UNCHANGED <<engineVars, callVars, on, retried, early, refused, trackVars, resolver, republish,
                 pendingPublishing, encryption, server>>

\* The connection comes after all: publicationTimedOut ends the executor.
LateWakes(c, t) ==
  /\ at[c][t] = "late" /\ conn \notin {"initial", "closed"}
  /\ Goes(c, t, "failed")
  /\ UNCHANGED <<engineVars, callVars, on, req, retried, early, refused, overtaken, trackVars, shared, server>>

\* The dimensions are known: addTrack, and with it the offer where they go together. A
\* request that meets another one for its track is refused; one that is made while the
\* session is replaced is sent to nobody, and there is no publisher to offer with.
Asks(c, t) ==
  /\ at[c][t] = "dims" /\ Drained
  /\ \/ /\ conn = "closed" \/ resolver[t] # 0
        /\ Goes(c, t, "failed") /\ Forgets(c, t) /\ Drops(c, t)
        /\ refused' = IF conn # "closed" /\ resolver[t] = c
                      THEN refused \union {<<c, t>>} ELSE refused
        /\ UNCHANGED resolver
     \/ /\ conn # "closed" /\ resolver[t] = 0
        /\ resolver' = [resolver EXCEPT ![t] = c]
        /\ req' = [req EXCEPT ![c][t].sent = conn # "restarting"]
        /\ IF Parallel /\ conn = "restarting"
           THEN Goes(c, t, "failed") /\ Forgets(c, t)
           ELSE Goes(c, t, IF Parallel THEN "both" ELSE "answer") /\ UNCHANGED <<pending, overtaken>>
        /\ UNCHANGED refused
  /\ UNCHANGED <<engineVars, callVars, on, retried, early, trackVars, republish,
                 pendingPublishing, encryption, server>>

\* publish() after its awaits: the publication, its sid and its place in the map.
Adds(c, t) ==
  /\ published' = [published EXCEPT ![t] = @ + 1]
  /\ encrypted' = [encrypted EXCEPT ![t] = req[c][t].enc]

\* TrackPublishedResponse: it answers whoever's resolver the track has, or nobody.
ServerAnswers(c, t) ==
  LET d == resolver[t] IN
  /\ req[c][t].sent /\ Signalling /\ Drained
  /\ onServer' = [onServer EXCEPT ![t] = TRUE]
  /\ mutedOnServer' = [mutedOnServer EXCEPT ![t] = req[c][t].muted]
  /\ resolver' = [resolver EXCEPT ![t] = 0]
  /\ \/ /\ d # 0 /\ (at[d][t] = "both" \/ (at[d][t] = "answer" /\ ~Parallel))
        /\ Goes(d, t, "negotiate") /\ UNCHANGED <<published, encrypted, pending, overtaken>>
     \/ /\ d # 0 /\ at[d][t] = "answer" /\ Parallel
        /\ Goes(d, t, "done") /\ Adds(d, t) /\ Forgets(d, t)
     \/ /\ d \in Calls => at[d][t] \notin {"both", "answer"}
        /\ UNCHANGED <<at, published, encrypted, pending, overtaken>>
  /\ req' = [req EXCEPT ![c][t] = IF at'[c][t] \in InFlight
                                THEN [@ EXCEPT !.sent = FALSE] ELSE NoRequest]
  /\ UNCHANGED <<engineVars, callVars, on, retried, early, refused, muted, made, republish,
                 pendingPublishing, encryption>>

\* 10 s without an answer: the sender is taken out again, with a negotiation of its own.
ResolverTimesOut(t) ==
  LET c == resolver[t] IN
  /\ c # 0 /\ Drained /\ resolver' = [resolver EXCEPT ![t] = 0]
  /\ IF at[c][t] \in {"both", "answer"} THEN Goes(c, t, "undo") ELSE UNCHANGED at
  /\ UNCHANGED <<engineVars, callVars, on, req, retried, early, refused, overtaken, trackVars, pending,
                 republish, pendingPublishing, encryption, server>>

\* engine.negotiate() resolves.
Negotiated(c, t) ==
  /\ at[c][t] \in {"both", "negotiate", "undo"} /\ Signalling /\ Drained
  /\ \/ /\ at[c][t] = "both" /\ Goes(c, t, "answer") /\ UNCHANGED <<published, encrypted, pending, req, overtaken>>
     \/ /\ at[c][t] = "negotiate"
        /\ Goes(c, t, "done") /\ Adds(c, t) /\ Forgets(c, t) /\ Drops(c, t)
     \/ /\ at[c][t] = "undo"
        /\ Goes(c, t, "failed") /\ Forgets(c, t) /\ Drops(c, t) /\ UNCHANGED <<published, encrypted>>
  /\ UNCHANGED <<engineVars, callVars, on, retried, early, refused, muted, made, resolver,
                 republish, pendingPublishing, encryption, server>>

\* engine.negotiate() rejects with a NegotiationError: once, the publication waits for the
\* restart that the engine now needs and is begun again.
NegotiationFails(c, t) ==
  /\ at[c][t] \in {"both", "negotiate"} /\ Signalling /\ Drained
  /\ Forgets(c, t) /\ Drops(c, t)
  /\ IF <<c, t>> \in retried
     THEN Goes(c, t, "failed") /\ UNCHANGED <<retried, early>>
     ELSE /\ Goes(c, t, "next") /\ retried' = retried \union {<<c, t>>}
          /\ early' = IF conn = "rejoined" THEN early \union {<<c, t>>} ELSE early
  /\ UNCHANGED <<engineVars, callVars, on, refused, trackVars, resolver, republish,
                 pendingPublishing, encryption, server>>

\* waitForNextEngineRestart: 15 s without a restart.
RestartTimesOut(c, t) ==
  /\ at[c][t] = "next" /\ Drained /\ Goes(c, t, "failed") /\ Leaves(c, t)
  /\ UNCHANGED <<engineVars, callVars, on, req, retried, early, refused, trackVars, resolver,
                 republish, pendingPublishing, encryption, server>>

-----------------------------------------------------------------------------
(* unpublishTrack and republishAllTracks *)

\* The statements of unpublishTrack up to its negotiation, for the tracks ts.
Removes(ts) ==
  /\ published' = [t \in Tracks |-> IF t \in ts THEN published[t] - 1 ELSE published[t]]
  /\ encrypted' = [t \in Tracks |-> encrypted[t] /\ t \notin ts]
  /\ onServer' = [t \in Tracks |-> onServer[t] /\ t \notin ts]
  /\ mutedOnServer' = [t \in Tracks |-> mutedOnServer[t] /\ t \notin ts]

\* Where unpublishTrack(t) is after its first statements; with a promise to wait for, the
\* look into the map comes afterwards.
RemovalBegins(t) ==
  IF pending[t] # 0 THEN "held" ELSE IF published[t] > 0 THEN "removing" ELSE "done"

\* What follows unpublishTrack: after a full reconnect a track that is not muted is acquired
\* again before it is published.
AfterRemoval(c, t) ==
  IF ~Republishes(c) THEN "done"
  ELSE IF kind[c] = "room" /\ ~muted[t] THEN "reacquire" ELSE "reconnect"

\* The promise that unpublishTrack waited for was kept.
RemovalWakes(c, t) ==
  /\ at[c][t] = "held" /\ WorkWoken(c, t) /\ ~Rejected(on[c][t], t)
  /\ IF published[t] > 0 THEN Goes(c, t, "removing") /\ Removes({t})
     ELSE Goes(c, t, AfterRemoval(c, t)) /\ UNCHANGED removed
  /\ UNCHANGED <<engineVars, callVars, on, req, retried, early, refused, overtaken, muted, made, shared>>

\* The negotiation of unpublishTrack is over, or there was none to do.
Removed(c, t) ==
  /\ at[c][t] = "removing" /\ Drained
  /\ \/ Goes(c, t, AfterRemoval(c, t))
     \/ Signalling /\ Goes(c, t, "failed")
  /\ UNCHANGED <<engineVars, callVars, on, req, retried, early, refused, overtaken, trackVars, shared, server>>

\* restartTrack: the device is there, or it is not.
Reacquired(c, t) ==
  /\ at[c][t] = "reacquire" /\ Drained
  /\ Goes(c, t, "reconnect") \/ Goes(c, t, "failed")
  /\ UNCHANGED <<engineVars, callVars, on, req, retried, early, refused, overtaken, trackVars, shared, server>>

\* The executor of republishAllTracks: every published track is taken down first.
Republish(c) ==
  LET ts == {t \in Tracks : published[t] > 0} IN
  /\ republish' = c /\ CallGoes(c, "all")
  /\ at' = [at EXCEPT ![c] = [t \in Tracks |-> IF t \in ts THEN RemovalBegins(t) ELSE "none"]]
  /\ on' = [on EXCEPT ![c] = [t \in Tracks |-> IF t \in ts THEN pending[t] ELSE 0]]
  /\ Removes({t \in ts : pending[t] = 0})

\* `if (this.republishPromise) await this.republishPromise`: one wait, no loop.
RepublishAll(c) ==
  \/ /\ republish # 0 /\ CallGoes(c, "turn") /\ turn' = [turn EXCEPT ![c] = republish]
     /\ on' = [on EXCEPT ![c] = NoOwners] /\ UNCHANGED <<at, removed, republish>>
  \/ /\ republish = 0 /\ Republish(c) /\ UNCHANGED turn

\* The promise it waited for is settled; a rejection is its own.
TurnComes(c) ==
  /\ top[c] = "turn" /\ CallWoken(c) /\ turn' = [turn EXCEPT ![c] = 0]
  /\ IF top[turn[c]] = "failed"
     THEN CallGoes(c, "failed") /\ UNCHANGED <<at, on, removed, republish>>
     ELSE Republish(c)
  /\ UNCHANGED <<engineVars, kind, target, req, retried, early, refused, overtaken, muted, made,
                 pending, resolver, pendingPublishing, encryption>>

\* Its tracks are published again, or one of them failed and the others go on by themselves.
Republished(c) ==
  /\ top[c] = "all" /\ CallWoken(c)
  /\ CallGoes(c, IF Fell(c) THEN "failed" ELSE "done")
  /\ republish' = 0
  /\ UNCHANGED <<engineVars, kind, target, turn, workVars, trackVars, pending, resolver,
                 pendingPublishing, encryption, server>>

-----------------------------------------------------------------------------
(* What the application calls. *)

IsNext(c, k) ==
  /\ c \in AppCalls /\ kind[c] = "none" /\ k \in Kinds /\ Drained
  /\ \A d \in AppCalls : d < c => kind[d] # "none"
  /\ kind' = [kind EXCEPT ![c] = k]
  /\ c > 2 => \A d \in 1..c : kind'[d] \in Repeated

Publish(c, t) ==
  /\ IsNext(c, "publish") /\ t = 1
  /\ target' = [target EXCEPT ![c] = t] /\ CallGoes(c, "work") /\ Goes(c, t, "reconnect")
  /\ UNCHANGED <<engineVars, turn, on, req, retried, early, refused, overtaken, trackVars, shared, server>>

Unpublish(c, t) ==
  /\ IsNext(c, "unpublish") /\ t <= made
  /\ target' = [target EXCEPT ![c] = t] /\ CallGoes(c, "work")
  /\ Goes(c, t, RemovalBegins(t)) /\ Awaits(c, t, pending[t])
  /\ Removes({t} \intersect {u \in Tracks : published[u] > 0 /\ pending[u] = 0})
  /\ UNCHANGED <<engineVars, turn, req, retried, early, refused, overtaken, muted, made, shared>>

\* setTrackEnabled waits for a republish once; enableCameraAndMicrophone does not.
Enable(c, k) ==
  /\ k \in {"enable", "disable"} /\ IsNext(c, k)
  /\ CallGoes(c, "gate") /\ turn' = [turn EXCEPT ![c] = IF republish = 0 THEN c ELSE republish]
  /\ UNCHANGED <<engineVars, target, workVars, trackVars, shared, server>>

EnableBoth(c) ==
  /\ IsNext(c, "enableBoth")
  /\ IF pendingPublishing THEN CallGoes(c, "done") ELSE CallGoes(c, "create")
  /\ pendingPublishing' = TRUE
  /\ UNCHANGED <<engineVars, target, turn, workVars, trackVars, pending, resolver, republish,
                 encryption, server>>

\* getTrackPublication(source)
Cameras == {t \in Tracks : published[t] > 0}

\* mute() and unmute(): the server is told by the sid of the publication, if there is one.
SetMuted(t, m) ==
  /\ muted' = [muted EXCEPT ![t] = m]
  /\ mutedOnServer' = IF onServer[t] /\ published[t] > 0
                      THEN [mutedOnServer EXCEPT ![t] = m] ELSE mutedOnServer

\* mute() of the track itself, published or not.
Mute(c, t) ==
  /\ IsNext(c, "mute") /\ t <= made
  /\ CallGoes(c, "done") /\ SetMuted(t, ~muted[t])
  /\ UNCHANGED <<engineVars, target, turn, workVars, published, encrypted, made, shared, onServer>>

\* setTrackEnabled after its first wait.
GateOpens(c) ==
  /\ top[c] = "gate" /\ CallWoken(c) /\ turn' = [turn EXCEPT ![c] = 0]
  /\ \/ /\ top[turn[c]] = "failed" /\ CallGoes(c, "failed")
        /\ UNCHANGED <<muted, mutedOnServer, pendingPublishing>>
     \/ /\ top[turn[c]] # "failed" /\ Cameras # {}
        /\ \E t \in Cameras : SetMuted(t, kind[c] = "disable")
        /\ CallGoes(c, "done") /\ UNCHANGED pendingPublishing
     \/ /\ top[turn[c]] # "failed" /\ Cameras = {} /\ pendingPublishing
        /\ CallGoes(c, "poll") /\ UNCHANGED <<muted, mutedOnServer, pendingPublishing>>
     \/ /\ top[turn[c]] # "failed" /\ Cameras = {} /\ ~pendingPublishing
        /\ CallGoes(c, IF kind[c] = "enable" THEN "create" ELSE "done")
        /\ pendingPublishing' = (kind[c] = "enable") /\ UNCHANGED <<muted, mutedOnServer>>
  /\ UNCHANGED <<engineVars, kind, target, workVars, published, encrypted, made,
                 pending, resolver, republish, encryption, onServer>>

\* waitForPendingPublicationOfSource: every 20 ms, for 10 s.
Polls(c) ==
  /\ top[c] = "poll" /\ Drained
  /\ \/ \E t \in Tracks :
          /\ pending[t] # 0 /\ CallGoes(c, "join") /\ target' = [target EXCEPT ![c] = t]
          /\ Awaits(c, t, pending[t])
     \/ /\ \A t \in Tracks : pending[t] = 0
        /\ CallGoes(c, "done") /\ UNCHANGED <<target, on>>
  /\ UNCHANGED <<engineVars, kind, turn, at, req, retried, early, refused, overtaken, trackVars, shared, server>>

\* The publication it found is there, or failed.
Joins(c) ==
  LET t == target[c] IN
  /\ top[c] = "join" /\ CallWoken(c) /\ Awaits(c, t, 0)
  /\ IF Rejected(on[c][t], t)
     THEN CallGoes(c, "failed") /\ UNCHANGED <<muted, mutedOnServer>>
     ELSE CallGoes(c, "done") /\ SetMuted(t, kind[c] = "disable")
  /\ UNCHANGED <<engineVars, kind, target, turn, at, req, retried, early, refused, overtaken, published, encrypted, made, shared,
                 onServer>>

\* Mutant: the camera that could not be opened stays in pendingPublishing.
CreatesCareless(c) ==
  /\ top[c] = "create" /\ Drained
  /\ \/ /\ made < MaxTracks /\ made' = made + 1
        /\ target' = [target EXCEPT ![c] = made'] /\ CallGoes(c, "publishing")
        /\ Goes(c, made', "reconnect")
     \/ CallGoes(c, "failed") /\ UNCHANGED <<made, target, at>>
  /\ UNCHANGED <<engineVars, kind, turn, on, req, retried, early, refused, overtaken, published, encrypted,
                 muted, pending, resolver, republish, pendingPublishing, encryption, server>>

\* createTracks, and the publication of what it made.
Creates(c) ==
  /\ top[c] = "create" /\ Drained
  /\ \/ /\ made < MaxTracks /\ made' = made + 1
        /\ target' = [target EXCEPT ![c] = made'] /\ CallGoes(c, "publishing")
        /\ Goes(c, made', "reconnect") /\ UNCHANGED pendingPublishing
     \/ /\ CallGoes(c, "failed") /\ pendingPublishing' = FALSE /\ UNCHANGED <<made, target, at>>
  /\ UNCHANGED <<engineVars, kind, turn, on, req, retried, early, refused, overtaken, published, encrypted,
                 muted, pending, resolver, republish, encryption, server>>

\* The finally of setTrackEnabled.
EnableEnds(c) ==
  /\ top[c] = "publishing" /\ CallWoken(c)
  /\ CallGoes(c, IF at[c][target[c]] = "done" THEN "done" ELSE "failed")
  /\ pendingPublishing' = FALSE
  /\ UNCHANGED <<engineVars, kind, target, turn, workVars, trackVars, pending, resolver,
                 republish, encryption, server>>

\* setE2EEEnabled(true) up to the wait for the publications under way.
Encrypt(c) ==
  /\ IsNext(c, "encrypt") /\ ~encryption
  /\ encryption' = TRUE /\ CallGoes(c, "flush") /\ on' = [on EXCEPT ![c] = pending]
  /\ UNCHANGED <<engineVars, target, turn, at, req, retried, early, refused, overtaken, trackVars, pending,
                 resolver, republish, pendingPublishing, server>>

\* They are over: what is published with the other type is published again. One that
\* failed fails the call.
Flushed(c) ==
  /\ top[c] = "flush" /\ CallWoken(c)
  /\ \/ /\ \E t \in Tracks : Rejected(on[c][t], t)
        /\ CallGoes(c, "failed") /\ on' = [on EXCEPT ![c] = NoOwners]
        /\ UNCHANGED <<turn, at, removed, republish>>
     \/ /\ \A t \in Tracks : ~Rejected(on[c][t], t)
        /\ \A t \in Cameras : encrypted[t]
        /\ CallGoes(c, "done") /\ on' = [on EXCEPT ![c] = NoOwners]
        /\ UNCHANGED <<turn, at, removed, republish>>
     \/ /\ \A t \in Tracks : ~Rejected(on[c][t], t)
        /\ \E t \in Cameras : ~encrypted[t]
        /\ RepublishAll(c)
  /\ UNCHANGED <<engineVars, kind, target, req, retried, early, refused, overtaken, muted, made,
                 pending, resolver, pendingPublishing, encryption>>

-----------------------------------------------------------------------------
(* The engine's events and the server. *)

Joined ==
  /\ conn = "initial" /\ Drained /\ conn' = "up"
  /\ UNCHANGED <<restarts, resumes, callVars, workVars, trackVars, shared, server>>

Resuming ==
  /\ conn = "up" /\ Drained /\ restarts + resumes < MaxReconnects
  /\ conn' = "resuming" /\ resumes' = resumes + 1
  /\ UNCHANGED <<restarts, callVars, workVars, trackVars, shared, server>>

Resumed ==
  /\ conn = "resuming" /\ Drained /\ conn' = "up"
  /\ UNCHANGED <<restarts, resumes, callVars, workVars, trackVars, shared, server>>

\* Negotiations resolve without having happened, the resolvers are rejected, and those who
\* wait for what will not come fail (`gone`).
CutOff(gone, adds) ==
  LET Ends(c, t) == at[c][t] = "negotiate"
      Dies(c, t) == at[c][t] \in gone \union {"both", "answer", "undo"}
      Forgot(c, t) == Ends(c, t) \/ (Dies(c, t) /\ at[c][t] # "late"
                                    /\ (at[c][t] \in InFlight \/ <<c, t>> \in retried))
  IN /\ at' = [c \in Calls |-> [t \in Tracks |->
                 IF Ends(c, t) THEN "done" ELSE IF Dies(c, t) THEN "failed" ELSE at[c][t]]]
     /\ pending' = [t \in Tracks |->
                      IF \E c \in Calls : Forgot(c, t) THEN 0 ELSE pending[t]]
     /\ overtaken' = overtaken \union
          {t \in Tracks : pending'[t] # pending[t] /\ ~Forgot(pending[t], t)}
     /\ published' = [t \in Tracks |->
                        adds[t] + Cardinality({c \in Calls : Ends(c, t)})]
     /\ encrypted' = [t \in Tracks |->
                        IF \E c \in Calls : Ends(c, t)
                        THEN \E c \in Calls : Ends(c, t) /\ req[c][t].enc ELSE encrypted[t] /\ adds[t] > 0]
     /\ req' = [c \in Calls |-> [t \in Tracks |->
                 IF at[c][t] = "dims" THEN [req[c][t] EXCEPT !.sent = FALSE] ELSE NoRequest]]
     /\ onServer' = [t \in Tracks |-> FALSE] /\ mutedOnServer' = [t \in Tracks |-> FALSE]
     /\ UNCHANGED <<callVars, on, muted, made, republish, pendingPublishing, encryption,
                    refused, early, retried>>

\* Restarting, and the cleanup of transports and client that follows it.
Restarting ==
  /\ conn \in {"up", "resuming", "rejoined"} /\ Drained /\ restarts + resumes < MaxReconnects
  /\ conn' = "restarting" /\ restarts' = restarts + 1
  /\ CutOff({}, published)
  /\ resolver' = [t \in Tracks |-> 0] /\ UNCHANGED resumes

\* The new session: the wait for the reconnect is over, and the room republishes.
SignalRestarted ==
  /\ conn = "restarting" /\ Drained /\ conn' = "rejoined"
  /\ RepublishAll(MaxCalls + restarts)
  /\ UNCHANGED <<restarts, resumes, kind, target, req, retried, early, refused, overtaken, muted, made,
                 pending, resolver, pendingPublishing, encryption>>

\* The restart is complete: publications that waited for it begin again.
Restarted ==
  /\ conn = "rejoined" /\ Drained /\ conn' = "up"
  /\ at' = [c \in Calls |-> [t \in Tracks |->
              IF at[c][t] = "next" THEN "reconnect" ELSE at[c][t]]]
  /\ UNCHANGED <<restarts, resumes, callVars, on, req, retried, early, refused, overtaken, trackVars, shared, server>>

\* The room disconnects: the engine closes and the maps are cleared. When the engine gives
\* up the maps are cleared first, and what a negotiation then lets through stays in them.
Closes ==
  /\ conn # "closed" /\ Drained /\ conn' = "closed"
  /\ LET gone == {"next"} \union (IF Reconnecting THEN {"reconnect"} ELSE {})
                          \union (IF conn = "initial" THEN {"signal", "late"} ELSE {})
     IN \/ CutOff(gone, [t \in Tracks |-> 0])
        \/ CutOff(gone, [t \in Tracks |-> -Cardinality({c \in Calls : at[c][t] = "negotiate"})])
  /\ resolver' = [t \in Tracks |-> 0] /\ UNCHANGED <<restarts, resumes>>

\* Mutant: the server's copy is not compared.
OwnUpdateOnly ==
  /\ Signalling /\ Drained
  /\ \E t \in Tracks : published[t] > 0 /\ onServer[t] /\ mutedOnServer[t] # muted[t]
  /\ UNCHANGED vars

\* updateInfo with the server's view of the local participant.
OwnUpdate ==
  /\ Signalling /\ Drained
  /\ \E t \in Tracks : published[t] > 0 /\ onServer[t] /\ mutedOnServer[t] # muted[t]
  /\ mutedOnServer' = [t \in Tracks |->
       IF published[t] > 0 /\ onServer[t] THEN muted[t] ELSE mutedOnServer[t]]
  /\ UNCHANGED <<engineVars, callVars, workVars, trackVars, shared, onServer>>

-----------------------------------------------------------------------------
WorkNext(c, t) ==
  \/ WorkWakes(c, t) \/ LateWakes(c, t) \/ RemovalWakes(c, t)
  \/ SignalTimesOut(c, t) \/ Asks(c, t) \/ ServerAnswers(c, t) \/ Negotiated(c, t)
  \/ NegotiationFails(c, t) \/ RestartTimesOut(c, t) \/ Removed(c, t) \/ Reacquired(c, t)

CallNext(c) ==
  \/ \E t \in Tracks : Publish(c, t) \/ Unpublish(c, t) \/ Mute(c, t)
  \/ Enable(c, "enable") \/ Enable(c, "disable") \/ EnableBoth(c) \/ Encrypt(c)
  \/ GateOpens(c) \/ Polls(c) \/ Joins(c) \/ Creates(c) \/ EnableEnds(c)
  \/ Flushed(c) \/ TurnComes(c) \/ Republished(c)

Next ==
  \/ \E c \in Calls : CallNext(c) \/ \E t \in Tracks : WorkNext(c, t)
  \/ \E t \in Tracks : ResolverTimesOut(t)
  \/ Joined \/ Resuming \/ Resumed \/ Restarting \/ SignalRestarted \/ Restarted
  \/ Closes \/ OwnUpdate

Spec == Init /\ [][Next]_vars

\* Of each call woken continuations run, timers fire, and the browser and the engine's
\* attempts come to an end; the server goes on telling the participant about itself.
GoesOn(c) ==
  \/ GateOpens(c) \/ Polls(c) \/ Joins(c) \/ Creates(c) \/ EnableEnds(c)
  \/ Flushed(c) \/ TurnComes(c) \/ Republished(c)
  \/ \E t \in Tracks :
       \/ WorkWakes(c, t) \/ LateWakes(c, t) \/ RemovalWakes(c, t) \/ SignalTimesOut(c, t)
       \/ Asks(c, t) \/ Negotiated(c, t) \/ NegotiationFails(c, t) \/ RestartTimesOut(c, t)
       \/ Removed(c, t) \/ Reacquired(c, t) \/ (resolver[t] = c /\ ResolverTimesOut(t))

Fairness ==
  /\ \A c \in Calls : WF_vars(GoesOn(c))
  /\ WF_vars(Resumed \/ SignalRestarted \/ Restarted) /\ WF_vars(OwnUpdate)

FairSpec == Spec /\ Fairness

-----------------------------------------------------------------------------
TypeOK ==
  /\ conn \in {"initial", "up", "resuming", "restarting", "rejoined", "closed"}
  /\ restarts \in Nat /\ resumes \in Nat /\ restarts + resumes <= MaxReconnects
  /\ kind \in [Calls -> Kinds \union {"none", "room"}]
  /\ target \in [Calls -> Tracks \union {0}] /\ top \in [Calls -> Tops]
  /\ turn \in [Calls -> Calls \union {0}]
  /\ at \in [Calls -> [Tracks -> Places]] /\ on \in [Calls -> [Tracks -> Calls \union {0}]]
  /\ req \in [Calls -> [Tracks -> [enc : BOOLEAN, muted : BOOLEAN, sent : BOOLEAN]]]
  /\ retried \subseteq Calls \X Tracks /\ early \subseteq retried /\ refused \subseteq retried
  /\ overtaken \subseteq Tracks
  /\ published \in [Tracks -> Nat] /\ encrypted \in [Tracks -> BOOLEAN]
  /\ muted \in [Tracks -> BOOLEAN] /\ made \in 1..MaxTracks
  /\ pending \in [Tracks -> Calls \union {0}] /\ resolver \in [Tracks -> Calls \union {0}]
  /\ republish \in Calls \union {0} /\ pendingPublishing \in BOOLEAN
  /\ encryption \in BOOLEAN
  /\ onServer \in [Tracks -> BOOLEAN] /\ mutedOnServer \in [Tracks -> BOOLEAN]

\* A publication that is begun again after the restart it waited for does not find the
\* request of its first attempt still waiting for an answer.
RetryIsNotRefused == refused \subseteq early

\* The tracks of which a call may miss a publication that is under way: three calls overlap
\* and the promise of one was deleted or replaced by another. The finally of a call that fails
\* deletes whoever's promise is there, and of two that waited for a third neither looks again.
Unseen == IF Cardinality({c \in AppCalls : kind[c] # "none"}) > 2 THEN overtaken ELSE {}

\* Once setE2EEEnabled has returned, nothing is published with the other type: not what was
\* under way when it was called, nor what was begun while it waited; but for a publication
\* of which it found no promise.
EncryptedAsAsked ==
  (\E c \in AppCalls : kind[c] = "encrypt" /\ top[c] = "done")
    => \A t \in Cameras \ Unseen : encrypted[t]

CallOver(c) ==
  \/ top[c] \in {"idle", "done", "failed"}
  \/ top[c] = "work" /\ at[c][target[c]] \in Over

Quiet == \A c \in Calls : CallOver(c) /\ \A t \in Tracks : at[c][t] \in Over

\* When every call is over none of the shared promises and flags is left behind, whatever
\* failed on the way.
QuietIsClean ==
  Quiet => /\ pending = [t \in Tracks |-> 0] /\ republish = 0 /\ ~pendingPublishing

\* In a session that is up, what the participant lists as published is published in this
\* session, unless the room's republish failed or the track may be listed twice.
PublishedIsOnServer ==
  (Quiet /\ conn = "up" /\ \A c \in Calls \ AppCalls : top[c] # "failed")
    => \A t \in Cameras \ Unseen : onServer[t]

\* A track is in the map of publications once, however two calls and the room's republish
\* cross, and with three unless the promise of one was lost on the way.
PublishedOnce == \A t \in Tracks \ Unseen : published[t] <= 1

\* At most one call makes a camera track at a time.
OneMaker ==
  \A c, d \in AppCalls :
    /\ top[c] \in {"create", "publishing"} /\ top[d] \in {"create", "publishing"}
    => c = d

\* However calls overlap and whatever fails on the way, a retry does not meet its own first
\* attempt, one camera is made at a time, and no shared promise or flag is left behind.
PublishingIsSound == TypeOK /\ RetryIsNotRefused /\ OneMaker /\ QuietIsClean

\* What is published is in the map once, and once all is quiet it is in the session, as it
\* was asked for.
QuietIsPublished == PublishedOnce /\ EncryptedAsAsked /\ PublishedIsOnServer

\* A publication whose caller was told that it failed is not made after all.
FailedStaysFailed ==
  [][\A c \in Calls, t \in Tracks : at[c][t] \in Failed => at'[c][t] \in Failed]_vars

\* Every call of the application is answered: what is made and not answered is always
\* followed by a time at which no call is left waiting.
CallsSettle == []<>(\A c \in AppCalls : CallOver(c))

\* The server learns that a published track is muted or not, even if it was muted while it
\* was being published.
MuteReachesServer ==
  []<>(\A t \in Tracks : published[t] > 0 /\ onServer[t] => mutedOnServer[t] = muted[t])

\* Every call and every change of a mute is seen through.
EveryChangeSettles == CallsSettle /\ MuteReachesServer
=============================================================================

----------------------------- MODULE RoomSession -----------------------------
(***************************************************************************)
(* room/Room.ts as the owner of a session: connect() with its back-off and    *)
(* its other regions, disconnect(), what it does on the events of its engine, *)
(* the events it holds back while it reconnects, and the interval that looks  *)
(* for a connection that died unnoticed.                                     *)
(*                                                                         *)
(* A call c of connect() is a coroutine; pc[c] is the await it is suspended   *)
(* at. The engine that this.engine names announces what EngineSession says;   *)
(* an engine the room dropped is silent. Events that the server causes are    *)
(* numbered in the order in which they happen.                               *)
(***************************************************************************)
EXTENDS Integers, Sequences

CONSTANTS
  MaxConnects,     \* bound: calls of connect()
  MaxDisconnects,  \* bound: calls of disconnect()
  MaxFaults,       \* bound: losses, full reconnects asked for, leaves of the server
  MaxTries,        \* attempts the engine makes before it gives up
  MaxUpdates,      \* bound: events the server causes
  MaxRegions,      \* other regions the region provider knows
  Web,             \* the browser reports that the network is back
  HasEarlyTransport, \* a transport may connect while tracks are being republished
  Leave            \* names a call of disconnect() in the lock's queue

Calls == 1..MaxConnects

ASSUME BoundsAssumption ==
  /\ MaxConnects \in Nat /\ MaxDisconnects \in Nat /\ MaxFaults \in Nat
  /\ MaxTries \in Nat /\ MaxUpdates \in Nat /\ MaxRegions \in Nat
  /\ Web \in BOOLEAN /\ HasEarlyTransport \in BOOLEAN /\ Leave \notin Calls

VARIABLES
  state,          \* Room.state
  isResuming,     \* isResuming
  watch,          \* connectionReconcileInterval: its consecutive failures, or Off
  engine,         \* how far the engine this.engine names has come
  phase, owed,    \* what it announced (EngineSession)
  due,            \* its reconnect timer is armed
  pending,        \* pendingReconnect: the timer's handle is set
  timed,          \* the attempt under way was started by the timer
  link,           \* its transports and its signal connection are alive
  tries,          \* reconnectAttempts
  pc, answer,     \* per connect(): where it is, how its promise stands
  future,         \* per connect(): the call whose connectFuture it returned
  aborted,        \* per connect(): its latest AbortController is aborted
  mine,           \* per connect(): this.engine is the engine it works with
  cause,          \* per connect(): why it fails
  connectFuture,  \* the call whose future is stored, or 0
  controller,     \* the call whose controller is stored, or 0
  regions,        \* regions the provider has not handed out
  lockQueue,      \* disconnectLock: those who wait for it
  leaving,        \* where the disconnect that holds the lock is
  leaves,         \* calls of disconnect()
  republishing,   \* handleSignalRestarted calls that await republishAllTracks
  waiting,        \* one of them awaits waitForRestarted
  buffer, seen,   \* bufferedEvents; history: what the application was told
  lost,           \* history: events that were neither told nor held back
  updates, faults

roomVars   == <<state, isResuming, watch>>
engineVars == <<engine, phase, owed, due, pending, timed, link, tries>>
calls      == <<pc, answer, future, aborted, mine, cause>>
stored     == <<connectFuture, controller, regions>>
locking    == <<lockQueue, leaving, leaves>>
restarts   == <<republishing, waiting>>
events     == <<buffer, seen, lost>>
vars == <<roomVars, engineVars, calls, stored, locking, restarts, events, updates, faults>>

Off == -1

Engine == INSTANCE EngineSession

States   == {"disconnected", "connecting", "connected", "signalReconnecting", "reconnecting"}
Engines  == {"none", "new", "joining", "joined", "closed"}
PCs      == {"idle", "lock", "backoff", "join", "transport", "closing", "region", "done"}
Causes   == {"none", "cancelled", "notAllowed", "unreachable", "other"}
Leavings == {"no", "leave", "closing"}

Init ==
  /\ state = "disconnected" /\ isResuming = FALSE /\ watch = Off
  /\ engine = "new" /\ Engine!Init /\ due = FALSE /\ pending = FALSE /\ timed = FALSE
  /\ link = FALSE /\ tries = 0
  /\ pc = [c \in Calls |-> "idle"] /\ answer = [c \in Calls |-> "none"]
  /\ future = [c \in Calls |-> c] /\ aborted = [c \in Calls |-> FALSE]
  /\ mine = [c \in Calls |-> FALSE] /\ cause = [c \in Calls |-> "none"]
  /\ connectFuture = 0 /\ controller = 0 /\ regions = MaxRegions
  /\ lockQueue = <<>> /\ leaving = "no" /\ leaves = 0
  /\ republishing = 0 /\ waiting = FALSE
  /\ buffer = <<>> /\ seen = <<>> /\ lost = {} /\ updates = 0 /\ faults = 0

-----------------------------------------------------------------------------
(* What several handlers share. *)

\* An engine without an attempt, a timer or a transport.
IdleEngine(e) ==
  /\ engine' = e /\ phase' = (IF e = "closed" THEN "ended" ELSE "steady") /\ owed' = FALSE
  /\ due' = FALSE /\ pending' = FALSE /\ timed' = FALSE /\ link' = FALSE /\ tries' = 0
  /\ waiting' = FALSE

\* engine.close(): an engine that has not joined yet counts as closed already.
EngineClosed ==
  IF engine = "joined" THEN IdleEngine("closed") ELSE UNCHANGED <<engineVars, waiting>>

\* recreateEngine
RecreateEngine ==
  /\ IdleEngine("new") /\ mine' = [c \in Calls |-> FALSE]
  /\ isResuming' = FALSE /\ buffer' = <<>> /\ UNCHANGED <<seen, lost>>

\* handleDisconnect: a room that is disconnected already is cleared all the same.
HandleDisconnect ==
  /\ state' = "disconnected" /\ isResuming' = FALSE
  /\ watch' = Off /\ buffer' = <<>> /\ UNCHANGED <<seen, lost>>

\* emitBufferedEvents
Flush == seen' = seen \o buffer /\ buffer' = <<>> /\ UNCHANGED lost

\* The last statements of handleSignalRestarted.
BackOnline == state' = "connected" /\ watch' = 0 /\ Flush

\* Whoever was given the future of call f learns how it ended; the first answer counts.
Settle(f, how) ==
  [c \in Calls |-> IF future[c] = f /\ answer[c] = "pending" THEN how ELSE answer[c]]

UnderWay(c) == pc[c] \notin {"idle", "lock", "done"}

Goes(c, to) == pc' = [pc EXCEPT ![c] = to]

Because(c, why) == cause' = [cause EXCEPT ![c] = why]

\* connectFn's catch without another region to try. The future clears what is stored when
\* it settles for the first time.
GivesUp(c) ==
  /\ HandleDisconnect
  /\ answer' = Settle(c, "rejected")
  /\ connectFuture' = IF answer[c] = "pending" THEN 0 ELSE connectFuture
  /\ Goes(c, "done") /\ Because(c, "none")

\* connectFn's catch: errors that are not ConnectionErrors, cancellation and a refused token
\* end the attempt, the others ask for a region where there is a provider.
Caught(c, why) ==
  \/ /\ MaxRegions > 0 /\ why = "unreachable"
     /\ Goes(c, "region") /\ Because(c, why)
     /\ UNCHANGED <<state, watch, answer, connectFuture>>
  \/ /\ MaxRegions = 0 \/ why # "unreachable"
     /\ GivesUp(c)

-----------------------------------------------------------------------------
(* connect() *)

Connect(c) ==
  /\ pc[c] = "idle" /\ \A d \in Calls : d < c => pc[d] # "idle"
  /\ Goes(c, "lock") /\ answer' = [answer EXCEPT ![c] = "pending"]
  /\ lockQueue' = Append(lockQueue, c)
  /\ UNCHANGED <<roomVars, engineVars, future, aborted, mine, cause, stored, leaving,
                 leaves, restarts, events, updates, faults>>

\* The first statements of connectFn.
TakesController(c) ==
  /\ aborted' = [d \in Calls |-> d # c /\ (aborted[d] \/ controller = d)]
  /\ controller' = c

\* connect() once it holds the lock, up to the back-off.
ConnectEnters(c) ==
  /\ pc[c] = "lock" /\ lockQueue # <<>> /\ leaving = "no" /\ Head(lockQueue) = c
  /\ lockQueue' = Tail(lockQueue)
  /\ \/ /\ state = "connected"
        /\ answer' = [answer EXCEPT ![c] = "resolved"] /\ Goes(c, "done")
        /\ UNCHANGED <<state, future, aborted, connectFuture, controller>>
     \/ /\ state # "connected" /\ connectFuture # 0
        /\ future' = [future EXCEPT ![c] = connectFuture] /\ Goes(c, "done")
        /\ UNCHANGED <<state, answer, aborted, connectFuture, controller>>
     \/ /\ state # "connected" /\ connectFuture = 0
        /\ state' = "connecting" /\ connectFuture' = c
        /\ TakesController(c) /\ Goes(c, "backoff")
        /\ UNCHANGED <<answer, future>>
  /\ UNCHANGED <<isResuming, watch, engineVars, mine, cause, regions, leaving, leaves,
                 restarts, events, updates, faults>>

\* The back-off is over: the attempt was cancelled, or it joins. maybeCreateEngine keeps an
\* engine that is new or has joined; a reconnection attempt is replaced.
BackOffEnds(c) ==
  /\ pc[c] = "backoff"
  /\ \/ /\ aborted[c]
        /\ GivesUp(c)
        /\ UNCHANGED <<engineVars, mine, waiting>>
     \/ /\ ~aborted[c] /\ (state = "reconnecting" \/ isResuming \/ pending)
        /\ IdleEngine("joining") /\ mine' = [d \in Calls |-> d = c]
        /\ isResuming' = FALSE /\ buffer' = <<>> /\ Goes(c, "join")
        /\ UNCHANGED <<state, watch, answer, connectFuture, cause, seen, lost>>
     \/ /\ ~aborted[c] /\ state # "reconnecting" /\ ~isResuming /\ ~pending
        /\ IdleEngine("joining")
        /\ mine' = [d \in Calls |-> d = c \/ (mine[d] /\ engine \in {"new", "joined"})]
        /\ Goes(c, "join")
        /\ UNCHANGED <<roomVars, answer, connectFuture, cause, events>>
  /\ UNCHANGED <<future, aborted, controller, regions, locking, republishing, updates, faults>>

\* attemptConnection goes on with whatever this.engine names now.
Proceeds(c, e) ==
  \/ /\ e = "none" /\ Caught(c, "other")
  \/ /\ e = "joined" /\ ~aborted[c]
     /\ Goes(c, "transport")
     /\ UNCHANGED <<roomVars, answer, cause, connectFuture, events>>
  \/ /\ e # "none" /\ (aborted[c] \/ e # "joined")
     /\ Goes(c, "closing") /\ Because(c, IF aborted[c] THEN "cancelled" ELSE "other")
     /\ UNCHANGED <<roomVars, answer, connectFuture, events>>

\* connectSignal returns, though the attempt may be cancelled and its engine dropped.
JoinSucceeds(c) ==
  /\ pc[c] = "join"
  /\ \/ /\ mine[c]
        /\ engine' = "joined" /\ link' = TRUE
        /\ UNCHANGED <<phase, owed, due, pending, timed, tries, mine>>
     \/ /\ ~mine[c]
        /\ mine' = [mine EXCEPT ![c] = engine = "joined"]
        /\ UNCHANGED engineVars
  /\ Proceeds(c, engine')
  /\ UNCHANGED <<future, aborted, controller, regions, locking, restarts, updates, faults>>

\* The catch of attemptConnection: it closes what this.engine names now.
Fails(c, why) ==
  \/ /\ engine = "none"
     /\ Caught(c, "other") /\ UNCHANGED <<engineVars, waiting>>
  \/ /\ engine # "none"
     /\ EngineClosed /\ Goes(c, "closing") /\ Because(c, why)
     /\ UNCHANGED <<roomVars, answer, connectFuture, events>>

JoinFails(c) ==
  /\ pc[c] = "join"
  /\ \E why \in {"notAllowed", "unreachable"} \union {w \in {"cancelled"} : aborted[c]} :
       Fails(c, why)
  /\ UNCHANGED <<future, aborted, mine, controller, regions, locking, republishing,
                 updates, faults>>

\* What follows the awaited engine.close().
TornDown(c) ==
  /\ pc[c] = "closing"
  /\ IdleEngine("new") /\ mine' = [d \in Calls |-> FALSE]
  /\ isResuming' = FALSE /\ buffer' = <<>> /\ UNCHANGED <<seen, lost>>
  /\ Caught(c, cause[c])
  /\ UNCHANGED <<future, aborted, controller, regions, locking, republishing, updates, faults>>

\* Mutant: the call that connected leaves its future behind.
TransportReadyKeeps(c) ==
  /\ pc[c] = "transport" /\ mine[c] /\ ~aborted[c]
  /\ state' = "connected" /\ watch' = 0
  /\ controller' = 0 /\ answer' = answer
  /\ Goes(c, "done")
  /\ UNCHANGED <<isResuming, engineVars, future, aborted, mine, cause, connectFuture,
                 regions, locking, restarts, events, updates, faults>>

TransportReady(c) ==
  /\ pc[c] = "transport" /\ mine[c] /\ ~aborted[c]
  /\ state' = "connected" /\ watch' = 0
  /\ controller' = 0 /\ answer' = Settle(c, "resolved")
  /\ connectFuture' = IF answer[c] = "pending" THEN 0 ELSE connectFuture
  /\ Goes(c, "done") /\ mine' = [mine EXCEPT ![c] = FALSE]
  /\ UNCHANGED <<isResuming, engineVars, future, aborted, cause, regions, locking, restarts,
                 events, updates, faults>>

TransportFails(c) ==
  /\ pc[c] = "transport"
  /\ Fails(c, IF aborted[c] THEN "cancelled" ELSE "unreachable")
  /\ UNCHANGED <<future, aborted, mine, controller, regions, locking, republishing,
                 updates, faults>>

\* getNextBestRegionUrl returns another region, none, or throws.
RegionAnswers(c) ==
  /\ pc[c] = "region"
  /\ \/ /\ regions > 0 /\ regions' = regions - 1
        /\ IF controller # 0 /\ aborted[controller]
             THEN /\ GivesUp(c)
                  /\ UNCHANGED <<engineVars, waiting, aborted, mine, controller>>
             ELSE /\ RecreateEngine /\ TakesController(c) /\ Goes(c, "backoff")
                  /\ UNCHANGED <<state, watch, answer, connectFuture, cause>>
     \/ /\ GivesUp(c)
        /\ UNCHANGED <<engineVars, waiting, aborted, mine, controller, regions>>
  /\ UNCHANGED <<future, locking, republishing, updates, faults>>

-----------------------------------------------------------------------------
(* disconnect() *)

Disconnect ==
  /\ leaves < MaxDisconnects /\ leaves' = leaves + 1
  /\ lockQueue' = Append(lockQueue, Leave)
  /\ UNCHANGED <<roomVars, engineVars, calls, stored, leaving, restarts, events, updates, faults>>

\* The attempt under way is aborted and its promise rejected.
Cancels ==
  IF state \in {"connecting", "reconnecting"} \/ isResuming
    THEN /\ aborted' = [c \in Calls |-> aborted[c] \/ c = controller]
         /\ answer' = Settle(connectFuture, "rejected") /\ connectFuture' = 0
    ELSE UNCHANGED <<aborted, answer, connectFuture>>

DisconnectEnters ==
  /\ lockQueue # <<>> /\ leaving = "no" /\ Head(lockQueue) = Leave
  /\ lockQueue' = Tail(lockQueue)
  /\ \/ /\ state = "disconnected"
        /\ UNCHANGED <<leaving, aborted, answer, connectFuture, engineVars, waiting>>
     \/ /\ state # "disconnected"
        /\ Cancels
        /\ \/ engine = "joined" /\ leaving' = "leave" /\ UNCHANGED <<engineVars, waiting>>
           \/ leaving' = "closing" /\ EngineClosed
  /\ UNCHANGED <<roomVars, pc, future, mine, cause, controller, regions, leaves, republishing,
                 events, updates, faults>>

\* sendLeave has returned.
LeaveSent ==
  /\ leaving = "leave" /\ leaving' = "closing"
  /\ EngineClosed
  /\ UNCHANGED <<roomVars, calls, stored, lockQueue, leaves, republishing, events, updates, faults>>

DisconnectEnds ==
  /\ leaving = "closing" /\ leaving' = "no"
  /\ HandleDisconnect
  /\ IdleEngine("none") /\ mine' = [c \in Calls |-> FALSE]
  /\ UNCHANGED <<pc, answer, future, aborted, cause, stored, lockQueue, leaves, republishing,
                 updates, faults>>

-----------------------------------------------------------------------------
(* The engine's own life and what the room does on its events. *)

Untouched == UNCHANGED <<calls, stored, locking>>

\* A loss; the engine may not notice it.
Lose ==
  /\ engine = "joined" /\ phase = "steady" /\ link /\ faults < MaxFaults
  /\ faults' = faults + 1 /\ link' = FALSE
  /\ \/ due' = TRUE /\ pending' = TRUE
     \/ UNCHANGED <<due, pending>>
  /\ Untouched
  /\ UNCHANGED <<roomVars, engine, phase, owed, timed, tries, restarts, events, updates>>

\* A full reconnect is asked for. An attempt under way carries it out at its end.
Asked ==
  /\ Engine!Ask
  /\ due' = (due \/ phase = "steady") /\ pending' = (pending \/ phase = "steady")

ServerAsks ==
  /\ engine = "joined" /\ faults < MaxFaults /\ faults' = faults + 1
  /\ Asked /\ Untouched
  /\ UNCHANGED <<roomVars, engine, timed, link, tries, restarts, events, updates>>

\* The timer fires, or the browser is online again.
AttemptBegins ==
  /\ engine = "joined" /\ due /\ due' = FALSE
  /\ timed' \in {TRUE, ~Web}
  /\ UNCHANGED <<engine, pending, link, tries>>

Resuming ==
  /\ AttemptBegins /\ Engine!Resume
  /\ watch' = Off /\ isResuming' = TRUE /\ state' = "signalReconnecting"
  /\ Untouched /\ UNCHANGED <<restarts, events, updates, faults>>

SignalResumed ==
  /\ engine = "joined" /\ Engine!SignalResumed
  /\ Flush /\ Untouched
  /\ UNCHANGED <<roomVars, engine, due, pending, timed, link, tries, restarts, updates, faults>>

\* The handle of the timer is forgotten by whoever the timer started, and by nobody else.
AttemptOver(again) ==
  /\ due' = again /\ pending' = (~timed /\ (pending \/ again)) /\ timed' = FALSE

Succeeds ==
  /\ link' = TRUE /\ tries' = 0 /\ AttemptOver(owed) /\ UNCHANGED engine

Resumed ==
  /\ engine = "joined" /\ Engine!Resumed /\ Succeeds
  /\ watch' = 0 /\ isResuming' = FALSE /\ state' = "connected"
  /\ Flush /\ Untouched
  /\ UNCHANGED <<restarts, updates, faults>>

\* handleRestarting
RestartingHandled == watch' = Off /\ isResuming' = FALSE /\ state' = "reconnecting"

\* A connect() that still waits for the transport waits for one that is torn down.
Restarting ==
  /\ AttemptBegins /\ Engine!Restart
  /\ RestartingHandled /\ mine' = [c \in Calls |-> FALSE]
  /\ UNCHANGED <<pc, answer, future, aborted, cause, stored, locking, restarts, events,
                 updates, faults>>

\* handleSignalRestarted up to its first await.
SignalRestarted ==
  /\ engine = "joined" /\ Engine!SignalRestarted
  /\ buffer' = <<>> /\ republishing' = republishing + 1
  /\ Untouched
  /\ UNCHANGED <<roomVars, engine, due, pending, timed, link, tries, waiting, seen, lost,
                 updates, faults>>

\* The restart goes on in another region, and says so.
RestartElsewhere ==
  /\ engine = "joined" /\ Engine!RestartElsewhere
  /\ regions > 0 /\ regions' = regions - 1
  /\ RestartingHandled
  /\ UNCHANGED <<calls, connectFuture, controller, locking, engine, due, pending, timed, link,
                 tries, restarts, events, updates, faults>>

\* Restarted settles the wait of handleSignalRestarted.
Restarted ==
  /\ engine = "joined" /\ Engine!Restarted /\ Succeeds
  /\ waiting' = FALSE
  /\ \/ waiting /\ BackOnline
     \/ ~waiting /\ UNCHANGED <<state, watch, events>>
  /\ regions' = MaxRegions
  /\ UNCHANGED <<isResuming, calls, connectFuture, controller, locking, republishing, updates,
                 faults>>

AttemptFails ==
  /\ engine = "joined" /\ tries < MaxTries /\ tries' = tries + 1
  /\ \/ Engine!ResumeFailed /\ UNCHANGED regions
     \/ Engine!RestartFailed /\ regions' = MaxRegions
  /\ AttemptOver(TRUE)
  /\ UNCHANGED <<roomVars, engine, link, calls, connectFuture, controller, locking, restarts,
                 events, updates, faults>>

\* The engine emits Disconnected: it gives up, or the server says the session is over.
EngineEnds ==
  /\ engine = "joined"
  /\ \/ tries = MaxTries /\ Engine!Attempting /\ UNCHANGED faults
     \/ faults < MaxFaults /\ faults' = faults + 1
  /\ Engine!End /\ IdleEngine("closed")
  /\ HandleDisconnect /\ Untouched
  /\ UNCHANGED <<republishing, updates>>

\* Signal connection and transport are severed both.
Offline ==
  /\ engine = "joined" /\ ~link /\ (due \/ Engine!Attempting) /\ state # "reconnecting"
  /\ state' = "reconnecting" /\ Untouched
  /\ UNCHANGED <<isResuming, watch, engineVars, restarts, events, updates, faults>>

\* pcState may still, or already, be Connected when the wait for the restart begins; it is
\* when no attempt is running or due.
RestartIsOver == engine \in {"joined", "closed"} /\ ~Engine!Attempting /\ ~due
MayBeOver == HasEarlyTransport /\ engine \in {"joined", "closed"}

\* handleSignalRestarted after republishAllTracks.
RepublishEnds ==
  /\ republishing > 0 /\ republishing' = republishing - 1
  /\ \/ /\ RestartIsOver \/ MayBeOver
        /\ engine = "joined" \/ HasEarlyTransport
        /\ BackOnline /\ UNCHANGED waiting
     \/ /\ engine = "joined" /\ ~RestartIsOver /\ waiting' = TRUE
        /\ UNCHANGED <<state, watch, events>>
     \/ \* no engine, one that is gone, or one that will not restart
        /\ engine # "joined" /\ UNCHANGED <<state, watch, events, waiting>>
  /\ Untouched
  /\ UNCHANGED <<isResuming, engineVars, updates, faults>>

-----------------------------------------------------------------------------
(* The interval of registerConnectionReconcile, and the server's events. *)

Mismatch == engine # "joined" \/ ~link

\* Mutant: an engine that is gone counts as sound.
ReconcileTickTrusting ==
  /\ watch # Off /\ engine = "joined" /\ ~link /\ watch < 2 /\ watch' = watch + 1
  /\ UNCHANGED <<state, isResuming, engineVars, waiting, events, mine, pc, answer, future,
                 aborted, cause, stored, locking, republishing, updates, faults>>

ReconcileTick ==
  /\ watch # Off
  /\ \/ /\ ~Mismatch /\ watch' = 0 /\ watch # 0
        /\ UNCHANGED <<state, isResuming, engineVars, waiting, events, mine>>
     \/ /\ Mismatch /\ watch < 2 /\ watch' = watch + 1
        /\ UNCHANGED <<state, isResuming, engineVars, waiting, events, mine>>
     \/ /\ Mismatch /\ watch = 2 /\ engine = "joined"
        /\ watch' = Off /\ Asked
        /\ UNCHANGED <<state, isResuming, engine, timed, link, tries, waiting, events, mine>>
     \/ /\ Mismatch /\ watch = 2 /\ engine # "joined"
        /\ IdleEngine("new") /\ mine' = [c \in Calls |-> FALSE]
        /\ HandleDisconnect
  /\ UNCHANGED <<pc, answer, future, aborted, cause, stored, locking, republishing, updates, faults>>

\* Mutant: only the state decides.
HoldingByState == state = "reconnecting"

Holding == state = "reconnecting" \/ isResuming \/ engine = "none" \/ pending

\* emitWhenConnected for an event that the server causes.
UpdateArrives ==
  /\ engine = "joined" /\ updates < MaxUpdates
  /\ phase \in {"steady", "signalResumed", "signalRestarted"} /\ (link \/ phase # "steady")
  /\ updates' = updates + 1
  /\ \/ /\ Holding
        /\ buffer' = Append(buffer, updates') /\ UNCHANGED <<seen, lost>>
     \/ /\ ~Holding /\ state = "connected"
        /\ seen' = Append(seen, updates') /\ UNCHANGED <<buffer, lost>>
     \/ /\ ~Holding /\ state # "connected"
        /\ lost' = (IF state = "disconnected" \/ \E c \in Calls : UnderWay(c)
                    THEN lost ELSE lost \union {updates'})
        /\ UNCHANGED <<buffer, seen>>
  /\ Untouched
  /\ UNCHANGED <<roomVars, engineVars, restarts, faults>>

-----------------------------------------------------------------------------
ConnectNext(c) ==
  \/ Connect(c) \/ ConnectEnters(c) \/ BackOffEnds(c) \/ JoinSucceeds(c) \/ JoinFails(c)
  \/ TornDown(c) \/ TransportReady(c) \/ TransportFails(c) \/ RegionAnswers(c)

Next ==
  \/ \E c \in Calls : ConnectNext(c)
  \/ Disconnect \/ DisconnectEnters \/ LeaveSent \/ DisconnectEnds
  \/ Lose \/ ServerAsks \/ Resuming \/ SignalResumed \/ Resumed \/ Restarting
  \/ SignalRestarted \/ RestartElsewhere \/ Restarted \/ AttemptFails \/ EngineEnds
  \/ Offline \/ RepublishEnds \/ ReconcileTick \/ UpdateArrives

Spec == Init /\ [][Next]_vars

\* Awaits of connect() and disconnect() end, timers fire, attempts end, the interval ticks.
Fairness ==
  /\ \A c \in Calls :
       /\ WF_vars(ConnectEnters(c)) /\ WF_vars(BackOffEnds(c)) /\ WF_vars(TornDown(c))
       /\ WF_vars(JoinSucceeds(c) \/ JoinFails(c))
       /\ WF_vars(TransportReady(c) \/ TransportFails(c)) /\ WF_vars(RegionAnswers(c))
  /\ WF_vars(DisconnectEnters) /\ WF_vars(LeaveSent) /\ WF_vars(DisconnectEnds)
  /\ WF_vars(Resuming \/ Restarting) /\ WF_vars(SignalResumed \/ AttemptFails \/ EngineEnds)
  /\ WF_vars(Resumed \/ AttemptFails \/ EngineEnds)
  /\ WF_vars(SignalRestarted \/ AttemptFails \/ EngineEnds)
  /\ WF_vars(Restarted) /\ WF_vars(RepublishEnds) /\ WF_vars(ReconcileTick)

FairSpec == Spec /\ Fairness

-----------------------------------------------------------------------------
TypeOK ==
  /\ state \in States /\ isResuming \in BOOLEAN /\ watch \in Off..2
  /\ engine \in Engines /\ Engine!TypeOK /\ due \in BOOLEAN /\ pending \in BOOLEAN
  /\ timed \in BOOLEAN /\ link \in BOOLEAN /\ tries \in 0..MaxTries
  /\ pc \in [Calls -> PCs] /\ answer \in [Calls -> {"none", "pending", "resolved", "rejected"}]
  /\ future \in [Calls -> Calls] /\ aborted \in [Calls -> BOOLEAN]
  /\ mine \in [Calls -> BOOLEAN] /\ cause \in [Calls -> Causes]
  /\ connectFuture \in Calls \union {0} /\ controller \in Calls \union {0}
  /\ regions \in 0..MaxRegions /\ lockQueue \in Seq(Calls \union {Leave})
  /\ leaving \in Leavings /\ leaves \in 0..MaxDisconnects
  /\ republishing \in Nat /\ waiting \in BOOLEAN
  /\ buffer \in Seq(1..MaxUpdates) /\ seen \in Seq(1..MaxUpdates) /\ lost \subseteq 1..MaxUpdates
  /\ updates \in 0..MaxUpdates /\ faults \in 0..MaxFaults

Live(c) == pc[c] \in {"backoff", "join", "transport"} /\ ~aborted[c]

\* Of all calls of connect() that are under way, at most one has not been cancelled, and it
\* is the one whose controller disconnect() would abort.
OneLiveAttempt == \A c \in Calls : Live(c) => controller = c

\* A room that says it is connected is watched: the interval runs, or its engine is about
\* to repair the session or at it, or somebody connects or leaves.
ConnectedIsWatched ==
  state = "connected" =>
    \/ watch # Off \/ due \/ Engine!Attempting
    \/ leaving # "no" \/ \E c \in Calls : UnderWay(c)

\* Once a session is connected, no event of the server falls between being told and being
\* held back, whatever interrupts the session.
NothingIsLost == lost = {}

\* The session is held: by one attempt at most, by somebody who watches it, with all that happens in it.
SessionIsHeld == TypeOK /\ OneLiveAttempt /\ ConnectedIsWatched /\ NothingIsLost

\* The promise of every connect() is settled.
ConnectSettles == \A c \in Calls : answer[c] = "pending" ~> answer[c] # "pending"

\* No room stays between states: connecting and both ways of reconnecting end.
TransitionsEnd ==
  state \notin {"connected", "disconnected"} ~> state \in {"connected", "disconnected"}

\* Neither a caller of connect() nor the room itself waits for ever.
EveryWaitEnds == ConnectSettles /\ TransitionsEnd

\* A room does not say for ever that it is connected when its connection is dead.
ConnectedIsServed == state = "connected" /\ Mismatch ~> state # "connected" \/ ~Mismatch
=============================================================================

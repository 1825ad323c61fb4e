--------------------------- MODULE EngineReconnect ---------------------------
(***************************************************************************)
(* How room/RTCEngine.ts keeps a joined session alive: handleDisconnect     *)
(* schedules attempts, attemptReconnect runs one as a resume or a restart,  *)
(* close() ends the session.                                                *)
(*                                                                         *)
(* An attempt is named by the timer that started it, or Browser when the    *)
(* page's online event did; pc[t] is the await it is suspended at. The      *)
(* signal client is seen through its public state (SignalClient models what *)
(* is behind it) and the peer connections through their primary transport.  *)
(* A join retried inside one restart is part of that attempt.               *)
(***************************************************************************)
EXTENDS Integers, FiniteSets

CONSTANTS
  MaxTimers,       \* bound: reconnect timers pending at once, plus their attempts
  MaxRetries,      \* delays the reconnect policy has before it gives up
  MaxJoins,        \* maxJoinAttempts
  MaxRegions,      \* bound: other regions a restart can fall back to
  MaxFaults,       \* bound: losses, requests by the server and browser events
  OfferWithJoin,   \* isPublisherOfferWithJoinSupported, on the v1 path
  ResumeDisabled,  \* clientConfiguration.resumeConnection is DISABLED
  Browser,         \* the attempt handleBrowserOnLine starts without a timer
  Owner, Server, Policy,  \* who calls close(): the room, a leave, handleDisconnect
  Nothing          \* "undefined"

Timers   == 1..MaxTimers
Attempts == Timers \cup {Browser}
Closers  == {Owner, Server, Policy} \cup Attempts

ASSUME EngineBounds ==
  /\ MaxTimers \in Nat /\ MaxRetries \in Nat /\ MaxJoins \in Nat
  /\ MaxRegions \in Nat /\ MaxFaults \in Nat
ASSUME SettingsAssumption == OfferWithJoin \in BOOLEAN /\ ResumeDisabled \in BOOLEAN
ASSUME NamesAssumption ==
  /\ Browser \notin Timers
  /\ Nothing \notin Closers
  /\ {Owner, Server, Policy} \cap Attempts = {}

VARIABLES
  closed,      \* _isClosed
  full,        \* fullReconnectOnNext
  attempting,  \* attemptingReconnect
  attempts,    \* reconnectAttempts
  joins,       \* joinAttempts
  reconnectTimeout, \* the timer it names, fired or not, or Nothing
  awaitingNet, \* isWaitingForNetworkReconnect
  lostQuality, \* lostQualityTimeout is counting down
  pcState,     \* pcState
  pc,          \* per attempt: where it is
  mode,        \* per attempt: how it reconnects
  closeCalls,  \* close() calls that wait for closingLock
  closer,      \* the close() call that holds it, or Nothing
  sig,         \* the signal client's state
  driver,      \* whose client.close() brought it to "closing", or Nothing
  callbacks,   \* the client's onClose and onLeave are set
  late,        \* losses whose captured onClose has not been called yet
  transport,   \* pcManager's primary transport, or "none"
  regions,     \* regions this round of restarts has not tried
  ended,       \* history: the owner closed, the server said leave, or it gave up
  faults       \* losses and requests so far

flags   == <<full, attempting, attempts, joins, awaitingNet, lostQuality>>
sessionVars == <<sig, driver, callbacks, late, transport, pcState>>
control == <<pc, mode, reconnectTimeout, closed, closeCalls, closer>>
engineVars    == <<flags, sessionVars, control, regions, ended, faults>>

Modes == {"resume", "offer", "deferred"}

PCs == {"free", "armed", "cleanup", "offer", "call", "wait", "pcwait", "region",
        "regionFatal", "ending"}

\* A body of attemptReconnect that is past its guards.
Running(t) == pc[t] \notin {"free", "armed"}

IsRestart(t) == mode[t] # "resume"

FirstMode == IF OfferWithJoin THEN "offer" ELSE "deferred"

\* Promise continuations run before the next event: a close() whose lock is free, one
\* whose client has nothing left to close, and a call with no close in flight to wait for.
Drained ==
  /\ closeCalls # {} => closer # Nothing
  /\ closer # Nothing => sig = "closing"
  /\ \A t \in Attempts : pc[t] = "call" => sig = "closing"

EngineInit ==
  /\ closed = FALSE /\ full = FALSE /\ attempting = FALSE
  /\ attempts = 0 /\ joins = 1 /\ reconnectTimeout = Nothing
  /\ awaitingNet = FALSE /\ lostQuality = FALSE
  /\ pc = [t \in Attempts |-> "free"] /\ mode = [t \in Attempts |-> "resume"]
  /\ closeCalls = {} /\ closer = Nothing
  /\ sig = "up" /\ driver = Nothing /\ callbacks = TRUE /\ late = 0
  /\ transport = "connected" /\ pcState = "Connected"
  /\ regions = MaxRegions /\ ended = FALSE /\ faults = 0

-----------------------------------------------------------------------------
(* Scheduling. P is pc as the statements before the call left it. *)

\* clearReconnectTimeout: the timer is cancelled if it has not fired; reconnectTimeout stays.
Cancelled(P, h) ==
  IF h # Nothing /\ P[h] = "armed" THEN [P EXCEPT ![h] = "free"] ELSE P

\* reconnectTimeout once attempt by's finally has run; by is Nothing outside an attempt.
Forgotten(by, h) == IF by \in Timers THEN Nothing ELSE h

\* The first timer name that is free.
IsNext(t, P) == /\ t \in Timers /\ P[t] = "free"
                /\ \A u \in Timers : P[u] = "free" => t <= u

\* Mutant: without a retry left it gives up silently.
HandleDisconnectSilently(by, P, h, n) ==
  \/ /\ closed \/ n >= MaxRetries
     /\ pc' = P /\ reconnectTimeout' = Forgotten(by, h)
     /\ UNCHANGED <<closeCalls, ended>>
  \/ /\ ~closed /\ n < MaxRetries
     /\ LET Q == Cancelled(P, h)
        IN  \E t \in Timers : /\ IsNext(t, Q)
                              /\ pc' = [Q EXCEPT ![t] = "armed"]
                              /\ reconnectTimeout' = Forgotten(by, t)
     /\ UNCHANGED <<closeCalls, ended>>

\* handleDisconnect after n failed attempts, whoever calls it.
HandleDisconnect(by, P, h, n) ==
  \/ /\ closed
     /\ pc' = P /\ reconnectTimeout' = Forgotten(by, h)
     /\ UNCHANGED <<closeCalls, ended>>
  \/ /\ ~closed /\ n >= MaxRetries
     /\ pc' = P /\ reconnectTimeout' = Forgotten(by, h)
     /\ closeCalls' = closeCalls \cup {Policy}
     /\ ended' = TRUE
  \/ /\ ~closed /\ n < MaxRetries
     /\ LET Q == Cancelled(P, h)
        IN  \E t \in Timers : /\ IsNext(t, Q)
                              /\ pc' = [Q EXCEPT ![t] = "armed"]
                              /\ reconnectTimeout' = Forgotten(by, t)
     /\ UNCHANGED <<closeCalls, ended>>

\* An event outside the engine: bounded, and with a timer name to spare.
Fault ==
  /\ Drained
  /\ faults < MaxFaults /\ faults' = faults + 1
  /\ \E t, u \in Timers : t # u /\ pc[t] = "free" /\ pc[u] = "free"

-----------------------------------------------------------------------------
(* close() of the engine and of its signal client. *)

\* client.close() by who: what it finds open starts to close.
ClientClosing(who) ==
  IF sig \in {"up", "trying"} THEN sig' = "closing" /\ driver' = who
                              ELSE UNCHANGED <<sig, driver>>

\* client.close() returns; closes that overlap return in turn.
ClientClosed(who) ==
  /\ driver \in {Nothing, who}
  /\ sig' = IF driver = who THEN "down" ELSE sig
  /\ driver' = Nothing

CloseIsRedundant(c) ==
  /\ closer = Nothing /\ c \in closeCalls /\ closed
  /\ closeCalls' = closeCalls \ {c}
  /\ UNCHANGED <<flags, sessionVars, pc, mode, reconnectTimeout, closed, closer, regions, ended, faults>>

CloseBegins(c) ==
  /\ closer = Nothing /\ c \in closeCalls /\ ~closed
  /\ closer' = c /\ closeCalls' = closeCalls \ {c}
  /\ closed' = TRUE
  /\ joins' = 0 /\ attempts' = 0 /\ lostQuality' = FALSE
  /\ pc' = Cancelled(pc, reconnectTimeout)
  /\ transport' = "none"
  /\ ClientClosing("engine")
  /\ UNCHANGED <<full, attempting, awaitingNet, callbacks, late, pcState, mode,
                 reconnectTimeout, regions, ended, faults>>

CloseEnds ==
  /\ closer # Nothing
  /\ ClientClosed("engine")
  /\ callbacks' = FALSE
  /\ closer' = Nothing
  /\ UNCHANGED <<flags, late, transport, pcState, pc, mode, reconnectTimeout, closed,
                 closeCalls, regions, ended, faults>>

\* Room.disconnect, recreateEngine, a failed connect
OwnerCloses ==
  /\ Drained /\ ~ended
  /\ ended' = TRUE
  /\ closeCalls' = closeCalls \cup {Owner}
  /\ UNCHANGED <<flags, sessionVars, pc, mode, reconnectTimeout, closed, closer, regions, faults>>

-----------------------------------------------------------------------------
(* attemptReconnect: its guards, and how an attempt ends. *)

\* restartConnection up to the end of the old session.
Restart(t, P) ==
  /\ pc' = [P EXCEPT ![t] = "cleanup"]
  /\ mode' = [mode EXCEPT ![t] = FirstMode]
  /\ transport' = "none"
  /\ ClientClosing("attempt")

MayBegin == ~closed /\ ~attempting

AttemptBegins(t, P) ==
  /\ MayBegin
  /\ attempting' = TRUE /\ lostQuality' = FALSE /\ full' = FALSE
  /\ \/ /\ full \/ ResumeDisabled \/ transport \in {"none", "new"}
        /\ Restart(t, P)
        /\ UNCHANGED callbacks
     \/ /\ ~full /\ ~ResumeDisabled /\ transport \notin {"none", "new"}
        /\ pc' = [P EXCEPT ![t] = "call"]
        /\ mode' = [mode EXCEPT ![t] = "resume"]
        /\ callbacks' = TRUE
        /\ UNCHANGED <<sig, driver, transport>>
  /\ UNCHANGED <<attempts, joins, late, pcState, reconnectTimeout, closed, closeCalls, closer>>

TimerFires(t) ==
  /\ Drained /\ pc[t] = "armed"
  /\ \/ AttemptBegins(t, pc) /\ UNCHANGED awaitingNet
     \/ /\ ~MayBegin
        /\ pc' = [pc EXCEPT ![t] = "free"]
        /\ reconnectTimeout' = Forgotten(t, reconnectTimeout)
        /\ UNCHANGED <<flags, sessionVars, mode, closed, closeCalls, closer>>
  /\ UNCHANGED <<regions, ended, faults>>

\* The attempt worked: what is scheduled is cancelled, and a full reconnect that
\* was asked for meanwhile is scheduled.
Succeeds(t) ==
  LET P == Cancelled([pc EXCEPT ![t] = "free"], reconnectTimeout)
  IN  /\ attempts' = 0 /\ attempting' = FALSE
      /\ \/ /\ full /\ ~closed
            /\ HandleDisconnect(t, P, reconnectTimeout, 0)
         \/ /\ ~full \/ closed
            /\ pc' = P /\ reconnectTimeout' = Forgotten(t, reconnectTimeout)
            /\ UNCHANGED <<closeCalls, ended>>
      /\ UNCHANGED full

\* Mutant: only the policy is consulted, and no attempt follows.
FailsUnscheduled(t, escalate) ==
  /\ attempts' = attempts + 1 /\ attempting' = FALSE
  /\ full' = (full \/ escalate)
  /\ pc' = [pc EXCEPT ![t] = "free"] /\ reconnectTimeout' = Forgotten(t, reconnectTimeout)
  /\ UNCHANGED <<closeCalls, ended>>

\* Mutant: a failed full reconnect may be followed by a resume.
FailsForgetful(t, escalate) ==
  /\ attempts' = attempts + 1 /\ attempting' = FALSE
  /\ UNCHANGED full
  /\ HandleDisconnect(t, [pc EXCEPT ![t] = "free"], reconnectTimeout, attempts + 1)

\* A failure worth a retry; escalate makes that one a full reconnect.
Fails(t, escalate) ==
  /\ attempts' = attempts + 1 /\ attempting' = FALSE
  /\ full' = (full \/ escalate)
  /\ HandleDisconnect(t, [pc EXCEPT ![t] = "free"], reconnectTimeout, attempts + 1)

\* UnexpectedConnectionState: the engine closes, and the attempt waits for that.
FailsForGood(t) ==
  /\ attempts' = attempts + 1
  /\ ended' = TRUE
  /\ closeCalls' = closeCalls \cup {t}
  /\ pc' = [pc EXCEPT ![t] = "ending"]
  /\ UNCHANGED <<full, attempting, reconnectTimeout>>

AttemptEnds(t) ==
  /\ Drained /\ pc[t] = "ending"
  /\ t \notin closeCalls /\ closer # t
  /\ attempting' = FALSE
  /\ pc' = [pc EXCEPT ![t] = "free"] /\ reconnectTimeout' = Forgotten(t, reconnectTimeout)
  /\ UNCHANGED <<full, attempts, joins, awaitingNet, lostQuality, sessionVars, mode,
                 closed, closeCalls, closer, regions, ended, faults>>

-----------------------------------------------------------------------------
(* restartConnection with the join inside it, and resumeConnection. *)

\* A restart fails: another region is asked for.
AskRegion(t, fatal) ==
  /\ pc' = [pc EXCEPT ![t] = IF fatal THEN "regionFatal" ELSE "region"]
  /\ UNCHANGED <<full, attempting, attempts, reconnectTimeout, closeCalls, ended>>

\* join() up to its first await, on the path m and with the transport as it is then.
Join(t, m, tr) ==
  /\ callbacks' = TRUE
  /\ joins' = IF joins < MaxJoins THEN joins + 1 ELSE joins
  /\ mode' = [mode EXCEPT ![t] = m]
  /\ transport' = IF m = "offer" /\ tr = "none" THEN "new" ELSE tr
  /\ pc' = [pc EXCEPT ![t] = IF m = "offer" THEN "offer" ELSE "call"]

\* cleanupClient returns; join() begins.
CleanedUp(t) ==
  /\ Drained /\ pc[t] = "cleanup"
  /\ ClientClosed("attempt")
  /\ Join(t, mode[t], transport)
  /\ UNCHANGED <<full, attempting, attempts, awaitingNet, lostQuality, late, pcState,
                 reconnectTimeout, closed, closeCalls, closer, regions, ended, faults>>

\* createInitialOffer returns.
OfferReady(t) ==
  /\ Drained /\ pc[t] = "offer" /\ transport # "none"
  /\ pc' = [pc EXCEPT ![t] = "call"]
  /\ UNCHANGED <<flags, sessionVars, mode, reconnectTimeout, closed, closeCalls, closer, regions,
                 ended, faults>>

\* The connection was closed under createOffer, which may throw or never settle.
OfferFails(t) ==
  /\ Drained /\ pc[t] = "offer" /\ transport = "none"
  /\ AskRegion(t, FALSE)
  /\ UNCHANGED <<joins, awaitingNet, lostQuality, sessionVars, mode, closed, closer, regions,
                 faults>>

\* client.join or client.reconnect, once a close in flight has settled.
CallStarts(t) ==
  /\ pc[t] = "call"
  /\ sig = "down" \/ (sig = "up" /\ ~IsRestart(t))
  /\ sig' = "trying"
  /\ pc' = [pc EXCEPT ![t] = "wait"]
  /\ UNCHANGED <<flags, driver, callbacks, late, transport, pcState, mode, reconnectTimeout,
                 closed, closeCalls, closer, regions, ended, faults>>

\* waitForPCReconnected begins.
AwaitTransport(t) ==
  /\ pc' = [pc EXCEPT ![t] = "pcwait"]
  /\ pcState' = "Reconnecting"
  /\ UNCHANGED <<full, attempting, attempts, reconnectTimeout, closeCalls, ended>>

Joined(t) ==
  /\ Drained /\ pc[t] = "wait" /\ IsRestart(t) /\ sig = "trying"
  /\ sig' = "up"
  /\ closed' = FALSE
  /\ transport' = IF transport = "new" \/ (transport = "none" /\ mode[t] = "deferred")
                    THEN "connecting" ELSE transport
  /\ AwaitTransport(t)
  /\ UNCHANGED <<joins, awaitingNet, lostQuality, driver, callbacks, late, mode,
                 closer, regions, faults>>

Resumed(t) ==
  /\ Drained /\ pc[t] = "wait" /\ ~IsRestart(t) /\ sig = "trying"
  /\ sig' = "up"
  /\ \/ /\ transport # "none"
        /\ AwaitTransport(t)
        /\ transport' = IF transport = "failed" THEN "connecting" ELSE transport
     \* updateConfiguration or triggerIceRestart throws
     \/ Fails(t, TRUE) /\ UNCHANGED <<transport, pcState>>
  /\ UNCHANGED <<joins, awaitingNet, lostQuality, driver, callbacks, late, mode,
                 closed, closer, regions, faults>>

\* connectFailed or reconnectFailed; a close may have got there first.
SignalGivenUp == IF sig = "trying" THEN sig' = "down" ELSE UNCHANGED sig

JoinFails(t) ==
  /\ Drained /\ pc[t] = "wait" /\ IsRestart(t)
  /\ SignalGivenUp
  /\ \/ \* ServerUnreachable
        /\ joins < MaxJoins
        /\ Join(t, mode[t], transport)
        /\ UNCHANGED <<full, attempting, attempts, reconnectTimeout, closeCalls, ended>>
     \/ \* ServiceNotFound: the v0 path
        /\ mode[t] = "offer"
        /\ Join(t, "deferred", "none")
        /\ UNCHANGED <<full, attempting, attempts, reconnectTimeout, closeCalls, ended>>
     \/ \E fatal \in BOOLEAN :
          AskRegion(t, fatal) /\ UNCHANGED <<joins, callbacks, transport, mode>>
  /\ UNCHANGED <<awaitingNet, lostQuality, driver, late, pcState, closed, closer,
                 regions, faults>>

ResumptionFails(t) ==
  /\ Drained /\ pc[t] = "wait" /\ ~IsRestart(t)
  /\ SignalGivenUp
  /\ \/ \E leave \in BOOLEAN : Fails(t, leave)
     \/ FailsForGood(t)  \* NotAllowed
  /\ UNCHANGED <<joins, awaitingNet, lostQuality, driver, callbacks, late, transport,
                 pcState, mode, closed, closer, regions, faults>>

\* The required transports are connected: the signal connection is checked again.
TransportReady(t) ==
  /\ Drained /\ pc[t] = "pcwait" /\ transport = "connected"
  /\ pcState' = "Connected"
  /\ \/ /\ sig = "up"
        /\ Succeeds(t)
        /\ regions' = IF IsRestart(t) THEN MaxRegions ELSE regions
     \/ /\ sig # "up" /\ IsRestart(t)
        /\ AskRegion(t, FALSE) /\ UNCHANGED regions
     \/ /\ sig # "up" /\ ~IsRestart(t)
        /\ Fails(t, FALSE) /\ UNCHANGED regions
  /\ UNCHANGED <<joins, awaitingNet, lostQuality, sig, driver, callbacks, late,
                 transport, mode, closed, closer, faults>>

\* Mutant: a wait that times out leaves pcState as it is.
TransportLateUnmarked(t) ==
  /\ Drained /\ pc[t] = "pcwait" /\ transport # "connected"
  /\ \/ IsRestart(t) /\ AskRegion(t, FALSE)
     \/ ~IsRestart(t) /\ Fails(t, TRUE)
  /\ UNCHANGED <<joins, awaitingNet, lostQuality, sessionVars, mode, closed, closer,
                 regions, faults>>

\* The wait times out, or pcManager is gone.
TransportLate(t) ==
  /\ Drained /\ pc[t] = "pcwait" /\ transport # "connected"
  /\ pcState' = "Disconnected"
  /\ \/ IsRestart(t) /\ AskRegion(t, FALSE)
     \/ ~IsRestart(t) /\ Fails(t, TRUE)
  /\ UNCHANGED <<joins, awaitingNet, lostQuality, sig, driver, callbacks, late,
                 transport, mode, closed, closer, regions, faults>>

NextRegion(t) ==
  /\ Drained /\ pc[t] \in {"region", "regionFatal"}
  /\ regions > 0 /\ regions' = regions - 1
  /\ Restart(t, pc)
  /\ UNCHANGED <<flags, callbacks, late, pcState, reconnectTimeout, closed, closeCalls, closer,
                 ended, faults>>

NoRegion(t) ==
  /\ Drained /\ pc[t] \in {"region", "regionFatal"}
  /\ regions = 0 /\ regions' = MaxRegions
  /\ \/ pc[t] = "region" /\ Fails(t, TRUE)
     \/ pc[t] = "regionFatal" /\ FailsForGood(t)
  /\ UNCHANGED <<joins, awaitingNet, lostQuality, sessionVars, mode, closed, closer, faults>>

\* getNextUrl throws, and its error replaces the one that led here.
RegionUnknown(t) ==
  /\ Drained /\ pc[t] \in {"region", "regionFatal"}
  /\ MaxRegions > 0
  /\ Fails(t, TRUE)
  /\ UNCHANGED <<joins, awaitingNet, lostQuality, sessionVars, mode, closed, closer,
                 regions, faults>>

-----------------------------------------------------------------------------
(* What happens to the session. *)

\* handleDisconnect called from an event.
Disconnects == HandleDisconnect(Nothing, pc, reconnectTimeout, attempts)

SignalLost ==
  /\ Fault /\ sig = "up"
  /\ sig' = "down"
  /\ late' = IF callbacks THEN late + 1 ELSE late
  /\ UNCHANGED <<flags, driver, callbacks, transport, pcState, control, regions, ended>>

\* onClose, once the lost transport is torn down.
ReportLoss ==
  /\ Drained /\ late > 0
  /\ \E t \in Timers : pc[t] = "free"
  /\ late' = late - 1
  /\ Disconnects
  /\ UNCHANGED <<flags, sig, driver, callbacks, transport, pcState, mode, closed,
                 closer, regions, faults>>

\* onLeave
Leave ==
  /\ Fault /\ sig = "up" /\ callbacks
  /\ \/ \* DISCONNECT
        /\ ended' = TRUE
        /\ closeCalls' = closeCalls \cup {Server}
        /\ UNCHANGED <<full, pc, reconnectTimeout>>
     \/ full' = TRUE /\ Disconnects    \* RECONNECT
     \/ UNCHANGED full /\ Disconnects  \* RESUME
  /\ UNCHANGED <<attempting, attempts, joins, awaitingNet, lostQuality, sessionVars, mode,
                 closed, closer, regions>>

\* onStateChange(CONNECTED)
TransportConnects ==
  /\ Drained /\ transport = "connecting"
  /\ transport' = "connected" /\ pcState' = "Connected"
  /\ UNCHANGED <<flags, sig, driver, callbacks, late, control, regions, ended, faults>>

\* onStateChange(FAILED)
TransportFails ==
  /\ Fault /\ transport \in {"connecting", "connected"}
  /\ transport' = "failed"
  /\ \/ /\ pcState \in {"Connected", "Reconnecting"}
        /\ pcState' = "Disconnected"
        /\ Disconnects
     \/ /\ pcState = "Disconnected"
        /\ UNCHANGED <<pcState, pc, reconnectTimeout, closeCalls, ended>>
  /\ UNCHANGED <<flags, sig, driver, callbacks, late, mode, closed, closer, regions>>

\* handleLocalConnectionQuality
QualityChanges ==
  /\ Fault /\ sig = "up"
  /\ lostQuality' = ~lostQuality
  /\ UNCHANGED <<full, attempting, attempts, joins, awaitingNet, sessionVars, control,
                 regions, ended>>

LostQualityFires ==
  /\ Drained /\ lostQuality
  /\ \E t \in Timers : pc[t] = "free"
  /\ lostQuality' = FALSE
  /\ \/ /\ ~closed /\ pcState = "Connected" /\ ~attempting
        /\ full' = TRUE
        /\ Disconnects
     \/ /\ closed \/ pcState # "Connected" \/ attempting
        /\ UNCHANGED <<full, pc, reconnectTimeout, closeCalls, ended>>
  /\ UNCHANGED <<attempting, attempts, joins, awaitingNet, sessionVars, mode, closed,
                 closer, regions, faults>>

\* Room's reconcile interval, which runs outside attempts, finds a transport dead or
\* stuck (verifyTransport): RTCEngine.reconnect.
Reconcile ==
  /\ Fault /\ ~closed /\ ~attempting
  /\ transport # "connected" \/ sig = "down"
  /\ full' = TRUE
  /\ Disconnects
  /\ UNCHANGED <<attempting, attempts, joins, awaitingNet, lostQuality, sessionVars, mode,
                 closed, closer, regions>>

\* negotiate() is not answered in time, or fails otherwise.
NegotiationFails ==
  /\ Fault /\ ~closed /\ transport # "none"
  /\ full' \in {full, TRUE}
  /\ Disconnects
  /\ UNCHANGED <<attempting, attempts, joins, awaitingNet, lostQuality, sessionVars, mode,
                 closed, closer, regions>>

\* handleBrowserOffline
BrowserOffline ==
  /\ Fault /\ ~awaitingNet
  /\ awaitingNet' = TRUE
  /\ UNCHANGED <<full, attempting, attempts, joins, lostQuality, sessionVars, control,
                 regions, ended>>

\* handleBrowserOnLine, once its request got through.
BrowserOnline ==
  /\ Fault
  /\ \/ \E t \in Attempts : pc[t] = "wait" /\ ~IsRestart(t) /\ sig = "trying"
     \/ awaitingNet /\ sig = "up"
  /\ awaitingNet' = FALSE
  /\ LET P == Cancelled(pc, reconnectTimeout)
     IN  \/ AttemptBegins(Browser, P)
         \/ /\ ~MayBegin
            /\ pc' = P
            /\ UNCHANGED <<full, attempting, attempts, joins, lostQuality, sessionVars,
                           mode, reconnectTimeout, closed, closeCalls, closer>>
  /\ UNCHANGED <<regions, ended>>

-----------------------------------------------------------------------------
AttemptStep(t) ==
  \/ CleanedUp(t) \/ OfferReady(t) \/ CallStarts(t)
  \/ Joined(t) \/ Resumed(t) \/ JoinFails(t) \/ ResumptionFails(t)
  \/ TransportReady(t) \/ TransportLate(t)
  \/ NextRegion(t) \/ NoRegion(t) \/ RegionUnknown(t)
  \/ AttemptEnds(t)

CloseStep == CloseEnds \/ \E c \in Closers : CloseIsRedundant(c) \/ CloseBegins(c)

Events ==
  \/ SignalLost \/ Leave \/ TransportConnects \/ TransportFails
  \/ QualityChanges \/ LostQualityFires \/ Reconcile \/ NegotiationFails
  \/ BrowserOffline \/ BrowserOnline \/ OwnerCloses
  \/ \E t \in Attempts : OfferFails(t)

EngineNext ==
  \/ \E t \in Timers : TimerFires(t)
  \/ \E t \in Attempts : AttemptStep(t)
  \/ CloseStep
  \/ ReportLoss
  \/ Events

EngineSpec == EngineInit /\ [][EngineNext]_engineVars

\* Timers fire, and every call an attempt waits for is answered or times out
\* (for the signal client that is SignalClient's AttemptSettles). Nobody owes a
\* connected transport.
EngineFairness ==
  /\ \A t \in Timers : WF_engineVars(TimerFires(t))
  /\ \A t \in Attempts : WF_engineVars(AttemptStep(t))
  /\ WF_engineVars(CloseStep)
  /\ WF_engineVars(ReportLoss)

EngineFairSpec == EngineSpec /\ EngineFairness

-----------------------------------------------------------------------------
(* Properties that hold. *)

EngineTypeOK ==
  /\ closed \in BOOLEAN /\ full \in BOOLEAN /\ attempting \in BOOLEAN
  /\ attempts \in Nat /\ joins \in Nat /\ faults \in 0..MaxFaults
  /\ awaitingNet \in BOOLEAN /\ lostQuality \in BOOLEAN /\ ended \in BOOLEAN
  /\ reconnectTimeout \in Timers \cup {Nothing}
  /\ pc \in [Attempts -> PCs] /\ mode \in [Attempts -> Modes]
  /\ closeCalls \subseteq Closers /\ closer \in Closers \cup {Nothing}
  /\ sig \in {"up", "trying", "down", "closing"}
  /\ driver \in {"attempt", "engine", Nothing}
  /\ callbacks \in BOOLEAN /\ late \in Nat
  /\ transport \in {"none", "new", "connecting", "connected", "failed"}
  /\ pcState \in {"Connected", "Reconnecting", "Disconnected"}
  /\ regions \in 0..MaxRegions

\* attemptReconnect: one attempt at a time is past the guard, and attemptingReconnect
\* says so for as long as it lives: no path out of it leaves the flag set, which
\* would refuse every later attempt.
OneAttempt ==
  /\ \A t, u \in Attempts : Running(t) /\ Running(u) => t = u
  /\ attempting <=> \E t \in Attempts : Running(t)

Broken == sig = "down" \/ transport = "failed" \/ pcState # "Connected" \/ full

\* handleDisconnect, attemptReconnect: as long as nobody ended the session, a lost
\* connection and a full reconnect that was asked for belong to somebody: an
\* attempt that runs, a timer that has not been cancelled, or a loss about to be
\* reported. There is no way to stay broken with nothing scheduled.
RecoveryIsOwned ==
  ~ended /\ Broken => late > 0 \/ \E t \in Attempts : pc[t] # "free"

\* waitForPCReconnected: "Reconnecting" is the state of a wait that is under way, and
\* no failure leaves the engine in it.
ReconnectingIsAWait ==
  pcState = "Reconnecting" => \E t \in Attempts : pc[t] = "pcwait"

\* The state of the recovery is sound: one attempt at a time, and one for all that is broken.
RecoveryIsSound == EngineTypeOK /\ OneAttempt /\ RecoveryIsOwned

Whole == sig = "up" /\ transport = "connected" /\ pcState = "Connected" /\ ~attempting

\* Every loss ends: the session is whole again, or it is ended.
Recovers == (~ended /\ Broken) ~> (ended \/ Whole)

\* attemptReconnect consumes fullReconnectOnNext: a full reconnect that was asked
\* for, also during an attempt, is carried out as one.
FullReconnectHappens ==
  full ~> (ended \/ \E t \in Attempts : Running(t) /\ IsRestart(t))

-----------------------------------------------------------------------------
(* What the listeners of the engine may rely on: EngineSession.               *)

\* The last of Resuming, SignalResumed, Restarting, SignalRestarted that was emitted by
\* an attempt that still runs.
Phase ==
  CASE ended -> "ended"
    [] ~ended /\ \A t \in Attempts : ~Running(t) -> "steady"
    [] ~ended /\ \E t \in Attempts : Running(t) /\ ~IsRestart(t) ->
         IF \E t \in Attempts : pc[t] = "pcwait" THEN "signalResumed" ELSE "resuming"
    [] OTHER ->
         IF \E t \in Attempts : pc[t] = "pcwait" THEN "signalRestarted" ELSE "restarting"

Announced == INSTANCE EngineSession WITH phase <- Phase, owed <- full /\ ~ended

\* attemptReconnect, restartConnection and resumeConnection announce themselves in
\* the order of EngineSession: attempts do not mix, a failed full reconnect is
\* followed by another one, nothing is announced after the end.
ImplementsEngineSession == Announced!Spec

\* An attempt that was announced ends, whatever the network and the server do.
AnnouncedAttemptsEnd == Announced!AttemptsEnd

\* No loss, no request for a full reconnect and no announced attempt is left without its end.
EveryLossEnds == Recovers /\ FullReconnectHappens /\ AnnouncedAttemptsEnd
=============================================================================

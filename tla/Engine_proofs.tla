--------------------------- MODULE Engine_proofs ----------------------------
(***************************************************************************)
(* Proofs about EngineReconnect, for every number of timers, retries,      *)
(* regions and faults: an engine which runs is never left broken with      *)
(* nothing scheduled (RecoveryIsOwned) and never runs two attempts         *)
(* (OneAttempt).                                                           *)
(* About ReliableDelivery, for every set of senders and replays and every  *)
(* bound: the headroom gate is exclusive, and the packets written to a     *)
(* channel go out in the order of their numbers. And about DataStreams,    *)
(* for every set of streams and calls and every session: what a call of a  *)
(* method leaves behind once it has settled.                               *)
(***************************************************************************)
EXTENDS EngineReconnect, ReliableDelivery, DataStreams, SequenceTheorems, TLAPS

-----------------------------------------------------------------------------
(***************************************************************************)
(* EngineReconnect. RecoveryIsOwned is not inductive alone. A timer that   *)
(* fires may be refused because attemptingReconnect is set: that must mean *)
(* that an attempt runs. It may be refused because the engine is closed,   *)
(* and a loss may go unreported because the client's callbacks are gone:   *)
(* that must mean that the session has been ended.                         *)
(***************************************************************************)

Idle(t) == pc[t] \in {"free", "armed"}

\* What only an ended session has.
OnlyOnceEnded ==
  (\/ closed \/ ~callbacks \/ closer # Nothing \/ closeCalls # {}
   \/ \E t \in Attempts : pc[t] = "ending") => ended

IInv == EngineTypeOK /\ OneAttempt /\ OnlyOnceEnded /\ RecoveryIsOwned

-----------------------------------------------------------------------------
(* What the parts of an action do. *)

\* Cancelling a timer takes no running attempt away.
LEMMA CancelledFacts ==
  ASSUME NEW P \in [Attempts -> PCs], NEW h \in Timers \cup {Nothing}
  PROVE  /\ Cancelled(P, h) \in [Attempts -> PCs]
         /\ \A t \in Attempts : Cancelled(P, h)[t] = P[t]
                                \/ (P[t] = "armed" /\ Cancelled(P, h)[t] = "free")
  BY NamesAssumption DEF Cancelled, Attempts, PCs

LEMMA ForgottenType ==
  ASSUME NEW by, NEW h \in Timers \cup {Nothing}
  PROVE  Forgotten(by, h) \in Timers \cup {Nothing}
  BY DEF Forgotten

\* handleDisconnect: unless the engine is closed, it schedules an attempt or ends the
\* session; no running attempt is touched.
LEMMA Scheduling ==
  ASSUME NEW by, NEW P \in [Attempts -> PCs], NEW h \in Timers \cup {Nothing}, NEW n,
         ended \in BOOLEAN, closeCalls \subseteq Closers,
         HandleDisconnect(by, P, h, n)
  PROVE  /\ pc' \in [Attempts -> PCs]
         /\ reconnectTimeout' \in Timers \cup {Nothing}
         /\ \A t \in Attempts : \/ pc'[t] = P[t]
                                \/ {P[t], pc'[t]} \subseteq {"free", "armed"}
         /\ closed \/ ended' \/ \E t \in Attempts : pc'[t] = "armed"
         /\ ended' \in BOOLEAN /\ (ended => ended')
         /\ closeCalls' \subseteq Closers /\ (closeCalls' # closeCalls => ended')
  <1>1. CASE /\ UNCHANGED <<closeCalls, ended>>
             /\ LET Q == Cancelled(P, h)
                IN  \E t \in Timers : /\ IsNext(t, Q)
                                      /\ pc' = [Q EXCEPT ![t] = "armed"]
                                      /\ reconnectTimeout' = Forgotten(by, t)
    <2> DEFINE Q == Cancelled(P, h)
    <2>1. PICK t \in Timers : /\ Q[t] = "free"
                              /\ pc' = [Q EXCEPT ![t] = "armed"]
                              /\ reconnectTimeout' = Forgotten(by, t)
      BY <1>1 DEF IsNext
    <2>2. /\ Q \in [Attempts -> PCs]
          /\ \A u \in Attempts : Q[u] = P[u] \/ (P[u] = "armed" /\ Q[u] = "free")
      BY CancelledFacts
    <2> HIDE DEF Q
    <2>3. \A u \in Attempts : u # t => pc'[u] = Q[u]
      BY <2>1, <2>2
    <2>4. reconnectTimeout' \in Timers \cup {Nothing}
      BY <2>1, ForgottenType
    <2> QED
      BY <1>1, <2>1, <2>2, <2>3, <2>4 DEF PCs, Attempts
  <1> QED
    BY <1>1, ForgottenType DEF HandleDisconnect, Closers

\* What is left when attempt t is over.
Over ==
  /\ pc' \in [Attempts -> PCs] /\ reconnectTimeout' \in Timers \cup {Nothing}
  /\ full' \in BOOLEAN /\ attempting' \in BOOLEAN /\ ~attempting' /\ attempts' \in Nat
  /\ \A u \in Attempts : pc'[u] \in {"free", "armed"}
  /\ ended' \in BOOLEAN /\ (ended => ended')
  /\ closeCalls' \subseteq Closers /\ (closeCalls' # closeCalls => ended')

LEMMA FailsFacts ==
  ASSUME EngineTypeOK, OneAttempt, NEW t \in Attempts, Running(t),
         NEW escalate \in BOOLEAN, Fails(t, escalate)
  PROVE  Over /\ (closed \/ ended' \/ \E u \in Attempts : pc'[u] = "armed")
  <1> DEFINE P == [pc EXCEPT ![t] = "free"]
  <1>1. P \in [Attempts -> PCs] /\ \A u \in Attempts : P[u] \in {"free", "armed"}
    BY DEF EngineTypeOK, OneAttempt, Running, PCs
  <1>2. /\ reconnectTimeout \in Timers \cup {Nothing} /\ ended \in BOOLEAN /\ closeCalls \subseteq Closers
        /\ full \in BOOLEAN /\ attempts \in Nat
    BY DEF EngineTypeOK
  <1>3. HandleDisconnect(t, P, reconnectTimeout, attempts + 1)
    BY DEF Fails
  <1> HIDE DEF P
  <1>4. /\ pc' \in [Attempts -> PCs]
        /\ reconnectTimeout' \in Timers \cup {Nothing}
        /\ \A u \in Attempts : \/ pc'[u] = P[u]
                               \/ {P[u], pc'[u]} \subseteq {"free", "armed"}
        /\ closed \/ ended' \/ \E u \in Attempts : pc'[u] = "armed"
        /\ ended' \in BOOLEAN /\ (ended => ended')
        /\ closeCalls' \subseteq Closers /\ (closeCalls' # closeCalls => ended')
    BY <1>1, <1>2, <1>3, Scheduling
  <1>5. full' \in BOOLEAN /\ attempting' = FALSE /\ attempts' \in Nat
    BY <1>2 DEF Fails
  <1> QED
    BY <1>1, <1>4, <1>5 DEF Over

LEMMA SucceedsFacts ==
  ASSUME EngineTypeOK, OneAttempt, NEW t \in Attempts, Running(t), Succeeds(t)
  PROVE  /\ Over /\ full' = full
         /\ full => closed \/ ended' \/ \E u \in Attempts : pc'[u] = "armed"
  <1> DEFINE R == [pc EXCEPT ![t] = "free"]
             P == Cancelled(R, reconnectTimeout)
  <1>1. R \in [Attempts -> PCs] /\ \A u \in Attempts : R[u] \in {"free", "armed"}
    BY DEF EngineTypeOK, OneAttempt, Running, PCs
  <1>2. /\ reconnectTimeout \in Timers \cup {Nothing} /\ ended \in BOOLEAN /\ closeCalls \subseteq Closers
        /\ full \in BOOLEAN
    BY DEF EngineTypeOK
  <1> HIDE DEF R
  <1>3. P \in [Attempts -> PCs] /\ \A u \in Attempts : P[u] \in {"free", "armed"}
    BY <1>1, <1>2, CancelledFacts
  <1>4. attempts' = 0 /\ attempting' = FALSE /\ full' = full
    BY DEF Succeeds
  <1> HIDE DEF P
  <1>5. CASE full /\ ~closed /\ HandleDisconnect(t, P, reconnectTimeout, 0)
    <2>1. /\ pc' \in [Attempts -> PCs]
          /\ reconnectTimeout' \in Timers \cup {Nothing}
          /\ \A u \in Attempts : \/ pc'[u] = P[u]
                                 \/ {P[u], pc'[u]} \subseteq {"free", "armed"}
          /\ closed \/ ended' \/ \E u \in Attempts : pc'[u] = "armed"
          /\ ended' \in BOOLEAN /\ (ended => ended')
          /\ closeCalls' \subseteq Closers /\ (closeCalls' # closeCalls => ended')
      BY <1>2, <1>3, <1>5, Scheduling
    <2> QED
      BY <1>2, <1>3, <1>4, <2>1 DEF Over
  <1>6. CASE /\ ~full \/ closed
             /\ pc' = P /\ reconnectTimeout' = Forgotten(t, reconnectTimeout) /\ UNCHANGED <<closeCalls, ended>>
    BY <1>2, <1>3, <1>4, <1>6, ForgottenType DEF Over
  <1> QED
    BY <1>5, <1>6 DEF Succeeds, P, R

-----------------------------------------------------------------------------
(* Type correctness, one step per action.                                    *)

\* The types of what an attempt's scheduling and ending writes.
LEMMA DisconnectTypes ==
  ASSUME EngineTypeOK, Disconnects
  PROVE  /\ pc' \in [Attempts -> PCs] /\ reconnectTimeout' \in Timers \cup {Nothing}
         /\ ended' \in BOOLEAN /\ closeCalls' \subseteq Closers
  <1>1. /\ pc \in [Attempts -> PCs] /\ reconnectTimeout \in Timers \cup {Nothing}
        /\ ended \in BOOLEAN /\ closeCalls \subseteq Closers
    BY DEF EngineTypeOK
  <1> QED
    BY <1>1, Scheduling DEF Disconnects

LEMMA BeginsTypes ==
  ASSUME EngineTypeOK, NEW t \in Attempts, NEW P \in [Attempts -> PCs], AttemptBegins(t, P)
  PROVE  /\ pc' \in [Attempts -> PCs] /\ mode' \in [Attempts -> Modes]
         /\ attempting' = TRUE /\ full' = FALSE /\ lostQuality' = FALSE
         /\ callbacks' \in BOOLEAN
         /\ transport' \in {"none", "new", "connecting", "connected", "failed"}
         /\ sig' \in {"up", "trying", "down", "closing"}
         /\ driver' \in {"attempt", "engine", Nothing}
  BY DEF EngineTypeOK, AttemptBegins, Restart, ClientClosing, FirstMode, Modes, PCs

LEMMA ClosedTypes ==
  ASSUME EngineTypeOK, NEW who, ClientClosed(who)
  PROVE  sig' \in {"up", "trying", "down", "closing"} /\ driver' \in {"attempt", "engine", Nothing}
  BY DEF EngineTypeOK, ClientClosed

LEMMA JoinTypes ==
  ASSUME EngineTypeOK, NEW t \in Attempts, NEW m \in Modes,
         NEW tr \in {"none", "new", "connecting", "connected", "failed"}, Join(t, m, tr)
  PROVE  /\ pc' \in [Attempts -> PCs] /\ mode' \in [Attempts -> Modes]
         /\ joins' \in Nat /\ callbacks' \in BOOLEAN
         /\ transport' \in {"none", "new", "connecting", "connected", "failed"}
  BY EngineBounds DEF EngineTypeOK, Join, Modes, PCs

LEMMA AttemptTypes ==
  ASSUME EngineTypeOK, OneAttempt, NEW t \in Attempts, AttemptStep(t)
  PROVE  EngineTypeOK'
  <1> USE DEF EngineTypeOK, flags, sessionVars, control
  <1>1. CASE CleanedUp(t)
    BY <1>1, JoinTypes, ClosedTypes DEF CleanedUp
  <1>2. CASE OfferReady(t)
    BY <1>2 DEF OfferReady, PCs
  <1>3. CASE CallStarts(t)
    BY <1>3 DEF CallStarts, PCs
  <1>4. CASE Joined(t)
    <2>1. pc' \in [Attempts -> PCs] /\ pcState' = "Reconnecting"
      BY <1>4 DEF Joined, AwaitTransport, PCs
    <2>2. sig' = "up" /\ closed' = FALSE /\ transport' \in {"connecting", transport}
      BY <1>4 DEF Joined
    <2>3. /\ UNCHANGED <<full, attempting, attempts, reconnectTimeout, closeCalls, ended>>
          /\ UNCHANGED <<joins, awaitingNet, lostQuality, driver, callbacks, late>>
          /\ UNCHANGED <<mode, closer, regions, faults>>
      BY <1>4 DEF Joined, AwaitTransport
    <2>4. transport' \in {"none", "new", "connecting", "connected", "failed"}
      BY <2>2
    <2> QED
      BY <2>1, <2>2, <2>3, <2>4, ZenonT(30)
  <1>5. CASE Resumed(t)
    <2>1. CASE AwaitTransport(t) /\ transport' \in {"connecting", transport}
      BY <1>5, <2>1 DEF Resumed, AwaitTransport, PCs
    <2>2. CASE Fails(t, TRUE) /\ UNCHANGED <<transport, pcState>>
      <3>1. Over
        BY <1>5, <2>2, FailsFacts DEF Resumed, Running
      <3> QED
        BY <1>5, <2>2, <3>1 DEF Resumed, Over
    <2> QED
      BY <1>5, <2>1, <2>2 DEF Resumed
  <1>6. CASE JoinFails(t)
    BY <1>6, JoinTypes DEF JoinFails, SignalGivenUp, Modes, AskRegion, PCs
  <1>7. CASE ResumptionFails(t)
    <2>1. sig' \in {"up", "trying", "down", "closing"}
      BY <1>7 DEF ResumptionFails, SignalGivenUp
    <2>2. CASE \E leave \in BOOLEAN : Fails(t, leave)
      BY <1>7, <2>2, FailsFacts, <2>1 DEF ResumptionFails, Running, Over
    <2>3. CASE FailsForGood(t)
      BY <1>7, <2>1, <2>3 DEF ResumptionFails, FailsForGood, PCs, Closers
    <2> QED
      BY <1>7, <2>2, <2>3 DEF ResumptionFails
  <1>8. CASE TransportReady(t)
    <2>1. regions' \in {regions, MaxRegions}
      BY <1>8 DEF TransportReady
    <2>2. regions' \in 0..MaxRegions
      BY <2>1, EngineBounds
    <2>3. CASE Succeeds(t)
      BY <1>8, <2>3, SucceedsFacts, <2>2 DEF TransportReady, Running, Over
    <2>4. CASE AskRegion(t, FALSE)
      BY <1>8, <2>2, <2>4 DEF TransportReady, AskRegion, PCs
    <2>5. CASE Fails(t, FALSE)
      BY <1>8, <2>5, FailsFacts, <2>2 DEF TransportReady, Running, Over
    <2> QED
      BY <1>8, <2>3, <2>4, <2>5 DEF TransportReady
  <1>9. CASE TransportLate(t)
    <2>1. CASE AskRegion(t, FALSE)
      BY <1>9, <2>1 DEF TransportLate, AskRegion, PCs
    <2>2. CASE Fails(t, TRUE)
      <3>1. Over
        BY <1>9, <2>2, FailsFacts DEF TransportLate, Running
      <3> QED
        BY <1>9, <2>2, <3>1 DEF TransportLate, Over
    <2> QED
      BY <1>9, <2>1, <2>2 DEF TransportLate
  <1>10. CASE NextRegion(t)
    BY <1>10, EngineBounds DEF NextRegion, Restart, ClientClosing, FirstMode, Modes, PCs
  <1>11. CASE NoRegion(t)
    <2>1. regions' \in 0..MaxRegions
      BY <1>11, EngineBounds DEF NoRegion
    <2>2. CASE Fails(t, TRUE)
      <3>1. Over
        BY <1>11, <2>2, FailsFacts DEF NoRegion, Running
      <3>2. /\ UNCHANGED <<joins, awaitingNet, lostQuality, mode, closed, closer, faults>>
            /\ UNCHANGED <<sig, driver, callbacks, late, transport, pcState>>
        BY <1>11 DEF NoRegion
      <3> QED
        BY <2>1, <3>1, <3>2 DEF Over
    <2>3. CASE FailsForGood(t)
      BY <1>11, <2>1, <2>3 DEF NoRegion, FailsForGood, PCs, Closers
    <2> QED
      BY <1>11, <2>2, <2>3 DEF NoRegion
  <1>12. CASE RegionUnknown(t)
    <2>1. Over
      BY <1>12, FailsFacts DEF RegionUnknown, Running
    <2> QED
      BY <1>12, <2>1 DEF RegionUnknown, Over
  <1>13. CASE AttemptEnds(t)
    <2>1. /\ UNCHANGED <<full, attempts, joins, awaitingNet, lostQuality>>
          /\ UNCHANGED <<sig, driver, callbacks, late, transport, pcState, mode>>
          /\ UNCHANGED <<closed, closeCalls, closer, regions, ended, faults>>
      BY <1>13 DEF AttemptEnds
    <2>2. attempting' \in BOOLEAN /\ pc' \in [Attempts -> PCs]
      BY <1>13 DEF AttemptEnds, PCs
    <2> QED
      BY <2>1, <2>2, <1>13, ForgottenType DEF AttemptEnds
  <1> QED
    BY <1>1, <1>2, <1>3, <1>4, <1>5, <1>6, <1>7, <1>8, <1>9, <1>10, <1>11, <1>12, <1>13
    DEF AttemptStep

LEMMA CloseTypes ==
  ASSUME EngineTypeOK, CloseStep
  PROVE  EngineTypeOK'
  <1> USE DEF EngineTypeOK, flags, sessionVars
  <1>1. CASE CloseEnds
    <2>1. sig' \in {"up", "trying", "down", "closing"} /\ driver' \in {"attempt", "engine", Nothing}
      BY <1>1, ClosedTypes DEF CloseEnds
    <2>2. /\ UNCHANGED <<full, attempting, attempts, joins, awaitingNet, lostQuality>>
          /\ UNCHANGED <<late, transport, pcState, pc, mode, reconnectTimeout, closed>>
          /\ UNCHANGED <<closeCalls, regions, ended, faults>>
          /\ callbacks' = FALSE /\ closer' = Nothing
      BY <1>1 DEF CloseEnds
    <2> QED
      BY <2>1, <2>2, ZenonT(30)
  <1>2. ASSUME NEW c \in Closers, CloseBegins(c)  PROVE EngineTypeOK'
    <2>1. pc' \in [Attempts -> PCs]
      BY <1>2, CancelledFacts DEF CloseBegins
    <2>2. sig' \in {"up", "trying", "down", "closing"} /\ driver' \in {"attempt", "engine", Nothing}
      BY <1>2 DEF CloseBegins, ClientClosing
    <2>3. /\ UNCHANGED <<full, attempting, awaitingNet, callbacks, late, pcState, mode>>
          /\ UNCHANGED <<reconnectTimeout, regions, ended, faults>>
          /\ closer' = c /\ closeCalls' = closeCalls \ {c} /\ closed' = TRUE
          /\ joins' = 0 /\ attempts' = 0 /\ lostQuality' = FALSE /\ transport' = "none"
      BY <1>2 DEF CloseBegins
    <2> QED
      BY <2>1, <2>2, <2>3, ZenonT(30)
  <1> QED
    BY <1>1, <1>2 DEF CloseStep, CloseIsRedundant

LEMMA FaultType ==
  ASSUME EngineTypeOK, Fault
  PROVE  faults' \in 0..MaxFaults
  BY EngineBounds DEF EngineTypeOK, Fault

LEMMA TimerTypes ==
  ASSUME EngineTypeOK, NEW t \in Timers, TimerFires(t)
  PROVE  EngineTypeOK'
  <1>1. t \in Attempts /\ pc \in [Attempts -> PCs]
    BY DEF Attempts, EngineTypeOK
  <1>2. CASE AttemptBegins(t, pc) /\ UNCHANGED awaitingNet
    <2>1. /\ pc' \in [Attempts -> PCs] /\ mode' \in [Attempts -> Modes]
          /\ attempting' = TRUE /\ full' = FALSE /\ lostQuality' = FALSE
          /\ callbacks' \in BOOLEAN
          /\ transport' \in {"none", "new", "connecting", "connected", "failed"}
          /\ sig' \in {"up", "trying", "down", "closing"}
          /\ driver' \in {"attempt", "engine", Nothing}
      BY <1>1, <1>2, BeginsTypes
    <2> QED
      BY <1>2, <2>1 DEF TimerFires, AttemptBegins, EngineTypeOK
  <1>3. CASE ~MayBegin
    BY <1>1, <1>3, ForgottenType
    DEF TimerFires, AttemptBegins, EngineTypeOK, PCs, flags, sessionVars
  <1> QED
    BY <1>2, <1>3 DEF TimerFires, AttemptBegins

LEMMA EventTypes ==
  ASSUME EngineTypeOK, Events \/ ReportLoss
  PROVE  EngineTypeOK'
  <1> USE DEF EngineTypeOK, flags, sessionVars, control
  <1>1. CASE SignalLost
    BY <1>1, FaultType DEF SignalLost
  <1>2. CASE ReportLoss
    BY <1>2, DisconnectTypes DEF ReportLoss
  <1>3. CASE Leave
    <2>1. /\ faults' \in 0..MaxFaults
          /\ UNCHANGED <<attempting, attempts, joins, awaitingNet, lostQuality, mode>>
          /\ UNCHANGED <<sig, driver, callbacks, late, transport, pcState>>
          /\ UNCHANGED <<closed, closer, regions>>
      BY <1>3, FaultType DEF Leave
    <2>2. CASE /\ ended' = TRUE
               /\ closeCalls' = closeCalls \cup {Server}
               /\ UNCHANGED <<full, pc, reconnectTimeout>>
      BY <2>1, <2>2 DEF Closers
    <2>3. CASE full' \in {full, TRUE} /\ Disconnects
      <3> full' \in BOOLEAN
        BY <2>3
      <3> QED
        BY <2>1, <2>3, DisconnectTypes
    <2> QED
      BY <1>3, <2>2, <2>3 DEF Leave
  <1>4. CASE TransportConnects
    BY <1>4 DEF TransportConnects
  <1>5. CASE TransportFails
    BY <1>5, FaultType, DisconnectTypes DEF TransportFails
  <1>6. CASE QualityChanges
    BY <1>6, FaultType DEF QualityChanges
  <1>7. CASE LostQualityFires
    <2>1. /\ lostQuality' \in BOOLEAN
          /\ UNCHANGED <<attempting, attempts, joins, awaitingNet, mode>>
          /\ UNCHANGED <<sig, driver, callbacks, late, transport, pcState>>
          /\ UNCHANGED <<closed, closer, regions, faults>>
      BY <1>7 DEF LostQualityFires
    <2>2. CASE full' = TRUE /\ Disconnects
      BY <2>2, DisconnectTypes, <2>1
    <2>3. CASE UNCHANGED <<full, pc, reconnectTimeout, closeCalls, ended>>
      BY <2>1, <2>3
    <2> QED
      BY <1>7, <2>2, <2>3 DEF LostQualityFires
  <1>8. CASE Reconcile
    BY <1>8, FaultType, DisconnectTypes DEF Reconcile
  <1>9. CASE BrowserOffline
    BY <1>9, FaultType DEF BrowserOffline
  <1>10. CASE BrowserOnline
    <2> DEFINE P == Cancelled(pc, reconnectTimeout)
    <2>1. P \in [Attempts -> PCs] /\ Browser \in Attempts
      BY CancelledFacts DEF Attempts
    <2>2. faults' \in 0..MaxFaults
      BY <1>10, FaultType DEF BrowserOnline
    <2>3. AttemptBegins(Browser, P)
          \/ /\ pc' = P
             /\ UNCHANGED <<full, attempting, attempts, joins, lostQuality, sessionVars,
                            mode, reconnectTimeout, closed, closeCalls, closer>>
      BY <1>10 DEF BrowserOnline
    <2> HIDE DEF P
    <2>4. CASE /\ pc' = P
               /\ UNCHANGED <<full, attempting, attempts, joins, lostQuality, sessionVars,
                              mode, reconnectTimeout, closed, closeCalls, closer>>
      <3>1. awaitingNet' \in BOOLEAN /\ UNCHANGED <<regions, ended>>
        BY <1>10 DEF BrowserOnline
      <3> QED
        BY <2>1, <2>2, <2>4, <3>1
    <2> QED
      BY <2>3, <2>4, <2>1, BeginsTypes, <1>10, <2>2 DEF BrowserOnline, AttemptBegins
  <1>11. CASE OwnerCloses
    BY <1>11 DEF OwnerCloses, Closers
  <1>12. ASSUME NEW t \in Attempts, OfferFails(t)  PROVE EngineTypeOK'
    BY <1>12 DEF OfferFails, AskRegion, PCs
  <1>13. CASE NegotiationFails
    <2>1. full' \in BOOLEAN
      BY <1>13 DEF NegotiationFails
    <2> QED
      BY <1>13, <2>1, FaultType, DisconnectTypes DEF NegotiationFails
  <1> QED
    BY <1>1, <1>2, <1>3, <1>4, <1>5, <1>6, <1>7, <1>8, <1>9, <1>10, <1>11, <1>12, <1>13
    DEF Events

-----------------------------------------------------------------------------
(* The invariant, by what a step does to the attempts.                       *)

Main == OneAttempt /\ OnlyOnceEnded /\ RecoveryIsOwned

\* What ends the session stays recorded.
Recorded ==
  /\ ended' \in BOOLEAN /\ (ended => ended')
  /\ closed' \/ ~callbacks' \/ closer' # Nothing \/ closeCalls' # {} => ended'

\* An attempt that runs goes on running.
LEMMA GoesOn ==
  ASSUME EngineTypeOK, IInv, NEW t \in Attempts, Running(t), Running(t)', Recorded,
         \A u \in Attempts : u # t => pc'[u] = pc[u],
         attempting' = attempting, pc'[t] = "ending" => ended'
  PROVE  Main'
  BY DEF IInv, Main, OneAttempt, OnlyOnceEnded, RecoveryIsOwned, Recorded, Running

\* No attempt starts, runs on or ends, and no timer is cancelled for good.
LEMMA NothingRuns ==
  ASSUME EngineTypeOK, IInv, Recorded,
         \A u \in Attempts : pc'[u] = pc[u] \/ {pc[u], pc'[u]} \subseteq {"free", "armed"},
         attempting' = attempting,
         Broken' => \/ ended' \/ late' > 0
                    \/ \E u \in Attempts : pc'[u] # "free"
  PROVE  Main'
  BY DEF IInv, Main, OneAttempt, OnlyOnceEnded, RecoveryIsOwned, Recorded, Running

\* An attempt is over.
LEMMA IsOver ==
  ASSUME Over, Recorded,
         Broken' => ended' \/ \E u \in Attempts : pc'[u] # "free"
  PROVE  Main'
  BY DEF Main, OneAttempt, OnlyOnceEnded, RecoveryIsOwned, Recorded, Over, Running

\* An attempt begins where none was running.
LEMMA Starts ==
  ASSUME IInv, NEW t \in Attempts, NEW P \in [Attempts -> PCs],
         \A u \in Attempts : P[u] = pc[u] \/ {P[u], pc[u]} \subseteq {"free", "armed"},
         AttemptBegins(t, P), ended' = ended
  PROVE  Main'
  <1>1. \A u \in Attempts : P[u] \in {"free", "armed"}
    BY DEF AttemptBegins, MayBegin, IInv, OneAttempt, Running
  <1>2. /\ pc' = [P EXCEPT ![t] = pc'[t]]
        /\ pc'[t] \in {"cleanup", "call"}
    BY DEF AttemptBegins, Restart
  <1>3. Recorded
    BY DEF AttemptBegins, Recorded, IInv, OnlyOnceEnded, EngineTypeOK
  <1> QED
    BY <1>3, <1>1, <1>2 DEF Main, OneAttempt, OnlyOnceEnded, RecoveryIsOwned, Recorded, Running, AttemptBegins

\* handleDisconnect, called from an event.
LEMMA Reschedules ==
  ASSUME IInv, Disconnects, UNCHANGED <<attempting, closed, callbacks, closer>>
  PROVE  Main'
  BY Scheduling, NothingRuns DEF IInv, EngineTypeOK, Disconnects, OnlyOnceEnded, Recorded

\* A failed attempt, given that the client keeps its callbacks.
LEMMA AttemptFailed ==
  ASSUME IInv, NEW t \in Attempts, Running(t), NEW escalate \in BOOLEAN,
         Fails(t, escalate), UNCHANGED <<closed, callbacks, closer>>
  PROVE  Main'
  BY FailsFacts, IsOver DEF IInv, Over, Recorded, OnlyOnceEnded

\* The other ways an attempt goes on: it asks for a region, closes the engine, joins,
\* or waits for something else.
LEMMA AsksRegion ==
  ASSUME IInv, NEW t \in Attempts, Running(t), NEW fatal \in BOOLEAN,
         AskRegion(t, fatal), UNCHANGED <<closed, callbacks, closer>>
  PROVE  Main'
  BY GoesOn DEF AskRegion, IInv, EngineTypeOK, Running, Recorded, OnlyOnceEnded

LEMMA GivesUp ==
  ASSUME IInv, NEW t \in Attempts, Running(t), FailsForGood(t),
         UNCHANGED <<closed, callbacks, closer>>
  PROVE  Main'
  BY GoesOn DEF FailsForGood, IInv, EngineTypeOK, Running, Recorded

LEMMA JoinsAgain ==
  ASSUME IInv, NEW t \in Attempts, Running(t), NEW m, NEW tr, Join(t, m, tr),
         UNCHANGED <<attempting, closed, closer, closeCalls, ended>>
  PROVE  Main'
  BY GoesOn DEF Join, IInv, EngineTypeOK, Running, Recorded, OnlyOnceEnded

\* A step that only moves a running attempt on.
LEMMA MovesOn ==
  ASSUME IInv, NEW t \in Attempts, Running(t), NEW l \in PCs \ {"free", "armed", "ending"},
         pc' = [pc EXCEPT ![t] = l], closed' => closed,
         UNCHANGED <<attempting, callbacks, closer, closeCalls, ended>>
  PROVE  Main'
  BY GoesOn DEF IInv, EngineTypeOK, Running, Recorded, OnlyOnceEnded

LEMMA AttemptKeeps ==
  ASSUME IInv, NEW t \in Attempts, AttemptStep(t)
  PROVE  Main'
  <1> USE DEF sessionVars
  <1>1. CASE CleanedUp(t)
    BY <1>1, JoinsAgain DEF CleanedUp, Running
  <1>2. CASE OfferReady(t)
    BY <1>2, MovesOn DEF OfferReady, Running, flags, PCs
  <1>3. CASE CallStarts(t)
    BY <1>3, MovesOn DEF CallStarts, Running, flags, PCs
  <1>4. CASE Joined(t)
    BY <1>4, MovesOn DEF Joined, Running, AwaitTransport, PCs
  <1>5. CASE Resumed(t)
    BY <1>5, MovesOn, AttemptFailed DEF Resumed, Running, AwaitTransport, PCs
  <1>6. CASE JoinFails(t)
    BY <1>6, JoinsAgain, AsksRegion DEF JoinFails, Running
  <1>7. CASE ResumptionFails(t)
    BY <1>7, AttemptFailed, GivesUp DEF ResumptionFails, Running
  <1>8. CASE TransportReady(t)
    BY <1>8, SucceedsFacts, IsOver, AttemptFailed, AsksRegion
      DEF TransportReady, Running, IInv, Over, Recorded, OnlyOnceEnded, Broken
  <1>9. CASE TransportLate(t)
    BY <1>9, AttemptFailed, AsksRegion DEF TransportLate, Running
  <1>10. CASE NextRegion(t)
    BY <1>10, MovesOn DEF NextRegion, Running, flags, Restart, PCs
  <1>11. CASE NoRegion(t)
    BY <1>11, AttemptFailed, GivesUp DEF NoRegion, Running
  <1>12. CASE RegionUnknown(t)
    BY <1>12, AttemptFailed DEF RegionUnknown, Running
  <1>13. CASE AttemptEnds(t)
    BY <1>13 DEF AttemptEnds, IInv, OnlyOnceEnded, Running, EngineTypeOK, OneAttempt, Main, RecoveryIsOwned
  <1> QED
    BY <1>1, <1>2, <1>3, <1>4, <1>5, <1>6, <1>7, <1>8, <1>9, <1>10, <1>11, <1>12, <1>13
    DEF AttemptStep

LEMMA CloseKeeps ==
  ASSUME IInv, CloseStep
  PROVE  Main'
  <1>1. ended
    BY DEF CloseStep, CloseEnds, CloseIsRedundant, CloseBegins, IInv, OnlyOnceEnded
  <1>2. ASSUME NEW c \in Closers, CloseIsRedundant(c)  PROVE Main'
    BY <1>1, <1>2 DEF CloseIsRedundant, flags, IInv, EngineTypeOK, Main, OneAttempt,
                      OnlyOnceEnded, RecoveryIsOwned, Running
  <1>3. ASSUME NEW c \in Closers, CloseBegins(c)  PROVE Main'
    BY <1>3, CancelledFacts, <1>1, NothingRuns DEF IInv, EngineTypeOK, CloseBegins, Recorded
  <1> QED
    BY <1>2, <1>3, <1>1, NothingRuns DEF CloseStep, CloseEnds, flags, IInv, Recorded, EngineTypeOK

LEMMA TimerKeeps ==
  ASSUME IInv, NEW t \in Timers, TimerFires(t)
  PROVE  Main'
  <1>1. t \in Attempts /\ pc \in [Attempts -> PCs] /\ EngineTypeOK
    BY DEF Attempts, IInv, EngineTypeOK
  <1>2. CASE ~MayBegin /\ pc' = [pc EXCEPT ![t] = "free"] /\ UNCHANGED <<flags, sessionVars, closed, closeCalls, closer>>
    <2>1. /\ \A u \in Attempts : pc'[u] = pc[u] \/ {pc[u], pc'[u]} \subseteq {"free", "armed"}
          /\ attempting' = attempting
      BY <1>1, <1>2 DEF TimerFires, flags
    <2>2. Recorded
      BY <1>2 DEF TimerFires, Recorded, IInv, OnlyOnceEnded, EngineTypeOK, sessionVars
    <2>3. ended' \/ \E u \in Attempts : pc'[u] # "free"
      BY <2>1, <1>2, <2>2 DEF IInv, OneAttempt, Running, MayBegin, Recorded
    <2> QED
      BY <1>1, <2>1, <2>2, <2>3, NothingRuns
  <1> QED
    BY <1>2, <1>1, Starts DEF TimerFires

\* A step that leaves the attempts and what ends the session alone.
LEMMA Unconcerned ==
  ASSUME IInv, UNCHANGED <<pc, attempting, ended, closed, callbacks, closer, closeCalls>>,
         Broken' => Broken \/ late' > 0 \/ ended, late > 0 => late' > 0
  PROVE  Main'
  BY DEF IInv, EngineTypeOK, Main, OneAttempt, OnlyOnceEnded, RecoveryIsOwned, Running

LEMMA EventsKeep ==
  ASSUME IInv, Events \/ ReportLoss
  PROVE  Main'
  <1>1. late \in Nat /\ EngineTypeOK
    BY DEF IInv, EngineTypeOK
  <1> USE DEF flags, sessionVars, control
  <1>2. CASE SignalLost
    BY <1>2, <1>1, Unconcerned DEF SignalLost, Fault, IInv, OnlyOnceEnded
  <1>3. CASE ReportLoss
    BY <1>3, Reschedules DEF ReportLoss
  <1>4. CASE Leave
    BY <1>4, <1>1, NothingRuns, Reschedules DEF Leave, Recorded
  <1>5. CASE TransportConnects
    BY <1>5, <1>1, Unconcerned DEF TransportConnects, Broken
  <1>6. CASE TransportFails
    BY <1>6, <1>1, Unconcerned, Reschedules DEF TransportFails, Broken
  <1>7. CASE QualityChanges
    BY <1>7, <1>1, Unconcerned DEF QualityChanges, Broken
  <1>8. CASE LostQualityFires
    BY <1>8, <1>1, Unconcerned, Reschedules DEF LostQualityFires, Broken
  <1>9. CASE Reconcile
    BY <1>9, Reschedules DEF Reconcile
  <1>10. CASE BrowserOffline
    BY <1>10, <1>1, Unconcerned DEF BrowserOffline, Broken
  <1>11. CASE BrowserOnline
    <2> DEFINE P == Cancelled(pc, reconnectTimeout)
    <2>1. /\ pc \in [Attempts -> PCs] /\ reconnectTimeout \in Timers \cup {Nothing}
          /\ Browser \in Attempts
      BY <1>1 DEF EngineTypeOK, Attempts
    <2>2. /\ P \in [Attempts -> PCs]
          /\ \A u \in Attempts : P[u] = pc[u] \/ (pc[u] = "armed" /\ P[u] = "free")
      BY <2>1, CancelledFacts
    <2>3. /\ ended' = ended
          /\ \/ AttemptBegins(Browser, P)
             \/ /\ ~MayBegin
                /\ pc' = P
                /\ UNCHANGED <<full, attempting, attempts, joins, lostQuality, sessionVars,
                               mode, reconnectTimeout, closed, closeCalls, closer>>
      BY <1>11 DEF BrowserOnline
    <2> HIDE DEF P
    <2>4. CASE /\ ~MayBegin
               /\ pc' = P
               /\ UNCHANGED <<full, attempting, attempts, joins, lostQuality, sessionVars,
                              mode, reconnectTimeout, closed, closeCalls, closer>>
      <3>1. /\ \A u \in Attempts : pc'[u] = pc[u] \/ {pc[u], pc'[u]} \subseteq {"free", "armed"}
            /\ attempting' = attempting
        BY <2>2, <2>4
      <3>2. Recorded
        BY <1>1, <2>3, <2>4 DEF Recorded, IInv, OnlyOnceEnded, EngineTypeOK
      <3>3. ended' \/ \E u \in Attempts : pc'[u] # "free"
        BY <3>1, <2>4, <3>2 DEF IInv, OneAttempt, Running, MayBegin, Recorded
      <3> QED
        BY <1>1, <3>1, <3>2, <3>3, NothingRuns
    <2> QED
      BY <2>3, <2>4, <2>1, <2>2, Starts
  <1>12. CASE OwnerCloses
    BY <1>12, <1>1, NothingRuns DEF OwnerCloses, Recorded
  <1>13. ASSUME NEW t \in Attempts, OfferFails(t)  PROVE Main'
    BY <1>13, AsksRegion DEF OfferFails, Running
  <1>14. CASE NegotiationFails
    BY <1>14, Reschedules DEF NegotiationFails
  <1> QED
    BY <1>2, <1>3, <1>4, <1>5, <1>6, <1>7, <1>8, <1>9, <1>10, <1>11, <1>12, <1>13, <1>14
    DEF Events

-----------------------------------------------------------------------------
(* The theorems.                                                             *)

LEMMA InitIInv == EngineInit => IInv
  <1> SUFFICES ASSUME EngineInit PROVE IInv
    OBVIOUS
  <1>1. EngineTypeOK
    <2>1. /\ attempts \in Nat /\ joins \in Nat /\ late \in Nat
          /\ faults \in 0..MaxFaults /\ regions \in 0..MaxRegions
      BY EngineBounds DEF EngineInit
    <2>2. /\ pc \in [Attempts -> PCs] /\ mode \in [Attempts -> Modes]
          /\ reconnectTimeout \in Timers \cup {Nothing} /\ closer \in Closers \cup {Nothing}
          /\ closeCalls \subseteq Closers
      BY DEF EngineInit, PCs, Modes
    <2> QED
      BY <2>1, <2>2 DEF EngineInit, EngineTypeOK
  <1> QED
    BY <1>1 DEF IInv, Main, EngineInit, OneAttempt, OnlyOnceEnded, RecoveryIsOwned, Broken, Running

LEMMA NextIInv == IInv /\ [EngineNext]_engineVars => IInv'
  <1> SUFFICES ASSUME IInv, [EngineNext]_engineVars PROVE IInv'
    OBVIOUS
  <1>1. EngineTypeOK /\ OneAttempt
    BY DEF IInv
  <1>2. CASE CloseStep
    BY <1>1, <1>2, CloseTypes, CloseKeeps DEF IInv, Main
  <1>3. CASE Events \/ ReportLoss
    BY <1>1, <1>3, EventTypes, EventsKeep DEF IInv, Main
  <1>4. CASE UNCHANGED engineVars
    BY <1>4 DEF engineVars, flags, sessionVars, control, IInv, EngineTypeOK, OneAttempt, OnlyOnceEnded,
                RecoveryIsOwned, Broken, Running
  <1> QED
    BY <1>2, <1>3, <1>4, <1>1, TimerTypes, TimerKeeps, AttemptTypes, AttemptKeeps DEF EngineNext, IInv, Main

\* RTCEngine's fields keep their types, whatever the bounds.
THEOREM EngineTypes == EngineSpec => []EngineTypeOK
  <1>1. IInv => EngineTypeOK
    BY DEF IInv
  <1> QED
    BY InitIInv, NextIInv, <1>1, PTL DEF EngineSpec

\* RTCEngine.attemptReconnect: whatever the number of timers, retries, regions and
\* losses, no two attempts are past the guard at once, and attemptingReconnect is set
\* exactly while one is, so it never refuses attempts for good.
THEOREM AttemptsAreSingle == EngineSpec => []OneAttempt
  <1>1. IInv => OneAttempt
    BY DEF IInv
  <1> QED
    BY InitIInv, NextIInv, <1>1, PTL DEF EngineSpec

\* RTCEngine.handleDisconnect: a session nobody ended is never left broken, or owing a
\* full reconnect, with no attempt running or scheduled and no loss to report.
THEOREM BrokenIsScheduled == EngineSpec => []RecoveryIsOwned
  <1>1. IInv => RecoveryIsOwned
    BY DEF IInv
  <1> QED
    BY InitIInv, NextIInv, <1>1, PTL DEF EngineSpec

\* RTCEngine: types, single attempts and scheduled recoveries hold together, for every value of
\* the bounds.
THEOREM RecoveryHolds == EngineSpec => []RecoveryIsSound
  <1>1. EngineTypeOK /\ OneAttempt /\ RecoveryIsOwned => RecoveryIsSound
    BY DEF RecoveryIsSound
  <1> QED
    BY <1>1, EngineTypes, AttemptsAreSingle, BrokenIsScheduled, PTL
-----------------------------------------------------------------------------
(***************************************************************************)
(* That EngineReconnect implements EngineSession: what room/RTCEngine.ts     *)
(* announces to its listeners follows the order EngineSession promises, for  *)
(* every number of timers, retries, joins, regions and faults.              *)
(*                                                                         *)
(* Once the session has ended every step is an end or a stutter, so only     *)
(* steps that end on a live session matter (Live). What they announce is     *)
(* read off the one attempt that runs: OneAttempt makes it the only one, and *)
(* OnlyRestarts says that an attempt which joins or looks for a region is a  *)
(* restart, so that a resume never announces a restart.                     *)
(***************************************************************************)
\* The awaits that only a restart reaches.
OnlyRestarts ==
  \A t \in Attempts :
    pc[t] \in {"cleanup", "offer", "region", "regionFatal"} => IsRestart(t)

RInv == IInv /\ OnlyRestarts

\* What the listeners heard last from an attempt that waits at q in mode m.
Heard(q, m) ==
  IF m = "resume" THEN IF q = "pcwait" THEN "signalResumed" ELSE "resuming"
                  ELSE IF q = "pcwait" THEN "signalRestarted" ELSE "restarting"

\* What a step is to the listeners.
Heeded == [Announced!Next]_(Announced!session)

-----------------------------------------------------------------------------
(* The announcement, read off the attempts.                                  *)

LEMMA PhaseEnded == ended => Phase = "ended"
  BY DEF Phase

LEMMA PhaseEndedNext == ended' => Phase' = "ended"
  BY DEF Phase

LEMMA PhaseSteady == ~ended /\ (\A t \in Attempts : ~Running(t)) => Phase = "steady"
  BY DEF Phase

LEMMA PhaseSteadyNext ==
  ~ended' /\ (\A t \in Attempts : ~Running(t)') => Phase' = "steady"
  BY DEF Phase

LEMMA PhaseHeard ==
  ASSUME ~ended, OneAttempt, NEW t \in Attempts, Running(t)
  PROVE  Phase = Heard(pc[t], mode[t])
  BY DEF OneAttempt, IsRestart, Running, Phase, Heard

LEMMA PhaseHeardNext ==
  ASSUME ~ended', OneAttempt', NEW t \in Attempts, Running(t)'
  PROVE  Phase' = Heard(pc'[t], mode'[t])
  BY DEF OneAttempt, IsRestart, Running, Phase, Heard

\* While the session lives, no announcement says that it has ended.
LEMMA PhaseAlive == OneAttempt /\ ~ended => Phase # "ended"
  BY PhaseSteady, PhaseHeard DEF Heard

-----------------------------------------------------------------------------
(* What a step is to the listeners, by what it does to the attempts.          *)

\* A step after which the session has ended.
LEMMA HeedEnd ==
  ASSUME RInv, ended'
  PROVE  Heeded
  BY PhaseAlive, PhaseEndedNext, PhaseEnded
    DEF RInv, IInv, Heeded, Announced!Next, Announced!AttemptEnds, Announced!End, Announced!session

\* A step that starts, ends and moves no attempt; it may ask for a full reconnect.
LEMMA HeedNothing ==
  ASSUME RInv, RInv', ~ended, ~ended', UNCHANGED mode,
         \A u \in Attempts : pc'[u] = pc[u] \/ {pc[u], pc'[u]} \subseteq {"free", "armed"},
         full' \in {full, TRUE}
  PROVE  Heeded
  <1>1. Phase' = Phase
    BY PhaseHeard, PhaseHeardNext, PhaseSteady, PhaseSteadyNext DEF Running, RInv, IInv
  <1>2. CASE full' = TRUE
    BY <1>2, PhaseAlive, <1>1 DEF RInv, IInv, Heeded, Announced!Next, Announced!Ask
  <1> QED
    BY <1>2, <1>1 DEF Heeded, Announced!session

\* An attempt that runs moves to q, still what it was.
LEMMA HeedMove ==
  ASSUME RInv, RInv', ~ended, ~ended', NEW t \in Attempts, Running(t), Running(t)',
         full' = full, IsRestart(t)' <=> IsRestart(t),
         pc'[t] = "pcwait" => pc[t] # "pcwait",
         pc[t] = "pcwait" => IsRestart(t)
  PROVE  Heeded
  <1>1. \/ Phase' = Phase
        \/ Phase = "resuming" /\ Phase' = "signalResumed"
        \/ Phase = "restarting" /\ Phase' = "signalRestarted"
        \/ Phase = "signalRestarted" /\ Phase' = "restarting"
    BY PhaseHeard, PhaseHeardNext DEF Heard, IsRestart, RInv, IInv
  <1> QED
    BY <1>1
      DEF Heeded, Announced!session, Announced!Next, Announced!SignalResumed, Announced!SignalRestarted,
          Announced!RestartElsewhere

\* An attempt is over and failed; a full reconnect is owed when it was a restart.
LEMMA HeedFailure ==
  ASSUME RInv, ~ended, ~ended', NEW t \in Attempts, Running(t), Over,
         full' \in {full, TRUE}, IsRestart(t) => full'
  PROVE  Heeded
  <1>1. Phase = Heard(pc[t], mode[t]) /\ Phase' = "steady"
    BY PhaseHeard, PhaseSteadyNext DEF RInv, IInv, Over, Running
  <1>2. CASE ~IsRestart(t)
    <2>1. (full /\ ~ended)' \in {full /\ ~ended, TRUE}
      BY DEF Over, RInv, IInv, EngineTypeOK
    <2> QED
      BY <1>1, <2>1, <1>2
        DEF Heeded, Announced!Next, Announced!AttemptEnds, Announced!ResumeFailed, Heard, IsRestart
  <1> QED
    BY <1>2, <1>1
      DEF Heard, IsRestart, Over, Heeded, Announced!Next, Announced!AttemptEnds, Announced!RestartFailed

\* An attempt that heard from its transport is over and worked.
LEMMA HeedSuccess ==
  ASSUME RInv, ~ended, ~ended', NEW t \in Attempts, pc[t] = "pcwait", Over, full' = full
  PROVE  Heeded
  <1>1. Phase = Heard("pcwait", mode[t]) /\ Phase' = "steady"
    BY PhaseHeard, PhaseSteadyNext DEF RInv, IInv, Over, Running
  <1> QED
    BY <1>1 DEF Heeded, Announced!Next, Announced!AttemptEnds, Announced!Resumed, Announced!Restarted, Heard

\* attemptReconnect passes its guards.
LEMMA HeedStart ==
  ASSUME RInv, RInv', ~ended, ~ended', NEW t \in Attempts, NEW P \in [Attempts -> PCs],
         AttemptBegins(t, P)
  PROVE  Heeded
  <1>1. Phase = "steady"
    BY PhaseSteady DEF RInv, IInv, OneAttempt, AttemptBegins, MayBegin
  <1>2. (full /\ ~ended)' = FALSE
    BY DEF AttemptBegins
  <1>3. mode \in [Attempts -> Modes]
    BY DEF RInv, IInv, EngineTypeOK
  <1>4. CASE Restart(t, P)
    BY <1>3, <1>4, PhaseHeardNext, <1>1, <1>2
      DEF Restart, FirstMode, RInv, IInv, Running, Heard, Heeded, Announced!Next, Announced!Restart
  <1> QED
    BY <1>4, <1>3, PhaseHeardNext, <1>1, <1>2
      DEF AttemptBegins, RInv, IInv, Running, Heard, Heeded, Announced!Next, Announced!Resume

-----------------------------------------------------------------------------
(* What an attempt does next, one step per action.                            *)

Moved(t) ==
  /\ Running(t) /\ Running(t)' /\ UNCHANGED <<full, ended>>
  /\ \A u \in Attempts : u # t => pc'[u] = pc[u] /\ mode'[u] = mode[u]
  /\ IsRestart(t)' <=> IsRestart(t)
  /\ pc'[t] \in {"cleanup", "offer", "region", "regionFatal"} => IsRestart(t)
  /\ pc'[t] = "pcwait" => pc[t] # "pcwait"
  /\ pc[t] = "pcwait" => IsRestart(t)

Lost(t) ==
  /\ Running(t) /\ Over
  /\ full' \in {full, TRUE} /\ (IsRestart(t) => full')

Worked(t) == pc[t] = "pcwait" /\ Over /\ full' = full

\* UnexpectedConnectionState, and the end of the wait that follows it.
GivenUp(t) ==
  /\ ended' /\ UNCHANGED mode
  /\ pc' = [pc EXCEPT ![t] = "ending"] \/ pc' = [pc EXCEPT ![t] = "free"]

LEMMA FailureLoses ==
  ASSUME RInv, NEW t \in Attempts, Running(t), NEW escalate \in BOOLEAN,
         Fails(t, escalate), IsRestart(t) => escalate
  PROVE  Lost(t)
  BY FailsFacts DEF RInv, IInv, Fails, EngineTypeOK, Lost

LEMMA RegionMoves ==
  ASSUME RInv, NEW t \in Attempts, Running(t), IsRestart(t), NEW fatal \in BOOLEAN,
         AskRegion(t, fatal), UNCHANGED mode
  PROVE  Moved(t)
  BY DEF RInv, IInv, EngineTypeOK, AskRegion, Moved, Running, IsRestart

LEMMA JoinMoves ==
  ASSUME RInv, NEW t \in Attempts, Running(t), IsRestart(t), pc[t] # "pcwait",
         NEW m \in Modes \ {"resume"}, NEW tr, Join(t, m, tr),
         UNCHANGED <<full, ended>>
  PROVE  Moved(t)
  BY DEF RInv, IInv, EngineTypeOK, Join, Moved, Running, IsRestart

LEMMA AttemptGoes ==
  ASSUME RInv, NEW t \in Attempts, AttemptStep(t) \/ OfferFails(t)
  PROVE  Moved(t) \/ Lost(t) \/ Worked(t) \/ GivenUp(t)
  <1>1. pc \in [Attempts -> PCs] /\ mode \in [Attempts -> Modes]
    BY DEF RInv, IInv, EngineTypeOK
  <1>2. CASE CleanedUp(t)
    BY <1>1, <1>2, JoinMoves DEF CleanedUp, Running, RInv, OnlyRestarts, IsRestart
  <1>3. CASE OfferReady(t)
    BY <1>1, <1>3 DEF OfferReady, Moved, Running, IsRestart, flags
  <1>4. CASE CallStarts(t)
    BY <1>1, <1>4 DEF CallStarts, Moved, Running, IsRestart, flags
  <1>5. CASE Joined(t)
    BY <1>1, <1>5 DEF Joined, AwaitTransport, Moved, Running, IsRestart
  <1>6. CASE Resumed(t)
    BY <1>6, <1>1, FailureLoses DEF Resumed, Running, AwaitTransport, Moved, IsRestart
  <1>7. CASE JoinFails(t)
    BY <1>7, <1>1, JoinMoves, RegionMoves DEF JoinFails, Running, IsRestart, Modes
  <1>8. CASE ResumptionFails(t)
    BY <1>8, FailureLoses DEF ResumptionFails, Running, FailsForGood, GivenUp
  <1>9. CASE TransportReady(t)
    BY <1>9, SucceedsFacts, RegionMoves, FailureLoses DEF TransportReady, Running, Worked, RInv, IInv
  <1>10. CASE TransportLate(t)
    BY <1>10, RegionMoves, FailureLoses DEF TransportLate, Running
  <1>11. CASE NextRegion(t)
    BY <1>11, <1>1 DEF NextRegion, Running, RInv, OnlyRestarts, flags, Restart, Moved, IsRestart, FirstMode
  <1>12. CASE NoRegion(t)
    BY <1>12, FailureLoses DEF NoRegion, Running, FailsForGood, GivenUp
  <1>13. CASE RegionUnknown(t)
    BY <1>13, FailureLoses DEF RegionUnknown, Running
  <1>14. CASE AttemptEnds(t)
    BY <1>14 DEF AttemptEnds, GivenUp, RInv, IInv, OnlyOnceEnded
  <1>15. CASE OfferFails(t)
    BY <1>15, RegionMoves DEF OfferFails, Running, RInv, OnlyRestarts
  <1> QED
    BY <1>2, <1>3, <1>4, <1>5, <1>6, <1>7, <1>8, <1>9, <1>10, <1>11, <1>12, <1>13, <1>14,
       <1>15 DEF AttemptStep

-----------------------------------------------------------------------------
(* What the other actions do to the attempts.                                 *)

\* No attempt starts, moves or ends.
Still ==
  /\ UNCHANGED mode /\ full' \in {full, TRUE} /\ (ended => ended')
  /\ \A u \in Attempts : pc'[u] = pc[u] \/ {pc[u], pc'[u]} \subseteq {"free", "armed"}

Begun ==
  /\ UNCHANGED ended
  /\ \E t \in Attempts, P \in [Attempts -> PCs] :
       /\ \A u \in Attempts : P[u] \in {"free", "armed"}
       /\ AttemptBegins(t, P)

LEMMA DisconnectsStill ==
  ASSUME RInv, Disconnects, UNCHANGED mode, full' \in {full, TRUE}
  PROVE  Still
  <1>1. /\ \A u \in Attempts : pc'[u] = pc[u] \/ {pc[u], pc'[u]} \subseteq {"free", "armed"}
        /\ ended => ended'
    BY Scheduling DEF Disconnects, RInv, IInv, EngineTypeOK
  <1> QED
    BY <1>1 DEF Still

\* A step that leaves the timers alone too.
LEMMA UntouchedStill ==
  ASSUME UNCHANGED <<pc, mode>>, full' \in {full, TRUE}, ended => ended'
  PROVE  Still
  BY DEF Still

LEMMA BeginsBegun ==
  ASSUME RInv, NEW t \in Attempts, NEW P \in [Attempts -> PCs],
         \A u \in Attempts : P[u] = pc[u] \/ {P[u], pc[u]} \subseteq {"free", "armed"},
         AttemptBegins(t, P), ended' = ended
  PROVE  Begun
  BY DEF AttemptBegins, MayBegin, RInv, IInv, OneAttempt, Running, Begun

LEMMA TimerGoes ==
  ASSUME RInv, NEW t \in Timers, TimerFires(t)
  PROVE  Begun \/ Still
  BY BeginsBegun DEF Attempts, RInv, IInv, EngineTypeOK, TimerFires, flags, Still

LEMMA CancelledStill ==
  ASSUME RInv, pc' = Cancelled(pc, reconnectTimeout), UNCHANGED <<mode, full, ended>>
  PROVE  Still
  BY CancelledFacts DEF RInv, IInv, EngineTypeOK, Still

LEMMA OthersGo ==
  ASSUME RInv, CloseStep \/ ReportLoss \/ Events
  PROVE  \/ Begun \/ Still
         \/ \E t \in Attempts : OfferFails(t)
  <1> USE DEF flags, control
  <1>1. CASE CloseEnds \/ \E c \in Closers : CloseIsRedundant(c)
    BY UntouchedStill, <1>1 DEF CloseEnds, CloseIsRedundant
  <1>2. CASE ReportLoss
    BY <1>2, DisconnectsStill DEF ReportLoss
  <1>3. CASE SignalLost \/ TransportConnects \/ QualityChanges \/ BrowserOffline \/ OwnerCloses
    BY UntouchedStill, <1>3 DEF SignalLost, TransportConnects, QualityChanges, BrowserOffline, OwnerCloses
  <1>4. CASE Leave
    BY <1>4, UntouchedStill, DisconnectsStill DEF Leave
  <1>5. CASE TransportFails
    BY <1>5, UntouchedStill, DisconnectsStill DEF TransportFails
  <1>6. CASE LostQualityFires
    <2>1. UNCHANGED mode
      BY <1>6 DEF LostQualityFires
    <2>2. \/ full' = TRUE /\ Disconnects
          \/ UNCHANGED <<full, pc, ended>>
      BY <1>6 DEF LostQualityFires
    <2> QED
      BY <2>1, DisconnectsStill, UntouchedStill, <2>2
  <1>7. CASE Reconcile \/ NegotiationFails
    BY <1>7, DisconnectsStill DEF Reconcile, NegotiationFails
  <1>8. CASE BrowserOnline
    <2> DEFINE P == Cancelled(pc, reconnectTimeout)
    <2>1. /\ P \in [Attempts -> PCs]
          /\ \A u \in Attempts : P[u] = pc[u] \/ (pc[u] = "armed" /\ P[u] = "free")
      BY CancelledFacts DEF RInv, IInv, EngineTypeOK
    <2>2. /\ ended' = ended
          /\ AttemptBegins(Browser, P) \/ (pc' = P /\ UNCHANGED <<mode, full>>)
      BY <1>8 DEF BrowserOnline
    <2>3. CASE pc' = P /\ UNCHANGED <<mode, full>>
      BY <2>2, <2>3, CancelledStill
    <2> HIDE DEF P
    <2>4. CASE AttemptBegins(Browser, P)
      BY <2>1, <2>2, <2>4, BeginsBegun DEF Attempts
    <2> QED
      BY <2>2, <2>3, <2>4
  <1> QED
    BY <1>1, <1>2, <1>3, <1>4, <1>5, <1>6, <1>7, <1>8, CancelledStill DEF CloseStep, Events, CloseBegins

-----------------------------------------------------------------------------
(* The theorem.                                                              *)

Goes(t) == Moved(t) \/ Lost(t) \/ Worked(t) \/ GivenUp(t)

LEMMA NextGoes ==
  ASSUME RInv, EngineNext
  PROVE  Begun \/ Still \/ \E t \in Attempts : Goes(t)
  BY TimerGoes, AttemptGoes, OthersGo DEF EngineNext, Goes

LEMMA InitRInv == EngineInit => RInv
  BY InitIInv DEF EngineInit, OnlyRestarts, RInv

LEMMA NextRInv == RInv /\ [EngineNext]_engineVars => RInv'
  <1> SUFFICES ASSUME RInv, [EngineNext]_engineVars PROVE RInv'
    OBVIOUS
  <1>1. IInv' /\ mode \in [Attempts -> Modes] /\ pc \in [Attempts -> PCs]
    BY NextIInv DEF RInv, IInv, EngineTypeOK
  <1>2. CASE Begun
    BY <1>2, <1>1 DEF Begun, AttemptBegins, Restart, FirstMode, RInv, OnlyRestarts, IsRestart
  <1>3. ASSUME NEW t \in Attempts, Goes(t)  PROVE RInv'
    BY <1>1, <1>3 DEF Moved, RInv, OnlyRestarts, IsRestart, Lost, Worked, Over, GivenUp, Goes
  <1> QED
    BY <1>2, <1>3, NextGoes, <1>1 DEF engineVars, control, RInv, OnlyRestarts, IsRestart, Still

LEMMA NextHeeded == RInv /\ RInv' /\ [EngineNext]_engineVars => Heeded
  <1> SUFFICES ASSUME RInv, RInv', [EngineNext]_engineVars PROVE Heeded
    OBVIOUS
  <1>1. CASE Still /\ ~ended'
    BY <1>1, HeedNothing DEF Still
  <1>2. CASE Begun /\ ~ended'
    BY <1>2, HeedStart DEF Begun
  <1>3. ASSUME NEW t \in Attempts, Goes(t), ~ended'  PROVE Heeded
    <2>1. CASE Lost(t)
      BY <1>3, <2>1, HeedFailure DEF Lost, Over
    <2>2. CASE Worked(t)
      BY <1>3, <2>2, HeedSuccess DEF Worked, Over
    <2> QED
      BY <1>3, <2>1, <2>2, HeedMove DEF Goes, GivenUp, Moved
  <1> QED
    BY <1>1, <1>2, <1>3, NextGoes, HeedEnd
      DEF engineVars, flags, control, Heeded, Announced!session, Phase, Running, IsRestart

\* What RTCEngine.attemptReconnect, restartConnection, resumeConnection and close()
\* announce follows EngineSession for every value of the bounds: attempts do not mix, a
\* failed full reconnect is followed by another one, and the end is final.
THEOREM EngineImplementsSession == EngineSpec => ImplementsEngineSession
  <1>1. EngineInit => Announced!Init
    BY PhaseSteady DEF EngineInit, Running, Announced!Init
  <1>2. RInv /\ RInv' /\ [EngineNext]_engineVars => [Announced!Next]_(Announced!session)
    BY NextHeeded DEF Heeded
  <1> QED
    BY <1>1, <1>2, InitRInv, NextRInv, PTL DEF EngineSpec, ImplementsEngineSession, Announced!Spec

-----------------------------------------------------------------------------
(* waitForPCReconnected: the transport's state while an attempt waits for it. *)

\* The attempt that leaves the wait says how it ended.
LEMMA WaitLeft ==
  ASSUME NEW t \in Attempts, AttemptStep(t) \/ OfferFails(t), pc \in [Attempts -> PCs]
  PROVE  /\ Running(t)
         /\ \/ pc'[t] = "pcwait"
            \/ pcState' # "Reconnecting"
            \/ pcState' = pcState /\ pc[t] # "pcwait"
  <1> USE DEF sessionVars, Running
  <1>1. CASE CleanedUp(t) \/ OfferReady(t) \/ CallStarts(t) \/ JoinFails(t) \/ ResumptionFails(t)
    BY <1>1 DEF CleanedUp, OfferReady, CallStarts, JoinFails, ResumptionFails
  <1>2. CASE NextRegion(t) \/ NoRegion(t) \/ RegionUnknown(t) \/ AttemptEnds(t) \/ OfferFails(t)
    BY <1>2 DEF NextRegion, NoRegion, RegionUnknown, AttemptEnds, OfferFails
  <1> QED
    BY <1>1, <1>2 DEF AttemptStep, Joined, Resumed, AwaitTransport, TransportReady, TransportLate

\* Outside attempts, nothing makes the transport wait.
LEMMA OutsideWaits ==
  ASSUME (\E t \in Timers : TimerFires(t)) \/ CloseStep \/ ReportLoss \/ Events,
         ~\E t \in Attempts : OfferFails(t)
  PROVE  pcState' = pcState \/ pcState' # "Reconnecting"
  <1> USE DEF sessionVars
  <1>1. CASE SignalLost \/ Leave \/ TransportConnects \/ TransportFails
    BY <1>1 DEF SignalLost, Leave, TransportConnects, TransportFails
  <1>2. CASE QualityChanges \/ LostQualityFires \/ Reconcile \/ NegotiationFails
    BY <1>2 DEF QualityChanges, LostQualityFires, Reconcile, NegotiationFails
  <1>3. CASE BrowserOffline \/ BrowserOnline \/ OwnerCloses
    BY <1>3 DEF BrowserOffline, BrowserOnline, AttemptBegins, OwnerCloses
  <1> QED
    BY <1>1, <1>2, <1>3
      DEF Events, TimerFires, AttemptBegins, CloseStep, CloseEnds, CloseIsRedundant, CloseBegins, ReportLoss

LEMMA NextWaits == RInv /\ ReconnectingIsAWait /\ [EngineNext]_engineVars => ReconnectingIsAWait'
  <1> SUFFICES ASSUME RInv, ReconnectingIsAWait, [EngineNext]_engineVars, pcState' = "Reconnecting"
               PROVE  \E t \in Attempts : pc'[t] = "pcwait"
    BY DEF ReconnectingIsAWait
  <1>1. ASSUME NEW t \in Attempts, AttemptStep(t) \/ OfferFails(t)
        PROVE  pc'[t] = "pcwait"
    BY <1>1, WaitLeft DEF RInv, IInv, OneAttempt, Running, ReconnectingIsAWait, EngineTypeOK
  <1>2. ASSUME (\E t \in Timers : TimerFires(t)) \/ CloseStep \/ ReportLoss \/ Events,
               ~\E t \in Attempts : OfferFails(t)
        PROVE  \E t \in Attempts : pc'[t] = "pcwait"
    BY <1>2, OutsideWaits, TimerGoes, OthersGo
      DEF ReconnectingIsAWait, Begun, AttemptBegins, MayBegin, RInv, IInv, OneAttempt, Running, Still
  <1> QED
    BY <1>1, <1>2 DEF EngineNext, engineVars, sessionVars, control, ReconnectingIsAWait

\* RTCEngine.waitForPCReconnected: pcState is Reconnecting only while an attempt waits
\* there, whatever the number of attempts, regions and losses: no exit leaves it behind.
THEOREM ReconnectingIsWaitedFor == EngineSpec => []ReconnectingIsAWait
  <1>1. EngineInit => ReconnectingIsAWait
    BY DEF EngineInit, ReconnectingIsAWait
  <1> QED
    BY <1>1, InitRInv, NextRInv, NextWaits, PTL DEF EngineSpec

-----------------------------------------------------------------------------
(***************************************************************************)
(* ReliableDelivery and DataStreams.                                       *)
(***************************************************************************)

-----------------------------------------------------------------------------
(* Only the control part of the state matters here: records keep their      *)
(* fields, and the mutex queue holds exactly the calls that are under way.  *)

SendShape ==
  snd = [s \in Senders |-> [pc |-> snd[s].pc, pkt |-> snd[s].pkt,
                            dc |-> snd[s].dc, on |-> snd[s].on]]

ReplayShape ==
  rep = [r \in Replays |-> [pc |-> rep[r].pc, last |-> rep[r].last, dc |-> rep[r].dc,
                            on |-> rep[r].on, batch |-> rep[r].batch]]

Beyond == {"ready", "parked", "failed"}

\* Whoever is past the gate is at the head of the mutex queue.
HolderOnly ==
  /\ \A s \in Senders : snd[s].pc \in Beyond => HoldsLock(s)
  /\ \A r \in Replays : rep[r].pc \in Beyond => HoldsLock(r)

LockInv == SendShape /\ ReplayShape /\ lockQueue \in Seq(Clients) /\ HolderOnly

-----------------------------------------------------------------------------
\* The gate answers with one of three outcomes.
LEMMA HeadroomOutcomes ==
  ASSUME NEW ch
  PROVE  Headroom(ch) \in Beyond
  BY DEF Headroom, Beyond

\* A step that leaves the mutex alone and lets nobody past the gate but its holder.
LEMMA Stay ==
  ASSUME LockInv, SendShape', ReplayShape', UNCHANGED lockQueue,
         \A s \in Senders : snd'[s].pc \in Beyond => snd[s].pc \in Beyond \/ HoldsLock(s),
         \A r \in Replays : rep'[r].pc \in Beyond => rep[r].pc \in Beyond \/ HoldsLock(r)
  PROVE  LockInv'
  BY DEF LockInv, HolderOnly, HoldsLock

\* A step in which a caller queues for the lock and nobody passes the gate.
LEMMA Enqueue ==
  ASSUME LockInv, SendShape', ReplayShape', NEW p \in Clients,
         lockQueue' = Append(lockQueue, p),
         \A s \in Senders : snd'[s].pc \in Beyond => snd[s].pc \in Beyond,
         \A r \in Replays : rep'[r].pc \in Beyond => rep[r].pc \in Beyond
  PROVE  LockInv'
  BY DEF LockInv, HoldsLock, HolderOnly, Clients

\* A step in which the holder releases the lock and is no longer past the gate.
LEMMA LeavesLock ==
  ASSUME LockInv, SendShape', ReplayShape', NEW p \in Clients, HoldsLock(p), Unlock,
         \A s \in Senders : snd'[s].pc \in Beyond => snd[s].pc \in Beyond /\ s # p,
         \A r \in Replays : rep'[r].pc \in Beyond => rep[r].pc \in Beyond /\ r # p
  PROVE  LockInv'
  BY DEF LockInv, Unlock, HoldsLock, HolderOnly, Clients

-----------------------------------------------------------------------------
LEMMA InitLock == Init => LockInv
  BY DEF Init, LockInv, SendShape, ReplayShape, HolderOnly, IdleSend, IdleReplay,
     SendCall, ReplayCall, Beyond

\* Starting a send: at most its caller joins the queue.
LEMMA NewSendLock ==
  ASSUME LockInv, NEW s \in Senders, NewSend(s)
  PROVE  LockInv'
  <1>1. CASE SendQueue(s)
    BY <1>1, Enqueue DEF SendQueue, SendCall, SendUnchanged, LockInv, SendShape, ReplayShape, Beyond, Clients
  <1>2. CASE SendDeferred(s) \/ SendWithoutChannel(s) \/ SendTooLarge(s)
    BY <1>2, Stay
      DEF SendDeferred, SendWithoutChannel, SendTooLarge, SendUnchanged, LockInv, SendShape, ReplayShape
  <1> QED
    BY <1>1, <1>2 DEF NewSend

\* A sender at the gate: it passes holding the lock, or releases the lock.
LEMMA SenderStepLock ==
  ASSUME LockInv, NEW s \in Senders, SenderStep(s)
  PROVE  LockInv'
  <1>1. CASE SendFailed(s) \/ SendDeferredLate(s) \/ SendWrite(s) \/ SendThrows(s)
    <2>1. /\ snd[s].pc \in Beyond /\ Unlock /\ rep' = rep
          /\ snd' = [snd EXCEPT ![s] = IdleSend]
      BY <1>1 DEF SendFailed, SendDeferredLate, SendWrite, SendThrows, SendUnchanged, Beyond
    <2>2. SendShape' /\ ReplayShape'
      BY <2>1 DEF LockInv, SendShape, ReplayShape, IdleSend, SendCall
    <2>3. \A t \in Senders : snd'[t].pc \in Beyond => snd[t].pc \in Beyond /\ t # s
      BY <2>1 DEF LockInv, SendShape, IdleSend, SendCall, Beyond
    <2> QED
      BY <2>1, <2>2, <2>3, LeavesLock, ClientsAssumption DEF LockInv, HolderOnly, Clients
  <1> QED
    BY <1>1, Stay DEF SenderStep, SendGate, SendCall, SendUnchanged, LockInv, SendShape, ReplayShape

\* A replay's turn at the head of the queue: it goes on holding the lock, or leaves.
LEMMA ReplayContinueLock ==
  ASSUME LockInv, NEW r \in Replays, HoldsLock(r), snd' = snd,
         NEW its, NEW size, NEW ch, NEW batch, ReplayContinue(r, its, size, ch, batch)
  PROVE  LockInv'
  <1>1. CASE ~(batch # <<>>)
    <2>1. Unlock /\ rep' = [rep EXCEPT ![r] = IdleReplay]
      BY <1>1 DEF ReplayContinue
    <2>2. \A q \in Replays : rep'[q].pc \in Beyond => rep[q].pc \in Beyond /\ q # r
      BY <2>1 DEF LockInv, ReplayShape, IdleReplay, ReplayCall, Beyond
    <2>3. r \in Clients /\ r \notin Senders
      BY ClientsAssumption DEF Clients
    <2> QED
      BY <2>1, <2>2, <2>3, LeavesLock DEF LockInv, SendShape, ReplayShape, IdleReplay, ReplayCall
  <1> QED
    BY <1>1, Stay DEF ReplayContinue, LockInv, SendShape, ReplayCall, ReplayShape

LEMMA ReplayStepLock ==
  ASSUME LockInv, NEW r \in Replays, ReplayStep(r)
  PROVE  LockInv'
  <1>1. CASE ReplayNoChannel(r)
    BY <1>1, Stay
      DEF ReplayNoChannel, ReplayUnchanged, LockInv, SendShape, ReplayShape, IdleReplay, ReplayCall, Beyond
  <1>2. CASE ReplayStart(r)
    BY <1>2, Enqueue
      DEF ReplayStart, ReplayUnchanged, Clients, ReplayCall, LockInv, SendShape, ReplayShape, Beyond
  <1>3. CASE ReplayMark(r)
    BY <1>3, ReplayContinueLock DEF ReplayMark, ReplayUnchanged
  <1>4. CASE ReplaySend(r)
    BY <1>4, ReplayContinueLock DEF ReplaySend, ReplayUnchanged, LockInv, HolderOnly, Beyond
  <1>5. CASE ReplayFailed(r)
    <2>1. /\ rep[r].pc \in Beyond /\ Unlock /\ snd' = snd
          /\ rep' = [rep EXCEPT ![r] = IdleReplay]
      BY <1>5 DEF ReplayFailed, ReplayUnchanged, Beyond
    <2>2. SendShape' /\ ReplayShape'
      BY <2>1 DEF LockInv, SendShape, ReplayShape, IdleReplay, ReplayCall
    <2>3. \A q \in Replays : rep'[q].pc \in Beyond => rep[q].pc \in Beyond /\ q # r
      BY <2>1 DEF LockInv, ReplayShape, IdleReplay, ReplayCall, Beyond
    <2> QED
      BY <2>1, <2>2, <2>3, LeavesLock, ClientsAssumption DEF LockInv, HolderOnly, Clients
  <1> QED
    BY <1>1, <1>2, <1>3, <1>4, <1>5 DEF ReplayStep

\* Waking parked callers keeps the shape of the calls and lets nobody new past the gate.
LEMMA WokenSendsLock ==
  ASSUME LockInv, NEW cs, NEW outcome, snd' = WokenSends(cs, outcome)
  PROVE  /\ SendShape'
         /\ \A s \in Senders : snd'[s].pc \in Beyond => snd[s].pc \in Beyond
  BY DEF WokenSends, SendCall, LockInv, SendShape, Parked, Beyond

LEMMA WokenReplaysLock ==
  ASSUME LockInv, NEW cs, NEW outcome, NEW procs, procs = WokenReplays(cs, outcome)
  PROVE  /\ procs = [r \in Replays |-> [pc |-> procs[r].pc, last |-> procs[r].last,
                       dc |-> procs[r].dc, on |-> procs[r].on, batch |-> procs[r].batch]]
         /\ \A r \in Replays : procs[r].pc \in Beyond => rep[r].pc \in Beyond
  BY DEF WokenReplays, ReplayCall, LockInv, ReplayShape, Parked, Beyond

\* A resume starts at most one replay, which is not at the gate yet.
LEMMA StartedReplays ==
  ASSUME NEW procs, procs = [r \in Replays |-> [pc |-> procs[r].pc, last |-> procs[r].last,
                       dc |-> procs[r].dc, on |-> procs[r].on, batch |-> procs[r].batch]],
         \E r \in Replays : procs[r].pc = "idle",
         rep' = StartReplay(procs)
  PROVE  /\ ReplayShape'
         /\ \A r \in Replays : rep'[r].pc \in Beyond => procs[r].pc \in Beyond
  <1>1. CASE ack # 0
    <2>1. PICK q \in Replays :
            rep' = [procs EXCEPT ![q] = ReplayCall("pending", ack, None, None, <<>>)]
      BY <1>1 DEF StartReplay
    <2>2. /\ rep'[q] = ReplayCall("pending", ack, None, None, <<>>)
          /\ \A r \in Replays : r # q => rep'[r] = procs[r]
          /\ rep' = [r \in Replays |-> rep'[r]]
      BY <2>1
    <2>3. ASSUME NEW r \in Replays
          PROVE  rep'[r] = [pc |-> rep'[r].pc, last |-> rep'[r].last, dc |-> rep'[r].dc,
                            on |-> rep'[r].on, batch |-> rep'[r].batch]
      BY <2>2 DEF ReplayCall
    <2>4. ReplayShape'
      <3>1. rep' = [r \in Replays |->
                      [pc |-> rep'[r].pc, last |-> rep'[r].last, dc |-> rep'[r].dc,
                       on |-> rep'[r].on, batch |-> rep'[r].batch]]
        BY <2>2, <2>3, Zenon
      <3> QED
        BY <3>1 DEF ReplayShape
    <2>5. rep'[q].pc \notin Beyond
      <3>1. rep'[q].pc = "pending"
        BY <2>2 DEF ReplayCall
      <3> QED
        BY <3>1 DEF Beyond
    <2> QED
      BY <2>2, <2>4, <2>5
  <1> QED
    BY <1>1 DEF StartReplay, ReplayShape

LEMMA EngineStepLock ==
  ASSUME LockInv,
         EngineStep \/ EngineCloses \/ \E c \in ChannelIds : Transport(c) \/ ChannelAborts(c)
  PROVE  LockInv'
  <1>1. UNCHANGED lockQueue
    BY DEF EngineStep, PublisherConnects, ConnectionLost, ResumeBegins, ReconnectResponse,
           ResumeSucceeds, ResumeFails, RestartBegins, RestartEnds, EngineCloses,
           Transport, ChannelAborts, EngineUnchanged
  <1>2. CASE UNCHANGED <<snd, rep>>
    BY <1>1, <1>2, Stay DEF LockInv, SendShape, ReplayShape
  <1>3. CASE \E cs, outcome : WakeParked(cs, outcome)
    BY <1>1, <1>3, WokenSendsLock, WokenReplaysLock, Stay DEF WakeParked, ReplayShape
  <1>4. ASSUME NEW recreate \in BOOLEAN, ResumeSucceeds(recreate)
        PROVE  LockInv'
    <2>1. CASE recreate
      <3> DEFINE procs == WokenReplays(ChannelIds, "failed")
      <3>1. snd' = WokenSends(ChannelIds, "failed") /\ rep' = StartReplay(procs)
        BY <1>4, <2>1 DEF ResumeSucceeds
      <3>2. \E r \in Replays : procs[r].pc = "idle"
        BY <1>4 DEF ResumeSucceeds, WokenReplays, Parked
      <3>3. /\ procs = [r \in Replays |-> [pc |-> procs[r].pc, last |-> procs[r].last,
                          dc |-> procs[r].dc, on |-> procs[r].on, batch |-> procs[r].batch]]
            /\ \A r \in Replays : procs[r].pc \in Beyond => rep[r].pc \in Beyond
        BY WokenReplaysLock
      <3> HIDE DEF procs
      <3> QED
        BY <1>1, <3>1, <3>3, WokenSendsLock, Stay, <3>2, StartedReplays
    <2> QED
      BY <2>1, <1>4, StartedReplays, <1>1, Stay DEF ResumeSucceeds, LockInv, ReplayShape, SendShape
  <1>5. CASE RestartBegins \/ EngineCloses
    BY <1>5, <1>3 DEF RestartBegins, EngineCloses, Teardown, InvalidateWaiters
  <1>6. CASE \/ PublisherConnects \/ ConnectionLost \/ ResumeBegins \/ ReconnectResponse \/ ResumeFails
             \/ \E outcome \in {"connected", "interrupted"} : RestartEnds(outcome)
    BY <1>6, <1>2
      DEF PublisherConnects, ConnectionLost, ResumeBegins, ReconnectResponse, ResumeFails, RestartEnds
  <1> QED
    BY <1>4, <1>5, <1>6, <1>2, <1>3 DEF EngineStep, Transport, ChannelAborts

-----------------------------------------------------------------------------
LEMMA LockInvariant == Spec => []LockInv
  <1>1. LockInv /\ [Next]_vars => LockInv'
    BY NewSendLock, SenderStepLock, ReplayStepLock, EngineStepLock, Stay
      DEF Next, vars, LockInv, SendShape, ReplayShape
  <1> QED
    BY InitLock, <1>1, PTL DEF Spec

\* The headroom gate lets one caller through at a time, a replay for its whole
\* drain (FlowControlledDataChannel's lock, held across ReliableDataChannel.replay).
THEOREM GateIsExclusive == Spec => []GateExclusive
  <1>1. LockInv => GateExclusive
    BY DEF LockInv, HolderOnly, HoldsLock, GateExclusive, PastGate, Clients, Beyond
  <1> QED
    BY LockInvariant, <1>1, PTL
-----------------------------------------------------------------------------
(* Writes in order. The mutex grants the lock in the order in which numbers *)
(* were claimed, and a teardown, which starts the numbers anew, closes      *)
(* every channel that a caller could have captured before it.               *)

\* A call that can still write to the channel it captured.
CanWrite(p) ==
  /\ p \in Senders /\ snd[p].pc # "idle"
  /\ chan[snd[p].dc].state = "open"

ChannelsShape ==
  /\ chan = [c \in ChannelIds |-> [state |-> chan[c].state, queue |-> chan[c].queue]]
  /\ count.channels \in Nat
  /\ count = [claims |-> count.claims, channels |-> count.channels,
              resumes |-> count.resumes, aborts |-> count.aborts]
  /\ handle # None => handle \in ChannelIds /\ handle <= count.channels

NumbersShape ==
  /\ sequence \in Nat \ {0}
  /\ hist = [accepted |-> hist.accepted, arrived |-> hist.arrived,
             cutoff |-> hist.cutoff, direct |-> hist.direct]
  /\ hist.direct \in [ChannelIds -> Nat]

\* A call captured a channel that exists; nothing was written to one that does not.
Captured ==
  \A s \in Senders : snd[s].pc # "idle" =>
    /\ snd[s].dc \in ChannelIds /\ snd[s].dc <= count.channels
    /\ snd[s].pkt.seq \in Nat
Unborn == \A c \in ChannelIds : c > count.channels => hist.direct[c] = 0

\* Who waits for the lock is a call under way, and waits once.
WaitOnce ==
  \A i \in DOMAIN lockQueue : lockQueue[i] \in Senders =>
    /\ snd[lockQueue[i]].pc # "idle"
    /\ \A j \in DOMAIN lockQueue : lockQueue[j] = lockQueue[i] => j = i

\* Numbers on the way lie between what was written and the next to claim ...
NumbersLie ==
  /\ \A c \in ChannelIds : chan[c].state = "open" => hist.direct[c] < sequence
  /\ \A i \in DOMAIN lockQueue : CanWrite(lockQueue[i]) =>
       LET one == snd[lockQueue[i]]
       IN  hist.direct[one.dc] < one.pkt.seq /\ one.pkt.seq < sequence
\* ... and wait in the order in which they were claimed.
NumbersQueue ==
  \A i, j \in DOMAIN lockQueue :
    i < j /\ CanWrite(lockQueue[i]) /\ CanWrite(lockQueue[j])
      => snd[lockQueue[i]].pkt.seq < snd[lockQueue[j]].pkt.seq

WriteInv ==
  /\ ChannelsShape /\ NumbersShape /\ Captured /\ Unborn
  /\ WaitOnce /\ NumbersLie /\ NumbersQueue

-----------------------------------------------------------------------------
\* A call under way keeps its packet and the channel it captured.
KeepsCalls ==
  \A s \in Senders : /\ snd'[s].pc = "idle" <=> snd[s].pc = "idle"
                     /\ snd'[s].pkt = snd[s].pkt /\ snd'[s].dc = snd[s].dc

\* Channels open only when they are created.
NoneReopens ==
  \A c \in ChannelIds : chan'[c].state = "open" => chan[c].state = "open" \/ c > count.channels

Length == Len(lockQueue)

\* The places of the queue, before and after a caller joins or leaves it.
LEMMA Places ==
  ASSUME lockQueue \in Seq(Clients)
  PROVE  /\ Length \in Nat /\ DOMAIN lockQueue = 1..Length
         /\ \A i \in DOMAIN lockQueue : lockQueue[i] \in Clients
         /\ \A p : HoldsLock(p) => 1 \in DOMAIN lockQueue /\ lockQueue[1] = p
  BY EmptySeq DEF Length, HoldsLock

LEMMA PlacesAfterJoin ==
  ASSUME lockQueue \in Seq(Clients), NEW p \in Clients, lockQueue' = Append(lockQueue, p)
  PROVE  /\ DOMAIN lockQueue' = 1..(Length + 1) /\ lockQueue'[Length + 1] = p
         /\ \A i \in DOMAIN lockQueue : lockQueue'[i] = lockQueue[i]
  BY DEF Length

LEMMA PlacesAfterLeaving ==
  ASSUME lockQueue \in Seq(Clients), lockQueue # <<>>, Unlock
  PROVE  \A i \in DOMAIN lockQueue' :
           i \in Nat \ {0} /\ i + 1 \in DOMAIN lockQueue /\ lockQueue'[i] = lockQueue[i + 1]
  BY DEF Unlock

-----------------------------------------------------------------------------
\* A step in which nobody joins or leaves the queue and nothing is written.
LEMMA RestWrites ==
  ASSUME WriteInv, ChannelsShape', NumbersShape', KeepsCalls, NoneReopens,
         lockQueue' = lockQueue, hist'.direct = hist.direct,
         sequence' >= sequence, count'.channels >= count.channels
  PROVE  WriteInv'
  <1>1. /\ count.channels \in Nat /\ count'.channels \in Nat
        /\ sequence \in Nat \ {0} /\ sequence' \in Nat \ {0}
        /\ hist.direct \in [ChannelIds -> Nat] /\ ChannelIds \subseteq Nat
    BY DEF WriteInv, ChannelsShape, NumbersShape, ChannelIds
  <1>2. Captured'
    <2>1. ASSUME NEW s \in Senders, snd'[s].pc # "idle"
          PROVE  /\ snd'[s].dc \in ChannelIds /\ snd'[s].dc <= count'.channels
                 /\ snd'[s].pkt.seq \in Nat
      <3>1. /\ snd[s].dc \in ChannelIds /\ snd[s].dc <= count.channels
            /\ snd[s].pkt.seq \in Nat
            /\ snd'[s].pkt = snd[s].pkt /\ snd'[s].dc = snd[s].dc
        BY <2>1 DEF WriteInv, Captured, KeepsCalls
      <3>2. snd[s].dc \in Nat
        BY <1>1, <3>1
      <3> QED
        BY <1>1, <3>1, <3>2
    <2> QED
      BY <2>1 DEF Captured
  <1>3. Unborn'
    <2>1. ASSUME NEW c \in ChannelIds, c > count'.channels
          PROVE  hist'.direct[c] = 0
      <3>1. c > count.channels
        BY <1>1, <2>1
      <3>2. hist.direct[c] = 0
        BY <3>1 DEF WriteInv, Unborn
      <3> QED
        BY <3>2
    <2> QED
      BY <2>1 DEF Unborn
  <1>4. WaitOnce'
    BY DEF WriteInv, WaitOnce, KeepsCalls
  <1>5. ASSUME NEW p, CanWrite(p)'
        PROVE  /\ CanWrite(p) /\ snd'[p].pkt = snd[p].pkt /\ snd'[p].dc = snd[p].dc
               /\ snd[p].dc \in ChannelIds /\ snd[p].pkt.seq \in Nat
    <2>1. /\ p \in Senders /\ snd[p].pc # "idle" /\ chan'[snd[p].dc].state = "open"
          /\ snd'[p].pkt = snd[p].pkt /\ snd'[p].dc = snd[p].dc
      BY <1>5 DEF CanWrite, KeepsCalls
    <2>2. /\ snd[p].dc \in ChannelIds /\ snd[p].dc <= count.channels /\ snd[p].pkt.seq \in Nat
      BY <2>1 DEF WriteInv, Captured
    <2>3. chan[snd[p].dc].state = "open"
      <3>1. snd[p].dc \in Nat
        BY <1>1, <2>2
      <3>2. ~(snd[p].dc > count.channels)
        BY <1>1, <2>2, <3>1
      <3> QED
        BY <2>1, <2>2, <3>2 DEF NoneReopens
    <2> QED
      BY <2>1, <2>2, <2>3 DEF CanWrite
  <1>6. NumbersLie'
    <2>1. ASSUME NEW c \in ChannelIds, chan'[c].state = "open"
          PROVE  hist'.direct[c] < sequence'
      <3>1. CASE c > count.channels
        BY <1>1, <3>1 DEF WriteInv, Unborn
      <3>2. CASE chan[c].state = "open"
        <4>1. hist.direct[c] < sequence
          BY <3>2 DEF WriteInv, NumbersLie
        <4> QED
          BY <1>1, <4>1
      <3> QED
        BY <2>1, <3>1, <3>2 DEF NoneReopens
    <2>2. ASSUME NEW i \in DOMAIN lockQueue, CanWrite(lockQueue[i])'
          PROVE  LET one == snd'[lockQueue[i]]
                 IN  hist'.direct[one.dc] < one.pkt.seq /\ one.pkt.seq < sequence'
      <3>1. CanWrite(lockQueue[i])
        BY <1>5, <2>2
      <3>2. LET one == snd[lockQueue[i]]
            IN  hist.direct[one.dc] < one.pkt.seq /\ one.pkt.seq < sequence
        BY <3>1 DEF WriteInv, NumbersLie
      <3> QED
        BY <1>1, <1>5, <2>2, <3>2
    <2> QED
      BY <2>1, <2>2 DEF NumbersLie
  <1>7. NumbersQueue'
    <2>1. ASSUME NEW i \in DOMAIN lockQueue, NEW j \in DOMAIN lockQueue, i < j,
                 CanWrite(lockQueue[i])', CanWrite(lockQueue[j])'
          PROVE  snd'[lockQueue[i]].pkt.seq < snd'[lockQueue[j]].pkt.seq
      <3>1. snd[lockQueue[i]].pkt.seq < snd[lockQueue[j]].pkt.seq
        BY <1>5, <2>1 DEF WriteInv, NumbersQueue
      <3> QED
        BY <1>5, <2>1, <3>1
    <2> QED
      BY <2>1 DEF NumbersQueue
  <1> QED
    BY <1>2, <1>3, <1>4, <1>6, <1>7 DEF WriteInv

\* A teardown closes every channel: no call that captured one can write any more.
LEMMA TeardownWrites ==
  ASSUME WriteInv, ChannelsShape', NumbersShape', KeepsCalls,
         \A c \in ChannelIds : chan'[c].state # "open",
         lockQueue' = lockQueue, hist'.direct = hist.direct, count'.channels = count.channels
  PROVE  WriteInv'
  BY DEF WriteInv, Captured, Unborn, WaitOnce, KeepsCalls, CanWrite, NumbersLie, NumbersQueue

\* A send claims the next number and captures the channel as it joins the queue.
LEMMA JoinWrites ==
  ASSUME WriteInv, lockQueue \in Seq(Clients), NEW s \in Senders,
         ChannelsShape', NumbersShape',
         snd[s].pc = "idle", handle # None,
         \A t \in Senders : t # s => snd'[t] = snd[t],
         snd'[s].pc = "queued", snd'[s].pkt.seq = sequence, snd'[s].dc = handle,
         lockQueue' = Append(lockQueue, s), sequence' = sequence + 1,
         chan' = chan, hist' = hist, count'.channels = count.channels
  PROVE  WriteInv'
  <1>1. /\ count.channels \in Nat /\ sequence \in Nat \ {0}
        /\ hist.direct \in [ChannelIds -> Nat]
        /\ handle \in ChannelIds /\ handle <= count.channels
    BY DEF WriteInv, ChannelsShape, NumbersShape
  <1>2. Captured' /\ Unborn'
    BY <1>1 DEF WriteInv, Captured, Unborn
  <1>3. Length \in Nat /\ DOMAIN lockQueue = 1..Length
    BY Places
  <1>4. /\ DOMAIN lockQueue' = 1..(Length + 1) /\ lockQueue'[Length + 1] = s
        /\ \A i \in DOMAIN lockQueue : lockQueue'[i] = lockQueue[i]
    BY PlacesAfterJoin DEF Clients
  <1>5. \A i \in DOMAIN lockQueue : lockQueue[i] # s
    BY DEF WriteInv, WaitOnce
  <1>6. ASSUME NEW i \in DOMAIN lockQueue', i # Length + 1
        PROVE  i \in DOMAIN lockQueue /\ lockQueue'[i] = lockQueue[i] /\ lockQueue'[i] # s
    BY <1>3, <1>4, <1>5, <1>6
  <1>7. WaitOnce'
    <2>1. ASSUME NEW i \in DOMAIN lockQueue', lockQueue'[i] \in Senders
          PROVE  /\ snd'[lockQueue'[i]].pc # "idle"
                 /\ \A j \in DOMAIN lockQueue' : lockQueue'[j] = lockQueue'[i] => j = i
      <3>1. CASE i = Length + 1
        BY <1>4, <1>6, <3>1
      <3>2. CASE i # Length + 1
        BY <1>4, <1>6, <2>1, <3>2 DEF WriteInv, WaitOnce
      <3> QED
        BY <3>1, <3>2
    <2> QED
      BY <2>1 DEF WaitOnce
  <1>8. ASSUME NEW i \in DOMAIN lockQueue', i # Length + 1, CanWrite(lockQueue[i])'
        PROVE  /\ i \in DOMAIN lockQueue /\ CanWrite(lockQueue[i])
               /\ lockQueue'[i] = lockQueue[i] /\ snd'[lockQueue'[i]] = snd[lockQueue[i]]
               /\ snd[lockQueue[i]].pkt.seq \in Nat
               /\ snd[lockQueue[i]].pkt.seq < sequence
               /\ hist.direct[snd[lockQueue[i]].dc] < snd[lockQueue[i]].pkt.seq
    <2>1. i \in DOMAIN lockQueue /\ lockQueue'[i] = lockQueue[i] /\ lockQueue'[i] # s
      BY <1>6, <1>8
    <2>2. CanWrite(lockQueue[i]) /\ snd'[lockQueue'[i]] = snd[lockQueue[i]]
      <3> DEFINE p == lockQueue'[i]
      <3>1. p \in Senders /\ snd'[p].pc # "idle" /\ chan[snd'[p].dc].state = "open"
        BY <1>8 DEF CanWrite
      <3>2. snd'[p] = snd[p]
        BY <2>1, <3>1
      <3>3. CanWrite(p)
        BY <3>1, <3>2 DEF CanWrite
      <3> QED
        BY <2>1, <3>2, <3>3
    <2>3. snd[lockQueue[i]].pkt.seq \in Nat
      BY <2>2 DEF CanWrite, WriteInv, Captured
    <2> QED
      BY <2>1, <2>2, <2>3 DEF WriteInv, NumbersLie
  <1>9. NumbersLie'
    <2>1. ASSUME NEW c \in ChannelIds, chan'[c].state = "open"
          PROVE  hist'.direct[c] < sequence'
      <3>1. hist.direct[c] < sequence /\ hist.direct[c] \in Nat
        BY <1>1, <2>1 DEF WriteInv, NumbersLie
      <3> QED
        BY <1>1, <3>1
    <2>2. ASSUME NEW i \in DOMAIN lockQueue', CanWrite(lockQueue[i])'
          PROVE  LET one == snd'[lockQueue'[i]]
                 IN  hist'.direct[one.dc] < one.pkt.seq /\ one.pkt.seq < sequence'
      <3>1. CASE i = Length + 1
        <4>1. lockQueue'[i] = s
          BY <1>4, <3>1
        <4>2. CanWrite(s)'
          BY <2>2, <4>1
        <4>3. chan[handle].state = "open"
          BY <4>2 DEF CanWrite
        <4>4. hist.direct[handle] < sequence
          BY <1>1, <4>3 DEF WriteInv, NumbersLie
        <4> QED
          BY <1>1, <4>1, <4>4
      <3>2. CASE i # Length + 1
        BY <1>1, <1>8, <2>2, <3>2
      <3> QED
        BY <3>1, <3>2
    <2> QED
      BY <2>1, <2>2 DEF NumbersLie
  <1>10. NumbersQueue'
    <2>1. ASSUME NEW i \in DOMAIN lockQueue', NEW j \in DOMAIN lockQueue', i < j,
                 CanWrite(lockQueue[i])', CanWrite(lockQueue[j])'
          PROVE  snd'[lockQueue'[i]].pkt.seq < snd'[lockQueue'[j]].pkt.seq
      <3>1. i # Length + 1
        BY <1>3, <1>4, <2>1
      <3>2. CASE j = Length + 1
        BY <1>4, <1>8, <2>1, <3>1, <3>2
      <3>3. CASE j # Length + 1
        <4>1. snd[lockQueue[i]].pkt.seq < snd[lockQueue[j]].pkt.seq
          BY <1>8, <2>1, <3>1, <3>3 DEF WriteInv, NumbersQueue
        <4> QED
          BY <1>8, <2>1, <3>1, <3>3, <4>1
      <3> QED
        BY <3>2, <3>3
    <2> QED
      BY <2>1 DEF NumbersQueue
  <1> QED
    BY <1>2, <1>7, <1>9, <1>10 DEF WriteInv

\* A replay joins the queue and claims no number.
LEMMA ReplayJoins ==
  ASSUME WriteInv, lockQueue \in Seq(Clients), NEW r \in Replays,
         NumbersShape', hist'.direct = hist.direct,
         UNCHANGED <<snd, chan, count, sequence, handle>>,
         lockQueue' = Append(lockQueue, r)
  PROVE  WriteInv'
  <1>1. r \in Clients /\ r \notin Senders
    BY ClientsAssumption DEF Clients
  <1>2. /\ DOMAIN lockQueue' = 1..(Length + 1) /\ lockQueue'[Length + 1] = r
        /\ \A i \in DOMAIN lockQueue : lockQueue'[i] = lockQueue[i]
    BY <1>1, PlacesAfterJoin
  <1>3. ASSUME NEW i \in DOMAIN lockQueue', lockQueue'[i] \in Senders
        PROVE  i \in DOMAIN lockQueue /\ lockQueue'[i] = lockQueue[i]
    BY <1>1, <1>2, <1>3, Places
  <1>4. WaitOnce'
    BY <1>3 DEF WriteInv, WaitOnce
  <1>5. \A p : CanWrite(p)' <=> CanWrite(p)
    BY DEF CanWrite
  <1>6. \A p : CanWrite(p) => p \in Senders
    BY DEF CanWrite
  <1>7. NumbersLie'
    BY <1>3, <1>5, <1>6 DEF WriteInv, NumbersLie
  <1>8. NumbersQueue'
    BY <1>3, <1>5, <1>6 DEF WriteInv, NumbersQueue
  <1> QED
    BY <1>4, <1>7, <1>8 DEF WriteInv, ChannelsShape, Captured, Unborn

\* The head of the queue leaves, after a write of its packet or without one: what is
\* left are later numbers, none of them its own.
LEMMA LeaveWrites ==
  ASSUME WriteInv, lockQueue \in Seq(Clients), NEW p \in Clients, HoldsLock(p), Unlock,
         ChannelsShape', NumbersShape',
         \A s \in Senders : s # p => snd'[s] = snd[s],
         p \in Senders => snd'[p].pc = "idle",
         \A c \in ChannelIds : chan'[c].state = chan[c].state,
         sequence' = sequence, count'.channels = count.channels,
         \/ hist'.direct = hist.direct
         \/ /\ CanWrite(p)
            /\ hist'.direct = [hist.direct EXCEPT ![snd[p].dc] = snd[p].pkt.seq]
  PROVE  WriteInv'
  <1>1. /\ count.channels \in Nat /\ sequence \in Nat \ {0}
        /\ hist.direct \in [ChannelIds -> Nat] /\ ChannelIds \subseteq Nat
    BY DEF WriteInv, ChannelsShape, NumbersShape, ChannelIds
  <1>2. /\ lockQueue # <<>> /\ 1 \in DOMAIN lockQueue /\ lockQueue[1] = p
    BY Places DEF HoldsLock
  <1>3. \A i \in DOMAIN lockQueue' :
           i \in Nat \ {0} /\ i + 1 \in DOMAIN lockQueue /\ lockQueue'[i] = lockQueue[i + 1]
    BY <1>2, PlacesAfterLeaving
  <1>4. ASSUME NEW i \in DOMAIN lockQueue', lockQueue'[i] \in Senders
        PROVE  lockQueue'[i] # p /\ snd'[lockQueue'[i]] = snd[lockQueue'[i]]
    BY <1>3, <1>4, <1>2 DEF WriteInv, WaitOnce
  <1>5. WaitOnce'
    <2>1. ASSUME NEW i \in DOMAIN lockQueue', lockQueue'[i] \in Senders
          PROVE  /\ snd'[lockQueue'[i]].pc # "idle"
                 /\ \A j \in DOMAIN lockQueue' : lockQueue'[j] = lockQueue'[i] => j = i
      BY <1>3, <2>1, <1>4 DEF WriteInv, WaitOnce
    <2> QED
      BY <2>1 DEF WaitOnce
  <1>6. ASSUME NEW i \in DOMAIN lockQueue', CanWrite(lockQueue[i])'
        PROVE  /\ i + 1 \in DOMAIN lockQueue /\ i + 1 > 1 /\ CanWrite(lockQueue[i + 1])
               /\ snd'[lockQueue'[i]] = snd[lockQueue[i + 1]]
               /\ snd[lockQueue[i + 1]].dc \in ChannelIds
               /\ snd[lockQueue[i + 1]].pkt.seq \in Nat
               /\ snd[lockQueue[i + 1]].pkt.seq < sequence
               /\ hist.direct[snd[lockQueue[i + 1]].dc] < snd[lockQueue[i + 1]].pkt.seq
    <2> DEFINE q == lockQueue'[i]
    <2>1. q \in Senders /\ snd'[q].pc # "idle" /\ chan'[snd'[q].dc].state = "open"
      BY <1>6 DEF CanWrite
    <2>2. snd'[q] = snd[q]
      BY <1>4, <2>1
    <2>3. snd[q].dc \in ChannelIds /\ snd[q].pkt.seq \in Nat
      BY <2>1, <2>2 DEF WriteInv, Captured
    <2> HIDE DEF q
    <2> QED
      BY <2>2, <2>3, <1>3, <2>1 DEF WriteInv, NumbersLie, q, CanWrite
  <1>7. ASSUME hist'.direct = hist.direct
        PROVE  Unborn' /\ NumbersLie'
    BY <1>7, <1>6 DEF WriteInv, NumbersLie, Unborn
  <1>8. ASSUME CanWrite(p),
               hist'.direct = [hist.direct EXCEPT ![snd[p].dc] = snd[p].pkt.seq]
        PROVE  Unborn' /\ NumbersLie'
    <2>1. /\ p \in Senders /\ snd[p].dc \in ChannelIds /\ snd[p].dc <= count.channels
          /\ snd[p].pkt.seq \in Nat /\ snd[p].pkt.seq < sequence
      BY <1>8, <1>2 DEF CanWrite, WriteInv, NumbersLie, Captured
    <2>2. Unborn'
      BY <1>1, <2>1, <1>8 DEF WriteInv, Unborn
    <2>3. NumbersLie'
      BY <1>1, <1>8, <2>1, <1>2, <1>6 DEF WriteInv, NumbersLie, NumbersQueue
    <2> QED
      BY <2>2, <2>3
  <1>9. NumbersQueue'
    <2>1. ASSUME NEW i \in DOMAIN lockQueue', NEW j \in DOMAIN lockQueue', i < j,
                 CanWrite(lockQueue[i])', CanWrite(lockQueue[j])'
          PROVE  snd'[lockQueue'[i]].pkt.seq < snd'[lockQueue'[j]].pkt.seq
      <3>1. snd[lockQueue[i + 1]].pkt.seq < snd[lockQueue[j + 1]].pkt.seq
        BY <1>6, <2>1, <1>3 DEF WriteInv, NumbersQueue
      <3> QED
        BY <1>6, <2>1, <3>1
    <2> QED
      BY <2>1 DEF NumbersQueue
  <1> QED
    BY <1>5, <1>7, <1>8, <1>9 DEF WriteInv, Captured

-----------------------------------------------------------------------------
LEMMA InitWrites == Init => WriteInv
  <1> SUFFICES ASSUME Init PROVE WriteInv
    OBVIOUS
  <1>1. NumbersShape /\ Unborn
    BY DEF Init, NumbersShape, Unborn
  <1>2. Captured
    BY DEF Init, Captured, IdleSend, SendCall
  <1>3. WaitOnce /\ NumbersLie /\ NumbersQueue
    BY EmptySeq DEF Init, WaitOnce, NumbersLie, NumbersQueue
  <1> QED
    BY <1>1, <1>2, <1>3, BoundsAssumption DEF WriteInv, BoundsAssumption, ChannelIds, Init, ChannelsShape

\* Accepting a packet, or nothing at all, leaves the record of writes alone.
LEMMA AcceptShape ==
  ASSUME NumbersShape, sequence' \in Nat \ {0},
         UNCHANGED hist \/ \E pkt : Accept(pkt)
  PROVE  NumbersShape' /\ hist'.direct = hist.direct
  BY DEF NumbersShape, Accept

\* A packet that enters or leaves a channel's buffer opens and closes nothing.
LEMMA QueueChanges ==
  ASSUME ChannelsShape, NEW c, NEW q, chan' = [chan EXCEPT ![c].queue = q],
         UNCHANGED <<count, handle>>
  PROVE  /\ ChannelsShape' /\ count'.channels = count.channels
         /\ \A d \in ChannelIds : chan'[d].state = chan[d].state
  <1>1. \A d \in ChannelIds : chan[d] = [state |-> chan[d].state, queue |-> chan[d].queue]
    BY DEF ChannelsShape
  <1>2. chan' = [d \in ChannelIds |-> chan'[d]]
    BY DEF ChannelsShape
  <1>3. ASSUME NEW d \in ChannelIds
        PROVE  /\ chan'[d] = [state |-> chan'[d].state, queue |-> chan'[d].queue]
               /\ chan'[d].state = chan[d].state
    <2>1. CASE d = c
      BY <2>1, <1>1 DEF ChannelsShape
    <2>2. CASE d # c
      BY <2>2, <1>1 DEF ChannelsShape
    <2> QED
      BY <2>1, <2>2
  <1>4. chan' = [d \in ChannelIds |-> [state |-> chan'[d].state, queue |-> chan'[d].queue]]
    BY <1>2, <1>3, Zenon
  <1> QED
    BY <1>3, <1>4 DEF ChannelsShape

LEMMA NewSendWrites ==
  ASSUME LockInv, WriteInv, NEW s \in Senders, NewSend(s)
  PROVE  WriteInv'
  <1>1. Claim /\ SendUnchanged /\ chan' = chan
    BY DEF NewSend, SendQueue, SendDeferred, SendWithoutChannel, SendTooLarge
  <1>2. /\ ChannelsShape' /\ count'.channels = count.channels
        /\ sequence' = sequence + 1 /\ sequence \in Nat
        /\ sequence' \in Nat \ {0} /\ sequence' >= sequence
    BY <1>1 DEF Claim, SendUnchanged, WriteInv, ChannelsShape, NumbersShape
  <1>3. CASE SendDeferred(s) \/ SendWithoutChannel(s) \/ SendTooLarge(s)
    <2>1. NumbersShape' /\ hist'.direct = hist.direct
      BY <1>2, AcceptShape, <1>3 DEF WriteInv, SendDeferred, SendWithoutChannel, SendTooLarge, PushUnsent
    <2>2. UNCHANGED <<snd, lockQueue>>
      BY <1>3 DEF SendDeferred, SendWithoutChannel, SendTooLarge
    <2>3. count'.channels >= count.channels
      BY <1>2 DEF WriteInv, ChannelsShape
    <2> QED
      BY <1>2, <2>1, <2>2, <2>3, RestWrites, <1>1 DEF KeepsCalls, NoneReopens
  <1> QED
    BY <1>3, <1>2, AcceptShape, <1>1, JoinWrites
      DEF NewSend, SendQueue, WriteInv, LockInv, SendShape, SendCall, NewPacket

\* A sender at the gate. Only SendWrite writes, and it is the head of the queue.
LEMMA SenderStepWrites ==
  ASSUME LockInv, WriteInv, NEW s \in Senders, SenderStep(s)
  PROVE  WriteInv'
  <1>1. SendUnchanged /\ sequence' = sequence /\ count' = count
    BY DEF SenderStep, SendGate, SendFailed, SendDeferredLate, SendWrite, SendThrows
  <1>2. s \in DOMAIN snd
    BY DEF LockInv, SendShape
  <1>3. CASE SendGate(s)
    BY <1>3, HeadroomOutcomes, <1>2, <1>1, RestWrites
      DEF SendGate, Beyond, SendCall, KeepsCalls, NoneReopens, WriteInv, ChannelsShape, NumbersShape,
          SendUnchanged
  <1>4. ASSUME SendFailed(s) \/ SendDeferredLate(s) \/ SendWrite(s) \/ SendThrows(s)
        PROVE  /\ HoldsLock(s) /\ s \in Clients /\ Unlock
               /\ snd'[s].pc = "idle"
               /\ \A t \in Senders : t # s => snd'[t] = snd[t]
    <2>1. /\ snd[s].pc \in Beyond /\ Unlock
          /\ snd' = [snd EXCEPT ![s] = IdleSend]
      BY <1>4 DEF SendFailed, SendDeferredLate, SendWrite, SendThrows, Beyond
    <2> QED
      BY <1>2, <2>1 DEF LockInv, HolderOnly, Clients, IdleSend, SendCall
  <1>5. CASE SendFailed(s) \/ SendDeferredLate(s) \/ SendThrows(s)
    BY <1>5, <1>1, AcceptShape, <1>4, LeaveWrites
      DEF SendFailed, SendDeferredLate, SendThrows, PushUnsent, WriteInv, NumbersShape, SendUnchanged,
          ChannelsShape, LockInv
  <1>6. CASE SendWrite(s)
    BY <1>6, <1>1, QueueChanges, <1>4, LeaveWrites
      DEF SendWrite, CanWrite, WriteInv, Captured, SendUnchanged, NumbersShape, LockInv
  <1> QED
    BY <1>3, <1>5, <1>6 DEF SenderStep

\* A replay joins the queue, writes with the lock held, and leaves; it writes no
\* number of a sender.
LEMMA ReplayStepWrites ==
  ASSUME LockInv, WriteInv, NEW r \in Replays, ReplayStep(r)
  PROVE  WriteInv'
  <1>1. /\ ReplayUnchanged
        /\ r \in Clients /\ r \notin Senders
    BY ClientsAssumption
    DEF ReplayStep, ReplayNoChannel, ReplayStart, ReplayMark, ReplaySend, ReplayFailed, Clients
  <1>2. UNCHANGED <<snd, count, sequence, handle>>
    BY <1>1 DEF ReplayUnchanged
  <1>3. ASSUME hist' = hist, lockQueue' = lockQueue \/ (HoldsLock(r) /\ Unlock),
               ChannelsShape', \A c \in ChannelIds : chan'[c].state = chan[c].state
        PROVE  WriteInv'
    BY <1>2, <1>3, RestWrites, <1>1, LeaveWrites
      DEF WriteInv, NumbersShape, NoneReopens, LockInv, ChannelsShape, KeepsCalls
  <1>4. chan' = chan => ChannelsShape'
    BY <1>2 DEF WriteInv, ChannelsShape
  <1>5. ASSUME NEW its, NEW size, NEW ch, NEW batch, ReplayContinue(r, its, size, ch, batch)
        PROVE  lockQueue' = lockQueue \/ Unlock
    BY <1>5 DEF ReplayContinue
  <1>6. CASE ReplayMark(r)
    BY <1>6, <1>3, <1>4, <1>5 DEF ReplayMark
  <1>7. CASE ReplaySend(r)
    BY <1>7, <1>2, QueueChanges, <1>3, <1>5 DEF ReplaySend, Beyond, LockInv, HolderOnly, WriteInv
  <1>8. CASE ReplayFailed(r)
    BY <1>8, <1>3, <1>4 DEF ReplayFailed, Beyond, LockInv, HolderOnly
  <1> QED
    BY <1>6, <1>7, <1>8, <1>3, <1>4, <1>2, ReplayJoins
      DEF ReplayStep, ReplayNoChannel, ReplayStart, WriteInv, NumbersShape, LockInv

\* Waking the parked ends no call and moves none to another channel.
LEMMA WokenKeep ==
  ASSUME NEW cs, NEW outcome \in Beyond, snd' = WokenSends(cs, outcome)
  PROVE  KeepsCalls
  BY DEF WokenSends, Parked, SendCall, KeepsCalls, Beyond

\* A new channel takes the next place, where nothing has been written.
LEMMA CreatedWrites ==
  ASSUME WriteInv, CreateChannel, KeepsCalls, UNCHANGED <<lockQueue, sequence, hist>>
  PROVE  WriteInv'
  <1> DEFINE new == count.channels + 1
  <1>1. /\ count.channels \in Nat /\ MaxChannels \in Nat /\ count.channels < MaxChannels
        /\ chan' = [chan EXCEPT ![new].state = "open"] /\ handle' = new
        /\ count' = [count EXCEPT !.channels = new]
    BY BoundsAssumption DEF BoundsAssumption, CreateChannel, WriteInv, ChannelsShape
  <1>2. new \in ChannelIds /\ new > count.channels
    BY <1>1 DEF ChannelIds
  <1>3. count'.channels = new
        /\ count' = [claims |-> count'.claims, channels |-> count'.channels,
                     resumes |-> count'.resumes, aborts |-> count'.aborts]
    BY <1>1 DEF WriteInv, ChannelsShape
  <1>4. /\ chan'[new] = [chan[new] EXCEPT !.state = "open"]
        /\ \A c \in ChannelIds : c # new => chan'[c] = chan[c]
        /\ chan' = [c \in ChannelIds |-> chan'[c]]
    BY <1>1, <1>2 DEF WriteInv, ChannelsShape
  <1> HIDE DEF new
  <1>5. \A c \in ChannelIds : chan'[c] = [state |-> chan'[c].state, queue |-> chan'[c].queue]
    BY <1>2, <1>4 DEF WriteInv, ChannelsShape
  <1>6. chan' = [c \in ChannelIds |-> [state |-> chan'[c].state, queue |-> chan'[c].queue]]
    BY <1>4, <1>5, Zenon
  <1>7. NoneReopens
    BY <1>2, <1>4 DEF NoneReopens
  <1>8. NumbersShape' /\ sequence' >= sequence
    BY DEF WriteInv, NumbersShape
  <1> QED
    BY <1>7, <1>8, RestWrites, <1>3, <1>6, <1>1, <1>2 DEF ChannelsShape, ChannelIds

\* A step of the network: what the channel buffers, or its life, which does not resume.
LEMMA NetworkWrites ==
  ASSUME WriteInv, NEW c \in ChannelIds, Transport(c) \/ ChannelAborts(c)
  PROVE  WriteInv'
  <1>1. /\ UNCHANGED <<sequence, handle, lockQueue>>
        /\ sequence' >= sequence /\ sequence' \in Nat \ {0}
    BY DEF Transport, ChannelAborts, WriteInv, NumbersShape
  <1>2. CASE Transport(c)
    <2>1. /\ count' = count /\ \E q : chan' = [chan EXCEPT ![c].queue = q]
          /\ \E a : hist' = [hist EXCEPT !.arrived = a]
          /\ snd' = snd \/ snd' = WokenSends({c}, "ready")
      BY <1>2 DEF Transport, WakeParked
    <2>2. ChannelsShape' /\ NoneReopens
      BY <1>1, <2>1, QueueChanges DEF WriteInv, NoneReopens
    <2>3. NumbersShape' /\ hist'.direct = hist.direct
      BY <1>1, <2>1 DEF WriteInv, NumbersShape
    <2>4. count'.channels >= count.channels
      BY <2>1 DEF WriteInv, ChannelsShape
    <2> QED
      BY <1>1, <2>2, <2>3, <2>4, RestWrites, <2>1, WokenKeep DEF KeepsCalls, Beyond
  <1>3. CASE ChannelAborts(c)
    <2>1. /\ count' = [count EXCEPT !.aborts = @ + 1]
          /\ chan' = [chan EXCEPT ![c].state = "closed"]
          /\ hist' = hist /\ snd' = WokenSends({c}, "failed")
      BY <1>3 DEF ChannelAborts, WakeParked
    <2>2. /\ chan'[c] = [chan[c] EXCEPT !.state = "closed"]
          /\ \A d \in ChannelIds : d # c => chan'[d] = chan[d]
          /\ chan' = [d \in ChannelIds |-> chan'[d]]
      BY <2>1 DEF WriteInv, ChannelsShape
    <2>3. \A d \in ChannelIds : chan[d] = [state |-> chan[d].state, queue |-> chan[d].queue]
      BY DEF WriteInv, ChannelsShape
    <2>4. \A d \in ChannelIds : chan'[d] = [state |-> chan'[d].state, queue |-> chan'[d].queue]
      BY <2>2, <2>3
    <2>5. chan' = [d \in ChannelIds |-> [state |-> chan'[d].state, queue |-> chan'[d].queue]]
      BY <2>2, <2>4, Zenon
    <2>6. count'.channels = count.channels /\ count'.channels >= count.channels
      BY <2>1 DEF WriteInv, ChannelsShape
    <2>7. NoneReopens
      BY <2>2, <2>3 DEF NoneReopens
    <2>8. NumbersShape'
      BY <1>1, <2>1 DEF WriteInv, NumbersShape
    <2> QED
      BY <1>1, <2>1, <2>6, <2>7, <2>8, RestWrites, WokenKeep, <2>5 DEF Beyond, WriteInv, ChannelsShape
  <1> QED
    BY <1>2, <1>3

LEMMA EngineStepWrites ==
  ASSUME WriteInv, EngineStep \/ EngineCloses
  PROVE  WriteInv'
  <1>1. CASE /\ UNCHANGED <<snd, chan, handle, lockQueue, sequence, hist>>
             /\ count' = count \/ ReconnectResponse
    BY <1>1, RestWrites DEF ReconnectResponse, WriteInv, ChannelsShape, NumbersShape, KeepsCalls, NoneReopens
  <1>2. CASE PublisherConnects \/ \E recreate \in BOOLEAN : ResumeSucceeds(recreate)
    BY <1>2, <1>1, WokenKeep, CreatedWrites
      DEF PublisherConnects, ResumeSucceeds, EngineUnchanged, KeepsCalls, Beyond
  <1>3. CASE RestartBegins \/ EngineCloses
    BY <1>3, WokenKeep, TeardownWrites
      DEF RestartBegins, EngineCloses, Teardown, InvalidateWaiters, WakeParked, Beyond, WriteInv,
          ChannelsShape, NumbersShape
  <1> QED
    BY <1>2, <1>3, <1>1
      DEF EngineStep, ConnectionLost, ResumeBegins, ReconnectResponse, ResumeFails, RestartEnds,
          EngineUnchanged

LEMMA StutterWrites ==
  ASSUME WriteInv, UNCHANGED vars
  PROVE  WriteInv'
  BY RestWrites DEF vars, WriteInv, ChannelsShape, NumbersShape, KeepsCalls, NoneReopens

LEMMA WriteInvariant == Spec => [](LockInv /\ WriteInv)
  <1>1. LockInv /\ WriteInv /\ [Next]_vars => WriteInv'
    BY NewSendWrites, SenderStepWrites, ReplayStepWrites, NetworkWrites, EngineStepWrites, StutterWrites
      DEF Next
  <1> QED
    BY InitWrites, LockInvariant, <1>1, PTL DEF Spec

\* Only SendWrite writes a sender's number, and the number it writes lies above what the
\* channel has.
LEMMA WritesGrow ==
  ASSUME LockInv, WriteInv, [Next]_vars,
         NEW c \in ChannelIds, hist'.direct[c] # hist.direct[c]
  PROVE  hist'.direct[c] > hist.direct[c]
  <1>1. \A s \in Senders : ~NewSend(s)
    BY DEF NewSend, SendQueue, SendDeferred, SendWithoutChannel, SendTooLarge, PushUnsent, WriteInv,
           NumbersShape, Accept
  <1>2. ASSUME NEW s \in Senders, SendGate(s) \/ SendFailed(s) \/ SendDeferredLate(s) \/ SendThrows(s)
        PROVE  FALSE
    BY <1>2 DEF SendGate, SendFailed, SendDeferredLate, SendThrows, PushUnsent, WriteInv, NumbersShape, Accept
  <1>3. \A r \in Replays : ~ReplayStep(r)
    BY DEF ReplayStep, ReplayNoChannel, ReplayStart, ReplayMark, ReplaySend, ReplayFailed, WriteInv,
           NumbersShape
  <1>4. ~(EngineStep \/ EngineCloses)
    <2>1. ASSUME EngineStep \/ EngineCloses
          PROVE  hist' = hist \/ hist' = [hist EXCEPT !.cutoff = 0]
      BY <2>1 DEF EngineStep, PublisherConnects, ConnectionLost, ResumeBegins,
         ReconnectResponse, ResumeSucceeds, ResumeFails, RestartBegins, RestartEnds, EngineCloses
    <2> QED
      BY <2>1 DEF WriteInv, NumbersShape
  <1>5. PICK s \in Senders : SendWrite(s)
    BY <1>1, <1>2, <1>3, <1>4 DEF vars, Next, SenderStep, Transport, ChannelAborts, WriteInv, NumbersShape
  <1>6. /\ chan[snd[s].dc].state = "open" /\ snd[s].pc = "ready"
        /\ hist' = [hist EXCEPT !.accepted = @ \cup {snd[s].pkt},
                                !.direct[snd[s].dc] = snd[s].pkt.seq]
    BY <1>5 DEF SendWrite
  <1>7. hist'.direct = [hist.direct EXCEPT ![snd[s].dc] = snd[s].pkt.seq]
    BY <1>6 DEF WriteInv, NumbersShape
  <1> QED
    BY <1>7, <1>6, Places
      DEF WriteInv, Captured, NumbersShape, NumbersLie, CanWrite, LockInv, HolderOnly, Beyond

\* Whatever the schedule, the packets that senders write to one channel go out in the
\* order in which their numbers were claimed: the headroom lock is granted in that order
\* (FlowControlledDataChannel), and a reset starts the numbers anew only after closing
\* every channel an old number could still be written to (DataChannelManager.teardown).
THEOREM WritesAreInOrder == Spec => DirectWritesInOrder
  <1>1. LockInv /\ WriteInv /\ [Next]_vars =>
          [\A c \in ChannelIds :
             hist'.direct[c] # hist.direct[c] => hist'.direct[c] > hist.direct[c]]_vars
    BY WritesGrow
  <1> QED
    BY WriteInvariant, <1>1, PTL DEF Spec, DirectWritesInOrder
-----------------------------------------------------------------------------
(* DataStreams: the calls of methods. Only the caller's side and who was   *)
(* seen to leave matter here.                                              *)

CallStates ==
  [pc : {"idle", "publishing", "waiting", "settled", "thrown"},
   result : {"pending", "ok", "error", "unreadable", "connection timeout", "response timeout", "recipient disconnected"},
   ack : BOOLEAN, response : BOOLEAN, ackTimer : BOOLEAN, responseTimer : BOOLEAN, acked : BOOLEAN]

\* The entries of a call go with what they are for; left tells that its recipient was seen to leave.
Orderly(k, hasLeft) ==
  /\ k.pc = "settled" => ~k.ack /\ ~k.response /\ ~k.responseTimer
  /\ k.result # "pending" => ~k.response
  /\ k.ackTimer /\ ~k.ack => hasLeft
  /\ k.acked => ~k.ackTimer

CallsInv ==
  /\ \A c \in Calls : calls[c].from \in Pages
  /\ gone \in [Pages -> BOOLEAN]
  /\ call \in [Calls -> CallStates]
  /\ \A c \in Calls : Orderly(call[c], gone[calls[c].from])

\* The completion clears what is left.
LEMMA FinishedIsOrderly ==
  ASSUME NEW k \in CallStates, NEW hasLeft, Orderly(k, hasLeft)
  PROVE  Finished(k) \in CallStates /\ Orderly(Finished(k), hasLeft)
  <1>1. CASE ~(k.pc # "waiting" \/ k.result = "pending")
    <2> DEFINE timer == IF k.ack THEN FALSE ELSE k.ackTimer
               f == [k EXCEPT !.pc = "settled", !.responseTimer = FALSE, !.ack = FALSE,
                              !.ackTimer = IF k.ack THEN FALSE ELSE @]
    <2>1. Finished(k) = f
      BY <1>1 DEF Finished
    <2>2. f \in CallStates
      BY DEF CallStates
    <2>3. /\ f.pc = "settled" /\ f.responseTimer = FALSE /\ f.ack = FALSE /\ f.ackTimer = timer
          /\ f.result = k.result /\ f.response = k.response /\ f.acked = k.acked
      BY DEF CallStates
    <2> HIDE DEF f
    <2> QED
      BY <2>1, <2>2, <1>1, <2>3 DEF Orderly, CallStates
  <1> QED
    BY <1>1 DEF Finished

\* An outcome settles a call whose entry for the answer is gone.
LEMMA SettledIsOrderly ==
  ASSUME NEW k \in CallStates, NEW hasLeft, Orderly(k, hasLeft), ~k.response,
         NEW result \in {"ok", "error", "unreadable", "connection timeout", "response timeout",
                         "recipient disconnected"}
  PROVE  Settled(k, result) \in CallStates /\ Orderly(Settled(k, result), hasLeft)
  <1> DEFINE f == [k EXCEPT !.result = IF @ = "pending" THEN result ELSE @]
  <1>1. /\ f.pc = k.pc /\ f.responseTimer = k.responseTimer /\ f.ack = k.ack /\ f.ackTimer = k.ackTimer
        /\ f.response = k.response /\ f.acked = k.acked
    BY DEF CallStates
  <1>2. f \in CallStates
    BY DEF CallStates
  <1>3. Settled(k, result) = Finished(f)
    BY DEF Settled
  <1> HIDE DEF f
  <1>4. Orderly(f, hasLeft)
    BY <1>1 DEF Orderly
  <1> QED
    BY <1>2, <1>3, <1>4, FinishedIsOrderly

LEMMA AckIsOrderly ==
  ASSUME NEW k \in CallStates, NEW hasLeft, Orderly(k, hasLeft)
  PROVE  HandleIncomingRpcAck(k) \in CallStates /\ Orderly(HandleIncomingRpcAck(k), hasLeft)
  <1>1. CASE k.ack
    <2> DEFINE f == [k EXCEPT !.ack = FALSE, !.ackTimer = FALSE, !.acked = TRUE]
    <2>1. f \in CallStates
      BY DEF CallStates
    <2>2. /\ f.pc = k.pc /\ f.responseTimer = k.responseTimer /\ ~f.ack /\ ~f.ackTimer
          /\ f.response = k.response /\ f.result = k.result
      BY DEF CallStates
    <2>3. HandleIncomingRpcAck(k) = f
      BY <1>1 DEF HandleIncomingRpcAck
    <2> HIDE DEF f
    <2> QED
      BY <2>1, <2>2, <2>3 DEF Orderly
  <1> QED
    BY <1>1 DEF HandleIncomingRpcAck

\* An answer, or a departure, takes the entry for the answer.
LEMMA WithoutResponse ==
  ASSUME NEW k \in CallStates, NEW hasLeft, Orderly(k, hasLeft)
  PROVE  LET f == [k EXCEPT !.response = FALSE] IN f \in CallStates /\ ~f.response /\ Orderly(f, hasLeft)
  <1> DEFINE f == [k EXCEPT !.response = FALSE]
  <1>1. /\ f.pc = k.pc /\ f.responseTimer = k.responseTimer /\ f.ack = k.ack /\ f.ackTimer = k.ackTimer
        /\ ~f.response /\ f.result = k.result /\ f.acked = k.acked
    BY DEF CallStates
  <1> HIDE DEF f
  <1> QED
    BY <1>1 DEF f, CallStates, Orderly

LEMMA ResponseIsOrderly ==
  ASSUME NEW k \in CallStates, NEW hasLeft, Orderly(k, hasLeft), NEW result \in {"ok", "error", "unreadable"}
  PROVE  /\ HandleIncomingRpcResponse(k, result) \in CallStates
         /\ Orderly(HandleIncomingRpcResponse(k, result), hasLeft)
  <1>1. CASE k.response
    <2> DEFINE f == [k EXCEPT !.response = FALSE]
    <2>1. f \in CallStates /\ ~f.response /\ Orderly(f, hasLeft)
      BY WithoutResponse
    <2> HIDE DEF f
    <2> QED
      BY <1>1, <2>1, SettledIsOrderly DEF f, HandleIncomingRpcResponse
  <1> QED
    BY <1>1 DEF HandleIncomingRpcResponse

LEMMA DepartureIsOrderly ==
  ASSUME NEW k \in CallStates, NEW hasLeft, Orderly(k, hasLeft)
  PROVE  RecipientDisconnected(k) \in CallStates /\ Orderly(RecipientDisconnected(k), TRUE)
  <1> DEFINE d == [k EXCEPT !.ack = FALSE]
  <1>1. d \in CallStates
    BY DEF CallStates
  <1>2. /\ d.pc = k.pc /\ d.responseTimer = k.responseTimer /\ ~d.ack /\ d.ackTimer = k.ackTimer
        /\ d.response = k.response /\ d.result = k.result /\ d.acked = k.acked
    BY DEF CallStates
  <1>3. RecipientDisconnected(k) = IF k.response THEN Settled([d EXCEPT !.response = FALSE], "recipient disconnected") ELSE d
    BY DEF RecipientDisconnected
  <1> HIDE DEF d
  <1>4. Orderly(d, TRUE)
    BY <1>2 DEF Orderly
  <1>5. CASE k.response
    <2> DEFINE f == [d EXCEPT !.response = FALSE]
    <2>1. f \in CallStates /\ ~f.response /\ Orderly(f, TRUE)
      BY <1>1, <1>4, WithoutResponse
    <2> HIDE DEF f
    <2> QED
      BY <1>3, <1>5, <2>1, SettledIsOrderly DEF f
  <1> QED
    BY <1>5, <1>1, <1>3, <1>4

\* A timer that fires takes the entries it is about.
LEMMA TimersAreOrderly ==
  ASSUME NEW k \in CallStates, NEW hasLeft, Orderly(k, hasLeft)
  PROVE  LET a == Settled([k EXCEPT !.ackTimer = FALSE, !.ack = FALSE, !.response = FALSE, !.responseTimer = FALSE],
                          "connection timeout")
             r == Settled([k EXCEPT !.responseTimer = FALSE, !.response = FALSE], "response timeout")
         IN  a \in CallStates /\ Orderly(a, hasLeft) /\ r \in CallStates /\ Orderly(r, hasLeft)
  <1> DEFINE f == [k EXCEPT !.ackTimer = FALSE, !.ack = FALSE, !.response = FALSE, !.responseTimer = FALSE]
             g == [k EXCEPT !.responseTimer = FALSE, !.response = FALSE]
  <1>1. f \in CallStates /\ g \in CallStates
    BY DEF CallStates
  <1>2. /\ f.pc = k.pc /\ ~f.responseTimer /\ ~f.ack /\ ~f.ackTimer
        /\ ~f.response /\ f.result = k.result /\ f.acked = k.acked
    BY DEF CallStates
  <1>3. /\ g.pc = k.pc /\ ~g.responseTimer /\ g.ack = k.ack /\ g.ackTimer = k.ackTimer
        /\ ~g.response /\ g.result = k.result /\ g.acked = k.acked
    BY DEF CallStates
  <1> HIDE DEF f, g
  <1>4. Orderly(f, hasLeft) /\ Orderly(g, hasLeft)
    BY <1>2, <1>3 DEF Orderly
  <1> QED
    BY <1>1, <1>2, <1>4, SettledIsOrderly, <1>3 DEF f, g

\* What a call has come to afterwards.
LEMMA FinishedKeepsResult ==
  ASSUME NEW k \in CallStates
  PROVE  Finished(k).result = k.result
  BY DEF Finished, CallStates

LEMMA SettledResult ==
  ASSUME NEW k \in CallStates, NEW result
  PROVE  Settled(k, result).result \in {k.result, result}
  <1> DEFINE f == [k EXCEPT !.result = IF @ = "pending" THEN result ELSE @]
  <1>1. Finished(f).result = f.result
    BY DEF Finished, CallStates
  <1> QED
    BY <1>1 DEF CallStates, Settled

-----------------------------------------------------------------------------
(* The steps. *)

\* A call that was acknowledged does not come to a connection timeout.
StaysReached ==
  \A c \in Calls : call[c].acked /\ call[c].result = "pending" => call'[c].result # "connection timeout"

\* A step that leaves the calls alone.
LEMMA NothingOfCalls ==
  ASSUME CallsInv, UNCHANGED <<calls, gone, call>>
  PROVE  CallsInv' /\ StaysReached
  BY DEF CallsInv, StaysReached

\* A step of one call.
LEMMA OneCallGoesOn ==
  ASSUME CallsInv, NEW c \in Calls, NEW k \in CallStates, Orderly(k, gone[calls[c].from]),
         call[c].acked /\ call[c].result = "pending" => k.result # "connection timeout",
         call' = [call EXCEPT ![c] = k], UNCHANGED <<calls, gone>>
  PROVE  CallsInv' /\ StaysReached
  BY DEF CallsInv, StaysReached

LEMMA PerformRpcStep ==
  ASSUME CallsInv, NEW c \in Calls, PerformRpc(c)
  PROVE  CallsInv' /\ StaysReached
  <1> DEFINE started == [NoCall EXCEPT !.ack = TRUE, !.response = TRUE, !.ackTimer = TRUE]
             thrown == [call[c] EXCEPT !.pc = "thrown"]
             publishing == [started EXCEPT !.pc = "publishing"]
             waiting == [started EXCEPT !.pc = "waiting", !.responseTimer = TRUE]
  <1>1. call[c] = NoCall /\ UNCHANGED <<calls, gone>>
    BY DEF PerformRpc, fixed, state
  <1>2. \/ call' = [call EXCEPT ![c] = thrown]
        \/ call' = [call EXCEPT ![c] = publishing]
        \/ call' = [call EXCEPT ![c] = waiting]
    BY DEF PerformRpc, CallsInv
  <1>3. /\ thrown \in CallStates /\ publishing \in CallStates /\ waiting \in CallStates
        /\ \A h \in {thrown, publishing, waiting} : Orderly(h, gone[calls[c].from]) /\ h.result = "pending"
    <2>1. NoCall \in CallStates
      BY DEF NoCall, CallStates
    <2>2. started \in CallStates
      BY <2>1 DEF CallStates
    <2>3. thrown \in CallStates /\ publishing \in CallStates /\ waiting \in CallStates
      <3> HIDE DEF started
      <3> QED
        BY <1>1, <2>1, <2>2 DEF CallStates
    <2>4. /\ thrown.pc = "thrown" /\ thrown.result = "pending" /\ ~thrown.ackTimer
          /\ publishing.pc = "publishing" /\ publishing.result = "pending" /\ publishing.ack /\ ~publishing.acked
          /\ waiting.pc = "waiting" /\ waiting.result = "pending" /\ waiting.ack /\ ~waiting.acked
      BY <1>1 DEF NoCall
    <2> HIDE DEF thrown, publishing, waiting
    <2> QED
      BY <2>3, <2>4 DEF Orderly
  <1> HIDE DEF thrown, publishing, waiting
  <1>4. CASE call' = [call EXCEPT ![c] = publishing]
    BY <1>1, <1>3, <1>4, OneCallGoesOn
  <1>5. CASE call' = [call EXCEPT ![c] = waiting]
    BY <1>1, <1>3, <1>5, OneCallGoesOn
  <1> QED
    BY <1>2, <1>4, <1>5, <1>1, <1>3, OneCallGoesOn

LEMMA PublishedStep ==
  ASSUME CallsInv, NEW c \in Calls, Published(c)
  PROVE  CallsInv' /\ StaysReached
  <1> DEFINE thrown == [call[c] EXCEPT !.pc = "thrown"]
             waiting == [call[c] EXCEPT !.pc = "waiting", !.responseTimer = TRUE]
             hasLeft == gone[calls[c].from]
  <1>1. call[c] \in CallStates /\ Orderly(call[c], hasLeft)
    BY DEF CallsInv
  <1>2. call' = [call EXCEPT ![c] = thrown] \/ call' = [call EXCEPT ![c] = Finished(waiting)]
    BY DEF Published, CallsInv
  <1>3. UNCHANGED <<calls, gone>>
    BY DEF Published, fixed, state
  <1>4. thrown \in CallStates /\ waiting \in CallStates
    BY <1>1 DEF CallStates
  <1>5. /\ thrown.pc = "thrown" /\ waiting.pc = "waiting"
        /\ \A h \in {thrown, waiting} : /\ h.response = call[c].response /\ h.result = call[c].result
                                        /\ h.ack = call[c].ack /\ h.ackTimer = call[c].ackTimer /\ h.acked = call[c].acked
    BY <1>1 DEF CallStates
  <1> HIDE DEF thrown, waiting, hasLeft
  <1>6. Orderly(thrown, hasLeft) /\ Orderly(waiting, hasLeft)
    BY <1>1, <1>5 DEF Orderly
  <1>7. CASE call' = [call EXCEPT ![c] = Finished(waiting)]
    BY <1>3, <1>7, OneCallGoesOn, <1>4, <1>5, <1>6, FinishedIsOrderly, FinishedKeepsResult DEF hasLeft
  <1> QED
    BY <1>2, <1>7, <1>3, <1>4, <1>5, <1>6, OneCallGoesOn DEF hasLeft

LEMMA TimersStep ==
  ASSUME CallsInv, NEW c \in Calls, CallTimeouts(c)
  PROVE  CallsInv' /\ StaysReached
  <1> DEFINE hasLeft == gone[calls[c].from]
             f == [call[c] EXCEPT !.ackTimer = FALSE, !.ack = FALSE, !.response = FALSE, !.responseTimer = FALSE]
             g == [call[c] EXCEPT !.responseTimer = FALSE, !.response = FALSE]
             a == Settled(f, "connection timeout")
             r == Settled(g, "response timeout")
  <1>1. call[c] \in CallStates /\ Orderly(call[c], hasLeft)
    BY DEF CallsInv
  <1>2. UNCHANGED <<calls, gone>>
    BY DEF CallTimeouts, AckTimeout, ResponseTimeout, fixed, state
  <1>3. a \in CallStates /\ Orderly(a, hasLeft) /\ r \in CallStates /\ Orderly(r, hasLeft)
    BY <1>1, TimersAreOrderly
  <1>4. g \in CallStates /\ g.result = call[c].result
    BY <1>1 DEF CallStates
  <1>5. \/ call' = [call EXCEPT ![c] = a] /\ call[c].ackTimer
        \/ call' = [call EXCEPT ![c] = r]
    BY DEF CallTimeouts, AckTimeout, ResponseTimeout, CallsInv
  <1> HIDE DEF g
  <1>6. call[c].result = "pending" => r.result # "connection timeout"
    BY <1>4, SettledResult
  <1> HIDE DEF f, a, r, hasLeft
  <1>7. CASE call' = [call EXCEPT ![c] = r]
    BY <1>2, <1>3, <1>6, <1>7, OneCallGoesOn DEF hasLeft
  <1> QED
    BY <1>5, <1>7, <1>1, <1>2, <1>3, OneCallGoesOn DEF Orderly, hasLeft

\* An acknowledgement or an answer that comes.
LEMMA AnsweredStep ==
  ASSUME CallsInv, NEW c \in Calls, NEW result \in {"ok", "error", "unreadable"}, UNCHANGED <<calls, gone>>,
         \/ call' = [call EXCEPT ![c] = HandleIncomingRpcAck(call[c])]
         \/ call' = [call EXCEPT ![c] = HandleIncomingRpcResponse(call[c], result)]
  PROVE  CallsInv' /\ StaysReached
  <1> DEFINE hasLeft == gone[calls[c].from]
             a == HandleIncomingRpcAck(call[c])
             r == HandleIncomingRpcResponse(call[c], result)
  <1>1. call[c] \in CallStates /\ Orderly(call[c], hasLeft)
    BY DEF CallsInv
  <1>2. a \in CallStates /\ Orderly(a, hasLeft) /\ r \in CallStates /\ Orderly(r, hasLeft)
    BY <1>1, AckIsOrderly, ResponseIsOrderly
  <1>3. a.result = call[c].result
    BY <1>1 DEF HandleIncomingRpcAck, CallStates
  <1>4. r.result \in {call[c].result, result}
    <2> DEFINE g == [call[c] EXCEPT !.response = FALSE]
    <2>1. g \in CallStates /\ g.result = call[c].result
      BY <1>1 DEF CallStates
    <2>2. r = call[c] \/ r = Settled(g, result)
      BY DEF HandleIncomingRpcResponse
    <2> HIDE DEF g
    <2> QED
      BY <2>1, <2>2, SettledResult
  <1> HIDE DEF a, r, hasLeft
  <1> QED
    BY <1>2, <1>4, OneCallGoesOn, <1>3 DEF a, r, hasLeft

LEMMA ResponseReadStep ==
  ASSUME CallsInv, NEW c \in Calls, ResponseRead(c)
  PROVE  CallsInv' /\ StaysReached
  <1> DEFINE result == IF into[Response[c]].read = "done" THEN "ok" ELSE "unreadable"
  <1>1. result \in {"ok", "error", "unreadable"}
    OBVIOUS
  <1> HIDE DEF result
  <1> QED
    BY <1>1, AnsweredStep DEF ResponseRead, fixed, state, CallsInv

\* A packet that comes may be about no call of this page.
LEMMA DeliverStep ==
  ASSUME CallsInv, NEW p \in Pages, Deliver(p)
  PROVE  CallsInv' /\ StaysReached
  <1> DEFINE packet == Head(link[p])
             result == IF packet.n = 1 THEN "ok" ELSE "error"
  <1>1. UNCHANGED <<calls, gone>>
    BY DEF Deliver, fixed, state
  <1>2. \/ UNCHANGED call
        \/ call' = [call EXCEPT ![packet.id] = HandleIncomingRpcAck(@)]
        \/ call' = [call EXCEPT ![packet.id] = HandleIncomingRpcResponse(@, result)]
    BY DEF Deliver, Receive
  <1>3. result \in {"ok", "error", "unreadable"}
    OBVIOUS
  <1> HIDE DEF packet, result
  <1>4. CASE packet.id \in Calls /\ ~UNCHANGED call
    BY <1>2, <1>4, <1>1, <1>3, AnsweredStep DEF CallsInv
  <1> QED
    BY <1>4, <1>1, NothingOfCalls, <1>2 DEF CallsInv

\* A departure that is seen ends the calls that wait, and the entries of all of them.
LEMMA ParticipantDisconnectedStep ==
  ASSUME CallsInv, NEW p \in Pages, ParticipantDisconnected(p)
  PROVE  CallsInv' /\ StaysReached
  <1>1. /\ UNCHANGED calls /\ gone' = [gone EXCEPT ![p] = TRUE]
        /\ call' = [c \in Calls |-> IF calls[c].from = p THEN RecipientDisconnected(call[c]) ELSE call[c]]
    BY DEF ParticipantDisconnected, fixed
  <1>2. gone' \in [Pages -> BOOLEAN] /\ gone'[p] = TRUE /\ \A o \in Pages : o # p => gone'[o] = gone[o]
    BY <1>1 DEF CallsInv
  <1>3. ASSUME NEW c \in Calls
        PROVE  /\ call'[c] \in CallStates /\ Orderly(call'[c], gone'[calls[c].from])
               /\ call[c].result = "pending" => call'[c].result # "connection timeout"
    <2>1. call[c] \in CallStates /\ Orderly(call[c], gone[calls[c].from]) /\ calls[c].from \in Pages
      BY DEF CallsInv
    <2>2. CASE calls[c].from = p
      <3> DEFINE r == RecipientDisconnected(call[c])
                 d == [[call[c] EXCEPT !.ack = FALSE] EXCEPT !.response = FALSE]
      <3>1. call'[c] = r
        BY <1>1, <2>2
      <3>2. r \in CallStates /\ Orderly(r, TRUE)
        BY <2>1, DepartureIsOrderly
      <3>3. r = [call[c] EXCEPT !.ack = FALSE] \/ r = Settled(d, "recipient disconnected")
        BY DEF RecipientDisconnected
      <3>4. d \in CallStates /\ d.result = call[c].result /\ [call[c] EXCEPT !.ack = FALSE].result = call[c].result
        BY <2>1 DEF CallStates
      <3> HIDE DEF r, d
      <3>5. Settled(d, "recipient disconnected").result \in {d.result, "recipient disconnected"}
        BY <3>4, SettledResult
      <3>6. call[c].result = "pending" => r.result # "connection timeout"
        BY <3>3, <3>4, <3>5
      <3> QED
        BY <1>2, <2>2, <3>1, <3>2, <3>6
    <2> QED
      BY <2>2, <1>1, <1>2, <2>1
  <1> QED
    BY <1>1, <1>2, <1>3 DEF CallsInv, StaysReached

LEMMA CallsStep ==
  ASSUME CallsInv, [StreamsNext]_streamVars
  PROVE  CallsInv' /\ StaysReached
  <1>1. CASE StreamsNext
    <2>1. ASSUME NEW s \in Streams, \/ Sends(s) \/ ReadChunk(s) \/ ReadEnd(s)
                                    \/ OpenStream(s) \/ Write(s) \/ CloseWriter(s) \/ AbortRead(s)
          PROVE  UNCHANGED <<calls, gone, call>>
      BY <2>1 DEF Sends, SendHeader, SendChunk, SendTrailer, SendFails, ReadChunk, ReadEnd, OpenStream, Write,
                  CloseWriter, AbortRead, fixed, state, rpc
    <2>2. ASSUME NEW p \in Pages, \/ LosePacket(p) \/ RepeatPacket(p) \/ Reconnecting(p) \/ Reconnected(p)
                                  \/ LeaveRoom(p) \/ ToggleEncryption(p)
                                  \/ \E what \in {"topic", "method"} : Register(p, what) \/ Unregister(p, what)
          PROVE  UNCHANGED <<calls, gone, call>>
      BY <2>2 DEF LosePacket, RepeatPacket, Reconnecting, Reconnected, LeaveRoom, ToggleEncryption, Register,
                  Unregister, fixed, state, rpc
    <2>3. CASE \E c \in Calls : RequestRead(c) \/ HandlerReturns(c) \/ HandlerFails(c)
      BY <2>3, NothingOfCalls DEF RequestRead, HandlerReturns, HandlerFails, fixed, state
    <2>4. CASE \E p \in Pages : Deliver(p) \/ ParticipantDisconnected(p)
      BY <2>4, DeliverStep, ParticipantDisconnectedStep
    <2>5. CASE \E c \in Calls : PerformRpc(c) \/ Published(c) \/ ResponseRead(c) \/ CallTimeouts(c)
      BY <2>5, PerformRpcStep, PublishedStep, ResponseReadStep, TimersStep
    <2> QED
      BY <1>1, <2>3, <2>4, <2>5, <2>1, NothingOfCalls, <2>2 DEF StreamsNext, Progress
  <1> QED
    BY <1>1, NothingOfCalls DEF streamVars, fixed, state, rpc

LEMMA CallsStart ==
  ASSUME StreamsInit
  PROVE  CallsInv
  BY StreamsAssumption DEF StreamsInit, NoCall, CallStates, Orderly, CallsInv

LEMMA CallsHold == StreamsSpec => []CallsInv
  <1>1. CallsInv /\ [StreamsNext]_streamVars => CallsInv'
    BY CallsStep
  <1> QED
    BY CallsStart, <1>1, PTL DEF StreamsSpec

\* A call that has settled has no entry left for a late acknowledgement or answer, and no timer but that of an
\* acknowledgement whose recipient was seen to leave: performRpc's finally and handleParticipantDisconnected.
THEOREM CallsLeaveNothing == StreamsSpec => []SettledLeavesNothing
  <1>1. CallsInv => SettledLeavesNothing
    BY DEF CallsInv, Orderly, SettledLeavesNothing
  <1> QED
    BY CallsHold, <1>1, PTL

\* A call whose acknowledgement came does not end for want of it, whichever timer, answer or departure comes next.
THEOREM AcknowledgedStaysReached == StreamsSpec => AcknowledgedIsReached
  <1>1. CallsInv /\ [StreamsNext]_streamVars =>
          [\A c \in Calls : call[c].acked /\ call[c].result = "pending" => call'[c].result # "connection timeout"]_streamVars
    BY CallsStep DEF StaysReached
  <1> QED
    BY CallsHold, <1>1, PTL DEF StreamsSpec, AcknowledgedIsReached

=============================================================================

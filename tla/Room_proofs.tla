---------------------------- MODULE Room_proofs ----------------------------
(***************************************************************************)
(* Proofs about RoomSession for every number of calls, faults, regions and *)
(* updates, with and without the browser's notices: the session is held by *)
(* one attempt at most, by somebody who watches it, with all that happens  *)
(* in it. And about AudioOutput, for every number of devices, people,      *)
(* elements and switches: what the page hears is what it asked for.        *)
(***************************************************************************)
EXTENDS RoomSession, AudioOutput, SequenceTheorems, TLAPS

Connecting == \E c \in Calls : UnderWay(c)

\* What watches a room that says it is connected. An attempt of the engine counts only if
\* a full reconnect is owed: the attempt's end then arms the timer again.
WatchIsHeld ==
  state = "connected" =>
    watch # Off \/ due \/ (Engine!Attempting /\ owed) \/ leaving # "no" \/ Connecting

\* A room is between states only while it resumes or somebody connects.
InBetweenIsHeld ==
  state \in {"connecting", "signalReconnecting"} => isResuming \/ Connecting

\* The reconnect timer is armed only between attempts, so that an attempt that ends does
\* not disarm it.
TimerIsIdle == due => phase = "steady"

IInv ==
  /\ TypeOK /\ OneLiveAttempt /\ WatchIsHeld /\ InBetweenIsHeld /\ TimerIsIdle
  /\ NothingIsLost

-----------------------------------------------------------------------------
(* The types. *)

Answers == {"none", "pending", "resolved", "rejected"}

CallTypes ==
  /\ pc \in [Calls -> PCs] /\ answer \in [Calls -> Answers]
  /\ future \in [Calls -> Calls] /\ aborted \in [Calls -> BOOLEAN]
  /\ mine \in [Calls -> BOOLEAN] /\ cause \in [Calls -> Causes]
  /\ connectFuture \in Calls \union {0} /\ controller \in Calls \union {0}
  /\ regions \in 0..MaxRegions

LockTypes ==
  /\ lockQueue \in Seq(Calls \union {Leave})
  /\ leaving \in Leavings /\ leaves \in 0..MaxDisconnects
  /\ republishing \in Nat /\ waiting \in BOOLEAN

EngineTypes ==
  /\ engine \in Engines /\ Engine!TypeOK /\ due \in BOOLEAN /\ pending \in BOOLEAN
  /\ timed \in BOOLEAN /\ link \in BOOLEAN /\ tries \in 0..MaxTries

RoomTypes ==
  /\ state \in States /\ isResuming \in BOOLEAN /\ watch \in Off..2
  /\ buffer \in Seq(1..MaxUpdates) /\ seen \in Seq(1..MaxUpdates) /\ lost \subseteq 1..MaxUpdates
  /\ updates \in 0..MaxUpdates /\ faults \in 0..MaxFaults

LEMMA TypesAre == TypeOK <=> CallTypes /\ LockTypes /\ EngineTypes /\ RoomTypes
  BY DEF TypeOK, CallTypes, LockTypes, EngineTypes, RoomTypes, Answers

LEMMA WatchTypes == Off \in Off..2 /\ 0 \in Off..2 /\ Off # 0
  BY DEF Off

LEMMA SettleTypes ==
  ASSUME CallTypes, NEW f, NEW how \in Answers
  PROVE  Settle(f, how) \in [Calls -> Answers]
  BY DEF Settle, CallTypes, Answers

LEMMA GivesUpTypes ==
  ASSUME CallTypes, NEW c \in Calls, GivesUp(c)
  PROVE  /\ pc' \in [Calls -> PCs] /\ answer' \in [Calls -> Answers]
         /\ connectFuture' \in Calls \union {0} /\ cause' \in [Calls -> Causes]
  BY SettleTypes DEF GivesUp, CallTypes, Goes, Because, PCs, Causes, Answers

LEMMA CaughtTypes ==
  ASSUME CallTypes, NEW c \in Calls, NEW why \in Causes, Caught(c, why)
  PROVE  /\ pc' \in [Calls -> PCs] /\ answer' \in [Calls -> Answers]
         /\ connectFuture' \in Calls \union {0} /\ cause' \in [Calls -> Causes]
  BY GivesUpTypes DEF Caught, CallTypes, Goes, Because, PCs

LEMMA OtherGivesUp ==
  ASSUME NEW c, Caught(c, "other")
  PROVE  GivesUp(c)
  BY DEF Caught

LEMMA IdleEngineTypes ==
  ASSUME NEW e \in Engines, IdleEngine(e)
  PROVE  EngineTypes' /\ waiting' \in BOOLEAN
  <1>1. engine' \in Engines /\ tries' \in 0..MaxTries
    BY BoundsAssumption DEF BoundsAssumption, IdleEngine
  <1> QED
    BY <1>1 DEF IdleEngine, EngineTypes, Engine!TypeOK, Engine!Phases

LEMMA EngineClosedTypes ==
  ASSUME EngineTypes, LockTypes, EngineClosed
  PROVE  EngineTypes' /\ waiting' \in BOOLEAN
  BY IdleEngineTypes DEF EngineClosed, Engines, EngineTypes, LockTypes, engineVars, Engine!TypeOK

LEMMA HandleDisconnectTypes ==
  ASSUME RoomTypes, HandleDisconnect, UNCHANGED <<updates, faults>>
  PROVE  RoomTypes'
  BY EmptySeq, WatchTypes DEF HandleDisconnect, RoomTypes, States

LEMMA FlushTypes ==
  ASSUME RoomTypes, Flush
  PROVE  buffer' \in Seq(1..MaxUpdates) /\ seen' \in Seq(1..MaxUpdates) /\ lost' = lost
  BY EmptySeq DEF RoomTypes, Flush

LEMMA BackOnlineTypes ==
  ASSUME RoomTypes, BackOnline, UNCHANGED <<isResuming, updates, faults>>
  PROVE  RoomTypes'
  BY FlushTypes, WatchTypes DEF BackOnline, RoomTypes, States

LEMMA GivesUpKeepsTypes ==
  ASSUME CallTypes, RoomTypes, NEW c \in Calls, GivesUp(c),
         aborted' \in [Calls -> BOOLEAN], mine' \in [Calls -> BOOLEAN],
         controller' \in Calls \union {0}, regions' \in 0..MaxRegions,
         UNCHANGED <<future, updates, faults>>
  PROVE  CallTypes' /\ RoomTypes'
  BY HandleDisconnectTypes, GivesUpTypes DEF GivesUp, CallTypes

LEMMA FailsTypes ==
  ASSUME CallTypes, RoomTypes, LockTypes, EngineTypes, NEW c \in Calls, NEW why \in Causes,
         Fails(c, why),
         UNCHANGED <<future, aborted, mine, controller, regions, updates, faults>>
  PROVE  CallTypes' /\ RoomTypes' /\ EngineTypes' /\ waiting' \in BOOLEAN
  <1>1. CASE /\ EngineClosed /\ Goes(c, "closing") /\ Because(c, why)
             /\ UNCHANGED <<roomVars, answer, connectFuture, events>>
    BY <1>1, EngineClosedTypes DEF CallTypes, Goes, Because, PCs, RoomTypes, roomVars, events
  <1> QED
    BY <1>1, OtherGivesUp, GivesUpKeepsTypes
      DEF Fails, CallTypes, EngineTypes, Engine!TypeOK, engineVars, LockTypes

LEMMA QueueTypes ==
  ASSUME LockTypes
  PROVE  /\ \A p \in Calls \union {Leave} : Append(lockQueue, p) \in Seq(Calls \union {Leave})
         /\ lockQueue # <<>> => Tail(lockQueue) \in Seq(Calls \union {Leave})
  BY HeadTailProperties DEF LockTypes

LEMMA ConnectTypes ==
  ASSUME TypeOK, NEW c \in Calls, ConnectNext(c)
  PROVE  TypeOK'
  <1>1. CallTypes /\ LockTypes /\ EngineTypes /\ RoomTypes
    BY TypesAre
  <1> SUFFICES CallTypes' /\ LockTypes' /\ EngineTypes' /\ RoomTypes'
    BY TypesAre, PTL
  <1>2. CASE Connect(c)
    BY <1>1, <1>2, QueueTypes
       DEF Connect, CallTypes, LockTypes, EngineTypes, RoomTypes, Goes, PCs, Answers, Engine!TypeOK,
           roomVars, engineVars, stored, restarts, events
  <1>3. CASE ConnectEnters(c)
    <2>1. RoomTypes'
      BY <1>1, <1>3 DEF ConnectEnters, RoomTypes, States, events
    <2>2. answer' \in [Calls -> Answers] /\ future' \in [Calls -> Calls]
      BY <1>1, <1>3 DEF ConnectEnters, CallTypes, Answers
    <2>3. /\ aborted' \in [Calls -> BOOLEAN]
          /\ connectFuture' \in Calls \union {0} /\ controller' \in Calls \union {0}
      BY <1>1, <1>3 DEF ConnectEnters, CallTypes, TakesController
    <2> QED
      BY <1>1, <2>1, <2>2, <2>3, <1>3, QueueTypes
        DEF CallTypes, ConnectEnters, LockTypes, EngineTypes, Engine!TypeOK, engineVars, restarts, Goes, PCs
  <1>4. CASE BackOffEnds(c)
    <2>1. UNCHANGED <<future, aborted, controller, regions, lockQueue, leaving, leaves, republishing,
                      updates, faults>>
      BY <1>4 DEF BackOffEnds, locking
    <2>2. CASE /\ IdleEngine("joining") /\ Goes(c, "join")
               /\ mine' \in [Calls -> BOOLEAN]
               /\ isResuming' \in {isResuming, FALSE} /\ buffer' \in {buffer, <<>>}
               /\ UNCHANGED <<state, watch, answer, connectFuture, cause, seen, lost>>
      BY <2>2, IdleEngineTypes, <1>1, EmptySeq, <2>1 DEF Engines, RoomTypes, CallTypes, Goes, PCs, LockTypes
    <2> QED
      BY <1>1, <1>4, <2>2, <2>1, GivesUpTypes, HandleDisconnectTypes
        DEF BackOffEnds, CallTypes, roomVars, events, GivesUp, LockTypes, EngineTypes, Engine!TypeOK,
            engineVars
  <1>5. CASE JoinSucceeds(c)
    <2>1. /\ UNCHANGED <<future, aborted, controller, regions, lockQueue, leaving, leaves,
                         republishing, waiting, updates, faults>>
          /\ Proceeds(c, engine')
      BY <1>5 DEF JoinSucceeds, locking, restarts
    <2>2. EngineTypes'
      BY <1>1, <1>5 DEF JoinSucceeds, EngineTypes, Engine!TypeOK, Engines, engineVars
    <2>3. /\ aborted' \in [Calls -> BOOLEAN] /\ mine' \in [Calls -> BOOLEAN]
          /\ controller' \in Calls \union {0} /\ regions' \in 0..MaxRegions
      BY <1>1, <1>5, <2>1 DEF JoinSucceeds, CallTypes
    <2>4. LockTypes'
      BY <1>1, <2>1 DEF LockTypes
    <2>5. CASE /\ UNCHANGED <<roomVars, answer, connectFuture, events>>
               /\ \/ Goes(c, "transport") /\ UNCHANGED cause
                  \/ Goes(c, "closing") /\ Because(c, IF aborted[c] THEN "cancelled" ELSE "other")
      BY <1>1, <2>5, <2>1, <2>2, <2>3, <2>4
        DEF CallTypes, Goes, PCs, Because, Causes, RoomTypes, roomVars, events
    <2> QED
      BY <2>1, <2>5, <1>1, <2>2, <2>3, <2>4, OtherGivesUp, GivesUpKeepsTypes DEF Proceeds
  <1>6. CASE TornDown(c)
    <2>1. /\ IdleEngine("new") /\ mine' = [d \in Calls |-> FALSE]
          /\ isResuming' = FALSE /\ buffer' = <<>> /\ UNCHANGED <<seen, lost>>
          /\ Caught(c, cause[c])
          /\ UNCHANGED <<future, aborted, controller, regions, lockQueue, leaving, leaves,
                         republishing, updates, faults>>
      BY <1>6 DEF TornDown, locking
    <2>2. EngineTypes' /\ waiting' \in BOOLEAN
      BY <2>1, IdleEngineTypes DEF Engines
    <2>3. LockTypes'
      BY <1>1, <2>1, <2>2 DEF LockTypes
    <2>4. /\ aborted' \in [Calls -> BOOLEAN] /\ mine' \in [Calls -> BOOLEAN]
          /\ controller' \in Calls \union {0} /\ regions' \in 0..MaxRegions
      BY <1>1, <2>1 DEF CallTypes
    <2>5. CASE /\ Goes(c, "region") /\ Because(c, cause[c])
               /\ UNCHANGED <<state, watch, answer, connectFuture>>
      BY <1>1, <2>1, <2>4, <2>5, EmptySeq, <2>2, <2>3 DEF CallTypes, Goes, Because, PCs, RoomTypes
    <2> QED
      BY <2>1, <2>5, <1>1, <2>2, <2>3, <2>4, GivesUpKeepsTypes DEF Caught
  <1>7. CASE TransportReady(c)
    <2>1. LockTypes' /\ EngineTypes'
      BY <1>1, <1>7
         DEF TransportReady, LockTypes, EngineTypes, Engine!TypeOK, engineVars, locking, restarts
    <2> QED
      BY <1>1, <1>7, <2>1, WatchTypes, SettleTypes
        DEF TransportReady, CallTypes, Goes, PCs, RoomTypes, States, events, Answers
  <1>8. CASE RegionAnswers(c)
    <2>1. UNCHANGED <<future, lockQueue, leaving, leaves, republishing, updates, faults>>
      BY <1>8 DEF RegionAnswers, locking
    <2>2. regions' \in 0..MaxRegions
      BY <1>1, <1>8, BoundsAssumption DEF RegionAnswers, CallTypes, BoundsAssumption
    <2>3. CASE /\ RecreateEngine /\ TakesController(c) /\ Goes(c, "backoff")
               /\ UNCHANGED <<state, watch, answer, connectFuture, cause>>
      BY <2>3, IdleEngineTypes, EmptySeq, <1>1, <2>1, <2>2
        DEF RecreateEngine, Engines, LockTypes, RoomTypes, CallTypes, TakesController, Goes, PCs
    <2> QED
      BY <1>8, <2>3, <1>1, <2>1, <2>2, GivesUpKeepsTypes
        DEF RegionAnswers, EngineTypes, LockTypes, Engine!TypeOK, engineVars, CallTypes
  <1> QED
    BY <1>2, <1>3, <1>4, <1>5, <1>6, <1>7, <1>8, <1>1, FailsTypes
      DEF ConnectNext, JoinFails, TransportFails, locking, Causes, LockTypes

\* The actions that no call of connect() takes leave its calls alone, but for who is
\* cancelled, who is answered and who works with the engine.
LEMMA LeavingTypes ==
  ASSUME TypeOK, Disconnect \/ DisconnectEnters \/ LeaveSent \/ DisconnectEnds
  PROVE  TypeOK'
  <1>1. CallTypes /\ LockTypes /\ EngineTypes /\ RoomTypes
    BY TypesAre
  <1> SUFFICES CallTypes' /\ LockTypes' /\ EngineTypes' /\ RoomTypes'
    BY TypesAre, PTL
  <1>2. CASE Disconnect
    <2>1. lockQueue' \in Seq(Calls \union {Leave}) /\ leaves' \in 0..MaxDisconnects
      BY <1>1, <1>2, QueueTypes, BoundsAssumption DEF Disconnect, LockTypes, BoundsAssumption
    <2> QED
      BY <1>1, <1>2, <2>1
         DEF Disconnect, CallTypes, LockTypes, EngineTypes, RoomTypes, Engine!TypeOK,
             roomVars, engineVars, calls, stored, restarts, events
  <1>3. CASE DisconnectEnters
    <2>1. EngineTypes' /\ waiting' \in BOOLEAN
      BY <1>1, EngineClosedTypes, <1>3 DEF EngineTypes, LockTypes, Engine!TypeOK, engineVars, DisconnectEnters
    <2>2. /\ aborted' \in [Calls -> BOOLEAN] /\ answer' \in [Calls -> Answers]
          /\ connectFuture' \in Calls \union {0}
      BY <1>1, SettleTypes, <1>3 DEF Answers, Cancels, CallTypes, DisconnectEnters
    <2> QED
      BY <1>1, <2>1, <2>2, <1>3, QueueTypes
        DEF CallTypes, LockTypes, RoomTypes, DisconnectEnters, roomVars, events, Leavings
  <1>4. CASE DisconnectEnds
    BY <1>4, IdleEngineTypes, <1>1, HandleDisconnectTypes
      DEF DisconnectEnds, Engines, CallTypes, stored, LockTypes, Leavings
  <1> QED
    BY <1>2, <1>3, <1>4, <1>1, EngineClosedTypes
      DEF LeaveSent, CallTypes, LockTypes, RoomTypes, Leavings, roomVars, calls, stored, events

EngineNext ==
  \/ Lose \/ ServerAsks \/ Resuming \/ SignalResumed \/ Resumed \/ Restarting
  \/ SignalRestarted \/ RestartElsewhere \/ Restarted \/ AttemptFails \/ EngineEnds

LEMMA EngineNextTypes ==
  ASSUME EngineTypes, EngineNext
  PROVE  EngineTypes' /\ (waiting \in BOOLEAN => waiting' \in BOOLEAN)
  <1>1. CASE Resuming \/ Restarting
    BY <1>1 DEF Resuming, Restarting, AttemptBegins, Engine!Resume, Engine!Restart, EngineTypes,
                Engine!TypeOK, Engine!Phases, restarts
  <1>2. CASE SignalResumed \/ SignalRestarted \/ RestartElsewhere
    BY <1>2 DEF SignalResumed, SignalRestarted, RestartElsewhere, Engine!SignalResumed,
                Engine!SignalRestarted, Engine!RestartElsewhere, EngineTypes, Engine!TypeOK,
                Engine!Phases, restarts
  <1>3. CASE Resumed \/ Restarted
    <2>1. tries' \in 0..MaxTries
      BY <1>3, BoundsAssumption DEF Resumed, Restarted, Succeeds, BoundsAssumption
    <2> QED
      BY <1>3, <2>1 DEF Resumed, Restarted, Engine!Resumed, Engine!Restarted, Succeeds, AttemptOver,
                  EngineTypes, Engine!TypeOK, Engine!Phases, restarts
  <1>4. CASE AttemptFails
    <2>1. tries' \in 0..MaxTries
      BY <1>4, BoundsAssumption DEF AttemptFails, EngineTypes, BoundsAssumption
    <2> QED
      BY <1>4, <2>1 DEF AttemptFails, Engine!ResumeFailed, Engine!RestartFailed, AttemptOver,
                  EngineTypes, Engine!TypeOK, Engine!Phases, restarts
  <1>5. CASE EngineEnds
    BY <1>5, IdleEngineTypes DEF EngineEnds, Engines
  <1> QED
    BY <1>1, <1>2, <1>3, <1>4, <1>5
      DEF EngineNext, Lose, ServerAsks, Asked, Engine!Ask, EngineTypes, Engine!TypeOK, restarts

LEMMA EngineNextRoomTypes ==
  ASSUME RoomTypes, EngineNext
  PROVE  RoomTypes'
  <1>1. CASE Lose \/ ServerAsks
    <2>1. faults' \in 0..MaxFaults
      BY <1>1, BoundsAssumption DEF Lose, ServerAsks, RoomTypes, BoundsAssumption
    <2> QED
      BY <1>1, <2>1 DEF Lose, ServerAsks, RoomTypes, roomVars, events
  <1>2. CASE SignalResumed
    BY <1>2, FlushTypes DEF SignalResumed, RoomTypes, roomVars
  <1>3. CASE Resumed
    BY <1>3, FlushTypes, WatchTypes DEF Resumed, RoomTypes, States
  <1>4. CASE SignalRestarted
    BY <1>4, EmptySeq DEF SignalRestarted, RoomTypes, roomVars
  <1>5. CASE Restarted
    BY <1>5, BackOnlineTypes DEF Restarted, RoomTypes, events
  <1>6. CASE AttemptFails
    BY <1>6 DEF AttemptFails, RoomTypes, roomVars, events
  <1>7. CASE EngineEnds
    <2>1. faults' \in 0..MaxFaults
      BY <1>7, BoundsAssumption DEF EngineEnds, RoomTypes, BoundsAssumption
    <2>2. buffer' \in Seq(1..MaxUpdates)
      BY <1>7, EmptySeq DEF EngineEnds, HandleDisconnect
    <2> QED
      BY <1>7, <2>1, <2>2, WatchTypes DEF EngineEnds, HandleDisconnect, RoomTypes, States
  <1> QED
    BY <1>1, <1>2, <1>3, <1>4, <1>5, <1>6, <1>7, WatchTypes
      DEF EngineNext, Resuming, Restarting, RestartElsewhere, RestartingHandled, RoomTypes, States, roomVars,
          events

LEMMA EngineTypesHold ==
  ASSUME TypeOK, EngineNext
  PROVE  TypeOK'
  <1>1. CallTypes /\ LockTypes /\ EngineTypes /\ RoomTypes
    BY TypesAre
  <1> SUFFICES CallTypes' /\ LockTypes' /\ EngineTypes' /\ RoomTypes'
    BY TypesAre, PTL
  <1>2. EngineTypes' /\ RoomTypes' /\ waiting' \in BOOLEAN
    BY <1>1, EngineNextTypes, EngineNextRoomTypes DEF LockTypes
  <1>3. LockTypes'
    <2>1. UNCHANGED <<lockQueue, leaving, leaves>>
      BY DEF EngineNext, Lose, ServerAsks, Resuming, SignalResumed, Resumed, Restarting,
             SignalRestarted, RestartElsewhere, Restarted, AttemptFails, EngineEnds, Untouched,
             locking
    <2>2. republishing' \in {republishing, republishing + 1}
      BY DEF EngineNext, Lose, ServerAsks, Resuming, SignalResumed, Resumed, Restarting,
             SignalRestarted, RestartElsewhere, Restarted, AttemptFails, EngineEnds, restarts
    <2> QED
      BY <1>1, <1>2, <2>1, <2>2 DEF LockTypes
  <1>4. CallTypes'
    <2>1. UNCHANGED <<pc, answer, future, aborted, cause, connectFuture, controller>>
      BY DEF EngineNext, Lose, ServerAsks, Resuming, SignalResumed, Resumed, Restarting,
             SignalRestarted, RestartElsewhere, Restarted, AttemptFails, EngineEnds, Untouched,
             calls, stored
    <2>2. mine' \in [Calls -> BOOLEAN]
      BY <1>1 DEF EngineNext, Lose, ServerAsks, Resuming, SignalResumed, Resumed, Restarting,
             SignalRestarted, RestartElsewhere, Restarted, AttemptFails, EngineEnds, Untouched,
             calls, CallTypes
    <2>3. regions' \in 0..MaxRegions
      <3>1. MaxRegions \in 0..MaxRegions
        BY BoundsAssumption DEF BoundsAssumption
      <3>2. RestartElsewhere \/ regions' \in {regions, MaxRegions}
        BY DEF EngineNext, Lose, ServerAsks, Resuming, SignalResumed, Resumed, Restarting,
               SignalRestarted, Restarted, AttemptFails, EngineEnds, Untouched, stored
      <3> QED
        BY <3>2, <1>1, <3>1 DEF RestartElsewhere, CallTypes
    <2> QED
      BY <1>1, <2>1, <2>2, <2>3 DEF CallTypes
  <1> QED
    BY <1>2, <1>3, <1>4

WatchNext == Offline \/ RepublishEnds \/ ReconcileTick \/ UpdateArrives

LEMMA WatchNextTypes ==
  ASSUME TypeOK, WatchNext
  PROVE  TypeOK'
  <1>1. CallTypes /\ LockTypes /\ EngineTypes /\ RoomTypes
    BY TypesAre
  <1> SUFFICES CallTypes' /\ LockTypes' /\ EngineTypes' /\ RoomTypes'
    BY TypesAre, PTL
  <1>2. CASE Offline
    BY <1>1, <1>2 DEF Offline, Untouched, CallTypes, LockTypes, EngineTypes, RoomTypes, States,
                      Engine!TypeOK, engineVars, calls, stored, locking, restarts, events
  <1>3. CASE RepublishEnds
    <2>1. LockTypes'
      <3>1. republishing' \in Nat
        BY <1>1, <1>3 DEF RepublishEnds, LockTypes
      <3> QED
        BY <1>1, <1>3, <3>1 DEF RepublishEnds, Untouched, LockTypes, locking
    <2>2. CallTypes' /\ EngineTypes'
      BY <1>1, <1>3 DEF RepublishEnds, Untouched, CallTypes, EngineTypes, Engine!TypeOK, engineVars,
                        calls, stored
    <2> QED
      BY <2>1, <2>2, <1>1, <1>3, BackOnlineTypes DEF RepublishEnds, RoomTypes, events
  <1>4. CASE ReconcileTick
    <2>1. /\ UNCHANGED <<pc, answer, future, aborted, cause, connectFuture, controller, regions,
                         lockQueue, leaving, leaves, republishing, updates, faults>>
          /\ mine' \in [Calls -> BOOLEAN]
      BY <1>1, <1>4 DEF ReconcileTick, stored, locking, CallTypes
    <2>2. EngineTypes' /\ waiting' \in BOOLEAN
      BY <1>1, IdleEngineTypes, <1>4
        DEF EngineTypes, LockTypes, Engine!TypeOK, engineVars, Asked, Engine!Ask, Engines, ReconcileTick
    <2>3. RoomTypes'
      <3>1. CASE UNCHANGED <<state, isResuming, events>>
        BY <1>1, <1>4, <3>1, <2>1 DEF ReconcileTick, HandleDisconnect, RoomTypes, Off, events
      <3> QED
        BY <1>4, <3>1, <1>1, <2>1, HandleDisconnectTypes DEF ReconcileTick
    <2> QED
      BY <1>1, <2>1, <2>2, <2>3 DEF CallTypes, LockTypes
  <1>5. CASE UpdateArrives
    <2>1. updates' \in 1..MaxUpdates
      BY <1>1, <1>5, BoundsAssumption DEF UpdateArrives, RoomTypes, BoundsAssumption
    <2>2. buffer' \in Seq(1..MaxUpdates) /\ seen' \in Seq(1..MaxUpdates)
      <3>1. buffer \in Seq(1..MaxUpdates) /\ seen \in Seq(1..MaxUpdates)
        BY <1>1 DEF RoomTypes
      <3>2. /\ Append(buffer, updates') \in Seq(1..MaxUpdates)
            /\ Append(seen, updates') \in Seq(1..MaxUpdates)
        BY <2>1, <3>1, AppendProperties
      <3> QED
        BY <1>5, <3>1, <3>2 DEF UpdateArrives
    <2>3. lost' \subseteq 1..MaxUpdates
      BY <1>1, <1>5, <2>1 DEF UpdateArrives, RoomTypes
    <2>4. RoomTypes'
      BY <1>1, <1>5, <2>1, <2>2, <2>3 DEF UpdateArrives, RoomTypes, roomVars
    <2> QED
      BY <1>1, <1>5, <2>4 DEF UpdateArrives, Untouched, CallTypes, LockTypes, EngineTypes,
                              Engine!TypeOK, engineVars, calls, stored, locking, restarts
  <1> QED
    BY <1>2, <1>3, <1>4, <1>5 DEF WatchNext

LEMMA TypesHold ==
  ASSUME TypeOK, Next
  PROVE  TypeOK'
  BY ConnectTypes, LeavingTypes, EngineTypesHold, WatchNextTypes DEF Next, EngineNext, WatchNext

-----------------------------------------------------------------------------
(* One attempt. *)

Trying(c) == pc[c] \in {"backoff", "join", "transport"}

\* Nobody starts to try, nobody's cancellation is taken back.
LEMMA LiveKept ==
  ASSUME OneLiveAttempt, controller' = controller,
         \A d \in Calls : Trying(d)' => Trying(d),
         \A d \in Calls : aborted[d] => aborted'[d]
  PROVE  OneLiveAttempt'
  BY DEF OneLiveAttempt, Live, Trying

\* Whoever takes the controller cancels the one it takes it from.
LEMMA LiveTaken ==
  ASSUME OneLiveAttempt, CallTypes, NEW c \in Calls, TakesController(c),
         \A d \in Calls : d # c /\ Trying(d)' => Trying(d)
  PROVE  OneLiveAttempt'
  BY DEF OneLiveAttempt, CallTypes, Live, Trying, TakesController

LEMMA GoesElsewhere ==
  ASSUME CallTypes, NEW c \in Calls, NEW to, Goes(c, to),
         to \in {"backoff", "join", "transport"} => Trying(c)
  PROVE  \A d \in Calls : Trying(d)' => Trying(d)
  BY DEF CallTypes, Goes, Trying

LEMMA GivesUpElsewhere ==
  ASSUME CallTypes, NEW c \in Calls, GivesUp(c)
  PROVE  \A d \in Calls : Trying(d)' => Trying(d)
  BY DEF CallTypes, GivesUp, Goes, Trying

LEMMA FailsElsewhere ==
  ASSUME CallTypes, NEW c \in Calls, NEW why, Fails(c, why)
  PROVE  \A d \in Calls : Trying(d)' => Trying(d)
  BY OtherGivesUp, GivesUpElsewhere, GoesElsewhere DEF Fails

LEMMA ConnectKeepsLive ==
  ASSUME TypeOK, OneLiveAttempt, NEW c \in Calls, ConnectNext(c)
  PROVE  OneLiveAttempt'
  <1>1. CallTypes
    BY TypesAre
  <1>2. CASE Connect(c)
    BY <1>1, <1>2, GoesElsewhere, LiveKept DEF Connect, stored
  <1>3. CASE ConnectEnters(c)
    BY <1>1, LiveTaken, <1>3, GoesElsewhere, LiveKept DEF CallTypes, Goes, Trying, ConnectEnters
  <1>4. CASE BackOffEnds(c)
    BY <1>1, GivesUpElsewhere, <1>4, GoesElsewhere, LiveKept DEF BackOffEnds, Trying
  <1>5. CASE JoinSucceeds(c)
    BY <1>1, OtherGivesUp, GivesUpElsewhere, <1>5, GoesElsewhere, LiveKept DEF JoinSucceeds, Trying, Proceeds
  <1>6. CASE JoinFails(c) \/ TransportFails(c)
    BY <1>1, <1>6, FailsElsewhere, LiveKept DEF JoinFails, TransportFails
  <1>7. CASE TornDown(c)
    BY <1>1, GivesUpElsewhere, GoesElsewhere, <1>7, LiveKept DEF TornDown, Caught
    \* The one that connected was the live one: nobody is live now.
  <1>8. CASE RegionAnswers(c)
    BY <1>1, LiveTaken, <1>8, GivesUpElsewhere, LiveKept DEF CallTypes, Goes, Trying, RegionAnswers
  <1> QED
    BY <1>2, <1>3, <1>4, <1>5, <1>6, <1>7, <1>8, <1>1
      DEF ConnectNext, TransportReady, Live, OneLiveAttempt, CallTypes, Goes

LEMMA LiveHolds ==
  ASSUME TypeOK, OneLiveAttempt, Next
  PROVE  OneLiveAttempt'
  <1>1. CASE Disconnect \/ LeaveSent \/ DisconnectEnds \/ EngineNext \/ WatchNext
    <2>1. UNCHANGED <<pc, aborted, controller>>
      <3>1. CASE EngineNext
        BY <3>1 DEF EngineNext, Lose, ServerAsks, Resuming, SignalResumed, Resumed, Restarting,
             SignalRestarted, RestartElsewhere, Restarted, AttemptFails, EngineEnds, Untouched,
             calls, stored
      <3>2. CASE WatchNext
        BY <3>2 DEF WatchNext, Offline, RepublishEnds, ReconcileTick, UpdateArrives, Untouched,
                    calls, stored
      <3> QED
        BY <1>1, <3>1, <3>2 DEF Disconnect, LeaveSent, DisconnectEnds, calls, stored
    <2> QED
      BY <2>1, LiveKept DEF Trying
  <1> QED
    BY <1>1, ConnectKeepsLive, LiveKept DEF Next, EngineNext, WatchNext, DisconnectEnters, Cancels, Trying

-----------------------------------------------------------------------------
(* Whoever holds the session between its states. *)

\* What a step leaves behind that the invariant is about.
Disconnected == state' = "disconnected" /\ lost' = lost
Connects     == Connecting' /\ lost' = lost
Connected    == state' = "connected" /\ watch' # Off /\ lost' = lost
Unheld ==
  /\ UNCHANGED <<state, isResuming, watch, due, phase, owed, leaving, lost>>
  /\ Connecting => Connecting'

Held == WatchIsHeld /\ InBetweenIsHeld /\ NothingIsLost

LEMMA HeldKept ==
  ASSUME Held, Disconnected \/ Connects \/ Connected \/ Unheld
  PROVE  Held'
  BY DEF Disconnected, Held, WatchIsHeld, InBetweenIsHeld, NothingIsLost, Connects, Connected, Unheld,
         Engine!Attempting

LEMMA GivesUpDisconnects ==
  ASSUME NEW c, GivesUp(c)
  PROVE  Disconnected
  BY DEF GivesUp, HandleDisconnect, Disconnected

LEMMA GoesUnderWay ==
  ASSUME CallTypes, NEW c \in Calls, NEW to, Goes(c, to), to \notin {"idle", "lock", "done"}
  PROVE  Connecting'
  BY DEF CallTypes, Goes, UnderWay, Connecting

LEMMA GoesFromIdle ==
  ASSUME CallTypes, NEW c \in Calls, NEW to, Goes(c, to), ~UnderWay(c)
  PROVE  Connecting => Connecting'
  BY DEF CallTypes, Goes, UnderWay, Connecting

LEMMA FailsHolds ==
  ASSUME CallTypes, NEW c \in Calls, NEW why, Fails(c, why)
  PROVE  Disconnected \/ Connects
  BY OtherGivesUp, GivesUpDisconnects, GoesUnderWay DEF Connects, events, Fails

LEMMA ConnectHolds ==
  ASSUME TypeOK, NEW c \in Calls, ConnectNext(c)
  PROVE  Disconnected \/ Connects \/ Connected \/ Unheld
  <1>1. CallTypes
    BY TypesAre
  <1>2. CASE ConnectEnters(c)
    BY <1>2, <1>1, GoesFromIdle, GoesUnderWay DEF ConnectEnters, engineVars, events, UnderWay, Unheld, Connects
  <1>3. CASE BackOffEnds(c)
    BY GivesUpDisconnects, <1>1, GoesUnderWay, <1>3 DEF Connects, BackOffEnds, events
  <1>4. CASE JoinSucceeds(c)
    BY OtherGivesUp, GivesUpDisconnects, <1>1, GoesUnderWay, <1>4 DEF Connects, events, JoinSucceeds, Proceeds
  <1>5. CASE JoinFails(c) \/ TransportFails(c)
    BY <1>1, <1>5, FailsHolds DEF JoinFails, TransportFails
  <1>6. CASE TornDown(c)
    BY GivesUpDisconnects, <1>1, GoesUnderWay, <1>6 DEF Connects, TornDown, Caught
  <1>7. CASE TransportReady(c)
    BY <1>7, WatchTypes DEF TransportReady, Connected, events
  <1>8. CASE RegionAnswers(c)
    BY GivesUpDisconnects, <1>1, GoesUnderWay, <1>8 DEF Connects, RecreateEngine, RegionAnswers
  <1> QED
    BY <1>2, <1>3, <1>4, <1>5, <1>6, <1>7, <1>8, <1>1, GoesFromIdle
      DEF ConnectNext, Connect, UnderWay, Unheld, roomVars, engineVars, events

\* The timer.
LEMMA IdleTimer ==
  ASSUME NEW e, IdleEngine(e)
  PROVE  TimerIsIdle'
  BY DEF IdleEngine, TimerIsIdle

LEMMA EngineClosedTimer ==
  ASSUME TimerIsIdle, EngineClosed
  PROVE  TimerIsIdle'
  BY IdleTimer DEF EngineClosed, TimerIsIdle, engineVars

LEMMA FailsTimer ==
  ASSUME TimerIsIdle, NEW c, NEW why, Fails(c, why)
  PROVE  TimerIsIdle'
  BY EngineClosedTimer DEF Fails, TimerIsIdle, engineVars

LEMMA ConnectTimer ==
  ASSUME TimerIsIdle, NEW c \in Calls, ConnectNext(c)
  PROVE  TimerIsIdle'
  <1>1. CASE BackOffEnds(c) \/ TornDown(c) \/ RegionAnswers(c)
    BY <1>1, IdleTimer DEF TimerIsIdle, engineVars, BackOffEnds, TornDown, RegionAnswers, RecreateEngine
  <1>2. CASE JoinFails(c) \/ TransportFails(c)
    BY <1>2, FailsTimer DEF JoinFails, TransportFails
  <1> QED
    BY <1>1, <1>2 DEF ConnectNext, Connect, ConnectEnters, TransportReady, TimerIsIdle, engineVars, JoinSucceeds

LEMMA TimerHolds ==
  ASSUME TypeOK, TimerIsIdle, Next
  PROVE  TimerIsIdle'
  <1>1. CASE Lose \/ ServerAsks \/ Resuming \/ Restarting
    BY <1>1 DEF Lose, ServerAsks, Asked, Engine!Ask, Resuming, Restarting, AttemptBegins, TimerIsIdle
  <1>2. CASE SignalResumed \/ SignalRestarted \/ RestartElsewhere
    BY <1>2 DEF SignalResumed, SignalRestarted, RestartElsewhere, Engine!SignalResumed,
                Engine!SignalRestarted, Engine!RestartElsewhere, TimerIsIdle
  <1>3. CASE Resumed \/ Restarted \/ AttemptFails
    BY <1>3 DEF Resumed, Restarted, AttemptFails, Engine!Resumed, Engine!Restarted,
                Engine!ResumeFailed, Engine!RestartFailed, TimerIsIdle
  <1>4. CASE EngineEnds
    BY <1>4, IdleTimer DEF EngineEnds
  <1>5. CASE Offline \/ RepublishEnds \/ UpdateArrives
    BY <1>5 DEF Offline, RepublishEnds, UpdateArrives, TimerIsIdle, engineVars
  <1>6. CASE ReconcileTick
    BY <1>6, IdleTimer DEF ReconcileTick, Asked, Engine!Ask, TimerIsIdle, engineVars
  <1> QED
    BY <1>1, <1>2, <1>3, <1>4, <1>5, <1>6, ConnectTimer, IdleTimer, EngineClosedTimer
      DEF Next, TimerIsIdle, engineVars, Disconnect, DisconnectEnters, LeaveSent, DisconnectEnds

LEMMA EngineHolds ==
  ASSUME TypeOK, Held, TimerIsIdle, EngineNext
  PROVE  Held'
  <1>1. UNCHANGED pc /\ UNCHANGED leaving
    BY DEF EngineNext, Lose, ServerAsks, Resuming, SignalResumed, Resumed, Restarting,
           SignalRestarted, RestartElsewhere, Restarted, AttemptFails, EngineEnds, Untouched,
           calls, locking
  <1>2. Connecting' <=> Connecting
    BY <1>1 DEF Connecting, UnderWay
  <1>3. CASE Resuming \/ Restarting \/ RestartElsewhere
    BY <1>3
      DEF Resuming, Restarting, RestartElsewhere, RestartingHandled, events, Held, WatchIsHeld,
          InBetweenIsHeld, NothingIsLost
  <1>4. CASE \/ Lose \/ ServerAsks \/ SignalResumed \/ SignalRestarted \/ AttemptFails
             \/ Restarted /\ UNCHANGED <<state, watch, events>>
    <2>1. UNCHANGED <<state, isResuming, watch, lost>>
      BY <1>4 DEF Lose, ServerAsks, SignalResumed, SignalRestarted, AttemptFails, Restarted, Flush,
                  roomVars, events
    <2>2. due \/ (Engine!Attempting /\ owed) => due' \/ (Engine!Attempting' /\ owed')
      <3>1. CASE SignalResumed \/ SignalRestarted
        BY <3>1 DEF SignalResumed, SignalRestarted, Engine!SignalResumed, Engine!SignalRestarted,
                    Engine!Attempting
      <3>2. CASE AttemptFails
        BY <3>2 DEF AttemptFails, AttemptOver
      <3>3. CASE Restarted
        BY <3>3 DEF Restarted, Engine!Restarted, Succeeds, AttemptOver, TimerIsIdle,
                    Engine!Attempting
      <3> QED
        BY <1>4, <3>1, <3>2, <3>3
          DEF Lose, Engine!Attempting, TypeOK, Engine!TypeOK, ServerAsks, Asked, Engine!Ask
    <2> QED
      BY <1>2, <2>1, <1>1, <2>2 DEF Held, InBetweenIsHeld, NothingIsLost, WatchIsHeld
  <1> QED
    BY <1>3, <1>4, HeldKept, WatchTypes
      DEF EngineNext, Restarted, EngineEnds, HandleDisconnect, Disconnected, Resumed, BackOnline, Flush,
          Connected

LEMMA LeavingHolds ==
  ASSUME Held, Disconnect \/ DisconnectEnters \/ LeaveSent \/ DisconnectEnds
  PROVE  Held'
  <1>1. CASE Disconnect
    BY <1>1, HeldKept DEF Disconnect, calls, Connecting, UnderWay, Unheld, roomVars, engineVars, events
  <1>2. CASE DisconnectEnters \/ LeaveSent
    <2>1. UNCHANGED <<state, isResuming, watch, lost, pc>>
      BY <1>2 DEF DisconnectEnters, LeaveSent, roomVars, calls, events
    <2> QED
      BY <2>1, <1>2
        DEF Held, WatchIsHeld, InBetweenIsHeld, NothingIsLost, Connecting, UnderWay, DisconnectEnters,
            LeaveSent
  <1> QED
    BY <1>1, <1>2, HeldKept DEF DisconnectEnds, HandleDisconnect, Disconnected

LEMMA WatchNextHolds ==
  ASSUME TypeOK, Held, WatchNext
  PROVE  Held'
  <1>1. UNCHANGED <<pc, leaving>>
    BY DEF WatchNext, Offline, RepublishEnds, ReconcileTick, UpdateArrives, Untouched, calls, locking
  <1>2. Connecting' <=> Connecting
    BY <1>1 DEF Connecting, UnderWay
  <1>3. CASE RepublishEnds
    BY HeldKept, WatchTypes, <1>1, <1>2, <1>3
      DEF BackOnline, Flush, Connected, RepublishEnds, Unheld, engineVars, events
  <1>4. CASE ReconcileTick
    <2>1. CASE UNCHANGED <<state, isResuming, events>> /\ Asked
      BY <2>1, <1>2
        DEF Asked, Engine!Ask, Engine!Attempting, events, Held, WatchIsHeld, InBetweenIsHeld, NothingIsLost
    <2>2. watch' = 0 \/ watch' = watch + 1 => watch' # Off
      BY <1>4 DEF Off, ReconcileTick, TypeOK
    <2> QED
      BY <1>4, <2>1, <2>2, HeldKept, <1>2
        DEF ReconcileTick, HandleDisconnect, Disconnected, events, Held, WatchIsHeld, InBetweenIsHeld,
            NothingIsLost
  <1>5. CASE UpdateArrives
    <2>1. lost' = lost
      BY <1>5 DEF Holding, TypeOK, States, Held, InBetweenIsHeld, Connecting, UpdateArrives
    <2> QED
      BY <1>2, <2>1, HeldKept, <1>1, <1>5 DEF Unheld, UpdateArrives, roomVars, engineVars
  <1> QED
    BY <1>3, <1>4, <1>5 DEF WatchNext, Offline, events, Held, WatchIsHeld, InBetweenIsHeld, NothingIsLost

-----------------------------------------------------------------------------
(* The theorem. *)

LEMMA InitHolds == Init => IInv
  <1> SUFFICES ASSUME Init PROVE IInv
    OBVIOUS
  <1>1. /\ 0 \in 0..MaxDisconnects /\ 0 \in 0..MaxTries /\ 0 \in 0..MaxUpdates
        /\ 0 \in 0..MaxFaults
    BY BoundsAssumption DEF BoundsAssumption
  <1>2. /\ <<>> \in Seq(Calls \union {Leave}) /\ <<>> \in Seq(1..MaxUpdates)
    BY EmptySeq
  <1>3. LockTypes
    BY <1>1, <1>2 DEF Init, LockTypes, Leavings
  <1>4. EngineTypes
    BY <1>1 DEF Init, Engines, Engine!Init, Engine!TypeOK, Engine!Phases, EngineTypes
  <1>5. RoomTypes
    BY <1>1, <1>2, WatchTypes DEF Init, RoomTypes, States
  <1>6. TypeOK
    BY <1>3, <1>4, <1>5, TypesAre, BoundsAssumption DEF Init, CallTypes, PCs, Answers, Causes, BoundsAssumption
  <1> QED
    BY <1>6 DEF Init, IInv, WatchIsHeld, InBetweenIsHeld, TimerIsIdle, NothingIsLost, OneLiveAttempt, Live

LEMMA NextHolds == IInv /\ [Next]_vars => IInv'
  <1> SUFFICES ASSUME IInv, [Next]_vars PROVE IInv'
    OBVIOUS
  <1>1. CASE Next
    BY ConnectHolds, HeldKept, <1>1, LeavingHolds, EngineHolds, WatchNextHolds, TypesHold, LiveHolds,
       TimerHolds DEF IInv, Held, Next, EngineNext, WatchNext
  <1>2. CASE UNCHANGED vars
    <2>1. TypeOK'
      BY <1>2 DEF IInv, TypeOK, Engine!TypeOK, vars, roomVars, engineVars, calls, stored, locking,
                  restarts, events
    <2> QED
      BY <1>2, <2>1
         DEF IInv, OneLiveAttempt, Live, WatchIsHeld, InBetweenIsHeld, TimerIsIdle, NothingIsLost,
             Engine!Attempting, Connecting, UnderWay, vars, roomVars, engineVars, calls, stored,
             locking, events
  <1> QED
    BY <1>1, <1>2

\* Whatever calls of connect() and disconnect() cross, however often the session is lost,
\* resumed, restarted or ended, and in whichever order handlers and timers run: one attempt
\* at most is live and it is the one that disconnect() would abort; a room that says it is
\* connected is watched by somebody; no event falls between being told and being held back.
THEOREM SessionIsKept == Spec => []SessionIsHeld
  <1>1. IInv => SessionIsHeld
    BY DEF IInv, SessionIsHeld, WatchIsHeld, ConnectedIsWatched, Connecting
  <1> QED
    BY <1>1, InitHolds, NextHolds, PTL DEF Spec

-----------------------------------------------------------------------------
(* Audio outputs: what the page hears. *)

Sinks == Outputs \union {NotChosen, Nameless}
SinkCalls == [device : Outputs \union {Nameless}, switch : 0..MaxSwitches]
SwitchTypes == [device : Outputs \union {Nameless}, prev : Outputs \union {Nameless}, at : {"normalizing", "switching", "done", "failed"}]
PersonTypes == [there : BOOLEAN, output : Sinks \union {"options"}, volume : Nat]
SoundTypes == [there : BOOLEAN, sink : Sinks, volume : Nat, wired : BOOLEAN]
SpeakerTypes == [of : People \union {Free}, sink : Sinks, calls : Seq(SinkCalls), volume : Nat, muted : BOOLEAN,
                 play : {"none", "trying", "blocked", "starting", "playing"}]

\* The variables have their types; sounds are of people, and elements of sounds, that are there.
AudioShape ==
  /\ mix \in BOOLEAN /\ plugged \in Seq(Outputs) /\ gesture \in BOOLEAN /\ enabled \in BOOLEAN
  /\ choice \in Sinks /\ output \in Outputs \union {Nameless}
  /\ switches \in Seq(SwitchTypes) /\ Len(switches) <= MaxSwitches
  /\ person \in [People -> PersonTypes] /\ sound \in [People -> SoundTypes] /\ speaker \in [Speakers -> SpeakerTypes]
  /\ context \in {"running", "suspended"} /\ start \in {"idle", "acquiring", "playing", "failed"}
  /\ \A p \in People : sound[p].there => person[p].there
  /\ \A e \in Speakers : speaker[e].of # Free => sound[speaker[e].of].there

\* The setSinkId calls under way carry the device of their switch, and a switch under way has some.
Called(sw, sp) ==
  /\ \A e \in Speakers : \A i \in DOMAIN sp[e].calls : LET call == sp[e].calls[i] IN
       call.switch # 0 => call.switch \in DOMAIN sw /\ sw[call.switch].device = call.device
                          /\ sw[call.switch].at # "normalizing"
  /\ \A c \in DOMAIN sw : sw[c].at = "switching" => Waiting(c, sp) # {}
SwitchesAreCalled == Called(switches, speaker)

\* Without web audio a device is one that the browser names.
OnlyNamed ==
  ~mix => /\ choice # Nameless /\ output # Nameless
          /\ \A c \in DOMAIN switches : switches[c].at # "normalizing" /\ switches[c].device # Nameless /\ switches[c].prev # Nameless

\* An active output that is not there will be replaced: a handler has yet to run, or a switch to a
\* device that is there is under way.
OutputIsReplaced ==
  ~mix /\ plugged # <<>> /\ output \notin ToSet(plugged) \union {"default"} =>
    \/ handlers # <<>>
    \/ \E c \in DOMAIN switches : switches[c].at = "switching" /\ switches[c].device \in ToSet(plugged) \union {"default"}

SwitchingNow == {c \in DOMAIN switches : switches[c].at = "switching"}

\* Without overlaps the option is the active output, or that of the one switch under way, which
\* knows what to go back to.
ChoiceIsActive ==
  ~mix /\ "overlap" \notin doubt =>
    /\ SwitchingNow = {} => choice = NotChosen \/ choice = output
    /\ \A c \in SwitchingNow : SwitchingNow = {c} /\ choice = switches[c].device /\ output = switches[c].prev

\* Where no device was refused, everybody, every track, and every element once its calls are done has
\* the device of the option.
LastSink(s) == IF s.calls = <<>> THEN s.sink ELSE s.calls[Len(s.calls)].device
SinksFollow ==
  "failed" \notin doubt /\ choice # NotChosen =>
    /\ \A p \in People : person[p].there => OutputOf(p) = choice
    /\ \A p \in People : sound[p].there => sound[p].sink = choice
    /\ \A e \in Attached(speaker) : LastSink(speaker[e]) = choice

\* A track has the volume of its participant.
VolumesFollow == \A p \in People : sound[p].there => sound[p].volume = person[p].volume

\* What is attached has tried to play, and what the browser has blocked came before any gesture.
PlayIsKnown ==
  /\ start = "failed" => "aborted" \in doubt
  /\ \A e \in Speakers : speaker[e].of = Free <=> speaker[e].play = "none"
  /\ ~gesture => start = "idle" /\ \A e \in Speakers : speaker[e].play \in {"none", "blocked"}
  /\ doubt \intersect {"clicked", "aborted"} = {} =>
       /\ \A e \in Speakers : speaker[e].play = "blocked" => ~enabled /\ start = "idle"
       /\ \A e \in Speakers : speaker[e].play = "starting" => start \in {"acquiring", "playing"}
       /\ \A e \in Speakers : speaker[e].play = "playing" /\ start = "idle" => enabled

Hearing ==
  /\ AudioShape /\ SwitchesAreCalled /\ OnlyNamed /\ OutputIsReplaced /\ ChoiceIsActive /\ SinksFollow
  /\ VolumesFollow /\ PlayIsKnown /\ VolumeIsAsSet /\ HeardOnce

-----------------------------------------------------------------------------
\* What the names of devices and people are not, and the bound of the switches.
LEMMA SwitchBound == MaxSwitches \in Nat
  BY AudioAssumption

\* The names that stand for no device are no devices, and differ.
LEMMA DeviceNames ==
  /\ "default" \in Outputs /\ NotChosen \notin Outputs /\ Nameless \notin Outputs /\ "options" \notin Outputs
  /\ Free \notin People /\ NotChosen # Nameless
  BY AudioAssumption DEF NotChosen, Nameless

\* The device without a name is not taken for the option itself.
LEMMA NamelessIsNoOption == Nameless # "options"
  BY DEF Nameless

\* One call more at the end of an element's calls.
LEMMA OneCallMore ==
  ASSUME NEW asked \in Seq(SinkCalls), NEW k \in SinkCalls
  PROVE  LET more == Append(asked, k) IN
         /\ more \in Seq(SinkCalls) /\ more # <<>>
         /\ Len(asked) \in Nat /\ Len(more) = Len(asked) + 1
         /\ DOMAIN asked = 1..Len(asked) /\ DOMAIN more = 1..(Len(asked) + 1)
         /\ \A i \in 1..Len(asked) : more[i] = asked[i]
         /\ more[Len(asked) + 1] = k
  BY AppendProperties, LenProperties

\* One call less at their beginning.
LEMMA OneCallLess ==
  ASSUME NEW asked \in Seq(SinkCalls), asked # <<>>
  PROVE  /\ Head(asked) \in SinkCalls /\ Head(asked) = asked[1] /\ Tail(asked) \in Seq(SinkCalls)
         /\ Len(asked) \in Nat \ {0} /\ Len(Tail(asked)) = Len(asked) - 1
         /\ DOMAIN asked = 1..Len(asked) /\ DOMAIN Tail(asked) = 1..(Len(asked) - 1)
         /\ \A i \in 1..(Len(asked) - 1) : Tail(asked)[i] = asked[i + 1]
  BY HeadTailProperties, EmptySeq, LenProperties

\* The types of what a session starts with.
LEMMA InitShape == AudioInit => AudioShape
  <1> SUFFICES ASSUME AudioInit PROVE AudioShape
    OBVIOUS
  <1>1. PICK s \in AudioSessions :
          /\ gesture = s.gesture /\ mix = s.mix /\ plugged = s.plugged /\ choice = NotChosen /\ output = "default"
          /\ switches = <<>> /\ person = [p \in People |-> [Absent EXCEPT !.there = p \in s.present]]
          /\ sound = [p \in People |-> NoSound] /\ speaker = [e \in Speakers |-> Silent]
          /\ context = (IF s.gesture THEN "running" ELSE "suspended") /\ enabled = s.gesture /\ start = "idle"
    BY DEF AudioInit
  <1>2. switches \in Seq(SwitchTypes) /\ Len(switches) <= MaxSwitches
    BY <1>1, EmptySeq, SwitchBound
  <1>3. person \in [People -> PersonTypes]
    <2>1. \A p \in People : person[p] \in PersonTypes
      <3>1. \A p \in People : (p \in s.present) \in BOOLEAN
        OBVIOUS
      <3>2. ASSUME NEW p \in People PROVE person[p] \in PersonTypes
        <4>1. PICK b \in BOOLEAN : b = (p \in s.present)
          BY <3>1
        <4>2. person[p] = [there |-> b, output |-> NotChosen, volume |-> 0]
          BY <4>1, <1>1 DEF Absent
        <4> QED
          BY <4>2 DEF PersonTypes, Sinks
      <3> QED
        BY <3>2
    <2> QED
      BY <2>1, <1>1
  <1>4. speaker \in [Speakers -> SpeakerTypes]
    BY <1>1 DEF SpeakerTypes, Silent, Sinks
  <1>5. context \in {"running", "suspended"} /\ start \in {"idle", "acquiring", "playing", "failed"}
    BY <1>1
  <1>6. \A p \in People : sound[p].there => person[p].there
    BY <1>1 DEF NoSound
  <1>7. \A e \in Speakers : speaker[e].of # Free => sound[speaker[e].of].there
    BY <1>1 DEF Silent
  <1> QED
    BY <1>2, <1>3, <1>4, <1>5, <1>6, <1>7, <1>1, AudioAssumption DEF AudioShape, Sinks, SoundTypes, NoSound

\* At first nothing is attached, and nothing is under way.
LEMMA InitHearing == AudioInit => Hearing
  <1> SUFFICES ASSUME AudioInit PROVE Hearing
    OBVIOUS
  <1>1. PICK s \in AudioSessions :
          /\ gesture = s.gesture /\ mix = s.mix /\ choice = NotChosen /\ output = "default"
          /\ switches = <<>> /\ person = [p \in People |-> [Absent EXCEPT !.there = p \in s.present]]
          /\ sound = [p \in People |-> NoSound] /\ speaker = [e \in Speakers |-> Silent]
          /\ enabled = s.gesture /\ start = "idle"
    BY DEF AudioInit
  <1>2. \A e \in Speakers : speaker[e].of = Free /\ speaker[e].calls = <<>> /\ speaker[e].play = "none"
    BY <1>1 DEF Silent
  <1>3. OutputIsReplaced /\ SinksFollow
    BY <1>1 DEF OutputIsReplaced, SinksFollow
  <1>4. VolumesFollow /\ PlayIsKnown /\ VolumeIsAsSet
    BY <1>1, <1>2 DEF VolumesFollow, PlayIsKnown, VolumeIsAsSet, Attached, NoSound
  <1>5. HeardOnce
    BY <1>1, <1>2, AudioAssumption DEF HeardOnce, On, NoSound
  <1> QED
    BY <1>3, <1>4, <1>5, InitShape, <1>1, <1>2, DeviceNames
      DEF Hearing, SwitchesAreCalled, Called, OnlyNamed, ChoiceIsActive, SwitchingNow

-----------------------------------------------------------------------------
(* What switches do. *)

\* A switch c whose device is known: the elements attached are called, and without any it is done.
LEMMA AppliesHas ==
  ASSUME NEW sw \in Seq(SwitchTypes), NEW c \in DOMAIN sw, NEW d \in Outputs \union {Nameless},
         Len(sw) <= MaxSwitches, AudioShape, Called(sw, speaker), sw[c].at = "normalizing", Applies(sw, c, d)
  PROVE  LET sw2 == [sw EXCEPT ![c] = [device |-> d, prev |-> output, at |-> IF Attached(speaker) = {} THEN "done" ELSE "switching"]] IN
         /\ switches' = sw2
         /\ output' = IF Attached(speaker) = {} THEN d ELSE output
         /\ Called(sw2, speaker')
  <1> DEFINE sw1 == [sw EXCEPT ![c].device = d, ![c].prev = output, ![c].at = "switching"]
             new == [device |-> d, switch |-> c]
             sw2 == [sw EXCEPT ![c] = [device |-> d, prev |-> output, at |-> IF Attached(speaker) = {} THEN "done" ELSE "switching"]]
  <1>1. /\ speaker' = [e \in Speakers |-> IF speaker[e].of = Free THEN speaker[e]
                                         ELSE [speaker[e] EXCEPT !.calls = Append(@, new)]]
        /\ Settled(sw1, speaker')
    BY DEF Applies
  <1>2. sw \in [1..Len(sw) -> SwitchTypes] /\ DOMAIN sw = 1..Len(sw) /\ Len(sw) \in Nat
    BY LenProperties
  <1>3. c \in Nat /\ c # 0 /\ new \in SinkCalls
    BY <1>2, SwitchBound DEF SinkCalls
  <1>4. /\ DOMAIN sw1 = DOMAIN sw
        /\ sw1[c].device = d /\ sw1[c].prev = output /\ sw1[c].at = "switching"
        /\ \A b \in DOMAIN sw : b # c => sw1[b] = sw[b]
    BY <1>2 DEF SwitchTypes
  <1>5. ASSUME NEW e \in Speakers
        PROVE  /\ speaker[e].calls \in Seq(SinkCalls)
               /\ speaker[e].of = Free => speaker'[e].calls = speaker[e].calls
               /\ speaker[e].of # Free => speaker'[e].calls = Append(speaker[e].calls, new)
    BY <1>1 DEF AudioShape, SpeakerTypes
  <1>6. ASSUME NEW e \in Speakers, NEW i \in DOMAIN speaker[e].calls
        PROVE  i \in DOMAIN speaker'[e].calls /\ speaker'[e].calls[i] = speaker[e].calls[i]
    <2>1. CASE speaker[e].of # Free
      <3>1. /\ DOMAIN speaker[e].calls = 1..Len(speaker[e].calls) /\ Len(speaker[e].calls) \in Nat
            /\ \A j \in 1..Len(speaker[e].calls) : Append(speaker[e].calls, new)[j] = speaker[e].calls[j]
            /\ DOMAIN Append(speaker[e].calls, new) = 1..(Len(speaker[e].calls) + 1)
        <4> HIDE DEF new
        <4> QED
          BY <1>3, OneCallMore, <1>5
      <3> HIDE DEF new
      <3> QED
        BY <3>1, <1>5, <2>1
    <2> QED
      BY <2>1, <1>5
  <1>7. ASSUME NEW e \in Speakers, NEW i \in DOMAIN speaker'[e].calls
        PROVE  \/ i \in DOMAIN speaker[e].calls /\ speaker'[e].calls[i] = speaker[e].calls[i]
               \/ speaker[e].of # Free /\ speaker'[e].calls[i] = new
    <2>1. CASE speaker[e].of # Free
      <3>1. speaker'[e].calls = Append(speaker[e].calls, new)
        BY <1>5, <2>1
      <3>2. /\ DOMAIN speaker[e].calls = 1..Len(speaker[e].calls) /\ Len(speaker[e].calls) \in Nat
            /\ \A j \in 1..Len(speaker[e].calls) : Append(speaker[e].calls, new)[j] = speaker[e].calls[j]
            /\ Append(speaker[e].calls, new)[Len(speaker[e].calls) + 1] = new
            /\ DOMAIN Append(speaker[e].calls, new) = 1..(Len(speaker[e].calls) + 1)
        <4> HIDE DEF new
        <4> QED
          BY <1>3, OneCallMore, <1>5
      <3> HIDE DEF new
      <3> QED
        BY <2>1, <3>1, <3>2
    <2> QED
      BY <2>1, <1>5
  <1>8. \A b \in DOMAIN sw : b # c /\ sw[b].at = "switching" => Waiting(b, speaker') # {}
    BY <1>6 DEF Called, Waiting
  <1>9. ASSUME NEW e \in Speakers, speaker[e].of # Free
        PROVE  e \in Waiting(c, speaker')
    <2>1. Len(speaker[e].calls) + 1 \in DOMAIN speaker'[e].calls
          /\ speaker'[e].calls[Len(speaker[e].calls) + 1] = new
      <3> HIDE DEF new
      <3> QED
        BY <1>3, OneCallMore, <1>5, <1>9
    <2> QED
      BY <1>9, <2>1 DEF Waiting
  <1>10. Waiting(c, speaker') = {} <=> Attached(speaker) = {}
    BY <1>3, <1>7, <1>9 DEF Waiting, Called, Attached
  <1>11. switches' = [b \in DOMAIN sw |-> IF sw1[b].at = "switching" /\ Waiting(b, speaker') = {}
                                         THEN [sw1[b] EXCEPT !.at = "done"] ELSE sw1[b]]
    BY <1>1, <1>4 DEF Settled
  <1>12. sw1[c] = [device |-> d, prev |-> output, at |-> "switching"]
    BY <1>2 DEF SwitchTypes
  <1>13. switches'[c] = [device |-> d, prev |-> output, at |-> IF Attached(speaker) = {} THEN "done" ELSE "switching"]
    BY <1>4, <1>10, <1>11, <1>12
  <1>14. ASSUME NEW b \in DOMAIN sw, b # c
         PROVE  switches'[b] = sw[b]
    BY <1>4, <1>8, <1>11, <1>14
  <1>15. switches' = sw2
    BY <1>11, <1>2, <1>13, <1>14
  <1>16. output' = IF Attached(speaker) = {} THEN d ELSE output
    <2> DEFINE done == {b \in DOMAIN sw1 : sw1[b].at # switches'[b].at}
    <2>1. output' = IF done = {} THEN output ELSE sw1[CHOOSE b \in done : TRUE].device
      BY <1>1 DEF Settled
    <2>2. \A b \in DOMAIN sw1 : b # c => b \notin done
      BY <1>4, <1>14
    <2>3. c \in done <=> Attached(speaker) = {}
      BY <1>4, <1>13
    <2>4. CASE Attached(speaker) # {}
      BY <2>2, <2>3, <2>4, <2>1
    <2> QED
      BY <2>4, <2>2, <2>3, <1>4, <2>1
  <1>17. Called(sw2, speaker')
    <2>1. DOMAIN sw2 = DOMAIN sw
      BY <1>2
    <2>2. ASSUME NEW e \in Speakers, NEW i \in DOMAIN speaker'[e].calls, speaker'[e].calls[i].switch # 0
          PROVE  LET k == speaker'[e].calls[i].switch IN
                 k \in DOMAIN sw2 /\ sw2[k].device = speaker'[e].calls[i].device /\ sw2[k].at # "normalizing"
      <3>1. CASE i \in DOMAIN speaker[e].calls /\ speaker'[e].calls[i] = speaker[e].calls[i]
        <4> DEFINE k == speaker[e].calls[i].switch
        <4> QED
          BY <1>2, <2>1, <3>1, <2>2 DEF Called
      <3>2. CASE speaker[e].of # Free /\ speaker'[e].calls[i] = new
        <4>1. speaker'[e].calls[i].switch = c /\ speaker'[e].calls[i].device = d
          <5>1. speaker'[e].calls[i] = [device |-> d, switch |-> c]
            BY <3>2
          <5> HIDE DEF sw1, sw2, new
          <5> QED
            BY <5>1
        <4> QED
          BY <4>1, <2>1, <1>2, <3>2 DEF Attached
      <3> QED
        BY <1>7, <3>1, <3>2
    <2> QED
      BY <2>2, <1>2, <1>8, <1>10, <2>1 DEF Called
  <1> QED
    BY <1>15, <1>16, <1>17

-----------------------------------------------------------------------------
(* Steps that leave what is heard, or the devices, as they are. *)

\* Elements, people and playback are as they were; only devices and switches differ.
HearsTheSame ==
  /\ mix' = mix /\ gesture' = gesture /\ enabled' = enabled /\ start' = start
  /\ \A e \in Speakers : /\ speaker'[e].of = speaker[e].of /\ speaker'[e].volume = speaker[e].volume
                         /\ speaker'[e].muted = speaker[e].muted /\ speaker'[e].play = speaker[e].play
  /\ \A p \in People : /\ person'[p].volume = person[p].volume
                       /\ sound'[p].there = sound[p].there /\ sound'[p].volume = sound[p].volume
                       /\ sound'[p].wired = sound[p].wired
  /\ \A what \in {"clicked", "aborted", "shared"} : what \in doubt' <=> what \in doubt

Sounds == VolumesFollow /\ PlayIsKnown /\ VolumeIsAsSet /\ HeardOnce
Routes == OnlyNamed /\ OutputIsReplaced /\ ChoiceIsActive /\ SinksFollow

\* So what is heard keeps its volume and its state.
LEMMA SameSounds ==
  ASSUME AudioShape, AudioShape', HearsTheSame, Sounds
  PROVE  Sounds'
  <1> USE DEF HearsTheSame
  <1>1. Attached(speaker') = Attached(speaker) /\ \A p \in People : On(p, speaker') = On(p, speaker)
    BY DEF Attached, On
  <1>2. VolumeIsAsSet'
    <2>1. ASSUME NEW e \in Attached(speaker) PROVE e \in Speakers /\ speaker[e].of \in People
      BY <2>1 DEF Attached, AudioShape, SpeakerTypes
    <2> QED
      BY <1>1, <2>1 DEF Sounds, VolumeIsAsSet
  <1>3. HeardOnce'
    BY <1>1 DEF On, Sounds, HeardOnce
  <1> QED
    BY <1>2, <1>3 DEF Sounds, VolumesFollow, PlayIsKnown

\* Switches, devices and what each element, track and participant uses are as they were.
RoutesTheSame ==
  /\ mix' = mix /\ plugged' = plugged /\ handlers' = handlers /\ choice' = choice /\ output' = output /\ switches' = switches
  /\ \A e \in Speakers : /\ speaker'[e].of = speaker[e].of /\ speaker'[e].sink = speaker[e].sink
                         /\ speaker'[e].calls = speaker[e].calls
  /\ \A p \in People : /\ person'[p].there = person[p].there /\ person'[p].output = person[p].output
                       /\ sound'[p].there = sound[p].there /\ sound'[p].sink = sound[p].sink
  /\ \A what \in {"overlap", "failed"} : what \in doubt' <=> what \in doubt

\* So the switches, and the devices of all that plays, keep what the proof needs.
LEMMA SameRoutes ==
  ASSUME RoutesTheSame, SwitchesAreCalled, Routes
  PROVE  (SwitchesAreCalled /\ Routes)'
  <1> USE DEF RoutesTheSame
  <1>1. SinksFollow'
    BY DEF Attached, LastSink, OutputOf, Routes, SinksFollow
  <1> QED
    BY <1>1
      DEF Routes, OnlyNamed, OutputIsReplaced, ChoiceIsActive, SwitchingNow, SwitchesAreCalled, Called,
          Waiting

-----------------------------------------------------------------------------
(* A switch begins. *)

\* sw are the switches with c, whose device is about to be known, among them.
Known(sw, c) ==
  /\ sw \in Seq(SwitchTypes) /\ Len(sw) <= MaxSwitches /\ c \in DOMAIN sw /\ sw[c].at = "normalizing" /\ Called(sw, speaker)
  /\ \A b \in DOMAIN sw : b # c => b \in DOMAIN switches /\ sw[b] = switches[b]
  /\ \A b \in DOMAIN switches : b # c => b \in DOMAIN sw
  /\ c \in DOMAIN switches => switches[c].at = "normalizing"

\* What the elements are after a switch to d.
LEMMA AppliesToAll ==
  ASSUME NEW sw, NEW c, NEW d \in Outputs \union {Nameless}, AudioShape, Known(sw, c), Applies(sw, c, d)
  PROVE  /\ \A e \in Speakers : /\ speaker'[e].of = speaker[e].of /\ speaker'[e].sink = speaker[e].sink
                                /\ speaker'[e].volume = speaker[e].volume /\ speaker'[e].muted = speaker[e].muted
                                /\ speaker'[e].play = speaker[e].play
                                /\ speaker[e].of # Free => LastSink(speaker'[e]) = d
         /\ \A p \in People : /\ person'[p].there = person[p].there /\ person'[p].volume = person[p].volume
                              /\ person[p].there => person'[p].output = d
                              /\ sound'[p].there = sound[p].there /\ sound'[p].volume = sound[p].volume
                              /\ sound'[p].wired = sound[p].wired
                              /\ sound[p].there => sound'[p].sink = d
         /\ speaker' \in [Speakers -> SpeakerTypes] /\ person' \in [People -> PersonTypes] /\ sound' \in [People -> SoundTypes]
  <1> DEFINE new == [device |-> d, switch |-> c]
  <1>1. new \in SinkCalls /\ d \in Sinks
    BY LenProperties, SwitchBound DEF Known, SinkCalls, Sinks
  <1>2. ASSUME NEW e \in Speakers
        PROVE  /\ speaker'[e].of = speaker[e].of /\ speaker'[e].sink = speaker[e].sink
               /\ speaker'[e].volume = speaker[e].volume /\ speaker'[e].muted = speaker[e].muted
               /\ speaker'[e].play = speaker[e].play
               /\ speaker[e].of # Free => LastSink(speaker'[e]) = d
               /\ speaker'[e] \in SpeakerTypes
    <2>1. speaker[e] \in SpeakerTypes
      BY DEF AudioShape
    <2>2. CASE speaker[e].of # Free
      <3> DEFINE more == Append(speaker[e].calls, new)
      <3>1. more \in Seq(SinkCalls) /\ more # <<>> /\ more[Len(more)] = new
        <4> HIDE DEF new
        <4> QED
          BY <1>1, OneCallMore, <2>1 DEF SpeakerTypes
      <3>2. speaker'[e] = [speaker[e] EXCEPT !.calls = more]
        BY <2>2 DEF Applies
      <3> HIDE DEF more
      <3> QED
        BY <2>1, <3>2, <3>1 DEF SpeakerTypes, LastSink
    <2> QED
      BY <2>2, <2>1 DEF Applies
  <1>3. ASSUME NEW p \in People
        PROVE  /\ person'[p].there = person[p].there /\ person'[p].volume = person[p].volume
               /\ person[p].there => person'[p].output = d
               /\ person'[p] \in PersonTypes
    BY <1>1 DEF Applies, AudioShape, PersonTypes
  <1>4. ASSUME NEW p \in People
        PROVE  /\ sound'[p].there = sound[p].there /\ sound'[p].volume = sound[p].volume
               /\ sound'[p].wired = sound[p].wired
               /\ sound[p].there => sound'[p].sink = d
               /\ sound'[p] \in SoundTypes
    BY <1>1 DEF Applies, AudioShape, SoundTypes
  <1>5. /\ speaker' = [e \in Speakers |-> speaker'[e]]
        /\ person' = [p \in People |-> person'[p]] /\ sound' = [p \in People |-> sound'[p]]
    BY DEF Applies
  <1> QED
    BY <1>2, <1>3, <1>4, <1>5

\* A switch to a device that is there, or that web audio has chosen, keeps all that the proof needs.
LEMMA AppliesKeeps ==
  ASSUME NEW sw, NEW c, NEW d \in Outputs \union {Nameless}, Hearing, Known(sw, c), Applies(sw, c, d),
         ~mix => d \in ToSet(plugged), UNCHANGED <<mix, plugged, gesture, enabled, context, start>>
  PROVE  Hearing'
  <1> DEFINE sw2 == [sw EXCEPT ![c] = [device |-> d, prev |-> output, at |-> IF Attached(speaker) = {} THEN "done" ELSE "switching"]]
  <1>1. AudioShape /\ Sounds /\ Routes
    BY DEF Hearing, Sounds, Routes
  <1>2. switches' = sw2 /\ output' = (IF Attached(speaker) = {} THEN d ELSE output) /\ Called(sw2, speaker')
    BY <1>1, AppliesHas DEF Known
  <1>3. sw \in [1..Len(sw) -> SwitchTypes] /\ DOMAIN sw = 1..Len(sw) /\ Len(sw) \in Nat
    BY LenProperties DEF Known
  <1>4. /\ DOMAIN switches' = DOMAIN sw
        /\ switches'[c].device = d /\ switches'[c].prev = output
        /\ Attached(speaker) = {} => switches'[c].at = "done"
        /\ Attached(speaker) # {} => switches'[c].at = "switching"
        /\ \A b \in DOMAIN sw : b # c => switches'[b] = switches[b] /\ b \in DOMAIN switches
    <2>1. c \in DOMAIN sw /\ \A b \in DOMAIN sw : b # c => b \in DOMAIN switches /\ sw[b] = switches[b]
      BY DEF Known
    <2>2. /\ DOMAIN sw2 = DOMAIN sw
          /\ sw2[c] = [device |-> d, prev |-> output, at |-> IF Attached(speaker) = {} THEN "done" ELSE "switching"]
          /\ \A b \in DOMAIN sw : b # c => sw2[b] = sw[b]
      BY <1>3, <2>1
    <2> HIDE DEF sw2
    <2> QED
      BY <1>2, <2>1, <2>2
  <1>5. choice' = d /\ c \in DOMAIN sw
    BY DEF Applies, Known
  <1>6. AudioShape'
    <2>1. d \in Sinks /\ output \in Outputs \union {Nameless}
      BY <1>1 DEF Sinks, AudioShape
    <2>2. speaker' \in [Speakers -> SpeakerTypes] /\ person' \in [People -> PersonTypes] /\ sound' \in [People -> SoundTypes]
      BY <1>1, AppliesToAll
    <2>3. \A p \in People : sound'[p].there => person'[p].there
      BY <1>1, AppliesToAll DEF AudioShape
    <2>4. \A e \in Speakers : speaker'[e].of # Free => sound'[speaker'[e].of].there
      <3>1. \A p \in People : sound'[p].there = sound[p].there
        BY <1>1, AppliesToAll
      <3>2. \A e \in Speakers : speaker[e].of \in People \union {Free}
        BY <1>1 DEF AudioShape, SpeakerTypes
      <3> QED
        BY <1>1, <3>1, <3>2, AppliesToAll DEF AudioShape
    <2>5. output' \in Outputs \union {Nameless} /\ choice' \in Sinks
      BY <1>2, <1>5, <2>1
    <2> QED
      BY <1>1, <2>2, <2>3, <2>4, <2>5, <2>1, <1>3, ExceptSeq, <1>2 DEF AudioShape, SwitchTypes, Known
  <1>7. OnlyNamed'
    BY <1>1, DeviceNames, <1>2, <1>4, <1>5 DEF OnlyNamed, AudioShape, ToSet, Routes
  <1>8. OutputIsReplaced'
    BY <1>2, <1>4, <1>5 DEF OutputIsReplaced
  <1>9. ChoiceIsActive'
    BY <1>4, <1>2, <1>5 DEF ChoiceIsActive, Known, Applies, SwitchingNow
  <1>10. SinksFollow'
    BY DeviceNames, NamelessIsNoOption, <1>1, AppliesToAll, <1>5 DEF OutputOf, Attached, SinksFollow
  <1>11. SwitchesAreCalled'
    BY <1>2 DEF SwitchesAreCalled
  <1> QED
    BY <1>6, <1>7, <1>8, <1>9, <1>10, <1>11, <1>1, AppliesToAll, SameSounds
      DEF Hearing, Sounds, Applies, HearsTheSame

\* A new switch is one whose device is about to be known.
LEMMA NewIsKnown ==
  ASSUME NEW d \in Outputs \union {Nameless}, AudioShape, SwitchesAreCalled, Len(switches) + 1 <= MaxSwitches
  PROVE  LET sw == Append(switches, [device |-> d, prev |-> output, at |-> "normalizing"]) IN
         /\ Known(sw, Len(switches) + 1)
         /\ DOMAIN sw = 1..(Len(switches) + 1) /\ DOMAIN switches = 1..Len(switches) /\ Len(switches) \in Nat
         /\ sw[Len(switches) + 1] = [device |-> d, prev |-> output, at |-> "normalizing"]
         /\ \A b \in DOMAIN switches : sw[b] = switches[b]
  <1> DEFINE new == [device |-> d, prev |-> output, at |-> "normalizing"]
             sw == Append(switches, new)
             c == Len(switches) + 1
  <1>1. new \in SwitchTypes /\ new.at = "normalizing"
    BY DEF AudioShape, SwitchTypes
  <1>2. switches \in Seq(SwitchTypes) /\ Len(switches) \in Nat /\ DOMAIN switches = 1..Len(switches)
    BY LenProperties DEF AudioShape
  <1> HIDE DEF new
  <1>3. /\ sw \in Seq(SwitchTypes) /\ Len(sw) = c /\ sw[c] = new
        /\ \A b \in 1..Len(switches) : sw[b] = switches[b]
    BY <1>1, <1>2, AppendProperties
  <1> HIDE DEF sw
  <1>4. DOMAIN sw = 1..c
    BY <1>3, LenProperties
  <1>5. c \in DOMAIN sw /\ c \notin DOMAIN switches /\ \A b \in DOMAIN sw : b # c => b \in DOMAIN switches
    BY <1>2, <1>4
  <1>6. \A b \in DOMAIN switches : b \in DOMAIN sw /\ sw[b] = switches[b]
    BY <1>2, <1>3, <1>4
  <1>7. Called(sw, speaker)
    BY <1>6, <1>1, <1>3, <1>5 DEF SwitchesAreCalled, Called
  <1> QED
    BY <1>2, <1>3, <1>4, <1>6, <1>1, <1>5, <1>7 DEF new, sw, Known

\* A switch that web audio looks the device up for is only noted.
LEMMA NotedKeeps ==
  ASSUME Hearing, mix, Len(switches) + 1 <= MaxSwitches, NEW d \in Outputs,
         switches' = Append(switches, [device |-> d, prev |-> output, at |-> "normalizing"]),
         UNCHANGED <<mix, plugged, choice, output, people, speaker, playback, doubt>>
  PROVE  Hearing'
  <1> DEFINE sw == Append(switches, [device |-> d, prev |-> output, at |-> "normalizing"])
  <1> USE DEF people, playback
  <1>1. AudioShape /\ Sounds /\ Routes /\ SwitchesAreCalled
    BY DEF Hearing, Sounds, Routes
  <1>2. sw \in Seq(SwitchTypes) /\ Len(sw) <= MaxSwitches /\ Called(sw, speaker)
    BY <1>1, NewIsKnown DEF Known
  <1>3. switches' = sw
    OBVIOUS
  <1> HIDE DEF sw
  <1>4. AudioShape'
    BY <1>1, <1>2, <1>3 DEF AudioShape
  <1>5. OnlyNamed' /\ OutputIsReplaced' /\ ChoiceIsActive'
    BY DEF OnlyNamed, OutputIsReplaced, ChoiceIsActive
  <1>6. SinksFollow'
    BY <1>1 DEF Routes, SinksFollow, OutputOf, Attached, LastSink
  <1> QED
    BY <1>4, <1>5, <1>6, <1>2, <1>3, <1>1, SameSounds DEF Hearing, Sounds, SwitchesAreCalled, HearsTheSame

\* A switch to a device that is there, noted or applied at once.
LEMMA SwitchesKeeps ==
  ASSUME Hearing, NEW d \in Outputs, d \in ToSet(plugged), Switches(d),
         UNCHANGED <<mix, plugged, gesture, enabled, context, start>>
  PROVE  Hearing'
  <1> DEFINE sw == Append(switches, [device |-> d, prev |-> output, at |-> "normalizing"])
             c == Len(switches) + 1
  <1>1. c <= MaxSwitches
    BY DEF Switches
  <1>2. CASE ~(mix /\ d = "default")
    <2>1. Applies(sw, c, d)
      BY <1>2 DEF Switches
    <2>2. Known(sw, c)
      BY <1>1, NewIsKnown DEF Hearing
    <2> HIDE DEF sw, c
    <2> QED
      BY <2>1, <2>2, AppliesKeeps
  <1> QED
    BY <1>2, <1>1, NotedKeeps DEF Switches, playback

\* The application switches to a device that is there.
LEMMA KeptBySwitchActiveDevice ==
  ASSUME Hearing, NEW d \in Outputs, SwitchActiveDevice(d)
  PROVE  Hearing'
  BY SwitchesKeeps DEF SwitchActiveDevice, devices, playback

\* Only web audio looks devices up.
LEMMA KeptByNormalized ==
  ASSUME Hearing, NEW c \in DOMAIN switches, NEW d \in Outputs \union {Nameless}, Normalized(c, d)
  PROVE  Hearing'
  BY AppliesKeeps DEF Hearing, OnlyNamed, Normalized, AudioShape, SwitchesAreCalled, Known, playback

\* The devices change where a handler knows of it, or is not needed.
LEMMA SameElements ==
  ASSUME Hearing, plugged' \in Seq(Outputs), UNCHANGED <<mix, selected, people, speaker, playback, doubt>>, OutputIsReplaced'
  PROVE  Hearing'
  <1> USE DEF selected, people, playback
  <1>1. SinksFollow'
    BY DEF Hearing, SinksFollow, OutputOf, Attached, LastSink
  <1>2. VolumeIsAsSet' /\ HeardOnce'
    BY DEF Hearing, VolumeIsAsSet, HeardOnce, Attached, On
  <1> QED
    BY <1>1, <1>2
      DEF Hearing, AudioShape, SwitchesAreCalled, OnlyNamed, ChoiceIsActive, SwitchingNow, VolumesFollow,
          PlayIsKnown

\* Devices change, and a handler has yet to run.
LEMMA KeptByDeviceChange ==
  ASSUME Hearing, NEW list \in Lists, DeviceChange(list)
  PROVE  Hearing'
  BY AudioAssumption, SameElements DEF DeviceChange, OutputIsReplaced

\* The application lists the devices.
LEMMA KeptByGetLocalDevices ==
  ASSUME Hearing, GetLocalDevices
  PROVE  Hearing'
  BY SameElements DEF Hearing, AudioShape, OutputIsReplaced, GetLocalDevices, selected

\* An output that is not there any more makes way for the first device, if there is any.
LEMMA KeptBySelectDefaultDevices ==
  ASSUME Hearing, SelectDefaultDevices
  PROVE  Hearing'
  <1>1. plugged \in Seq(Outputs) /\ UNCHANGED <<mix, plugged, playback>>
    BY DEF Hearing, AudioShape, SelectDefaultDevices
  <1>2. CASE ~SelectsFirst(Head(handlers))
    <2>1. plugged = <<>> \/ output \in ToSet(plugged)
      BY <1>1, EmptySeq, LenProperties, <1>2 DEF ToSet, SelectsFirst
    <2> QED
      BY <1>1, SameElements, <2>1, <1>2 DEF OutputIsReplaced, selected, SelectDefaultDevices
  <1> QED
    BY <1>2, <1>1, EmptySeq, LenProperties, ElementOfSeq, SwitchesKeeps
      DEF SelectDefaultDevices, SelectsFirst, ToSet, playback

-----------------------------------------------------------------------------
(* A setSinkId ends. *)

\* The first call of the element e is over, and its device is snk.
CallEnds(e, snk) ==
  /\ speaker[e].calls # <<>>
  /\ speaker' = [speaker EXCEPT ![e].sink = snk, ![e].calls = Tail(@)]

\* The calls that are left are calls of before, and only the first is gone.
LEMMA OneCallEnds ==
  ASSUME AudioShape, NEW e \in Speakers, NEW snk \in Sinks, CallEnds(e, snk)
  PROVE  /\ speaker' \in [Speakers -> SpeakerTypes]
         /\ \A f \in Speakers : /\ speaker'[f].of = speaker[f].of /\ speaker'[f].volume = speaker[f].volume
                                /\ speaker'[f].muted = speaker[f].muted /\ speaker'[f].play = speaker[f].play
                                /\ f # e => speaker'[f] = speaker[f]
         /\ speaker'[e].sink = snk /\ speaker'[e].calls = Tail(speaker[e].calls)
         /\ \A f \in Speakers : \A i \in DOMAIN speaker'[f].calls :
              \E j \in DOMAIN speaker[f].calls : speaker'[f].calls[i] = speaker[f].calls[j]
         /\ \A f \in Speakers : \A i \in DOMAIN speaker[f].calls :
              (f = e /\ speaker[f].calls[i] = Head(speaker[e].calls))
                \/ \E j \in DOMAIN speaker'[f].calls : speaker'[f].calls[j] = speaker[f].calls[i]
         /\ Head(speaker[e].calls) \in SinkCalls /\ 1 \in DOMAIN speaker[e].calls /\ Head(speaker[e].calls) = speaker[e].calls[1]
  <1> DEFINE asked == speaker[e].calls
  <1>1. asked \in Seq(SinkCalls) /\ asked # <<>> /\ speaker \in [Speakers -> SpeakerTypes] /\ speaker[e] \in SpeakerTypes
    BY DEF AudioShape, SpeakerTypes, CallEnds
  <1>2. /\ Head(asked) \in SinkCalls /\ Head(asked) = asked[1] /\ Tail(asked) \in Seq(SinkCalls)
        /\ Len(asked) \in Nat \ {0} /\ Len(Tail(asked)) = Len(asked) - 1
        /\ DOMAIN asked = 1..Len(asked) /\ DOMAIN Tail(asked) = 1..(Len(asked) - 1)
        /\ \A i \in 1..(Len(asked) - 1) : Tail(asked)[i] = asked[i + 1]
    <2> HIDE DEF asked
    <2> QED
      BY <1>1, OneCallLess
  <1>3. /\ speaker'[e] = [speaker[e] EXCEPT !.sink = snk, !.calls = Tail(@)]
        /\ \A f \in Speakers : f # e => speaker'[f] = speaker[f]
        /\ speaker' = [f \in Speakers |-> speaker'[f]]
    BY <1>1 DEF CallEnds
  <1>4. /\ speaker'[e].of = speaker[e].of /\ speaker'[e].volume = speaker[e].volume
        /\ speaker'[e].muted = speaker[e].muted /\ speaker'[e].play = speaker[e].play
        /\ speaker'[e].sink = snk /\ speaker'[e].calls = Tail(asked)
        /\ speaker'[e] \in SpeakerTypes
    BY <1>1, <1>2, <1>3 DEF SpeakerTypes
  <1>5. ASSUME NEW f \in Speakers, NEW i \in DOMAIN speaker'[f].calls
        PROVE  \E j \in DOMAIN speaker[f].calls : speaker'[f].calls[i] = speaker[f].calls[j]
    <2>1. CASE f = e
      <3>1. i \in 1..(Len(asked) - 1)
        BY <1>2, <1>4, <2>1
      <3>2. i + 1 \in DOMAIN asked /\ speaker'[e].calls[i] = asked[i + 1]
        BY <1>2, <1>4, <3>1
      <3> QED
        BY <2>1, <3>2
    <2> QED
      BY <2>1, <1>3
  <1>6. ASSUME NEW f \in Speakers, NEW i \in DOMAIN speaker[f].calls
        PROVE  \/ f = e /\ speaker[f].calls[i] = Head(asked)
               \/ \E j \in DOMAIN speaker'[f].calls : speaker'[f].calls[j] = speaker[f].calls[i]
    <2>1. CASE f = e /\ i # 1
      <3>1. i \in 1..Len(asked) /\ i - 1 \in 1..(Len(asked) - 1)
        BY <1>2, <2>1
      <3>2. i - 1 \in DOMAIN speaker'[e].calls /\ speaker'[e].calls[i - 1] = asked[i]
        BY <1>2, <1>4, <3>1
      <3> QED
        BY <2>1, <3>2
    <2> QED
      BY <2>1, <1>2, <1>3
  <1>7. 1 \in DOMAIN asked
    BY <1>2
  <1>8. \A f \in Speakers : /\ speaker'[f].of = speaker[f].of /\ speaker'[f].volume = speaker[f].volume
                            /\ speaker'[f].muted = speaker[f].muted /\ speaker'[f].play = speaker[f].play
                            /\ f # e => speaker'[f] = speaker[f]
    BY <1>3, <1>4
  <1> QED
    BY <1>2, <1>4, <1>5, <1>6, <1>7, <1>8, <1>1, <1>3

\* Only the switch of the call may have nothing to wait for any more.
LEMMA OthersWait ==
  ASSUME AudioShape, NEW e \in Speakers, NEW snk \in Sinks, CallEnds(e, snk)
  PROVE  \A b : b # Head(speaker[e].calls).switch => Waiting(b, speaker') = Waiting(b, speaker)
  BY OneCallEnds DEF Waiting

\* What the end of a call keeps whatever becomes of its switch, which may be done or failed.
LEMMA EndKeeps ==
  ASSUME Hearing, NEW e \in Speakers, NEW snk \in Sinks, CallEnds(e, snk),
         NEW sw \in Seq(SwitchTypes), Len(sw) = Len(switches), switches' = sw,
         \A b \in DOMAIN switches : /\ sw[b].device = switches[b].device /\ sw[b].prev = switches[b].prev
                                    /\ sw[b].at # switches[b].at => sw[b].at \in {"done", "failed"}
                                    /\ b = Head(speaker[e].calls).switch /\ sw[b].at = "switching" => Waiting(b, speaker') # {},
         choice' \in Sinks, output' \in Outputs \union {Nameless},
         ~mix => choice' # Nameless /\ output' # Nameless,
         \A what \in {"clicked", "aborted", "shared"} : what \in doubt' <=> what \in doubt,
         UNCHANGED <<mix, plugged, people, playback>>
  PROVE  /\ AudioShape' /\ SwitchesAreCalled' /\ OnlyNamed' /\ Sounds'
         /\ DOMAIN switches' = DOMAIN switches
  <1>1. AudioShape /\ Sounds /\ SwitchesAreCalled /\ OnlyNamed
    BY DEF Hearing, Sounds
  <1>2. DOMAIN sw = DOMAIN switches
    BY <1>1, LenProperties DEF AudioShape
  <1> USE DEF people, playback
  <1>3. AudioShape'
    BY <1>1, OneCallEnds DEF AudioShape
  <1>4. SwitchesAreCalled'
    <2>1. ASSUME NEW f \in Speakers, NEW i \in DOMAIN speaker'[f].calls, speaker'[f].calls[i].switch # 0
          PROVE  LET k == speaker'[f].calls[i].switch IN
                 k \in DOMAIN sw /\ sw[k].device = speaker'[f].calls[i].device /\ sw[k].at # "normalizing"
      <3>1. PICK j \in DOMAIN speaker[f].calls : speaker'[f].calls[i] = speaker[f].calls[j]
        BY <1>1, OneCallEnds
      <3> DEFINE k == speaker[f].calls[j].switch
      <3> QED
        BY <3>1, <1>2, <1>1, <2>1 DEF SwitchesAreCalled, Called
    <2>2. ASSUME NEW b \in DOMAIN sw, sw[b].at = "switching" PROVE Waiting(b, speaker') # {}
      BY <1>2, <2>2, <1>1, OthersWait DEF SwitchesAreCalled, Called
    <2> QED
      BY <2>1, <2>2 DEF SwitchesAreCalled, Called
  <1>5. Sounds'
    BY <1>1, OneCallEnds, <1>3, SameSounds DEF HearsTheSame
  <1> QED
    BY <1>2, <1>3, <1>4, <1>5, <1>1 DEF OnlyNamed

\* The device of the call is there: its switch is done if it waits for no other.
LEMMA KeptBySinkSet ==
  ASSUME Hearing, NEW e \in Speakers, SinkIsSet(e), Head(speaker[e].calls).device \in ToSet(plugged) \union {"default", Nameless}
  PROVE  Hearing'
  <1> DEFINE call == Head(speaker[e].calls)
             k == call.switch
             Ends == k \in DOMAIN switches /\ switches[k].at = "switching" /\ Waiting(k, speaker') = {}
  <1>1. AudioShape /\ Sounds /\ SwitchesAreCalled /\ OnlyNamed /\ Routes
    BY DEF Hearing, Sounds, Routes
  <1>2. /\ speaker[e].calls # <<>> /\ speaker' = [speaker EXCEPT ![e].sink = call.device, ![e].calls = Tail(@)]
        /\ Settled(switches, speaker') /\ UNCHANGED <<choice, doubt, mix, devices, people, playback>>
    BY DEF SinkIsSet
  <1>3. CallEnds(e, call.device)
    BY <1>2 DEF CallEnds
  <1>4. speaker[e].calls \in Seq(SinkCalls)
    BY <1>1 DEF AudioShape, SpeakerTypes
  <1>5. call \in SinkCalls /\ call = speaker[e].calls[1] /\ 1 \in DOMAIN speaker[e].calls
    BY <1>2, <1>4, OneCallLess
  <1>6. call.device \in Outputs \union {Nameless} /\ call.device \in Sinks
    BY <1>5 DEF SinkCalls, Sinks
  <1>7. k # 0 => k \in DOMAIN switches /\ switches[k].device = call.device
    BY <1>1, <1>5 DEF SwitchesAreCalled, Called
  <1>8. /\ switches \in Seq(SwitchTypes) /\ Len(switches) \in Nat /\ DOMAIN switches = 1..Len(switches)
        /\ switches \in [1..Len(switches) -> SwitchTypes] /\ 0 \notin DOMAIN switches
    BY <1>1, LenProperties DEF AudioShape
  <1>9. switches' = [b \in DOMAIN switches |-> IF b = k /\ Ends THEN [switches[b] EXCEPT !.at = "done"] ELSE switches[b]]
    <2>1. \A b \in DOMAIN switches : (switches[b].at = "switching" /\ Waiting(b, speaker') = {}) <=> (b = k /\ Ends)
      BY <1>1, <1>3, <1>6, OthersWait DEF SwitchesAreCalled, Called
    <2> HIDE DEF Ends, k
    <2> QED
      BY <2>1, <1>2 DEF Settled
  <1>10. output' = IF Ends THEN call.device ELSE output
    <2> DEFINE done == {b \in DOMAIN switches : switches[b].at # switches'[b].at}
    <2>1. output' = IF done = {} THEN output ELSE switches[CHOOSE b \in done : TRUE].device
      BY <1>2 DEF Settled
    <2>2. CASE Ends
      <3>1. done = {k}
        BY <2>2, <1>8, <1>9 DEF SwitchTypes
      <3>2. switches[k].device = call.device
        BY <1>7, <1>8, <2>2
      <3> HIDE DEF done, k, call, Ends
      <3> QED
        BY <2>1, <2>2, <3>1, <3>2
    <2>3. CASE ~Ends
      <3>1. \A b \in DOMAIN switches : switches'[b] = switches[b]
        <4> HIDE DEF Ends
        <4> QED
          BY <1>9, <2>3
      <3>2. done = {}
        BY <3>1
      <3> HIDE DEF done, Ends
      <3> QED
        BY <2>1, <2>3, <3>2
    <2> QED
      BY <2>2, <2>3
  <1>11. /\ switches' \in Seq(SwitchTypes) /\ Len(switches') = Len(switches) /\ DOMAIN switches' = DOMAIN switches
         /\ \A b \in DOMAIN switches : /\ switches'[b].device = switches[b].device /\ switches'[b].prev = switches[b].prev
                                       /\ b # k \/ ~Ends => switches'[b].at = switches[b].at
                                       /\ b = k /\ Ends => switches'[b].at = "done"
    <2>1. ASSUME NEW b \in DOMAIN switches
          PROVE  /\ switches'[b] \in SwitchTypes /\ switches'[b].device = switches[b].device /\ switches'[b].prev = switches[b].prev
                 /\ b # k \/ ~Ends => switches'[b].at = switches[b].at
                 /\ b = k /\ Ends => switches'[b].at = "done"
      <3> HIDE DEF Ends, k
      <3> QED
        BY <1>8, <1>9 DEF SwitchTypes
    <2>2. switches' \in [1..Len(switches) -> SwitchTypes]
      BY <1>8, <1>9, <2>1
    <2>3. switches' \in Seq(SwitchTypes)
      BY <1>8, <2>2
    <2>4. Len(switches') = Len(switches) /\ DOMAIN switches' = DOMAIN switches
      BY <1>8, <2>2, <2>3, LenProperties
    <2> QED
      BY <2>1, <2>3, <2>4
  <1>12. output' \in Outputs \union {Nameless} /\ choice' \in Sinks /\ (~mix => choice' # Nameless /\ output' # Nameless)
    <2>1. ~mix /\ Ends => call.device # Nameless
      BY <1>1, <1>7, <1>8 DEF OnlyNamed
    <2> HIDE DEF Ends, call
    <2> QED
      BY <1>2, <1>6, <1>10, <2>1, <1>1 DEF AudioShape, OnlyNamed
  <1>13. AudioShape' /\ SwitchesAreCalled' /\ OnlyNamed' /\ Sounds'
    <2>1. \A b \in DOMAIN switches : /\ switches'[b].device = switches[b].device /\ switches'[b].prev = switches[b].prev
                                     /\ switches'[b].at # switches[b].at => switches'[b].at \in {"done", "failed"}
                                     /\ b = k /\ switches'[b].at = "switching" => Waiting(b, speaker') # {}
      <3>1. ASSUME NEW b \in DOMAIN switches, b = k, switches'[b].at = "switching" PROVE Waiting(b, speaker') # {}
        BY <1>11, <3>1
      <3> HIDE DEF Ends, k
      <3> QED
        BY <1>11, <3>1
    <2> HIDE DEF Ends
    <2> QED
      BY <1>3, <1>6, <1>11, <1>12, <2>1, EndKeeps, <1>2 DEF devices
  <1>14. ChoiceIsActive'
    <2> SUFFICES ASSUME ~mix, "overlap" \notin doubt PROVE ChoiceIsActive'
      BY <1>2 DEF ChoiceIsActive
    <2>1. /\ SwitchingNow = {} => choice = NotChosen \/ choice = output
          /\ \A c \in SwitchingNow : SwitchingNow = {c} /\ choice = switches[c].device /\ output = switches[c].prev
      BY <1>1 DEF Routes, ChoiceIsActive
    <2>2. CASE Ends
      <3>1. k \in SwitchingNow
        BY <2>2 DEF SwitchingNow
      <3>2. choice' = call.device /\ output' = call.device
        BY <1>2, <1>7, <1>8, <1>10, <2>1, <2>2, <3>1
      <3> QED
        BY <3>2, <1>11, <2>1, <2>2, <3>1 DEF ChoiceIsActive, SwitchingNow
    <2>3. CASE ~Ends
      <3>1. SwitchingNow' = SwitchingNow /\ output' = output
        BY <1>10, <1>11, <2>3 DEF SwitchingNow
      <3> QED
        BY <1>2, <1>11, <2>1, <3>1 DEF ChoiceIsActive, SwitchingNow
    <2> QED
      BY <2>2, <2>3
  <1>15. SinksFollow'
    <2>1. \A f \in Speakers : speaker'[f].of = speaker[f].of /\ (f # e => speaker'[f] = speaker[f])
      BY <1>1, <1>3, <1>6, OneCallEnds
    <2>2. speaker'[e].sink = call.device /\ speaker'[e].calls = Tail(speaker[e].calls)
      BY <1>1, <1>3, <1>6, OneCallEnds
    <2>3. LastSink(speaker'[e]) = LastSink(speaker[e])
      <3> DEFINE asked == speaker[e].calls
      <3>1. /\ Len(asked) \in Nat \ {0} /\ Len(Tail(asked)) = Len(asked) - 1 /\ Tail(asked) \in Seq(SinkCalls)
            /\ \A i \in 1..(Len(asked) - 1) : Tail(asked)[i] = asked[i + 1]
        <4> HIDE DEF asked
        <4> QED
          BY <1>2, <1>4, OneCallLess DEF asked
      <3>2. CASE Len(asked) = 1
        <4>1. Tail(asked) = <<>>
          <5>1. Len(Tail(asked)) = 0
            BY <3>1, <3>2
          <5> HIDE DEF asked
          <5> QED
            BY <3>1, <5>1, EmptySeq
        <4> QED
          BY <1>5, <2>2, <4>1, <1>2, <3>2 DEF LastSink
      <3>3. CASE Len(asked) # 1
        <4>1. Tail(asked) # <<>> /\ Len(asked) - 1 \in 1..(Len(asked) - 1)
          <5> HIDE DEF asked
          <5>1. Len(Tail(asked)) # 0 /\ Len(asked) - 1 \in 1..(Len(asked) - 1)
            BY <3>1, <3>3
          <5> QED
            BY <3>1, <5>1, EmptySeq
        <4>2. Tail(asked)[Len(asked) - 1] = asked[Len(asked)]
          BY <3>1, <4>1
        <4>3. LastSink(speaker'[e]) = Tail(asked)[Len(asked) - 1].device
          BY <2>2, <3>1, <4>1 DEF LastSink
        <4> QED
          BY <1>2, <4>2, <4>3 DEF LastSink
      <3> QED
        BY <3>2, <3>3
    <2>4. doubt' = doubt /\ choice' = choice /\ person' = person /\ sound' = sound
      BY <1>2 DEF people
    <2> HIDE DEF call, k, Ends
    <2> QED
      BY <1>1, <2>4, <2>1, <2>3 DEF Routes, SinksFollow, OutputOf, Attached
  <1> QED
    BY <1>13, <1>14, <1>15, <1>2, <1>10, <1>12, <1>1, <1>11
      DEF Hearing, Sounds, OutputIsReplaced, devices, Routes

\* The device of the call is not there: the switch goes back to the output from before it.
LEMMA KeptBySinkFails ==
  ASSUME Hearing, NEW e \in Speakers, SinkIsSet(e), Head(speaker[e].calls).device \notin ToSet(plugged) \union {"default", Nameless}
  PROVE  Hearing'
  <1> DEFINE call == Head(speaker[e].calls)
             k == call.switch
             Refused == k # 0 /\ switches[k].at = "switching"
             sw == IF Refused THEN [switches EXCEPT ![k].at = "failed"] ELSE switches
             snk == speaker[e].sink
  <1>1. AudioShape /\ Sounds /\ SwitchesAreCalled /\ OnlyNamed /\ Routes
    BY DEF Hearing, Sounds, Routes
  <1>2. /\ speaker[e].calls # <<>> /\ speaker' = [speaker EXCEPT ![e].calls = Tail(@)]
        /\ switches' = sw /\ choice' = (IF Refused THEN switches[k].prev ELSE choice)
        /\ UNCHANGED <<mix, devices, people, playback>> /\ output' = output /\ doubt' = doubt \union {"failed"}
    BY DEF SinkIsSet, SinkFails
  <1>3. call \in SinkCalls /\ call = speaker[e].calls[1] /\ 1 \in DOMAIN speaker[e].calls
    BY <1>2, OneCallLess, <1>1 DEF AudioShape, SpeakerTypes
  <1>4. CallEnds(e, snk) /\ snk \in Sinks
    BY <1>1, <1>2 DEF AudioShape, SpeakerTypes, CallEnds
  <1>5. k # 0 => k \in DOMAIN switches /\ switches[k].device = call.device
    BY <1>1, <1>3 DEF SwitchesAreCalled, Called
  <1>6. /\ switches \in Seq(SwitchTypes) /\ Len(switches) \in Nat /\ DOMAIN switches = 1..Len(switches)
        /\ switches \in [1..Len(switches) -> SwitchTypes] /\ 0 \notin DOMAIN switches
    BY <1>1, LenProperties DEF AudioShape
  <1>7. /\ sw \in Seq(SwitchTypes) /\ Len(sw) = Len(switches) /\ DOMAIN sw = DOMAIN switches
        /\ \A b \in DOMAIN switches : /\ sw[b].device = switches[b].device /\ sw[b].prev = switches[b].prev
                                      /\ b # k \/ ~Refused => sw[b].at = switches[b].at
                                      /\ b = k /\ Refused => sw[b].at = "failed"
    <2>1. ASSUME NEW b \in DOMAIN switches
          PROVE  /\ sw[b] \in SwitchTypes /\ sw[b].device = switches[b].device /\ sw[b].prev = switches[b].prev
                 /\ b # k \/ ~Refused => sw[b].at = switches[b].at
                 /\ b = k /\ Refused => sw[b].at = "failed"
      <3>1. CASE Refused
        <4>1. sw = [switches EXCEPT ![k].at = "failed"]
          BY <3>1
        <4> HIDE DEF Refused, sw, k
        <4> QED
          BY <1>6, <3>1, <4>1, <1>5 DEF SwitchTypes
      <3>2. CASE ~Refused
        <4>1. sw = switches
          BY <3>2
        <4> HIDE DEF Refused, sw, k
        <4> QED
          BY <1>6, <3>2, <4>1
      <3> QED
        BY <3>1, <3>2
    <2>2. sw \in [1..Len(switches) -> SwitchTypes]
      <3>1. sw = [b \in 1..Len(switches) |-> sw[b]]
        BY <1>6
      <3> HIDE DEF sw
      <3> QED
        BY <1>6, <2>1, <3>1
    <2> HIDE DEF sw, Refused, k
    <2> QED
      BY <2>1, <1>6, <2>2, LenProperties
  <1>8. Refused => k \in DOMAIN switches /\ switches[k].at = "switching" /\ switches[k].device = call.device
                 /\ switches[k].prev \in Outputs \union {Nameless} /\ (~mix => switches[k].prev # Nameless)
    <2>1. Refused => k \in DOMAIN switches /\ switches[k].at = "switching" /\ switches[k].device = call.device
      BY <1>5
    <2> HIDE DEF Refused, k, call
    <2> QED
      BY <2>1, <1>1, <1>6 DEF OnlyNamed, SwitchTypes
  <1>9. output' \in Outputs \union {Nameless} /\ choice' \in Sinks /\ (~mix => choice' # Nameless /\ output' # Nameless)
    <2> HIDE DEF Refused, k, call, sw
    <2> QED
      BY <1>2, <1>8, <1>1 DEF Sinks, AudioShape, OnlyNamed
  <1>10. AudioShape' /\ SwitchesAreCalled' /\ OnlyNamed' /\ Sounds' /\ DOMAIN switches' = DOMAIN switches
    <2>1. \A b \in DOMAIN switches : /\ sw[b].device = switches[b].device /\ sw[b].prev = switches[b].prev
                                     /\ sw[b].at # switches[b].at => sw[b].at \in {"done", "failed"}
                                     /\ b = Head(speaker[e].calls).switch /\ sw[b].at = "switching" => Waiting(b, speaker') # {}
      <3>1. ASSUME NEW b \in DOMAIN switches, b = k PROVE sw[b].at # "switching"
        BY <1>6, <3>1, <1>7
      <3> HIDE DEF sw, Refused
      <3> QED
        BY <1>7, <3>1
    <2>2. UNCHANGED <<mix, plugged, people, playback>>
      BY <1>2 DEF devices
    <2>3. \A what \in {"clicked", "aborted", "shared"} : what \in doubt' <=> what \in doubt
      BY <1>2
    <2>4. switches' = sw
      BY <1>2
    <2> HIDE DEF sw, Refused, k, call, snk
    <2> QED
      BY <1>4, <1>7, <1>9, <2>1, <2>2, <2>3, <2>4, EndKeeps
  <1>11. OutputIsReplaced'
    <2> SUFFICES ASSUME ~mix, plugged # <<>>, output \notin ToSet(plugged) \union {"default"}, handlers = <<>>
                 PROVE  \E b \in DOMAIN switches' : switches'[b].at = "switching" /\ switches'[b].device \in ToSet(plugged) \union {"default"}
      BY <1>2 DEF OutputIsReplaced, devices
    <2>1. PICK b \in DOMAIN switches : switches[b].at = "switching" /\ switches[b].device \in ToSet(plugged) \union {"default"}
      BY <1>1 DEF Routes, OutputIsReplaced
    <2>2. b # k \/ ~Refused
      <3> HIDE DEF Refused, k
      <3> QED
        BY <1>8, <2>1
    <2> HIDE DEF sw, Refused, k
    <2> QED
      BY <1>2, <1>7, <2>1, <2>2
  <1>12. ChoiceIsActive'
    <2> SUFFICES ASSUME ~mix, "overlap" \notin doubt PROVE ChoiceIsActive'
      BY <1>2 DEF ChoiceIsActive
    <2>1. /\ SwitchingNow = {} => choice = NotChosen \/ choice = output
          /\ \A c \in SwitchingNow : SwitchingNow = {c} /\ choice = switches[c].device /\ output = switches[c].prev
      BY <1>1 DEF Routes, ChoiceIsActive
    <2>2. CASE Refused
      <3> HIDE DEF sw, Refused, k
      <3>1. k \in SwitchingNow
        BY <1>8, <2>2 DEF SwitchingNow
      <3> QED
        BY <1>2, <1>7, <2>1, <2>2, <3>1 DEF ChoiceIsActive, SwitchingNow
    <2> QED
      BY <2>2, <1>2, <2>1 DEF SwitchingNow, ChoiceIsActive
  <1> QED
    BY <1>10, <1>11, <1>12, <1>2 DEF Hearing, Sounds, SinksFollow

\* A setSinkId ends, one way or the other.
LEMMA KeptBySinkIsSet ==
  ASSUME Hearing, NEW e \in Speakers, SinkIsSet(e)
  PROVE  Hearing'
  BY KeptBySinkSet, KeptBySinkFails

-----------------------------------------------------------------------------
(* Steps of playing, which leave the devices alone. *)

\* What leaves devices and switches alone has only to keep what is heard.
LEMMA KeptByPlaying ==
  ASSUME Hearing, RoutesTheSame, AudioShape', Sounds'
  PROVE  Hearing'
  BY SameRoutes DEF Hearing, Routes, Sounds

\* Elements stay as they are: only the room and the browser go on.
LEMMA SameElementsPlay ==
  ASSUME Hearing, UNCHANGED <<mix, devices, selected, people, speaker>>, doubt' = doubt,
         gesture' \in BOOLEAN, enabled' \in BOOLEAN, context' \in {"running", "suspended"},
         start' \in {"idle", "acquiring", "playing", "failed"}, PlayIsKnown'
  PROVE  Hearing'
  <1>1. Sounds'
    BY DEF Hearing, Sounds, VolumesFollow, VolumeIsAsSet, HeardOnce, Attached, On, people
  <1> QED
    BY <1>1, KeptByPlaying DEF RoutesTheSame, devices, selected, people, Hearing, AudioShape

\* The user does something.
LEMMA KeptByClick ==
  ASSUME Hearing, Click
  PROVE  Hearing'
  BY SameElementsPlay DEF Hearing, AudioShape, Click, PlayIsKnown

\* startAudio has its context, or has not.
LEMMA KeptByAcquireAudioContext ==
  ASSUME Hearing, NEW now \in {"running", "suspended"}, AcquireAudioContext(now)
  PROVE  Hearing'
  BY SameElementsPlay DEF AcquireAudioContext, Hearing, PlayIsKnown, AudioShape

\* startAudio is done: all elements play.
LEMMA KeptByAudioStarted ==
  ASSUME Hearing, AudioStarted
  PROVE  Hearing'
  BY SameElementsPlay DEF Hearing, AudioShape, AudioStarted, PlayIsKnown

\* The context runs at last.
LEMMA KeptByContextRuns ==
  ASSUME Hearing, ContextRuns
  PROVE  Hearing'
  BY SameElementsPlay DEF Hearing, AudioShape, ContextRuns, PlayIsKnown

\* An element comes to another state of playing, unmuted at most.
PlaysOn(f, g) ==
  /\ \A e \in Speakers : speaker'[e] = [speaker[e] EXCEPT !.muted = f[e], !.play = g[e]]
  /\ speaker' = [e \in Speakers |-> speaker'[e]]
  /\ \A e \in Speakers : f[e] = (speaker[e].muted /\ (mix \/ f[e]))
  /\ UNCHANGED <<mix, devices, selected, people>>
  /\ \A what \in {"overlap", "failed", "shared"} : what \in doubt' <=> what \in doubt

\* Other states of playing leave devices, volumes and wiring as they are.
LEMMA ElementsPlay ==
  ASSUME Hearing, NEW f \in [Speakers -> BOOLEAN],
         NEW g \in [Speakers -> {"none", "trying", "blocked", "starting", "playing"}], PlaysOn(f, g),
         gesture' \in BOOLEAN, enabled' \in BOOLEAN, context' \in {"running", "suspended"},
         start' \in {"idle", "acquiring", "playing", "failed"}, PlayIsKnown'
  PROVE  Hearing'
  <1>1. ASSUME NEW e \in Speakers
        PROVE  /\ speaker'[e].of = speaker[e].of /\ speaker'[e].sink = speaker[e].sink /\ speaker'[e].calls = speaker[e].calls
               /\ speaker'[e].volume = speaker[e].volume /\ speaker'[e] \in SpeakerTypes
               /\ mix => speaker'[e].muted = speaker[e].muted
    <2>1. speaker[e] \in SpeakerTypes /\ f[e] \in BOOLEAN /\ g[e] \in {"none", "trying", "blocked", "starting", "playing"}
      BY DEF Hearing, AudioShape
    <2>2. speaker'[e] = [speaker[e] EXCEPT !.muted = f[e], !.play = g[e]]
      BY DEF PlaysOn
    <2>3. mix => f[e] = speaker[e].muted
      BY <2>1 DEF PlaysOn, SpeakerTypes
    <2> QED
      BY <2>1, <2>2, <2>3 DEF SpeakerTypes
  <1>2. UNCHANGED <<mix, devices, selected, people>>
    BY DEF PlaysOn
  <1>3. VolumesFollow'
    BY <1>2 DEF Hearing, VolumesFollow, people
  <1>4. VolumeIsAsSet' /\ HeardOnce'
    <2>1. Attached(speaker') = Attached(speaker) /\ \A p \in People : On(p, speaker') = On(p, speaker)
      BY <1>1 DEF Attached, On
    <2>2. HeardOnce'
      <3> SUFFICES ASSUME mix, "shared" \notin doubt', NEW p \in People
                   PROVE  /\ sound'[p].wired = (On(p, speaker') # {})
                          /\ \A e \in On(p, speaker') : speaker'[e].muted /\ speaker'[e].volume = 0
        BY <1>2 DEF HeardOnce
      <3>1. /\ sound[p].wired = (On(p, speaker) # {})
            /\ \A e \in On(p, speaker) : speaker[e].muted /\ speaker[e].volume = 0
        BY DEF Hearing, HeardOnce, PlaysOn
      <3>2. sound'[p].wired = sound[p].wired /\ On(p, speaker') = On(p, speaker)
        BY <1>2, <2>1 DEF people
      <3> QED
        BY <3>1, <3>2, <1>1 DEF On
    <2> QED
      BY <2>2, <1>1, <1>2, <2>1 DEF Hearing, VolumeIsAsSet, Attached, people
  <1> QED
    BY <1>3, <1>4, KeptByPlaying, <1>1, <1>2
      DEF Sounds, RoutesTheSame, devices, selected, people, PlaysOn, Hearing, AudioShape

\* What one element that comes to play is.
LEMMA OnePlays ==
  ASSUME AudioShape, NEW e \in Speakers, speaker' = [speaker EXCEPT ![e].play = "playing"]
  PROVE  /\ \A h \in Speakers : speaker'[h].of = speaker[h].of /\ speaker'[h].play = IF h = e THEN "playing" ELSE speaker[h].play
         /\ \A h \in Speakers : speaker'[h] = [speaker[h] EXCEPT !.muted = speaker[h].muted, !.play = IF h = e THEN "playing" ELSE speaker[h].play]
         /\ [h \in Speakers |-> speaker[h].muted] \in [Speakers -> BOOLEAN]
         /\ [h \in Speakers |-> IF h = e THEN "playing" ELSE speaker[h].play]
              \in [Speakers -> {"none", "trying", "blocked", "starting", "playing"}]
         /\ speaker' = [h \in Speakers |-> speaker'[h]]
  BY DEF AudioShape, SpeakerTypes

\* An element plays that the browser has let.
LEMMA KeptByPlays ==
  ASSUME Hearing, NEW e \in Speakers, Plays(e)
  PROVE  Hearing'
  <1> DEFINE f == [h \in Speakers |-> speaker[h].muted]
             g == [h \in Speakers |-> IF h = e THEN "playing" ELSE speaker[h].play]
  <1>1. AudioShape /\ PlayIsKnown
    BY DEF Hearing
  <1>2. /\ speaker' = [speaker EXCEPT ![e].play = "playing"] /\ speaker[e].play = "trying" /\ enabled' = TRUE
        /\ UNCHANGED <<turns, mix, devices, selected, people, gesture, context, start>>
        /\ doubt' = IF \E h \in Speakers : speaker[h].play = "blocked" THEN doubt \union {"clicked"} ELSE doubt
    BY DEF Plays
  <1>3. /\ \A h \in Speakers : speaker'[h].of = speaker[h].of /\ speaker'[h].play = IF h = e THEN "playing" ELSE speaker[h].play
        /\ \A h \in Speakers : speaker'[h] = [speaker[h] EXCEPT !.muted = f[h], !.play = g[h]]
        /\ f \in [Speakers -> BOOLEAN] /\ g \in [Speakers -> {"none", "trying", "blocked", "starting", "playing"}]
        /\ speaker' = [h \in Speakers |-> speaker'[h]]
    BY <1>1, <1>2, OnePlays
  <1>4. \A h \in Speakers : f[h] = (speaker[h].muted /\ (mix \/ f[h]))
    BY <1>1 DEF AudioShape, SpeakerTypes
  <1> HIDE DEF f, g
  <1>5. PlaysOn(f, g)
    BY <1>2, <1>3, <1>4 DEF PlaysOn
  <1>6. PlayIsKnown'
    <2>1. \A h \in Speakers : speaker'[h].of = speaker[h].of /\ (h = e => speaker'[h].play = "playing")
                              /\ (h # e => speaker'[h].play = speaker[h].play)
      BY <1>3
    <2>2. \A h \in Speakers : speaker'[h].of = Free <=> speaker'[h].play = "none"
      BY <1>1, <1>2, <2>1 DEF PlayIsKnown
    <2>3. start' = "failed" => "aborted" \in doubt'
      BY <1>1, <1>2 DEF PlayIsKnown
    <2>4. ASSUME doubt' \intersect {"clicked", "aborted"} = {}
          PROVE  /\ \A h \in Speakers : speaker'[h].play = "blocked" => ~enabled' /\ start' = "idle"
                 /\ \A h \in Speakers : speaker'[h].play = "starting" => start' \in {"acquiring", "playing"}
                 /\ \A h \in Speakers : speaker'[h].play = "playing" /\ start' = "idle" => enabled'
      BY <1>2, <2>4, <1>1, <2>1 DEF PlayIsKnown
    <2> QED
      BY <1>2, <2>2, <2>3, <2>4, <1>1 DEF PlayIsKnown
  <1> QED
    BY <1>3, <1>5, <1>6, ElementsPlay, <1>1, <1>2 DEF AudioShape

\* An element plays that startAudio has started.
LEMMA KeptByElementStarts ==
  ASSUME Hearing, NEW e \in Speakers, ElementStarts(e)
  PROVE  Hearing'
  <1> DEFINE f == [h \in Speakers |-> speaker[h].muted]
             g == [h \in Speakers |-> IF h = e THEN "playing" ELSE speaker[h].play]
  <1>1. AudioShape /\ PlayIsKnown
    BY DEF Hearing
  <1>2. /\ speaker' = [speaker EXCEPT ![e].play = "playing"] /\ speaker[e].play = "starting"
        /\ UNCHANGED <<turns, mix, devices, selected, people, gesture, enabled, context, start, doubt>>
    BY DEF ElementStarts, playback
  <1>3. /\ \A h \in Speakers : speaker'[h].of = speaker[h].of /\ speaker'[h].play = IF h = e THEN "playing" ELSE speaker[h].play
        /\ \A h \in Speakers : speaker'[h] = [speaker[h] EXCEPT !.muted = f[h], !.play = g[h]]
        /\ f \in [Speakers -> BOOLEAN] /\ g \in [Speakers -> {"none", "trying", "blocked", "starting", "playing"}]
        /\ speaker' = [h \in Speakers |-> speaker'[h]]
    BY <1>1, <1>2, OnePlays
  <1>4. \A h \in Speakers : f[h] = (speaker[h].muted /\ (mix \/ f[h]))
    BY <1>1 DEF AudioShape, SpeakerTypes
  <1> HIDE DEF f, g
  <1>5. PlaysOn(f, g)
    BY <1>2, <1>3, <1>4 DEF PlaysOn
  <1>6. PlayIsKnown'
    <2>1. \A h \in Speakers : speaker'[h].of = speaker[h].of /\ (h = e => speaker'[h].play = "playing")
                              /\ (h # e => speaker'[h].play = speaker[h].play)
      BY <1>3
    <2>2. \A h \in Speakers : speaker'[h].of = Free <=> speaker'[h].play = "none"
      BY <1>1, <1>2, <2>1 DEF PlayIsKnown
    <2>3. ASSUME doubt' \intersect {"clicked", "aborted"} = {}
          PROVE  /\ \A h \in Speakers : speaker'[h].play = "blocked" => ~enabled' /\ start' = "idle"
                 /\ \A h \in Speakers : speaker'[h].play = "starting" => start' \in {"acquiring", "playing"}
                 /\ \A h \in Speakers : speaker'[h].play = "playing" /\ start' = "idle" => enabled'
      BY <1>1, <1>2, <2>1, <2>3 DEF PlayIsKnown
    <2> QED
      BY <1>1, <1>2, <2>2, <2>3 DEF PlayIsKnown
  <1> QED
    BY <1>3, <1>5, <1>6, ElementsPlay, <1>1, <1>2 DEF AudioShape

\* startAudio starts all elements.
LEMMA KeptByStartAudio ==
  ASSUME Hearing, StartAudio
  PROVE  Hearing'
  <1> DEFINE f == [h \in Speakers |-> IF speaker[h].of = Free THEN speaker[h].muted ELSE speaker[h].muted /\ mix]
             g == [h \in Speakers |-> IF speaker[h].of = Free THEN speaker[h].play ELSE "starting"]
  <1>1. AudioShape /\ PlayIsKnown /\ mix \in BOOLEAN
    BY DEF Hearing, AudioShape
  <1>2. /\ speaker' = [e \in Speakers |-> IF speaker[e].of = Free THEN speaker[e] ELSE Started(e)]
        /\ start = "idle" /\ gesture' = TRUE /\ start' = "acquiring"
        /\ UNCHANGED <<mix, devices, selected, people, enabled, context, doubt>>
    BY DEF StartAudio
  <1>3. ASSUME NEW h \in Speakers
        PROVE  /\ speaker'[h] = [speaker[h] EXCEPT !.muted = f[h], !.play = g[h]]
               /\ f[h] \in BOOLEAN /\ g[h] \in {"none", "trying", "blocked", "starting", "playing"}
               /\ f[h] = (speaker[h].muted /\ (mix \/ f[h]))
               /\ speaker'[h].of = speaker[h].of
               /\ speaker'[h].play = IF speaker[h].of = Free THEN speaker[h].play ELSE "starting"
    <2>1. speaker[h] \in SpeakerTypes
      BY <1>1 DEF AudioShape
    <2>2. CASE speaker[h].of = Free
      <3>1. speaker'[h] = speaker[h] /\ f[h] = speaker[h].muted /\ g[h] = speaker[h].play
        BY <1>2, <2>2
      <3> HIDE DEF f, g
      <3> QED
        BY <2>1, <2>2, <3>1 DEF SpeakerTypes
    <2>3. CASE speaker[h].of # Free
      <3>1. speaker'[h] = [speaker[h] EXCEPT !.muted = @ /\ mix, !.play = "starting"]
            /\ f[h] = (speaker[h].muted /\ mix) /\ g[h] = "starting"
        BY <1>2, <2>3 DEF Started
      <3> HIDE DEF f, g
      <3> QED
        BY <1>1, <2>1, <2>3, <3>1 DEF SpeakerTypes
    <2> QED
      BY <2>2, <2>3
  <1>4. f \in [Speakers -> BOOLEAN] /\ g \in [Speakers -> {"none", "trying", "blocked", "starting", "playing"}]
    BY <1>3
  <1> HIDE DEF f, g
  <1>5. PlaysOn(f, g)
    BY <1>2, <1>3 DEF PlaysOn
  <1>6. PlayIsKnown'
    <2>1. \A h \in Speakers : speaker'[h].of = Free <=> speaker'[h].play = "none"
      <3>1. ASSUME NEW h \in Speakers PROVE speaker[h].of = Free <=> speaker[h].play = "none"
        BY <1>1, <3>1 DEF PlayIsKnown
      <3>2. ASSUME NEW h \in Speakers
            PROVE  /\ speaker[h].of = Free => speaker'[h].play = speaker[h].play
                   /\ speaker[h].of # Free => speaker'[h].play = "starting"
        BY <1>3
      <3> QED
        BY <1>3, <3>1, <3>2
    <2> QED
      BY <1>2, <2>1, <1>1, <1>3 DEF PlayIsKnown
  <1>7. gesture' \in BOOLEAN /\ enabled' \in BOOLEAN /\ context' \in {"running", "suspended"}
        /\ start' \in {"idle", "acquiring", "playing", "failed"}
    BY <1>1, <1>2 DEF AudioShape
  <1> QED
    BY <1>4, <1>5, <1>6, <1>7, ElementsPlay

-----------------------------------------------------------------------------
(* People, their tracks and elements come and go. *)

\* Devices and switches are as they were.
LEMMA SameChoices ==
  ASSUME Hearing, UNCHANGED <<mix, devices, selected>>,
         \A what \in {"overlap"} : what \in doubt' <=> what \in doubt
  PROVE  OnlyNamed' /\ OutputIsReplaced' /\ ChoiceIsActive'
  BY DEF devices, selected, SwitchingNow, Hearing, OnlyNamed, OutputIsReplaced, ChoiceIsActive

\* Somebody joins, without a track and at no volume in particular.
LEMMA KeptByPersonJoins ==
  ASSUME Hearing, NEW p \in People, PersonJoins(p)
  PROVE  Hearing'
  <1> DEFINE new == [Absent EXCEPT !.there = TRUE, !.output = IF choice = NotChosen THEN NotChosen ELSE "options"]
  <1>1. /\ ~person[p].there /\ person' = [person EXCEPT ![p] = new]
        /\ UNCHANGED <<mix, devices, selected, sound, speaker, playback, doubt>>
    BY DEF PersonJoins
  <1>2. AudioShape /\ person \in [People -> PersonTypes]
    BY DEF Hearing, AudioShape
  <1>3. new \in PersonTypes /\ new.output = (IF choice = NotChosen THEN NotChosen ELSE "options") /\ new.volume = 0
    BY DEF Absent, PersonTypes, Sinks
  <1> HIDE DEF new
  <1>4. person'[p] = new /\ \A q \in People : q # p => person'[q] = person[q]
    BY <1>1, <1>2
  <1>5. ~sound[p].there /\ \A e \in Speakers : speaker[e].of # p
    BY <1>1, <1>2, AudioAssumption DEF AudioShape
  <1>6. OnlyNamed' /\ OutputIsReplaced' /\ ChoiceIsActive'
    BY <1>1, SameChoices
  <1>7. SinksFollow'
    BY <1>1, <1>3, <1>4 DEF SinksFollow, selected, OutputOf, Hearing
  <1>8. VolumesFollow'
    BY <1>1, <1>4, <1>5 DEF Hearing, VolumesFollow
  <1>9. VolumeIsAsSet'
    BY <1>2, <1>5, <1>1, <1>4 DEF Attached, AudioShape, SpeakerTypes, Hearing, VolumeIsAsSet
  <1> QED
    BY <1>6, <1>7, <1>8, <1>9, <1>1, <1>2, <1>3, <1>4, <1>5
      DEF Hearing, SwitchesAreCalled, PlayIsKnown, HeardOnce, selected, playback, AudioShape, devices

\* A track arrives: it takes the device and the volume of its participant.
LEMMA KeptBySoundArrives ==
  ASSUME Hearing, NEW p \in People, SoundArrives(p)
  PROVE  Hearing'
  <1> DEFINE new == [NoSound EXCEPT !.there = TRUE, !.sink = OutputOf(p), !.volume = person[p].volume]
  <1>1. /\ person[p].there /\ ~sound[p].there /\ sound' = [sound EXCEPT ![p] = new]
        /\ UNCHANGED <<mix, devices, selected, person, speaker, playback, doubt>>
    BY DEF SoundArrives
  <1>2. AudioShape /\ sound \in [People -> SoundTypes]
    BY DEF Hearing, AudioShape
  <1>3. new \in SoundTypes /\ new.sink = OutputOf(p) /\ new.volume = person[p].volume /\ new.wired = FALSE
    BY <1>2 DEF AudioShape, OutputOf, PersonTypes, NoSound, SoundTypes, Sinks
  <1> HIDE DEF new
  <1>4. sound'[p] = new /\ \A q \in People : q # p => sound'[q] = sound[q]
    BY <1>1, <1>2
  <1>5. \A e \in Speakers : speaker[e].of # p
    BY AudioAssumption, <1>1, <1>2 DEF AudioShape
  <1>6. AudioShape'
    <2>1. \A e \in Speakers : speaker'[e].of # Free => sound'[speaker'[e].of].there
      BY <1>2, <1>5, <1>4, <1>1 DEF AudioShape, SpeakerTypes
    <2> QED
      BY <1>1, <1>2, <2>1, <1>3, <1>4 DEF AudioShape, devices, selected, playback
  <1>7. SinksFollow'
    BY <1>1, <1>3, <1>4 DEF SinksFollow, selected, Hearing, OutputOf
  <1>8. VolumesFollow'
    BY <1>1, <1>3, <1>4 DEF Hearing, VolumesFollow
  <1>9. HeardOnce'
    <2> SUFFICES ASSUME mix, "shared" \notin doubt, NEW q \in People
                 PROVE  /\ sound'[q].wired = (On(q, speaker) # {})
                        /\ \A e \in On(q, speaker) : speaker[e].muted /\ speaker[e].volume = 0
      BY <1>1 DEF HeardOnce
    <2>1. CASE q = p
      BY <1>3, <1>4, <1>5, <2>1 DEF On
    <2>2. CASE q # p
      BY <1>4, <2>2 DEF Hearing, HeardOnce
    <2> QED
      BY <2>1, <2>2
  <1> QED
    BY <1>6, <1>7, <1>8, <1>9, <1>1, SameChoices
      DEF Hearing, SwitchesAreCalled, PlayIsKnown, VolumeIsAsSet, selected, playback

\* The volume of somebody is set, with that of track and elements.
LEMMA KeptBySetVolume ==
  ASSUME Hearing, NEW p \in People, NEW v \in Nat, SetVolume(p, v)
  PROVE  Hearing'
  <1>1. /\ person' = [person EXCEPT ![p].volume = v] /\ person[p].there
        /\ sound' = [sound EXCEPT ![p].volume = IF sound[p].there THEN v ELSE @]
        /\ speaker' = [e \in Speakers |-> IF speaker[e].of = p /\ ~mix THEN [speaker[e] EXCEPT !.volume = v] ELSE speaker[e]]
        /\ UNCHANGED <<mix, devices, selected, playback, doubt>>
    BY DEF SetVolume
  <1>2. AudioShape /\ person \in [People -> PersonTypes] /\ sound \in [People -> SoundTypes] /\ speaker \in [Speakers -> SpeakerTypes]
    BY DEF Hearing, AudioShape
  <1>3. ASSUME NEW q \in People
        PROVE  /\ person'[q].there = person[q].there /\ person'[q].output = person[q].output
               /\ person'[q].volume = (IF q = p THEN v ELSE person[q].volume) /\ person'[q] \in PersonTypes
               /\ sound'[q].there = sound[q].there /\ sound'[q].sink = sound[q].sink /\ sound'[q].wired = sound[q].wired
               /\ sound'[q].volume = (IF q = p /\ sound[q].there THEN v ELSE sound[q].volume) /\ sound'[q] \in SoundTypes
    BY <1>1, <1>2 DEF PersonTypes, SoundTypes
  <1>4. ASSUME NEW e \in Speakers
        PROVE  /\ speaker'[e].of = speaker[e].of /\ speaker'[e].sink = speaker[e].sink /\ speaker'[e].calls = speaker[e].calls
               /\ speaker'[e].muted = speaker[e].muted /\ speaker'[e].play = speaker[e].play
               /\ speaker'[e].volume = (IF speaker[e].of = p /\ ~mix THEN v ELSE speaker[e].volume) /\ speaker'[e] \in SpeakerTypes
    BY <1>1, <1>2 DEF SpeakerTypes
  <1>5. AudioShape'
    <2>1. \A q \in People : sound'[q].there => person'[q].there
      BY <1>2, <1>3 DEF AudioShape
    <2>2. \A e \in Speakers : speaker'[e].of # Free => sound'[speaker'[e].of].there
      <3>1. \A e \in Speakers : speaker[e].of # Free => speaker[e].of \in People /\ sound[speaker[e].of].there
        BY <1>2 DEF AudioShape, SpeakerTypes
      <3> QED
        BY <1>3, <1>4, <3>1
    <2> QED
      BY <1>1, <1>2, <2>1, <2>2, <1>3, <1>4 DEF AudioShape, devices, selected, playback
  <1>6. PlayIsKnown'
    BY <1>1, <1>4 DEF Hearing, PlayIsKnown, playback
  <1>7. Attached(speaker') = Attached(speaker) /\ \A q \in People : On(q, speaker') = On(q, speaker)
    BY <1>4 DEF Attached, On
  <1>8. VolumeIsAsSet'
    BY <1>1, <1>4, <1>7, <1>2, <1>3 DEF VolumeIsAsSet, Attached, SpeakerTypes, Hearing
  <1>9. HeardOnce'
    <2> SUFFICES ASSUME mix, "shared" \notin doubt, NEW q \in People
                 PROVE  /\ sound'[q].wired = (On(q, speaker) # {})
                        /\ \A e \in On(q, speaker) : speaker'[e].muted /\ speaker'[e].volume = 0
      BY <1>1, <1>7 DEF HeardOnce
    <2>1. \A e \in On(q, speaker) : speaker'[e].muted = speaker[e].muted /\ speaker'[e].volume = speaker[e].volume
      BY <1>4 DEF On
    <2>2. sound'[q].wired = sound[q].wired
      BY <1>3
    <2> QED
      BY <2>1, <2>2 DEF Hearing, HeardOnce
  <1> QED
    BY <1>5, <1>6, <1>8, <1>9, KeptByPlaying, <1>1, <1>3, <1>4
      DEF Sounds, RoutesTheSame, devices, selected, Hearing, VolumesFollow

\* What is left of the elements S.
LEMMA WhatIsDetached ==
  ASSUME Hearing, NEW S \in SUBSET Speakers, Detached(S)
  PROVE  /\ \A e \in Speakers : /\ speaker'[e].sink = speaker[e].sink /\ speaker'[e].calls = speaker[e].calls
                                /\ speaker'[e].volume = speaker[e].volume /\ speaker'[e].muted = speaker[e].muted
                                /\ e \in S => speaker'[e].of = Free /\ speaker'[e].play = "none"
                                /\ e \notin S => speaker'[e] = speaker[e]
         /\ speaker' \in [Speakers -> SpeakerTypes]
         /\ start' \in {"idle", "acquiring", "playing", "failed"} /\ enabled' \in BOOLEAN
         /\ gesture' = gesture /\ context' = context
         /\ PlayIsKnown'
         /\ \A what \in {"overlap", "failed", "shared"} : what \in doubt' <=> what \in doubt
  <1> DEFINE aborts == \E e \in S : speaker[e].play = "starting"
  <1>1. /\ speaker' = [e \in Speakers |-> IF e \in S THEN [speaker[e] EXCEPT !.of = Free, !.play = "none"] ELSE speaker[e]]
        /\ start' = IF ~aborts THEN start ELSE IF start = "acquiring" THEN "failed" ELSE "idle"
        /\ enabled' = (enabled /\ ~aborts)
        /\ doubt' = IF aborts THEN doubt \union {"aborted"} ELSE doubt
        /\ UNCHANGED <<gesture, context>>
    BY DEF Detached
  <1>2. AudioShape /\ PlayIsKnown
    BY DEF Hearing
  <1>3. ASSUME NEW e \in Speakers
        PROVE  /\ speaker'[e].sink = speaker[e].sink /\ speaker'[e].calls = speaker[e].calls
               /\ speaker'[e].volume = speaker[e].volume /\ speaker'[e].muted = speaker[e].muted
               /\ e \in S => speaker'[e].of = Free /\ speaker'[e].play = "none"
               /\ e \notin S => speaker'[e] = speaker[e]
               /\ speaker'[e] \in SpeakerTypes
    BY <1>2, <1>1 DEF AudioShape, SpeakerTypes
  <1>4. aborts \in BOOLEAN /\ (aborts => gesture)
    BY <1>2 DEF PlayIsKnown
  <1> HIDE DEF aborts
  <1>5. start' \in {"idle", "acquiring", "playing", "failed"} /\ enabled' \in BOOLEAN
    BY <1>1, <1>2, <1>4 DEF AudioShape
  <1>6. \A what \in {"overlap", "failed", "shared"} : what \in doubt' <=> what \in doubt
    BY <1>1
  <1>7. PlayIsKnown'
    <2>1. ~gesture => start' = "idle" /\ \A e \in Speakers : speaker'[e].play \in {"none", "blocked"}
      BY <1>2, <1>4, <1>3, <1>1 DEF PlayIsKnown
    <2>2. ASSUME doubt' \intersect {"clicked", "aborted"} = {}
          PROVE  /\ \A e \in Speakers : speaker'[e].play = "blocked" => ~enabled' /\ start' = "idle"
                 /\ \A e \in Speakers : speaker'[e].play = "starting" => start' \in {"acquiring", "playing"}
                 /\ \A e \in Speakers : speaker'[e].play = "playing" /\ start' = "idle" => enabled'
      BY <1>1, <1>2, <1>4, <2>2, <1>3 DEF AudioShape, PlayIsKnown
    <2> QED
      BY <1>1, <2>1, <2>2, <1>2, <1>3 DEF PlayIsKnown
  <1> QED
    BY <1>1, <1>3, <1>5, <1>6, <1>7

\* Elements lose their track, which may go too, with its participant.
LEMMA DetachedKeeps ==
  ASSUME Hearing, NEW S \in SUBSET Speakers, Detached(S), UNCHANGED <<mix, devices, selected>>,
         person' \in [People -> PersonTypes], sound' \in [People -> SoundTypes],
         \A q \in People : person'[q].there => person'[q] = person[q],
         \A q \in People : sound'[q].there => person'[q].there /\ sound[q].there /\ sound'[q].sink = sound[q].sink
                                                /\ sound'[q].volume = sound[q].volume,
         \A e \in Speakers \ S : speaker[e].of # Free => sound'[speaker[e].of].there,
         mix /\ "shared" \notin doubt => \A q \in People : sound'[q].wired = IF On(q, speaker) \ S = {} THEN FALSE ELSE sound[q].wired
  PROVE  Hearing'
  <1>1. AudioShape
    BY DEF Hearing
  <1>2. /\ \A e \in Speakers : /\ speaker'[e].sink = speaker[e].sink /\ speaker'[e].calls = speaker[e].calls
                               /\ speaker'[e].volume = speaker[e].volume /\ speaker'[e].muted = speaker[e].muted
                               /\ e \in S => speaker'[e].of = Free /\ speaker'[e].play = "none"
                               /\ e \notin S => speaker'[e] = speaker[e]
        /\ speaker' \in [Speakers -> SpeakerTypes]
        /\ start' \in {"idle", "acquiring", "playing", "failed"} /\ enabled' \in BOOLEAN
        /\ gesture' = gesture /\ context' = context /\ PlayIsKnown'
        /\ \A what \in {"overlap", "failed", "shared"} : what \in doubt' <=> what \in doubt
    BY WhatIsDetached
  <1>3. SwitchesAreCalled'
    BY <1>2 DEF Waiting, Hearing, SwitchesAreCalled, Called, selected
  <1>4. OnlyNamed' /\ OutputIsReplaced' /\ ChoiceIsActive'
    BY <1>2, SameChoices
  <1>5. \A e \in Attached(speaker') : e \in Attached(speaker) /\ e \notin S /\ e \in Speakers /\ speaker'[e] = speaker[e]
                                      /\ speaker[e].of \in People
    BY <1>1, <1>2 DEF Attached, AudioShape, SpeakerTypes
  <1>6. SinksFollow'
    BY <1>2, <1>5 DEF SinksFollow, selected, Hearing, OutputOf
  <1>7. VolumesFollow'
    BY DEF Hearing, VolumesFollow
  <1>8. VolumeIsAsSet'
    BY <1>5 DEF VolumeIsAsSet, Attached, Hearing
  <1>9. HeardOnce'
    <2> SUFFICES ASSUME mix, "shared" \notin doubt, NEW q \in People
                 PROVE  /\ sound'[q].wired = (On(q, speaker') # {})
                        /\ \A e \in On(q, speaker') : speaker'[e].muted /\ speaker'[e].volume = 0
      BY <1>2 DEF HeardOnce
    <2>1. On(q, speaker') = On(q, speaker) \ S
      BY <1>2, AudioAssumption DEF On
    <2>2. /\ sound[q].wired = (On(q, speaker) # {})
          /\ \A e \in On(q, speaker) : speaker[e].muted /\ speaker[e].volume = 0
      BY DEF Hearing, HeardOnce
    <2>3. sound'[q].wired = (On(q, speaker') # {})
      BY <2>1, <2>2
    <2> QED
      BY <2>3, <1>2, <2>1, <2>2 DEF On
  <1> QED
    BY <1>2, <1>3, <1>4, <1>6, <1>7, <1>8, <1>9, <1>1 DEF Hearing, AudioShape, devices, selected

\* The values of what is not there have their types.
LEMMA NothingHasItsType ==
  Absent \in PersonTypes /\ NoSound \in SoundTypes /\ ~Absent.there /\ ~NoSound.there /\ NoSound.wired = FALSE
  BY DEF Absent, NoSound, PersonTypes, SoundTypes, Sinks

\* A track ends, and its elements are free.
LEMMA KeptBySoundEnds ==
  ASSUME Hearing, NEW p \in People, SoundEnds(p)
  PROVE  Hearing'
  <1> DEFINE S == On(p, speaker)
  <1>1. AudioShape /\ S \in SUBSET Speakers /\ p # Free /\ mix \in BOOLEAN
    BY AudioAssumption DEF Hearing, AudioShape, On
  <1>2. sound' = [sound EXCEPT ![p] = NoSound] /\ Detached(S) /\ UNCHANGED <<mix, devices, selected, person>>
    BY DEF SoundEnds
  <1>3. sound'[p] = NoSound /\ \A q \in People : q # p => sound'[q] = sound[q]
    BY <1>1, <1>2 DEF AudioShape
  <1>4. \A e \in Speakers \ S : speaker[e].of # Free => sound'[speaker[e].of].there
    BY <1>1, <1>3 DEF AudioShape, SpeakerTypes, On
  <1>5. mix /\ "shared" \notin doubt => \A q \in People : sound'[q].wired = IF On(q, speaker) \ S = {} THEN FALSE ELSE sound[q].wired
    <2>1. ASSUME mix, "shared" \notin doubt, NEW q \in People
          PROVE  sound'[q].wired = IF On(q, speaker) \ S = {} THEN FALSE ELSE sound[q].wired
      <3>1. CASE q # p
        <4>1. On(q, speaker) \ S = On(q, speaker) /\ sound'[q] = sound[q]
          BY <1>3, <3>1 DEF On
        <4>2. sound[q].wired = (On(q, speaker) # {})
          BY <2>1 DEF Hearing, HeardOnce
        <4> QED
          BY <4>1, <4>2
      <3> QED
        BY <3>1, <1>3, NothingHasItsType DEF SoundTypes
    <2> QED
      BY <2>1
  <1> QED
    BY <1>1, <1>2, <1>4, <1>5, DetachedKeeps, NothingHasItsType, <1>3 DEF AudioShape

\* Somebody leaves, and so does the track.
LEMMA KeptByPersonLeaves ==
  ASSUME Hearing, NEW p \in People, PersonLeaves(p)
  PROVE  Hearing'
  <1> DEFINE S == On(p, speaker)
  <1>1. AudioShape /\ S \in SUBSET Speakers /\ p # Free
    BY AudioAssumption DEF Hearing, AudioShape, On
  <1>2. /\ person' = [person EXCEPT ![p] = Absent] /\ sound' = [sound EXCEPT ![p] = NoSound]
        /\ Detached(S) /\ UNCHANGED <<mix, devices, selected>>
    BY DEF PersonLeaves
  <1>3. /\ sound'[p] = NoSound /\ \A q \in People : q # p => sound'[q] = sound[q]
        /\ person'[p] = Absent /\ \A q \in People : q # p => person'[q] = person[q]
    BY <1>1, <1>2 DEF AudioShape
  <1>4. \A q \in People : /\ sound'[q].there => sound'[q] = sound[q] /\ person'[q].there
                          /\ person'[q].there => person'[q] = person[q]
    BY <1>1, <1>3, NothingHasItsType DEF AudioShape
  <1>5. \A e \in Speakers \ S : speaker[e].of # Free => sound'[speaker[e].of].there
    BY <1>1, <1>3 DEF AudioShape, SpeakerTypes, On
  <1>6. mix /\ "shared" \notin doubt => \A q \in People : sound'[q].wired = IF On(q, speaker) \ S = {} THEN FALSE ELSE sound[q].wired
    <2>1. ASSUME mix, "shared" \notin doubt, NEW q \in People
          PROVE  sound'[q].wired = IF On(q, speaker) \ S = {} THEN FALSE ELSE sound[q].wired
      <3>1. CASE q # p
        <4>1. On(q, speaker) \ S = On(q, speaker) /\ sound'[q] = sound[q]
          BY <1>3, <3>1 DEF On
        <4>2. sound[q].wired = (On(q, speaker) # {})
          BY <2>1 DEF Hearing, HeardOnce
        <4> QED
          BY <4>1, <4>2
      <3> QED
        BY <3>1, <1>3, NothingHasItsType
    <2> QED
      BY <2>1
  <1>7. \A q \in People : person'[q].there => person'[q] = person[q]
    BY <1>4
  <1>8. \A q \in People : sound'[q].there => person'[q].there /\ sound[q].there /\ sound'[q].sink = sound[q].sink
                                             /\ sound'[q].volume = sound[q].volume
    BY <1>4
  <1> HIDE DEF S
  <1> QED
    BY <1>1, <1>2, <1>5, <1>6, <1>7, <1>8, DetachedKeeps, NothingHasItsType DEF AudioShape

\* An element is detached from a track that stays.
LEMMA KeptByDetach ==
  ASSUME Hearing, NEW e \in Speakers, Detach(e)
  PROVE  Hearing'
  <1> DEFINE S == {e}
             p == speaker[e].of
  <1>1. AudioShape /\ S \in SUBSET Speakers /\ p \in People /\ p # Free /\ mix \in BOOLEAN
    BY DEF Hearing, AudioShape, SpeakerTypes, Detach
  <1>2. /\ sound' = [sound EXCEPT ![p].wired = IF mix THEN On(p, speaker) # {e} ELSE FALSE]
        /\ Detached(S) /\ UNCHANGED <<mix, devices, selected, person>>
    BY DEF Detach
  <1>3. PICK w \in BOOLEAN : w = IF mix THEN On(p, speaker) # {e} ELSE FALSE
    BY <1>1
  <1>4. sound' = [sound EXCEPT ![p].wired = w] /\ sound \in [People -> SoundTypes]
    BY <1>1, <1>2, <1>3 DEF AudioShape
  <1>5. ASSUME NEW q \in People
        PROVE  /\ sound'[q].there = sound[q].there /\ sound'[q].sink = sound[q].sink /\ sound'[q].volume = sound[q].volume
               /\ sound'[q].wired = (IF q = p THEN w ELSE sound[q].wired) /\ sound'[q] \in SoundTypes
    <2> HIDE DEF p
    <2> QED
      BY <1>1, <1>4 DEF SoundTypes
  <1>6. \A f \in Speakers \ S : speaker[f].of # Free => sound'[speaker[f].of].there
    BY <1>1, <1>5 DEF AudioShape, SpeakerTypes
  <1>7. mix /\ "shared" \notin doubt => \A q \in People : sound'[q].wired = IF On(q, speaker) \ S = {} THEN FALSE ELSE sound[q].wired
    <2>1. ASSUME mix, "shared" \notin doubt, NEW q \in People
          PROVE  sound'[q].wired = IF On(q, speaker) \ S = {} THEN FALSE ELSE sound[q].wired
      <3>1. sound[q].wired = (On(q, speaker) # {})
        BY <2>1 DEF Hearing, HeardOnce
      <3>2. CASE q = p
        BY <3>2, <1>3, <1>5, <2>1, <3>1 DEF On
      <3>3. CASE q # p
        <4>1. sound'[q].wired = sound[q].wired
          BY <1>5, <3>3
        <4> QED
          BY <3>1, <4>1, <3>3 DEF On
      <3> QED
        BY <3>2, <3>3
    <2> QED
      BY <2>1
  <1> HIDE DEF S, p
  <1> QED
    BY <1>1, <1>2, <1>5, <1>6, <1>7, DetachedKeeps, <1>4 DEF AudioShape

\* An element is attached: it gets the device and the volume of its track.
LEMMA KeptByAttach ==
  ASSUME Hearing, NEW e \in Speakers, NEW p \in People, Attach(e, p)
  PROVE  Hearing'
  <1> DEFINE asked == IF sound[p].sink = NotChosen THEN speaker[e].calls ELSE Append(speaker[e].calls, [device |-> sound[p].sink, switch |-> 0])
             vol == IF mix THEN (IF On(p, speaker) = {} THEN 0 ELSE speaker[e].volume)
                    ELSE IF sound[p].volume = 0 THEN speaker[e].volume ELSE sound[p].volume
             mut == mix /\ On(p, speaker) = {}
             pl == IF gesture THEN "trying" ELSE "blocked"
             new == [speaker[e] EXCEPT !.of = p, !.play = pl, !.calls = asked, !.muted = mut, !.volume = vol]
  <1>1. /\ AudioShape /\ p # Free /\ speaker \in [Speakers -> SpeakerTypes] /\ sound \in [People -> SoundTypes]
        /\ speaker[e] \in SpeakerTypes /\ sound[p] \in SoundTypes /\ mix \in BOOLEAN /\ gesture \in BOOLEAN
    BY AudioAssumption DEF Hearing, AudioShape
  <1>2. /\ sound[p].there /\ speaker[e].of = Free /\ speaker' = [speaker EXCEPT ![e] = AttachedTo(e, p)]
        /\ sound' = [sound EXCEPT ![p].wired = mix] /\ enabled' = (enabled /\ gesture)
        /\ doubt' = (IF mix /\ On(p, speaker) # {} THEN doubt \union {"shared"} ELSE doubt)
        /\ UNCHANGED <<mix, devices, selected, person, gesture, context, start>>
    BY DEF Attach
  <1>3. AttachedTo(e, p) = new
    BY <1>1 DEF AttachedTo, SpeakerTypes
  <1>4. asked \in Seq(SinkCalls) /\ speaker[e].calls \in Seq(SinkCalls)
    <2>1. speaker[e].calls \in Seq(SinkCalls) /\ sound[p].sink \in Sinks
      BY <1>1 DEF SpeakerTypes, SoundTypes
    <2>2. sound[p].sink # NotChosen => [device |-> sound[p].sink, switch |-> 0] \in SinkCalls
      BY <2>1, SwitchBound DEF SinkCalls, Sinks
    <2> QED
      BY <2>1, <2>2, AppendProperties
  <1>5. vol \in Nat /\ mut \in BOOLEAN /\ pl \in {"trying", "blocked"}
    BY <1>1 DEF SpeakerTypes, SoundTypes
  <1> HIDE DEF asked, vol, mut, pl
  <1>6. /\ new \in SpeakerTypes /\ new.of = p /\ new.play = pl /\ new.calls = asked /\ new.muted = mut /\ new.volume = vol
        /\ new.sink = speaker[e].sink
    BY <1>1, <1>4, <1>5 DEF SpeakerTypes
  <1> HIDE DEF new
  <1>7. speaker'[e] = new /\ \A f \in Speakers : f # e => speaker'[f] = speaker[f]
    BY <1>1, <1>2, <1>3
  <1>8. ASSUME NEW q \in People
        PROVE  /\ sound'[q].there = sound[q].there /\ sound'[q].sink = sound[q].sink /\ sound'[q].volume = sound[q].volume
               /\ sound'[q].wired = (IF q = p THEN mix ELSE sound[q].wired) /\ sound'[q] \in SoundTypes
    BY <1>1, <1>2 DEF SoundTypes
  <1>9. AudioShape'
    <2>1. \A q \in People : sound'[q].there => person'[q].there
      BY <1>1, <1>2, <1>8 DEF AudioShape
    <2>2. \A f \in Speakers : speaker'[f].of # Free => sound'[speaker'[f].of].there
      <3>1. ASSUME NEW f \in Speakers, f # e, speaker[f].of # Free PROVE sound'[speaker[f].of].there
        BY <1>8, <1>1, <3>1 DEF AudioShape, SpeakerTypes
      <3> QED
        BY <1>7, <3>1, <1>2, <1>6, <1>8
    <2>3. enabled' \in BOOLEAN
      BY <1>1, <1>2 DEF AudioShape
    <2> QED
      BY <1>1, <1>2, <2>1, <2>2, <2>3, <1>3, <1>6, <1>8 DEF AudioShape, devices, selected
  <1>10. sound[p].sink # NotChosen => LET k == [device |-> sound[p].sink, switch |-> 0] IN
           /\ asked # <<>> /\ Len(asked) = Len(speaker[e].calls) + 1 /\ Len(speaker[e].calls) \in Nat
           /\ DOMAIN speaker[e].calls = 1..Len(speaker[e].calls) /\ DOMAIN asked = 1..Len(asked)
           /\ \A i \in 1..Len(speaker[e].calls) : asked[i] = speaker[e].calls[i]
           /\ asked[Len(asked)] = k
    <2> SUFFICES ASSUME sound[p].sink # NotChosen
                 PROVE  LET k == [device |-> sound[p].sink, switch |-> 0] IN
                        /\ asked # <<>> /\ Len(asked) = Len(speaker[e].calls) + 1 /\ Len(speaker[e].calls) \in Nat
                        /\ DOMAIN speaker[e].calls = 1..Len(speaker[e].calls) /\ DOMAIN asked = 1..Len(asked)
                        /\ \A i \in 1..Len(speaker[e].calls) : asked[i] = speaker[e].calls[i]
                        /\ asked[Len(asked)] = k
      OBVIOUS
    <2> DEFINE k == [device |-> sound[p].sink, switch |-> 0]
    <2>1. k \in SinkCalls
      BY <1>1, SwitchBound DEF SinkCalls, Sinks, SoundTypes
    <2>2. asked = Append(speaker[e].calls, k)
      BY DEF asked
    <2> HIDE DEF k
    <2>3. /\ asked # <<>> /\ Len(asked) = Len(speaker[e].calls) + 1 /\ Len(speaker[e].calls) \in Nat
          /\ DOMAIN speaker[e].calls = 1..Len(speaker[e].calls) /\ DOMAIN asked = 1..(Len(speaker[e].calls) + 1)
          /\ \A i \in 1..Len(speaker[e].calls) : asked[i] = speaker[e].calls[i]
          /\ asked[Len(speaker[e].calls) + 1] = k
      BY <1>4, <2>1, <2>2, OneCallMore
    <2> QED
      BY <2>3 DEF k
  <1>11. /\ \A i \in DOMAIN speaker[e].calls : i \in DOMAIN asked /\ asked[i] = speaker[e].calls[i]
         /\ \A i \in DOMAIN asked : asked[i].switch # 0 => i \in DOMAIN speaker[e].calls /\ asked[i] = speaker[e].calls[i]
    <2>1. CASE sound[p].sink # NotChosen
      <3> DEFINE k == [device |-> sound[p].sink, switch |-> 0]
      <3>1. /\ Len(asked) = Len(speaker[e].calls) + 1 /\ Len(speaker[e].calls) \in Nat
            /\ DOMAIN speaker[e].calls = 1..Len(speaker[e].calls) /\ DOMAIN asked = 1..Len(asked)
            /\ \A i \in 1..Len(speaker[e].calls) : asked[i] = speaker[e].calls[i]
            /\ asked[Len(asked)] = k
        BY <1>10, <2>1
      <3>2. k.switch = 0
        OBVIOUS
      <3> HIDE DEF k
      <3> QED
        BY <3>1, <3>2
    <2> QED
      BY <2>1 DEF asked
  <1>12. SwitchesAreCalled'
    BY <1>6, <1>7, <1>11, <1>2 DEF Hearing, Waiting, SwitchesAreCalled, Called, selected
  <1>13. Attached(speaker') = Attached(speaker) \union {e} /\ e \notin Attached(speaker)
    BY <1>1, <1>2, <1>6, <1>7 DEF Attached
  <1>14. SinksFollow'
    <2> SUFFICES ASSUME "failed" \notin doubt, choice # NotChosen PROVE SinksFollow'
      BY <1>2 DEF SinksFollow, selected
    <2>1. /\ \A q \in People : person[q].there => OutputOf(q) = choice
          /\ \A q \in People : sound[q].there => sound[q].sink = choice
          /\ \A f \in Attached(speaker) : LastSink(speaker[f]) = choice
      BY DEF Hearing, SinksFollow
    <2>2. sound[p].sink = choice
      BY <1>2, <2>1
    <2>3. LastSink(speaker'[e]) = choice
      <3> DEFINE k == [device |-> sound[p].sink, switch |-> 0]
      <3>1. asked # <<>> /\ asked[Len(asked)] = k
        BY <1>10, <2>2
      <3>2. k.device = choice
        BY <2>2
      <3> HIDE DEF k
      <3> QED
        BY <1>6, <1>7, <3>1, <3>2 DEF LastSink
    <2>4. \A q \in People : sound'[q].there => sound'[q].sink = choice
      BY <1>8, <2>1
    <2> QED
      BY <1>2, <2>4, <2>1, <1>13, <2>3, <1>7 DEF SinksFollow, selected, OutputOf, Attached
  <1>15. VolumesFollow'
    BY <1>2, <1>8 DEF Hearing, VolumesFollow
  <1>16. PlayIsKnown'
    <2>1. PlayIsKnown
      BY DEF Hearing
    <2>2. \A f \in Speakers : (f = e => speaker'[f].of = p /\ speaker'[f].play = pl) /\ (f # e => speaker'[f] = speaker[f])
      BY <1>6, <1>7
    <2>3. ASSUME NEW f \in Speakers PROVE speaker'[f].of = Free <=> speaker'[f].play = "none"
      BY <2>1, <2>2, <1>1, <1>5 DEF PlayIsKnown
    <2>4. ~gesture => start = "idle" /\ \A f \in Speakers : speaker'[f].play \in {"none", "blocked"}
      BY <2>1, <2>2 DEF PlayIsKnown, pl
    <2>5. ASSUME doubt' \intersect {"clicked", "aborted"} = {}
          PROVE  /\ \A f \in Speakers : speaker'[f].play = "blocked" => ~enabled' /\ start = "idle"
                 /\ \A f \in Speakers : speaker'[f].play = "starting" => start \in {"acquiring", "playing"}
                 /\ \A f \in Speakers : speaker'[f].play = "playing" /\ start = "idle" => enabled'
      BY <2>1, <1>2, <2>5, <1>1, <2>2, <2>4 DEF PlayIsKnown, AudioShape, pl
    <2> QED
      BY <1>2, <2>3, <2>4, <2>5, <2>1 DEF PlayIsKnown
  <1>17. VolumeIsAsSet'
    BY <1>2, <1>6, <1>7, <1>13 DEF VolumeIsAsSet, Hearing, VolumesFollow, vol, Attached
  <1>18. HeardOnce'
    <2> SUFFICES ASSUME mix, "shared" \notin doubt', NEW q \in People
                 PROVE  /\ sound'[q].wired = (On(q, speaker') # {})
                        /\ \A f \in On(q, speaker') : speaker'[f].muted /\ speaker'[f].volume = 0
      BY <1>2 DEF HeardOnce
    <2>1. On(p, speaker) = {} /\ "shared" \notin doubt
      BY <1>2
    <2>2. CASE q = p
      <3>1. sound'[q].wired = TRUE
        BY <1>1, <1>8, <2>2
      <3>2. mut = TRUE /\ vol = 0
        BY <2>1 DEF mut, vol
      <3> QED
        BY <1>6, <1>7, <3>1, <3>2, <2>1, <2>2 DEF On
    <2>3. CASE q # p
      BY AudioAssumption, <1>2, <1>6, <1>7, <2>3, <1>8, <2>1 DEF On, Hearing, HeardOnce
    <2> QED
      BY <2>2, <2>3
  <1> QED
    BY <1>9, <1>12, <1>14, <1>15, <1>16, <1>17, <1>18, <1>2, SameChoices DEF Hearing

-----------------------------------------------------------------------------
\* Every step keeps all that the proof needs.
LEMMA HearingHolds == AudioSpec => []Hearing
  <1>1. ASSUME Hearing, AudioNext PROVE Hearing'
    <2>1. CASE Surroundings
      BY <1>1, KeptByPersonJoins, KeptBySoundArrives, KeptBySoundEnds, KeptByPersonLeaves,
         KeptByDeviceChange, KeptByClick, <2>1 DEF Surroundings
    <2>2. CASE AudioProgress
      <3>1. ASSUME NEW e \in Speakers, SinkIsSet(e) \/ Plays(e) \/ ElementStarts(e) PROVE Hearing'
        BY <1>1, <3>1, KeptBySinkIsSet, KeptByPlays, KeptByElementStarts
      <3>2. CASE SelectDefaultDevices
        BY <1>1, <3>2, KeptBySelectDefaultDevices
      <3>3. CASE AudioStarted
        BY <1>1, <3>3, KeptByAudioStarted
      <3>4. CASE ContextRuns
        BY <1>1, <3>4, KeptByContextRuns
      <3> QED
        BY <2>2, <3>1, <3>2, <3>3, <3>4, <1>1, KeptByNormalized, KeptByAcquireAudioContext DEF AudioProgress
    <2> QED
      BY <1>1, <2>1, <2>2, KeptBySwitchActiveDevice, KeptByDetach, KeptByAttach, KeptBySetVolume,
         KeptByGetLocalDevices, KeptByStartAudio DEF AudioNext, Listening
  <1>2. ASSUME Hearing, UNCHANGED audio PROVE Hearing'
    BY <1>2, SameElements DEF audio, Hearing, AudioShape, OutputIsReplaced, devices, selected
  <1> QED
    BY <1>1, <1>2, InitHearing, PTL DEF AudioSpec

\* When nothing is under way, all that is left of it is what the application asked for.
LEMMA QuietIsAsAsked == ASSUME Hearing PROVE OutputIsThere /\ ElementsUseTheOutput /\ BlockedIsReported
  <1>1. ElementsUseTheOutput
    BY DEF ElementsUseTheOutput, Hearing, ChoiceIsActive, SwitchingNow, AudioQuiet, SinksFollow, Attached,
           LastSink
  <1>2. BlockedIsReported
    BY DEF BlockedIsReported, AudioQuiet, Hearing, PlayIsKnown, Attached, AudioShape, SpeakerTypes
  <1> QED
    BY <1>1, <1>2 DEF OutputIsThere, AudioQuiet, Hearing, OutputIsReplaced

\* Whatever devices, people, tracks and elements come and go, and whatever switches, volumes and
\* starts of audio overlap, everybody is heard from the device, at the volume and in the state that
\* the application asked for or was told of.
THEOREM HeardIsAsAsked == AudioSpec => []HeardAsAsked
  <1>1. Hearing => HeardAsAsked
    BY ElementOfSeq, LenProperties, QuietIsAsAsked
      DEF Hearing, AudioShape, ToSet, AudioTypes, Sinks, HeardAsAsked
  <1> QED
    BY <1>1, HearingHolds, PTL

=============================================================================

------------------------- MODULE Signalling_proofs --------------------------
(***************************************************************************)
(* Proofs about SignalClient for any number of calls and closes: nothing   *)
(* is left in "disconnecting", and nothing in "connecting" or              *)
(* "reconnecting", without a coroutine that will lead out of it (IInv); a  *)
(* client that says it is connected has the open socket of its last        *)
(* attempt, and only that socket takes it offline (SInv).                  *)
(* And about Negotiation for every set of requests and every bound: its    *)
(* types, that a request that resolves has been negotiated, that answers   *)
(* meet their offers, and that no change is left behind without an offer.  *)
(***************************************************************************)
EXTENDS SignalClient, Negotiation, SequenceTheorems, TLAPS

-----------------------------------------------------------------------------
(***************************************************************************)
(* SignalClient.                                                           *)
(***************************************************************************)

CallRecords ==
  [pc : {"idle", "settle", "lock", "params", "replace", "opening", "validate",
         "first", "done"},
   kind : {"join", "reconnect"},
   result : {"none", "pending", "resolved", "rejected"},
   timer : BOOLEAN, abortable : BOOLEAN]

CloseRecords == [pc : {"idle", "lock", "teardown", "done"}, drives : BOOLEAN]

SockStates == {"none", "connecting", "aborting", "open", "closing", "closed"}

Types ==
  /\ lc \in States /\ attempt \in Nat
  /\ sock \in [Calls -> SockStates]
  /\ sockOwner \in [Calls -> Nat]
  /\ call \in [Calls -> CallRecords]
  /\ closing \in [CloseIds -> CloseRecords]

BeforeUpgrade == {"idle", "settle", "lock", "params", "replace", "opening", "validate"}

\* A call's socket is open only once the call waits for its first message.
SocketsOpenLate ==
  \A c \in Calls : call[c].pc \in BeforeUpgrade => sock[c] \notin {"open", "closing"}

\* A call closes the client itself only while its timeout or abort listener is armed.
ClosesOnce ==
  /\ \A k \in CloseIds : closing[k].drives => closing[k].pc \in {"lock", "teardown"}
  /\ \A c \in Calls :
       /\ call[c].timer => call[c].abortable
       /\ call[c].abortable => /\ closing[c].pc = "idle"
                               /\ call[c].pc \in {"replace", "opening", "validate", "first"}
       /\ call[c].pc \in {"idle", "settle", "lock", "params"} => closing[c].pc = "idle"
       /\ InFlight(c) => closing[c].pc = "idle"

\* Calls are made in order, each after the previous one has been answered.
OneInFlight ==
  /\ \A c \in Calls :
       /\ call[c].result = "none" <=> call[c].pc = "idle"
       /\ call[c].pc = "done" => ~InFlight(c)
       /\ call[c].pc = "settle" => InFlight(c)
  /\ \A c, d \in Calls :
       d < c /\ call[c].result # "none" => call[d].result \in {"resolved", "rejected"}

\* The socket of the pending call belongs to the current attempt.
OwnsAttempt ==
  \A c \in Calls :
    InFlight(c) /\ call[c].pc \in {"opening", "first", "validate"} => sockOwner[c] = attempt

\* The call a starting lifecycle belongs to has given the machine its input.
StartedByRunning ==
  Establishing(lc) =>
    \E c \in Calls : InFlight(c) /\ call[c].pc # "settle" /\ lc = Started(call[c].kind)

IInv ==
  /\ Types /\ SocketsOpenLate /\ ClosesOnce /\ OneInFlight /\ OwnsAttempt
  /\ DisconnectingIsOwned /\ StartedByRunning

-----------------------------------------------------------------------------
LEMMA ClosingSocketOpensNothing ==
  ASSUME NEW s \in [Calls -> SockStates], NEW w
  PROVE  /\ ClosingSocket(s, w) \in [Calls -> SockStates]
         /\ \A c \in Calls :
              ClosingSocket(s, w)[c] \in {"open", "closing"} => s[c] \in {"open", "closing"}
  BY DEF ClosingSocket, SockStates

\* What the parts of IInv need of a step that leaves calls, closes and the machine alone.
LEMMA SocketStep ==
  ASSUME IInv, UNCHANGED <<lc, attempt, call, closing, sockOwner>>,
         sock' \in [Calls -> SockStates],
         \A c \in Calls : sock'[c] \in {"open", "closing"} => sock[c] \in {"open", "closing"}
  PROVE  IInv'
  BY DEF IInv, Types, SocketsOpenLate, ClosesOnce, OneInFlight, OwnsAttempt,
     DisconnectingIsOwned, StartedByRunning, InFlight

\* Writing one call's record changes that call only.
LEMMA SetCallWrites ==
  ASSUME Types, NEW c \in Calls, NEW rec \in CallRecords, SetCall(c, rec)
  PROVE  /\ call' \in [Calls -> CallRecords]
         /\ call'[c] = rec
         /\ \A d \in Calls : d # c => call'[d] = call[d]
  BY DEF Types, SetCall

LEMMA InitHolds == Init => IInv
  <1> SUFFICES ASSUME Init PROVE IInv
    OBVIOUS
  <1>1. /\ call \in [Calls -> CallRecords]
        /\ \A c \in Calls : /\ call[c].pc = "idle" /\ call[c].result = "none"
                            /\ ~call[c].timer /\ ~call[c].abortable
    BY DEF Init, CallRecord, CallRecords
  <1>2. /\ closing \in [CloseIds -> CloseRecords]
        /\ \A k \in CloseIds : closing[k].pc = "idle" /\ ~closing[k].drives
    BY DEF Init, CloseRecord, CloseRecords
  <1>3. Types
    BY <1>1, <1>2 DEF Init, Types, States, SockStates
  <1> QED
    BY <1>1, <1>2, <1>3 DEF Init, IInv, SocketsOpenLate, ClosesOnce, OneInFlight, OwnsAttempt,
       DisconnectingIsOwned, StartedByRunning, InFlight, Establishing, CloseIds

LEMMA BeginHolds ==
  ASSUME IInv, NEW c \in Calls, NEW kind \in {"join", "reconnect"},
         call[c].pc \in {"idle", "settle"}, Begin(c, kind),
         \A d \in Calls : d < c => call[d].result \in {"resolved", "rejected"},
         UNCHANGED <<sock, sockOwner, closing>>
  PROVE  IInv'
  <1> USE CallsAssumption DEF IInv
  <1>1. \A d \in Calls : c < d => call[d].result = "none"
    BY DEF OneInFlight, InFlight
  <1>2. CASE CanStart(kind, lc)
    <2>1. /\ SetCall(c, CallRecord("lock", kind, "pending", FALSE, FALSE))
          /\ lc' = Started(kind) /\ attempt' = attempt + 1
      BY <1>2 DEF Begin
    <2>2. CallRecord("lock", kind, "pending", FALSE, FALSE) \in CallRecords
      BY DEF CallRecord, CallRecords
    <2>3. /\ call' \in [Calls -> CallRecords]
          /\ call'[c].pc = "lock" /\ call'[c].kind = kind /\ call'[c].result = "pending"
          /\ ~call'[c].timer /\ ~call'[c].abortable
          /\ \A d \in Calls : d # c => call'[d] = call[d]
      BY <2>1, <2>2, SetCallWrites DEF CallRecord
    <2>4. OneInFlight'
      BY <2>3, <1>1 DEF OneInFlight, InFlight, Calls
    <2>5. OwnsAttempt'
      BY <2>3, <1>1 DEF OwnsAttempt, InFlight, Calls
    <2>6. DisconnectingIsOwned'
      BY <2>1, <1>2 DEF DisconnectingIsOwned, CanStart, Started
    <2>7. StartedByRunning'
      BY <2>1, <2>3 DEF StartedByRunning, InFlight
    <2> QED
      BY <2>4, <2>5, <2>6, <2>7, <2>1, <2>3
        DEF Types, States, Started, SocketsOpenLate, ClosesOnce, InFlight, BeforeUpgrade
  <1>3. CASE ~CanStart(kind, lc)
    <2>1. /\ SetCall(c, CallRecord("done", kind, "rejected", FALSE, FALSE))
          /\ UNCHANGED <<lc, attempt>>
      BY <1>3 DEF Begin
    <2>2. CallRecord("done", kind, "rejected", FALSE, FALSE) \in CallRecords
      BY DEF CallRecord, CallRecords
    <2>3. /\ call' \in [Calls -> CallRecords]
          /\ call'[c].pc = "done" /\ call'[c].kind = kind /\ call'[c].result = "rejected"
          /\ ~call'[c].timer /\ ~call'[c].abortable
          /\ \A d \in Calls : d # c => call'[d] = call[d]
      BY <2>1, <2>2, SetCallWrites DEF CallRecord
    <2>4. OneInFlight'
      BY <2>3, <1>1 DEF OneInFlight, InFlight, Calls
    <2>5. OwnsAttempt' /\ DisconnectingIsOwned'
      BY <2>1, <2>3 DEF OwnsAttempt, InFlight, DisconnectingIsOwned
    <2>6. StartedByRunning'
      BY <2>1, <2>3 DEF StartedByRunning, InFlight, OneInFlight
    <2> QED
      BY <2>4, <2>5, <2>6, <2>1, <2>3 DEF Types, SocketsOpenLate, ClosesOnce, InFlight, BeforeUpgrade
  <1> QED
    BY <1>2, <1>3

-----------------------------------------------------------------------------
(* Steps that move one call. *)

LEMMA OnlyOneInFlight ==
  ASSUME IInv, NEW c \in Calls, NEW d \in Calls, InFlight(c), InFlight(d)
  PROVE  c = d
  BY CallsAssumption DEF IInv, OneInFlight, InFlight, Calls

LEMMA PendingOwnsMachine ==
  ASSUME IInv, NEW c \in Calls, InFlight(c), Establishing(lc)
  PROVE  lc = Started(call[c].kind)
  BY OnlyOneInFlight DEF IInv, StartedByRunning

\* A rejection reported to the machine never leaves it starting.
LEMMA RejectionEndsStart ==
  ASSUME IInv, NEW c \in Calls, NEW r \in BOOLEAN
  PROVE  /\ AfterReject(c, lc, r) \in States
         /\ InFlight(c) => ~Establishing(AfterReject(c, lc, r))
         /\ ~InFlight(c) => AfterReject(c, lc, r) = lc
         /\ AfterReject(c, lc, r) = "disconnecting" <=> lc = "disconnecting"
  BY PendingOwnsMachine
    DEF IInv, Types, CallRecords, AfterReject, Failed, InFlight, Establishing, Started, States

\* A call goes on without being answered, and the machine does not move.
LEMMA CallMoves ==
  ASSUME IInv, NEW c \in Calls, NEW rec \in CallRecords, SetCall(c, rec),
         UNCHANGED <<lc, attempt, closing>>,
         call[c].pc \notin {"idle", "settle", "done"}, rec.pc \notin {"idle", "settle", "done"},
         rec.kind = call[c].kind, rec.result = call[c].result,
         rec.timer => rec.abortable,
         rec.abortable => rec.pc \in {"replace", "opening", "validate", "first"},
         rec.abortable \/ rec.pc \in {"lock", "params"} => closing[c].pc = "idle",
         sockOwner' \in [Calls -> Nat],
         \A d \in Calls : d # c => sockOwner'[d] = sockOwner[d],
         rec.pc \in {"opening", "first", "validate"} =>
           \/ sockOwner'[c] = attempt
           \/ /\ sockOwner'[c] = sockOwner[c]
              /\ call[c].pc \in {"opening", "first", "validate"},
         sock' \in [Calls -> SockStates],
         \A d \in Calls : sock'[d] \in {"open", "closing"} =>
            sock[d] \in {"open", "closing"} \/ (d = c /\ rec.pc \notin BeforeUpgrade),
         rec.pc \in BeforeUpgrade => call[c].pc \in BeforeUpgrade
  PROVE  IInv'
  BY SetCallWrites
    DEF IInv, Types, SocketsOpenLate, ClosesOnce, InFlight, OneInFlight, OwnsAttempt, DisconnectingIsOwned,
        StartedByRunning

\* A call is answered, if it was not before.
LEMMA CallAnswered ==
  ASSUME IInv, NEW c \in Calls, NEW rec \in CallRecords, SetCall(c, rec),
         call[c].pc \notin {"idle", "settle", "done"}, rec.pc \in {call[c].pc, "done"},
         rec.kind = call[c].kind, rec.result \in {"resolved", "rejected"},
         UNCHANGED <<attempt, sockOwner>>,
         sock' \in [Calls -> SockStates],
         \A d \in Calls : sock'[d] \in {"open", "closing"} => sock[d] \in {"open", "closing"},
         lc' \in States, closing' \in [CloseIds -> CloseRecords],
         InFlight(c) => ~Establishing(lc'),
         ~InFlight(c) /\ Establishing(lc') => lc' = lc,
         ClosesOnce', DisconnectingIsOwned'
  PROVE  IInv'
  BY SetCallWrites
    DEF IInv, Types, SocketsOpenLate, BeforeUpgrade, OneInFlight, InFlight, OwnsAttempt, StartedByRunning

-----------------------------------------------------------------------------
(* One lemma per action. *)

LEMMA EstablishHolds ==
  ASSUME IInv, NEW c \in Calls, NEW kind \in {"join", "reconnect"}, Establish(c, kind)
  PROVE  IInv'
  <1>1. CASE lc = "disconnecting"
    <2> USE DEF IInv
    <2>1. CallRecord("settle", kind, "pending", FALSE, FALSE) \in CallRecords
      BY DEF CallRecord, CallRecords
    <2>2. /\ SetCall(c, CallRecord("settle", kind, "pending", FALSE, FALSE))
          /\ UNCHANGED <<lc, attempt, sock, sockOwner, closing>>
          /\ call[c].pc = "idle"
          /\ \A d \in Calls : d < c => call[d].result \in {"resolved", "rejected"}
      BY <1>1 DEF Establish, machine, transport
    <2>3. /\ call' \in [Calls -> CallRecords]
          /\ call'[c].pc = "settle" /\ call'[c].result = "pending"
          /\ ~call'[c].timer /\ ~call'[c].abortable
          /\ \A d \in Calls : d # c => call'[d] = call[d]
      BY <2>1, <2>2, SetCallWrites DEF CallRecord
    <2>4. OneInFlight'
      BY <2>2, <2>3, CallsAssumption DEF OneInFlight, InFlight, Calls
    <2> QED
      BY <2>4, <1>1, <2>2, <2>3
        DEF Types, DisconnectingIsOwned, StartedByRunning, Establishing, SocketsOpenLate, ClosesOnce,
            OwnsAttempt, InFlight, BeforeUpgrade
  <1> QED
    BY <1>1, BeginHolds DEF Establish, transport

LEMMA CloseSettledHolds ==
  ASSUME IInv, NEW c \in Calls, CloseSettled(c)
  PROVE  IInv'
  <1>1. call[c].pc = "settle" /\ call[c].kind \in {"join", "reconnect"}
    BY DEF CloseSettled, IInv, Types, CallRecords
  <1> QED
    BY <1>1, BeginHolds DEF CloseSettled, transport, IInv, OneInFlight, InFlight

LEMMA ConnectionLockedHolds ==
  ASSUME IInv, NEW c \in Calls, ConnectionLocked(c)
  PROVE  IInv'
  <1> DEFINE rec == [call[c] EXCEPT !.pc = "params"]
  <1>1. /\ rec \in CallRecords /\ rec.pc = "params" /\ rec.kind = call[c].kind
        /\ rec.result = call[c].result /\ rec.timer = call[c].timer
        /\ rec.abortable = call[c].abortable
    BY DEF IInv, Types, CallRecords
  <1>2. /\ SetCall(c, rec) /\ call[c].pc = "lock"
        /\ UNCHANGED <<lc, attempt, closing, sock, sockOwner>>
    BY DEF ConnectionLocked, machine, transport
  <1> HIDE DEF rec
  <1> QED
    BY <1>1, <1>2, CallMoves DEF IInv, Types, BeforeUpgrade, ClosesOnce, InFlight

\* The new socket is connecting, the one it replaces is closing.
LEMMA OpenSocketHolds ==
  ASSUME IInv, NEW c \in Calls, NEW timer \in BOOLEAN, NEW abortable \in BOOLEAN,
         OpenSocket(c, timer, abortable),
         call[c].pc \in {"params", "replace"},
         timer => abortable, abortable => closing[c].pc = "idle",
         UNCHANGED <<lc, attempt, closing>>
  PROVE  IInv'
  <1> DEFINE rec == CallRecord("opening", call[c].kind, call[c].result, timer, abortable)
  <1>1. /\ rec \in CallRecords /\ rec.pc = "opening" /\ rec.kind = call[c].kind
        /\ rec.result = call[c].result /\ rec.timer = timer /\ rec.abortable = abortable
    BY DEF IInv, Types, CallRecords, CallRecord
  <1>2. /\ SetCall(c, rec) /\ sockOwner' = [sockOwner EXCEPT ![c] = attempt]
        /\ sock' = [sock EXCEPT ![c] = "connecting"]
    BY DEF OpenSocket
  <1> HIDE DEF rec
  <1> QED
    BY <1>1, <1>2, CallMoves DEF BeforeUpgrade, IInv, Types, SockStates

LEMMA ParamsReadyHolds ==
  ASSUME IInv, NEW c \in Calls, ParamsReady(c)
  PROVE  IInv'
  <1>1. call[c].pc = "params" /\ closing[c].pc = "idle" /\ UNCHANGED <<lc, attempt, closing>>
    BY DEF ParamsReady, IInv, ClosesOnce, InFlight, machine
  <1>2. CASE Lingers(sock, ws)
    <2> DEFINE rec == CallRecord("replace", call[c].kind, call[c].result, TRUE, TRUE)
    <2>1. /\ rec \in CallRecords /\ rec.pc = "replace" /\ rec.kind = call[c].kind
          /\ rec.result = call[c].result /\ rec.timer /\ rec.abortable
      BY DEF IInv, Types, CallRecords, CallRecord
    <2>2. SetCall(c, rec) /\ UNCHANGED sockOwner /\ sock' = ClosingSocket(sock, ws)
      BY <1>2 DEF ParamsReady, TearDown
    <2> HIDE DEF rec
    <2> QED
      BY <1>1, <2>1, <2>2, CallMoves, ClosingSocketOpensNothing DEF BeforeUpgrade, IInv, Types
  <1> QED
    BY <1>2, <1>1, OpenSocketHolds DEF ParamsReady

LEMMA ReplacedHolds ==
  ASSUME IInv, NEW c \in Calls, Replaced(c)
  PROVE  IInv'
  BY OpenSocketHolds DEF IInv, Types, CallRecords, ClosesOnce, InFlight, Replaced, machine

LEMMA SocketOpensHolds ==
  ASSUME IInv, NEW c \in Calls, SocketOpens(c)
  PROVE  IInv'
  <1> DEFINE rec == [call[c] EXCEPT !.pc = "first", !.timer = FALSE]
  <1>1. /\ rec \in CallRecords /\ rec.pc = "first" /\ rec.kind = call[c].kind
        /\ rec.result = call[c].result /\ ~rec.timer /\ rec.abortable = call[c].abortable
    BY DEF IInv, Types, CallRecords
  <1>2. /\ SetCall(c, rec) /\ call[c].pc = "opening" /\ sock' = [sock EXCEPT ![c] = "open"]
        /\ UNCHANGED <<lc, attempt, closing, sockOwner>>
    BY DEF SocketOpens, machine
  <1>3. call[c].abortable => closing[c].pc = "idle"
    BY DEF IInv, ClosesOnce, InFlight
  <1> HIDE DEF rec
  <1> QED
    BY <1>1, <1>2, <1>3, CallMoves DEF IInv, Types, BeforeUpgrade, SockStates

\* Where a close event leaves the sockets.
LEMMA HandleOnCloseOpensNothing ==
  ASSUME IInv, NEW c \in Calls, NEW id,
         HandleOnClose([sock EXCEPT ![c] = "closed"], id)
  PROVE  /\ sock' \in [Calls -> SockStates]
         /\ \A d \in Calls : sock'[d] \in {"open", "closing"} => sock[d] \in {"open", "closing"}
  <1> DEFINE s == [sock EXCEPT ![c] = "closed"]
  <1>1. /\ s \in [Calls -> SockStates]
        /\ \A d \in Calls : s[d] \in {"open", "closing"} => sock[d] \in {"open", "closing"}
    BY DEF IInv, Types, SockStates
  <1>2. sock' = s \/ sock' = ClosingSocket(s, ws)
    BY DEF HandleOnClose, TearDown
  <1> HIDE DEF s
  <1> QED
    BY <1>1, <1>2, ClosingSocketOpensNothing

\* The record of a call that is answered.
LEMMA SettledRecord ==
  ASSUME IInv, NEW c \in Calls, NEW pc \in {call[c].pc, "done"},
         call[c].pc # "idle", NEW result \in {"resolved", "rejected"}
  PROVE  /\ Settled(c, pc, result) \in CallRecords
         /\ Settled(c, pc, result).pc = pc
         /\ Settled(c, pc, result).kind = call[c].kind
         /\ Settled(c, pc, result).result \in {"resolved", "rejected"}
         /\ ~Settled(c, pc, result).timer
         /\ Settled(c, pc, result).abortable => call[c].abortable /\ pc # "done"
  BY DEF IInv, Types, OneInFlight, InFlight, Settled, CallRecord, CallRecords

\* A body ends without touching any close.
LEMMA FinishHolds ==
  ASSUME IInv, NEW c \in Calls, NEW result \in {"resolved", "rejected"}, Finish(c, result),
         call[c].pc \in {"opening", "validate", "first"},
         UNCHANGED <<attempt, sockOwner, closing>>,
         sock' \in [Calls -> SockStates],
         \A d \in Calls : sock'[d] \in {"open", "closing"} => sock[d] \in {"open", "closing"},
         lc' \in States, lc' = "disconnecting" <=> lc = "disconnecting",
         InFlight(c) => ~Establishing(lc'),
         ~InFlight(c) /\ Establishing(lc') => lc' = lc
  PROVE  IInv'
  <1> DEFINE rec == Settled(c, "done", result)
  <1>1. /\ rec \in CallRecords /\ rec.pc = "done" /\ rec.kind = call[c].kind
        /\ rec.result \in {"resolved", "rejected"} /\ ~rec.timer /\ ~rec.abortable
    BY SettledRecord
  <1>2. SetCall(c, rec)
    BY DEF Finish
  <1> HIDE DEF rec
  <1> QED
    BY <1>1, <1>2, CallAnswered, SetCallWrites DEF IInv, Types, DisconnectingIsOwned, ClosesOnce, InFlight

LEMMA SocketFailsHolds ==
  ASSUME IInv, NEW c \in Calls, SocketFails(c)
  PROVE  IInv'
  <1>1. /\ call[c].pc = "opening" /\ lc' = Lost(lc, sockOwner[c])
        /\ UNCHANGED <<attempt, sockOwner, closing>>
        /\ sock' \in [Calls -> SockStates]
        /\ \A d \in Calls : sock'[d] \in {"open", "closing"} => sock[d] \in {"open", "closing"}
    BY HandleOnCloseOpensNothing DEF SocketFails
  <1>2. CASE lc # "connected"
    <2> DEFINE rec == [call[c] EXCEPT !.pc = "validate", !.timer = FALSE]
    <2>1. /\ rec \in CallRecords /\ rec.pc = "validate" /\ rec.kind = call[c].kind
          /\ rec.result = call[c].result /\ ~rec.timer /\ rec.abortable = call[c].abortable
      BY DEF IInv, Types, CallRecords
    <2>2. SetCall(c, rec) /\ UNCHANGED lc
      BY <1>2 DEF SocketFails, Lost
    <2>3. call[c].abortable => closing[c].pc = "idle"
      BY DEF IInv, ClosesOnce, InFlight
    <2> HIDE DEF rec
    <2> QED
      BY <1>1, <2>1, <2>2, <2>3, CallMoves DEF BeforeUpgrade, IInv, Types
  <1> QED
    BY <1>2, <1>1, FinishHolds DEF SocketFails, Lost, States, Establishing

LEMMA ClassifiedHolds ==
  ASSUME IInv, NEW c \in Calls, NEW r \in BOOLEAN, Classified(c, r)
  PROVE  IInv'
  BY RejectionEndsStart, FinishHolds DEF Classified, transport, IInv, Types

LEMMA SocketClosesHolds ==
  ASSUME IInv, NEW c \in Calls, SocketCloses(c)
  PROVE  IInv'
  <1>1. /\ UNCHANGED <<attempt, sockOwner, closing>>
        /\ sock' \in [Calls -> SockStates]
        /\ \A d \in Calls : sock'[d] \in {"open", "closing"} => sock[d] \in {"open", "closing"}
    BY HandleOnCloseOpensNothing DEF SocketCloses
  <1>2. lc' = AfterReject(c, Lost(lc, sockOwner[c]), TRUE)
    BY DEF SocketCloses
  <1>3. /\ lc' \in States
        /\ lc' = "disconnecting" <=> lc = "disconnecting"
        /\ InFlight(c) => ~Establishing(lc')
        /\ Establishing(lc') => lc' = lc
    BY <1>2, RejectionEndsStart
      DEF Lost, AfterReject, Failed, States, Establishing, Started, IInv, Types, CallRecords
  <1>4. CASE call[c].pc # "first"
    <2>1. UNCHANGED call
      BY <1>4 DEF SocketCloses
    <2> QED
      BY <1>1, <1>3, <2>1
        DEF IInv, Types, SocketsOpenLate, ClosesOnce, OneInFlight, OwnsAttempt, DisconnectingIsOwned,
            StartedByRunning, InFlight
  <1> QED
    BY <1>4, <1>1, <1>3, FinishHolds DEF SocketCloses

LEMMA FirstMessageHolds ==
  ASSUME IInv, NEW c \in Calls, NEW msg, FirstMessage(c, msg)
  PROVE  IInv'
  BY FinishHolds, RejectionEndsStart
    DEF FirstMessage, transport, IInv, Types, OwnsAttempt, Established, Establishing, States

LEMMA PingTimeoutHolds ==
  ASSUME IInv, PingTimeout
  PROVE  IInv'
  <1>1. /\ lc' = Lost(lc, attempt) /\ UNCHANGED <<attempt, sockOwner, call, closing>>
    BY DEF PingTimeout
  <1>2. /\ lc' \in States
        /\ lc' = "disconnecting" <=> lc = "disconnecting"
        /\ Establishing(lc') => lc' = lc
    BY <1>1 DEF Lost, States, Establishing, IInv, Types
  <1>3. /\ sock' \in [Calls -> SockStates]
        /\ \A d \in Calls : sock'[d] \in {"open", "closing"} => sock[d] \in {"open", "closing"}
    BY ClosingSocketOpensNothing DEF IInv, Types, PingTimeout, HandleOnClose, TearDown, transport
  <1> QED
    BY <1>1, <1>2, <1>3
      DEF IInv, Types, SocketsOpenLate, ClosesOnce, OneInFlight, OwnsAttempt, DisconnectingIsOwned,
          StartedByRunning, InFlight

-----------------------------------------------------------------------------
(* Closes. *)

\* A step of the closes alone.
LEMMA CloseMoves ==
  ASSUME IInv, UNCHANGED <<attempt, sockOwner, call>>,
         sock' \in [Calls -> SockStates],
         \A d \in Calls : sock'[d] \in {"open", "closing"} => sock[d] \in {"open", "closing"},
         lc' \in States, Establishing(lc') => lc' = lc,
         closing' \in [CloseIds -> CloseRecords], ClosesOnce', DisconnectingIsOwned'
  PROVE  IInv'
  BY DEF InFlight, IInv, Types, SocketsOpenLate, OneInFlight, OwnsAttempt, StartedByRunning

\* close() in state st by someone who has no close under way: who drives it owns
\* the state it leads to.
LEMMA RequestCloseHolds ==
  ASSUME IInv, NEW k \in CloseIds, NEW st \in States, RequestClose(k, st),
         closing[k].pc \in {"idle", "done"},
         st = "disconnecting" <=> lc = "disconnecting",
         lc' = CloseRequested(st)
  PROVE  /\ closing' \in [CloseIds -> CloseRecords]
         /\ closing'[k].pc = "lock"
         /\ \A j \in CloseIds : j # k => closing'[j] = closing[j]
         /\ \A j \in CloseIds : closing'[j].drives => closing'[j].pc \in {"lock", "teardown"}
         /\ DisconnectingIsOwned'
         /\ lc' \in States /\ ~Establishing(lc')
  <1> DEFINE rec == CloseRecord("lock", CloseRequested(st) # st)
  <1>1. rec \in CloseRecords /\ rec.pc = "lock" /\ (rec.drives <=> CloseRequested(st) # st)
    BY DEF CloseRecord, CloseRecords
  <1>2. closing' = [closing EXCEPT ![k] = rec]
    BY DEF RequestClose
  <1> HIDE DEF rec
  <1>3. /\ closing' \in [CloseIds -> CloseRecords] /\ closing'[k] = rec
        /\ \A j \in CloseIds : j # k => closing'[j] = closing[j]
    BY <1>1, <1>2 DEF IInv, Types
  <1> QED
    BY <1>1, <1>3 DEF IInv, ClosesOnce, InFlight, CloseRequested, States, Establishing, DisconnectingIsOwned

LEMMA CloseHolds ==
  ASSUME IInv, NEW k \in Awaited \cup Final, Close(k)
  PROVE  IInv'
  BY ClosersAssumption, RequestCloseHolds, CloseMoves
    DEF CloseIds, Close, transport, IInv, Types, ClosesOnce, InFlight

\* closeComplete.
LEMMA CloseEndsHolds ==
  ASSUME IInv, NEW k \in CloseIds, closing[k].pc \in {"lock", "teardown"}, CloseEnds(k),
         UNCHANGED <<attempt, sockOwner, call>>,
         sock' \in [Calls -> SockStates],
         \A d \in Calls : sock'[d] \in {"open", "closing"} => sock[d] \in {"open", "closing"}
  PROVE  IInv'
  <1> DEFINE rec == CloseRecord("done", FALSE)
  <1>1. rec \in CloseRecords /\ rec.pc = "done" /\ ~rec.drives
    BY DEF CloseRecord, CloseRecords
  <1>2. closing' = [closing EXCEPT ![k] = rec]
    BY DEF CloseEnds
  <1> HIDE DEF rec
  <1>3. /\ closing' \in [CloseIds -> CloseRecords] /\ closing'[k] = rec
        /\ \A j \in CloseIds : j # k => closing'[j] = closing[j]
    BY <1>1, <1>2 DEF IInv, Types
  <1>4. lc' = IF closing[k].drives THEN "closed" ELSE lc
    BY DEF CloseEnds, IInv, DisconnectingIsOwned
  <1>5. lc' \in States /\ (Establishing(lc') => lc' = lc)
    BY <1>4 DEF IInv, Types, States, Establishing
  <1> QED
    BY <1>3, <1>5, CloseMoves, <1>1, <1>4 DEF IInv, DisconnectingIsOwned, ClosesOnce, InFlight, CloseIds

LEMMA CloseStepHolds ==
  ASSUME IInv, NEW k \in CloseIds, CloseStep(k)
  PROVE  IInv'
  <1>1. CASE CloseTearsDown(k)
    <2>1. /\ closing[k].pc = "lock" /\ sock' = ClosingSocket(sock, ws)
          /\ UNCHANGED <<attempt, sockOwner, call>>
      BY <1>1 DEF CloseTearsDown, TearDown
    <2>2. /\ sock' \in [Calls -> SockStates]
          /\ \A d \in Calls : sock'[d] \in {"open", "closing"} => sock[d] \in {"open", "closing"}
      BY <2>1, ClosingSocketOpensNothing DEF IInv, Types
    <2>3. CASE Lingers(sock, ws)
      <3> DEFINE rec == [closing[k] EXCEPT !.pc = "teardown"]
      <3>1. rec \in CloseRecords /\ rec.pc = "teardown" /\ rec.drives = closing[k].drives
        BY DEF IInv, Types, CloseRecords
      <3>2. closing' = [closing EXCEPT ![k] = rec] /\ UNCHANGED lc
        BY <1>1, <2>3 DEF CloseTearsDown
      <3> HIDE DEF rec
      <3> QED
        BY <2>1, <2>2, <3>2, CloseMoves, <3>1
          DEF IInv, Types, DisconnectingIsOwned, ClosesOnce, InFlight, CloseIds
    <2> QED
      BY <2>3, <1>1, <2>1, <2>2, CloseEndsHolds DEF CloseTearsDown
  <1> QED
    BY <1>1, CloseEndsHolds DEF CloseStep, CloseTornDown, transport, IInv, Types

\* abortHandler.
LEMMA GiveUpHolds ==
  ASSUME IInv, NEW c \in Calls, call[c].abortable, GiveUp(c)
  PROVE  IInv'
  <1> DEFINE st == IF writer # None /\ lc \in {"connecting", "connected", "reconnecting"}
                   THEN AfterReject(c, lc, TRUE) ELSE lc
             rec == [Settled(c, call[c].pc, "rejected") EXCEPT !.abortable = FALSE]
  <1>1. /\ c \in CloseIds /\ closing[c].pc = "idle"
        /\ call[c].pc \in {"replace", "opening", "validate", "first"}
    BY DEF IInv, ClosesOnce, InFlight, CloseIds
  <1>2. /\ SetCall(c, rec) /\ RequestClose(c, st)
        /\ lc' = AfterReject(c, CloseRequested(st), TRUE)
        /\ UNCHANGED <<attempt, sockOwner, sock>>
    BY DEF GiveUp, transport
  <1>3. st \in States /\ (st = "disconnecting" <=> lc = "disconnecting")
    BY RejectionEndsStart DEF IInv, Types
  <1>4. /\ Settled(c, call[c].pc, "rejected") \in CallRecords
        /\ Settled(c, call[c].pc, "rejected").pc = call[c].pc
        /\ Settled(c, call[c].pc, "rejected").kind = call[c].kind
        /\ Settled(c, call[c].pc, "rejected").result \in {"resolved", "rejected"}
        /\ ~Settled(c, call[c].pc, "rejected").timer
    BY <1>1, SettledRecord
  <1>5. /\ rec \in CallRecords /\ rec.pc = call[c].pc /\ rec.kind = call[c].kind
        /\ rec.result \in {"resolved", "rejected"} /\ ~rec.timer /\ ~rec.abortable
    BY <1>4 DEF CallRecords
  <1> HIDE DEF st, rec
  <1>6. /\ closing' \in [CloseIds -> CloseRecords]
        /\ \A j \in CloseIds : j # c => closing'[j] = closing[j]
        /\ \A j \in CloseIds : closing'[j].drives => closing'[j].pc \in {"lock", "teardown"}
        /\ DisconnectingIsOwned' /\ lc' \in States /\ ~Establishing(lc')
    BY <1>1, <1>2, <1>3, RequestCloseHolds
      DEF AfterReject, Failed, CloseRequested, Started, IInv, Types, CallRecords
  <1>7. ClosesOnce'
    BY <1>1, <1>5, <1>6, <1>2, SetCallWrites DEF IInv, ClosesOnce, InFlight, CloseIds
  <1> QED
    BY <1>1, <1>2, <1>5, <1>6, <1>7, CallAnswered DEF IInv, Types

LEMMA FirstMessageTimeoutHolds ==
  ASSUME IInv, NEW c \in Calls, FirstMessageTimeout(c)
  PROVE  IInv'
  <1>1. /\ c \in CloseIds /\ call[c].pc = "first" /\ Finish(c, "rejected")
        /\ UNCHANGED <<attempt, sockOwner, sock>>
        /\ sock \in [Calls -> SockStates] /\ lc \in States
    BY DEF FirstMessageTimeout, transport, IInv, Types, CloseIds
  <1>2. CASE closing[c].pc \in {"idle", "done"}
    <2> DEFINE rec == Settled(c, "done", "rejected")
    <2>1. /\ rec \in CallRecords /\ rec.pc = "done" /\ rec.kind = call[c].kind
          /\ rec.result \in {"resolved", "rejected"} /\ ~rec.timer /\ ~rec.abortable
      BY <1>1, SettledRecord
    <2>2. SetCall(c, rec)
      BY <1>1 DEF Finish
    <2> HIDE DEF rec
    <2>3. /\ closing' \in [CloseIds -> CloseRecords]
          /\ \A j \in CloseIds : j # c => closing'[j] = closing[j]
          /\ \A j \in CloseIds : closing'[j].drives => closing'[j].pc \in {"lock", "teardown"}
          /\ DisconnectingIsOwned' /\ lc' \in States /\ ~Establishing(lc')
      BY <1>1, <1>2, RequestCloseHolds
        DEF AfterReject, Failed, CloseRequested, Started, IInv, Types, CallRecords, FirstMessageTimeout
    <2> QED
      BY <1>1, <2>1, <2>2, <2>3, CallAnswered, SetCallWrites DEF IInv, ClosesOnce, InFlight, CloseIds
  <1> QED
    BY <1>2, <1>1, FinishHolds DEF FirstMessageTimeout, IInv, ClosesOnce, InFlight

LEMMA StutterHolds ==
  ASSUME IInv,
         UNCHANGED <<lc, attempt, sock, sockOwner, call, closing>>
  PROVE  IInv'
  BY SocketStep DEF IInv, Types

LEMMA NextHolds ==
  ASSUME IInv, [Next]_vars
  PROVE  IInv'
  <1>1. ASSUME NEW c \in Calls, CallStep(c)
        PROVE  IInv'
    BY CloseSettledHolds, ConnectionLockedHolds, ParamsReadyHolds, ReplacedHolds, GiveUpHolds,
       FirstMessageTimeoutHolds, ClassifiedHolds, <1>1 DEF ConnectTimeout, IInv, ClosesOnce, CallStep
  <1>2. CASE Environment
    BY EstablishHolds, SocketOpensHolds, SocketFailsHolds, SocketClosesHolds, GiveUpHolds,
       FirstMessageHolds, CloseHolds, <1>2, PingTimeoutHolds DEF Abort, Environment
  <1>3. CASE UNCHANGED vars
    BY <1>3, StutterHolds DEF vars
  <1> QED
    BY <1>1, <1>2, <1>3, StutterHolds, CloseStepHolds DEF Next, ReportLoss, machine, transport

-----------------------------------------------------------------------------
\* "disconnecting" is left to exactly one close, for any number of overlapping
\* closes: SignalClientStateMachine's state cannot become a trap.
THEOREM ClosingIsNoTrap == Spec => []DisconnectingIsOwned
  <1>1. IInv => DisconnectingIsOwned
    BY DEF IInv
  <1> QED
    BY <1>1, InitHolds, NextHolds, PTL DEF Spec

\* "connecting" and "reconnecting" always belong to a pending call, for any number
\* of calls: SignalClient.join reports every failure of connect().
THEOREM StartingIsNoTrap == Spec => []EstablishingIsOwned
  <1>1. IInv => EstablishingIsOwned
    BY DEF IInv, StartedByRunning, EstablishingIsOwned
  <1> QED
    BY <1>1, InitHolds, NextHolds, PTL DEF Spec

\* SignalClientStateMachine: for any number of calls and closes, none of the states between
\* two settled ones is left to nobody.
THEOREM LifecycleIsNoTrap == Spec => []LifecycleIsOwned
  <1>1. DisconnectingIsOwned /\ EstablishingIsOwned => LifecycleIsOwned
    BY DEF LifecycleIsOwned
  <1> QED
    BY <1>1, ClosingIsNoTrap, StartingIsNoTrap, PTL

-----------------------------------------------------------------------------
(* Lock queues. *)

\* A lock's queue holds everyone who waits for it or has it, once.
IsQueue(q, W) ==
  /\ q \in Seq(W)
  /\ \A i, j \in DOMAIN q : q[i] = q[j] => i = j
  /\ \A w \in W : \E i \in DOMAIN q : q[i] = w

Ahead(q, a, b) == \E i, j \in DOMAIN q : i < j /\ q[i] = a /\ q[j] = b

LEMMA QueueJoined ==
  ASSUME NEW W, NEW q, IsQueue(q, W), NEW x, x \notin W
  PROVE  /\ IsQueue(Append(q, x), W \cup {x})
         /\ Append(q, x) # <<>>
         /\ IF q = <<>> THEN Head(Append(q, x)) = x ELSE Head(Append(q, x)) = Head(q)
         /\ \A a, b : Ahead(q, a, b) => Ahead(Append(q, x), a, b)
         /\ \A a \in W : Ahead(Append(q, x), a, x)
  <1> DEFINE r == Append(q, x)
  <1>1. /\ q \in Seq(W \cup {x}) /\ q \in Seq(W) /\ Len(q) \in Nat
        /\ DOMAIN q = 1..Len(q)
        /\ \A i \in 1..Len(q) : q[i] \in W
    BY ElementOfSeq DEF IsQueue
  <1>2. /\ r \in Seq(W \cup {x}) /\ Len(r) = Len(q) + 1
        /\ DOMAIN r = 1..(Len(q) + 1)
        /\ \A i \in 1..Len(q) : r[i] = q[i]
        /\ r[Len(q) + 1] = x
    BY <1>1, AppendProperties
  <1> HIDE DEF r
  <1>3. \A w \in W \cup {x} : \E i \in DOMAIN r : r[i] = w
    BY <1>1, <1>2 DEF IsQueue
  <1>4. Len(r) # 0 /\ Head(r) = r[1] /\ r # <<>>
    BY <1>1, <1>2
  <1>5. IF q = <<>> THEN Head(r) = x ELSE Head(r) = Head(q)
    BY <1>1, EmptySeq, <1>2, <1>4
  <1>6. ASSUME NEW a, NEW b, Ahead(q, a, b) PROVE Ahead(r, a, b)
    BY <1>6, <1>1, <1>2 DEF Ahead
  <1>7. ASSUME NEW a \in W PROVE Ahead(r, a, x)
    BY <1>1, <1>2 DEF IsQueue, Ahead
  <1> QED
    BY <1>2, <1>3, <1>4, <1>5, <1>6, <1>7, <1>1 DEF IsQueue, r

LEMMA QueueServed ==
  ASSUME NEW W, NEW q, IsQueue(q, W), q # <<>>
  PROVE  /\ Head(q) \in W
         /\ IsQueue(Tail(q), W \ {Head(q)})
         /\ \A a, b : Ahead(q, a, b) /\ a # Head(q) => Ahead(Tail(q), a, b)
         /\ \A a, b : Ahead(q, a, b) => b # Head(q)
  <1> DEFINE r == Tail(q)
             h == Head(q)
  <1>1. /\ q \in Seq(W) /\ Len(q) \in Nat /\ Len(q) >= 1
        /\ DOMAIN q = 1..Len(q)
        /\ h = q[1]
        /\ \A i \in 1..Len(q) : q[i] \in W
    BY ElementOfSeq, EmptySeq DEF IsQueue
  <1>2. /\ r \in Seq(W) /\ Len(r) = Len(q) - 1
        /\ DOMAIN r = 1..(Len(q) - 1)
        /\ \A i \in 1..(Len(q) - 1) : r[i] = q[i + 1]
    BY <1>1, HeadTailProperties
  <1> HIDE DEF r, h
  <1>3. \A i \in 1..Len(r) : r[i] \in W \ {h}
    <2> TAKE i \in 1..Len(r)
    <2>1. i + 1 \in 1..Len(q) /\ r[i] = q[i + 1] /\ 1 \in 1..Len(q) /\ i + 1 # 1
      BY <1>1, <1>2
    <2> QED
      BY <2>1, <1>1 DEF IsQueue
  <1>4. r \in Seq(W \ {h})
    BY <1>1, <1>2, <1>3, SeqDef
  <1>5. ASSUME NEW i \in DOMAIN r, NEW j \in DOMAIN r, r[i] = r[j] PROVE i = j
    <2>1. /\ i \in 1..(Len(q) - 1) /\ j \in 1..(Len(q) - 1)
          /\ i + 1 \in DOMAIN q /\ j + 1 \in DOMAIN q
          /\ q[i + 1] = q[j + 1]
      BY <1>1, <1>2, <1>5
    <2> QED
      BY <2>1 DEF IsQueue
  <1>6. \A w \in W \ {h} : \E i \in DOMAIN r : r[i] = w
    <2> TAKE w \in W \ {h}
    <2>1. PICK i \in DOMAIN q : q[i] = w
      BY DEF IsQueue
    <2>2. i - 1 \in 1..(Len(q) - 1) /\ (i - 1) + 1 = i
      BY <2>1, <1>1
    <2> QED
      BY <2>1, <2>2, <1>2
  <1>7. ASSUME NEW a, NEW b, Ahead(q, a, b), a # h PROVE Ahead(r, a, b)
    <2>1. PICK i, j \in DOMAIN q : i < j /\ q[i] = a /\ q[j] = b
      BY <1>7 DEF Ahead
    <2>2. /\ i - 1 \in DOMAIN r /\ j - 1 \in DOMAIN r /\ i - 1 < j - 1
          /\ r[i - 1] = a /\ r[j - 1] = b
      BY <2>1, <1>1, <1>2, <1>7
    <2> QED
      BY <2>2 DEF Ahead
  <1>8. ASSUME NEW a, NEW b, Ahead(q, a, b) PROVE b # h
    BY <1>8, <1>1 DEF Ahead, IsQueue
  <1> QED
    BY <1>4, <1>5, <1>6, <1>7, <1>8, <1>1 DEF IsQueue, r, h

\* A queue with one member.
LEMMA QueueOfOne ==
  ASSUME NEW k, NEW q, IsQueue(q, {k})
  PROVE  q # <<>> /\ Head(q) = k /\ Tail(q) = <<>>
  BY QueueServed, ElementOfSeq, EmptySeq DEF IsQueue

-----------------------------------------------------------------------------
(* What else holds of the calls. *)

ConnWaiting == {c \in Calls : call[c].pc = "lock" \/ InBody(c)}

\* connectionLock is granted in the order of the calls, and a body runs with it.
LockInOrder ==
  /\ IsQueue(connQ, ConnWaiting)
  /\ \A c, d \in ConnWaiting : c < d => Ahead(connQ, c, d)
  /\ \A c \in Calls : InBody(c) => Head(connQ) = c

\* Nobody is answered before it could have a transport, unless the owner has gone.
EarlyIsPending ==
  /\ aborted => \A c \in Calls : ~InFlight(c)
  /\ \A c \in Calls :
       /\ call[c].abortable => InFlight(c)
       /\ call[c].timer => call[c].pc \in {"replace", "opening"}
       /\ call[c].pc \in {"lock", "params"} => InFlight(c)
       /\ call[c].pc = "replace" => InFlight(c) \/ aborted
  /\ \A c, d \in Calls :
       c < d /\ call[c].pc \in {"lock", "params", "replace"} => call[d].result = "none"

\* No socket belongs to an attempt that has not begun, and no two to the same one: a
\* call that has the lock, or waits for it, has outdated the sockets of those before it.
OwnersInOrder ==
  /\ \A c \in Calls : sockOwner[c] <= attempt
  /\ \A c \in Calls : call[c].result = "none" => sock[c] = "none"
  /\ \A c, d \in Calls : c < d /\ d \in ConnWaiting => sockOwner[c] < attempt
  /\ \A c, d \in Calls :
       /\ sock[c] # "none" /\ sockOwner[c] = attempt
       /\ sock[d] # "none" /\ sockOwner[d] = attempt
       => c = d
  /\ attempt = 0 \/ \E c \in Calls : /\ attempt <= c /\ call[c].pc # "settle"
                                     /\ call[c].result # "none"

CallsInv == LockInOrder /\ EarlyIsPending /\ OwnersInOrder

(* What a step does to the calls. *)

OnlyCall(c) == \A d \in Calls : d # c => call'[d] = call[d]
SocksKept == \A d \in Calls : sock'[d] = "none" <=> sock[d] = "none"
Answered(r) == r \in {"resolved", "rejected"}
Unguarded(c) == ~call'[c].abortable /\ ~call'[c].timer

Still == UNCHANGED <<call, connQ, attempt, sockOwner, aborted>> /\ SocksKept

Begins(c) ==
  /\ call[c].pc \in {"idle", "settle"} /\ (call[c].pc = "idle" => ~aborted)
  /\ \A d \in Calls : d < c => Answered(call[d].result)
  /\ OnlyCall(c) /\ call'[c].pc = "lock" /\ call'[c].result = "pending" /\ Unguarded(c)
  /\ connQ' = Append(connQ, c) /\ attempt' = attempt + 1
  /\ UNCHANGED <<sockOwner, aborted, sock>>

Refused(c) ==
  /\ call[c].pc \in {"idle", "settle"} /\ (call[c].pc = "idle" => ~aborted)
  /\ \A d \in Calls : d < c => Answered(call[d].result)
  /\ OnlyCall(c) /\ call'[c].pc = "done" /\ call'[c].result = "rejected" /\ Unguarded(c)
  /\ UNCHANGED <<connQ, attempt, sockOwner, aborted, sock>>

Waits(c) ==
  /\ call[c].pc = "idle" /\ ~aborted
  /\ \A d \in Calls : d < c => Answered(call[d].result)
  /\ OnlyCall(c) /\ call'[c].pc = "settle" /\ call'[c].result = "pending" /\ Unguarded(c)
  /\ UNCHANGED <<connQ, attempt, sockOwner, aborted, sock>>

Takes(c) ==
  /\ call[c].pc = "lock" /\ connQ # <<>> /\ Head(connQ) = c
  /\ OnlyCall(c) /\ call'[c].pc = "params" /\ call'[c].result = call[c].result
  /\ call'[c].abortable = call[c].abortable /\ call'[c].timer = call[c].timer
  /\ UNCHANGED <<connQ, attempt, sockOwner, aborted, sock>>

Moves(c) ==
  /\ \/ call[c].pc = "params" /\ call'[c].pc = "replace"
     \/ call[c].pc = "opening" /\ call'[c].pc \in {"first", "validate"} /\ ~call'[c].timer
  /\ OnlyCall(c) /\ call'[c].result = call[c].result
  /\ call'[c].abortable => call[c].abortable \/ call[c].pc = "params"
  /\ UNCHANGED <<connQ, attempt, sockOwner, aborted>> /\ SocksKept

Opens(c) ==
  /\ call[c].pc \in {"params", "replace"}
  /\ OnlyCall(c) /\ call'[c].pc = "opening" /\ call'[c].result = call[c].result
  /\ call'[c].abortable => call[c].abortable \/ call[c].pc = "params"
  /\ sockOwner' = [sockOwner EXCEPT ![c] = attempt]
  /\ \A d \in Calls : d # c => sock'[d] = sock[d]
  /\ UNCHANGED <<connQ, attempt, aborted>>

Ends(c) ==
  /\ InBody(c)
  /\ OnlyCall(c) /\ call'[c].pc = "done" /\ Answered(call'[c].result) /\ Unguarded(c)
  /\ connQ' = Tail(connQ)
  /\ UNCHANGED <<attempt, sockOwner, aborted>> /\ SocksKept

GivesUp(c) ==
  /\ call[c].abortable
  /\ OnlyCall(c) /\ call'[c].pc = call[c].pc /\ Answered(call'[c].result) /\ Unguarded(c)
  /\ aborted' \/ (aborted' = aborted /\ call[c].pc # "replace")
  /\ UNCHANGED <<connQ, attempt, sockOwner>> /\ SocksKept

CallEffect ==
  \/ Still
  \/ \E c \in Calls : \/ Begins(c) \/ Refused(c) \/ Waits(c) \/ Takes(c) \/ Moves(c)
                      \/ Opens(c) \/ Ends(c) \/ GivesUp(c)

-----------------------------------------------------------------------------
(* Each of them preserves CallsInv. *)

\* The lock's queue stays as it is.
LEMMA SameQueue ==
  ASSUME LockInOrder, UNCHANGED connQ,
         \A c \in Calls : /\ InBody(c)' <=> InBody(c)
                          /\ call'[c].pc = "lock" <=> call[c].pc = "lock"
  PROVE  LockInOrder'
  BY DEF ConnWaiting, LockInOrder

LEMMA StillHolds ==
  ASSUME IInv, IInv', CallsInv, Still
  PROVE  CallsInv'
  BY SameQueue DEF Still, CallsInv, InBody, EarlyIsPending, InFlight, SocksKept, OwnersInOrder, ConnWaiting

LEMMA BeginsHolds ==
  ASSUME IInv, IInv', CallsInv, NEW c \in Calls, Begins(c)
  PROVE  CallsInv'
  <1> USE CallsAssumption DEF CallsInv
  <1>1. \A d \in Calls : c < d => call[d].result = "none" /\ call[d].pc = "idle"
    BY DEF Begins, Answered, IInv, OneInFlight, InFlight
  <1>2. \A d \in Calls : d < c => call[d].pc \notin {"lock", "params", "replace"}
    BY DEF Begins, Answered, EarlyIsPending, IInv, OneInFlight, InFlight
  <1>3. ~aborted
    BY DEF Begins, EarlyIsPending, IInv, OneInFlight, InFlight
  <1>4. LockInOrder'
    <2>1. c \notin ConnWaiting /\ ConnWaiting' = ConnWaiting \cup {c}
      BY DEF Begins, OnlyCall, ConnWaiting, InBody
    <2>2. \A d \in ConnWaiting : d < c
      BY <1>1, <2>1 DEF ConnWaiting, InBody, Calls
    <2>3. /\ IsQueue(connQ', ConnWaiting')
          /\ connQ # <<>> => Head(connQ') = Head(connQ)
          /\ \A a, b : Ahead(connQ, a, b) => Ahead(connQ', a, b)
          /\ \A a \in ConnWaiting : Ahead(connQ', a, c)
      BY <2>1, QueueJoined DEF Begins, LockInOrder
    <2>4. \A a, b \in ConnWaiting' : a < b => Ahead(connQ', a, b)
      BY <2>1, <2>2, <2>3 DEF LockInOrder, Calls, ConnWaiting
    <2>5. ASSUME NEW d \in Calls, InBody(d)' PROVE Head(connQ') = d
      <3>1. InBody(d) /\ d \in ConnWaiting
        BY <2>5 DEF Begins, OnlyCall, InBody, ConnWaiting
      <3>2. connQ # <<>>
        BY <3>1 DEF LockInOrder, IsQueue
      <3> QED
        BY <3>1, <3>2, <2>3 DEF LockInOrder
    <2> QED
      BY <2>3, <2>4, <2>5 DEF LockInOrder
  <1>5. EarlyIsPending'
    BY <1>1, <1>2, <1>3 DEF Begins, OnlyCall, Unguarded, EarlyIsPending, InFlight, Calls
  <1>6. OwnersInOrder'
    <2>1. \A d \in Calls : sockOwner'[d] <= attempt /\ sockOwner'[d] < attempt'
      BY DEF Begins, OwnersInOrder, IInv, Types
    <2>2. \A d \in Calls : call'[d].result = "none" => sock'[d] = "none"
      BY DEF Begins, OnlyCall, OwnersInOrder
    <2>3. attempt' <= c
      <3>1. CASE attempt = 0
        BY <3>1 DEF Begins, Calls
      <3>2. ASSUME NEW d \in Calls, attempt <= d, call[d].pc # "settle", call[d].result # "none"
            PROVE  attempt' <= c
        <4>1. d < c
          BY <3>2, <1>1 DEF Begins, Calls, IInv, OneInFlight
        <4> QED
          BY <4>1, <3>2 DEF Begins, Calls, IInv, Types
      <3> QED
        BY <3>1, <3>2 DEF OwnersInOrder
    <2>4. call'[c].pc # "settle" /\ call'[c].result # "none"
      BY DEF Begins
    <2>5. /\ \A d \in Calls : sockOwner'[d] \in Nat
          /\ attempt' \in Nat
      BY DEF IInv, Types
    <2> QED
      BY <2>1, <2>2, <2>3, <2>4, <2>5 DEF OwnersInOrder
  <1> QED
    BY <1>4, <1>5, <1>6

LEMMA RefusedHolds ==
  ASSUME IInv, IInv', CallsInv, NEW c \in Calls, Refused(c)
  PROVE  CallsInv'
  <1> USE CallsAssumption DEF CallsInv
  <1>1. EarlyIsPending'
    BY DEF Refused, OnlyCall, Unguarded, EarlyIsPending, InFlight, Calls, Answered, IInv, OneInFlight
  <1> QED
    BY <1>1, SameQueue DEF Refused, OnlyCall, InBody, OwnersInOrder, ConnWaiting

LEMMA WaitsHolds ==
  ASSUME IInv, IInv', CallsInv, NEW c \in Calls, Waits(c)
  PROVE  CallsInv'
  <1> USE CallsAssumption DEF CallsInv
  <1>1. EarlyIsPending'
    BY DEF Waits, OnlyCall, Unguarded, EarlyIsPending, InFlight, Calls, Answered, IInv, OneInFlight
  <1> QED
    BY <1>1, SameQueue DEF Waits, OnlyCall, InBody, IInv, OneInFlight, OwnersInOrder, ConnWaiting

LEMMA TakesHolds ==
  ASSUME IInv, IInv', CallsInv, NEW c \in Calls, Takes(c)
  PROVE  CallsInv'
  <1> USE CallsAssumption DEF CallsInv
  <1>1. ConnWaiting' = ConnWaiting
    BY DEF Takes, OnlyCall, ConnWaiting, InBody
  <1>2. OwnersInOrder'
    BY <1>1 DEF Takes, OnlyCall, OwnersInOrder
  <1> QED
    BY <1>2, <1>1 DEF Takes, OnlyCall, InBody, LockInOrder, EarlyIsPending, InFlight, Calls

LEMMA MovesHolds ==
  ASSUME IInv, IInv', CallsInv, NEW c \in Calls, Moves(c)
  PROVE  CallsInv'
  <1> USE CallsAssumption DEF CallsInv
  <1>1. OwnersInOrder'
    BY DEF Moves, OnlyCall, SocksKept, OwnersInOrder, ConnWaiting, InBody
  <1> QED
    BY <1>1, SameQueue DEF Moves, OnlyCall, InBody, EarlyIsPending, InFlight, Calls

LEMMA OpensHolds ==
  ASSUME IInv, IInv', CallsInv, NEW c \in Calls, Opens(c)
  PROVE  CallsInv'
  <1> USE CallsAssumption DEF CallsInv
  <1>1. OwnersInOrder'
    <2>1. /\ sockOwner'[c] = attempt
          /\ \A d \in Calls : d # c => sockOwner'[d] = sockOwner[d]
          /\ attempt' = attempt /\ attempt \in Nat
      BY DEF Opens, IInv, Types
    <2>2. \A d \in Calls : c < d => sock'[d] = "none" /\ d \notin ConnWaiting
      BY DEF Opens, OwnersInOrder, ConnWaiting, InBody, IInv, OneInFlight, Calls, EarlyIsPending
    <2>3. \A a, b \in Calls : a < b /\ b \in ConnWaiting => sockOwner'[a] < attempt
      BY <2>1, <2>2 DEF OwnersInOrder
    <2>4. \A a \in Calls : sock'[a] # "none" /\ sockOwner'[a] = attempt => a = c
      BY <2>1, <2>2 DEF Calls, IInv, Types, Opens, OwnersInOrder, ConnWaiting, InBody
    <2>5. \A a \in Calls : sockOwner'[a] <= attempt
      BY <2>1 DEF OwnersInOrder
    <2>6. attempt = 0 \/ \E a \in Calls : /\ attempt <= a /\ call'[a].pc # "settle"
                                        /\ call'[a].result # "none"
      BY DEF OwnersInOrder, Opens, OnlyCall
    <2> QED
      BY <2>1, <2>3, <2>4, <2>5, <2>6 DEF OwnersInOrder, Opens, OnlyCall, ConnWaiting, InBody, IInv, OneInFlight
  <1> QED
    BY <1>1, SameQueue DEF Opens, OnlyCall, InBody, EarlyIsPending, InFlight, Calls

LEMMA EndsHolds ==
  ASSUME IInv, IInv', CallsInv, NEW c \in Calls, Ends(c)
  PROVE  /\ CallsInv'
         /\ \A d \in Calls : ~InBody(d)'
         /\ \A d \in Calls : call[d].pc = "lock" => c < d
  <1> USE CallsAssumption DEF CallsInv
  <1>0. /\ connQ # <<>> /\ Head(connQ) = c /\ c \in ConnWaiting
        /\ ConnWaiting' = ConnWaiting \ {c}
        /\ IsQueue(connQ, ConnWaiting)
    <2>1. ConnWaiting' = ConnWaiting \ {c}
      BY DEF Ends, OnlyCall, ConnWaiting, InBody
    <2>2. c \in ConnWaiting /\ Head(connQ) = c /\ IsQueue(connQ, ConnWaiting)
      BY DEF Ends, ConnWaiting, LockInOrder
    <2> QED
      BY <2>1, <2>2 DEF IsQueue
  <1>q. /\ IsQueue(connQ', ConnWaiting')
        /\ \A a, b : Ahead(connQ, a, b) /\ a # c => Ahead(connQ', a, b)
        /\ \A a, b : Ahead(connQ, a, b) => b # c
    BY <1>0, QueueServed DEF Ends
  <1>b. \A d \in Calls : ~InBody(d)'
    BY <1>0 DEF Ends, OnlyCall, LockInOrder, InBody
  <1>l. \A d \in Calls : call[d].pc = "lock" => c < d
    BY <1>0, <1>q DEF LockInOrder, ConnWaiting, Ends, InBody, Calls
  <1>1. LockInOrder'
    BY <1>0, <1>q, <1>b DEF LockInOrder
  <1>2. EarlyIsPending'
    <2>1. call[c].result # "none"
      BY DEF Ends, InBody, IInv, OneInFlight
    <2> QED
      BY <2>1 DEF Ends, OnlyCall, Unguarded, EarlyIsPending, InFlight, Answered
  <1>3. OwnersInOrder'
    <2>1. \A d \in Calls : call'[d].result = "none" => call[d].result = "none"
      BY DEF Ends, OnlyCall, Answered
    <2>2. \A d \in Calls : call[d].pc # "settle" /\ call[d].result # "none" =>
             call'[d].pc # "settle" /\ call'[d].result # "none"
      BY DEF Ends, OnlyCall, Answered
    <2> QED
      BY <1>0, <2>1, <2>2 DEF Ends, SocksKept, OwnersInOrder
  <1> QED
    BY <1>1, <1>2, <1>3, <1>b, <1>l

LEMMA GivesUpHolds ==
  ASSUME IInv, IInv', CallsInv, NEW c \in Calls, GivesUp(c)
  PROVE  CallsInv'
  <1> USE CallsAssumption DEF CallsInv
  <1>1. EarlyIsPending'
    BY OnlyOneInFlight DEF GivesUp, OnlyCall, InFlight, Answered, Unguarded, EarlyIsPending, IInv, ClosesOnce
  <1> QED
    BY <1>1, SameQueue DEF GivesUp, OnlyCall, InBody, ConnWaiting, Answered, SocksKept, OwnersInOrder

-----------------------------------------------------------------------------
(* Every step has one of these effects. *)

OtherTypes ==
  /\ ws \in Calls \cup {None} /\ writer \in Calls \cup {None}
  /\ ping \in BOOLEAN /\ hasOptions \in BOOLEAN
  /\ readers \subseteq Calls /\ reports \subseteq Calls
  /\ aborted \in BOOLEAN /\ isClosed \in BOOLEAN

\* Transports close, and the one in use may be dropped with that.
Fades ==
  /\ \A d \in Calls : \/ sock'[d] = sock[d]
                      \/ sock[d] # "none" /\ sock'[d] \in {"aborting", "closing", "closed"}
  /\ \/ UNCHANGED <<ws, writer>>
     \/ /\ ws' = None /\ writer' = None
        /\ ws # None => sock'[ws] \notin {"connecting", "open"}

LEMMA TearDownFades ==
  ASSUME IInv, OtherTypes, NEW s \in [Calls -> SockStates], TearDown(s),
         \A d \in Calls : \/ s[d] = sock[d]
                          \/ sock[d] # "none" /\ s[d] \in {"aborting", "closing", "closed"}
  PROVE  Fades /\ SocksKept
  BY CallsAssumption, ClosersAssumption
     DEF TearDown, ClosingSocket, Fades, SocksKept, OtherTypes, SockStates

LEMMA HandleOnCloseFades ==
  ASSUME IInv, OtherTypes, NEW c \in Calls, NEW id, sock[c] # "none",
         HandleOnClose([sock EXCEPT ![c] = "closed"], id), Lost(lc, id) = lc => writer' = writer
  PROVE  Fades /\ SocksKept
  <1> DEFINE s == [sock EXCEPT ![c] = "closed"]
  <1>1. /\ s \in [Calls -> SockStates] /\ s[c] = "closed"
        /\ \A d \in Calls : d # c => s[d] = sock[d]
    BY DEF IInv, Types, SockStates
  <1>2. /\ Lost(lc, id) # lc => TearDown(s)
        /\ Lost(lc, id) = lc => sock' = s /\ UNCHANGED <<ws, writer>>
    BY DEF HandleOnClose
  <1> HIDE DEF s
  <1>3. CASE Lost(lc, id) = lc
    BY <1>3, <1>2, <1>1 DEF Fades, SocksKept
  <1> QED
    BY <1>3, <1>2, <1>1, TearDownFades

LEMMA FinishEnds ==
  ASSUME IInv, NEW c \in Calls, NEW result \in {"resolved", "rejected"}, Finish(c, result),
         InBody(c), UNCHANGED <<attempt, sockOwner, aborted>>, SocksKept
  PROVE  Ends(c)
  <1> DEFINE rec == Settled(c, "done", result)
  <1>1. /\ rec \in CallRecords /\ rec.pc = "done"
        /\ rec.result \in {"resolved", "rejected"} /\ ~rec.timer /\ ~rec.abortable
    BY SettledRecord DEF InBody
  <1>2. SetCall(c, rec) /\ connQ' = Tail(connQ)
    BY DEF Finish
  <1> HIDE DEF rec
  <1> QED
    BY <1>1, <1>2, SetCallWrites DEF Ends, Answered, Unguarded, IInv, OnlyCall

LEMMA BeginEffect ==
  ASSUME IInv, NEW c \in Calls, NEW kind \in {"join", "reconnect"}, Begin(c, kind),
         call[c].pc \in {"idle", "settle"}, call[c].pc = "idle" => ~aborted,
         \A d \in Calls : d < c => Answered(call[d].result),
         UNCHANGED <<sock, sockOwner, aborted>>
  PROVE  IF CanStart(kind, lc)
         THEN Begins(c) /\ lc' = Started(kind) /\ call'[c].kind = kind
         ELSE Refused(c) /\ lc' = lc
  <1>1. CASE CanStart(kind, lc)
    <2> DEFINE rec == CallRecord("lock", kind, "pending", FALSE, FALSE)
    <2>1. /\ rec \in CallRecords /\ rec.pc = "lock" /\ rec.result = "pending"
          /\ ~rec.timer /\ ~rec.abortable /\ rec.kind = kind
      BY DEF CallRecord, CallRecords
    <2>2. /\ SetCall(c, rec) /\ connQ' = Append(connQ, c) /\ attempt' = attempt + 1
          /\ lc' = Started(kind)
      BY <1>1 DEF Begin
    <2> HIDE DEF rec
    <2> QED
      BY <1>1, <2>1, <2>2, SetCallWrites DEF Begins, Unguarded, IInv, OnlyCall
  <1>2. CASE ~CanStart(kind, lc)
    <2> DEFINE rec == CallRecord("done", kind, "rejected", FALSE, FALSE)
    <2>1. /\ rec \in CallRecords /\ rec.pc = "done" /\ rec.result = "rejected"
          /\ ~rec.timer /\ ~rec.abortable
      BY DEF CallRecord, CallRecords
    <2>2. SetCall(c, rec) /\ UNCHANGED <<connQ, attempt, lc>>
      BY <1>2 DEF Begin
    <2> HIDE DEF rec
    <2> QED
      BY <1>2, <2>1, <2>2, SetCallWrites DEF Refused, Unguarded, IInv, OnlyCall
  <1> QED
    BY <1>1, <1>2

\* Establish, when the lifecycle is not being closed.
LEMMA EstablishBegins ==
  ASSUME IInv, NEW c \in Calls, NEW kind \in {"join", "reconnect"}, Establish(c, kind),
         lc # "disconnecting"
  PROVE  /\ UNCHANGED <<ws, writer, closing, closingQ, readers, reports, isClosed>>
         /\ ping' \in {ping, FALSE} /\ hasOptions' \in {hasOptions, TRUE}
         /\ \A k \in CloseIds : closing[k].pc \notin {"lock", "teardown"}
         /\ IF CanStart(kind, lc)
            THEN Begins(c) /\ lc' = Started(kind)
            ELSE Refused(c) /\ lc' = lc /\ ping' = ping
  BY BeginEffect DEF Establish, Answered, ask, transport, IInv, DisconnectingIsOwned, Begin

\* Establish, when it has to wait for a close.
LEMMA EstablishWaits ==
  ASSUME IInv, NEW c \in Calls, NEW kind \in {"join", "reconnect"}, Establish(c, kind),
         lc = "disconnecting"
  PROVE  /\ Waits(c)
         /\ closingQ' = Append(closingQ, c)
         /\ UNCHANGED <<lc, ws, writer, closing, ping, readers, reports, hasOptions, isClosed>>
         /\ \A k \in CloseIds : closing[k].pc \in {"lock", "teardown"} => closing[k].drives
  <1> DEFINE rec == CallRecord("settle", kind, "pending", FALSE, FALSE)
  <1>1. /\ rec \in CallRecords /\ rec.pc = "settle" /\ rec.result = "pending"
        /\ ~rec.timer /\ ~rec.abortable
    BY DEF CallRecord, CallRecords
  <1>2. SetCall(c, rec)
    BY DEF Establish
  <1> HIDE DEF rec
  <1> QED
    BY <1>1, <1>2, SetCallWrites
      DEF Waits, Unguarded, Establish, Answered, ask, transport, machine, IInv, OnlyCall

LEMMA CloseSettledBegins ==
  ASSUME IInv, NEW c \in Calls, CloseSettled(c)
  PROVE  /\ UNCHANGED <<ws, writer, closing, readers, reports, isClosed>>
         /\ ping' \in {ping, FALSE} /\ hasOptions' \in {hasOptions, TRUE}
         /\ closingQ # <<>> /\ Head(closingQ) = c /\ closingQ' = Tail(closingQ)
         /\ call[c].pc = "settle"
         /\ \/ /\ Begins(c) /\ lc # "disconnecting"
               /\ lc' \in {"connecting", "reconnecting"}
            \/ Refused(c) /\ lc' = lc /\ ping' = ping
  <1>1. /\ call[c].pc = "settle" /\ Begin(c, call[c].kind)
        /\ call[c].kind \in {"join", "reconnect"}
        /\ \A d \in Calls : d < c => Answered(call[d].result)
        /\ UNCHANGED <<sock, sockOwner, aborted>>
    BY DEF CloseSettled, ask, transport, IInv, Types, CallRecords, OneInFlight, InFlight, Answered
  <1> QED
    BY <1>1, BeginEffect DEF CloseSettled, Holds, ask, transport, CanStart, Started, Begin

LEMMA LockedTakes ==
  ASSUME IInv, NEW c \in Calls, ConnectionLocked(c)
  PROVE  Takes(c)
  <1> DEFINE rec == [call[c] EXCEPT !.pc = "params"]
  <1>1. /\ rec \in CallRecords /\ rec.pc = "params"
        /\ rec.result = call[c].result /\ rec.timer = call[c].timer
        /\ rec.abortable = call[c].abortable
    BY DEF IInv, Types, CallRecords
  <1>2. SetCall(c, rec)
    BY DEF ConnectionLocked
  <1> HIDE DEF rec
  <1> QED
    BY <1>1, <1>2, SetCallWrites DEF Takes, ConnectionLocked, Holds, ask, transport, machine, IInv, OnlyCall

LEMMA OpenSocketOpens ==
  ASSUME IInv, NEW c \in Calls, NEW timer \in BOOLEAN, NEW abortable \in BOOLEAN,
         OpenSocket(c, timer, abortable), call[c].pc \in {"params", "replace"},
         abortable => call[c].abortable \/ call[c].pc = "params",
         UNCHANGED <<connQ, attempt, aborted>>
  PROVE  Opens(c) /\ sock'[c] = "connecting"
  <1> DEFINE rec == CallRecord("opening", call[c].kind, call[c].result, timer, abortable)
  <1>1. /\ rec \in CallRecords /\ rec.pc = "opening" /\ rec.result = call[c].result
        /\ rec.abortable = abortable
    BY DEF IInv, Types, CallRecords, CallRecord
  <1>2. SetCall(c, rec) /\ sockOwner' = [sockOwner EXCEPT ![c] = attempt]
    BY DEF OpenSocket
  <1> HIDE DEF rec
  <1>3. sock'[c] = "connecting" /\ \A d \in Calls : d # c => sock'[d] = sock[d]
    BY DEF OpenSocket, IInv, Types
  <1> QED
    BY <1>1, <1>2, <1>3, SetCallWrites DEF Opens, IInv, OnlyCall

LEMMA ParamsReadyEffect ==
  ASSUME IInv, OtherTypes, NEW c \in Calls, ParamsReady(c)
  PROVE  \/ Moves(c) /\ call'[c].pc = "replace" /\ Fades /\ ws' = None
         \/ Opens(c) /\ OpenSocket(c, TRUE, TRUE) /\ sock'[c] = "connecting"
  <1>1. CASE Lingers(sock, ws)
    <2> DEFINE rec == CallRecord("replace", call[c].kind, call[c].result, TRUE, TRUE)
    <2>1. /\ rec \in CallRecords /\ rec.pc = "replace" /\ rec.result = call[c].result
      BY DEF IInv, Types, CallRecords, CallRecord
    <2>2. SetCall(c, rec) /\ TearDown(sock) /\ UNCHANGED <<sockOwner, attempt, connQ, aborted>>
      BY <1>1 DEF ParamsReady, machine, ask
    <2> HIDE DEF rec
    <2>3. Fades /\ SocksKept
      BY <2>2, TearDownFades DEF IInv, Types
    <2> QED
      BY <2>1, <2>2, <2>3, SetCallWrites DEF Moves, ParamsReady, TearDown, IInv, OnlyCall
  <1> QED
    BY <1>1, OpenSocketOpens DEF ParamsReady, machine, ask

LEMMA ReplacedOpens ==
  ASSUME IInv, NEW c \in Calls, Replaced(c)
  PROVE  Opens(c) /\ sock'[c] = "connecting"
  BY OpenSocketOpens DEF Replaced, machine, ask, IInv, Types, CallRecords

LEMMA SocketOpensMoves ==
  ASSUME IInv, NEW c \in Calls, SocketOpens(c)
  PROVE  Moves(c) /\ call'[c].pc = "first"
  <1> DEFINE rec == [call[c] EXCEPT !.pc = "first", !.timer = FALSE]
  <1>1. /\ rec \in CallRecords /\ rec.pc = "first" /\ rec.result = call[c].result
        /\ ~rec.timer /\ rec.abortable = call[c].abortable
    BY DEF IInv, Types, CallRecords
  <1>2. SetCall(c, rec) /\ sock' = [sock EXCEPT ![c] = "open"] /\ sock[c] = "connecting"
    BY DEF SocketOpens
  <1> HIDE DEF rec
  <1>3. SocksKept
    BY <1>2 DEF SocksKept, IInv, Types
  <1> QED
    BY <1>1, <1>3, <1>2, SetCallWrites DEF Moves, SocketOpens, machine, ask, IInv, OnlyCall

LEMMA SocketFailsEffect ==
  ASSUME IInv, OtherTypes, NEW c \in Calls, SocketFails(c)
  PROVE  /\ Fades /\ lc' = Lost(lc, sockOwner[c])
         /\ UNCHANGED <<closing, closingQ, readers, hasOptions, isClosed>>
         /\ IF lc # "connected" THEN Moves(c) /\ call'[c].pc = "validate" ELSE Ends(c)
  <1>1. Fades /\ SocksKept
    BY HandleOnCloseFades DEF SocketFails, HandleOnClose
  <1>2. CASE lc # "connected"
    <2> DEFINE rec == [call[c] EXCEPT !.pc = "validate", !.timer = FALSE]
    <2>1. /\ rec \in CallRecords /\ rec.pc = "validate" /\ rec.result = call[c].result
          /\ ~rec.timer /\ rec.abortable = call[c].abortable
      BY DEF IInv, Types, CallRecords
    <2>2. SetCall(c, rec) /\ UNCHANGED connQ
      BY <1>2 DEF SocketFails
    <2> HIDE DEF rec
    <2> QED
      BY <1>1, <1>2, <2>1, <2>2, SetCallWrites DEF Moves, SocketFails, ask, IInv, OnlyCall
  <1> QED
    BY <1>1, <1>2, FinishEnds DEF SocketFails, ask, InBody

LEMMA SocketClosesEffect ==
  ASSUME IInv, OtherTypes, NEW c \in Calls, SocketCloses(c)
  PROVE  /\ Fades
         /\ IF call[c].pc = "first" THEN Ends(c) ELSE Still
  BY HandleOnCloseFades, FinishEnds DEF SocketCloses, HandleOnClose, Still, ask, InBody

LEMMA ClassifiedEffect ==
  ASSUME IInv, NEW c \in Calls, NEW r \in BOOLEAN, Classified(c, r)
  PROVE  /\ Ends(c) /\ lc' = AfterReject(c, lc, r)
         /\ UNCHANGED <<ws, writer, sock, closing, closingQ, ping, readers, reports, hasOptions,
                        isClosed>>
  BY FinishEnds DEF SocksKept, Classified, transport, InBody, ask

LEMMA FirstMessageEffect ==
  ASSUME IInv, OtherTypes, NEW c \in Calls, NEW msg, FirstMessage(c, msg)
  PROVE  /\ Ends(c) /\ sock[c] = "open" /\ call[c].pc = "first"
         /\ UNCHANGED <<ws, writer, sock, closing, closingQ, reports, hasOptions>>
         /\ isClosed' \in {isClosed, FALSE} /\ (isClosed' # isClosed => InFlight(c))
         /\ \/ /\ Establishing(lc) /\ lc' = "connected" /\ sockOwner[c] = attempt
               /\ ping' = TRUE /\ readers' = readers \cup {c}
            \/ lc' = lc /\ UNCHANGED <<ping, readers>>
            \/ (\E r \in BOOLEAN : lc' = AfterReject(c, lc, r)) /\ UNCHANGED <<ping, readers>>
  <1>1. SocksKept /\ call[c].pc = "first" /\ sock[c] = "open"
        /\ UNCHANGED <<attempt, sockOwner, aborted, ws, writer, sock, closing, closingQ,
                       reports, hasOptions>>
    BY DEF SocksKept, FirstMessage, transport
  <1>2. CASE ValidFirstMessage(c, msg)
    <2>1. /\ Finish(c, "resolved") /\ lc' = Established(lc, sockOwner[c])
          /\ IF lc' # lc THEN ping' = TRUE /\ readers' = readers \cup {c}
                         ELSE UNCHANGED <<ping, readers>>
          /\ isClosed' \in {isClosed, FALSE} /\ (isClosed' # isClosed => InFlight(c))
      <3>1. isClosed \in BOOLEAN
        BY DEF OtherTypes
      <3>2. /\ Finish(c, "resolved") /\ lc' = Established(lc, sockOwner[c])
            /\ IF lc' # lc THEN ping' = TRUE /\ readers' = readers \cup {c}
                           ELSE UNCHANGED <<ping, readers>>
            /\ isClosed' = (isClosed /\ ~(call[c].kind = "join" /\ call[c].result = "pending"))
        BY <1>2 DEF FirstMessage
      <3>3. isClosed' \in {isClosed, FALSE} /\ (isClosed' # isClosed => InFlight(c))
        BY <3>1, <3>2, ZenonT(20) DEF InFlight
      <3> QED
        BY <3>2, <3>3
    <2> QED
      BY <1>1, <2>1, FinishEnds DEF InBody, Established
  <1> QED
    BY <1>2, <1>1, FinishEnds DEF FirstMessage, InBody

LEMMA PingTimeoutEffect ==
  ASSUME IInv, OtherTypes, PingTimeout
  PROVE  /\ Still /\ Fades /\ lc' = Lost(lc, attempt) /\ ping' = FALSE
         /\ UNCHANGED <<closing, closingQ, readers, hasOptions, isClosed>>
         /\ lc' = "connected" => FALSE
  <1>1. /\ lc' = Lost(lc, attempt)
        /\ UNCHANGED <<attempt, sockOwner, connQ, closingQ, call, closing, readers, hasOptions,
                       aborted, isClosed>>
    BY DEF PingTimeout, ask
  <1>2. CASE lc' = lc
    BY <1>1, <1>2 DEF PingTimeout, transport, Still, SocksKept, Fades, Lost
  <1> QED
    BY <1>2, <1>1, TearDownFades DEF PingTimeout, HandleOnClose, IInv, Types, Still, TearDown, Lost

LEMMA ReportLossEffect ==
  ASSUME NEW c \in Calls, ReportLoss(c)
  PROVE  /\ Still /\ Fades
         /\ UNCHANGED <<lc, ws, writer, sock, closing, closingQ, ping, readers, hasOptions,
                        isClosed>>
  BY DEF ReportLoss, Still, SocksKept, Fades, machine, transport, ask

LEMMA GiveUpEffect ==
  ASSUME IInv, NEW c \in Calls, call[c].abortable, GiveUp(c),
         aborted' = TRUE \/ (aborted' = aborted /\ call[c].pc # "replace")
  PROVE  /\ GivesUp(c)
         /\ UNCHANGED <<ws, writer, sock, ping, readers, reports, hasOptions>>
         /\ \E st \in States : /\ RequestClose(c, st) /\ lc' = CloseRequested(st)
                               /\ lc \in {"closed", "disconnecting"} => st = lc
  <1> DEFINE st == IF writer # None /\ lc \in {"connecting", "connected", "reconnecting"}
                   THEN AfterReject(c, lc, TRUE) ELSE lc
             rec == [Settled(c, call[c].pc, "rejected") EXCEPT !.abortable = FALSE]
  <1>1. /\ SetCall(c, rec) /\ RequestClose(c, st)
        /\ lc' = AfterReject(c, CloseRequested(st), TRUE)
        /\ UNCHANGED <<attempt, sockOwner, sock, ws, writer, connQ, ping, readers, reports,
                       hasOptions>>
    BY DEF GiveUp, transport
  <1>2. /\ Settled(c, call[c].pc, "rejected") \in CallRecords
        /\ Settled(c, call[c].pc, "rejected").pc = call[c].pc
        /\ Settled(c, call[c].pc, "rejected").result \in {"resolved", "rejected"}
        /\ ~Settled(c, call[c].pc, "rejected").timer
    BY SettledRecord DEF IInv, ClosesOnce
  <1>3. st \in States /\ (lc \in {"closed", "disconnecting"} => st = lc)
    BY RejectionEndsStart DEF IInv, Types
  <1>4. /\ rec \in CallRecords /\ rec.pc = call[c].pc
        /\ rec.result \in {"resolved", "rejected"} /\ ~rec.timer /\ ~rec.abortable
    BY <1>2 DEF CallRecords
  <1> HIDE DEF st, rec
  <1>5. GivesUp(c)
    BY <1>1, <1>4, SetCallWrites DEF GivesUp, Answered, Unguarded, SocksKept, IInv, OnlyCall
  <1> QED
    BY <1>1, <1>3, <1>5 DEF AfterReject, Failed, CloseRequested, Started, IInv, Types, CallRecords

LEMMA FirstMessageTimeoutEffect ==
  ASSUME IInv, NEW c \in Calls, FirstMessageTimeout(c)
  PROVE  /\ Ends(c) /\ call[c].pc = "first" /\ Drained
         /\ UNCHANGED <<ws, writer, sock, ping, readers, reports, hasOptions, isClosed>>
         /\ IF closing[c].pc \in {"idle", "done"}
            THEN RequestClose(c, lc) /\ lc' = CloseRequested(lc)
            ELSE UNCHANGED <<lc, closing, closingQ>>
  <1>1. ASSUME closing[c].pc \in {"idle", "done"}
        PROVE  RequestClose(c, lc) /\ lc' = CloseRequested(lc)
    BY <1>1 DEF FirstMessageTimeout, AfterReject, Failed, CloseRequested, Started, IInv, Types,
       CallRecords
  <1>2. closing[c].pc \notin {"idle", "done"} => UNCHANGED <<lc, closing, closingQ>>
    BY DEF FirstMessageTimeout
  <1> QED
    BY <1>1, <1>2, FinishEnds DEF FirstMessageTimeout, InBody, transport, ask, SocksKept

LEMMA CloseStepEffect ==
  ASSUME IInv, OtherTypes, NEW k \in CloseIds, CloseStep(k)
  PROVE  /\ Still /\ Fades
         /\ UNCHANGED <<readers, reports, hasOptions, isClosed>>
         /\ closingQ # <<>> /\ Head(closingQ) = k
         /\ \/ closing[k].pc = "lock" /\ TearDown(sock)
            \/ closing[k].pc = "teardown" /\ UNCHANGED <<ws, writer, sock, ping>>
         /\ \/ CloseEnds(k)
            \/ /\ closing[k].pc = "lock"
               /\ closing' = [closing EXCEPT ![k].pc = "teardown"]
               /\ UNCHANGED <<lc, closingQ>>
  <1>1. CASE CloseTearsDown(k)
    BY <1>1, TearDownFades DEF CloseTearsDown, IInv, Types, Holds, Still, ask
  <1> QED
    BY <1>1 DEF CloseStep, CloseTornDown, Holds, Still, SocksKept, Fades, transport, ask

LEMMA CloseEffect ==
  ASSUME NEW k, Close(k)
  PROVE  /\ Still /\ Fades /\ k \in Awaited \cup Final /\ closing[k].pc = "idle" /\ Drained
         /\ RequestClose(k, lc) /\ lc' = CloseRequested(lc)
         /\ UNCHANGED <<ws, writer, sock, ping, readers, reports, hasOptions>>
         /\ k \in Awaited => \A c \in Calls : ~InFlight(c)
         /\ \/ k \in Awaited /\ UNCHANGED isClosed
            \/ k \in Final /\ ~isClosed /\ isClosed' = TRUE
  BY ClosersAssumption DEF Close, OwnerCloses, Still, SocksKept, Fades, InFlight, transport

LEMMA NextEffect ==
  ASSUME IInv, OtherTypes, Next
  PROVE  CallEffect
  <1>1. ASSUME NEW c \in Calls, CallStep(c) PROVE CallEffect
    BY CloseSettledBegins, LockedTakes, ParamsReadyEffect, ReplacedOpens, GiveUpEffect,
       FirstMessageTimeoutEffect, ClassifiedEffect, <1>1
      DEF CallEffect, ConnectTimeout, IInv, ClosesOnce, ask, CallStep
  <1>2. CASE Environment
    <2>1. ASSUME NEW c \in Calls, SocketOpens(c) \/ SocketFails(c) \/ SocketCloses(c)
          PROVE  CallEffect
      BY <2>1, SocketOpensMoves, SocketFailsEffect, SocketClosesEffect DEF CallEffect
    <2>2. ASSUME NEW c \in Calls, NEW msg \in {"session", "other", "leave"}, FirstMessage(c, msg)
          PROVE  CallEffect
      BY <2>2, FirstMessageEffect DEF CallEffect
    <2>3. ASSUME NEW k \in Awaited \cup Final, Close(k) PROVE CallEffect
      BY <2>3, CloseEffect DEF CallEffect
    <2> QED
      BY <1>2, <2>1, <2>2, <2>3, PingTimeoutEffect, EstablishBegins, EstablishWaits, GiveUpEffect
        DEF Environment, CallEffect, Abort
  <1> QED
    BY <1>1, <1>2, ReportLossEffect, CloseStepEffect DEF Next, CallEffect

LEMMA CallsInvHolds ==
  ASSUME IInv, IInv', OtherTypes, CallsInv, [Next]_vars
  PROVE  CallsInv' /\ CallEffect
  <1>1. ASSUME NEW c \in Calls,
               \/ Begins(c) \/ Refused(c) \/ Waits(c) \/ Takes(c) \/ Moves(c)
               \/ Opens(c) \/ Ends(c) \/ GivesUp(c)
        PROVE  CallsInv'
    BY <1>1, BeginsHolds, RefusedHolds, WaitsHolds, TakesHolds, MovesHolds, OpensHolds, EndsHolds,
       GivesUpHolds
  <1> QED
    BY <1>1, StillHolds, NextEffect DEF CallEffect, vars, ask, Still, SocksKept

-----------------------------------------------------------------------------
(* What else holds of the closes. *)

Pending(k) == closing[k].pc \in {"lock", "teardown"}
CloseWaiting == {p \in CloseIds : Pending(p) \/ (p \in Calls /\ call[p].pc = "settle")}

\* closingLock is granted in the order of asking, and a teardown runs with it.
ClosesInOrder ==
  /\ IsQueue(closingQ, CloseWaiting)
  /\ \A k \in CloseIds : closing[k].pc = "teardown" => Head(closingQ) = k

\* A call that settles a close waits for the one that moved the lifecycle, and behind it
\* there is at most the engine's own close.
SettleIsNext ==
  \A d \in Calls : call[d].pc = "settle" =>
    /\ \/ Head(closingQ) = d
       \/ /\ closing[Head(closingQ)].drives
          /\ Tail(closingQ) # <<>> /\ Head(Tail(closingQ)) = d
    /\ \A j, k \in CloseIds \ {Head(closingQ)} :
         Pending(j) /\ Pending(k) => j = k /\ j \in Final /\ isClosed
    /\ \A c \in Calls : call[c].pc = "first" => Head(closingQ) \in {c, d}

\* While the lifecycle is not being closed, at most one close is under way.
FewCloses ==
  lc \notin {"closed", "disconnecting"} =>
    \A j, k \in CloseIds : Pending(j) /\ Pending(k) => j = k

\* A call that timed out while its body goes on.
Abandoned(c) == InBody(c) /\ ~InFlight(c) /\ ~aborted
Starting == \E e \in Calls : call[e].pc = "lock"

\* Its close is under way, or over, or the next attempt waits for the body to end.
AbandonedIsClosed ==
  \A c \in Calls : Abandoned(c) =>
    /\ lc \in {"closed", "disconnecting"} \/ Starting
    /\ call[c].pc = "opening" /\ sock[c] = "connecting" => closing[c].pc = "lock"
    /\ call[c].pc = "first" => Pending(c) \/ lc = "closed" \/ Starting
    /\ \A j \in CloseIds : Pending(c) /\ ~closing[c].drives /\ closing[j].drives =>
          Starting \/ Ahead(closingQ, j, c)

CloseInv == ClosesInOrder /\ SettleIsNext /\ FewCloses /\ AbandonedIsClosed

LcNarrows ==
  /\ lc \in {"closed", "disconnecting"} => lc' \in {"closed", "disconnecting"}
  /\ lc = "closed" => lc' = "closed"

LEMMA AbandonedCame ==
  ASSUME IInv, CallsInv, CallEffect, NEW c \in Calls, Abandoned(c)'
  PROVE  \/ GivesUp(c) /\ ~aborted' /\ call'[c].pc = call[c].pc
         \/ /\ Abandoned(c)
            /\ \/ call'[c].pc = call[c].pc
               \/ call[c].pc = "opening" /\ call'[c].pc \in {"first", "validate"}
  <1>1. InBody(c)' /\ ~InFlight(c)' /\ ~aborted'
    BY DEF Abandoned
  <1>2. ASSUME NEW d \in Calls, d # c,
               \/ Begins(d) \/ Refused(d) \/ Waits(d) \/ Takes(d) \/ Moves(d)
               \/ Opens(d) \/ Ends(d) \/ GivesUp(d)
        PROVE  Abandoned(c) /\ call'[c].pc = call[c].pc
    <2>1. call'[c] = call[c]
      BY <1>2 DEF Begins, Refused, Waits, Takes, Moves, Opens, Ends, GivesUp, OnlyCall
    <2>2. ~aborted
      BY <1>1, <1>2 DEF GivesUp, Begins, Refused, Waits, Takes, Moves, Opens, Ends
    <2> QED
      BY <1>1, <2>1, <2>2 DEF Abandoned, InBody, InFlight
  <1>3. CASE Takes(c) \/ Opens(c)
    BY <1>1, <1>3 DEF Takes, Opens, InFlight, CallsInv, EarlyIsPending
  <1>4. CASE Moves(c)
    BY <1>1, <1>4 DEF Moves, InFlight, CallsInv, EarlyIsPending, InBody, Abandoned
  <1>5. CASE GivesUp(c)
    BY <1>1, <1>5 DEF GivesUp
  <1> QED
    BY <1>2, <1>3, <1>4, <1>5, <1>1
      DEF CallEffect, Still, Abandoned, InBody, InFlight, Begins, Refused, Waits, Ends

\* A call that waits for the lock waits as long as the body before it runs.
LEMMA StartingStays ==
  ASSUME IInv, CallsInv, CallEffect, NEW c \in Calls, InBody(c), Starting
  PROVE  Starting'
  <1>1. PICK e \in Calls : call[e].pc = "lock"
    BY DEF Starting
  <1>2. Head(connQ) = c /\ c # e
    BY <1>1 DEF CallsInv, LockInOrder, InBody
  <1>3. ~call[e].abortable
    BY <1>1 DEF IInv, ClosesOnce
  <1>4. ASSUME NEW d \in Calls,
               \/ Begins(d) \/ Refused(d) \/ Waits(d) \/ Takes(d) \/ Moves(d)
               \/ Opens(d) \/ Ends(d) \/ GivesUp(d)
        PROVE  call'[e] = call[e]
    <2>1. d # e
      BY <1>1, <1>2, <1>3, <1>4
         DEF Begins, Refused, Waits, Takes, Moves, Opens, Ends, GivesUp, InBody
    <2> QED
      BY <1>4, <2>1 DEF Begins, Refused, Waits, Takes, Moves, Opens, Ends, GivesUp, OnlyCall
  <1> QED
    BY <1>1, <1>4 DEF CallEffect, Starting, Still

\* A step that leaves every close as it is.
LEMMA AbandonedKept ==
  ASSUME IInv, CallsInv, CloseInv, CallEffect, UNCHANGED closing,
         \A c \in Calls : Abandoned(c)' => Abandoned(c),
         LcNarrows \/ Starting',
         \A c \in Calls : call[c].pc = "opening" /\ call'[c].pc = "first" => sock[c] = "connecting",
         \A c \in Calls : call[c].pc = "opening" /\ sock'[c] = "connecting" => sock[c] = "connecting",
         \A c \in Calls, j \in CloseIds :
            Pending(j) /\ Ahead(closingQ, j, c) => Ahead(closingQ', j, c)
  PROVE  AbandonedIsClosed'
  <1> SUFFICES ASSUME NEW c \in Calls, Abandoned(c)'
      PROVE  /\ lc' \in {"closed", "disconnecting"} \/ Starting'
             /\ call'[c].pc = "opening" /\ sock'[c] = "connecting" => closing'[c].pc = "lock"
             /\ call'[c].pc = "first" => Pending(c)' \/ lc' = "closed" \/ Starting'
             /\ \A j \in CloseIds : Pending(c)' /\ ~closing'[c].drives /\ closing'[j].drives =>
                   Starting' \/ Ahead(closingQ', j, c)
    BY DEF AbandonedIsClosed
  <1>1. /\ Abandoned(c) /\ InBody(c) /\ c \in CloseIds
        /\ \/ call'[c].pc = call[c].pc
           \/ call[c].pc = "opening" /\ call'[c].pc \in {"first", "validate"}
    BY AbandonedCame DEF Abandoned, GivesUp, CallsInv, EarlyIsPending, CloseIds
  <1>2. Starting => Starting'
    BY <1>1, StartingStays
  <1>3. \A k \in CloseIds : Pending(k)' <=> Pending(k)
    BY DEF Pending
  <1>4. call'[c].pc = "first" => Pending(c)' \/ lc' = "closed" \/ Starting'
    BY <1>1, <1>2, <1>3 DEF CloseInv, AbandonedIsClosed, LcNarrows, Pending
  <1>5. ASSUME NEW j \in CloseIds, Pending(c)', ~closing'[c].drives, closing'[j].drives
        PROVE  Starting' \/ Ahead(closingQ', j, c)
    BY <1>1, <1>2, <1>3, <1>5 DEF CloseInv, AbandonedIsClosed, IInv, ClosesOnce, Pending
  <1> QED
    BY <1>4, <1>5, <1>1, <1>2 DEF CloseInv, AbandonedIsClosed, LcNarrows

\* No step but a close's own, or a call's that settles one, touches the closes.
LEMMA ClosesAlone ==
  ASSUME IInv, IInv', CallsInv, CloseInv, CallEffect, UNCHANGED <<closing, closingQ>>,
         \A d \in Calls : call'[d].pc = "settle" <=> call[d].pc = "settle",
         \/ isClosed' = isClosed
         \/ \E c \in Calls : InFlight(c) /\ call[c].pc = "first",
         LcNarrows \/ (Starting' /\ \A k \in CloseIds : ~Pending(k)),
         \A c \in Calls : Abandoned(c)' => Abandoned(c),
         \A c \in Calls : call[c].pc # "first" /\ call'[c].pc = "first" =>
            call[c].pc = "opening" /\ sock[c] = "connecting" /\ Drained,
         \A c \in Calls : call[c].pc = "opening" /\ sock'[c] = "connecting" => sock[c] = "connecting"
  PROVE  CloseInv'
  <1> USE DEF CloseInv
  <1>1. CloseWaiting' = CloseWaiting /\ \A k \in CloseIds : Pending(k)' <=> Pending(k)
    BY DEF CloseWaiting, Pending
  <1>2. SettleIsNext'
    <2> SUFFICES ASSUME NEW d \in Calls, call'[d].pc = "settle"
        PROVE  /\ \/ Head(closingQ) = d
                  \/ /\ closing[Head(closingQ)].drives
                     /\ Tail(closingQ) # <<>> /\ Head(Tail(closingQ)) = d
               /\ \A j, k \in CloseIds \ {Head(closingQ)} :
                    Pending(j) /\ Pending(k) => j = k /\ j \in Final /\ isClosed'
               /\ \A c \in Calls : call'[c].pc = "first" => Head(closingQ) \in {c, d}
      BY <1>1 DEF SettleIsNext
    <2>1. call[d].pc = "settle" /\ InFlight(d)
      BY DEF IInv, OneInFlight
    <2>2. ASSUME NEW c \in Calls, call'[c].pc = "first" PROVE Head(closingQ) \in {c, d}
      BY <2>2, <2>1, OnlyOneInFlight, ClosersAssumption
        DEF CallsInv, EarlyIsPending, AbandonedIsClosed, Abandoned, InBody, CloseIds, SettleIsNext, Pending
    <2> QED
      BY <2>1, <2>2, OnlyOneInFlight DEF SettleIsNext
  <1>3. AbandonedIsClosed'
    BY AbandonedKept
  <1> QED
    BY <1>2, <1>3, <1>1 DEF ClosesInOrder, FewCloses, LcNarrows

\* A call queues behind the close that moved the lifecycle.
LEMMA WaitsClosing ==
  ASSUME IInv, IInv', CallsInv, CloseInv, CallEffect, NEW c \in Calls, Waits(c),
         lc = "disconnecting", closingQ' = Append(closingQ, c),
         UNCHANGED <<lc, closing, isClosed>>,
         \A k \in CloseIds : closing[k].pc \in {"lock", "teardown"} => closing[k].drives
  PROVE  CloseInv'
  <1> USE DEF CloseInv
  <1>1. PICK k \in CloseIds : closing[k].drives /\ Pending(k)
    BY DEF IInv, DisconnectingIsOwned, ClosesOnce, Pending
  <1>2. \A d \in Calls : ~InFlight(d) /\ call[d].pc # "settle" /\ call[d].pc # "lock"
    BY DEF Waits, Answered, IInv, OneInFlight, InFlight, Calls, CallsInv, EarlyIsPending
  <1>3. \A j \in CloseIds : Pending(j) => j = k
    BY <1>1 DEF IInv, DisconnectingIsOwned, Pending
  <1>4. CloseWaiting = {k}
    BY <1>1, <1>2, <1>3 DEF CloseWaiting
  <1>5. closingQ # <<>> /\ Head(closingQ) = k /\ Tail(closingQ) = <<>>
    BY <1>4, QueueOfOne DEF ClosesInOrder
  <1>6. /\ c # k /\ c \in CloseIds
        /\ CloseWaiting' = CloseWaiting \cup {c}
        /\ \A j \in CloseIds : Pending(j)' <=> Pending(j)
    BY <1>1, <1>2 DEF Waits, IInv, ClosesOnce, Pending, CloseIds, OnlyCall, CloseWaiting
  <1>7. /\ IsQueue(closingQ', CloseWaiting')
        /\ closingQ' # <<>> /\ Head(closingQ') = k
        /\ \A a, b : Ahead(closingQ, a, b) => Ahead(closingQ', a, b)
    <2>1. c \notin CloseWaiting /\ IsQueue(closingQ, CloseWaiting)
      BY <1>4, <1>6 DEF ClosesInOrder
    <2> QED
      BY <1>5, <1>6, <2>1, QueueJoined
  <1>8. Tail(closingQ') # <<>> /\ Head(Tail(closingQ')) = c
    BY <1>5, HeadTailAppend DEF ClosesInOrder, IsQueue
  <1>9. SettleIsNext'
    BY <1>2, <1>3, <1>1, <1>6, <1>7, <1>8
      DEF SettleIsNext, Waits, OnlyCall, Abandoned, InBody, CloseIds, AbandonedIsClosed, Starting
  <1>10. AbandonedIsClosed'
    BY <1>7, AbandonedKept DEF Abandoned, Waits, OnlyCall, InBody, InFlight, LcNarrows
  <1> QED
    BY <1>9, <1>10, <1>3, <1>7 DEF ClosesInOrder, Pending, FewCloses

\* It has settled the close and goes on.
LEMMA SettledClosing ==
  ASSUME IInv, IInv', CallsInv, CloseInv, CallEffect, NEW c \in Calls,
         call[c].pc = "settle", closingQ # <<>>, Head(closingQ) = c, closingQ' = Tail(closingQ),
         UNCHANGED <<closing, isClosed>>,
         \/ Begins(c) /\ lc # "disconnecting"
         \/ Refused(c) /\ lc' = lc
  PROVE  CloseInv'
  <1> USE DEF CloseInv
  <1>1. InFlight(c) /\ closing[c].pc = "idle" /\ c \in CloseIds
    BY DEF IInv, OneInFlight, ClosesOnce, CloseIds
  <1>2. \A d \in Calls : d # c => call'[d] = call[d] /\ call[d].pc # "settle"
    BY <1>1, OnlyOneInFlight DEF Begins, Refused, OnlyCall, IInv, OneInFlight
  <1>3. call'[c].pc \in {"lock", "done"}
    BY DEF Begins, Refused
  <1>4. \A k \in CloseIds : /\ Pending(k)' <=> Pending(k)
                            /\ Pending(k) => k # c
    BY <1>1 DEF Pending
  <1>5. /\ IsQueue(closingQ', CloseWaiting')
        /\ \A a, b : Ahead(closingQ, a, b) /\ a # c => Ahead(closingQ', a, b)
    BY QueueServed, <1>2, <1>3, <1>4 DEF ClosesInOrder, CloseWaiting
  <1>6. FewCloses'
    BY <1>4 DEF FewCloses, SettleIsNext
  <1>7. AbandonedIsClosed'
    BY <1>2, <1>3, <1>4, <1>5, AbandonedKept
      DEF Abandoned, Begins, Refused, InBody, InFlight, LcNarrows, Starting
  <1> QED
    BY <1>6, <1>7, <1>2, <1>3, <1>5, <1>1 DEF SettleIsNext, ClosesInOrder

LEMMA RequestCloseWrites ==
  ASSUME IInv, NEW k \in CloseIds, NEW st \in States, RequestClose(k, st)
  PROVE  /\ closing'[k].pc = "lock"
         /\ closing'[k].drives <=> st \notin {"closed", "disconnecting"}
         /\ \A j \in CloseIds : j # k => closing'[j] = closing[j]
         /\ closingQ' = Append(closingQ, k)
  <1> DEFINE rec == CloseRecord("lock", CloseRequested(st) # st)
  <1>1. rec.pc = "lock" /\ (rec.drives <=> st \notin {"closed", "disconnecting"})
    BY DEF CloseRecord, CloseRequested
  <1>2. closing' = [closing EXCEPT ![k] = rec] /\ closingQ' = Append(closingQ, k)
    BY DEF RequestClose
  <1> HIDE DEF rec
  <1> QED
    BY <1>1, <1>2 DEF IInv, Types

\* A close is asked for.
LEMMA RequestClosing ==
  ASSUME IInv, IInv', CallsInv, CloseInv, CallEffect,
         NEW k \in CloseIds, NEW st \in States, RequestClose(k, st),
         closing[k].pc \in {"idle", "done"}, k \in Calls => call[k].pc # "settle",
         lc' = CloseRequested(st), lc \in {"closed", "disconnecting"} => st = lc,
         \A d \in Calls : call'[d].pc = "settle" <=> call[d].pc = "settle",
         \A d \in Calls : call[d].pc = "settle" => k \in Final /\ ~isClosed /\ isClosed',
         \A d \in Calls : call'[d].pc = "first" => call[d].pc = "first",
         UNCHANGED sock,
         \A d \in Calls : Abandoned(d)' => call'[d].pc = call[d].pc,
         \A d \in Calls : Abandoned(d)' /\ d = k => ~Abandoned(d) /\ call[d].pc # "first",
         \A d \in Calls : Abandoned(d)' /\ d # k => Abandoned(d)
  PROVE  CloseInv'
  <1> USE DEF CloseInv
  <1>1. /\ closing'[k].pc = "lock"
        /\ closing'[k].drives <=> st \notin {"closed", "disconnecting"}
        /\ \A j \in CloseIds : j # k => closing'[j] = closing[j]
        /\ closingQ' = Append(closingQ, k)
    BY RequestCloseWrites
  <1>2. /\ ~Pending(k) /\ Pending(k)'
        /\ \A j \in CloseIds : j # k => (Pending(j)' <=> Pending(j))
    BY <1>1 DEF Pending
  <1>3. k \notin CloseWaiting /\ CloseWaiting' = CloseWaiting \cup {k}
    BY <1>2 DEF CloseWaiting
  <1>4. /\ IsQueue(closingQ', CloseWaiting') /\ closingQ' # <<>>
        /\ closingQ # <<>> => Head(closingQ') = Head(closingQ)
        /\ \A a, b : Ahead(closingQ, a, b) => Ahead(closingQ', a, b)
        /\ \A a \in CloseWaiting : Ahead(closingQ', a, k)
    <2>1. closingQ' = Append(closingQ, k)
      BY <1>1
    <2> QED
      BY <1>3, <2>1, QueueJoined DEF ClosesInOrder
  <1>5. \A p \in CloseWaiting : closingQ # <<>>
    BY DEF ClosesInOrder, IsQueue
  <1>6. lc' \in {"closed", "disconnecting"}
    BY DEF CloseRequested
  <1>7. ClosesInOrder'
    BY <1>1, <1>4, <1>5 DEF ClosesInOrder, CloseWaiting, Pending
  <1>8. SettleIsNext'
    <2> SUFFICES ASSUME NEW d \in Calls, call'[d].pc = "settle"
        PROVE  /\ \/ Head(closingQ') = d
                  \/ /\ closing'[Head(closingQ')].drives
                     /\ Tail(closingQ') # <<>> /\ Head(Tail(closingQ')) = d
               /\ \A i, j \in CloseIds \ {Head(closingQ')} :
                    Pending(i)' /\ Pending(j)' => i = j /\ i \in Final /\ isClosed'
               /\ \A b \in Calls : call'[b].pc = "first" => Head(closingQ') \in {b, d}
      BY DEF SettleIsNext
    <2>1. /\ call[d].pc = "settle" /\ d \in CloseWaiting
          /\ k \in Final /\ ~isClosed /\ isClosed'
      BY DEF CloseWaiting, CloseIds
    <2>2. /\ closingQ # <<>> /\ Head(closingQ') = Head(closingQ)
          /\ Head(closingQ) \in CloseWaiting /\ Head(closingQ) # k
      <3>1. closingQ # <<>> /\ Head(closingQ') = Head(closingQ) /\ IsQueue(closingQ, CloseWaiting)
        BY <2>1, <1>4, <1>5 DEF ClosesInOrder
      <3>2. Head(closingQ) \in CloseWaiting
        BY <3>1, QueueServed
      <3> QED
        BY <3>1, <3>2, <1>3
    <2>3. \/ Head(closingQ') = d
          \/ /\ closing'[Head(closingQ')].drives
             /\ Tail(closingQ') # <<>> /\ Head(Tail(closingQ')) = d
      <3>1. CASE Head(closingQ) # d
        <4>1. closing[Head(closingQ)].drives /\ Tail(closingQ) # <<>> /\ Head(Tail(closingQ)) = d
          BY <2>1, <3>1 DEF SettleIsNext
        <4>2. closingQ \in Seq(CloseWaiting) /\ Tail(closingQ) \in Seq(CloseWaiting)
          BY <2>2, HeadTailProperties DEF ClosesInOrder, IsQueue
        <4>3. Append(Tail(closingQ), k) # <<>>
          <5>1. Len(Append(Tail(closingQ), k)) = Len(Tail(closingQ)) + 1 /\ Len(Tail(closingQ)) \in Nat
            BY AppendProperties, <4>2, HeadTailProperties, <2>2, <1>3, <1>4 DEF ClosesInOrder, IsQueue
          <5> QED
            BY <5>1
        <4> QED
          BY <4>3, <1>1, <2>2, <4>1, <4>2, HeadTailAppend DEF CloseWaiting
      <3> QED
        BY <3>1, <2>2
    <2> QED
      BY <2>2, <2>3, <2>1, <1>2 DEF SettleIsNext
  <1>9. AbandonedIsClosed'
    <2> SUFFICES ASSUME NEW c \in Calls, Abandoned(c)'
        PROVE  /\ call'[c].pc = "opening" /\ sock'[c] = "connecting" => closing'[c].pc = "lock"
               /\ call'[c].pc = "first" => Pending(c)' \/ lc' = "closed" \/ Starting'
               /\ \A j \in CloseIds : Pending(c)' /\ ~closing'[c].drives /\ closing'[j].drives =>
                     Starting' \/ Ahead(closingQ', j, c)
      BY <1>6 DEF AbandonedIsClosed
    <2>1. c \in CloseIds /\ call'[c].pc = call[c].pc
      BY DEF CloseIds
    <2>2. CASE c = k
      BY <2>2, <1>1, <1>4, <2>1 DEF IInv, ClosesOnce, CloseWaiting, Pending
    <2>3. CASE c # k
      BY <1>1, <1>2, <2>1, <2>3, StartingStays, <1>4 DEF Abandoned, AbandonedIsClosed, CloseRequested
    <2> QED
      BY <2>2, <2>3
  <1> QED
    BY <1>7, <1>8, <1>9, <1>6 DEF FewCloses

LEMMA CloseEndsWrites ==
  ASSUME IInv, NEW k \in CloseIds, CloseEnds(k)
  PROVE  /\ closing'[k].pc = "done" /\ ~closing'[k].drives
         /\ \A j \in CloseIds : j # k => closing'[j] = closing[j]
         /\ closingQ' = Tail(closingQ)
         /\ lc' = IF closing[k].drives THEN "closed" ELSE lc
  <1> DEFINE rec == CloseRecord("done", FALSE)
  <1>1. rec.pc = "done" /\ ~rec.drives
    BY DEF CloseRecord
  <1>2. closing' = [closing EXCEPT ![k] = rec] /\ closingQ' = Tail(closingQ)
    BY DEF CloseEnds
  <1> HIDE DEF rec
  <1>3. lc' = IF closing[k].drives THEN "closed" ELSE lc
    BY DEF CloseEnds, IInv, DisconnectingIsOwned
  <1> QED
    BY <1>1, <1>2, <1>3 DEF IInv, Types

\* A close is over.
LEMMA EndClosing ==
  ASSUME IInv, IInv', CallsInv, CloseInv, CallEffect, Still, Fades,
         NEW k \in CloseIds, CloseEnds(k), Pending(k),
         closingQ # <<>>, Head(closingQ) = k, UNCHANGED isClosed,
         k \in Calls /\ Abandoned(k) => ~(call[k].pc = "opening" /\ sock'[k] = "connecting")
  PROVE  CloseInv'
  <1> USE DEF CloseInv
  <1>1. /\ closing'[k].pc = "done" /\ ~closing'[k].drives
        /\ \A j \in CloseIds : j # k => closing'[j] = closing[j]
        /\ closingQ' = Tail(closingQ)
        /\ lc' = IF closing[k].drives THEN "closed" ELSE lc
    BY CloseEndsWrites
  <1>2. /\ ~Pending(k)' /\ UNCHANGED call
        /\ \A j \in CloseIds : j # k => (Pending(j)' <=> Pending(j))
    BY <1>1 DEF Pending, Still
  <1>3. k \in Calls => call[k].pc # "settle"
    BY DEF IInv, ClosesOnce, Pending
  <1>4. CloseWaiting' = CloseWaiting \ {k}
    BY <1>2, <1>3 DEF CloseWaiting
  <1>5. /\ IsQueue(closingQ', CloseWaiting')
        /\ \A a, b : Ahead(closingQ, a, b) /\ a # k => Ahead(closingQ', a, b)
        /\ \A a, b : Ahead(closingQ, a, b) => b # k
    BY <1>1, <1>4, QueueServed DEF ClosesInOrder
  <1>6. FewCloses'
    BY <1>1, <1>2 DEF FewCloses
  <1>7. AbandonedIsClosed'
    <2> SUFFICES ASSUME NEW c \in Calls, Abandoned(c)'
        PROVE  /\ lc' \in {"closed", "disconnecting"} \/ Starting'
               /\ call'[c].pc = "opening" /\ sock'[c] = "connecting" => closing'[c].pc = "lock"
               /\ call'[c].pc = "first" => Pending(c)' \/ lc' = "closed" \/ Starting'
               /\ \A j \in CloseIds : Pending(c)' /\ ~closing'[c].drives /\ closing'[j].drives =>
                     Starting' \/ Ahead(closingQ', j, c)
      BY DEF AbandonedIsClosed
    <2>1. /\ Abandoned(c) /\ c \in CloseIds /\ call'[c].pc = call[c].pc
          /\ Starting' <=> Starting
      BY DEF Still, Abandoned, InBody, InFlight, CloseIds, Starting
    <2>2. ASSUME call'[c].pc = "first" PROVE Pending(c)' \/ lc' = "closed" \/ Starting'
      <3>1. CASE c = k
        BY <1>1, <2>1, <1>5, <3>1 DEF AbandonedIsClosed, IInv, DisconnectingIsOwned
      <3> QED
        BY <3>1, <1>1, <1>2, <2>1, <2>2 DEF AbandonedIsClosed
    <2>3. ASSUME NEW j \in CloseIds, Pending(c)', ~closing'[c].drives, closing'[j].drives
          PROVE  Starting' \/ Ahead(closingQ', j, c)
      BY <1>1, <1>2, <2>3, <1>5, <2>1 DEF AbandonedIsClosed
    <2> QED
      BY <2>2, <2>3, <1>1, <2>1 DEF AbandonedIsClosed, Fades
  <1> QED
    BY <1>6, <1>7, <1>1, <1>5, <1>2, <1>3 DEF ClosesInOrder, SettleIsNext

\* A close waits for its transport.
LEMMA TearingClosing ==
  ASSUME IInv, IInv', CallsInv, CloseInv, CallEffect, Still, Fades,
         NEW k \in CloseIds, closing[k].pc = "lock", Head(closingQ) = k,
         closing' = [closing EXCEPT ![k].pc = "teardown"],
         UNCHANGED <<lc, closingQ, isClosed>>,
         k \in Calls /\ Abandoned(k) => ~(call[k].pc = "opening" /\ sock'[k] = "connecting")
  PROVE  CloseInv'
  <1> USE DEF CloseInv
  <1>1. /\ closing'[k].pc = "teardown" /\ closing'[k].drives = closing[k].drives
        /\ \A j \in CloseIds : j # k => closing'[j] = closing[j]
        /\ \A j \in CloseIds : closing'[j].drives = closing[j].drives
    BY DEF IInv, Types, CloseRecords
  <1>2. UNCHANGED call /\ \A j \in CloseIds : Pending(j)' <=> Pending(j)
    BY <1>1 DEF Pending, Still
  <1>3. ClosesInOrder'
    BY <1>1, <1>2 DEF ClosesInOrder, CloseWaiting
  <1>4. FewCloses'
    BY <1>2 DEF FewCloses
  <1>5. AbandonedIsClosed'
    BY <1>1, <1>2 DEF AbandonedIsClosed, Still, Abandoned, InBody, InFlight, CloseIds, Starting, Fades
  <1> QED
    BY <1>3, <1>4, <1>5, <1>1, <1>2 DEF SettleIsNext

-----------------------------------------------------------------------------
(* What else holds of the transport. *)

\* The body that opens a socket, or waits for its first message, uses it.
BodyOwnsTransport ==
  \A c \in Calls :
    /\ call[c].pc = "opening" /\ sock[c] = "connecting" => ws = c
    /\ call[c].pc = "first" /\ sock[c] = "open" => ws = c /\ writer = c

\* A connected client has no attempt under way, and no close that has yet to begin.
ConnectedIsQuiet ==
  lc = "connected" => /\ \A c \in Calls : call[c].pc # "lock" /\ ~InBody(c)
                      /\ \A k \in CloseIds : closing[k].pc # "lock"

ServedInv == BodyOwnsTransport /\ ConnectedIsQuiet /\ ConnectedIsServed

SInv == IInv /\ OtherTypes /\ CallsInv /\ CloseInv /\ ServedInv

LEMMA OneRuns ==
  ASSUME CallsInv, NEW c \in Calls, NEW d \in Calls, InBody(c), InBody(d)
  PROVE  c = d
  BY DEF CallsInv, LockInOrder

LEMMA StillClosing ==
  ASSUME IInv, IInv', CallsInv, CloseInv, CallEffect, Still, Fades,
         UNCHANGED <<closing, closingQ, isClosed>>, LcNarrows
  PROVE  CloseInv'
  BY ClosesAlone DEF Still, Fades, Abandoned, InBody, InFlight

LEMMA EffectOnCalls ==
  ASSUME IInv, CallsInv, CallEffect, NEW c \in Calls,
         Begins(c) \/ Refused(c) \/ Takes(c) \/ Moves(c) \/ Opens(c) \/ Ends(c)
  PROVE  /\ \A d \in Calls : Abandoned(d)' => Abandoned(d)
         /\ \A d \in Calls : d # c => call'[d] = call[d]
         /\ call'[c].pc # "settle"
         /\ call'[c].pc = "first" => Moves(c) /\ call[c].pc = "opening"
  <1>1. \A d \in Calls : d # c => call'[d] = call[d]
    BY DEF Begins, Refused, Takes, Moves, Opens, Ends, OnlyCall
  <1>2. ASSUME NEW d \in Calls, Abandoned(d)' PROVE Abandoned(d)
    <2>1. ~(GivesUp(d) /\ ~aborted' /\ call'[d].pc = call[d].pc)
      BY <1>1 DEF Begins, Refused, Takes, Opens, Moves, Ends, InBody, GivesUp, Unguarded
    <2> QED
      BY <1>2, <2>1, AbandonedCame
  <1> QED
    BY <1>1, <1>2 DEF Begins, Refused, Takes, Moves, Opens, Ends

LEMMA KeptClosing ==
  ASSUME IInv, IInv', CallsInv, CloseInv, CallEffect, UNCHANGED <<closing, closingQ>>,
         NEW c \in Calls, call[c].pc # "settle",
         Begins(c) \/ Refused(c) \/ Takes(c) \/ Moves(c) \/ Opens(c) \/ Ends(c),
         isClosed' = isClosed \/ (InFlight(c) /\ call[c].pc = "first"),
         LcNarrows \/ (Starting' /\ \A k \in CloseIds : ~Pending(k)),
         call'[c].pc = "first" => sock[c] = "connecting" /\ Drained,
         \A d \in Calls : call[d].pc = "opening" /\ sock'[d] = "connecting" => sock[d] = "connecting"
  PROVE  CloseInv'
  BY EffectOnCalls, ClosesAlone

LEMMA BodyKept ==
  ASSUME BodyOwnsTransport, Fades,
         \A c \in Calls : call'[c].pc \in {"opening", "first"} => call'[c].pc = call[c].pc
  PROVE  BodyOwnsTransport'
  BY ClosersAssumption DEF BodyOwnsTransport, Fades

LEMMA ServedDown ==
  ASSUME lc' # "connected" PROVE ConnectedIsQuiet' /\ ConnectedIsServed'
  BY DEF ConnectedIsQuiet, ConnectedIsServed

LEMMA ServedStays ==
  ASSUME ServedInv, lc = "connected", UNCHANGED <<lc, ws, writer, ping, attempt, sockOwner>>,
         sock'[ws] = sock[ws], ws \in readers',
         \A c \in Calls : call'[c].pc # "lock" /\ ~InBody(c)',
         \A k \in CloseIds : closing'[k].pc = "lock" => closing[k].pc = "lock"
  PROVE  ConnectedIsQuiet' /\ ConnectedIsServed'
  BY DEF ServedInv, ConnectedIsQuiet, ConnectedIsServed

LEMMA SocketKept ==
  ASSUME UNCHANGED <<sock, ws, writer>>
  PROVE  Fades
  BY DEF Fades

-----------------------------------------------------------------------------
(* Every action preserves CloseInv and ServedInv. *)

\* A connected client leaves its state only by a step that changes it.
LEMMA BeginsServed ==
  ASSUME SInv, NEW c \in Calls, Begins(c) \/ (Refused(c) /\ lc' = lc /\ ping' = ping),
         Begins(c) => lc' # "connected", UNCHANGED <<ws, writer, closing, readers>>
  PROVE  ServedInv'
  BY BodyKept, SocketKept, ServedStays, ServedDown
    DEF Begins, Refused, OnlyCall, SInv, ServedInv, ConnectedIsQuiet, InBody, ConnectedIsServed

LEMMA EstablishServed ==
  ASSUME SInv, IInv', CallsInv', CallEffect, NEW c \in Calls,
         NEW kind \in {"join", "reconnect"}, Establish(c, kind)
  PROVE  CloseInv' /\ ServedInv'
  <1> USE DEF SInv
  <1>1. CASE lc # "disconnecting"
    <2>1. /\ UNCHANGED <<ws, writer, closing, closingQ, readers, isClosed>>
          /\ \A k \in CloseIds : closing[k].pc \notin {"lock", "teardown"}
          /\ IF CanStart(kind, lc)
             THEN Begins(c) /\ lc' = Started(kind)
             ELSE Refused(c) /\ lc' = lc /\ ping' = ping
      BY <1>1, EstablishBegins
    <2>2. \/ Begins(c) /\ lc' \in {"connecting", "reconnecting"}
          \/ Refused(c) /\ lc' = lc /\ ping' = ping
      BY <2>1 DEF Started
    <2>3. UNCHANGED sock /\ (Begins(c) => Starting')
      BY <2>2 DEF Begins, Refused, Starting
    <2>4. LcNarrows \/ (Starting' /\ \A k \in CloseIds : ~Pending(k))
      BY <2>1, <2>2, <2>3 DEF LcNarrows, Pending
    <2>5. call'[c].pc # "first"
      BY <2>2 DEF Begins, Refused
    <2>6. CloseInv'
      BY <2>1, <2>2, <2>3, <2>4, <2>5, KeptClosing DEF Establish
    <2>7. UNCHANGED <<ws, writer, closing, readers>>
      BY <2>1
    <2>8. Begins(c) \/ (Refused(c) /\ lc' = lc /\ ping' = ping)
      BY <2>2
    <2>9. SInv
      OBVIOUS
    <2>10. ServedInv'
      BY <2>7, <2>8, <2>9, BeginsServed, <2>2 DEF Begins, Refused
    <2> QED
      BY <2>6, <2>10
  <1> QED
    BY <1>1, EstablishWaits, WaitsClosing, BodyKept, SocketKept, ServedDown DEF Waits, OnlyCall, ServedInv

LEMMA CloseSettledServed ==
  ASSUME SInv, IInv', CallsInv', CallEffect, NEW c \in Calls, CloseSettled(c)
  PROVE  CloseInv' /\ ServedInv'
  BY CloseSettledBegins, SettledClosing, BeginsServed DEF SInv, Begins, Refused

LEMMA LockedServed ==
  ASSUME SInv, IInv', CallsInv', CallEffect, NEW c \in Calls, ConnectionLocked(c)
  PROVE  CloseInv' /\ ServedInv'
  <1> USE DEF SInv
  <1>1. /\ Takes(c) /\ UNCHANGED <<lc, ws, writer, sock, closing, closingQ, isClosed>>
        /\ call[c].pc = "lock" /\ call'[c].pc = "params"
    BY LockedTakes DEF ConnectionLocked, machine, transport, ask, Takes
  <1>2. lc' # "connected"
    BY <1>1 DEF ServedInv, ConnectedIsQuiet
  <1> QED
    BY <1>2, ServedDown, <1>1, BodyKept, SocketKept, KeptClosing DEF ServedInv, Takes, OnlyCall, LcNarrows

LEMMA OpensServed ==
  ASSUME SInv, NEW c \in Calls, Opens(c), ws' = c, UNCHANGED lc
  PROVE  ServedInv'
  BY OneRuns, ServedDown DEF Opens, OnlyCall, InBody, SInv, BodyOwnsTransport, ServedInv, ConnectedIsQuiet

LEMMA ParamsReadyServed ==
  ASSUME SInv, IInv', CallsInv', CallEffect, NEW c \in Calls, ParamsReady(c) \/ Replaced(c)
  PROVE  CloseInv' /\ ServedInv'
  <1> USE DEF SInv
  <1>1. /\ UNCHANGED <<lc, closing, closingQ, isClosed>>
        /\ call[c].pc \in {"params", "replace"} /\ InBody(c)
    BY DEF ParamsReady, Replaced, machine, ask, InBody
  <1>2. LcNarrows /\ lc # "connected"
    BY <1>1 DEF LcNarrows, ServedInv, ConnectedIsQuiet
  <1>3. CASE Opens(c) /\ ws' = c
    BY <1>1, <1>3, <1>2, KeptClosing, OpensServed DEF Opens
  <1>4. CASE ParamsReady(c)
    BY <1>3, <1>4, ParamsReadyEffect, <1>1, <1>2, KeptClosing, BodyKept, ServedDown
      DEF OpenSocket, Fades, Moves, OnlyCall, ServedInv
  <1> QED
    BY <1>4, <1>3, ReplacedOpens DEF Replaced, OpenSocket

LEMMA SocketOpensServed ==
  ASSUME SInv, IInv', CallsInv', CallEffect, NEW c \in Calls, SocketOpens(c)
  PROVE  CloseInv' /\ ServedInv'
  <1> USE DEF SInv
  <1>1. /\ UNCHANGED <<lc, ws, closing, closingQ, isClosed>> /\ writer' = c
        /\ call[c].pc = "opening" /\ sock[c] = "connecting" /\ Drained
        /\ sock' = [sock EXCEPT ![c] = "open"]
        /\ Moves(c) /\ call'[c].pc = "first" /\ InBody(c)
    BY SocketOpensMoves DEF SocketOpens, machine, ask, InBody
  <1>2. LcNarrows /\ lc # "connected"
    BY <1>1 DEF LcNarrows, ServedInv, ConnectedIsQuiet
  <1>3. BodyOwnsTransport'
    BY <1>1, OneRuns DEF BodyOwnsTransport, ServedInv, InBody, Moves, OnlyCall
  <1> QED
    BY <1>1, <1>2, <1>3, ServedDown, KeptClosing DEF ServedInv, IInv, Types

LEMMA EndsServed ==
  ASSUME SInv, IInv', CallEffect, NEW c \in Calls, Ends(c), lc' # "connected"
  PROVE  ServedInv'
  BY EndsHolds, ServedDown DEF SInv, BodyOwnsTransport, InBody, ServedInv

LEMMA SocketFailsServed ==
  ASSUME SInv, IInv', CallsInv', CallEffect, NEW c \in Calls, SocketFails(c)
  PROVE  CloseInv' /\ ServedInv'
  <1> USE DEF SInv
  <1>1. InBody(c) /\ call[c].pc = "opening"
    BY DEF SocketFails, InBody
  <1>2. lc # "connected"
    BY <1>1 DEF ServedInv, ConnectedIsQuiet
  <1>3. /\ Fades /\ UNCHANGED <<lc, closing, closingQ, isClosed>>
        /\ Moves(c) /\ call'[c].pc = "validate"
    BY <1>2, SocketFailsEffect DEF Lost
  <1> QED
    BY <1>2, <1>3, ServedDown, BodyKept, <1>1, KeptClosing DEF ServedInv, Moves, OnlyCall, LcNarrows, Fades

LEMMA ClassifiedServed ==
  ASSUME SInv, IInv', CallsInv', CallEffect, NEW c \in Calls, NEW r \in BOOLEAN, Classified(c, r)
  PROVE  CloseInv' /\ ServedInv'
  BY ClassifiedEffect, KeptClosing, EndsServed
    DEF SInv, Ends, ServedInv, ConnectedIsQuiet, LcNarrows, AfterReject, Failed, Started, InBody

LEMMA SocketClosesServed ==
  ASSUME SInv, IInv', CallsInv', CallEffect, NEW c \in Calls, SocketCloses(c)
  PROVE  CloseInv' /\ ServedInv'
  <1> USE DEF SInv
  <1>1. /\ Fades /\ UNCHANGED <<attempt, sockOwner, closing, closingQ, isClosed>>
        /\ lc' = AfterReject(c, Lost(lc, sockOwner[c]), TRUE)
        /\ IF call[c].pc = "first" THEN Ends(c) ELSE Still
        /\ sock[c] \in {"open", "closing"}
        /\ HandleOnClose([sock EXCEPT ![c] = "closed"], sockOwner[c])
        /\ readers' = readers \ {c}
    BY SocketClosesEffect DEF SocketCloses, ask
  <1>2. LcNarrows
    BY <1>1 DEF LcNarrows, AfterReject, Failed, Lost, Started
  <1>3. CASE call[c].pc = "first"
    BY <1>1, <1>3, <1>2, KeptClosing, EndsServed
      DEF Ends, ServedInv, ConnectedIsQuiet, AfterReject, Failed, Lost, Started, Fades
  <1>4. CASE call[c].pc # "first"
    <2>1. Still
      BY <1>1, <1>4
    <2>2. lc' = Lost(lc, sockOwner[c])
      BY <1>1, <1>4
        DEF AfterReject, InFlight, IInv, SocketsOpenLate, BeforeUpgrade, OneInFlight, Types, CallRecords
    <2>3. CloseInv'
      BY <1>1, <1>2, <2>1, StillClosing
    <2>4. BodyOwnsTransport'
      BY <1>1, <2>1, BodyKept DEF Still, ServedInv
    <2>5. CASE lc' = "connected"
      <3>1. lc = "connected" /\ sockOwner[c] # attempt
        BY <2>2, <2>5 DEF Lost
      <3>2. sock' = [sock EXCEPT ![c] = "closed"] /\ UNCHANGED <<ws, writer, ping>>
        BY <1>1, <2>2, <2>5, <3>1 DEF HandleOnClose
      <3>3. \A k \in CloseIds : closing'[k].pc = "lock" => closing[k].pc = "lock"
        BY <1>1
      <3>4. UNCHANGED <<lc, ws, writer, ping, attempt, sockOwner>>
        BY <1>1, <2>5, <3>1, <3>2
      <3> QED
        BY <2>3, <2>4, <3>1, <3>3, <3>4, ServedStays, <2>1, <1>1, <3>2
          DEF ServedInv, Still, ConnectedIsQuiet, InBody, IInv, Types, OtherTypes, ConnectedIsServed
    <2> QED
      BY <2>3, <2>4, <2>5, ServedDown DEF ServedInv
  <1> QED
    BY <1>3, <1>4

LEMMA FirstMessageServed ==
  ASSUME SInv, IInv', CallsInv', CallEffect, NEW c \in Calls, NEW msg, FirstMessage(c, msg)
  PROVE  CloseInv' /\ ServedInv'
  <1> USE DEF SInv
  <1>1. /\ Ends(c) /\ sock[c] = "open" /\ call[c].pc = "first"
        /\ UNCHANGED <<ws, writer, sock, closing, closingQ>>
        /\ isClosed' = isClosed \/ InFlight(c)
        /\ \/ /\ Establishing(lc) /\ lc' = "connected" /\ sockOwner[c] = attempt
              /\ ping' = TRUE /\ readers' = readers \cup {c}
           \/ lc' = lc
           \/ \E r \in BOOLEAN : lc' = AfterReject(c, lc, r)
    BY FirstMessageEffect
  <1>2. InBody(c) /\ lc # "connected" /\ call'[c].pc = "done"
    BY <1>1 DEF Ends, ServedInv, ConnectedIsQuiet
  <1>3. CloseInv'
    BY <1>1, <1>2, KeptClosing DEF LcNarrows, AfterReject, Failed, Started, Establishing
  <1>4. CASE lc' = "connected"
    <2>1. /\ Establishing(lc) /\ sockOwner[c] = attempt
          /\ ping' = TRUE /\ readers' = readers \cup {c}
      BY <1>1, <1>2, <1>4 DEF AfterReject, Failed, Started
    <2>2. /\ \A d \in Calls : ~InBody(d)'
          /\ \A d \in Calls : call[d].pc = "lock" => c < d
      BY <1>1, EndsHolds
    <2>3. UNCHANGED <<attempt, sockOwner>> /\ \A d \in Calls : d # c => call'[d] = call[d]
      BY <1>1 DEF Ends, OnlyCall
    <2>4. \A k \in CloseIds : closing'[k].pc # "lock"
      <3> SUFFICES ASSUME NEW k \in CloseIds, closing[k].pc = "lock" PROVE FALSE
        BY <1>1
      <3>1. CloseWaiting = {k}
        BY <2>1, OnlyOneInFlight
          DEF CloseWaiting, Pending, CloseInv, FewCloses, Establishing, IInv, StartedByRunning, OneInFlight
      <3> QED
        BY QueueOfOne, <3>1 DEF FirstMessage, Drained, Runnable, CloseInv, ClosesInOrder
    <2>5. ConnectedIsQuiet'
      BY <2>2, <2>4, <1>2, <2>3, <2>1 DEF ConnectedIsQuiet, CallsInv, OwnersInOrder, ConnWaiting, IInv, Types
    <2> QED
      BY <1>3, <2>5, <2>2, <1>1, <2>1, <2>3, ClosersAssumption
        DEF ServedInv, BodyOwnsTransport, InBody, ConnectedIsServed, Calls
  <1> QED
    BY <1>1, <1>3, <1>4, EndsServed

LEMMA PingTimeoutServed ==
  ASSUME SInv, IInv', CallsInv', CallEffect, PingTimeout
  PROVE  CloseInv' /\ ServedInv'
  BY PingTimeoutEffect, BodyKept, StillClosing, ServedDown DEF SInv, LcNarrows, Lost, Still, ServedInv

LEMMA StillServed ==
  ASSUME SInv, IInv', CallsInv', CallEffect, Still,
         UNCHANGED <<lc, ws, writer, sock, closing, closingQ, ping, readers, isClosed>>
  PROVE  CloseInv' /\ ServedInv'
  BY StillClosing
    DEF SInv, LcNarrows, Fades, ServedInv, BodyOwnsTransport, ConnectedIsQuiet, ConnectedIsServed, Still,
        InBody

LEMMA CloseServed ==
  ASSUME SInv, IInv', CallsInv', CallEffect, NEW k, Close(k)
  PROVE  CloseInv' /\ ServedInv'
  <1> USE DEF SInv
  <1>1. /\ Still /\ Fades /\ k \in Awaited \cup Final /\ closing[k].pc = "idle"
        /\ RequestClose(k, lc) /\ lc' = CloseRequested(lc) /\ UNCHANGED sock
        /\ k \in Awaited => \A c \in Calls : ~InFlight(c)
        /\ \/ k \in Awaited
           \/ k \in Final /\ ~isClosed /\ isClosed' = TRUE
    BY CloseEffect
  <1>2. \A d \in Calls : call[d].pc = "settle" => k \in Final /\ ~isClosed /\ isClosed'
    BY <1>1 DEF IInv, OneInFlight
  <1>3. CloseInv'
    BY <1>1, <1>2, RequestClosing, ClosersAssumption
      DEF Still, Abandoned, InBody, InFlight, CloseIds, IInv, Types
  <1> QED
    BY <1>3, ServedDown, <1>1, BodyKept DEF ServedInv, Still, CloseRequested

LEMMA CloseStepServed ==
  ASSUME SInv, IInv', CallsInv', CallEffect, NEW k \in CloseIds, CloseStep(k)
  PROVE  CloseInv' /\ ServedInv'
  <1> USE DEF SInv
  <1>1. /\ Still /\ Fades /\ UNCHANGED <<readers, isClosed>>
        /\ closingQ # <<>> /\ Head(closingQ) = k
        /\ \/ closing[k].pc = "lock" /\ TearDown(sock)
           \/ closing[k].pc = "teardown" /\ UNCHANGED <<ws, writer, sock, ping>>
        /\ \/ CloseEnds(k)
           \/ /\ closing[k].pc = "lock"
              /\ closing' = [closing EXCEPT ![k].pc = "teardown"]
              /\ UNCHANGED <<lc, closingQ>>
    BY CloseStepEffect
  <1>2. ASSUME k \in Calls, Abandoned(k), call[k].pc = "opening", sock'[k] = "connecting"
        PROVE  FALSE
    BY <1>1, <1>2, ClosersAssumption
      DEF Fades, ServedInv, BodyOwnsTransport, CloseInv, AbandonedIsClosed, TearDown, IInv, Types,
          ClosingSocket
  <1>3. CloseInv'
    BY <1>1, <1>2, EndClosing, TearingClosing DEF Pending
  <1>4. BodyOwnsTransport'
    BY <1>1, BodyKept DEF Still, ServedInv
  <1>5. CASE lc = "connected"
    BY <1>5, <1>1, CloseEndsWrites, <1>3, <1>4, ServedStays
      DEF ServedInv, ConnectedIsQuiet, IInv, DisconnectingIsOwned, Still, InBody, ConnectedIsServed
  <1> QED
    BY <1>5, <1>1, <1>3, <1>4, ServedDown DEF CloseEnds, ServedInv

LEMMA GiveUpServed ==
  ASSUME SInv, IInv', CallsInv', CallEffect, NEW c \in Calls, GiveUp(c), call[c].abortable,
         \/ aborted' = TRUE
         \/ aborted' = aborted /\ call[c].timer /\ call[c].pc # "replace"
  PROVE  CloseInv' /\ ServedInv'
  <1> USE DEF SInv
  <1>1. /\ GivesUp(c) /\ UNCHANGED <<ws, writer, sock>>
        /\ \E st \in States : /\ RequestClose(c, st) /\ lc' = CloseRequested(st)
                              /\ lc \in {"closed", "disconnecting"} => st = lc
    BY GiveUpEffect
  <1>2. PICK st \in States : /\ RequestClose(c, st) /\ lc' = CloseRequested(st)
                             /\ lc \in {"closed", "disconnecting"} => st = lc
    BY <1>1
  <1>3. /\ InFlight(c) /\ closing[c].pc = "idle" /\ c \in CloseIds
        /\ \A d \in Calls : call[d].pc # "settle"
    BY OnlyOneInFlight DEF CallsInv, EarlyIsPending, IInv, ClosesOnce, CloseIds, OneInFlight
  <1>4. \A d \in Calls : /\ call'[d].pc = call[d].pc
                         /\ d # c => call'[d] = call[d]
    BY <1>1 DEF GivesUp, OnlyCall
  <1>5. CloseInv'
    BY <1>1, <1>2, <1>3, <1>4, RequestClosing
      DEF Abandoned, OtherTypes, CallsInv, EarlyIsPending, InBody, InFlight
  <1> QED
    BY <1>5, ServedDown, <1>1, <1>2, <1>4, BodyKept, SocketKept DEF ServedInv, CloseRequested

LEMMA FirstMessageTimeoutServed ==
  ASSUME SInv, IInv', CallsInv', CallEffect, NEW c \in Calls, FirstMessageTimeout(c)
  PROVE  CloseInv' /\ ServedInv'
  <1> USE DEF SInv
  <1>1. /\ Ends(c) /\ call[c].pc = "first" /\ Drained /\ InBody(c)
        /\ UNCHANGED <<sock, isClosed>>
        /\ IF closing[c].pc \in {"idle", "done"}
           THEN RequestClose(c, lc) /\ lc' = CloseRequested(lc)
           ELSE UNCHANGED <<lc, closing, closingQ>>
    BY FirstMessageTimeoutEffect DEF Ends
  <1>2. lc # "connected" /\ lc' # "connected"
    BY <1>1 DEF ServedInv, ConnectedIsQuiet, CloseRequested
  <1>3. /\ \A d \in Calls : ~InBody(d)' /\ ~Abandoned(d)'
        /\ \A d \in Calls : d # c => call'[d] = call[d]
        /\ call'[c].pc = "done"
    BY <1>1, EndsHolds DEF Ends, OnlyCall, Abandoned
  <1>4. CASE closing[c].pc \in {"idle", "done"}
    <2>1. ASSUME NEW d \in Calls, call[d].pc = "settle" PROVE FALSE
      BY <2>1, QueueServed, <1>1, <1>4
        DEF CloseWaiting, CloseIds, CloseInv, ClosesInOrder, IsQueue, SettleIsNext, Pending, Drained,
            Runnable
    <2>2. CloseInv'
      BY <1>1, <1>3, <1>4, <2>1, RequestClosing DEF CloseIds, IInv, Types, InBody
    <2> QED
      BY <1>1, <1>2, <2>2, EndsServed
  <1> QED
    BY <1>4, <1>1, <1>3, KeptClosing, <1>2, EndsServed DEF LcNarrows

LEMMA HandleOnCloseTypes ==
  ASSUME OtherTypes, NEW s, NEW id, HandleOnClose(s, id)
  PROVE  ws' \in Calls \cup {None} /\ ping' \in BOOLEAN /\ reports' \subseteq Calls
  BY DEF OtherTypes, HandleOnClose, TearDown, Lingers

LEMMA OtherTypesHold ==
  ASSUME IInv, OtherTypes, [Next]_vars
  PROVE  OtherTypes'
  <1> USE DEF OtherTypes
  <1>1. ASSUME NEW c \in Calls, CallStep(c) PROVE OtherTypes'
    <2>1. CASE ParamsReady(c)
      BY <2>1 DEF ParamsReady, TearDown, OpenSocket, ask
    <2>2. CASE Replaced(c)
      BY <2>2 DEF Replaced, OpenSocket, ask
    <2>3. CASE ConnectTimeout(c)
      BY <2>3 DEF ConnectTimeout, GiveUp, transport, ask
    <2>4. CASE FirstMessageTimeout(c)
      BY <2>4 DEF FirstMessageTimeout, transport, ask
    <2>5. ASSUME NEW r \in BOOLEAN, Classified(c, r) PROVE OtherTypes'
      BY <2>5 DEF Classified, transport, ask
    <2> QED
      BY <1>1, <2>1, <2>2, <2>3, <2>4, <2>5, CloseSettledBegins
        DEF CallStep, Begins, Refused, ConnectionLocked, transport, ask
  <1>2. CASE Environment
    <2>1. ASSUME NEW c \in Calls, NEW kind \in {"join", "reconnect"}, Establish(c, kind)
          PROVE  OtherTypes'
      BY <2>1 DEF Establish, Begin, transport, ask
    <2>2. ASSUME NEW c \in Calls, SocketFails(c) PROVE OtherTypes'
      BY <2>2, SocketFailsEffect, HandleOnCloseTypes DEF SocketFails, ask, Fades
    <2>3. ASSUME NEW c \in Calls, SocketCloses(c) PROVE OtherTypes'
      BY <2>3, SocketClosesEffect, HandleOnCloseTypes DEF SocketCloses, ask, Fades
    <2>4. ASSUME NEW c \in Calls, Abort(c) PROVE OtherTypes'
      BY <2>4 DEF Abort, GiveUp, transport
    <2>5. ASSUME NEW c \in Calls, NEW msg \in {"session", "other", "leave"}, FirstMessage(c, msg)
          PROVE  OtherTypes'
      BY <2>5, FirstMessageEffect DEF FirstMessage, transport
    <2>6. ASSUME NEW k \in Awaited \cup Final, Close(k) PROVE OtherTypes'
      BY <2>6 DEF Close, OwnerCloses, transport
    <2>7. CASE PingTimeout
      BY <2>7, PingTimeoutEffect, HandleOnCloseTypes DEF PingTimeout, ask, Fades
    <2> QED
      BY <1>2, <2>1, <2>2, <2>3, <2>4, <2>5, <2>6, <2>7 DEF Environment, SocketOpens, ask
  <1>3. CASE UNCHANGED vars
    BY <1>3 DEF vars, ask
  <1> QED
    BY <1>1, <1>2, <1>3 DEF Next, ReportLoss, transport, ask, CloseStep, CloseTearsDown, CloseTornDown, TearDown

LEMMA SInvInit == Init => SInv
  <1> SUFFICES ASSUME Init PROVE SInv
    OBVIOUS
  <1>1. /\ \A c \in Calls : /\ call[c].pc = "idle" /\ call[c].result = "none"
                            /\ ~call[c].timer /\ ~call[c].abortable
        /\ \A k \in CloseIds : closing[k].pc = "idle"
    BY DEF Init, CallRecord, CloseRecord
  <1>2. \A c \in Calls : ~InBody(c) /\ ~InFlight(c)
    BY <1>1 DEF InBody, InFlight
  <1>3. IsQueue(<<>>, {})
    BY DEF IsQueue
  <1>4. CallsInv
    <2>1. ConnWaiting = {}
      BY <1>1, <1>2 DEF ConnWaiting
    <2>2. EarlyIsPending
      BY <1>1, <1>2 DEF Init, EarlyIsPending
    <2>3. OwnersInOrder
      BY <2>1 DEF Init, OwnersInOrder
    <2> QED
      BY <2>2, <2>3, <1>2, <1>3, <2>1 DEF CallsInv, Init, LockInOrder
  <1>5. CloseInv
    BY <1>1, <1>3, <1>2
      DEF CloseWaiting, Pending, Init, ClosesInOrder, SettleIsNext, FewCloses, AbandonedIsClosed, Abandoned,
          CloseInv
  <1> QED
    BY <1>4, <1>5, InitHolds, <1>1
      DEF SInv, Init, OtherTypes, ServedInv, BodyOwnsTransport, ConnectedIsQuiet, ConnectedIsServed

LEMMA SInvHolds ==
  ASSUME SInv, [Next]_vars
  PROVE  SInv'
  <1>1. IInv' /\ OtherTypes'
    BY NextHolds, OtherTypesHold DEF SInv
  <1>2. CallsInv' /\ CallEffect
    BY <1>1, CallsInvHolds DEF SInv
  <1>3. CloseInv' /\ ServedInv'
    <2>1. ASSUME NEW c \in Calls, CallStep(c) PROVE CloseInv' /\ ServedInv'
      BY <1>1, <1>2, CloseSettledServed, LockedServed, ParamsReadyServed, GiveUpServed,
         FirstMessageTimeoutServed, ClassifiedServed, <2>1
        DEF ConnectTimeout, SInv, IInv, ClosesOnce, ask, CallStep
    <2>2. CASE Environment
      <3>1. ASSUME NEW c \in Calls, SocketOpens(c) \/ SocketFails(c) \/ SocketCloses(c)
            PROVE  CloseInv' /\ ServedInv'
        BY <1>1, <1>2, <3>1, SocketOpensServed, SocketFailsServed, SocketClosesServed
      <3>2. ASSUME NEW c \in Calls, NEW msg \in {"session", "other", "leave"}, FirstMessage(c, msg)
            PROVE  CloseInv' /\ ServedInv'
        BY <1>1, <1>2, <3>2, FirstMessageServed
      <3>3. ASSUME NEW k \in Awaited \cup Final, Close(k) PROVE CloseInv' /\ ServedInv'
        BY <1>1, <1>2, <3>3, CloseServed
      <3> QED
        BY <1>1, <1>2, <2>2, <3>1, <3>2, <3>3, PingTimeoutServed, EstablishServed, GiveUpServed
          DEF Environment, Abort
    <2>3. CASE UNCHANGED vars
      BY <1>1, <1>2, <2>3, StillServed DEF vars, ask, Still, SocksKept
    <2> QED
      BY <2>1, <2>2, <2>3, <1>1, <1>2, ReportLossEffect, StillServed, CloseStepServed DEF Next
  <1> QED
    BY <1>1, <1>2, <1>3 DEF SInv

LEMMA SInvMeans == SInv => ConnectionIsServed
  <1> SUFFICES ASSUME SInv PROVE ConnectionIsServed
    OBVIOUS
  <1> USE DEF SInv
  <1>1. attempt \in 0..MaxCalls
    BY CallsAssumption DEF IInv, Types, CallsInv, OwnersInOrder, Calls
  <1>2. connQ \in Seq(Calls) /\ closingQ \in Seq(Calls \cup CloseIds)
    BY DEF CallsInv, LockInOrder, CloseInv, ClosesInOrder, IsQueue, ConnWaiting, CloseWaiting
  <1>3. TypeOK
    BY <1>1, <1>2, CallsAssumption
      DEF TypeOK, OtherTypes, IInv, Types, CallRecords, CloseRecords, SockStates, CallsInv, OwnersInOrder
  <1> QED
    BY <1>3, OneRuns DEF ConnectionIsServed, ServedInv, OneBody

\* SignalClient: for any number of calls and closes, a client that says it is connected has
\* the open socket of its last attempt, writes to it, reads it and pings it; and one attempt's
\* connect() at a time is past connectionLock.
THEOREM ConnectionsAreServed == Spec => []ConnectionIsServed
  BY SInvInit, SInvHolds, SInvMeans, PTL DEF Spec

\* What takes a connected client offline is its own transport or its pings.
LEMMA OwnLoss ==
  ASSUME SInv, [Next]_vars, lc = "connected", lc' = "offline"
  PROVE  \A c \in Calls \ {ws} : sock'[c] = sock[c]
  <1> USE DEF SInv
  <1>1. \A c \in Calls : ~InBody(c) /\ call[c].pc # "lock" /\ ~call[c].abortable
    BY DEF ServedInv, ConnectedIsQuiet, IInv, ClosesOnce, InBody
  <1>2. /\ ws \in Calls /\ sock[ws] = "open" /\ sockOwner[ws] = attempt
        /\ sock \in [Calls -> SockStates]
    BY DEF ServedInv, ConnectedIsServed, OtherTypes, IInv, Types
  <1>3. ASSUME NEW s \in [Calls -> SockStates], HandleOnClose(s, attempt)
        PROVE  \A c \in Calls \ {ws} : sock'[c] = s[c]
    BY <1>2, <1>3 DEF HandleOnClose, TearDown, ClosingSocket
  <1>4. CASE PingTimeout
    BY <1>2, <1>3, <1>4 DEF PingTimeout
  <1>5. ASSUME NEW c \in Calls, SocketCloses(c) PROVE \A d \in Calls \ {ws} : sock'[d] = sock[d]
    <2>1. /\ HandleOnClose([sock EXCEPT ![c] = "closed"], sockOwner[c])
          /\ sock[c] \in {"open", "closing"}
          /\ lc' = AfterReject(c, Lost(lc, sockOwner[c]), TRUE)
      BY <1>5 DEF SocketCloses
    <2>2. sockOwner[c] = attempt
      <3>1. ~InFlight(c)
        BY <1>1, <2>1
           DEF InBody, IInv, SocketsOpenLate, BeforeUpgrade, OneInFlight, Types, CallRecords
      <3> QED
        BY <2>1, <3>1 DEF AfterReject, InFlight, Lost
    <2>3. [sock EXCEPT ![c] = "closed"] \in [Calls -> SockStates]
      BY <1>2 DEF SockStates
    <2> QED
      BY <1>2, <1>3, <2>1, <2>2, <2>3 DEF CallsInv, OwnersInOrder
  <1>6. ASSUME NEW c \in Calls PROVE ~CallStep(c) \/ lc' # "offline"
    <2>1. CASE CloseSettled(c)
      BY <2>1, CloseSettledBegins
    <2> QED
      BY <1>1, <2>1 DEF CallStep, ConnectionLocked, ParamsReady, Replaced, ConnectTimeout,
         FirstMessageTimeout, Classified, InBody, IInv, ClosesOnce
  <1>7. ASSUME NEW c \in Calls, SocketOpens(c) \/ SocketFails(c) \/ Abort(c) PROVE FALSE
    BY <1>1, <1>7 DEF SocketOpens, SocketFails, Abort, InBody
  <1>8. ASSUME NEW c \in Calls, NEW msg, FirstMessage(c, msg) PROVE FALSE
    BY <1>1, <1>8 DEF FirstMessage, InBody
  <1>9. ASSUME NEW k \in CloseIds, CloseStep(k) PROVE FALSE
    BY <1>9 DEF CloseStep, CloseTearsDown, CloseTornDown, CloseEnds
  <1>10. ASSUME NEW c \in Calls, ReportLoss(c) PROVE FALSE
    BY <1>10 DEF ReportLoss, machine
  <1>11. CASE UNCHANGED vars
    BY <1>11 DEF vars
  <1> QED
    BY <1>4, <1>5, <1>6, <1>7, <1>8, <1>9, <1>10, <1>11, EstablishBegins
      DEF Next, Environment, Close, CloseRequested, Started

\* handleOnClose and the pings: a step that takes a connected client offline touches no other
\* socket than the one in use, so the close event of a replaced socket never does.
THEOREM OthersLossIsIgnored == Spec => OnlyOwnLossDrops
  <1> DEFINE Own == lc = "connected" /\ lc' = "offline" =>
                      \A c \in Calls \ {ws} : sock'[c] = sock[c]
  <1>1. SInv /\ [Next]_vars => [Own]_vars
    BY OwnLoss
  <1>2. OnlyOwnLossDrops <=> [][Own]_vars
    BY DEF OnlyOwnLossDrops
  <1> HIDE DEF Own
  <1> QED
    BY <1>1, <1>2, SInvInit, SInvHolds, PTL DEF Spec

-----------------------------------------------------------------------------
(***************************************************************************)
(* Negotiation.                                                            *)
(***************************************************************************)

-----------------------------------------------------------------------------
(* Types, in the parts that an action changes together                      *)

TWire == /\ phase \in {"down", "joining", "running", "restarting"}
         /\ session \in Nat /\ link \in BOOLEAN
         /\ server \in Seq(Offers) /\ toClient \in Seq(Offers)
         /\ events \in Nat
TPeer == /\ localOffer \in Offers /\ hasRemote \in BOOLEAN
         /\ pendingInitialOffer \in Offers
         /\ latestOfferId \in Nat /\ latestAcknowledgedOfferId \in Nat
         /\ applied \in SUBSET [offer : Offers, answer : Offers]
         /\ refused \in BOOLEAN
TChain == chain \in Seq(Operation)
TLock == /\ lockQueue \in Seq(Tasks) /\ entered \in BOOLEAN
         /\ renegotiate \in BOOLEAN
         /\ debounced \in [armed : BOOLEAN, onError : Requests \cup {Nobody}]
TReq == /\ req \in [Requests -> [state : RequestStates, session : Nat, checkpoint : Nat]]
        /\ fullReconnect \in BOOLEAN /\ asker \in Requests \cup {Nobody}

LEMMA TypeParts == NegotiationTypeOK <=> TWire /\ TPeer /\ TChain /\ TLock /\ TReq
  BY DEF NegotiationTypeOK, TWire, TPeer, TChain, TLock, TReq

\* The members of the types that actions build.
LEMMA NoOfferType == NoOffer \in Offers
  BY DEF NoOffer, Offers

LEMMA OpType ==
  ASSUME NEW op \in Ops, NEW offer \in Offers, NEW answer \in Offers
  PROVE  Op(op, offer, answer) \in Operation
  BY DEF Op, Operation

LEMMA TaskType ==
  ASSUME NEW kind \in Kinds, NEW onError \in Requests \cup {Nobody}
  PROVE  Task(kind, onError) \in Tasks
  BY DEF Task, Tasks

\* An offer that has been begun but not created describes nothing yet.
LEMMA BegunType ==
  ASSUME latestOfferId \in Nat
  PROVE  [id |-> latestOfferId + 1, has |-> {}] \in Offers
  BY DEF Offers

\* The first operation of the chain and what it is about.
LEMMA HeadOp ==
  ASSUME TChain, chain # <<>>
  PROVE  /\ Head(chain) \in Operation /\ Tail(chain) \in Seq(Operation)
         /\ Head(chain).offer \in Offers /\ Head(chain).answer \in Offers
  <1>1. Head(chain) \in Operation /\ Tail(chain) \in Seq(Operation)
    BY DEF TChain
  <1> QED
    BY <1>1 DEF Operation

LEMMA ChangesType == Changes \in SUBSET Requests
  BY DEF Changes

\* Nothing is queued.
LEMMA EmptyTypes == <<>> \in Seq(Offers) /\ <<>> \in Seq(Operation) /\ <<>> \in Seq(Tasks)
  OBVIOUS

LEMMA InitTypes == NegotiationInit => NegotiationTypeOK
  <1> SUFFICES ASSUME NegotiationInit PROVE NegotiationTypeOK
    OBVIOUS
  <1>1. TPeer
    BY NoOfferType DEF NegotiationInit, TPeer
  <1>2. TLock /\ TReq
    BY EmptyTypes DEF NegotiationInit, TLock, TReq, RequestStates
  <1> QED
    BY <1>1, <1>2, TypeParts, EmptyTypes DEF NegotiationInit, TWire, TChain

-----------------------------------------------------------------------------
LEMMA WireTypes ==
  ASSUME NegotiationTypeOK, [NegotiationNext]_negotiationVars
  PROVE  TWire'
  <1> USE DEF TWire
  <1>1. TWire /\ TPeer /\ TChain
    BY TypeParts
  <1>2. CASE \E r \in Requests : Negotiate(r) \/ NegotiateRejected(r) \/ Deadline(r)
    BY <1>1, <1>2 DEF Negotiate, NegotiateRejected, Deadline, Bounded, wire
  <1>3. CASE EnsureNegotiates \/ DebounceFires \/ Enter
    BY <1>1, <1>3 DEF EnsureNegotiates, DebounceFires, Enter, Bounded, wire
  <1>4. CASE CreateOffer
    <2>1. [Head(chain).offer EXCEPT !.has = Changes] \in Offers
      BY <1>1, <1>4, HeadOp, ChangesType DEF CreateOffer, Offers
    <2>2. server' = server
          \/ server' = Append(server, [Head(chain).offer EXCEPT !.has = Changes])
      BY <1>4 DEF CreateOffer, OfferCreated
    <2>3. \A o \in Offers : Append(server, o) \in Seq(Offers)
      BY <1>1
    <2>4. server' \in Seq(Offers)
      BY <1>1, <2>1, <2>2, <2>3, Zenon
    <2> QED
      BY <1>1, <1>4, <2>4 DEF CreateOffer
  <1>5. CASE SetLocal
    <2>1. [Head(chain).offer EXCEPT !.id = latestOfferId] \in Offers
      BY <1>1, <1>5, HeadOp DEF SetLocal, Offers, TPeer
    <2> QED
      BY <1>1, <1>5, <2>1 DEF SetLocal, SendOffer
  <1>6. CASE SetLocalRefused \/ Rollback \/ SetInitial \/ SetAnswer
    BY <1>1, <1>6 DEF SetLocalRefused, Rollback, SetInitial, SetAnswer, Bounded, wire
  <1>7. CASE ServerAnswers
    BY <1>1, <1>7 DEF ServerAnswers
  <1>8. CASE ReceiveAnswer
    BY <1>1, <1>8 DEF ReceiveAnswer
  <1>9. CASE LinkLost
    <2>1. PICK received \in 0..Len(server) : server' = SubSeq(server, 1, received)
      BY <1>9 DEF LinkLost
    <2>2. link' \in BOOLEAN /\ phase' = phase /\ session' = session
      BY <1>9 DEF LinkLost
    <2>3. events' \in Nat /\ toClient' \in Seq(Offers)
      BY <1>1, <1>9, EmptyTypes DEF LinkLost, Bounded
    <2> QED
      BY <1>1, <2>2, <2>3, <2>1
  <1>10. CASE Resume
    BY <1>1, <1>10 DEF Resume, wire
  <1>11. CASE RestartAsked \/ RestartForced
    BY <1>1, <1>11 DEF RestartAsked, RestartForced, Bounded, Restarting, wire
  <1>12. CASE Teardown
    BY <1>1, <1>12, EmptyTypes DEF Teardown
  <1>13. CASE Configure
    <2>1. link' \in BOOLEAN
      BY <1>13 DEF Configure
    <2>2. phase' \in {"joining", "running"} /\ session' = session + 1
          /\ UNCHANGED <<server, toClient, events>>
      BY <1>13 DEF Configure, wire
    <2> QED
      BY <1>1, <2>1, <2>2
  <1>14. CASE Joined
    BY <1>1, <1>14 DEF Joined, wire
  <1>15. CASE JoinRetry
    BY <1>1, <1>15, EmptyTypes DEF JoinRetry, Bounded
  <1>16. CASE UNCHANGED negotiationVars
    BY <1>1, <1>16 DEF negotiationVars, wire
  <1> QED
    BY <1>2, <1>3, <1>4, <1>5, <1>6, <1>7, <1>9, <1>10, <1>12, <1>16, <1>8, <1>13,
       <1>14, <1>11, <1>15
    DEF NegotiationNext, Work

LEMMA PeerTypes ==
  ASSUME NegotiationTypeOK, [NegotiationNext]_negotiationVars
  PROVE  TPeer'
  <1> USE DEF TPeer
  <1>1. TWire /\ TPeer /\ TChain
    BY TypeParts
  <1>2. CASE \E r \in Requests : Negotiate(r) \/ NegotiateRejected(r) \/ Deadline(r)
    BY <1>1, <1>2 DEF Negotiate, NegotiateRejected, Deadline, ids, transportVars
  <1>3. CASE EnsureNegotiates \/ DebounceFires \/ Enter
    BY <1>1, <1>3 DEF EnsureNegotiates, DebounceFires, Enter, BeginOffer, ids
  <1>4. CASE CreateOffer
    BY <1>1, <1>4, HeadOp, ChangesType DEF CreateOffer, Offers, OfferCreated, ids
  <1>5. CASE SetLocal \/ SetLocalRefused \/ SetInitial
    BY <1>1, <1>5, HeadOp DEF SetLocal, SetLocalRefused, SetInitial, ids
  <1>6. CASE Rollback
    BY <1>1, <1>6, NoOfferType DEF Rollback
  <1>7. CASE SetAnswer
    <2>1. /\ Head(chain).answer \in Offers
          /\ Head(chain).answer.id \in Nat
      BY <1>1, <1>7, HeadOp DEF SetAnswer, Offers
    <2>2. applied' \in SUBSET [offer : Offers, answer : Offers]
      BY <1>1, <1>7, <2>1 DEF SetAnswer
    <2> QED
      BY <1>1, <1>7, <2>1, <2>2, NoOfferType DEF SetAnswer
  <1>8. CASE ServerAnswers \/ ReceiveAnswer
    BY <1>1, <1>8, NoOfferType DEF ServerAnswers, ReceiveAnswer, transportVars, ids
  <1>9. CASE LinkLost \/ Resume \/ RestartAsked \/ RestartForced
    BY <1>1, <1>9 DEF LinkLost, Resume, RestartAsked, RestartForced, Restarting,
       transportVars, ids
  <1>10. CASE Joined \/ JoinRetry
    BY <1>1, <1>10 DEF Joined, JoinRetry, transportVars, ids
  <1>11. CASE Teardown
    BY <1>1, <1>11, NoOfferType DEF Teardown, FreshTransport
  <1>12. CASE Configure
    BY <1>1, <1>12, NoOfferType DEF Configure, FreshTransport
  <1>13. CASE UNCHANGED negotiationVars
    BY <1>1, <1>13 DEF negotiationVars, transportVars
  <1> QED
    BY <1>2, <1>3, <1>4, <1>5, <1>6, <1>7, <1>8, <1>9, <1>10, <1>13, <1>11, <1>12
    DEF NegotiationNext, Work

LEMMA ChainTypes ==
  ASSUME NegotiationTypeOK, [NegotiationNext]_negotiationVars
  PROVE  TChain'
  <1>1. TWire /\ TPeer /\ TChain
    BY TypeParts
  <1>2. \A op \in Ops : \A o, a \in Offers : Op(op, o, a) \in Operation
    BY OpType
  <1>3. NoOffer \in Offers /\ [id |-> latestOfferId + 1, has |-> {}] \in Offers
    BY <1>1, NoOfferType, BegunType DEF TPeer
  <1>4. chain # <<>> => /\ Head(chain) \in Operation /\ Tail(chain) \in Seq(Operation)
                        /\ Head(chain).offer \in Offers /\ Head(chain).answer \in Offers
    BY <1>1, HeadOp
  <1>5. CASE \E r \in Requests : Negotiate(r) \/ NegotiateRejected(r) \/ Deadline(r)
    BY <1>1, <1>5 DEF Negotiate, NegotiateRejected, Deadline, transportVars, TChain
  <1>6. CASE EnsureNegotiates \/ DebounceFires
    BY <1>1, <1>6 DEF EnsureNegotiates, DebounceFires, TChain
  <1>7. CASE Enter
    BY <1>2, <1>3, <1>1, <1>7 DEF Ops, Enter, BeginOffer, TChain
  <1>8. CASE CreateOffer
    <2> DEFINE offer == [Head(chain).offer EXCEPT !.has = Changes]
    <2>1. Op("setLocal", offer, NoOffer) \in Operation
      BY <1>2, <1>3, <1>4, <1>8, ChangesType DEF Ops, CreateOffer, Offers
    <2>2. chain' = Tail(chain) \/ chain' = Append(Tail(chain), Op("setLocal", offer, NoOffer))
      BY <1>8 DEF CreateOffer, OfferCreated
    <2> QED
      BY <1>4, <1>8, <2>1, <2>2 DEF CreateOffer, TChain
  <1>9. CASE SetLocal \/ SetLocalRefused
    BY <1>4, <1>9 DEF SetLocal, SetLocalRefused, TChain
  <1>10. CASE Rollback
    <2>1. Op("createOffer", [id |-> latestOfferId + 1, has |-> {}], NoOffer) \in Operation
      BY <1>2, <1>3 DEF Ops
    <2>2. chain' = Tail(chain)
          \/ chain' = Append(Tail(chain),
               Op("createOffer", [id |-> latestOfferId + 1, has |-> {}], NoOffer))
      BY <1>10 DEF Rollback
    <2>3. Tail(chain) \in Seq(Operation)
      BY <1>4, <1>10 DEF Rollback
    <2>4. \A q \in Seq(Operation) : \A x \in Operation : Append(q, x) \in Seq(Operation)
      OBVIOUS
    <2> QED
      BY <2>1, <2>2, <2>3, <2>4, Zenon DEF TChain
  <1>11. CASE SetInitial
    BY <1>2, <1>3, <1>4, <1>11 DEF SetInitial, Ops, TChain
  <1>12. CASE SetAnswer
    <2>1. [Head(chain) EXCEPT !.again = TRUE] \in Operation
      BY <1>4, <1>12 DEF SetAnswer, Operation
    <2> QED
      BY <1>4, <1>12, <2>1 DEF SetAnswer, TChain
  <1>13. CASE ReceiveAnswer
    <2>1. /\ Op("setInitial", pendingInitialOffer, Head(toClient)) \in Operation
          /\ Op("setAnswer", NoOffer, Head(toClient)) \in Operation
      BY <1>1, <1>2, <1>3, <1>13 DEF TPeer, Ops, ReceiveAnswer, TWire
    <2>2. chain' = chain
          \/ chain' = Append(chain, Op("setInitial", pendingInitialOffer, Head(toClient)))
          \/ chain' = Append(chain, Op("setAnswer", NoOffer, Head(toClient)))
      BY <1>13 DEF ReceiveAnswer
    <2> QED
      BY <1>1, <2>1, <2>2 DEF TChain
  <1>14. CASE ServerAnswers \/ LinkLost \/ Resume \/ RestartAsked \/ RestartForced
    BY <1>1, <1>14 DEF ServerAnswers, LinkLost, Resume, RestartAsked, RestartForced,
       Restarting, transportVars, TChain
  <1>15. CASE Teardown \/ Configure
    BY <1>15, EmptyTypes DEF Teardown, Configure, FreshTransport, TChain
  <1>16. CASE Joined \/ JoinRetry
    BY <1>1, <1>16 DEF Joined, JoinRetry, transportVars, TChain
  <1>17. CASE UNCHANGED negotiationVars
    BY <1>1, <1>17 DEF negotiationVars, transportVars, TChain
  <1> QED
    BY <1>5, <1>6, <1>7, <1>8, <1>9, <1>10, <1>11, <1>12, <1>13, <1>14, <1>15, <1>17,
       <1>16
    DEF NegotiationNext, Work

-----------------------------------------------------------------------------
(* The offer lock: what createAndSendOffer and createInitialOffer put on    *)
(* the chain, they put there one at a time and while they hold the lock, so  *)
(* the offer being made is always the latest one.                           *)

LockOps == {"createOffer", "setLocal", "rollback"}

NoLockOps(c) == \A i \in DOMAIN c : c[i].op \notin LockOps

LockHeld ==
  /\ \A i \in DOMAIN chain : chain[i].op \in LockOps => lockQueue # <<>> /\ entered
  /\ \A i, j \in DOMAIN chain :
       chain[i].op \in LockOps /\ chain[j].op \in LockOps => i = j
  /\ \A i \in DOMAIN chain :
       chain[i].op \in LockOps \ {"rollback"} => chain[i].offer.id = latestOfferId

LEMMA TailElements ==
  ASSUME NEW S, NEW s \in Seq(S), s # <<>>, NEW i \in DOMAIN Tail(s)
  PROVE  i \in Nat /\ i # 0 /\ i + 1 \in DOMAIN s /\ Tail(s)[i] = s[i + 1]
  OBVIOUS

LEMMA AppendElements ==
  ASSUME NEW S, NEW s \in Seq(S), NEW x, NEW i \in DOMAIN Append(s, x)
  PROVE  \/ i \in DOMAIN s /\ Append(s, x)[i] = s[i]
         \/ i = Len(s) + 1 /\ i \notin DOMAIN s /\ Append(s, x)[i] = x
  OBVIOUS

LEMMA HeadElement ==
  ASSUME NEW S, NEW s \in Seq(S), s # <<>>
  PROVE  1 \in DOMAIN s /\ Head(s) = s[1]
  OBVIOUS

\* When the holder's operation is done, the chain holds none of the lock's.
LEMMA HolderAlone ==
  ASSUME TChain, LockHeld, chain # <<>>, Head(chain).op \in LockOps
  PROVE  NoLockOps(Tail(chain)) /\ lockQueue # <<>> /\ entered
  BY HeadElement, TailElements DEF TChain, LockHeld, NoLockOps

\* Nothing of the lock's is on the chain while its next holder has not begun.
LEMMA NobodyBegan ==
  ASSUME LockHeld, ~LockSettled
  PROVE  NoLockOps(chain) /\ lockQueue # <<>>
  BY DEF LockHeld, NoLockOps, LockSettled

LEMMA Free ==
  ASSUME NoLockOps(chain')
  PROVE  LockHeld'
  BY DEF NoLockOps, LockHeld

LEMMA Alone ==
  ASSUME NEW c \in Seq(Operation), NoLockOps(c), NEW x \in Operation,
         chain' = Append(c, x), lockQueue' # <<>>, entered',
         x.op # "rollback" => x.offer.id = latestOfferId'
  PROVE  LockHeld'
  BY AppendElements DEF NoLockOps, LockHeld

\* The lock stays with its holder, and its operation stays on the chain.
LEMMA Elsewhere ==
  ASSUME TChain, LockHeld, NEW x \in Operation, x.op \notin LockOps,
         latestOfferId' = latestOfferId, entered' = entered,
         lockQueue # <<>> => lockQueue' # <<>>,
         \/ chain' = chain \/ chain' = Append(chain, x)
         \/ /\ chain # <<>> /\ Head(chain).op \notin LockOps
            /\ chain' = Tail(chain) \/ chain' = Append(Tail(chain), x)
  PROVE  LockHeld'
  <1>1. CASE chain' = Append(chain, x)
    BY <1>1, AppendElements DEF TChain, LockHeld
  <1>2. CASE chain # <<>> /\ (chain' = Tail(chain) \/ chain' = Append(Tail(chain), x))
    <2>1. \A i \in DOMAIN chain' : chain'[i].op \in LockOps =>
            i \in DOMAIN Tail(chain) /\ chain'[i] = Tail(chain)[i]
      BY <1>2, AppendElements DEF TChain
    <2>2. \A i \in DOMAIN chain' : chain'[i].op \in LockOps =>
            i \in Nat /\ i + 1 \in DOMAIN chain /\ chain'[i] = chain[i + 1]
      BY <2>1, <1>2, TailElements DEF TChain
    <2>3. \A i, j \in DOMAIN chain' :
            chain'[i].op \in LockOps /\ chain'[j].op \in LockOps => i = j
      BY <2>2 DEF LockHeld
    <2> QED
      BY <2>2, <2>3 DEF LockHeld
  <1> QED
    BY <1>1, <1>2 DEF LockHeld

LEMMA OpFields ==
  ASSUME NEW op, NEW offer, NEW answer
  PROVE  /\ Op(op, offer, answer).op = op
         /\ Op(op, offer, answer).offer = offer
         /\ Op(op, offer, answer).answer = answer
  BY DEF Op

\* A step that leaves the chain, the offer id and the lock's holder alone.
LEMMA ChainIdle ==
  ASSUME LockHeld, UNCHANGED <<chain, latestOfferId, entered>>,
         lockQueue # <<>> => lockQueue' # <<>>
  PROVE  LockHeld'
  BY DEF LockHeld

LEMMA InitLock == NegotiationInit => LockHeld
  BY DEF NegotiationInit, LockHeld

LEMMA LockSteps ==
  ASSUME NegotiationTypeOK, LockHeld, [NegotiationNext]_negotiationVars
  PROVE  LockHeld'
  <1>1. TPeer /\ TChain /\ TLock
    BY TypeParts
  <1>2. chain # <<>> => /\ Head(chain) \in Operation /\ Tail(chain) \in Seq(Operation)
                        /\ Head(chain).offer \in Offers /\ Head(chain).answer \in Offers
    BY <1>1, HeadOp
  <1>3. \A q \in Seq(Tasks) : \A t : Append(q, t) # <<>>
    BY AppendProperties
  <1>4. TChain' /\ NoOffer \in Offers /\ [id |-> latestOfferId + 1, has |-> {}] \in Offers
    BY <1>1, ChainTypes, NoOfferType, BegunType DEF TPeer
  <1>5. CASE \E r \in Requests : Negotiate(r) \/ NegotiateRejected(r) \/ Deadline(r)
    BY <1>5, ChainIdle DEF Negotiate, NegotiateRejected, Deadline, transportVars, ids, lock
  <1>6. CASE EnsureNegotiates \/ DebounceFires
    BY <1>1, <1>3, <1>6, ChainIdle DEF EnsureNegotiates, DebounceFires, ids, lock, TLock
  <1>7. CASE Enter
    <2>1. NoLockOps(chain) /\ lockQueue # <<>>
      BY <1>7, NobodyBegan DEF Enter
    <2>2. CASE BeginOffer /\ entered' = TRUE /\ UNCHANGED lockQueue
      <3> DEFINE x == Op("createOffer", [id |-> latestOfferId + 1, has |-> {}], NoOffer)
      <3>1. x \in Operation /\ x.offer.id = latestOfferId'
        BY <1>4, <2>2, OpType, OpFields DEF BeginOffer, Ops
      <3> QED
        BY <1>1, <2>1, <2>2, <3>1, Alone DEF BeginOffer, TChain
    <2>3. CASE /\ chain' = Append(chain, Op("rollback", NoOffer, NoOffer))
               /\ entered' = TRUE /\ UNCHANGED lockQueue
      <3> DEFINE x == Op("rollback", NoOffer, NoOffer)
      <3>1. x \in Operation /\ x.op = "rollback"
        BY <1>4, OpType, OpFields DEF Ops
      <3> QED
        BY <1>1, <2>1, <2>3, <3>1, Alone DEF TChain
    <2> QED
      BY <1>7, <2>2, <2>3, <2>1, Free DEF Enter, NoLockOps
  <1>8. CASE CreateOffer
    <2> DEFINE offer == [Head(chain).offer EXCEPT !.has = Changes]
               x == Op("setLocal", offer, NoOffer)
    <2>1. /\ chain # <<>> /\ Head(chain).op = "createOffer"
          /\ latestOfferId' = latestOfferId
      BY <1>8 DEF CreateOffer, ids
    <2>2. NoLockOps(Tail(chain)) /\ lockQueue # <<>> /\ entered
      BY <1>1, <2>1, HolderAlone DEF LockOps
    <2>3. CASE chain' = Append(Tail(chain), x) /\ UNCHANGED lock
      <3>1. offer \in Offers /\ offer.id = Head(chain).offer.id
        BY <1>2, <2>1, ChangesType DEF Offers
      <3>2. x \in Operation /\ x.offer = offer
        BY <1>4, <3>1, OpType, OpFields DEF Ops
      <3> HIDE DEF x, offer
      <3>3. x.offer.id = latestOfferId' /\ lockQueue' # <<>> /\ entered'
        BY <2>1, <2>2, <2>3, <3>1, <3>2, <1>1, HeadElement DEF lock, TChain, LockHeld, LockOps
      <3> QED
        BY <1>2, <2>1, <2>2, <2>3, <3>2, <3>3, Alone
    <2> QED
      BY <1>8, <2>3, <2>2, Free DEF CreateOffer, OfferCreated
  <1>9. CASE SetLocal \/ SetLocalRefused
    BY <1>1, <1>9, HolderAlone, Free DEF SetLocal, SetLocalRefused, LockOps
  <1>10. CASE Rollback
    <2> DEFINE x == Op("createOffer", [id |-> latestOfferId + 1, has |-> {}], NoOffer)
    <2>1. NoLockOps(Tail(chain)) /\ lockQueue # <<>> /\ entered /\ chain # <<>>
      BY <1>1, <1>10, HolderAlone DEF Rollback, LockOps
    <2>2. CASE /\ chain' = Append(Tail(chain), x) /\ UNCHANGED lock
               /\ latestOfferId' = latestOfferId + 1
      <3>1. x \in Operation /\ x.offer.id = latestOfferId'
        BY <1>4, <2>2, OpType, OpFields DEF Ops
      <3> HIDE DEF x
      <3> QED
        BY <1>2, <2>1, <2>2, <3>1, Alone DEF lock
    <2> QED
      BY <1>10, <2>2, <2>1, Free DEF Rollback
  <1>11. CASE ReceiveAnswer
    <2>1. PICK x \in Operation : /\ x.op \notin LockOps
                                 /\ chain' = chain \/ chain' = Append(chain, x)
      <3>1. \A op \in {"setInitial", "setAnswer"} : \A o, a \in Offers :
              Op(op, o, a) \in Operation /\ Op(op, o, a).op \notin LockOps
        BY OpType, OpFields DEF Ops, LockOps
      <3>2. /\ Op("setInitial", pendingInitialOffer, Head(toClient)) \in Operation
            /\ Op("setInitial", pendingInitialOffer, Head(toClient)).op \notin LockOps
            /\ Op("setAnswer", NoOffer, Head(toClient)) \in Operation
            /\ Op("setAnswer", NoOffer, Head(toClient)).op \notin LockOps
        BY <1>4, <3>1, <1>11, TypeParts DEF ReceiveAnswer, TWire, TPeer
      <3> QED
        BY <3>2, <1>11 DEF ReceiveAnswer
    <2> QED
      BY <1>1, <2>1, Elsewhere, <1>11 DEF ReceiveAnswer, ids, lock
  <1>12. CASE SetInitial
    <2> DEFINE x == Op("setAnswer", NoOffer, Head(chain).answer)
    <2>1. chain # <<>> /\ Head(chain).op = "setInitial" /\ chain' = Append(Tail(chain), x)
          /\ UNCHANGED <<latestOfferId, entered, lockQueue>>
      BY <1>12 DEF SetInitial, ids, lock
    <2>2. x \in Operation /\ x.op \notin LockOps
      BY <1>2, <1>4, <2>1, OpType, OpFields DEF Ops, LockOps
    <2> HIDE DEF x
    <2> QED
      BY <1>1, <2>1, <2>2, Elsewhere DEF LockOps
  <1>13. CASE SetAnswer
    <2> DEFINE x == [Head(chain) EXCEPT !.again = TRUE]
    <2>1. chain # <<>> /\ Head(chain).op = "setAnswer"
          /\ UNCHANGED <<latestOfferId, entered>>
      BY <1>13 DEF SetAnswer
    <2>2. chain' = Tail(chain) \/ chain' = Append(Tail(chain), x)
      BY <1>13 DEF SetAnswer
    <2>3. x \in Operation /\ x.op \notin LockOps
      BY <1>2, <2>1 DEF Operation, LockOps
    <2> HIDE DEF x
    <2> QED
      BY <1>1, <2>1, <2>2, <2>3, Elsewhere, <1>3, <1>13 DEF LockOps, SetAnswer, Renegotiate, TLock
  <1>14. CASE ServerAnswers \/ LinkLost \/ RestartAsked \/ RestartForced \/ Joined
    BY <1>14, ChainIdle DEF ServerAnswers, LinkLost, RestartAsked, RestartForced,
       Restarting, Joined, transportVars
  <1>15. CASE Resume \/ JoinRetry
    BY <1>1, <1>3, <1>15, ChainIdle DEF Resume, JoinRetry, ids, TLock
  <1>16. CASE Teardown \/ Configure
    BY <1>16, Free DEF Teardown, Configure, FreshTransport, NoLockOps
  <1>17. CASE UNCHANGED negotiationVars
    BY <1>17, ChainIdle DEF negotiationVars, transportVars
  <1> QED
    BY <1>5, <1>6, <1>7, <1>8, <1>9, <1>10, <1>11, <1>12, <1>13, <1>14, <1>15, <1>16,
       <1>17
    DEF NegotiationNext, Work

-----------------------------------------------------------------------------
LEMMA LockTypes ==
  ASSUME NegotiationTypeOK, LockHeld, [NegotiationNext]_negotiationVars
  PROVE  TLock'
  <1> USE DEF TLock
  <1>1. TChain /\ TLock
    BY TypeParts
  <1>2. \A k \in Kinds : Task(k, Nobody) \in Tasks
    BY TaskType
  <1>3. \A q \in Seq(Tasks) : \A t \in Tasks : Append(q, t) \in Seq(Tasks)
    OBVIOUS
  <1>4. lockQueue # <<>> => Tail(lockQueue) \in Seq(Tasks)
    BY <1>1
  <1>5. CASE \E r \in Requests : Negotiate(r) \/ NegotiateRejected(r) \/ Deadline(r)
    <2>1. debounced' = debounced
          \/ \E r \in Requests : debounced' = [armed |-> TRUE, onError |-> r]
      BY <1>5 DEF Negotiate, CallDebounced, NegotiateRejected, Deadline, transportVars
    <2>2. \A r \in Requests :
            [armed |-> TRUE, onError |-> r]
              \in [armed : BOOLEAN, onError : Requests \cup {Nobody}]
      OBVIOUS
    <2>3. debounced' \in [armed : BOOLEAN, onError : Requests \cup {Nobody}]
      BY <1>1, <2>1, <2>2, Zenon
    <2> QED
      BY <1>1, <2>3, <1>5 DEF Negotiate, NegotiateRejected, Deadline, transportVars, lock
  <1>6. CASE EnsureNegotiates
    BY <1>1, <1>6 DEF EnsureNegotiates, CallDebounced, lock
  <1>7. CASE DebounceFires
    BY <1>1, TaskType, <1>3, <1>7 DEF Kinds, DebounceFires
  <1>8. CASE Enter
    BY <1>8, <1>1, <1>4 DEF Enter, LockSettled, Unlock
  <1>9. CASE CreateOffer
    BY <1>1, <1>9, HolderAlone, <1>4 DEF CreateOffer, LockOps, OfferCreated, Unlock, lock
  <1>10. CASE SetLocal \/ SetLocalRefused
    BY <1>1, <1>10, HolderAlone, <1>4 DEF SetLocal, SetLocalRefused, LockOps, Unlock
  <1>11. CASE Rollback
    BY <1>1, <1>11, HolderAlone, <1>4 DEF Rollback, LockOps, Unlock, lock
  <1>12. CASE SetInitial \/ ReceiveAnswer
    BY <1>1, <1>12 DEF SetInitial, ReceiveAnswer, lock
  <1>13. CASE SetAnswer
    BY <1>2, <1>1, <1>3, <1>13 DEF Kinds, SetAnswer, Renegotiate
  <1>14. CASE ServerAnswers \/ LinkLost \/ RestartAsked \/ RestartForced \/ Joined
    BY <1>1, <1>14 DEF ServerAnswers, LinkLost, RestartAsked, RestartForced,
       Restarting, Joined, transportVars
  <1>15. CASE Resume
    BY <1>1, <1>2, <1>3, <1>15 DEF Resume, Kinds
  <1>16. CASE JoinRetry
    BY <1>1, <1>2, <1>3, <1>16 DEF JoinRetry, Kinds
  <1>17. CASE Teardown
    BY <1>17, EmptyTypes DEF Teardown, FreshTransport
  <1>18. CASE Configure
    <2>1. <<Task("initial", Nobody)>> \in Seq(Tasks)
      BY <1>2 DEF Kinds
    <2>2. lockQueue' \in Seq(Tasks)
      BY <1>18, <2>1, EmptyTypes DEF Configure
    <2> QED
      BY <1>18, <2>2 DEF Configure, FreshTransport
  <1>19. CASE UNCHANGED negotiationVars
    BY <1>1, <1>19 DEF negotiationVars, transportVars
  <1> QED
    BY <1>5, <1>6, <1>7, <1>8, <1>9, <1>10, <1>11, <1>12, <1>13, <1>14, <1>15, <1>16,
       <1>17, <1>18, <1>19
    DEF NegotiationNext, Work

LEMMA RequestTypes ==
  ASSUME NegotiationTypeOK, [NegotiationNext]_negotiationVars
  PROVE  TReq'
  <1> USE DEF TReq
  <1>1. TReq /\ latestOfferId \in Nat /\ session \in Nat
    BY TypeParts DEF TPeer, TWire
  <1>2. \A r \in Requests : Fail(r) => TReq'
    BY <1>1 DEF Fail, RequestStates
  <1>3. ResumeFails /\ UNCHANGED req => TReq'
    BY <1>1 DEF ResumeFails
  <1>4. UNCHANGED <<req, asks>> => TReq'
    BY <1>1 DEF asks
  <1>5. CASE \E r \in Requests : Negotiate(r)
    BY <1>1, <1>5 DEF Negotiate, Checkpoint, Called, RequestStates, asks
  <1>6. CASE \E r \in Requests : NegotiateRejected(r)
    BY <1>1, <1>6 DEF NegotiateRejected, RequestStates, asks
  <1>7. CASE \E r \in Requests : Deadline(r)
    BY <1>2, <1>7 DEF Deadline
  <1>8. CASE EnsureNegotiates \/ DebounceFires \/ CreateOffer \/ SetLocal
    BY <1>4, <1>8 DEF EnsureNegotiates, DebounceFires, CreateOffer, SetLocal
  <1>9. CASE Enter
    BY <1>3, <1>4, <1>9 DEF Enter
  <1>10. CASE SetLocalRefused
    BY <1>2, <1>3, <1>4, <1>10 DEF SetLocalRefused, Blamed
  <1>11. CASE Rollback
    BY <1>3, <1>4, <1>11 DEF Rollback
  <1>12. CASE SetInitial \/ ReceiveAnswer \/ ServerAnswers \/ LinkLost \/ Resume
    BY <1>4, <1>12 DEF SetInitial, ReceiveAnswer, ServerAnswers, LinkLost, Resume
  <1>13. CASE SetAnswer
    BY <1>1, <1>13 DEF SetAnswer, Resolve, RequestStates, asks
  <1>14. CASE RestartAsked \/ RestartForced
    BY <1>14, <1>1 DEF RestartAsked, RestartForced, Restarting, AbortWaiting, RequestStates
  <1>15. CASE Teardown \/ Configure \/ Joined \/ JoinRetry \/ UNCHANGED negotiationVars
    BY <1>4, <1>15 DEF Teardown, Configure, Joined, JoinRetry, negotiationVars
  <1> QED
    BY <1>5, <1>6, <1>7, <1>8, <1>9, <1>10, <1>11, <1>12, <1>13, <1>14, <1>15
    DEF NegotiationNext, Work

LEMMA TypeSteps ==
  ASSUME NegotiationTypeOK, LockHeld, [NegotiationNext]_negotiationVars
  PROVE  NegotiationTypeOK' /\ LockHeld'
  BY WireTypes, PeerTypes, ChainTypes, LockTypes, RequestTypes, LockSteps
    DEF NegotiationTypeOK, TWire, TPeer, TChain, TLock, TReq

\* Every variable of the model keeps its type in every reachable state.
THEOREM NegotiationTypes == NegotiationSpec => []NegotiationTypeOK
  <1>1. NegotiationInit => NegotiationTypeOK /\ LockHeld
    BY InitTypes, InitLock
  <1>2. NegotiationTypeOK /\ LockHeld /\ [NegotiationNext]_negotiationVars => (NegotiationTypeOK /\ LockHeld)'
    BY TypeSteps
  <1> QED
    BY <1>1, <1>2, PTL DEF NegotiationSpec

-----------------------------------------------------------------------------
(* Whoever is told of success was served: an offer whose id is above a      *)
(* request's checkpoint was created after the request, and describes it.    *)

InSession(r) == req[r].state # "idle" /\ req[r].session = session

Recent(o) ==
  /\ o.id <= latestOfferId
  /\ \A r \in Requests : InSession(r) /\ req[r].checkpoint < o.id => r \in o.has

RecentQueue(q) == \A i \in DOMAIN q : Recent(q[i])

RecentOp(op) ==
  /\ Recent(op.answer)
  /\ op.op \in {"setLocal", "setInitial"} => Recent(op.offer)

RecentOps(c) == \A i \in DOMAIN c : RecentOp(c[i])

OffersRecent ==
  /\ RecentQueue(server) /\ RecentQueue(toClient)
  /\ RecentOps(chain) /\ Recent(pendingInitialOffer)

\* Between two sessions there is nothing left of the transport.
DownIsEmpty ==
  phase = "down" => server = <<>> /\ toClient = <<>> /\ chain = <<>> /\ lockQueue = <<>>
                    /\ debounced.armed = FALSE

OldSessions == \A r \in Requests : req[r].session <= session

Acknowledged == latestAcknowledgedOfferId <= latestOfferId

\* A step of one session: the id only grows, and a request is either one that
\* was there or a new one, whose checkpoint no offer exceeds.
Onward ==
  /\ session' = session /\ latestOfferId <= latestOfferId'
  /\ \A r \in Requests : InSession(r)' =>
       \/ InSession(r) /\ req'[r].checkpoint = req[r].checkpoint
       \/ latestOfferId <= req'[r].checkpoint

LEMMA StillRecent ==
  ASSUME NegotiationTypeOK, NegotiationTypeOK', Onward, NEW o \in Offers, Recent(o)
  PROVE  Recent(o)'
  <1>1. /\ o.id \in Nat /\ latestOfferId \in Nat /\ latestOfferId' \in Nat
        /\ \A r \in Requests : req[r].checkpoint \in Nat /\ req'[r].checkpoint \in Nat
    BY DEF NegotiationTypeOK, Offers
  <1>2. ASSUME NEW r \in Requests, InSession(r)', req'[r].checkpoint < o.id
        PROVE  r \in o.has
    BY <1>1, <1>2 DEF Recent, Onward
  <1> QED
    BY <1>2, <1>1 DEF Recent, Onward

LEMMA NoOfferRecent ==
  ASSUME NegotiationTypeOK
  PROVE  Recent(NoOffer)
  BY DEF NegotiationTypeOK, Recent, NoOffer

\* An offer with the latest id that describes every change is a recent one.
LEMMA ChangesRecent ==
  ASSUME NegotiationTypeOK, NEW o \in Offers, o.id <= latestOfferId, o.has = Changes
  PROVE  Recent(o)
  BY DEF Recent, Changes, InSession

LEMMA SameRequests ==
  ASSUME NegotiationTypeOK, UNCHANGED <<session, req>>, latestOfferId <= latestOfferId'
  PROVE  Onward
  BY DEF Onward, InSession

LEMMA OnwardSteps ==
  ASSUME NegotiationTypeOK, NegotiationNext, ~Teardown, ~Configure
  PROVE  Onward
  <1>1. /\ latestOfferId \in Nat /\ session \in Nat
        /\ req \in [Requests -> [state : RequestStates, session : Nat, checkpoint : Nat]]
    BY DEF NegotiationTypeOK
  <1>2. CASE \E r \in Requests : Negotiate(r)
    BY <1>2, <1>1 DEF Negotiate, Checkpoint, ids, Onward, InSession
  <1>3. CASE \E r \in Requests : NegotiateRejected(r)
    BY <1>3, <1>1 DEF NegotiateRejected, transportVars, Onward, InSession
  <1>4. ASSUME NEW r \in Requests, Fail(r), req[r].state = "waiting",
               UNCHANGED <<session, latestOfferId>>
        PROVE  Onward
    BY <1>1, <1>4 DEF Fail, Onward, InSession
  <1>5. CASE \E r \in Requests : Deadline(r)
    BY <1>4, <1>5 DEF Deadline, transportVars
  <1>6. CASE Enter
    BY <1>1, <1>6, SameRequests DEF Enter, BeginOffer
  <1>7. CASE EnsureNegotiates \/ DebounceFires \/ CreateOffer \/ SetLocal
    BY <1>1, <1>7, SameRequests DEF EnsureNegotiates, DebounceFires, CreateOffer,
       SetLocal, ids
  <1>8. CASE SetLocalRefused
    BY <1>1, <1>4, <1>8, SameRequests DEF SetLocalRefused, Blamed, ids
  <1>9. CASE Rollback
    BY <1>1, <1>9, SameRequests DEF Rollback
  <1>10. CASE SetInitial \/ ReceiveAnswer \/ ServerAnswers \/ LinkLost \/ Resume
    BY <1>1, <1>10, SameRequests DEF SetInitial, ReceiveAnswer, ServerAnswers, LinkLost,
       Resume, ids, transportVars
  <1>11. CASE SetAnswer
    BY <1>11, <1>1 DEF SetAnswer, Resolve, Onward, InSession
  <1>12. CASE RestartAsked \/ RestartForced
    BY <1>12, <1>1 DEF RestartAsked, RestartForced, Restarting, transportVars, AbortWaiting, Onward, InSession
  <1>13. CASE Joined \/ JoinRetry
    BY <1>1, <1>13, SameRequests DEF Joined, JoinRetry, transportVars, ids
  <1> QED
    BY <1>2, <1>3, <1>5, <1>6, <1>7, <1>8, <1>9, <1>10, <1>11, <1>12, <1>13
    DEF NegotiationNext, Work

LEMMA DownSteps ==
  ASSUME NegotiationTypeOK, DownIsEmpty, [NegotiationNext]_negotiationVars
  PROVE  DownIsEmpty'
  <1>1. CASE phase # "down" /\ ~Teardown
    <2>1. phase' # "down"
      BY <1>1 DEF NegotiationNext, Work, Negotiate, NegotiateRejected, Deadline, EnsureNegotiates,
         DebounceFires, Enter, CreateOffer, SetLocal, SetLocalRefused, Rollback,
         SetInitial, SetAnswer, ServerAnswers, ReceiveAnswer, LinkLost, Resume,
         RestartAsked, RestartForced, Restarting, Configure, Joined, JoinRetry, negotiationVars
    <2> QED
      BY <2>1 DEF DownIsEmpty
  <1>2. CASE Teardown
    BY <1>2 DEF Teardown, FreshTransport, DownIsEmpty
  <1>3. CASE phase = "down"
    <2>1. server = <<>> /\ toClient = <<>> /\ chain = <<>> /\ lockQueue = <<>>
          /\ debounced.armed = FALSE
      BY <1>3 DEF DownIsEmpty
    <2>2. CASE UNCHANGED negotiationVars
      BY <2>1, <2>2 DEF negotiationVars, transportVars, wire, DownIsEmpty
    <2>3. \/ \E r \in Requests : NegotiateRejected(r) \/ Deadline(r)
          \/ Configure \/ UNCHANGED negotiationVars
      BY <1>3, <2>1 DEF NegotiationNext, Work, Negotiate, EnsureNegotiates, DebounceFires, Enter,
         LockSettled, CreateOffer, SetLocal, SetLocalRefused, Rollback, SetInitial,
         SetAnswer, ServerAnswers, ReceiveAnswer, LinkLost, Resume, RestartAsked,
         RestartForced, Restarting, Teardown, Joined, JoinRetry
    <2> QED
      BY <2>2, <2>3, <2>1 DEF NegotiateRejected, Deadline, transportVars, wire, DownIsEmpty, Configure
  <1> QED
    BY <1>1, <1>2, <1>3

\* Within a session, what is recent by the state a step begins in stays so.
LEMMA Carry ==
  ASSUME NegotiationTypeOK, NegotiationTypeOK', Onward, RecentQueue(server'), RecentQueue(toClient'),
         RecentOps(chain'), Recent(pendingInitialOffer')
  PROVE  OffersRecent'
  <1>1. /\ server' \in Seq(Offers) /\ toClient' \in Seq(Offers)
        /\ chain' \in Seq(Operation) /\ pendingInitialOffer' \in Offers
    BY DEF NegotiationTypeOK
  <1>2. \A i \in DOMAIN chain' :
          /\ chain'[i].answer \in Offers /\ chain'[i].offer \in Offers
          /\ RecentOp(chain'[i])
    <2>1. \A x \in Operation : x.answer \in Offers /\ x.offer \in Offers
      BY DEF Operation
    <2>2. \A i \in DOMAIN chain' : RecentOp(chain'[i])
      BY DEF RecentOps
    <2> QED
      BY <2>1, <2>2, <1>1
  <1>3. ASSUME NEW o \in Offers, Recent(o)
        PROVE  /\ o.id <= latestOfferId'
               /\ \A r \in Requests :
                    InSession(r)' /\ req'[r].checkpoint < o.id => r \in o.has
    BY <1>3, StillRecent DEF Recent
  <1>4. RecentQueue(toClient)'
    BY <1>3, <1>1 DEF RecentQueue, Recent
  <1>5. RecentOps(chain)'
    BY <1>2, <1>3 DEF RecentOps, RecentOp, Recent
  <1> QED
    BY <1>4, <1>5, <1>1, <1>3 DEF OffersRecent, Recent, RecentQueue

LEMMA QueueRecent ==
  ASSUME NEW q \in Seq(Offers), RecentQueue(q)
  PROVE  /\ \A o \in Offers : Recent(o) => RecentQueue(Append(q, o))
         /\ q # <<>> => Recent(Head(q)) /\ RecentQueue(Tail(q))
         /\ \A n \in 0..Len(q) : RecentQueue(SubSeq(q, 1, n))
  BY HeadElement, TailElements, AppendElements DEF RecentQueue

LEMMA OpsRecent ==
  ASSUME NEW c \in Seq(Operation), RecentOps(c)
  PROVE  /\ \A x \in Operation : RecentOp(x) => RecentOps(Append(c, x))
         /\ c # <<>> => RecentOp(Head(c)) /\ RecentOps(Tail(c))
  BY AppendElements, HeadElement, TailElements DEF RecentOps

LEMMA NewOp ==
  ASSUME NEW c \in Seq(Operation), RecentOps(c),
         NEW op \in Ops, NEW o \in Offers, NEW a \in Offers,
         Recent(a), op \in {"setLocal", "setInitial"} => Recent(o)
  PROVE  RecentOps(Append(c, Op(op, o, a)))
  <1> DEFINE x == Op(op, o, a)
  <1>1. x.op = op /\ x.offer = o /\ x.answer = a
    BY OpFields
  <1>2. x \in Operation
    BY OpType
  <1> HIDE DEF x
  <1>3. RecentOps(Append(c, x))
    BY <1>2, OpsRecent, <1>1 DEF RecentOp
  <1> QED
    BY <1>3 DEF x

LEMMA EmptyRecent == RecentQueue(<<>>) /\ RecentOps(<<>>)
  BY DEF RecentQueue, RecentOps

NegotiationInv ==
  /\ NegotiationTypeOK /\ LockHeld
  /\ OffersRecent /\ DownIsEmpty /\ OldSessions /\ Acknowledged

LEMMA RecentSteps ==
  ASSUME NegotiationInv, NegotiationTypeOK', [NegotiationNext]_negotiationVars
  PROVE  OffersRecent'
  <1>1. /\ NegotiationTypeOK /\ LockHeld /\ OffersRecent /\ DownIsEmpty
        /\ server \in Seq(Offers) /\ toClient \in Seq(Offers)
        /\ chain \in Seq(Operation) /\ pendingInitialOffer \in Offers
        /\ latestOfferId \in Nat
        /\ RecentQueue(server) /\ RecentQueue(toClient)
        /\ RecentOps(chain) /\ Recent(pendingInitialOffer)
    BY DEF NegotiationInv, NegotiationTypeOK, OffersRecent
  <1>2. TWire /\ TPeer /\ TChain
    BY <1>1, TypeParts
  <1>3. NoOffer \in Offers /\ Recent(NoOffer)
    BY <1>1, NoOfferType, NoOfferRecent
  <1>4. chain # <<>> => /\ RecentOp(Head(chain)) /\ RecentOps(Tail(chain))
                        /\ Head(chain) \in Operation /\ Tail(chain) \in Seq(Operation)
                        /\ Head(chain).offer \in Offers /\ Head(chain).answer \in Offers
    BY <1>1, <1>2, HeadOp, OpsRecent
  <1>5. {"createOffer", "setLocal", "rollback", "setInitial", "setAnswer"} \subseteq Ops
    BY DEF Ops
  <1>6. NegotiationNext /\ UNCHANGED <<phase, session>> => Onward
    BY <1>2, <1>1, OnwardSteps DEF Teardown, Configure, TWire
  <1>7. CASE UNCHANGED <<server, toClient, chain, pendingInitialOffer>>
             /\ NegotiationNext /\ ~Teardown /\ ~Configure
    BY <1>1, <1>7, OnwardSteps, Carry
  <1>8. CASE Enter
    BY <1>8, <1>6, <1>1, BegunType, <1>3, <1>5, NewOp, Carry DEF Enter, wire, NegotiationNext, BeginOffer
  <1>9. CASE CreateOffer
    <2> DEFINE offer == [Head(chain).offer EXCEPT !.has = Changes]
    <2>1. /\ chain # <<>> /\ Head(chain).op = "createOffer" /\ toClient' = toClient
      BY <1>9 DEF CreateOffer
    <2>2. offer \in Offers /\ offer.id = latestOfferId /\ offer.has = Changes
      BY <1>4, <2>1, ChangesType, <1>1, HeadElement DEF Offers, LockHeld, LockOps
    <2>3. chain' = Tail(chain)
          \/ chain' = Append(Tail(chain), Op("setLocal", offer, NoOffer))
      BY <1>9 DEF CreateOffer, OfferCreated
    <2>4. pendingInitialOffer' = pendingInitialOffer \/ pendingInitialOffer' = offer
      BY <1>9 DEF CreateOffer, OfferCreated
    <2>5. server' = server \/ server' = Append(server, offer)
      BY <1>9 DEF CreateOffer, OfferCreated
    <2> HIDE DEF offer
    <2>6. Recent(offer)
      BY <1>1, <2>2, ChangesRecent
    <2>7. RecentOps(chain')
      BY <1>4, <2>1, <2>3, <1>3, <1>5, <2>2, <2>6, NewOp
    <2>8. RecentQueue(server')
      BY <1>1, <2>2, <2>5, <2>6, QueueRecent
    <2> QED
      BY <1>1, <2>1, <2>4, <2>6, <2>7, <2>8, Carry, <1>9, <1>6 DEF NegotiationNext, Work, CreateOffer
  <1>10. CASE SetLocal
    <2> DEFINE offer == [Head(chain).offer EXCEPT !.id = latestOfferId]
    <2>1. /\ chain # <<>> /\ Head(chain).op = "setLocal" /\ chain' = Tail(chain)
          /\ UNCHANGED <<toClient, pendingInitialOffer>>
      BY <1>10 DEF SetLocal
    <2>2. offer = Head(chain).offer
      BY <1>4, <2>1, <1>1, HeadElement DEF Offers, LockHeld, LockOps
    <2>3. server' = server \/ server' = Append(server, offer)
      BY <1>10 DEF SetLocal, SendOffer
    <2> HIDE DEF offer
    <2>4. offer \in Offers /\ Recent(offer)
      BY <1>4, <2>1, <2>2 DEF RecentOp
    <2> QED
      BY <1>1, <1>4, <2>1, Carry, <1>10, <1>6, <2>3, <2>4, QueueRecent DEF NegotiationNext, Work, SetLocal
  <1>11. CASE SetLocalRefused
    BY <1>11, <1>6, <1>1, <1>4, Carry DEF SetLocalRefused, NegotiationNext, wire
  <1>12. CASE Rollback
    BY <1>12, <1>6, <1>1, BegunType, <1>3, <1>4, <1>5, NewOp, Carry DEF Rollback, NegotiationNext, Work, wire
  <1>13. CASE SetInitial
    BY <1>13, <1>6, <1>4, <1>3, <1>5, NewOp, <1>1, Carry DEF SetInitial, NegotiationNext, Work, wire, RecentOp
  <1>14. CASE SetAnswer
    <2>1. /\ chain # <<>>
          /\ \/ chain' = Tail(chain)
             \/ chain' = Append(Tail(chain), [Head(chain) EXCEPT !.again = TRUE])
          /\ UNCHANGED <<server, toClient, pendingInitialOffer>> /\ Onward
      BY <1>14, <1>6 DEF SetAnswer, NegotiationNext, Work, wire
    <2> DEFINE second == [Head(chain) EXCEPT !.again = TRUE]
    <2>2. /\ second \in Operation /\ second.op = Head(chain).op
          /\ second.answer = Head(chain).answer /\ second.offer = Head(chain).offer
      BY <1>4, <2>1 DEF Operation
    <2> HIDE DEF second
    <2>3. RecentOps(Append(Tail(chain), second))
      BY <1>4, <2>1, <2>2, OpsRecent DEF RecentOp
    <2> QED
      BY <1>1, <2>1, Carry, <1>4, <2>3 DEF second
  <1>15. CASE ServerAnswers
    BY <1>15, <1>6, <1>1, QueueRecent, Carry DEF ServerAnswers, NegotiationNext, transportVars
  <1>16. CASE ReceiveAnswer
    <2>1. /\ toClient # <<>> /\ toClient' = Tail(toClient) /\ server' = server
          /\ pendingInitialOffer' \in {pendingInitialOffer, NoOffer}
          /\ \/ chain' = chain
             \/ chain' = Append(chain,
                           Op("setInitial", pendingInitialOffer, Head(toClient)))
             \/ chain' = Append(chain, Op("setAnswer", NoOffer, Head(toClient)))
      BY <1>16 DEF ReceiveAnswer
    <2>2. Head(toClient) \in Offers
      BY <1>1, <2>1
    <2>3. Recent(Head(toClient)) /\ RecentQueue(toClient')
      BY <1>1, <2>1, QueueRecent
    <2>4. RecentOps(Append(chain, Op("setAnswer", NoOffer, Head(toClient))))
      BY <1>1, <1>3, <1>5, <2>2, <2>3, NewOp
    <2>5. RecentOps(chain')
      BY <1>1, <2>1, <2>4, <1>5, <2>2, <2>3, NewOp
    <2>6. Recent(pendingInitialOffer')
      BY <1>1, <1>3, <2>1
    <2> QED
      BY <1>1, <2>1, <2>3, <2>5, <2>6, Carry, <1>16, <1>6 DEF ReceiveAnswer, NegotiationNext
  <1>17. CASE LinkLost
    BY <1>17, <1>6, <1>1, QueueRecent, EmptyRecent, Carry DEF LinkLost, NegotiationNext, transportVars
  <1>18. CASE JoinRetry
    BY <1>18, <1>6, <1>1, EmptyRecent, Carry DEF JoinRetry, NegotiationNext
  <1>19. CASE Teardown \/ Configure
    <2>1. server' = <<>> /\ toClient' = <<>> /\ chain' = <<>>
          /\ pendingInitialOffer' = NoOffer
      BY <1>1, <1>19 DEF Teardown, Configure, FreshTransport, DownIsEmpty, wire
    <2>2. /\ latestOfferId' \in Nat
          /\ \A r \in Requests : req'[r].checkpoint \in Nat
      BY <1>1 DEF NegotiationTypeOK
    <2> QED
      BY <2>1, <2>2 DEF OffersRecent, RecentQueue, RecentOps, Recent, NoOffer
  <1>20. CASE UNCHANGED negotiationVars
    BY <1>1, <1>20 DEF negotiationVars, transportVars, wire, ids, OffersRecent, RecentQueue, RecentOps,
       RecentOp, Recent, InSession
  <1>21. \A r \in Requests : Negotiate(r) \/ NegotiateRejected(r) \/ Deadline(r) =>
           UNCHANGED <<server, toClient, chain, pendingInitialOffer>>
    BY DEF Negotiate, NegotiateRejected, Deadline, wire, transportVars
  <1>22. EnsureNegotiates \/ DebounceFires \/ Resume \/ RestartAsked \/ RestartForced
         \/ Joined => UNCHANGED <<server, toClient, chain, pendingInitialOffer>>
    BY DEF EnsureNegotiates, DebounceFires, Resume, RestartAsked, RestartForced,
       Restarting, Joined, wire, transportVars
  <1> QED
    BY <1>7, <1>8, <1>9, <1>10, <1>11, <1>12, <1>13, <1>14, <1>15, <1>16, <1>17, <1>18,
       <1>19, <1>20, <1>21, <1>22
    DEF NegotiationNext, Work

-----------------------------------------------------------------------------
LEMMA SessionSteps ==
  ASSUME NegotiationInv, [NegotiationNext]_negotiationVars
  PROVE  OldSessions'
  <1>1. /\ session \in Nat /\ OldSessions
        /\ req \in [Requests -> [state : RequestStates, session : Nat, checkpoint : Nat]]
    BY DEF NegotiationInv, NegotiationTypeOK
  <1>2. ASSUME UNCHANGED <<session, req>>
        PROVE  OldSessions'
    BY <1>1, <1>2 DEF OldSessions
  <1>3. ASSUME NEW r \in Requests, Fail(r), UNCHANGED session
        PROVE  OldSessions'
    BY <1>1, <1>3 DEF Fail, OldSessions
  <1>4. CASE \E r \in Requests : Negotiate(r)
    BY <1>1, <1>4 DEF Negotiate, OldSessions
  <1>5. CASE \E r \in Requests : NegotiateRejected(r)
    BY <1>1, <1>5 DEF NegotiateRejected, OldSessions
  <1>6. CASE \E r \in Requests : Deadline(r)
    BY <1>3, <1>6 DEF Deadline
  <1>7. CASE EnsureNegotiates \/ DebounceFires \/ Enter \/ CreateOffer \/ SetLocal
    BY <1>2, <1>7 DEF EnsureNegotiates, DebounceFires, Enter, CreateOffer, SetLocal
  <1>8. CASE SetLocalRefused
    BY <1>2, <1>3, <1>8 DEF SetLocalRefused, Blamed
  <1>9. CASE Rollback \/ SetInitial \/ ReceiveAnswer \/ ServerAnswers \/ LinkLost \/ Resume
    BY <1>2, <1>9 DEF Rollback, SetInitial, ReceiveAnswer, ServerAnswers, LinkLost, Resume
  <1>10. CASE SetAnswer
    BY <1>10, <1>1 DEF SetAnswer, Resolve, OldSessions
  <1>11. CASE RestartAsked \/ RestartForced
    BY <1>1, <1>11 DEF RestartAsked, RestartForced, Restarting, AbortWaiting, OldSessions
  <1>12. CASE Configure
    BY <1>1, <1>12 DEF Configure, OldSessions
  <1>13. CASE Teardown \/ Joined \/ JoinRetry \/ UNCHANGED negotiationVars
    BY <1>2, <1>13 DEF Teardown, Joined, JoinRetry, negotiationVars
  <1> QED
    BY <1>4, <1>5, <1>6, <1>7, <1>8, <1>9, <1>10, <1>11, <1>12, <1>13 DEF NegotiationNext, Work

\* An answer that is being applied carries an id that was given out.
LEMMA AnswerRecent ==
  ASSUME NegotiationInv, chain # <<>>
  PROVE  /\ Head(chain).answer \in Offers /\ Head(chain).answer.id \in Nat
         /\ Recent(Head(chain).answer)
  BY TypeParts, HeadOp, OpsRecent DEF NegotiationInv, NegotiationTypeOK, OffersRecent, RecentOp, Offers

LEMMA AcknowledgedSteps ==
  ASSUME NegotiationInv, [NegotiationNext]_negotiationVars
  PROVE  Acknowledged'
  <1>1. latestOfferId \in Nat /\ latestAcknowledgedOfferId \in Nat /\ Acknowledged
    BY DEF NegotiationInv, NegotiationTypeOK
  <1> USE DEF Acknowledged
  <1>2. CASE SetAnswer
    BY <1>1, <1>2, AnswerRecent DEF SetAnswer, Recent
  <1>3. CASE Teardown \/ Configure
    BY <1>3 DEF Teardown, Configure, FreshTransport
  <1>4. \A r \in Requests : Negotiate(r) \/ NegotiateRejected(r) \/ Deadline(r) =>
          UNCHANGED <<latestOfferId, latestAcknowledgedOfferId>>
    BY DEF Negotiate, NegotiateRejected, Deadline, ids, transportVars
  <1>5. EnsureNegotiates \/ DebounceFires \/ CreateOffer \/ SetLocal \/ SetLocalRefused
        \/ SetInitial \/ ServerAnswers \/ ReceiveAnswer \/ LinkLost \/ Resume
        \/ RestartAsked \/ RestartForced \/ Joined \/ JoinRetry \/ UNCHANGED negotiationVars =>
          UNCHANGED <<latestOfferId, latestAcknowledgedOfferId>>
    BY DEF EnsureNegotiates, DebounceFires, CreateOffer, SetLocal, SetLocalRefused,
       SetInitial, ServerAnswers, ReceiveAnswer, LinkLost, Resume, RestartAsked,
       RestartForced, Restarting, Joined, JoinRetry, negotiationVars, ids, transportVars
  <1> QED
    BY <1>2, <1>3, <1>4, <1>5, <1>1 DEF NegotiationNext, Work, Enter, Rollback, BeginOffer

LEMMA InvSteps ==
  ASSUME NegotiationInv, [NegotiationNext]_negotiationVars
  PROVE  NegotiationInv'
  BY TypeSteps, DownSteps, RecentSteps, SessionSteps, AcknowledgedSteps DEF NegotiationInv

LEMMA InitInv == NegotiationInit => NegotiationInv
  BY InitTypes, InitLock, NoOfferRecent, EmptyRecent
    DEF NegotiationInit, OffersRecent, DownIsEmpty, OldSessions, Acknowledged, NegotiationInv

LEMMA ResolvedSteps ==
  ASSUME NegotiationInv, ResolvedIsNegotiated, [NegotiationNext]_negotiationVars
  PROVE  ResolvedIsNegotiated'
  <1>1. /\ session \in Nat /\ latestOfferId \in Nat /\ latestAcknowledgedOfferId \in Nat
        /\ req \in [Requests -> [state : RequestStates, session : Nat, checkpoint : Nat]]
        /\ OldSessions /\ Acknowledged
    BY DEF NegotiationInv, NegotiationTypeOK
  <1> USE DEF ResolvedIsNegotiated
  <1>2. ASSUME UNCHANGED <<session, applied>>,
               \A r \in Requests : req'[r].state = "resolved" => req'[r] = req[r]
        PROVE  ResolvedIsNegotiated'
    BY <1>2
  <1>3. ASSUME NEW r \in Requests, Fail(r), UNCHANGED <<session, applied>>
        PROVE  ResolvedIsNegotiated'
    BY <1>1, <1>2, <1>3 DEF Fail
  <1>4. CASE \E r \in Requests : Negotiate(r)
    BY <1>4, <1>1, <1>2 DEF Called, Checkpoint, Acknowledged, Negotiate
  <1>5. CASE \E r \in Requests : NegotiateRejected(r)
    BY <1>1, <1>2, <1>5 DEF NegotiateRejected, transportVars
  <1>6. CASE \E r \in Requests : Deadline(r)
    BY <1>3, <1>6 DEF Deadline, transportVars
  <1>7. CASE EnsureNegotiates \/ DebounceFires \/ Enter \/ CreateOffer \/ SetLocal
    BY <1>2, <1>7 DEF EnsureNegotiates, DebounceFires, Enter, CreateOffer, SetLocal
  <1>8. CASE SetLocalRefused
    BY <1>2, <1>3, <1>8 DEF SetLocalRefused, Blamed
  <1>9. CASE Rollback \/ SetInitial \/ ReceiveAnswer \/ ServerAnswers \/ LinkLost \/ Resume
    BY <1>2, <1>9 DEF Rollback, SetInitial, ReceiveAnswer, ServerAnswers, LinkLost,
       Resume, transportVars
  <1>10. CASE SetAnswer
    <2> DEFINE answer == Head(chain).answer
    <2>1. chain # <<>> /\ session' = session
      BY <1>10 DEF SetAnswer
    <2>2. CASE /\ Resolve(answer.id)
               /\ applied' = applied \cup {[offer |-> localOffer, answer |-> answer]}
      <3>1. ASSUME NEW r \in Requests, req'[r].state = "resolved",
                   req'[r].session = session, req[r].state # "resolved"
            PROVE  r \in answer.has
        BY <1>1, <2>2, <3>1, <2>1, AnswerRecent DEF Resolve, Recent, InSession
      <3>2. ASSUME NEW r \in Requests, req'[r].state = "resolved",
                   req'[r].session = session
            PROVE  \E a \in applied' : r \in a.answer.has
        <4>1. CASE req[r].state = "resolved"
          BY <2>2, <4>1, <3>2 DEF Resolve
        <4>2. CASE req[r].state # "resolved"
          BY <2>2, <3>1, <3>2, <4>2
        <4> QED
          BY <4>1, <4>2
      <3> QED
        BY <2>1, <3>2
    <2> QED
      BY <1>10, <2>2, <1>2, <2>1 DEF SetAnswer
  <1>11. CASE RestartAsked \/ RestartForced
    BY <1>11, <1>1, <1>2 DEF RestartAsked, RestartForced, Restarting, transportVars, AbortWaiting
  <1>12. CASE Configure
    BY <1>1, <1>12 DEF Configure, OldSessions
  <1>13. CASE Teardown \/ Joined \/ JoinRetry \/ UNCHANGED negotiationVars
    BY <1>2, <1>13 DEF Teardown, Joined, JoinRetry, negotiationVars, transportVars
  <1> QED
    BY <1>4, <1>5, <1>6, <1>7, <1>8, <1>9, <1>10, <1>11, <1>12, <1>13 DEF NegotiationNext, Work

\* Whoever negotiate() resolves for has had its change described by an offer
\* that was answered in its session.
THEOREM ResolvedHolds == NegotiationSpec => []ResolvedIsNegotiated
  <1>1. NegotiationInit => NegotiationInv /\ ResolvedIsNegotiated
    BY InitInv DEF NegotiationInit, ResolvedIsNegotiated
  <1>2. NegotiationInv /\ ResolvedIsNegotiated /\ [NegotiationNext]_negotiationVars
          => (NegotiationInv /\ ResolvedIsNegotiated)'
    BY InvSteps, ResolvedSteps
  <1> QED
    BY <1>1, <1>2, PTL DEF NegotiationSpec

\* PCTransportManager.negotiate: the requests keep their types and none succeeds without an
\* answer, for every set of requests and every bound.
THEOREM RequestsHold == NegotiationSpec => []RequestsAreSound
  <1>1. NegotiationTypeOK /\ ResolvedIsNegotiated => RequestsAreSound
    BY DEF RequestsAreSound
  <1> QED
    BY <1>1, NegotiationTypes, ResolvedHolds, PTL
-----------------------------------------------------------------------------
(* Answers meet their offers. The chain holds at most one operation of the  *)
(* lock's holder and one of an answer, and the order of the two decides:    *)
(* an answer whose offer was rolled back fails, and fails again, before the *)
(* next offer becomes the local description.                                *)

\* Every offer that is on its way to the server or back as an answer.
Sent == {server[i] : i \in DOMAIN server} \cup {toClient[i] : i \in DOMAIN toClient}

Under(kinds) == \E i \in DOMAIN chain : chain[i].op \in kinds

\* The initial offer is not out yet, or the server has not joined us.
Unjoined == phase = "joining" \/ ~InitialOfferMade

Made(o) == o.id \in 1..latestOfferId
Older(o) == o.id < latestOfferId

\* No offer is sent twice.
SentOnce ==
  /\ \A i, j \in DOMAIN server : server[i].id = server[j].id => i = j
  /\ \A i, j \in DOMAIN toClient : toClient[i].id = toClient[j].id => i = j
  /\ \A i \in DOMAIN server, j \in DOMAIN toClient : server[i].id # toClient[j].id

\* Offers carry ids that were given out, and the one sent under the latest id
\* is the offer that waits for its answer.
OffersMade ==
  /\ \A o \in Sent : Made(o) /\ (o.id = latestOfferId => o \in {localOffer, pendingInitialOffer})
  /\ HaveLocalOffer => Made(localOffer)
  /\ pendingInitialOffer # NoOffer => Made(pendingInitialOffer)

\* An offer is made under an id of its own.
OfferIsNew ==
  Under({"createOffer", "setLocal"}) =>
    /\ \A o \in Sent : Older(o)
    /\ Older(localOffer) /\ Older(pendingInitialOffer)
    /\ \A i \in DOMAIN chain : Older(chain[i].answer)
    /\ HaveLocalOffer => Under({"setAnswer"})

ChainShape ==
  /\ Len(chain) <= 2
  /\ Len(chain) = 2 => (chain[1].op \in LockOps <=> chain[2].op \notin LockOps)
  /\ entered => lockQueue # <<>> /\ Under(LockOps)
  /\ Under({"rollback"}) => hasRemote

JoinIsBare ==
  Unjoined =>
    /\ ~link /\ phase \in {"joining", "restarting"} /\ toClient = <<>>
    /\ ~HaveLocalOffer /\ ~hasRemote
    /\ \A i \in DOMAIN chain : chain[i].op = "createOffer"
    /\ entered => Holder.kind = "initial"
    /\ pendingInitialOffer = NoOffer => lockQueue # <<>> /\ Holder.kind = "initial"

InitialIsFirst ==
  pendingInitialOffer # NoOffer =>
    ~HaveLocalOffer /\ ~hasRemote /\ (chain = <<>> \/ Unjoined)

\* An answer under way was not stale when it came.
AnswerFits ==
  \A i \in DOMAIN chain :
    chain[i].op \notin LockOps =>
      /\ Made(chain[i].answer)
      /\ \A o \in Sent : o.id # chain[i].answer.id
      /\ HaveLocalOffer => chain[i].op = "setAnswer" /\ localOffer = chain[i].answer
      /\ chain[i].op = "setInitial" =>
           /\ i = 1 /\ chain[i].offer = chain[i].answer
           /\ Len(chain) = 2 => chain[2].op = "createOffer"

\* No offer becomes the local description ahead of an answer to an earlier one
\* that is still to be applied.
AnswerIsAhead ==
  Len(chain) = 2 =>
    /\ chain[1].op # "setLocal"
    /\ chain[1].op = "createOffer" => HaveLocalOffer \/ chain[2].again
    /\ chain[2].op = "setLocal" => HaveLocalOffer \/ chain[1].again

ExchangeInv ==
  /\ SentOnce /\ OffersMade /\ OfferIsNew /\ ChainShape /\ JoinIsBare
  /\ InitialIsFirst /\ AnswerFits /\ AnswerIsAhead

-----------------------------------------------------------------------------
(* Nothing is forgotten                                                     *)

Undisturbed == ~refused /\ ~fullReconnect /\ phase \in {"joining", "running"}

\* The tasks that have not begun.
Waiting == {lockQueue[i] : i \in {j \in DOMAIN lockQueue : j > 1 \/ ~entered}}

RestartWaits == Under({"rollback"}) \/ \E t \in Waiting : t.kind = "iceRestart"

OfferWaits == \E t \in Waiting : t.kind \in {"negotiate", "renegotiate"}

AnswerIsDue ==
  Undisturbed =>
    /\ link /\ HaveLocalOffer =>
         \/ localOffer.id = latestOfferId /\ localOffer \in Sent
         \/ Under({"setAnswer"}) \/ RestartWaits
    /\ (link \/ phase = "joining") /\ pendingInitialOffer # NoOffer /\ InitialOfferMade =>
         \/ pendingInitialOffer.id = latestOfferId /\ pendingInitialOffer \in Sent
         \/ RestartWaits

RenegotiateIsDue ==
  Undisturbed /\ renegotiate =>
    AwaitsPeer \/ Under({"setInitial", "createOffer", "setLocal"})

Described(r) ==
  \/ \E a \in applied : r \in a.answer.has
  \/ r \in localOffer.has \/ r \in pendingInitialOffer.has
  \/ \E i \in DOMAIN chain :
       chain[i].op \in {"setLocal", "setInitial"} /\ r \in chain[i].offer.has

OfferIsDue == debounced.armed \/ renegotiate \/ OfferWaits \/ Under({"createOffer"})

ChangesAreDue == Undisturbed => \A r \in Changes : Described(r) \/ OfferIsDue

DueInv == AnswerIsDue /\ RenegotiateIsDue /\ ChangesAreDue

\* How a step moves the offers that are on their way.
LEMMA SentMoves ==
  ASSUME server \in Seq(Offers), toClient \in Seq(Offers), SentOnce
  PROVE  /\ Sent \subseteq Offers
         /\ UNCHANGED wire => SentOnce' /\ Sent' = Sent
         /\ server' = <<>> /\ toClient' = toClient => SentOnce' /\ Sent' \subseteq Sent
         /\ server' = <<>> /\ toClient' = <<>> => SentOnce' /\ Sent' = {}
  BY DEF Sent, SentOnce, wire

LEMMA SendMoves ==
  ASSUME server \in Seq(Offers), toClient \in Seq(Offers), SentOnce, NEW o \in Offers,
         server' = Append(server, o), toClient' = toClient, \A s \in Sent : s.id # o.id
  PROVE  SentOnce' /\ Sent' = Sent \cup {o}
  <1>1. /\ Len(server') = Len(server) + 1 /\ server'[Len(server) + 1] = o
        /\ \A i \in 1..Len(server) : server'[i] = server[i]
        /\ DOMAIN server' = 1..(Len(server) + 1) /\ DOMAIN server = 1..Len(server)
        /\ Len(server) \in Nat
    OBVIOUS
  <1>2. \A i \in DOMAIN server : server[i].id # o.id
    BY DEF Sent
  <1>3. \A i \in DOMAIN toClient : toClient[i].id # o.id
    BY DEF Sent
  <1>4. \A i \in DOMAIN server' :
          (i \in DOMAIN server /\ server'[i] = server[i]) \/ (i = Len(server) + 1 /\ server'[i] = o)
    BY <1>1
  <1>5. SentOnce'
    BY <1>2, <1>3, <1>4 DEF SentOnce
  <1> QED
    BY <1>5, <1>1, <1>4 DEF Sent

LEMMA AnswerMoves ==
  ASSUME server \in Seq(Offers), toClient \in Seq(Offers), SentOnce, server # <<>>,
         server' = Tail(server), toClient' = Append(toClient, Head(server))
  PROVE  SentOnce' /\ Sent' = Sent
  <1>1. /\ DOMAIN server = 1..Len(server) /\ DOMAIN server' = 1..(Len(server) - 1)
        /\ Len(server) \in Nat /\ Len(server) >= 1
        /\ \A i \in DOMAIN server' : server'[i] = server[i + 1]
        /\ Head(server) = server[1]
    OBVIOUS
  <1>2. /\ DOMAIN toClient' = 1..(Len(toClient) + 1) /\ DOMAIN toClient = 1..Len(toClient)
        /\ toClient'[Len(toClient) + 1] = server[1] /\ Len(toClient) \in Nat
        /\ \A i \in DOMAIN toClient : toClient'[i] = toClient[i]
    BY <1>1
  <1>3. \A i \in DOMAIN toClient' :
          (i \in DOMAIN toClient /\ toClient'[i] = toClient[i])
          \/ (i = Len(toClient) + 1 /\ toClient'[i] = server[1])
    BY <1>2
  <1>4. \A i \in DOMAIN server' : i + 1 \in DOMAIN server /\ i + 1 # 1 /\ server'[i] = server[i + 1]
    BY <1>1
  <1>5. 1 \in DOMAIN server /\ \A i, j \in DOMAIN server' : i + 1 = j + 1 => i = j
    BY <1>1
  <1>6. \A i \in DOMAIN server', j \in DOMAIN toClient' : server'[i].id # toClient'[j].id
    BY <1>3, <1>4, <1>5 DEF SentOnce
  <1>7. {server[i] : i \in DOMAIN server} = {server'[i] : i \in DOMAIN server'} \cup {server[1]}
    <2>1. \A i \in DOMAIN server : i = 1 \/ \E j \in DOMAIN server' : server'[j] = server[i]
      <3>1. \A i \in DOMAIN server :
              i = 1 \/ (i - 1 \in DOMAIN server' /\ server'[i - 1] = server[i])
        BY <1>1
      <3> QED
        BY <3>1
    <2>2. \A i \in DOMAIN server :
            server[i] \in {server'[j] : j \in DOMAIN server'} \cup {server[1]}
      BY <2>1
    <2>3. \A j \in DOMAIN server' : server'[j] \in {server[i] : i \in DOMAIN server}
      BY <1>4
    <2> QED
      BY <2>2, <2>3, <1>5
  <1>8. {toClient'[i] : i \in DOMAIN toClient'} = {toClient[i] : i \in DOMAIN toClient} \cup {server[1]}
    BY <1>2, <1>3
  <1>9. Sent' = Sent
    BY <1>7, <1>8 DEF Sent
  <1> QED
    BY <1>6, <1>9, <1>4, <1>5, <1>3 DEF SentOnce

LEMMA ReceiveMoves ==
  ASSUME server \in Seq(Offers), toClient \in Seq(Offers), SentOnce, toClient # <<>>,
         server' = server, toClient' = Tail(toClient)
  PROVE  /\ SentOnce' /\ Sent' = Sent \ {Head(toClient)} /\ Head(toClient) \in Sent
         /\ \A o \in Sent' : o.id # Head(toClient).id
  <1>1. /\ DOMAIN toClient = 1..Len(toClient) /\ DOMAIN toClient' = 1..(Len(toClient) - 1)
        /\ Len(toClient) \in Nat /\ Len(toClient) >= 1
        /\ \A i \in DOMAIN toClient' : toClient'[i] = toClient[i + 1]
        /\ Head(toClient) = toClient[1]
    OBVIOUS
  <1>2. \A i \in DOMAIN toClient' :
          i + 1 \in DOMAIN toClient /\ i + 1 # 1 /\ toClient'[i] = toClient[i + 1]
    BY <1>1
  <1>3. 1 \in DOMAIN toClient /\ \A i, j \in DOMAIN toClient' : i + 1 = j + 1 => i = j
    BY <1>1
  <1>4. \A i \in DOMAIN toClient :
          i = 1 \/ (i - 1 \in DOMAIN toClient' /\ toClient'[i - 1] = toClient[i])
    BY <1>1
  <1>5. \A o \in Sent' : o.id # Head(toClient).id /\ o \in Sent
    BY <1>1, <1>2, <1>3 DEF Sent, SentOnce
  <1>6. \A o \in Sent : o \in Sent' \/ o = Head(toClient)
    BY <1>1, <1>4 DEF Sent
  <1>7. Head(toClient) \in Sent
    BY <1>1, <1>3 DEF Sent
  <1> QED
    BY <1>5, <1>6, <1>7, <1>2, <1>3 DEF SentOnce

LEMMA LossMoves ==
  ASSUME server \in Seq(Offers), toClient \in Seq(Offers), SentOnce, toClient' = <<>>,
         NEW n \in 0..Len(server), server' = SubSeq(server, 1, n)
  PROVE  SentOnce' /\ Sent' \subseteq Sent
  BY DEF Sent, SentOnce

\* How a step moves the tasks that have not begun.
LEMMA QueueMoves ==
  ASSUME lockQueue \in Seq(Tasks), NEW t \in Tasks, lockQueue' = Append(lockQueue, t),
         entered' = entered, entered => lockQueue # <<>>
  PROVE  /\ Waiting' = Waiting \cup {t} /\ lockQueue' # <<>>
         /\ lockQueue # <<>> => Holder' = Holder
         /\ lockQueue = <<>> => Holder' = t
         /\ InitialOfferMade' <=> InitialOfferMade /\ t.kind # "initial"
  BY DEF Waiting, InitialOfferMade, Holder

LEMMA BeginMoves ==
  ASSUME lockQueue \in Seq(Tasks), lockQueue # <<>>, lockQueue' = lockQueue, entered'
  PROVE  /\ Waiting \subseteq Waiting' \cup {Holder} /\ Holder \in Tasks
         /\ InitialOfferMade' = InitialOfferMade /\ Holder' = Holder
  BY DEF Holder, Waiting, InitialOfferMade

LEMMA UnlockMoves ==
  ASSUME lockQueue \in Seq(Tasks), lockQueue # <<>>, Unlock, entered \in BOOLEAN
  PROVE  /\ entered' = FALSE
         /\ Waiting \subseteq Waiting' \cup {Holder} /\ (entered => Waiting = Waiting')
         /\ InitialOfferMade' => InitialOfferMade \/ Holder.kind = "initial"
         /\ InitialOfferMade => InitialOfferMade' /\ Holder.kind # "initial"
         /\ Holder \in Tasks
  <1>1. /\ DOMAIN lockQueue = 1..Len(lockQueue) /\ Len(lockQueue) \in Nat
        /\ Len(lockQueue) >= 1 /\ lockQueue' = Tail(lockQueue) /\ entered' = FALSE
        /\ DOMAIN lockQueue' = 1..(Len(lockQueue) - 1)
        /\ \A i \in DOMAIN lockQueue' : lockQueue'[i] = lockQueue[i + 1]
        /\ Holder = lockQueue[1]
    BY DEF Unlock, Holder
  <1>2. \A i \in DOMAIN lockQueue :
          i = 1 \/ (i > 1 /\ i - 1 \in DOMAIN lockQueue' /\ lockQueue'[i - 1] = lockQueue[i])
    BY <1>1
  <1>3. \A i \in DOMAIN lockQueue' :
          i + 1 \in DOMAIN lockQueue /\ i + 1 > 1 /\ lockQueue'[i] = lockQueue[i + 1]
    BY <1>1
  <1>4. 1 \in DOMAIN lockQueue /\ Holder \in Tasks
    BY <1>1
  <1>5. \A x \in Waiting : x \in Waiting' \/ (x = Holder /\ ~entered)
    <2> SUFFICES ASSUME NEW i \in DOMAIN lockQueue, i > 1 \/ ~entered
                 PROVE  lockQueue[i] \in Waiting' \/ (lockQueue[i] = Holder /\ ~entered)
      BY DEF Waiting
    <2>1. CASE i # 1
      BY <1>2, <2>1, <1>1 DEF Waiting
    <2> QED
      BY <2>1, <1>1
  <1>6. \A x \in Waiting' : x \in Waiting
    BY <1>3 DEF Waiting
  <1>7. InitialOfferMade => InitialOfferMade' /\ Holder.kind # "initial"
    BY <1>1, <1>3, <1>4 DEF InitialOfferMade
  <1>8. InitialOfferMade' => InitialOfferMade \/ Holder.kind = "initial"
    BY <1>1, <1>2 DEF InitialOfferMade
  <1> QED
    BY <1>1, <1>4, <1>5, <1>6, <1>7, <1>8

\* How a step moves the operations of the chain: the last arrives, the first is
\* over, or another takes the place of the first at the end.
LEMMA ChainMoves ==
  ASSUME chain \in Seq(Operation), Len(chain) <= 2
  PROVE  /\ DOMAIN chain = 1..Len(chain) /\ Len(chain) \in 0..2
         /\ Len(chain) = 0 <=> chain = <<>>
         /\ chain # <<>> => Head(chain) = chain[1] /\ chain[1] \in Operation
         /\ Len(chain) = 2 => chain[2] \in Operation
  <1>1. Len(chain) \in Nat /\ DOMAIN chain = 1..Len(chain)
    OBVIOUS
  <1>2. Len(chain) = 0 <=> chain = <<>>
    OBVIOUS
  <1>3. ASSUME chain # <<>> PROVE Head(chain) = chain[1] /\ chain[1] \in Operation
    BY <1>3
  <1>4. ASSUME Len(chain) = 2 PROVE chain[2] \in Operation
    BY <1>4
  <1> QED
    BY <1>1, <1>2, <1>3, <1>4

LEMMA Arrives ==
  ASSUME chain \in Seq(Operation), Len(chain) <= 1, NEW x \in Operation,
         chain' = Append(chain, x)
  PROVE  /\ DOMAIN chain' = 1..Len(chain') /\ Len(chain') = Len(chain) + 1
         /\ Len(chain) \in 0..1 /\ Len(chain') \in 1..2
         /\ chain'[Len(chain')] = x /\ (Len(chain) = 1 => chain'[1] = chain[1])
  BY ChainMoves

LEMMA IsOver ==
  ASSUME chain \in Seq(Operation), Len(chain) <= 2, chain # <<>>, chain' = Tail(chain)
  PROVE  /\ DOMAIN chain' = 1..Len(chain') /\ Len(chain') = Len(chain) - 1
         /\ Len(chain) \in 1..2 /\ Len(chain') \in 0..1
         /\ Len(chain) = 2 => chain'[1] = chain[2]
  BY ChainMoves

LEMMA TransportReplaced ==
  ASSUME chain \in Seq(Operation), Len(chain) <= 2, chain # <<>>, NEW x \in Operation,
         chain' = Append(Tail(chain), x)
  PROVE  /\ DOMAIN chain' = 1..Len(chain') /\ Len(chain') = Len(chain)
         /\ Len(chain) \in 1..2
         /\ chain'[Len(chain)] = x /\ (Len(chain) = 2 => chain'[1] = chain[2])
  <1> DEFINE c == Tail(chain)
  <1>1. c \in Seq(Operation) /\ Len(c) = Len(chain) - 1
    OBVIOUS
  <1> HIDE DEF c
  <1>2. chain' = Append(c, x)
    BY DEF c
  <1>3. Len(chain') = Len(c) + 1 /\ DOMAIN chain' = 1..Len(chain') /\ chain'[Len(c) + 1] = x
    BY <1>1, <1>2
  <1>4. ASSUME Len(chain) = 2 PROVE chain'[1] = c[1]
    BY <1>1, <1>2, <1>4
  <1> QED
    BY <1>1, <1>3, <1>4, ChainMoves

LEMMA ExchangeTypes ==
  ASSUME NegotiationInv, ExchangeInv
  PROVE  /\ server \in Seq(Offers) /\ toClient \in Seq(Offers) /\ Sent \subseteq Offers
         /\ localOffer \in Offers /\ pendingInitialOffer \in Offers
         /\ latestOfferId \in Nat /\ hasRemote \in BOOLEAN /\ entered \in BOOLEAN
         /\ link \in BOOLEAN
         /\ chain \in Seq(Operation) /\ lockQueue \in Seq(Tasks)
         /\ Len(chain) <= 2 /\ DOMAIN chain = 1..Len(chain) /\ Len(chain) \in 0..2
         /\ \A o \in Offers : o.id \in Nat
         /\ \A x \in Operation : x.offer \in Offers /\ x.answer \in Offers /\ x.op \in Ops
         /\ \A i \in DOMAIN chain : chain[i] \in Operation
         /\ NoOffer \in Offers /\ NoOffer.id = 0
  <1>1. NegotiationTypeOK /\ SentOnce /\ Len(chain) <= 2
    BY DEF NegotiationInv, ExchangeInv, ChainShape
  <1>2. DOMAIN chain = 1..Len(chain) /\ Len(chain) \in 0..2
    BY <1>1, ChainMoves DEF NegotiationTypeOK
  <1>3. \A i \in DOMAIN chain : chain[i] \in Operation
    BY <1>1 DEF NegotiationTypeOK
  <1>4. \A x \in Operation : x.offer \in Offers /\ x.answer \in Offers /\ x.op \in Ops
    BY DEF Operation
  <1>5. \A o \in Offers : o.id \in Nat
    BY DEF Offers
  <1>6. NoOffer \in Offers /\ NoOffer.id = 0
    BY NoOfferType DEF NoOffer
  <1> QED
    BY <1>1, <1>2, <1>3, <1>4, <1>5, <1>6, SentMoves DEF NegotiationTypeOK

\* A step that touches neither the descriptions nor the chain: offers may go
\* along or get lost, and tasks may be queued.
LEMMA ExchangeIdle ==
  ASSUME NegotiationInv, ExchangeInv,
         UNCHANGED <<localOffer, pendingInitialOffer, latestOfferId, chain, hasRemote,
                     entered>>,
         SentOnce', Sent' \subseteq Sent,
         lockQueue # <<>> /\ (entered \/ (Unjoined' /\ pendingInitialOffer = NoOffer)) =>
           lockQueue' # <<>> /\ Holder' = Holder,
         Unjoined' => /\ Unjoined /\ ~link' /\ phase' \in {"joining", "restarting"}
                      /\ toClient' = <<>>,
         Unjoined => Unjoined' \/ chain = <<>>
  PROVE  ExchangeInv'
  <1>1. ChainShape'
    BY DEF ExchangeInv, ChainShape, Under
  <1>2. JoinIsBare'
    BY DEF ExchangeInv, ChainShape, JoinIsBare, HaveLocalOffer
  <1>3. InitialIsFirst'
    BY DEF ExchangeInv, InitialIsFirst, HaveLocalOffer
  <1>4. AnswerFits'
    BY DEF ExchangeInv, AnswerFits, Made, HaveLocalOffer
  <1>5. AnswerIsAhead'
    BY DEF ExchangeInv, AnswerIsAhead, HaveLocalOffer
  <1> QED
    BY <1>1, <1>2, <1>3, <1>4, <1>5 DEF ExchangeInv, OffersMade, Made, HaveLocalOffer, OfferIsNew, Older, Under

\* Once the initial offer is made and nobody holds the lock, the chain is empty.
LEMMA JoinedIsIdle ==
  ASSUME NegotiationInv, ExchangeInv, Unjoined, InitialOfferMade
  PROVE  chain = <<>>
  BY DEF ExchangeInv, ChainShape, JoinIsBare, NegotiationInv, NegotiationTypeOK, Holder, InitialOfferMade,
         LockOps, LockHeld

LEMMA QuietSteps ==
  ASSUME NegotiationInv, ExchangeInv,
         \/ \E r \in Requests : Negotiate(r) \/ NegotiateRejected(r) \/ Deadline(r)
         \/ EnsureNegotiates \/ DebounceFires \/ ServerAnswers \/ LinkLost \/ Resume
         \/ RestartAsked \/ RestartForced \/ Joined \/ JoinRetry
  PROVE  ExchangeInv'
  <1>1. /\ server \in Seq(Offers) /\ toClient \in Seq(Offers) /\ SentOnce
        /\ lockQueue \in Seq(Tasks) /\ (entered => lockQueue # <<>>)
        /\ debounced.onError \in Requests \cup {Nobody}
        /\ UNCHANGED wire => SentOnce' /\ Sent' = Sent
    BY SentMoves DEF NegotiationInv, NegotiationTypeOK, ExchangeInv, ChainShape
  <1>2. Unjoined => ~link /\ phase \in {"joining", "restarting"} /\ toClient = <<>>
    BY DEF ExchangeInv, JoinIsBare
  <1>3. ASSUME UNCHANGED <<phase, link, wire, localOffer, hasRemote, chain, lock,
                           latestOfferId, pendingInitialOffer>>
        PROVE  ExchangeInv'
    BY <1>3, <1>1, <1>2, ExchangeIdle DEF wire, lock, Unjoined, InitialOfferMade, Holder
  <1>4. ASSUME NEW k \in {"negotiate", "iceRestart"}, NEW e \in Requests \cup {Nobody},
               lockQueue' = Append(lockQueue, Task(k, e)),
               UNCHANGED <<phase, wire, localOffer, hasRemote, chain, entered,
                           latestOfferId, pendingInitialOffer>>,
               UNCHANGED link \/ ~Unjoined
        PROVE  ExchangeInv'
    BY <1>4, TaskType, <1>1, QueueMoves, <1>2, ExchangeIdle DEF Kinds, Task, Unjoined, wire
  <1>5. CASE DebounceFires
    BY <1>1, <1>4, <1>5 DEF DebounceFires, ids
  <1>6. CASE Resume
    BY <1>2, <1>6, <1>4 DEF Resume, ids
  <1>7. CASE ServerAnswers \/ LinkLost
    BY <1>7, <1>1, AnswerMoves, LossMoves, <1>2, ExchangeIdle
      DEF ServerAnswers, LinkLost, transportVars, Unjoined, InitialOfferMade, Holder
  <1>8. CASE RestartAsked \/ RestartForced \/ Joined
    BY <1>8, JoinedIsIdle, <1>1, <1>2, ExchangeIdle
      DEF RestartAsked, RestartForced, Restarting, Joined, transportVars, wire, InitialOfferMade, Holder,
          Unjoined
  <1>9. CASE JoinRetry
    BY <1>9, TaskType, <1>1, QueueMoves, SentMoves, <1>2, ExchangeIdle DEF JoinRetry, ids, Kinds, Unjoined
  <1> QED
    BY <1>5, <1>6, <1>7, <1>8, <1>9, <1>3
      DEF Negotiate, NegotiateRejected, Deadline, transportVars, ids, lock, EnsureNegotiates

LEMMA EnterExchange ==
  ASSUME NegotiationInv, ExchangeInv, Enter
  PROVE  ExchangeInv'
  <1>1. /\ ~entered /\ lockQueue # <<>> /\ lockQueue \in Seq(Tasks)
        /\ UNCHANGED <<phase, link, wire, localOffer, hasRemote, pendingInitialOffer>>
        /\ SentOnce' /\ Sent' = Sent /\ toClient' = toClient
    BY SentMoves DEF Enter, LockSettled, wire, ExchangeInv, NegotiationInv, NegotiationTypeOK
  <1>2. \A i \in DOMAIN chain : chain[i].op \notin LockOps
    BY <1>1 DEF NegotiationInv, LockHeld
  <1>3. Len(chain) <= 1 /\ Len(chain) \in 0..2 /\ DOMAIN chain = 1..Len(chain)
    BY ExchangeTypes, <1>2 DEF ExchangeInv, ChainShape
  <1>4. Unjoined =>
          /\ ~link /\ phase \in {"joining", "restarting"} /\ toClient = <<>> /\ chain = <<>>
          /\ ~HaveLocalOffer /\ ~hasRemote
          /\ pendingInitialOffer = NoOffer => Holder.kind = "initial"
    BY ExchangeTypes, ChainMoves, <1>3, <1>2 DEF ExchangeInv, JoinIsBare, LockOps
  <1>5. pendingInitialOffer # NoOffer => ~HaveLocalOffer /\ ~hasRemote /\ chain = <<>>
    BY <1>4 DEF ExchangeInv, InitialIsFirst
  <1>6. CASE MayOffer /\ BeginOffer /\ entered' = TRUE /\ UNCHANGED lockQueue
    <2> DEFINE x == Op("createOffer", [id |-> latestOfferId + 1, has |-> {}], NoOffer)
    <2>1. /\ x \in Operation /\ x.op = "createOffer" /\ x.answer = NoOffer
          /\ chain' = Append(chain, x) /\ latestOfferId' = latestOfferId + 1
      BY ExchangeTypes, BegunType, <1>6, OpType, OpFields DEF BeginOffer, Ops
    <2> HIDE DEF x
    <2>2. /\ DOMAIN chain' = 1..Len(chain') /\ Len(chain') = Len(chain) + 1
          /\ Len(chain) \in 0..1 /\ Len(chain') \in 1..2
          /\ chain'[Len(chain')] = x /\ (Len(chain) = 1 => chain'[1] = chain[1])
      BY <1>3, <2>1, ExchangeTypes, Arrives
    <2>3. ~HaveLocalOffer /\ (pendingInitialOffer # NoOffer => Holder.kind = "initial")
      BY <1>6 DEF MayOffer, AwaitsPeer
    <2>4. /\ Unjoined' <=> Unjoined
          /\ Holder' = Holder /\ entered' /\ lockQueue' # <<>>
          /\ HaveLocalOffer' <=> HaveLocalOffer
      BY <1>1, <1>6 DEF Unjoined, InitialOfferMade, Holder, HaveLocalOffer
    <2>5. \A i \in DOMAIN chain' :
            \/ i = 1 /\ Len(chain) = 1 /\ 1 \in DOMAIN chain /\ chain'[i] = chain[1]
            \/ i = Len(chain') /\ chain'[i] = x
      BY <1>3, <2>2
    <2>6. /\ latestOfferId \in Nat /\ \A o \in Sent : o.id \in Nat
          /\ localOffer = NoOffer /\ NoOffer.id = 0
      BY <2>3, ExchangeTypes DEF HaveLocalOffer
    <2>7. \A o \in Sent : o.id <= latestOfferId
      BY <2>6 DEF ExchangeInv, OffersMade, Made
    <2>8. pendingInitialOffer = NoOffer \/ pendingInitialOffer.id \in 1..latestOfferId
      BY DEF ExchangeInv, OffersMade, Made
    <2>9. OffersMade'
      BY <1>1, <2>1, <2>4, <2>6, <2>7, <2>8 DEF ExchangeInv, OffersMade, Made
    <2>10. OfferIsNew'
      BY <2>1, <2>5, <2>6, <1>1, <2>7, <2>8, <2>3, <2>4, <1>2
        DEF OfferIsNew, Older, ExchangeInv, AnswerFits, Made
    <2>11. ChainShape'
      BY <2>1, <2>2, <1>2, <2>5, <1>3, <2>4 DEF Under, LockOps, ChainShape
    <2>12. JoinIsBare'
      BY <1>4, <2>1, <2>2, <2>5, ChainMoves, ExchangeTypes, <1>1, <2>3, <2>4 DEF JoinIsBare
    <2>13. InitialIsFirst'
      BY <1>1, <1>5, <2>3, <2>4 DEF InitialIsFirst, Unjoined, InitialOfferMade, Holder
    <2>14. AnswerFits'
      BY <2>3, <2>4, <2>1, <2>5, <1>2, <2>2, <1>1, <2>6 DEF AnswerFits, Made, LockOps, ExchangeInv
    <2>15. AnswerIsAhead'
      BY <1>2, <1>3, <2>1, <2>2 DEF AnswerIsAhead, LockOps
    <2> QED
      BY <1>1, <2>9, <2>10, <2>11, <2>12, <2>13, <2>14, <2>15 DEF ExchangeInv
  <1>7. CASE /\ ~MayOffer /\ Holder.kind = "iceRestart" /\ hasRemote
             /\ chain' = Append(chain, Op("rollback", NoOffer, NoOffer))
             /\ entered' = TRUE /\ UNCHANGED <<lockQueue, latestOfferId>>
    <2> DEFINE x == Op("rollback", NoOffer, NoOffer)
    <2>1. x \in Operation /\ x.op = "rollback" /\ chain' = Append(chain, x)
      BY <1>7, ExchangeTypes, OpType, OpFields DEF Ops
    <2> HIDE DEF x
    <2>2. /\ DOMAIN chain' = 1..Len(chain') /\ Len(chain') = Len(chain) + 1
          /\ Len(chain) \in 0..1 /\ Len(chain') \in 1..2
          /\ chain'[Len(chain')] = x /\ (Len(chain) = 1 => chain'[1] = chain[1])
      BY <1>3, <2>1, ExchangeTypes, Arrives
    <2>3. ~Unjoined /\ pendingInitialOffer = NoOffer /\ HaveLocalOffer
      BY <1>4, <1>5, <1>7 DEF MayOffer, AwaitsPeer
    <2>4. /\ Unjoined' <=> Unjoined
          /\ entered' /\ lockQueue' # <<>>
          /\ HaveLocalOffer' <=> HaveLocalOffer
      BY <1>1, <1>7 DEF Unjoined, InitialOfferMade, HaveLocalOffer
    <2>5. \A i \in DOMAIN chain' :
            \/ i = 1 /\ Len(chain) = 1 /\ 1 \in DOMAIN chain /\ chain'[i] = chain[1]
            \/ i = Len(chain') /\ chain'[i] = x
      BY <1>3, <2>2
    <2>6. OfferIsNew'
      BY <1>2, <2>1, <2>5 DEF Under, LockOps, OfferIsNew
    <2>7. ChainShape'
      BY <2>1, <2>2, <1>2, <1>3, <1>1, <1>7, <2>4 DEF Under, LockOps, ChainShape
    <2>8. AnswerFits'
      BY <1>1, <2>1, <2>5, <1>2, <2>3, <1>7 DEF AnswerFits, Made, LockOps, ExchangeInv
    <2>9. AnswerIsAhead'
      BY <1>2, <1>3, <2>1, <2>2 DEF AnswerIsAhead, LockOps
    <2> QED
      BY <1>1, <2>6, <2>7, <2>8, <2>9, <1>7, <2>4, <2>3
        DEF ExchangeInv, OffersMade, Made, JoinIsBare, InitialIsFirst
  <1>8. CASE ~MayOffer /\ Unlock /\ UNCHANGED <<chain, latestOfferId>>
    BY <1>1, <1>8, UnlockMoves, ExchangeTypes, <1>4, ExchangeIdle DEF Unjoined, MayOffer
  <1> QED
    BY <1>6, <1>7, <1>8 DEF Enter

\* What holds of an empty chain.
LEMMA ChainEmpty ==
  ASSUME chain' = <<>>, entered' = FALSE
  PROVE  OfferIsNew' /\ ChainShape' /\ AnswerFits' /\ AnswerIsAhead'
  BY EmptySeq DEF Under, OfferIsNew, ChainShape, AnswerFits, AnswerIsAhead

\* The first operation is the holder's own.
LEMMA HolderFirst ==
  ASSUME NegotiationInv, ExchangeInv, chain # <<>>, Head(chain).op \in LockOps
  PROVE  /\ Head(chain) = chain[1] /\ 1 \in DOMAIN chain /\ Len(chain) \in 1..2
         /\ chain[1] \in Operation
         /\ chain[1].op # "rollback" => chain[1].offer.id = latestOfferId
         /\ Len(chain) = 2 => 2 \in DOMAIN chain /\ chain[2].op \notin LockOps
         /\ entered /\ lockQueue # <<>>
         /\ Unjoined => Len(chain) = 1 /\ chain[1].op = "createOffer"
                        /\ Holder.kind = "initial"
         /\ ~Unjoined => pendingInitialOffer = NoOffer
  BY ExchangeTypes, ChainMoves
    DEF ExchangeInv, ChainShape, NegotiationInv, LockHeld, JoinIsBare, LockOps, InitialIsFirst

LEMMA CreateOfferExchange ==
  ASSUME NegotiationInv, ExchangeInv, CreateOffer
  PROVE  ExchangeInv'
  <1> DEFINE offer == [Head(chain).offer EXCEPT !.has = Changes]
             x == Op("setLocal", offer, NoOffer)
  <1>1. /\ chain # <<>> /\ Head(chain).op = "createOffer"
        /\ UNCHANGED <<phase, link, toClient, localOffer, hasRemote, latestOfferId>>
    BY DEF CreateOffer, ids
  <1>2. /\ Head(chain) = chain[1] /\ 1 \in DOMAIN chain /\ Len(chain) \in 1..2
        /\ chain[1] \in Operation /\ chain[1].offer.id = latestOfferId
        /\ Len(chain) = 2 => 2 \in DOMAIN chain /\ chain[2].op \notin LockOps
        /\ entered /\ lockQueue # <<>>
        /\ Unjoined => Len(chain) = 1
        /\ Unjoined => Holder.kind = "initial"
        /\ ~Unjoined => pendingInitialOffer = NoOffer
    BY <1>1, HolderFirst DEF LockOps
  <1>3. /\ latestOfferId \in Nat /\ chain \in Seq(Operation) /\ lockQueue \in Seq(Tasks)
        /\ chain[1].offer \in Offers /\ NoOffer \in Offers /\ NoOffer.id = 0
        /\ \A o \in Offers : o.id \in Nat
        /\ Sent \subseteq Offers /\ localOffer \in Offers
        /\ server \in Seq(Offers) /\ toClient \in Seq(Offers) /\ entered \in BOOLEAN
    BY <1>2, ExchangeTypes
  <1>4. offer \in Offers /\ offer.id = latestOfferId
    BY <1>2, <1>3, ChangesType DEF Offers
  <1>5. \/ /\ Holder.kind = "initial" /\ pendingInitialOffer' = offer
           /\ server' = Append(server, offer) /\ chain' = Tail(chain) /\ Unlock
        \/ /\ Holder.kind # "initial" /\ latestOfferId > offer.id
        \/ /\ Holder.kind # "initial" /\ chain' = Append(Tail(chain), x)
           /\ UNCHANGED <<lockQueue, entered, pendingInitialOffer, server>>
    BY DEF CreateOffer, OfferCreated, lock
  <1>6. x \in Operation /\ x.op = "setLocal" /\ x.answer = NoOffer /\ x.offer = offer
    BY <1>3, <1>4, OpType, OpFields DEF Ops
  <1> HIDE DEF offer, x
  <1>7. /\ \A o \in Sent : o.id < latestOfferId
        /\ localOffer.id < latestOfferId /\ pendingInitialOffer.id < latestOfferId
        /\ \A i \in DOMAIN chain : chain[i].answer.id < latestOfferId
        /\ HaveLocalOffer => Under({"setAnswer"})
    BY <1>1, <1>2 DEF ExchangeInv, OfferIsNew, Older, Under
  <1>8. latestOfferId >= 1
    BY <1>3, <1>7
  <1>9. CASE /\ Holder.kind = "initial" /\ pendingInitialOffer' = offer
             /\ server' = Append(server, offer) /\ chain' = Tail(chain) /\ Unlock
    <2>1. Len(chain) = 1 /\ ~link /\ phase \in {"joining", "restarting"}
          /\ toClient = <<>> /\ ~HaveLocalOffer /\ ~hasRemote
      BY <1>2, <1>3, <1>9 DEF ExchangeInv, JoinIsBare, Unjoined, InitialOfferMade, Holder
    <2>2. chain' = <<>>
      BY <1>1, <1>3, <1>9, <2>1
    <2>3. entered' = FALSE
      BY <1>9 DEF Unlock
    <2>4. SentOnce' /\ Sent' = Sent \cup {offer}
      BY <1>3, <1>4, <1>7, <1>1, <1>9, SendMoves DEF ExchangeInv
    <2>5. ~HaveLocalOffer' /\ pendingInitialOffer' # NoOffer
      BY <1>1, <1>3, <1>4, <1>8, <1>9, <2>1 DEF HaveLocalOffer
    <2>6. OffersMade'
      BY <1>3, <1>4, <1>8, <1>7, <1>1, <1>9, <2>4, <2>5 DEF ExchangeInv, OffersMade, Made
    <2>7. JoinIsBare'
      BY <1>1, <2>1, <2>3, <2>5, <2>2, EmptySeq DEF JoinIsBare
    <2> QED
      BY <2>4, <2>6, <2>7, <2>2, <2>3, ChainEmpty, <1>1, <2>1, <2>5 DEF ExchangeInv, InitialIsFirst
  <1>10. CASE /\ Holder.kind # "initial" /\ chain' = Append(Tail(chain), x)
              /\ UNCHANGED <<lockQueue, entered, pendingInitialOffer, server>>
    <2>1. ~Unjoined /\ pendingInitialOffer = NoOffer
      BY <1>2, <1>10
    <2>2. /\ SentOnce' /\ Sent' = Sent
          /\ ~Unjoined' /\ (HaveLocalOffer' <=> HaveLocalOffer)
      BY <1>1, <1>3, <1>10, <2>1, SentMoves
      DEF Unjoined, InitialOfferMade, HaveLocalOffer, wire, ExchangeInv
    <2>3. /\ DOMAIN chain' = 1..Len(chain') /\ Len(chain') = Len(chain)
          /\ chain'[Len(chain)] = x /\ (Len(chain) = 2 => chain'[1] = chain[2])
      BY <1>1, <1>2, <1>3, <1>6, <1>10, TransportReplaced
    <2>4. \A i \in DOMAIN chain' :
            \/ i = 1 /\ Len(chain) = 2 /\ 2 \in DOMAIN chain /\ chain'[i] = chain[2]
            \/ i = Len(chain) /\ chain'[i] = x
      BY <1>2, <2>3
    <2>5. OfferIsNew'
      <3>1. HaveLocalOffer => Under({"setAnswer"})'
        BY <1>7, <1>1, <1>2, ExchangeTypes, <2>3 DEF Under
      <3> QED
        BY <1>1, <1>7, <1>10, <2>2, <3>1, <1>3, <1>6, <1>8, <2>4 DEF OfferIsNew, Older
    <2>6. ChainShape'
      BY <1>2, <1>6, <2>3, <2>4, <1>10 DEF Under, LockOps, ChainShape
    <2>7. AnswerFits'
      BY <1>6, <2>4, <1>2, <1>1, <2>2 DEF AnswerFits, Made, LockOps, ExchangeInv
    <2>8. AnswerIsAhead'
      BY <1>2, <2>3, <1>1, <2>2 DEF ExchangeInv, AnswerIsAhead, LockOps
    <2> QED
      BY <2>2, <2>5, <2>6, <2>7, <2>8, <1>1, <1>10, <2>1
        DEF ExchangeInv, OffersMade, Made, JoinIsBare, InitialIsFirst
  <1> QED
    BY <1>3, <1>4, <1>5, <1>9, <1>10

LEMMA SetLocalExchange ==
  ASSUME NegotiationInv, ExchangeInv, SetLocal \/ SetLocalRefused
  PROVE  ExchangeInv'
  <1>1. /\ chain # <<>> /\ Head(chain).op = "setLocal" /\ chain' = Tail(chain) /\ Unlock
        /\ UNCHANGED <<phase, link, toClient, hasRemote, latestOfferId,
                       pendingInitialOffer>>
    BY DEF SetLocal, SetLocalRefused, ids, wire
  <1>2. /\ Head(chain) = chain[1] /\ 1 \in DOMAIN chain /\ Len(chain) \in 1..2
        /\ chain[1] \in Operation /\ chain[1].offer.id = latestOfferId
        /\ entered /\ lockQueue # <<>>
        /\ ~Unjoined /\ pendingInitialOffer = NoOffer
    BY <1>1, HolderFirst DEF LockOps
  <1>3. /\ latestOfferId \in Nat /\ chain \in Seq(Operation) /\ lockQueue \in Seq(Tasks)
        /\ chain[1].offer \in Offers /\ NoOffer \in Offers /\ NoOffer.id = 0
        /\ \A o \in Offers : o.id \in Nat
        /\ Sent \subseteq Offers /\ localOffer \in Offers
        /\ server \in Seq(Offers) /\ toClient \in Seq(Offers) /\ entered \in BOOLEAN
    BY <1>2, ExchangeTypes
  <1>4. chain' = <<>>
    BY <1>1, <1>2, <1>3 DEF ExchangeInv, AnswerIsAhead
  <1>5. entered' = FALSE /\ ~Unjoined'
    BY <1>1, <1>2, <1>3, UnlockMoves DEF Unjoined
  <1>6. OfferIsNew' /\ ChainShape' /\ AnswerFits' /\ AnswerIsAhead'
    BY <1>4, <1>5, ChainEmpty
  <1>7. SentOnce' /\ OffersMade'
    <2>1. CASE SetLocal
      <3> DEFINE offer == chain[1].offer
      <3>1. localOffer' = offer /\ (server' = Append(server, offer) \/ server' = server)
        BY <1>2, <2>1, <1>3 DEF SetLocal, SendOffer, Offers
      <3>2. (\A o \in Sent : o.id < latestOfferId) /\ localOffer.id < latestOfferId
        BY <1>1, <1>2 DEF ExchangeInv, OfferIsNew, Older, Under
      <3>3. offer \in Offers /\ offer.id = latestOfferId /\ latestOfferId >= 1
        BY <1>2, <1>3, <3>2
      <3>4. \A o \in Sent : o.id \in 1..latestOfferId /\ o.id # latestOfferId /\ o.id # offer.id
        BY <1>3, <3>2, <3>3 DEF ExchangeInv, OffersMade, Made
      <3> HIDE DEF offer
      <3>5. SentOnce' /\ Sent' \subseteq Sent \cup {offer}
        BY <1>1, <1>3, <3>3, <3>4, SendMoves, SentMoves, <3>1 DEF ExchangeInv, wire
      <3> QED
        BY <3>5, <1>3, <3>3, <1>1, <1>2, <3>1, <3>4 DEF OffersMade, Made, HaveLocalOffer
    <2> QED
      BY <2>1, <1>3, SentMoves, <1>1 DEF SetLocalRefused, ExchangeInv, OffersMade, Made, HaveLocalOffer
  <1> QED
    BY <1>6, <1>7, <1>1, <1>2, <1>5 DEF ExchangeInv, JoinIsBare, InitialIsFirst

LEMMA RollbackExchange ==
  ASSUME NegotiationInv, ExchangeInv, Rollback
  PROVE  ExchangeInv'
  <1>1. /\ chain # <<>> /\ Head(chain).op = "rollback"
        /\ UNCHANGED <<phase, link, wire, hasRemote, pendingInitialOffer>>
    BY DEF Rollback
  <1>2. /\ Head(chain) = chain[1] /\ 1 \in DOMAIN chain /\ Len(chain) \in 1..2
        /\ Len(chain) = 2 => 2 \in DOMAIN chain /\ chain[2].op \notin LockOps
        /\ entered /\ lockQueue # <<>>
        /\ ~Unjoined /\ pendingInitialOffer = NoOffer
    BY <1>1, HolderFirst DEF LockOps
  <1>3. /\ latestOfferId \in Nat /\ chain \in Seq(Operation) /\ lockQueue \in Seq(Tasks)
        /\ NoOffer \in Offers /\ NoOffer.id = 0 /\ Len(chain) <= 2
        /\ \A o \in Offers : o.id \in Nat
        /\ Sent \subseteq Offers /\ localOffer \in Offers
        /\ server \in Seq(Offers) /\ toClient \in Seq(Offers) /\ entered \in BOOLEAN
    BY ExchangeTypes
  <1>4. SentOnce' /\ Sent' = Sent
    BY <1>1, <1>3, SentMoves DEF ExchangeInv
  <1>5. Len(chain) = 2 =>
          /\ chain[2].answer.id \in 1..latestOfferId
          /\ \A o \in Sent : o.id # chain[2].answer.id
          /\ HaveLocalOffer => chain[2].op = "setAnswer" /\ localOffer = chain[2].answer
          /\ chain[2].op # "setInitial"
    BY <1>2 DEF ExchangeInv, AnswerFits, Made
  <1>6. CASE /\ HaveLocalOffer /\ localOffer' = NoOffer /\ latestOfferId' = latestOfferId + 1
             /\ chain' = Append(Tail(chain),
                  Op("createOffer", [id |-> latestOfferId + 1, has |-> {}], NoOffer))
             /\ UNCHANGED lock
    <2> DEFINE x == Op("createOffer", [id |-> latestOfferId + 1, has |-> {}], NoOffer)
    <2>1. /\ x \in Operation /\ x.op = "createOffer" /\ x.answer = NoOffer
          /\ chain' = Append(Tail(chain), x)
          /\ lockQueue' = lockQueue /\ entered' = entered
      BY <1>3, <1>6, BegunType, OpType, OpFields DEF Ops, lock
    <2> HIDE DEF x
    <2>2. /\ DOMAIN chain' = 1..Len(chain') /\ Len(chain') = Len(chain)
          /\ chain'[Len(chain)] = x /\ (Len(chain) = 2 => chain'[1] = chain[2])
      BY <1>1, <1>3, <2>1, TransportReplaced
    <2>3. \A i \in DOMAIN chain' :
            \/ i = 1 /\ Len(chain) = 2 /\ 2 \in DOMAIN chain /\ chain'[i] = chain[2]
            \/ i = Len(chain) /\ chain'[i] = x
      BY <1>2, <2>2
    <2>4. ~Unjoined' /\ ~HaveLocalOffer'
      BY <1>1, <1>2, <1>6, <2>1 DEF Unjoined, InitialOfferMade, HaveLocalOffer
    <2>5. \A o \in Sent : o.id \in 1..latestOfferId
      BY DEF ExchangeInv, OffersMade, Made
    <2>6. OffersMade'
      BY <1>3, <2>5, <1>1, <1>2, <1>4, <1>6, <2>4 DEF OffersMade, Made
    <2>7. OfferIsNew'
      <3>1. \A i \in DOMAIN chain' : chain'[i].answer.id < latestOfferId + 1
        BY <1>3, <1>5, <2>1, <2>3
      <3>2. \A o \in Sent : o.id < latestOfferId + 1
        BY <1>3, <2>5
      <3>3. NoOffer.id < latestOfferId + 1
        BY <1>3
      <3> QED
        BY <1>1, <1>2, <1>4, <1>6, <2>4, <3>1, <3>2, <3>3 DEF OfferIsNew, Older
    <2>8. ChainShape'
      BY <1>2, <2>1, <2>2, <2>3 DEF Under, LockOps, ChainShape
    <2>9. AnswerFits'
      BY <2>4, <2>1, <2>3, <1>3, <1>5, <1>4, <1>6 DEF AnswerFits, Made, LockOps
    <2>10. AnswerIsAhead'
      BY <1>2, <2>1, <2>2 DEF AnswerIsAhead, LockOps
    <2> QED
      BY <1>4, <2>6, <2>7, <2>8, <2>9, <2>10, <1>1, <1>2, <2>4 DEF ExchangeInv, JoinIsBare, InitialIsFirst
  <1>7. CASE /\ chain' = Tail(chain) /\ Unlock /\ UNCHANGED <<localOffer, latestOfferId>>
    <2>1. /\ DOMAIN chain' = 1..Len(chain') /\ Len(chain') = Len(chain) - 1
          /\ Len(chain') \in 0..1
          /\ Len(chain) = 2 => chain'[1] = chain[2]
      BY <1>1, <1>3, <1>7, IsOver
    <2>2. \A i \in DOMAIN chain' :
            i = 1 /\ Len(chain) = 2 /\ 2 \in DOMAIN chain /\ chain'[i] = chain[2]
      BY <1>2, <2>1
    <2>3. entered' = FALSE /\ ~Unjoined' /\ (HaveLocalOffer' <=> HaveLocalOffer)
      BY <1>2, <1>3, <1>7, UnlockMoves, <1>1 DEF Unjoined, HaveLocalOffer
    <2>4. Len(chain') <= 2 /\ Len(chain') # 2
      <3>1. Len(chain') \in 0..1
        BY <2>1
      <3> QED
        BY <3>1
    <2>5. JoinIsBare' /\ InitialIsFirst'
      BY <1>1, <1>2, <2>3 DEF JoinIsBare, InitialIsFirst
    <2>6. AnswerFits'
      BY <1>4, <1>5, <1>7, <2>2, <2>3 DEF AnswerFits, Made
    <2> QED
      BY <1>4, <2>5, <2>6, <1>1, <1>7, <2>3, <2>4, <1>2, <2>2
        DEF ExchangeInv, OffersMade, Made, OfferIsNew, ChainShape, AnswerIsAhead, Under, LockOps
  <1> QED
    BY <1>6, <1>7 DEF Rollback

\* The first operation applies an answer.
LEMMA AnswerFirst ==
  ASSUME NegotiationInv, ExchangeInv, chain # <<>>, Head(chain).op \notin LockOps
  PROVE  /\ Head(chain) = chain[1] /\ 1 \in DOMAIN chain /\ Len(chain) \in 1..2
         /\ chain[1] \in Operation
         /\ chain[1].answer \in Offers /\ chain[1].answer.id \in 1..latestOfferId
         /\ \A o \in Sent : o.id # chain[1].answer.id
         /\ HaveLocalOffer => chain[1].op = "setAnswer" /\ localOffer = chain[1].answer
         /\ chain[1].op = "setInitial" =>
              /\ chain[1].offer = chain[1].answer
              /\ Len(chain) = 2 => chain[2].op = "createOffer"
         /\ Len(chain) = 2 => 2 \in DOMAIN chain /\ chain[2].op \in LockOps
         /\ ~Unjoined /\ pendingInitialOffer = NoOffer
         /\ latestOfferId \in Nat /\ latestOfferId >= 1
  BY ExchangeTypes, ChainMoves
    DEF ExchangeInv, ChainShape, JoinIsBare, LockOps, InitialIsFirst, AnswerFits, Made

\* What the holder has on the chain keeps its place in the order.
LEMMA LockOpStays ==
  ASSUME NegotiationInv, ExchangeInv, chain # <<>>, Head(chain).op \notin LockOps, entered
  PROVE  Len(chain) = 2
  BY AnswerFirst, ExchangeTypes DEF ExchangeInv, ChainShape, Under

LEMMA SetInitialExchange ==
  ASSUME NegotiationInv, ExchangeInv, SetInitial
  PROVE  ExchangeInv'
  <1>1. /\ chain # <<>> /\ Head(chain).op = "setInitial"
        /\ localOffer' = Head(chain).offer
        /\ chain' = Append(Tail(chain), Op("setAnswer", NoOffer, Head(chain).answer))
        /\ UNCHANGED <<phase, link, wire, hasRemote, lockQueue, entered, latestOfferId,
                       pendingInitialOffer>>
    BY DEF SetInitial, lock, ids
  <1>2. Head(chain).op \notin LockOps
    BY <1>1 DEF LockOps
  <1> DEFINE a == chain[1].answer
             x == Op("setAnswer", NoOffer, a)
  <1>3. /\ Head(chain) = chain[1] /\ 1 \in DOMAIN chain /\ Len(chain) \in 1..2
        /\ a \in Offers /\ a.id \in 1..latestOfferId
        /\ \A o \in Sent : o.id # a.id
        /\ ~HaveLocalOffer /\ chain[1].offer = a
        /\ Len(chain) = 2 => 2 \in DOMAIN chain /\ chain[2].op = "createOffer"
        /\ ~Unjoined /\ pendingInitialOffer = NoOffer
        /\ latestOfferId \in Nat /\ latestOfferId >= 1
    BY <1>1, <1>2, AnswerFirst
  <1>4. /\ chain \in Seq(Operation) /\ NoOffer \in Offers /\ NoOffer.id = 0
        /\ Len(chain) <= 2
        /\ server \in Seq(Offers) /\ toClient \in Seq(Offers) /\ entered \in BOOLEAN
    BY ExchangeTypes
  <1>5. SentOnce' /\ Sent' = Sent
    BY <1>1, <1>4, SentMoves DEF ExchangeInv
  <1>6. x \in Operation /\ x.op = "setAnswer" /\ x.answer = a
    BY <1>3, <1>4, OpType, OpFields DEF Ops
  <1>7. chain' = Append(Tail(chain), x) /\ localOffer' = a
    BY <1>1, <1>3
  <1>8. Under({"createOffer", "setLocal"}) =>
          /\ \A o \in Sent : o.id < latestOfferId
          /\ \A i \in DOMAIN chain : chain[i].answer.id < latestOfferId
    BY DEF ExchangeInv, OfferIsNew, Older
  <1>9. Len(chain) = 2 => Under({"createOffer", "setLocal"})
    BY <1>3 DEF Under
  <1> HIDE DEF a, x
  <1>10. /\ DOMAIN chain' = 1..Len(chain') /\ Len(chain') = Len(chain)
         /\ chain'[Len(chain)] = x /\ (Len(chain) = 2 => chain'[1] = chain[2])
    BY <1>1, <1>4, <1>6, <1>7, TransportReplaced
  <1>11. \A i \in DOMAIN chain' :
           \/ i = 1 /\ Len(chain) = 2 /\ 2 \in DOMAIN chain /\ chain'[i] = chain[2]
           \/ i = Len(chain) /\ chain'[i] = x
    BY <1>3, <1>10
  <1>12. Len(chain) \in DOMAIN chain' /\ Len(chain') <= 2
    BY <1>3, <1>10
  <1>13. ~Unjoined' /\ HaveLocalOffer'
    BY <1>1, <1>3, <1>4, <1>7 DEF Unjoined, InitialOfferMade, HaveLocalOffer
  <1>14. OffersMade'
    BY <1>3, <1>4, <1>1, <1>5, <1>7 DEF ExchangeInv, OffersMade, Made, HaveLocalOffer
  <1>15. OfferIsNew'
    <2>1. Under({"createOffer", "setLocal"})' => Len(chain) = 2
      BY <1>6, <1>11 DEF Under
    <2>2. Len(chain) = 2 => \A i \in DOMAIN chain' : chain'[i].answer.id < latestOfferId
      BY <1>3, <1>6, <1>8, <1>9, <1>11 DEF a
    <2>3. Len(chain) = 2 => a.id < latestOfferId /\ NoOffer.id < latestOfferId
      BY <1>3, <1>4, <1>8, <1>9 DEF a
    <2>4. Under({"setAnswer"})'
      BY <1>6, <1>10, <1>12 DEF Under
    <2> QED
      BY <1>1, <1>3, <1>5, <1>7, <1>8, <1>9, <2>1, <2>2, <2>3, <2>4 DEF OfferIsNew, Older
  <1>16. ChainShape'
    BY <1>3, <1>10, <1>6, <1>11, <1>1, <1>12, <1>2, LockOpStays DEF Under, LockOps, ChainShape, ExchangeInv
  <1>17. AnswerFits'
    BY <1>3, <1>11, <1>1, <1>5, <1>6, <1>7 DEF AnswerFits, Made, LockOps
  <1>18. AnswerIsAhead'
    BY <1>3, <1>6, <1>10, <1>13 DEF AnswerIsAhead
  <1> QED
    BY <1>5, <1>14, <1>15, <1>16, <1>17, <1>18, <1>1, <1>3, <1>13 DEF ExchangeInv, JoinIsBare, InitialIsFirst

LEMMA SetAnswerExchange ==
  ASSUME NegotiationInv, ExchangeInv, SetAnswer
  PROVE  ExchangeInv'
  <1> DEFINE a == chain[1].answer
  <1>1. /\ chain # <<>> /\ Head(chain).op = "setAnswer"
        /\ UNCHANGED <<phase, link, wire, entered, latestOfferId, pendingInitialOffer>>
    BY DEF SetAnswer
  <1>2. Head(chain).op \notin LockOps
    BY <1>1 DEF LockOps
  <1>3. /\ Head(chain) = chain[1] /\ 1 \in DOMAIN chain /\ Len(chain) \in 1..2
        /\ chain[1] \in Operation
        /\ a \in Offers /\ a.id \in 1..latestOfferId
        /\ \A o \in Sent : o.id # a.id
        /\ HaveLocalOffer => localOffer = a
        /\ Len(chain) = 2 => 2 \in DOMAIN chain /\ chain[2].op \in LockOps
        /\ ~Unjoined /\ pendingInitialOffer = NoOffer
        /\ latestOfferId \in Nat /\ latestOfferId >= 1
    BY <1>1, <1>2, AnswerFirst
  <1>4. /\ chain \in Seq(Operation) /\ NoOffer \in Offers /\ NoOffer.id = 0
        /\ Len(chain) <= 2 /\ lockQueue \in Seq(Tasks) /\ (entered => lockQueue # <<>>)
        /\ server \in Seq(Offers) /\ toClient \in Seq(Offers) /\ entered \in BOOLEAN
    BY ExchangeTypes DEF ExchangeInv, ChainShape
  <1>5. SentOnce' /\ Sent' = Sent
    BY <1>1, <1>4, SentMoves DEF ExchangeInv
  <1>6. entered => Len(chain) = 2
    BY <1>1, <1>2, LockOpStays
  <1>7. Under({"createOffer", "setLocal"}) =>
          /\ \A o \in Sent : o.id < latestOfferId
          /\ \A i \in DOMAIN chain : chain[i].answer.id < latestOfferId
    BY DEF ExchangeInv, OfferIsNew, Older
  <1>8. Under({"rollback"}) => hasRemote
    BY DEF ExchangeInv, ChainShape
  <1>9. \A o \in Sent : o.id \in 1..latestOfferId /\ o.id # latestOfferId
    BY <1>3, <1>4 DEF ExchangeInv, OffersMade, Made, HaveLocalOffer
  <1> HIDE DEF a
  <1>10. ASSUME chain' = Tail(chain), ~HaveLocalOffer', hasRemote => hasRemote',
                ~Unjoined', entered => lockQueue' # <<>>
         PROVE  ExchangeInv'
    <2>1. /\ DOMAIN chain' = 1..Len(chain') /\ Len(chain') = Len(chain) - 1
          /\ Len(chain') \in 0..1
          /\ Len(chain) = 2 => chain'[1] = chain[2]
      BY <1>1, <1>4, <1>10, IsOver
    <2>2. \A i \in DOMAIN chain' :
            i = 1 /\ Len(chain) = 2 /\ 2 \in DOMAIN chain /\ chain'[i] = chain[2]
      BY <1>3, <2>1
    <2>3. Len(chain) = 2 => 1 \in DOMAIN chain'
      BY <2>1
    <2>4. Len(chain') <= 2 /\ Len(chain') # 2
      <3>1. Len(chain') \in 0..1
        BY <2>1
      <3> QED
        BY <3>1
    <2>5. \A kinds : Under(kinds)' => Under(kinds)
      BY <2>2 DEF Under
    <2>6. Under({"rollback"})' => Under({"rollback"})
      BY <2>5
    <2>7. OfferIsNew'
      BY <1>3, <1>4, <1>7, <2>2, <1>1, <1>5, <1>10, <2>5 DEF HaveLocalOffer, OfferIsNew, Older
    <2>8. ChainShape'
      BY <1>3, <1>6, <2>1, <2>3, <1>1, <1>8, <1>10, <2>4, <2>6 DEF Under, ChainShape
    <2>9. AnswerFits'
      BY <1>3, <2>2 DEF AnswerFits
    <2>10. AnswerIsAhead'
      BY <2>4 DEF AnswerIsAhead
    <2> QED
      BY <1>5, <2>7, <2>8, <2>9, <2>10, <1>1, <1>3, <1>10, <1>9
        DEF ExchangeInv, JoinIsBare, InitialIsFirst, OffersMade, Made
  <1>11. CASE /\ HaveLocalOffer /\ localOffer' = NoOffer /\ hasRemote' = TRUE
              /\ Renegotiate /\ chain' = Tail(chain)
    <2>1. (entered => lockQueue' # <<>>) /\ (InitialOfferMade => InitialOfferMade')
      <3>1. CASE lockQueue' = Append(lockQueue, Task("renegotiate", Nobody))
        BY TaskType, <1>1, <1>4, <3>1, QueueMoves DEF Kinds, Task
      <3> QED
        BY <1>11, <3>1, <1>4 DEF Renegotiate, InitialOfferMade
    <2> QED
      BY <1>10, <1>11, <2>1, <1>1, <1>3 DEF HaveLocalOffer, Unjoined
  <1>12. CASE /\ ~HaveLocalOffer
              /\ chain' = IF Head(chain).again THEN Tail(chain)
                          ELSE Append(Tail(chain), [Head(chain) EXCEPT !.again = TRUE])
              /\ UNCHANGED <<localOffer, hasRemote, lockQueue>>
    <2>1. ~HaveLocalOffer' /\ ~Unjoined'
      BY <1>1, <1>3, <1>12 DEF HaveLocalOffer, Unjoined, InitialOfferMade
    <2>2. CASE ~Head(chain).again
      <3> DEFINE x == [chain[1] EXCEPT !.again = TRUE]
      <3>1. /\ x \in Operation /\ x.op = "setAnswer" /\ x.answer = a /\ x.again
            /\ chain' = Append(Tail(chain), x)
        BY <1>1, <1>3, <1>12, <2>2 DEF Operation, a
      <3> HIDE DEF x
      <3>2. /\ DOMAIN chain' = 1..Len(chain') /\ Len(chain') = Len(chain)
            /\ chain'[Len(chain)] = x /\ (Len(chain) = 2 => chain'[1] = chain[2])
        BY <1>1, <1>4, <3>1, TransportReplaced
      <3>3. \A i \in DOMAIN chain' :
              \/ i = 1 /\ Len(chain) = 2 /\ 2 \in DOMAIN chain /\ chain'[i] = chain[2]
              \/ i = Len(chain) /\ chain'[i] = x
        BY <1>3, <3>2
      <3>4. Len(chain) \in DOMAIN chain' /\ Len(chain') <= 2
        BY <1>3, <3>2
      <3>5. OfferIsNew'
        BY <3>1, <3>3, <1>3, <1>7, <1>4, <2>1, <1>1, <1>5 DEF Under, a, HaveLocalOffer, OfferIsNew, Older
      <3>6. ChainShape'
        <4>1. Len(chain) = 2 => Under(LockOps)'
          BY <1>3, <3>2 DEF Under
        <4>2. Under({"rollback"})' => Under({"rollback"})
          BY <3>1, <3>3 DEF Under
        <4>3. Len(chain') = 2 => chain'[1].op \in LockOps /\ chain'[2].op \notin LockOps
          BY <1>3, <3>1, <3>2 DEF LockOps
        <4> QED
          BY <1>1, <1>4, <1>6, <1>8, <1>12, <3>4, <4>1, <4>2, <4>3 DEF ChainShape
      <3>7. AnswerFits'
        BY <2>1, <1>3, <3>3, <1>1, <1>5, <3>1 DEF AnswerFits, Made
      <3>8. AnswerIsAhead'
        BY <1>3, <1>12, <2>2, <3>1, <3>2 DEF ExchangeInv, AnswerIsAhead
      <3> QED
        BY <1>5, <3>5, <3>6, <3>7, <3>8, <1>1, <1>3, <2>1, <1>9
          DEF ExchangeInv, JoinIsBare, InitialIsFirst, OffersMade, Made
    <2> QED
      BY <2>2, <1>4, <1>10, <1>12, <2>1
  <1> QED
    BY <1>11, <1>12 DEF SetAnswer

LEMMA ReceiveExchange ==
  ASSUME NegotiationInv, ExchangeInv, ReceiveAnswer
  PROVE  ExchangeInv'
  <1> DEFINE h == Head(toClient)
  <1>1. /\ toClient # <<>> /\ toClient' = Tail(toClient)
        /\ UNCHANGED <<phase, link, server, localOffer, hasRemote, lockQueue, entered,
                       latestOfferId>>
    BY DEF ReceiveAnswer, lock, ids
  <1>2. /\ latestOfferId \in Nat /\ chain \in Seq(Operation)
        /\ NoOffer \in Offers /\ NoOffer.id = 0 /\ Len(chain) <= 2
        /\ DOMAIN chain = 1..Len(chain) /\ Len(chain) \in 0..2
        /\ \A o \in Offers : o.id \in Nat
        /\ Sent \subseteq Offers /\ localOffer \in Offers /\ pendingInitialOffer \in Offers
        /\ server \in Seq(Offers) /\ toClient \in Seq(Offers)
    BY ExchangeTypes
  <1>3. /\ SentOnce' /\ Sent' = Sent \ {h} /\ h \in Sent
        /\ \A o \in Sent' : o.id # h.id
    BY <1>1, <1>2, ReceiveMoves DEF ExchangeInv
  <1> HIDE DEF h
  <1>4. ~Unjoined /\ ~Unjoined' /\ Holder' = Holder
    BY <1>1 DEF ExchangeInv, JoinIsBare, Unjoined, InitialOfferMade, Holder
  <1>5. CASE /\ ~IsStale(h)
             /\ \/ /\ pendingInitialOffer # NoOffer /\ pendingInitialOffer' = NoOffer
                   /\ chain' = Append(chain, Op("setInitial", pendingInitialOffer, h))
                \/ /\ pendingInitialOffer = NoOffer /\ UNCHANGED pendingInitialOffer
                   /\ chain' = Append(chain, Op("setAnswer", NoOffer, h))
    <2>1. /\ h.id \in 1..latestOfferId /\ h \in Offers
          /\ h.id = latestOfferId => h \in {localOffer, pendingInitialOffer}
      BY <1>2, <1>3 DEF ExchangeInv, OffersMade, Made
    <2>2. h.id = latestOfferId /\ latestOfferId >= 1
      BY <1>2, <1>5, <2>1 DEF IsStale
    <2>3. \A i \in DOMAIN chain : chain[i].op = "rollback"
      <3>1. \A i \in DOMAIN chain : chain[i].op \in LockOps
        BY <1>2, <2>2, <1>3, <1>4, EmptySeq, <2>1 DEF HaveLocalOffer, ExchangeInv, AnswerFits, InitialIsFirst
      <3> QED
        BY <3>1, <1>2, <1>3, <2>2 DEF Under, LockOps, ExchangeInv, OfferIsNew, Older
    <2>4. Len(chain) <= 1
      BY <1>2, <2>3 DEF ExchangeInv, ChainShape, LockOps
    <2>5. OffersMade'
      BY <1>1, <1>5, <1>3, <2>2 DEF ExchangeInv, OffersMade, Made, HaveLocalOffer
    <2>6. PICK x \in Operation :
            /\ chain' = Append(chain, x) /\ x.answer = h
            /\ \/ /\ x.op = "setInitial" /\ x.offer = h /\ chain = <<>>
                  /\ ~HaveLocalOffer
               \/ x.op = "setAnswer" /\ h = localOffer
      BY <1>4, <1>2, <2>1, <2>2, OpType, OpFields, <1>5 DEF ExchangeInv, InitialIsFirst, HaveLocalOffer, Ops
    <2>7. /\ DOMAIN chain' = 1..Len(chain') /\ Len(chain') = Len(chain) + 1
          /\ Len(chain) \in 0..1 /\ Len(chain') \in 1..2
          /\ chain'[Len(chain')] = x /\ (Len(chain) = 1 => chain'[1] = chain[1])
      BY <1>2, <2>4, <2>6, Arrives
    <2>8. \A i \in DOMAIN chain' :
            \/ i = 1 /\ Len(chain) = 1 /\ 1 \in DOMAIN chain /\ chain'[i] = chain[1]
            \/ i = Len(chain') /\ chain'[i] = x
      BY <1>2, <2>7
    <2>9. Len(chain) = 1 => 1 \in DOMAIN chain /\ 1 \in DOMAIN chain'
      BY <1>2, <2>7
    <2>10. pendingInitialOffer' = NoOffer /\ (HaveLocalOffer' <=> HaveLocalOffer)
      BY <1>1, <1>5 DEF HaveLocalOffer
    <2>11. ChainShape'
      BY <1>2, <2>7, <2>9, <2>6, <2>8, <2>3, <1>1 DEF Under, ExchangeInv, ChainShape, LockOps
    <2>12. JoinIsBare' /\ InitialIsFirst'
      BY <1>4, <2>10 DEF JoinIsBare, InitialIsFirst
    <2>13. AnswerFits'
      <3> SUFFICES ASSUME NEW i \in DOMAIN chain', chain'[i].op \notin LockOps
                   PROVE  /\ chain'[i].answer.id \in 1..latestOfferId'
                          /\ \A o \in Sent' : o.id # chain'[i].answer.id
                          /\ HaveLocalOffer' => chain'[i].op = "setAnswer"
                                                /\ localOffer' = chain'[i].answer
                          /\ chain'[i].op = "setInitial" =>
                               /\ i = 1 /\ chain'[i].offer = chain'[i].answer
                               /\ Len(chain') = 2 => chain'[2].op = "createOffer"
        BY DEF AnswerFits, Made
      <3>1. x.op = "setInitial" => Len(chain') = 1
        BY <2>6, <2>7, <1>2, ChainMoves
      <3> QED
        BY <1>1, <1>3, <2>1, <2>6, <2>10, <3>1, <2>3, <2>8 DEF LockOps
    <2>14. AnswerIsAhead'
      BY <2>3, <2>7, <2>9, <2>6 DEF AnswerIsAhead
    <2> QED
      BY <1>3, <2>5, <2>11, <2>12, <2>13, <2>14, <2>3, <2>6, <2>8 DEF ExchangeInv, Under, OfferIsNew
  <1> QED
    BY <1>5, <1>1, <1>3, <1>4, ExchangeIdle DEF ReceiveAnswer, h

\* A transport that has just been constructed, or none.
LEMMA FreshExchange ==
  ASSUME server' = <<>>, toClient' = <<>>, FreshTransport, entered' = FALSE,
         \/ lockQueue' = <<>> /\ phase' # "joining"
         \/ lockQueue' = <<Task("initial", Nobody)>> /\ phase' = "joining" /\ link' = FALSE
  PROVE  ExchangeInv'
  <1>1. /\ localOffer' = NoOffer /\ hasRemote' = FALSE /\ chain' = <<>>
        /\ latestOfferId' = 0 /\ pendingInitialOffer' = NoOffer
    BY DEF FreshTransport
  <1>2. DOMAIN server' = {} /\ DOMAIN toClient' = {} /\ DOMAIN chain' = {}
    BY <1>1, EmptySeq
  <1>3. SentOnce' /\ Sent' = {}
    BY <1>2 DEF SentOnce, Sent
  <1>4. OffersMade' /\ InitialIsFirst' /\ ~HaveLocalOffer'
    BY <1>1, <1>3 DEF OffersMade, HaveLocalOffer, InitialIsFirst
  <1>5. JoinIsBare'
    <2>1. CASE lockQueue' = <<>> /\ phase' # "joining"
      BY <2>1, EmptySeq DEF Unjoined, InitialOfferMade, JoinIsBare
    <2>2. CASE lockQueue' = <<Task("initial", Nobody)>> /\ phase' = "joining" /\ link' = FALSE
      BY <2>2, <1>1, <1>2, <1>4 DEF Holder, Task, JoinIsBare
    <2> QED
      BY <2>1, <2>2
  <1> QED
    BY <1>3, <1>4, <1>5, <1>1, ChainEmpty DEF ExchangeInv

LEMMA InitExchange == NegotiationInit => ExchangeInv
  <1> SUFFICES ASSUME NegotiationInit PROVE ExchangeInv
    OBVIOUS
  <1>1. DOMAIN server = {} /\ DOMAIN toClient = {} /\ DOMAIN chain = {} /\ Len(chain) = 0
        /\ DOMAIN lockQueue = {}
    BY EmptySeq DEF NegotiationInit
  <1>2. ~Unjoined /\ Sent = {} /\ ~HaveLocalOffer /\ pendingInitialOffer = NoOffer
        /\ ~entered
    BY <1>1 DEF NegotiationInit, Unjoined, InitialOfferMade, Sent, HaveLocalOffer
  <1>3. ~Under({"createOffer", "setLocal"}) /\ ~Under({"rollback"})
    BY <1>1 DEF Under
  <1> QED
    BY <1>1, <1>2, <1>3 DEF ExchangeInv, SentOnce, OffersMade, OfferIsNew, ChainShape,
       JoinIsBare, InitialIsFirst, AnswerFits, AnswerIsAhead

LEMMA ExchangeSteps ==
  ASSUME NegotiationInv, ExchangeInv, [NegotiationNext]_negotiationVars
  PROVE  ExchangeInv'
  <1>1. CASE UNCHANGED negotiationVars
    BY <1>1, ExchangeTypes, SentMoves, ExchangeIdle
      DEF negotiationVars, transportVars, wire, ExchangeInv, Unjoined, InitialOfferMade, Holder, JoinIsBare
  <1>2. CASE Enter \/ CreateOffer \/ SetLocal \/ SetLocalRefused \/ Rollback
    BY <1>2, EnterExchange, CreateOfferExchange, SetLocalExchange, RollbackExchange
  <1>3. CASE SetInitial \/ SetAnswer \/ ReceiveAnswer
    BY <1>3, SetInitialExchange, SetAnswerExchange, ReceiveExchange
  <1> QED
    BY <1>1, <1>2, <1>3, QuietSteps, FreshExchange
      DEF NegotiationNext, Work, Teardown, Configure, wire, NegotiationInv, DownIsEmpty

LEMMA MeetSteps ==
  ASSUME NegotiationInv, ExchangeInv, AnswersMeetTheirOffers, [NegotiationNext]_negotiationVars
  PROVE  AnswersMeetTheirOffers'
  <1>1. CASE UNCHANGED applied
    BY <1>1 DEF AnswersMeetTheirOffers
  <1>2. CASE SetAnswer
    <2>1. CASE HaveLocalOffer
      BY <1>2, <2>1, AnswerFirst DEF SetAnswer, LockOps, AnswersMeetTheirOffers
    <2> QED
      BY <2>1, <1>1, <1>2 DEF SetAnswer
  <1>3. ~SetAnswer /\ ~Configure => UNCHANGED applied
    BY DEF NegotiationNext, Work, Negotiate, NegotiateRejected, Deadline, EnsureNegotiates,
       DebounceFires, Enter, CreateOffer, SetLocal, SetLocalRefused, Rollback,
       SetInitial, ServerAnswers, ReceiveAnswer, LinkLost, Resume, RestartAsked,
       RestartForced, Restarting, Teardown, Joined, JoinRetry, negotiationVars, transportVars
  <1> QED
    BY <1>1, <1>2, <1>3 DEF Configure, AnswersMeetTheirOffers

\* PCTransport.setRemoteDescription: an answer is only ever applied to the offer it
\* answers, for every set of requests and every bound.
THEOREM AnswersMeet == NegotiationSpec => []AnswersMeetTheirOffers
  <1>1. NegotiationInit => NegotiationInv /\ ExchangeInv /\ AnswersMeetTheirOffers
    BY InitInv, InitExchange DEF NegotiationInit, AnswersMeetTheirOffers
  <1>2. NegotiationInv /\ ExchangeInv /\ AnswersMeetTheirOffers /\ [NegotiationNext]_negotiationVars
          => (NegotiationInv /\ ExchangeInv /\ AnswersMeetTheirOffers)'
    BY InvSteps, ExchangeSteps, MeetSteps
  <1> QED
    BY <1>1, <1>2, PTL DEF NegotiationSpec

-----------------------------------------------------------------------------
(* Nothing is forgotten: as long as the browser refuses no offer and no full *)
(* reconnect is due, whatever has not been negotiated yet is still to come.  *)

LEMMA StillUndisturbed ==
  ASSUME NegotiationInv, [NegotiationNext]_negotiationVars, ~Configure, Undisturbed'
  PROVE  /\ Undisturbed /\ ~Teardown /\ ~SetLocalRefused /\ ~RestartAsked /\ ~RestartForced
         /\ \A r \in Requests : ~NegotiateRejected(r) /\ ~Deadline(r)
         /\ ~ResumeFails
  <1>1. fullReconnect' = FALSE /\ refused' = FALSE /\ phase' \in {"joining", "running"}
    BY InvSteps DEF NegotiationInv, Undisturbed, NegotiationTypeOK
  <1>2. ~Teardown /\ ~SetLocalRefused /\ ~RestartAsked /\ ~RestartForced /\ ~ResumeFails
    BY <1>1 DEF Teardown, SetLocalRefused, RestartAsked, RestartForced, Restarting,
       ResumeFails
  <1>3. \A r \in Requests : ~NegotiateRejected(r) /\ ~Deadline(r)
    BY <1>1 DEF NegotiateRejected, Deadline, Fail
  <1>4. UNCHANGED refused
    BY <1>2, <1>3 DEF NegotiationNext, Work, Negotiate, EnsureNegotiates,
       DebounceFires, Enter, CreateOffer, SetLocal, Rollback, SetInitial, SetAnswer,
       ServerAnswers, ReceiveAnswer, LinkLost, Resume, Joined, JoinRetry, negotiationVars, transportVars
  <1>5. UNCHANGED fullReconnect
    BY <1>2, <1>3 DEF NegotiationNext, Work, Negotiate, EnsureNegotiates,
       DebounceFires, Enter, CreateOffer, SetLocal, Rollback, SetInitial, SetAnswer,
       ServerAnswers, ReceiveAnswer, LinkLost, Resume, Joined, JoinRetry, negotiationVars, asks
  <1>6. phase \in {"joining", "running"}
    BY <1>1, <1>2, <1>3 DEF NegotiationNext, Work, Negotiate, EnsureNegotiates,
       DebounceFires, Enter, CreateOffer, SetLocal, Rollback, SetInitial, SetAnswer,
       ServerAnswers, ReceiveAnswer, LinkLost, Resume, Joined, JoinRetry, negotiationVars
  <1> QED
    BY <1>1, <1>2, <1>3, <1>4, <1>5, <1>6 DEF Undisturbed

LEMMA SameChanges ==
  ASSUME UNCHANGED <<session, req>>
  PROVE  Changes' = Changes
  BY DEF Changes

\* A step that leaves the descriptions and the chain alone.
LEMMA DueIdle ==
  ASSUME DueInv, Undisturbed, Changes' = Changes,
         UNCHANGED <<localOffer, pendingInitialOffer, latestOfferId, chain, applied,
                     renegotiate>>,
         Waiting \subseteq Waiting', debounced.armed => debounced'.armed \/ OfferWaits',
         \/ RestartWaits'
         \/ /\ link' => /\ link \/ (~HaveLocalOffer /\ phase = "joining")
                        /\ Sent \subseteq Sent'
            /\ phase' = "joining" /\ pendingInitialOffer # NoOffer /\ InitialOfferMade' =>
                 phase = "joining" /\ Sent \subseteq Sent'
            /\ InitialOfferMade' => InitialOfferMade
  PROVE  DueInv'
  <1>1. HaveLocalOffer' <=> HaveLocalOffer
    BY DEF HaveLocalOffer
  <1>2. /\ Under({"rollback"})' <=> Under({"rollback"})
        /\ Under({"setAnswer"})' <=> Under({"setAnswer"})
        /\ Under({"createOffer"})' <=> Under({"createOffer"})
        /\ Under({"setInitial", "createOffer", "setLocal"})'
             <=> Under({"setInitial", "createOffer", "setLocal"})
    BY DEF Under
  <1>3. ChangesAreDue'
    BY <1>2 DEF DueInv, ChangesAreDue, OfferIsDue, OfferWaits, Described
  <1> QED
    BY <1>3, <1>1, <1>2 DEF DueInv, RenegotiateIsDue, AwaitsPeer, AnswerIsDue, RestartWaits

LEMMA DueQuietSteps ==
  ASSUME NegotiationInv, ExchangeInv, DueInv, Undisturbed, Undisturbed',
         \/ \E r \in Requests : Negotiate(r)
         \/ EnsureNegotiates \/ DebounceFires \/ ServerAnswers \/ LinkLost \/ Resume
         \/ Joined \/ JoinRetry
  PROVE  DueInv'
  <1>1. /\ server \in Seq(Offers) /\ toClient \in Seq(Offers) /\ SentOnce
        /\ lockQueue \in Seq(Tasks) /\ (entered => lockQueue # <<>>)
        /\ debounced \in [armed : BOOLEAN, onError : Requests \cup {Nobody}]
        /\ UNCHANGED wire => Sent' = Sent
    BY SentMoves DEF NegotiationInv, NegotiationTypeOK, ExchangeInv, ChainShape
  <1>2. ASSUME UNCHANGED <<phase, link, wire, localOffer, chain, lock, latestOfferId,
                           pendingInitialOffer, applied, renegotiate>>,
               debounced'.armed
        PROVE  DueInv'
    <2>1. HaveLocalOffer' <=> HaveLocalOffer
      BY <1>2 DEF HaveLocalOffer
    <2>2. /\ Under({"rollback"})' <=> Under({"rollback"})
          /\ Under({"setAnswer"})' <=> Under({"setAnswer"})
          /\ Under({"setInitial", "createOffer", "setLocal"})'
               <=> Under({"setInitial", "createOffer", "setLocal"})
      BY <1>2 DEF Under
    <2>3. RenegotiateIsDue'
      BY <1>2, <2>1, <2>2 DEF DueInv, RenegotiateIsDue, AwaitsPeer
    <2>4. ChangesAreDue'
      BY <1>2 DEF ChangesAreDue, OfferIsDue
    <2> QED
      BY <2>3, <2>4, <1>2, <2>1, <2>2, <1>1
        DEF DueInv, AnswerIsDue, RestartWaits, Waiting, InitialOfferMade, lock
  <1>3. CASE EnsureNegotiates
    BY <1>2, <1>3 DEF EnsureNegotiates, CallDebounced, ids
  <1>4. CASE DebounceFires
    <2> DEFINE t == Task("negotiate", debounced.onError)
    <2>1. t \in Tasks /\ t.kind = "negotiate"
      BY <1>1, TaskType DEF Kinds, Task
    <2>2. /\ lockQueue' = Append(lockQueue, t) /\ UNCHANGED <<entered, wire, link, phase>>
          /\ UNCHANGED <<localOffer, pendingInitialOffer, latestOfferId, chain, applied,
                         renegotiate, session, req>>
          /\ entered' = entered
      BY <1>4 DEF DebounceFires, ids
    <2> HIDE DEF t
    <2> QED
      BY <2>2, DueIdle, <1>1, <2>1, SameChanges, QueueMoves DEF OfferWaits
  <1>5. CASE Resume
    <2> DEFINE t == Task("iceRestart", Nobody)
    <2>1. t \in Tasks /\ t.kind = "iceRestart"
      BY TaskType DEF Kinds, Task
    <2>2. /\ lockQueue' = Append(lockQueue, t) /\ entered' = entered
          /\ UNCHANGED <<localOffer, pendingInitialOffer, latestOfferId, chain, applied,
                         renegotiate, session, req, debounced>>
      BY <1>5 DEF Resume, ids
    <2> HIDE DEF t
    <2> QED
      BY <2>2, DueIdle, <2>1, SameChanges, <1>1, QueueMoves DEF RestartWaits
  <1>6. CASE ServerAnswers \/ LinkLost \/ Joined
    BY <1>6, SameChanges, <1>1, AnswerMoves, DueIdle
      DEF ServerAnswers, LinkLost, Joined, transportVars, Waiting, InitialOfferMade, ExchangeInv, JoinIsBare,
          Unjoined
  <1>7. CASE JoinRetry
    <2> DEFINE t == Task("initial", Nobody)
    <2>1. t \in Tasks /\ t.kind = "initial"
      BY TaskType DEF Kinds, Task
    <2>2. /\ lockQueue' = Append(lockQueue, t) /\ entered' = entered
          /\ UNCHANGED <<localOffer, pendingInitialOffer, latestOfferId, chain, applied,
                         renegotiate, session, req, debounced>>
          /\ link' = link /\ phase = "joining"
      BY <1>7 DEF JoinRetry, ids
    <2> HIDE DEF t
    <2> QED
      BY <2>2, DueIdle, SameChanges, <1>1, <2>1, QueueMoves DEF ExchangeInv, JoinIsBare, Unjoined
  <1> QED
    BY <1>3, <1>4, <1>5, <1>6, <1>7, <1>2
      DEF Called, Checkpoint, NegotiationInv, Acknowledged, NegotiationTypeOK, Negotiate, CallDebounced, ids

\* An operation that arrives disturbs none that are there.
LEMMA StillUnder ==
  ASSUME chain \in Seq(Operation), NEW x, chain' = Append(chain, x)
  PROVE  /\ \A kinds : Under(kinds) => Under(kinds)'
         /\ \A kinds : x.op \in kinds => Under(kinds)'
         /\ \A r : Described(r) /\ UNCHANGED <<applied, localOffer, pendingInitialOffer>>
              => Described(r)'
         /\ \A r : x.op \in {"setLocal", "setInitial"} /\ r \in x.offer.has => Described(r)'
  BY DEF Under, Described

LEMMA EnterDue ==
  ASSUME NegotiationInv, ExchangeInv, DueInv, Undisturbed, Enter, ~ResumeFails
  PROVE  DueInv'
  <1>1. /\ ~entered /\ lockQueue # <<>> /\ lockQueue \in Seq(Tasks) /\ entered \in BOOLEAN
        /\ chain \in Seq(Operation) /\ 1 \in DOMAIN lockQueue /\ Holder = lockQueue[1]
        /\ UNCHANGED <<phase, link, wire, localOffer, pendingInitialOffer, applied,
                       session, req, debounced>>
    BY DEF Enter, LockSettled, NegotiationInv, NegotiationTypeOK, Holder
  <1>2. /\ Changes' = Changes /\ (HaveLocalOffer' <=> HaveLocalOffer)
        /\ (AwaitsPeer' <=> AwaitsPeer)
    BY <1>1, SameChanges DEF HaveLocalOffer, AwaitsPeer
  <1>3. Holder.kind = "initial" => ~InitialOfferMade /\ ~HaveLocalOffer
    BY <1>1 DEF InitialOfferMade, ExchangeInv, JoinIsBare, Unjoined
  <1>4. CASE MayOffer /\ BeginOffer /\ entered' = TRUE /\ UNCHANGED <<lockQueue, renegotiate>>
    <2> DEFINE x == Op("createOffer", [id |-> latestOfferId + 1, has |-> {}], NoOffer)
    <2> HIDE DEF x
    <2>1. AnswerIsDue'
      BY <1>1, <1>2, <1>3, <1>4 DEF AnswerIsDue, InitialOfferMade, MayOffer, AwaitsPeer
    <2> QED
      BY <2>1, <1>1, StillUnder, <1>4, OpFields
        DEF DueInv, RenegotiateIsDue, ChangesAreDue, OfferIsDue, BeginOffer
  <1>5. CASE /\ ~MayOffer /\ Holder.kind = "iceRestart"
             /\ chain' = Append(chain, Op("rollback", NoOffer, NoOffer))
             /\ entered' = TRUE /\ UNCHANGED <<lockQueue, latestOfferId, renegotiate>>
    <2> DEFINE x == Op("rollback", NoOffer, NoOffer)
    <2> HIDE DEF x
    <2>1. /\ Under({"rollback"})'
          /\ Under({"setInitial", "createOffer", "setLocal"})
               => Under({"setInitial", "createOffer", "setLocal"})'
          /\ Under({"createOffer"}) => Under({"createOffer"})'
          /\ \A r : Described(r) => Described(r)'
      BY <1>1, StillUnder, <1>5, OpFields
    <2>2. ChangesAreDue'
      BY <1>2, <2>1, <1>1, <1>5, BeginMoves DEF DueInv, ChangesAreDue, OfferIsDue, OfferWaits
    <2> QED
      BY <2>2, <2>1, <1>2, <1>5 DEF DueInv, AnswerIsDue, RestartWaits, MayOffer, RenegotiateIsDue
  <1>6. CASE /\ ~MayOffer /\ Holder.kind # "iceRestart"
             /\ renegotiate' = (renegotiate \/ Holder.kind # "initial")
             /\ Unlock /\ UNCHANGED <<chain, latestOfferId>>
    BY <1>3, <1>6, <1>1, UnlockMoves, <1>2, SentMoves, ExchangeTypes
      DEF MayOffer, Under, RestartWaits, DueInv, AnswerIsDue, ExchangeInv, RenegotiateIsDue, ChangesAreDue,
          OfferIsDue
  <1> QED
    BY <1>4, <1>5, <1>6 DEF Enter

LEMMA CreateOfferDue ==
  ASSUME NegotiationInv, ExchangeInv, DueInv, Undisturbed, CreateOffer
  PROVE  DueInv'
  <1> DEFINE offer == [Head(chain).offer EXCEPT !.has = Changes]
             x == Op("setLocal", offer, NoOffer)
  <1>1. /\ chain # <<>> /\ Head(chain).op = "createOffer"
        /\ UNCHANGED <<phase, link, toClient, localOffer, latestOfferId, applied,
                       session, req, debounced, renegotiate>>
    BY DEF CreateOffer, ids
  <1>2. /\ Head(chain) = chain[1] /\ 1 \in DOMAIN chain /\ Len(chain) \in 1..2
        /\ chain[1] \in Operation /\ chain[1].offer.id = latestOfferId
        /\ Len(chain) = 2 => 2 \in DOMAIN chain /\ chain[2].op \notin LockOps
        /\ entered /\ lockQueue # <<>>
        /\ Unjoined => Holder.kind = "initial"
        /\ ~Unjoined => pendingInitialOffer = NoOffer
    BY <1>1, HolderFirst DEF LockOps
  <1>3. /\ latestOfferId \in Nat /\ chain \in Seq(Operation) /\ lockQueue \in Seq(Tasks)
        /\ chain[1].offer \in Offers /\ NoOffer.id = 0
        /\ \A o \in Offers : o.id \in Nat
        /\ Sent \subseteq Offers /\ localOffer \in Offers /\ DOMAIN chain = 1..Len(chain)
        /\ server \in Seq(Offers) /\ toClient \in Seq(Offers)
    BY <1>2, ExchangeTypes
  <1>4. offer \in Offers /\ offer.id = latestOfferId /\ offer.has = Changes
    BY <1>2, <1>3, ChangesType DEF Offers
  <1>5. \/ /\ Holder.kind = "initial" /\ pendingInitialOffer' = offer
           /\ server' = Append(server, offer) /\ chain' = Tail(chain)
        \/ /\ Holder.kind # "initial" /\ latestOfferId > offer.id
        \/ /\ Holder.kind # "initial" /\ chain' = Append(Tail(chain), x)
           /\ UNCHANGED <<lockQueue, entered, pendingInitialOffer, server>>
    BY DEF CreateOffer, OfferCreated, lock
  <1>6. x \in Operation /\ x.op = "setLocal" /\ x.offer = offer
    BY <1>3, <1>4, ExchangeTypes, OpType, OpFields DEF Ops
  <1>7. Changes' = Changes /\ (HaveLocalOffer' <=> HaveLocalOffer)
    BY <1>1, SameChanges DEF HaveLocalOffer
  <1> HIDE DEF offer, x
  <1>8. /\ \A o \in Sent : o.id < latestOfferId
        /\ localOffer.id < latestOfferId
    BY <1>1, <1>2 DEF ExchangeInv, OfferIsNew, Older, Under
  <1>9. CASE /\ Holder.kind = "initial" /\ pendingInitialOffer' = offer
             /\ server' = Append(server, offer) /\ chain' = Tail(chain)
    <2>1. ~HaveLocalOffer /\ offer # NoOffer
      BY <1>3, <1>4, <1>8, <1>2, <1>9 DEF ExchangeInv, JoinIsBare, Unjoined, InitialOfferMade, Holder
    <2>2. AnswerIsDue'
      BY <1>1, <1>4, <1>7, <1>9, <2>1, <1>3, <1>8, SendMoves DEF AnswerIsDue, ExchangeInv
    <2> QED
      BY <2>2, <1>9, <2>1, <1>4, <1>7 DEF DueInv, RenegotiateIsDue, AwaitsPeer, ChangesAreDue, Described
  <1>10. CASE /\ Holder.kind # "initial" /\ chain' = Append(Tail(chain), x)
              /\ UNCHANGED <<lockQueue, entered, pendingInitialOffer, server>>
    <2>1. Sent' = Sent /\ Waiting' = Waiting
      BY <1>1, <1>3, <1>10, SentMoves DEF wire, ExchangeInv, Waiting
    <2>2. /\ DOMAIN chain' = 1..Len(chain') /\ Len(chain') = Len(chain)
          /\ chain'[Len(chain)] = x /\ (Len(chain) = 2 => chain'[1] = chain[2])
      BY <1>1, <1>2, <1>3, <1>6, <1>10, TransportReplaced
    <2>3. Len(chain) \in DOMAIN chain' /\ (Len(chain) = 2 => 1 \in DOMAIN chain')
      BY <1>2, <2>2
    <2>4. /\ Under({"setInitial", "createOffer", "setLocal"})'
          /\ Under({"setAnswer"}) => Under({"setAnswer"})'
          /\ ~Under({"rollback"})
      <3>1. \A i \in DOMAIN chain : i = 1 \/ (i = 2 /\ Len(chain) = 2)
        BY <1>2, <1>3
      <3>2. Under({"setInitial", "createOffer", "setLocal"})'
        BY <1>6, <2>2, <2>3 DEF Under
      <3>3. Under({"setAnswer"}) => Under({"setAnswer"})'
        BY <2>2, <2>3, <1>1, <1>2, <3>1 DEF Under
      <3> QED
        BY <3>2, <3>3, <1>1, <1>2, <3>1 DEF Under, LockOps
    <2>5. AnswerIsDue'
      BY <1>1, <1>7, <1>10, <2>1, <2>4, <1>2 DEF DueInv, AnswerIsDue, RestartWaits
    <2> QED
      BY <2>5, <2>4, <1>4, <1>6, <1>7, <2>2, <2>3 DEF DueInv, RenegotiateIsDue, ChangesAreDue, Described
  <1> QED
    BY <1>3, <1>4, <1>5, <1>9, <1>10

LEMMA SetLocalDue ==
  ASSUME NegotiationInv, ExchangeInv, DueInv, Undisturbed, SetLocal
  PROVE  DueInv'
  <1>1. /\ chain # <<>> /\ Head(chain).op = "setLocal" /\ chain' = Tail(chain) /\ Unlock
        /\ localOffer' = Head(chain).offer
        /\ SendOffer([Head(chain).offer EXCEPT !.id = latestOfferId])
        /\ UNCHANGED <<phase, link, toClient, latestOfferId, pendingInitialOffer,
                       applied, renegotiate, debounced, session, req>>
    BY DEF SetLocal, ids
  <1>2. /\ Head(chain) = chain[1] /\ 1 \in DOMAIN chain /\ Len(chain) \in 1..2
        /\ chain[1] \in Operation /\ chain[1].offer.id = latestOfferId
        /\ entered /\ lockQueue # <<>>
        /\ ~Unjoined /\ pendingInitialOffer = NoOffer
    BY <1>1, HolderFirst DEF LockOps
  <1>3. /\ latestOfferId \in Nat /\ chain \in Seq(Operation) /\ lockQueue \in Seq(Tasks)
        /\ chain[1].offer \in Offers /\ NoOffer.id = 0 /\ DOMAIN chain = 1..Len(chain)
        /\ \A o \in Offers : o.id \in Nat
        /\ Sent \subseteq Offers /\ localOffer \in Offers
        /\ server \in Seq(Offers) /\ toClient \in Seq(Offers) /\ entered \in BOOLEAN
    BY <1>2, ExchangeTypes
  <1>4. \A i \in DOMAIN chain : i = 1
    BY <1>1, <1>2, <1>3 DEF ExchangeInv, AnswerIsAhead
  <1> DEFINE offer == chain[1].offer
  <1>5. localOffer' = offer /\ server' = (IF link THEN Append(server, offer) ELSE server)
    BY <1>1, <1>2, <1>3 DEF SendOffer, Offers
  <1>6. (\A o \in Sent : o.id < latestOfferId) /\ localOffer.id < latestOfferId
        /\ (HaveLocalOffer => Under({"setAnswer"}))
    BY <1>1, <1>2 DEF ExchangeInv, OfferIsNew, Older, Under
  <1>7. offer \in Offers /\ offer.id = latestOfferId /\ offer # NoOffer
    BY <1>2, <1>3, <1>6
  <1> HIDE DEF offer
  <1>8. AnswerIsDue'
    BY <1>1, <1>2, <1>5, <1>7, <1>3, <1>6, SendMoves DEF AnswerIsDue, ExchangeInv
  <1>9. Changes' = Changes /\ Waiting' = Waiting
    BY <1>1, <1>2, <1>3, SameChanges, UnlockMoves
  <1>10. \A r : Described(r) => Described(r)'
    BY <1>1, <1>2, <1>4, <1>5, <1>6 DEF Described, NoOffer, offer, Under, HaveLocalOffer
  <1>11. ChangesAreDue'
    BY <1>9, <1>10, <1>1, <1>2, <1>4 DEF DueInv, ChangesAreDue, OfferIsDue, OfferWaits, Under
  <1> QED
    BY <1>8, <1>11, <1>5, <1>7 DEF DueInv, RenegotiateIsDue, AwaitsPeer, HaveLocalOffer

LEMMA RollbackDue ==
  ASSUME NegotiationInv, ExchangeInv, DueInv, Undisturbed, Rollback, ~ResumeFails
  PROVE  DueInv'
  <1> DEFINE x == Op("createOffer", [id |-> latestOfferId + 1, has |-> {}], NoOffer)
  <1>1. /\ chain # <<>> /\ Head(chain).op = "rollback"
        /\ localOffer' = NoOffer /\ chain' = Append(Tail(chain), x)
        /\ UNCHANGED <<pendingInitialOffer>>
    BY DEF Rollback
  <1>2. x.op = "createOffer"
    BY OpFields
  <1> HIDE DEF x
  <1>3. \E i \in DOMAIN chain' : chain'[i].op = "createOffer"
    BY <1>1, ExchangeTypes, <1>2
  <1> QED
    BY <1>1, HolderFirst, <1>3
      DEF DueInv, AnswerIsDue, HaveLocalOffer, RenegotiateIsDue, ChangesAreDue, OfferIsDue, LockOps, Under

LEMMA SetInitialDue ==
  ASSUME NegotiationInv, ExchangeInv, DueInv, Undisturbed, SetInitial
  PROVE  DueInv'
  <1> DEFINE x == Op("setAnswer", NoOffer, Head(chain).answer)
  <1>1. /\ chain # <<>> /\ Head(chain).op = "setInitial"
        /\ localOffer' = Head(chain).offer /\ chain' = Append(Tail(chain), x)
        /\ UNCHANGED <<lockQueue, entered, pendingInitialOffer,
                       applied, renegotiate, debounced, session, req>>
    BY DEF SetInitial, lock, ids
  <1>2. /\ Head(chain) = chain[1] /\ 1 \in DOMAIN chain /\ Len(chain) \in 1..2
        /\ chain[1].answer \in Offers /\ chain[1].answer.id \in 1..latestOfferId
        /\ ~HaveLocalOffer /\ chain[1].offer = chain[1].answer
        /\ Len(chain) = 2 => chain[2].op = "createOffer"
        /\ pendingInitialOffer = NoOffer /\ latestOfferId \in Nat
    BY <1>1, AnswerFirst DEF LockOps
  <1>3. /\ chain \in Seq(Operation) /\ Len(chain) <= 2 /\ DOMAIN chain = 1..Len(chain)
        /\ NoOffer.id = 0 /\ NoOffer \in Offers
    BY ExchangeTypes
  <1>4. x \in Operation /\ x.op = "setAnswer"
    BY <1>2, <1>3, <1>1, OpType, OpFields DEF Ops
  <1> HIDE DEF x
  <1>5. /\ DOMAIN chain' = 1..Len(chain') /\ Len(chain') = Len(chain)
        /\ chain'[Len(chain)] = x /\ (Len(chain) = 2 => chain'[1] = chain[2])
    BY <1>1, <1>3, <1>4, TransportReplaced
  <1>6. Len(chain) \in DOMAIN chain' /\ (Len(chain) = 2 => 1 \in DOMAIN chain')
    BY <1>2, <1>5
  <1>7. \A i \in DOMAIN chain : i = 1 \/ (i = 2 /\ Len(chain) = 2)
    BY <1>2, <1>3
  <1>8. AnswerIsDue' /\ RenegotiateIsDue'
    BY <1>1, <1>2, <1>3, <1>4, <1>5, <1>6 DEF AnswerIsDue, RenegotiateIsDue, AwaitsPeer, HaveLocalOffer, Under
  <1>9. Changes' = Changes /\ Waiting' = Waiting
    BY <1>1, SameChanges DEF Waiting
  <1>10. OfferIsDue => OfferIsDue'
    BY <1>1, <1>9, <1>2, <1>7, <1>5, <1>6 DEF OfferIsDue, OfferWaits, Under
  <1> QED
    BY <1>8, <1>9, <1>10, <1>1, <1>2, <1>7 DEF DueInv, ChangesAreDue, Described, HaveLocalOffer, NoOffer

LEMMA SetAnswerDue ==
  ASSUME NegotiationInv, ExchangeInv, DueInv, Undisturbed, SetAnswer
  PROVE  DueInv'
  <1>1. /\ chain # <<>> /\ Head(chain).op = "setAnswer"
        /\ UNCHANGED <<entered, pendingInitialOffer, debounced, session>>
    BY DEF SetAnswer
  <1>2. /\ Head(chain) = chain[1] /\ 1 \in DOMAIN chain /\ Len(chain) \in 1..2
        /\ chain[1] \in Operation
        /\ HaveLocalOffer => localOffer = chain[1].answer
        /\ pendingInitialOffer = NoOffer
    BY <1>1, AnswerFirst DEF LockOps
  <1>3. /\ chain \in Seq(Operation) /\ Len(chain) <= 2 /\ DOMAIN chain = 1..Len(chain)
        /\ lockQueue \in Seq(Tasks) /\ (entered => lockQueue # <<>>)
        /\ entered \in BOOLEAN
    BY ExchangeTypes DEF ExchangeInv, ChainShape
  <1>4. \A i \in DOMAIN chain : i = 1 \/ (i = 2 /\ Len(chain) = 2)
    BY <1>2, <1>3
  <1>5. AnswerIsDue'
    BY <1>1, <1>2 DEF AnswerIsDue, SetAnswer, HaveLocalOffer
  <1>6. Changes' = Changes
    <2>1. UNCHANGED req \/ Resolve(Head(chain).answer.id)
      BY DEF SetAnswer
    <2> QED
      BY <1>1, <2>1 DEF Changes, Resolve, NegotiationInv, NegotiationTypeOK
  <1>7. Len(chain) = 2 => 1 \in DOMAIN chain' /\ chain'[1] = chain[2]
    <2>1. CASE chain' = Tail(chain)
      <3>1. /\ DOMAIN chain' = 1..Len(chain') /\ Len(chain') = Len(chain) - 1
            /\ Len(chain) = 2 => chain'[1] = chain[2]
        BY <1>1, <1>3, <2>1, IsOver
      <3> QED
        BY <3>1
    <2> QED
      BY <2>1, <1>2, <1>1, <1>3, TransportReplaced DEF SetAnswer, Operation
  <1>8. /\ Under({"createOffer"}) => Under({"createOffer"})'
        /\ Under({"setInitial", "createOffer", "setLocal"})
             => Under({"setInitial", "createOffer", "setLocal"})'
    BY <1>1, <1>2, <1>4, <1>7 DEF Under
  <1>9. ASSUME NEW r, NEW i \in DOMAIN chain,
               chain[i].op \in {"setLocal", "setInitial"}, r \in chain[i].offer.has
        PROVE  Described(r)'
    BY <1>1, <1>2, <1>4, <1>9, <1>7 DEF Described
  <1>10. CASE /\ HaveLocalOffer /\ Renegotiate
              /\ applied' = applied \cup {[offer |-> localOffer, answer |-> Head(chain).answer]}
    <2>1. \A r : Described(r) => Described(r)'
      <3>1. ASSUME NEW r, r \in localOffer.has
            PROVE  \E a \in applied' : r \in a.answer.has
        <4>1. [offer |-> localOffer, answer |-> Head(chain).answer] \in applied'
          BY <1>10
        <4>2. r \in Head(chain).answer.has
          BY <1>2, <1>10, <3>1
        <4> QED
          BY <4>1, <4>2
      <3>2. \A r : (\E a \in applied : r \in a.answer.has)
              => (\E a \in applied' : r \in a.answer.has)
        BY <1>10
      <3> QED
        BY <1>9, <3>1, <3>2, <1>2 DEF Described, NoOffer
    <2>2. Waiting \subseteq Waiting' /\ (renegotiate => OfferWaits') /\ ~renegotiate'
      <3>1. CASE renegotiate
        <4> DEFINE t == Task("renegotiate", Nobody)
        <4>1. t \in Tasks /\ t.kind = "renegotiate"
          BY TaskType DEF Kinds, Task
        <4>2. lockQueue' = Append(lockQueue, t) /\ entered' = entered /\ ~renegotiate'
          BY <1>1, <1>10, <3>1 DEF Renegotiate
        <4> HIDE DEF t
        <4> QED
          BY <4>1, <4>2, <1>3, QueueMoves DEF OfferWaits
      <3> QED
        BY <3>1, <1>1, <1>10 DEF Renegotiate, Waiting
    <2> QED
      BY <1>5, <2>2, <1>6, <2>1, <1>1, <1>8 DEF DueInv, RenegotiateIsDue, ChangesAreDue, OfferIsDue, OfferWaits
  <1>11. CASE ~HaveLocalOffer /\ UNCHANGED <<applied, localOffer, renegotiate, lockQueue>>
    <2>1. \A r : Described(r) => Described(r)'
      BY <1>9, <1>2, <1>11 DEF Described, NoOffer, HaveLocalOffer
    <2>2. ChangesAreDue'
      BY <1>6, <2>1, <1>1, <1>8, <1>11 DEF DueInv, ChangesAreDue, OfferIsDue, OfferWaits, Waiting
    <2> QED
      BY <1>5, <2>2, <1>8, <1>11, <1>2 DEF DueInv, RenegotiateIsDue, AwaitsPeer
  <1> QED
    BY <1>10, <1>11 DEF SetAnswer

LEMMA ReceiveDue ==
  ASSUME NegotiationInv, ExchangeInv, DueInv, Undisturbed, ReceiveAnswer
  PROVE  DueInv'
  <1> DEFINE h == Head(toClient)
  <1>1. /\ toClient # <<>> /\ toClient' = Tail(toClient)
        /\ UNCHANGED <<phase, link, server, localOffer, lockQueue, entered,
                       latestOfferId, renegotiate, debounced, applied, session, req>>
    BY DEF ReceiveAnswer, lock, ids
  <1>2. /\ latestOfferId \in Nat /\ chain \in Seq(Operation)
        /\ Sent \subseteq Offers /\ \A o \in Offers : o.id \in Nat
        /\ server \in Seq(Offers) /\ toClient \in Seq(Offers) /\ NoOffer.id = 0
    BY ExchangeTypes
  <1>3. Sent' = Sent \ {h} /\ h \in Sent
    BY <1>1, <1>2, ReceiveMoves DEF ExchangeInv
  <1> HIDE DEF h
  <1>4. /\ Changes' = Changes /\ Waiting' = Waiting /\ (HaveLocalOffer' <=> HaveLocalOffer)
        /\ InitialOfferMade' <=> InitialOfferMade
    BY <1>1, SameChanges DEF Waiting, HaveLocalOffer, InitialOfferMade
  <1>5. CASE IsStale(h) /\ UNCHANGED <<chain, pendingInitialOffer>>
    <2>1. \A o : o \in Sent /\ o.id = latestOfferId => o \in Sent'
      BY <1>3, <1>5 DEF IsStale
    <2>2. /\ Under({"rollback"})' <=> Under({"rollback"})
          /\ Under({"setAnswer"})' <=> Under({"setAnswer"})
          /\ Under({"createOffer"})' <=> Under({"createOffer"})
          /\ Under({"setInitial", "createOffer", "setLocal"})'
               <=> Under({"setInitial", "createOffer", "setLocal"})
      BY <1>5 DEF Under
    <2>3. ChangesAreDue'
      BY <1>4, <1>1, <2>2, <1>5 DEF DueInv, ChangesAreDue, OfferIsDue, OfferWaits, Described
    <2> QED
      BY <2>3, <1>1, <1>4, <1>5, <2>2, <2>1 DEF DueInv, RenegotiateIsDue, AwaitsPeer, AnswerIsDue, RestartWaits
  <1>6. CASE /\ pendingInitialOffer # NoOffer /\ pendingInitialOffer' = NoOffer
             /\ chain' = Append(chain, Op("setInitial", pendingInitialOffer, h))
    <2> DEFINE x == Op("setInitial", pendingInitialOffer, h)
    <2>1. chain' = Append(chain, x) /\ x.op = "setInitial" /\ x.offer = pendingInitialOffer
      BY <1>6, OpFields
    <2> HIDE DEF x
    <2>2. /\ Under({"setInitial", "createOffer", "setLocal"})'
          /\ Under({"createOffer"}) => Under({"createOffer"})'
      BY <1>2, <2>1, StillUnder
    <2>3. ASSUME NEW r, Described(r)
          PROVE  Described(r)'
      <3>1. CASE r \notin pendingInitialOffer.has
        <4>1. \A i \in DOMAIN chain : i \in DOMAIN chain' /\ chain'[i] = chain[i]
          BY <1>2, <2>1
        <4> QED
          BY <1>1, <2>3, <3>1, <4>1 DEF Described
      <3> QED
        BY <3>1, <1>2, <2>1, StillUnder
    <2>4. ChangesAreDue'
      BY <1>4, <2>3, <1>1, <2>2 DEF DueInv, ChangesAreDue, OfferIsDue, OfferWaits
    <2> QED
      BY <2>4, <1>4, <1>6, <2>2 DEF DueInv, AnswerIsDue, RenegotiateIsDue, ExchangeInv, InitialIsFirst
  <1>7. CASE /\ pendingInitialOffer = NoOffer /\ UNCHANGED pendingInitialOffer
             /\ chain' = Append(chain, Op("setAnswer", NoOffer, h))
    <2> DEFINE x == Op("setAnswer", NoOffer, h)
    <2>1. chain' = Append(chain, x) /\ x.op = "setAnswer"
      BY <1>7, OpFields
    <2> HIDE DEF x
    <2>2. /\ Under({"setInitial", "createOffer", "setLocal"})
               => Under({"setInitial", "createOffer", "setLocal"})'
          /\ Under({"createOffer"}) => Under({"createOffer"})'
          /\ Under({"setAnswer"})'
      BY <1>2, <2>1, StillUnder
    <2>3. ChangesAreDue'
      BY <1>4, <1>1, <1>2, <1>7, <2>1, StillUnder, <2>2 DEF DueInv, ChangesAreDue, OfferIsDue, OfferWaits
    <2> QED
      BY <2>3, <1>7, <2>2, <1>1, <1>4 DEF DueInv, AnswerIsDue, RenegotiateIsDue, AwaitsPeer
  <1> QED
    BY <1>5, <1>6, <1>7 DEF ReceiveAnswer, h

LEMMA DueSteps ==
  ASSUME NegotiationInv, ExchangeInv, DueInv, [NegotiationNext]_negotiationVars
  PROVE  DueInv'
  <1>1. CASE Configure
    <2>1. /\ localOffer' = NoOffer /\ pendingInitialOffer' = NoOffer
          /\ renegotiate' = FALSE /\ session' = session + 1 /\ req' = req
      BY <1>1 DEF Configure, FreshTransport
    <2> QED
      BY <2>1
        DEF DueInv, AnswerIsDue, HaveLocalOffer, RenegotiateIsDue, ChangesAreDue, NegotiationInv,
            OldSessions, NegotiationTypeOK, Changes
  <1>2. CASE ~Configure /\ Undisturbed'
    <2>1. /\ Undisturbed /\ ~Teardown /\ ~SetLocalRefused /\ ~RestartAsked /\ ~RestartForced
          /\ \A r \in Requests : ~NegotiateRejected(r) /\ ~Deadline(r)
          /\ ~ResumeFails
      BY <1>2, StillUndisturbed
    <2>2. CASE Enter \/ CreateOffer \/ SetLocal \/ Rollback
      BY <2>1, <2>2, EnterDue, CreateOfferDue, SetLocalDue, RollbackDue
    <2>3. CASE SetInitial \/ SetAnswer \/ ReceiveAnswer
      BY <2>1, <2>3, SetInitialDue, SetAnswerDue, ReceiveDue
    <2> QED
      BY <1>2, <2>1, <2>2, <2>3, DueQuietSteps, SameChanges, DueIdle
        DEF NegotiationNext, Work, negotiationVars, transportVars, wire, Waiting, Sent, InitialOfferMade
  <1> QED
    BY <1>1, <1>2 DEF DueInv, AnswerIsDue, RenegotiateIsDue, ChangesAreDue

LEMMA InitDue == NegotiationInit => DueInv
  BY DEF NegotiationInit, DueInv, AnswerIsDue, HaveLocalOffer, RenegotiateIsDue, ChangesAreDue, Changes

\* When all has come to rest, nothing that is due can still be on its way.
LEMMA RestIsNegotiated ==
  ASSUME NegotiationInv, ExchangeInv, DueInv
  PROVE  QuietIsNegotiated
  <1> SUFFICES ASSUME Quiet, ~refused
               PROVE  /\ ~AwaitsPeer /\ ~renegotiate
                      /\ \A r \in Changes : \E a \in applied : r \in a.answer.has
    BY DEF QuietIsNegotiated
  <1>1. /\ Undisturbed /\ link
        /\ DOMAIN lockQueue = {} /\ DOMAIN chain = {}
        /\ DOMAIN server = {} /\ DOMAIN toClient = {} /\ ~debounced.armed
    BY EmptySeq DEF Quiet, Undisturbed
  <1>2. Sent = {} /\ Waiting = {} /\ InitialOfferMade
    BY <1>1 DEF Sent, Waiting, InitialOfferMade
  <1>3. /\ ~Under({"rollback"}) /\ ~Under({"setAnswer"}) /\ ~Under({"createOffer"})
        /\ ~Under({"setInitial", "createOffer", "setLocal"})
    BY <1>1 DEF Under
  <1>4. ~AwaitsPeer
    BY <1>1, <1>2, <1>3 DEF DueInv, AnswerIsDue, RestartWaits, AwaitsPeer
  <1>5. ~renegotiate
    BY <1>1, <1>3, <1>4 DEF DueInv, RenegotiateIsDue
  <1> QED
    BY <1>4, <1>5, <1>1, <1>2, <1>3
      DEF DueInv, ChangesAreDue, OfferIsDue, OfferWaits, AwaitsPeer, HaveLocalOffer, NoOffer, Described

\* createAndSendOffer's renegotiate flag, the debounced negotiate and the ICE restart of a
\* resume: once nothing is under way, every change of the session has been negotiated and
\* nothing waits for a peer that will not answer, and answers met their offers.
THEOREM ChangesNegotiated == NegotiationSpec => []ChangesAreNegotiated
  <1>1. NegotiationInit => NegotiationInv /\ ExchangeInv /\ AnswersMeetTheirOffers /\ DueInv
    BY InitInv, InitExchange, InitDue DEF NegotiationInit, AnswersMeetTheirOffers
  <1>2. NegotiationInv /\ ExchangeInv /\ AnswersMeetTheirOffers /\ DueInv /\ [NegotiationNext]_negotiationVars
          => (NegotiationInv /\ ExchangeInv /\ AnswersMeetTheirOffers /\ DueInv)'
    BY InvSteps, ExchangeSteps, MeetSteps, DueSteps
  <1>3. NegotiationInv /\ ExchangeInv /\ AnswersMeetTheirOffers /\ DueInv
          => ChangesAreNegotiated
    BY RestIsNegotiated DEF ChangesAreNegotiated
  <1> QED
    BY <1>1, <1>2, <1>3, PTL DEF NegotiationSpec

=============================================================================

---------------------------- MODULE SignalClient ----------------------------
(***************************************************************************)
(* The signal connection: join(), reconnect() and close() of               *)
(* api/SignalClient.ts over the lifecycle of api/SignalClientStateMachine  *)
(* and the sockets of api/WebSocketStream.                                 *)
(*                                                                         *)
(* A call is a coroutine; call[c].pc names the await it is suspended at.   *)
(* The code's callers (RTCEngine) have one join or reconnect pending at a  *)
(* time, and may close at any time. A settled call's body may still run,   *)
(* and still holds connectionLock.                                         *)
(***************************************************************************)
EXTENDS Integers, Sequences, FiniteSets

CONSTANTS
  MaxCalls,  \* bound: join and reconnect calls
  Awaited,   \* close() calls whose caller waits for them (cleanupClient in a restart)
  Final,     \* close() calls of RTCEngine.close
  None       \* "undefined"

Calls == 1..MaxCalls

ASSUME CallsAssumption == MaxCalls \in Nat
ASSUME ClosersAssumption ==
  /\ (Awaited \cup Final) \cap Calls = {}
  /\ Awaited \cap Final = {}
  /\ None \notin Calls \cup Awaited \cup Final

\* A connect timeout or a missing first message makes a call close the client
\* itself, at most once: that close goes by the name of the call.
CloseIds == Awaited \cup Final \cup Calls

VARIABLES
  lc,         \* the machine's current state
  attempt,    \* context.attemptId
  ws,         \* this.ws: the call that created the socket in use, or None
  writer,     \* this.streamWriter: the socket it writes to, or None
  sock,       \* per call: the state of its socket
  sockOwner,  \* per call: the attempt id its socket's events carry
  connQ,      \* connectionLock: holder, then waiters
  closingQ,   \* closingLock: holder, then waiters
  call,       \* join and reconnect calls
  closing,    \* close calls
  ping,       \* the ping interval and timeout are armed
  readers,    \* sockets with a reading loop
  reports,    \* lost sockets whose onClose callback waits for the teardown
  hasOptions, \* this.options has been set
  aborted,    \* history: the owner's AbortSignal has fired
  isClosed    \* the owner's _isClosed: RTCEngine.close() would return at once

ask == <<aborted, isClosed>>

vars == <<lc, attempt, ws, writer, sock, sockOwner, connQ, closingQ, call,
          closing, ping, readers, reports, hasOptions, ask>>

machine   == <<lc, attempt>>
transport == <<ws, writer, sock>>

States == {"new", "connecting", "connected", "offline", "reconnecting",
           "disconnecting", "closed"}

CallRecord(pc, kind, result, timer, abortable) ==
  [pc |-> pc, kind |-> kind, result |-> result, timer |-> timer,
   abortable |-> abortable]

CloseRecord(pc, drives) == [pc |-> pc, drives |-> drives]

-----------------------------------------------------------------------------
(* The lifecycle: where each input leads from state st. *)

Establishing(st) == st \in {"connecting", "reconnecting"}

\* connect and reconnect
CanStart(kind, st) ==
  IF kind = "join" THEN st \in {"new", "offline", "closed"}
                   ELSE st \in {"connected", "offline", "closed"}

Started(kind) == IF kind = "join" THEN "connecting" ELSE "reconnecting"

\* connectComplete and reconnectComplete of attempt id
Established(st, id) ==
  IF Establishing(st) /\ id = attempt THEN "connected" ELSE st

\* Mutant: a failed attempt is not reported to the machine.
FailedUnreported(kind, st, recoverable) == st

\* connectFailed and reconnectFailed
Failed(kind, st, recoverable) ==
  IF st # Started(kind) THEN st
  ELSE IF kind = "reconnect" /\ recoverable THEN "offline" ELSE "closed"

\* Mutant: a late close of a replaced transport counts.
LostAny(st, id) == IF st = "connected" THEN "offline" ELSE st

\* transportFailed of attempt id
Lost(st, id) == IF st = "connected" /\ id = attempt THEN "offline" ELSE st

\* close
CloseRequested(st) ==
  IF st \in {"closed", "disconnecting"} THEN st ELSE "disconnecting"

-----------------------------------------------------------------------------
(* Locks, sockets and settling a call. *)

Holds(q, p) == q # <<>> /\ Head(q) = p

Runnable(p) ==
  \/ p \in Calls /\ call[p].pc = "settle"
  \/ p \in CloseIds /\ closing[p].pc = "lock"

\* Promise continuations run before the next event: no event while the holder of
\* a lock has not yet run.
Drained ==
  /\ connQ # <<>> => call[Head(connQ)].pc # "lock"
  /\ closingQ # <<>> => ~Runnable(Head(closingQ))

\* ws.close(): the handshake starts, the close event comes later.
ClosingSocket(s, c) ==
  IF c = None THEN s
  ELSE [s EXCEPT ![c] = CASE @ = "open" -> "closing"
                          [] @ = "connecting" -> "aborting"
                          [] OTHER -> @]

\* Whether a teardown has something to wait for.
Lingers(s, c) == c # None /\ s[c] # "closed"

\* The part of teardownTransport before its await. The await ends when the socket
\* has closed or MAX_WS_CLOSE_TIME has passed: at any time.
TearDown(s) ==
  /\ sock' = ClosingSocket(s, ws)
  /\ ws' = None
  /\ writer' = None
  /\ ping' = FALSE

SetCall(c, rec) == call' = [call EXCEPT ![c] = rec]

\* Call c's promise settles with result; its body goes on at pc.
Settled(c, pc, result) ==
  LET r == call[c]
  IN  CallRecord(pc, r.kind, IF r.result = "pending" THEN result ELSE r.result,
                 FALSE, r.abortable /\ pc # "done")

\* The lifecycle state once the rejection of call c has reached its caller.
AfterReject(c, st, recoverable) ==
  IF call[c].result = "pending" THEN Failed(call[c].kind, st, recoverable) ELSE st

\* Mutant: the lock is kept when the call was rejected.
FinishLocked(c, result) ==
  /\ SetCall(c, Settled(c, "done", result))
  /\ connQ' = IF result = "rejected" THEN connQ ELSE Tail(connQ)

\* The body of c ends: finally { unlock() }.
Finish(c, result) ==
  /\ SetCall(c, Settled(c, "done", result))
  /\ connQ' = Tail(connQ)

\* handleOnClose for an event of attempt id, with the sockets then in state s: the
\* teardown if that loses the session. The machine moves to Lost(lc, id).
HandleOnClose(s, id) ==
  IF Lost(lc, id) # lc
  THEN /\ TearDown(s)
       /\ reports' = IF Lingers(s, ws) THEN reports \cup {ws} ELSE reports
  ELSE /\ sock' = s
       /\ UNCHANGED <<ws, writer, ping, reports>>

-----------------------------------------------------------------------------
(* join() and reconnect(). *)

Init ==
  /\ lc = "new" /\ attempt = 0
  /\ ws = None /\ writer = None
  /\ sock = [c \in Calls |-> "none"]
  /\ sockOwner = [c \in Calls |-> 0]
  /\ connQ = <<>> /\ closingQ = <<>>
  /\ call = [c \in Calls |-> CallRecord("idle", "join", "none", FALSE, FALSE)]
  /\ closing = [k \in CloseIds |-> CloseRecord("idle", FALSE)]
  /\ ping = FALSE /\ readers = {} /\ reports = {}
  /\ hasOptions = FALSE
  /\ aborted = FALSE /\ isClosed = TRUE

\* From the lifecycle input to connect()'s first await.
Begin(c, kind) ==
  IF CanStart(kind, lc)
  THEN /\ lc' = Started(kind)
       /\ attempt' = attempt + 1
       /\ SetCall(c, CallRecord("lock", kind, "pending", FALSE, FALSE))
       /\ connQ' = Append(connQ, c)
       /\ hasOptions' = TRUE
       /\ ping' = IF kind = "reconnect" THEN FALSE ELSE ping
  ELSE /\ SetCall(c, CallRecord("done", kind, "rejected", FALSE, FALSE))
       /\ UNCHANGED <<lc, attempt, connQ, hasOptions, ping>>

\* The owner calls join() or reconnect(), its previous call having settled. A
\* restart first awaits a close of its own, which queues behind every other one,
\* so the only close that can still be pending is one that moved the lifecycle.
\* An aborted client is not used again; reconnect() returns early without options.
Establish(c, kind) ==
  /\ Drained
  /\ call[c].pc = "idle"
  /\ \A d \in Calls : d < c => call[d].result \in {"resolved", "rejected"}
  /\ \A k \in CloseIds :
       closing[k].pc \in {"lock", "teardown"} => k \notin Awaited /\ closing[k].drives
  /\ ~aborted
  /\ kind = "reconnect" => hasOptions
  /\ UNCHANGED ask
  /\ IF lc = "disconnecting"
     THEN /\ SetCall(c, CallRecord("settle", kind, "pending", FALSE, FALSE))
          /\ closingQ' = Append(closingQ, c)
          /\ UNCHANGED <<machine, connQ, hasOptions, ping>>
     ELSE /\ Begin(c, kind)
          /\ UNCHANGED closingQ
  /\ UNCHANGED <<transport, sockOwner, closing, readers, reports>>

\* settleInFlightClose: the lock is taken and given back.
CloseSettled(c) ==
  /\ Holds(closingQ, c) /\ call[c].pc = "settle"
  /\ closingQ' = Tail(closingQ)
  /\ Begin(c, call[c].kind)
  /\ UNCHANGED <<transport, sockOwner, closing, readers, reports, ask>>

\* Mutant: does not wait for connectionLock.
ConnectionUnlocked(c) ==
  /\ call[c].pc = "lock"
  /\ SetCall(c, [call[c] EXCEPT !.pc = "params"])
  /\ UNCHANGED <<machine, transport, sockOwner, connQ, closingQ, closing, ping,
                 readers, reports, hasOptions, ask>>

\* connectionLock is ours: build the request parameters.
ConnectionLocked(c) ==
  /\ Holds(connQ, c) /\ call[c].pc = "lock"
  /\ SetCall(c, [call[c] EXCEPT !.pc = "params"])
  /\ UNCHANGED <<machine, transport, sockOwner, connQ, closingQ, closing, ping,
                 readers, reports, hasOptions, ask>>

\* A new WebSocketStream, owned by the attempt current now.
OpenSocket(c, timer, abortable) ==
  /\ sockOwner' = [sockOwner EXCEPT ![c] = attempt]
  /\ SetCall(c, CallRecord("opening", call[c].kind, call[c].result, timer, abortable))
  /\ ws' = c
  /\ sock' = [sock EXCEPT ![c] = "connecting"]
  /\ writer' = None
  /\ ping' = FALSE

\* The parameters are ready: the timeout starts, the abort listener is attached,
\* and a transport still in place is torn down first.
ParamsReady(c) ==
  /\ Drained
  /\ call[c].pc = "params"
  /\ IF Lingers(sock, ws)
     THEN /\ TearDown(sock)
          /\ SetCall(c, CallRecord("replace", call[c].kind, call[c].result, TRUE, TRUE))
          /\ UNCHANGED sockOwner
     ELSE OpenSocket(c, TRUE, TRUE)
  /\ UNCHANGED <<machine, connQ, closingQ, closing, readers, reports, hasOptions, ask>>

\* The replaced transport has closed, or the wait for it is over. An abort in the
\* meantime does not stop the body.
Replaced(c) ==
  /\ Drained
  /\ call[c].pc = "replace"
  /\ OpenSocket(c, call[c].timer, call[c].abortable)
  /\ UNCHANGED <<machine, connQ, closingQ, closing, readers, reports, hasOptions, ask>>

-----------------------------------------------------------------------------
(* Socket events. *)

\* ws.opened resolves: the first message is awaited.
SocketOpens(c) ==
  /\ Drained
  /\ sock[c] = "connecting" /\ call[c].pc = "opening"
  /\ sock' = [sock EXCEPT ![c] = "open"]
  /\ writer' = c
  /\ SetCall(c, [call[c] EXCEPT !.pc = "first", !.timer = FALSE])
  /\ UNCHANGED <<machine, ws, sockOwner, connQ, closingQ, closing, ping, readers,
                 reports, hasOptions, ask>>

\* The upgrade fails, or we closed the socket before it opened: ws.opened rejects
\* and stands the close handler's own rejection down. The server is then asked why.
SocketFails(c) ==
  /\ Drained
  /\ sock[c] \in {"connecting", "aborting"} /\ call[c].pc = "opening"
  /\ lc' = Lost(lc, sockOwner[c])
  /\ HandleOnClose([sock EXCEPT ![c] = "closed"], sockOwner[c])
  /\ IF lc # "connected"
     THEN /\ SetCall(c, [call[c] EXCEPT !.pc = "validate", !.timer = FALSE])
          /\ UNCHANGED connQ
     ELSE Finish(c, "rejected")
  /\ UNCHANGED <<attempt, sockOwner, closingQ, closing, readers, hasOptions, ask>>

\* handleConnectionError has an answer, or its fetch failed.
Classified(c, recoverable) ==
  /\ Drained
  /\ call[c].pc = "validate"
  /\ Finish(c, "rejected")
  /\ lc' = AfterReject(c, lc, recoverable)
  /\ UNCHANGED <<attempt, transport, sockOwner, closingQ, closing, ping, readers,
                 reports, hasOptions, ask>>

\* An open socket closes, by itself or because we asked. The close handler reports
\* it; a body that waits for its first message reads the end of the stream.
SocketCloses(c) ==
  /\ Drained
  /\ sock[c] \in {"open", "closing"}
  /\ HandleOnClose([sock EXCEPT ![c] = "closed"], sockOwner[c])
  /\ readers' = readers \ {c}
  /\ lc' = AfterReject(c, Lost(lc, sockOwner[c]), TRUE)
  /\ IF call[c].pc = "first"
     THEN Finish(c, "rejected")
     ELSE UNCHANGED <<call, connQ>>
  /\ UNCHANGED <<attempt, sockOwner, closingQ, closing, hasOptions, ask>>

\* The first message arrives: "session" is the join or reconnect response, "other"
\* is any message but that and a leave. A join that resolves opens the engine.
ValidFirstMessage(c, msg) ==
  \/ call[c].kind = "join" /\ msg = "session"
  \/ lc = "reconnecting" /\ msg # "leave"

FirstMessage(c, msg) ==
  /\ Drained
  /\ sock[c] = "open" /\ call[c].pc = "first"
  /\ IF ValidFirstMessage(c, msg)
     THEN /\ lc' = Established(lc, sockOwner[c])
          /\ IF lc' # lc THEN ping' = TRUE /\ readers' = readers \cup {c}
                         ELSE UNCHANGED <<ping, readers>>
          /\ Finish(c, "resolved")
          /\ isClosed' = (isClosed /\ ~(call[c].kind = "join" /\ call[c].result = "pending"))
     ELSE /\ lc' = AfterReject(c, lc, msg # "leave")
          /\ Finish(c, "rejected")
          /\ UNCHANGED <<ping, readers, isClosed>>
  /\ UNCHANGED <<attempt, transport, sockOwner, closingQ, closing, reports, hasOptions, aborted>>

\* CriticalTimers: no pong in time.
PingTimeout ==
  /\ Drained
  /\ ping
  /\ lc' = Lost(lc, attempt)
  /\ IF lc' # lc THEN HandleOnClose(sock, attempt)
     ELSE ping' = FALSE /\ UNCHANGED <<transport, reports>>
  /\ UNCHANGED <<attempt, sockOwner, connQ, closingQ, call, closing, readers,
                 hasOptions, ask>>

\* The lost socket's teardown is over: the engine's onClose callback runs.
ReportLoss(c) ==
  /\ Drained
  /\ c \in reports
  /\ reports' = reports \ {c}
  /\ UNCHANGED <<machine, transport, sockOwner, connQ, closingQ, call, closing, ping,
                 readers, hasOptions, ask>>

-----------------------------------------------------------------------------
(* close(), called by the owner or by a call that gave up. *)

\* close() up to its lock, in state st.
RequestClose(k, st) ==
  /\ closing' = [closing EXCEPT ![k] = CloseRecord("lock", CloseRequested(st) # st)]
  /\ closingQ' = Append(closingQ, k)

\* A restart closes between its calls, one close at a time; the engine's own close()
\* comes at any time, once for every join that has opened it.
OwnerCloses(k) ==
  \/ /\ k \in Awaited
     /\ \A c \in Calls : call[c].result # "pending"
     /\ \A j \in Awaited : closing[j].pc \in {"idle", "done"}
     /\ UNCHANGED isClosed
  \/ /\ k \in Final
     /\ ~isClosed
     /\ isClosed' = TRUE

Close(k) ==
  /\ Drained
  /\ closing[k].pc = "idle"
  /\ OwnerCloses(k)
  /\ RequestClose(k, lc)
  /\ lc' = CloseRequested(lc)
  /\ UNCHANGED aborted
  /\ UNCHANGED <<attempt, transport, sockOwner, connQ, call, ping, readers, reports, hasOptions>>

\* closeComplete, and the lock is released.
CloseEnds(k) ==
  /\ closing' = [closing EXCEPT ![k] = CloseRecord("done", FALSE)]
  /\ closingQ' = Tail(closingQ)
  /\ lc' = IF closing[k].drives /\ lc = "disconnecting" THEN "closed" ELSE lc

CloseTearsDown(k) ==
  /\ Holds(closingQ, k) /\ closing[k].pc = "lock"
  /\ TearDown(sock)
  /\ IF ~Lingers(sock, ws) THEN CloseEnds(k)
     ELSE /\ closing' = [closing EXCEPT ![k].pc = "teardown"]
          /\ UNCHANGED <<lc, closingQ>>
  /\ UNCHANGED <<attempt, sockOwner, connQ, call, readers, reports, hasOptions, ask>>

\* The transport has closed, or the wait for it is over.
CloseTornDown(k) ==
  /\ Drained
  /\ Holds(closingQ, k) /\ closing[k].pc = "teardown"
  /\ CloseEnds(k)
  /\ UNCHANGED <<attempt, transport, sockOwner, connQ, call, ping, readers, reports,
                 hasOptions, ask>>

\* abortHandler, for the connect timeout or for the caller's AbortSignal. With a
\* writer the rejection reaches the caller before the leave has been written and
\* close() runs; without one close() comes first.
GiveUp(c) ==
  LET st == IF writer # None /\ lc \in {"connecting", "connected", "reconnecting"}
            THEN AfterReject(c, lc, TRUE) ELSE lc
  IN  /\ SetCall(c, [Settled(c, call[c].pc, "rejected") EXCEPT !.abortable = FALSE])
      /\ RequestClose(c, st)
      /\ lc' = AfterReject(c, CloseRequested(st), TRUE)
      /\ UNCHANGED <<attempt, transport, sockOwner, connQ, ping, readers, reports, hasOptions>>

\* websocketTimeout (15 s by default) outlasts the 250 ms a replaced transport takes.
ConnectTimeout(c) ==
  /\ Drained
  /\ call[c].timer /\ call[c].pc # "replace"
  /\ GiveUp(c)
  /\ UNCHANGED ask

Abort(c) ==
  /\ Drained
  /\ call[c].kind = "join" /\ call[c].abortable
  /\ GiveUp(c)
  /\ aborted' = TRUE
  /\ UNCHANGED isClosed

\* JOIN_RESPONSE_TIMEOUT: the promise is rejected, then close() is called, before
\* the rejection reaches its caller. (A close of the same call that is still under
\* way, after an abort, is not followed by a second one.)
FirstMessageTimeout(c) ==
  /\ Drained
  /\ call[c].pc = "first"
  /\ Finish(c, "rejected")
  /\ IF closing[c].pc \in {"idle", "done"}
     THEN /\ RequestClose(c, lc)
          /\ lc' = AfterReject(c, CloseRequested(lc), TRUE)
     ELSE UNCHANGED <<lc, closing, closingQ>>
  /\ UNCHANGED <<attempt, transport, sockOwner, ping, readers, reports, hasOptions, ask>>

-----------------------------------------------------------------------------
CallStep(c) ==
  \/ CloseSettled(c) \/ ConnectionLocked(c) \/ ParamsReady(c) \/ Replaced(c)
  \/ ConnectTimeout(c) \/ FirstMessageTimeout(c)
  \/ \E recoverable \in BOOLEAN : Classified(c, recoverable)

CloseStep(k) == CloseTearsDown(k) \/ CloseTornDown(k)

Environment ==
  \/ \E c \in Calls, kind \in {"join", "reconnect"} : Establish(c, kind)
  \/ \E c \in Calls : SocketOpens(c) \/ SocketFails(c) \/ SocketCloses(c) \/ Abort(c)
  \/ \E c \in Calls, msg \in {"session", "other", "leave"} : FirstMessage(c, msg)
  \/ \E k \in Awaited \cup Final : Close(k)
  \/ PingTimeout

Next ==
  \/ \E c \in Calls : CallStep(c) \/ ReportLoss(c)
  \/ \E k \in CloseIds : CloseStep(k)
  \/ Environment

Spec == Init /\ [][Next]_vars

\* Continuations run, timers fire, the validating fetch settles, and a socket we
\* closed before it opened reports its failure. The server owes nothing.
Fairness ==
  /\ \A c \in Calls : WF_vars(CallStep(c))
  /\ \A c \in Calls : WF_vars(sock[c] = "aborting" /\ SocketFails(c))
  /\ \A k \in CloseIds : WF_vars(CloseStep(k))

FairSpec == Spec /\ Fairness

-----------------------------------------------------------------------------
(* Properties. *)

\* The types of the variables; an attempt is started at most once per call.
TypeOK ==
  /\ lc \in States /\ attempt \in 0..MaxCalls
  /\ ws \in Calls \cup {None} /\ writer \in Calls \cup {None}
  /\ sock \in [Calls -> {"none", "connecting", "aborting", "open", "closing", "closed"}]
  /\ sockOwner \in [Calls -> 0..MaxCalls]
  /\ connQ \in Seq(Calls) /\ closingQ \in Seq(Calls \cup CloseIds)
  /\ call \in [Calls ->
       [pc : {"idle", "settle", "lock", "params", "replace", "opening", "validate",
              "first", "done"},
        kind : {"join", "reconnect"},
        result : {"none", "pending", "resolved", "rejected"},
        timer : BOOLEAN, abortable : BOOLEAN]]
  /\ closing \in [CloseIds -> [pc : {"idle", "lock", "teardown", "done"}, drives : BOOLEAN]]
  /\ ping \in BOOLEAN /\ hasOptions \in BOOLEAN
  /\ readers \subseteq Calls /\ reports \subseteq Calls
  /\ aborted \in BOOLEAN /\ isClosed \in BOOLEAN

InFlight(c) == call[c].result = "pending"

\* "disconnecting" is left to exactly one close() still on its way to closeComplete,
\* whichever way the closes overlap, so the state cannot become a trap.
DisconnectingIsOwned ==
  /\ lc = "disconnecting" <=> \E k \in CloseIds : closing[k].drives
  /\ \A j, k \in CloseIds : closing[j].drives /\ closing[k].drives => j = k

\* The machine is in "connecting" or "reconnecting" only while a call of that kind
\* is pending: no failure path leaves it there.
EstablishingIsOwned ==
  Establishing(lc) => \E c \in Calls : InFlight(c) /\ lc = Started(call[c].kind)

\* No state in between is a trap: the machine is in none of them for nobody.
LifecycleIsOwned == DisconnectingIsOwned /\ EstablishingIsOwned

\* A client that claims to be connected has an open socket of the current attempt,
\* writes to it, reads from it and watches it with pings.
ConnectedIsServed ==
  lc = "connected" =>
    /\ ws # None /\ sock[ws] = "open" /\ writer = ws
    /\ ws \in readers /\ ping /\ sockOwner[ws] = attempt

InBody(c) == call[c].pc \in {"params", "replace", "opening", "validate", "first"}

\* Two attempts never run connect()'s body at the same time, settled or not.
OneBody == \A c, d \in Calls : InBody(c) /\ InBody(d) => c = d

\* The connection a client claims is the one of its last attempt, and each attempt is alone.
ConnectionIsServed == TypeOK /\ ConnectedIsServed /\ OneBody

\* A session goes offline through its own transport or its pings, never because a
\* socket it has replaced closes late.
OnlyOwnLossDrops ==
  [][lc = "connected" /\ lc' = "offline" =>
       \A c \in Calls \ {ws} : sock'[c] = sock[c]]_vars

\* Every join and reconnect is answered, whatever the server does.
AttemptSettles == \A c \in Calls : InFlight(c) ~> ~InFlight(c)
=============================================================================

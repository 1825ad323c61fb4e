-------------------------- MODULE ReliableDelivery --------------------------
(***************************************************************************)
(* The publisher's reliable data channel: packets claim a sequence number, *)
(* pass the headroom gate (a FIFO mutex and two water marks), are written  *)
(* to the current RTCDataChannel and kept in a replay buffer; a resume     *)
(* replays the buffer, a full reconnect throws it away and restarts the    *)
(* numbering; receivers discard a sequence number they have passed.        *)
(*                                                                         *)
(* Models room/data-channel/{Reliable,FlowControlled}DataChannel.ts,       *)
(* DataChannelManager.ts, utils/dataPacketBuffer.ts, and the parts of      *)
(* room/RTCEngine.ts that drive them (sendDataPacket, resumeConnection,    *)
(* cleanupPeerConnections, handleDataMessage).                             *)
(***************************************************************************)
EXTENDS Integers, Sequences, FiniteSets, SequencesExt

CONSTANTS
  Senders,       \* concurrent callers of sendDataPacket
  Replays,       \* replay() calls that may be pending at the same time
  MaxClaims,     \* bound: sequence numbers claimed over the whole behaviour
  MaxChannels,   \* bound: RTCDataChannel objects created
  MaxResumes,    \* bound: resume attempts that get an answer
  MaxRestarts,   \* bound: full reconnects
  MaxAborts,     \* bound: SCTP streams aborted under an open channel
  HighWaterMark, \* senders block while bufferedAmount is above it
  LowWaterMark,  \* bufferedAmountLowThreshold
  PacketSize,    \* bytes of the packet with a given sequence number
  None           \* "undefined"

ASSUME BoundsAssumption ==
  /\ MaxClaims \in Nat /\ MaxChannels \in Nat \ {0}
  /\ MaxResumes \in Nat /\ MaxRestarts \in Nat /\ MaxAborts \in Nat
ASSUME ClientsAssumption ==
  /\ Senders \cap Replays = {}
  /\ None \notin Senders \cup Replays
  /\ None \notin Nat
ASSUME WaterMarkAssumption ==
  /\ LowWaterMark \in Nat /\ HighWaterMark \in Nat
  /\ LowWaterMark <= HighWaterMark
  /\ PacketSize \in [1..MaxClaims -> Nat \ {0}]

Clients == Senders \cup Replays
ChannelIds == 1..MaxChannels
Packets == [session : 0..MaxRestarts, seq : 1..MaxClaims]
Items == [pkt : Packets, sent : BOOLEAN]

VARIABLES
  engine,     \* "connected", "interrupted", "resuming", "restarting", "closed"
  session,    \* number of teardowns: a history variable, never read by the code
  sequence,   \* the next sequence number to claim
  items,      \* DataPacketBuffer.buffer
  sentSize,   \* DataPacketBuffer._sentSize
  handle,     \* the attached channel, or None
  chan,       \* per channel object: readyState and the packets bufferedAmount counts
  lockQueue,  \* the headroom mutex: its holder, then the waiters in FIFO order
  snd,        \* per sender: where its send() call stands
  rep,        \* per replay: where its replay() call stands
  ack,        \* lastMessageSeq of the ReconnectResponse being handled, or None
  serverSeq,  \* last sequence number the server received in this session
  recvSeq,    \* reliableReceivedState of a receiver, 0 when it has no entry
  count,      \* bounded counters: claims, channels, resumes, aborts
  hist        \* history: what became of each packet

vars == <<engine, session, sequence, items, sentSize, handle, chan, lockQueue,
          snd, rep, ack, serverSeq, recvSeq, count, hist>>

-----------------------------------------------------------------------------
(* The replay buffer. *)

SizeOf(pkt) == PacketSize[pkt.seq]

Bytes(pkts) == FoldSeq(LAMBDA p, n : SizeOf(p) + n, 0, pkts)

PacketsOf(its) == [i \in DOMAIN its |-> its[i].pkt]

SentBytes(its) == Bytes(PacketsOf(SelectSeq(its, LAMBDA it : it.sent)))

BufferedAmount(ch, c) == Bytes(ch[c].queue)

Item(pkt, isSent) == [pkt |-> pkt, sent |-> isSent]

Unsent(its) == PacketsOf(SelectSeq(its, LAMBDA it : ~it.sent))

AllUnsent(its) == [i \in DOMAIN its |-> [its[i] EXCEPT !.sent = FALSE]]

DropFirst(its, n) == SubSeq(its, n + 1, Len(its))

\* popToSequence stops at the first packet above the cutoff.
AckedPrefix(its, last) ==
  CHOOSE n \in 0..Len(its) :
    /\ \A i \in 1..n : its[i].pkt.seq <= last
    /\ n < Len(its) => its[n + 1].pkt.seq > last

\* alignBufferedAmount stops at an unsent packet, and at the first packet whose
\* removal would leave no more sent bytes than the channel still buffers.
TrimmedPrefix(its, size, amount) ==
  LET left(n) == size - Bytes(PacketsOf(SubSeq(its, 1, n)))
  IN  CHOOSE n \in 0..Len(its) :
        /\ \A i \in 1..n : its[i].sent /\ left(i) > amount
        /\ n < Len(its) => ~its[n + 1].sent \/ left(n + 1) <= amount

\* refreshBufferStatus on buffer (its, size) against the channels ch: the value
\* of <<items, sentSize>> afterwards. The current handle is the one consulted.
Refreshed(its, size, ch) ==
  IF handle = None THEN <<its, size>>
  ELSE LET n == TrimmedPrefix(its, size, BufferedAmount(ch, handle))
       IN  <<DropFirst(its, n), size - Bytes(PacketsOf(SubSeq(its, 1, n)))>>

SetBuffer(pair) == items' = pair[1] /\ sentSize' = pair[2]

-----------------------------------------------------------------------------
(* The engine's view and the mutex. *)

IsDeferringSends == engine \in {"resuming", "restarting"}

IsEngineClosed == engine = "closed"

BelowHighWaterMark(ch, c) == BufferedAmount(ch, c) <= HighWaterMark

HoldsLock(p) == lockQueue # <<>> /\ Head(lockQueue) = p

Unlock == lockQueue' = Tail(lockQueue)

\* The outcome of waitForHeadroomWithoutLock up to its first await.
Headroom(ch) ==
  IF IsEngineClosed \/ handle = None THEN "failed"
  ELSE IF BelowHighWaterMark(ch, handle) THEN "ready" ELSE "parked"

SendCall(pc, pkt, dc, on) == [pc |-> pc, pkt |-> pkt, dc |-> dc, on |-> on]

ReplayCall(pc, last, dc, on, batch) ==
  [pc |-> pc, last |-> last, dc |-> dc, on |-> on, batch |-> batch]

IdleSend   == SendCall("idle", None, None, None)
IdleReplay == ReplayCall("idle", 0, None, None, <<>>)

\* What a waiter at the gate listens to: the current handle, if it has to park.
ParkedOn(ch) == IF Headroom(ch) = "parked" THEN handle ELSE None

\* A parked waiter listens to the channel it parked on; wake tells what it then sees.
Parked(call, cs) == call.pc = "parked" /\ call.on \in cs

WokenSends(cs, outcome) ==
  [s \in Senders |->
     LET call == snd[s]
     IN  IF Parked(call, cs) THEN SendCall(outcome, call.pkt, call.dc, None) ELSE call]

WokenReplays(cs, outcome) ==
  [r \in Replays |->
     LET call == rep[r]
     IN  IF Parked(call, cs)
         THEN ReplayCall(outcome, call.last, call.dc, None, call.batch) ELSE call]

WakeParked(cs, outcome) ==
  /\ snd' = WokenSends(cs, outcome)
  /\ rep' = WokenReplays(cs, outcome)

\* Mutant: the abort controller is replaced without being aborted.
InvalidateNobody == UNCHANGED <<snd, rep>>

\* invalidateWaiters: every parked waiter is rejected.
InvalidateWaiters == WakeParked(ChannelIds, "failed")

-----------------------------------------------------------------------------
Init ==
  /\ engine = "connected" /\ session = 0
  /\ sequence = 1 /\ items = <<>> /\ sentSize = 0
  /\ handle = 1
  /\ chan = [c \in ChannelIds |->
               [state |-> IF c = 1 THEN "open" ELSE "none", queue |-> <<>>]]
  /\ lockQueue = <<>>
  /\ snd = [s \in Senders |-> IdleSend]
  /\ rep = [r \in Replays |-> IdleReplay]
  /\ ack = None /\ serverSeq = 0 /\ recvSeq = 0
  /\ count = [claims |-> 0, channels |-> 1, resumes |-> 0, aborts |-> 0]
  /\ hist = [accepted |-> {}, arrived |-> {}, cutoff |-> 0,
             direct |-> [c \in ChannelIds |-> 0]]

-----------------------------------------------------------------------------
(* Senders: sendDataPacket from nextSequence() on, then send(). *)

Accept(pkt) == hist' = [hist EXCEPT !.accepted = @ \cup {pkt}]

\* Queue a packet for the resume replay; send() resolves.
PushUnsent(pkt) ==
  /\ items' = Append(items, Item(pkt, FALSE))
  /\ Accept(pkt)
  /\ UNCHANGED sentSize

Claim ==
  /\ count.claims < MaxClaims
  /\ count' = [count EXCEPT !.claims = @ + 1]
  /\ sequence' = sequence + 1

NewPacket == [session |-> session, seq |-> sequence]

SendUnchanged == UNCHANGED <<engine, session, handle, rep, ack, serverSeq, recvSeq>>

\* A reconnect is underway: queue for the replay.
SendDeferred(s) ==
  /\ snd[s].pc = "idle" /\ IsDeferringSends
  /\ Claim
  /\ PushUnsent(NewPacket)
  /\ SendUnchanged /\ UNCHANGED <<chan, lockQueue, snd>>

\* No channel: send() returns, the sequence number is spent and the packet gone.
SendWithoutChannel(s) ==
  /\ snd[s].pc = "idle" /\ ~IsDeferringSends /\ handle = None
  /\ Claim
  /\ SendUnchanged /\ UNCHANGED <<items, sentSize, chan, lockQueue, snd, hist>>

\* The size check of sendDataPacket throws after the sequence number was claimed.
SendTooLarge(s) ==
  /\ snd[s].pc = "idle"
  /\ Claim
  /\ SendUnchanged /\ UNCHANGED <<items, sentSize, chan, lockQueue, snd, hist>>

\* Mutant: the mutex grants the latest waiter first.
SendQueueLatestFirst(s) ==
  /\ snd[s].pc = "idle" /\ ~IsDeferringSends /\ handle # None
  /\ Claim
  /\ snd' = [snd EXCEPT ![s] = SendCall("queued", NewPacket, handle, None)]
  /\ lockQueue' = IF lockQueue = <<>> THEN <<s>>
                  ELSE <<Head(lockQueue), s>> \o Tail(lockQueue)
  /\ SendUnchanged /\ UNCHANGED <<items, sentSize, chan, hist>>

SendQueue(s) ==
  /\ snd[s].pc = "idle" /\ ~IsDeferringSends /\ handle # None
  /\ Claim
  /\ snd' = [snd EXCEPT ![s] = SendCall("queued", NewPacket, handle, None)]
  /\ lockQueue' = Append(lockQueue, s)
  /\ SendUnchanged /\ UNCHANGED <<items, sentSize, chan, hist>>

\* Mutant: the gate is checked without taking the lock.
SendGateUnlocked(s) ==
  /\ snd[s].pc = "queued"
  /\ snd' = [snd EXCEPT ![s] =
               SendCall(Headroom(chan), snd[s].pkt, snd[s].dc, ParkedOn(chan))]
  /\ SendUnchanged
  /\ UNCHANGED <<sequence, items, sentSize, chan, lockQueue, count, hist>>

\* The lock is granted: the gate is checked inside it.
SendGate(s) ==
  /\ snd[s].pc = "queued" /\ HoldsLock(s)
  /\ snd' = [snd EXCEPT ![s] =
               SendCall(Headroom(chan), snd[s].pkt, snd[s].dc, ParkedOn(chan))]
  /\ SendUnchanged
  /\ UNCHANGED <<sequence, items, sentSize, chan, lockQueue, count, hist>>

\* waitForHeadroomWithLock threw: only an engine close reaches the caller.
SendFailed(s) ==
  /\ snd[s].pc = "failed"
  /\ Unlock
  /\ snd' = [snd EXCEPT ![s] = IdleSend]
  /\ IF IsEngineClosed THEN UNCHANGED <<items, sentSize, hist>>
                       ELSE PushUnsent(snd[s].pkt)
  /\ SendUnchanged /\ UNCHANGED <<sequence, chan, count>>

\* The gate opened but a reconnect began meanwhile.
SendDeferredLate(s) ==
  /\ snd[s].pc = "ready" /\ IsDeferringSends
  /\ Unlock
  /\ snd' = [snd EXCEPT ![s] = IdleSend]
  /\ PushUnsent(snd[s].pkt)
  /\ SendUnchanged /\ UNCHANGED <<sequence, chan, count>>

\* Written to the channel captured when send() started.
SendWrite(s) ==
  LET c   == snd[s].dc
      pkt == snd[s].pkt
      its == Append(items, Item(pkt, TRUE))
      ch  == [chan EXCEPT ![c].queue = Append(@, pkt)]
  IN  /\ snd[s].pc = "ready" /\ ~IsDeferringSends /\ chan[c].state = "open"
      /\ Unlock
      /\ snd' = [snd EXCEPT ![s] = IdleSend]
      /\ chan' = ch
      /\ SetBuffer(Refreshed(its, sentSize + SizeOf(pkt), ch))
      /\ hist' = [hist EXCEPT !.accepted = @ \cup {pkt}, !.direct[c] = pkt.seq]
      /\ SendUnchanged /\ UNCHANGED <<sequence, count>>

\* dc.send throws on a channel that is not open: the packet stays in the buffer
\* marked sent, nothing is refreshed, and send() rejects.
SendThrows(s) ==
  LET pkt == snd[s].pkt
  IN  /\ snd[s].pc = "ready" /\ ~IsDeferringSends /\ chan[snd[s].dc].state # "open"
      /\ Unlock
      /\ snd' = [snd EXCEPT ![s] = IdleSend]
      /\ items' = Append(items, Item(pkt, TRUE))
      /\ sentSize' = sentSize + SizeOf(pkt)
      /\ SendUnchanged /\ UNCHANGED <<sequence, chan, count, hist>>

-----------------------------------------------------------------------------
(* Replays. *)

ReplayUnchanged ==
  UNCHANGED <<engine, session, sequence, handle, snd, ack, serverSeq, recvSeq, count>>

ReplayNoChannel(r) ==
  /\ rep[r].pc = "pending" /\ handle = None
  /\ rep' = [rep EXCEPT ![r] = IdleReplay]
  /\ ReplayUnchanged /\ UNCHANGED <<items, sentSize, chan, lockQueue, hist>>

\* Drop what the server acked, then queue for the headroom lock.
ReplayStart(r) ==
  LET n == AckedPrefix(items, rep[r].last)
  IN  /\ rep[r].pc = "pending" /\ handle # None
      /\ items' = DropFirst(items, n)
      /\ sentSize' = sentSize - SentBytes(SubSeq(items, 1, n))
      /\ rep' = [rep EXCEPT ![r] = ReplayCall("queued", rep[r].last, handle, None, <<>>)]
      /\ lockQueue' = Append(lockQueue, r)
      /\ hist' = [hist EXCEPT !.cutoff = IF rep[r].last > @ THEN rep[r].last ELSE @]
      /\ ReplayUnchanged /\ UNCHANGED chan

\* Go on with a non-empty batch (up to the next await of the gate), or finish.
ReplayContinue(r, its, size, ch, batch) ==
  IF batch # <<>>
  THEN /\ items' = its /\ sentSize' = size
       /\ rep' = [rep EXCEPT ![r] =
                    ReplayCall(Headroom(ch), rep[r].last, rep[r].dc, ParkedOn(ch), batch)]
       /\ UNCHANGED lockQueue
  ELSE /\ SetBuffer(Refreshed(its, size, ch))
       /\ rep' = [rep EXCEPT ![r] = IdleReplay]
       /\ Unlock

\* Mutant: markAllUnsent leaves _sentSize as it was.
ReplayMarkKeepsSize(r) ==
  /\ rep[r].pc = "queued" /\ HoldsLock(r)
  /\ ReplayContinue(r, AllUnsent(items), sentSize, chan, PacketsOf(items))
  /\ ReplayUnchanged /\ UNCHANGED <<chan, hist>>

\* The lock is granted: nothing left in the buffer counts as sent any more.
ReplayMark(r) ==
  /\ rep[r].pc = "queued" /\ HoldsLock(r)
  /\ ReplayContinue(r, AllUnsent(items), 0, chan, PacketsOf(items))
  /\ ReplayUnchanged /\ UNCHANGED <<chan, hist>>

\* markSent works on the item object: it counts the packet's bytes even when
\* another replay has taken the item out of the buffer since.
Marked(pkt) ==
  [i \in DOMAIN items |-> IF items[i].pkt = pkt THEN [items[i] EXCEPT !.sent = TRUE]
                                                ELSE items[i]]

\* Write the batch's head, mark it sent, and take the next pass when the batch ends.
ReplaySend(r) ==
  LET c    == rep[r].dc
      pkt  == Head(rep[r].batch)
      its  == Marked(pkt)
      rest == Tail(rep[r].batch)
      ch   == [chan EXCEPT ![c].queue = Append(@, pkt)]
  IN  /\ rep[r].pc = "ready" /\ chan[c].state = "open"
      /\ chan' = ch
      /\ ReplayContinue(r, its, sentSize + SizeOf(pkt), ch,
                        IF rest # <<>> THEN rest ELSE Unsent(its))
      /\ ReplayUnchanged /\ UNCHANGED hist

\* The gate or dc.send threw: replay() rejects and unsent packets keep their flag.
ReplayFailed(r) ==
  /\ \/ rep[r].pc = "failed"
     \/ rep[r].pc = "ready" /\ chan[rep[r].dc].state # "open"
  /\ Unlock
  /\ rep' = [rep EXCEPT ![r] = IdleReplay]
  /\ ReplayUnchanged /\ UNCHANGED <<items, sentSize, chan, hist>>

-----------------------------------------------------------------------------
(* The transport, the server and a receiver behind it (external). *)

\* handleDataMessage: a sequence number not above the last one seen is discarded.
Discards(pkt) == recvSeq # 0 /\ pkt.seq <= recvSeq

\* One packet leaves the channel's buffer and reaches the server, which forwards
\* it. bufferedamountlow fires when that takes the buffer down to the low mark.
Transport(c) ==
  LET pkt  == Head(chan[c].queue)
      ch   == [chan EXCEPT ![c].queue = Tail(@)]
      low  == /\ BufferedAmount(chan, c) > LowWaterMark
              /\ BufferedAmount(ch, c) <= LowWaterMark
  IN  /\ chan[c].state = "open" /\ chan[c].queue # <<>>
      /\ chan' = ch
      /\ serverSeq' = IF pkt.seq > serverSeq THEN pkt.seq ELSE serverSeq
      /\ recvSeq' = IF Discards(pkt) THEN recvSeq ELSE pkt.seq
      /\ hist' = [hist EXCEPT !.arrived = @ \cup {pkt}]
      /\ IF low
         THEN /\ SetBuffer(Refreshed(items, sentSize, ch))
              /\ WakeParked({c}, "ready")
         ELSE UNCHANGED <<items, sentSize, snd, rep>>
      /\ UNCHANGED <<engine, session, sequence, handle, lockQueue, ack, count>>

\* The SCTP stream is aborted; bufferedAmount keeps its value. The engine's close
\* handler only logs, so the handle stays attached.
ChannelAborts(c) ==
  /\ chan[c].state = "open" /\ count.aborts < MaxAborts
  /\ chan' = [chan EXCEPT ![c].state = "closed"]
  /\ count' = [count EXCEPT !.aborts = @ + 1]
  /\ WakeParked({c}, "failed")
  /\ UNCHANGED <<engine, session, sequence, items, sentSize, handle, lockQueue,
                 ack, serverSeq, recvSeq, hist>>

-----------------------------------------------------------------------------
(* The engine. *)

\* createPublisherChannels: attach() rejects the waiters of a replaced handle.
\* The replaced channel object itself is not closed.
CreateChannel ==
  LET new == count.channels + 1
  IN  /\ count.channels < MaxChannels
      /\ chan' = [chan EXCEPT ![new].state = "open"]
      /\ handle' = new
      /\ count' = [count EXCEPT !.channels = new]

\* The publisher is negotiated: its data channels are created and open.
PublisherConnects ==
  /\ handle = None /\ engine \in {"connected", "interrupted", "restarting"}
  /\ CreateChannel
  /\ UNCHANGED <<engine, session, sequence, items, sentSize, lockQueue, snd, rep,
                 ack, serverSeq, recvSeq, hist>>

EngineUnchanged == UNCHANGED <<sequence, items, sentSize, lockQueue, serverSeq, recvSeq>>

ConnectionLost ==
  /\ engine = "connected"
  /\ engine' = "interrupted"
  /\ EngineUnchanged
  /\ UNCHANGED <<session, handle, chan, snd, rep, ack, count, hist>>

\* attemptReconnect sets attemptingReconnect and calls resumeConnection.
ResumeBegins ==
  /\ engine = "interrupted" /\ count.resumes < MaxResumes
  /\ engine' = "resuming"
  /\ ack' = None
  /\ EngineUnchanged
  /\ UNCHANGED <<session, handle, chan, snd, rep, count, hist>>

\* The server answers with the last sequence number it has received.
ReconnectResponse ==
  /\ engine = "resuming" /\ ack = None
  /\ ack' = serverSeq
  /\ count' = [count EXCEPT !.resumes = @ + 1]
  /\ EngineUnchanged
  /\ UNCHANGED <<engine, session, handle, chan, snd, rep, hist>>

\* A falsy lastMessageSeq (0 or absent) starts no replay.
StartReplay(procs) ==
  IF ack = 0 THEN procs
  ELSE LET r == CHOOSE q \in Replays : procs[q].pc = "idle"
       IN  [procs EXCEPT ![r] = ReplayCall("pending", ack, None, None, <<>>)]

\* The tail of resumeConnection, with the channels recreated when their id is
\* null (Safari) or kept.
ResumeSucceeds(recreate) ==
  /\ engine = "resuming" /\ ack # None
  /\ \E r \in Replays : rep[r].pc = "idle"
  /\ engine' = "connected"
  /\ ack' = None
  /\ IF recreate
     THEN /\ handle # None /\ chan[handle].state = "open"
          /\ CreateChannel
          /\ snd' = WokenSends(ChannelIds, "failed")
          /\ rep' = StartReplay(WokenReplays(ChannelIds, "failed"))
     ELSE /\ rep' = StartReplay(rep)
          /\ UNCHANGED <<handle, chan, count, snd>>
  /\ EngineUnchanged /\ UNCHANGED <<session, hist>>

ResumeFails ==
  /\ engine = "resuming"
  /\ engine' = "interrupted"
  /\ ack' = None
  /\ EngineUnchanged
  /\ UNCHANGED <<session, handle, chan, snd, rep, count, hist>>

\* DataChannelManager.teardown: detach (rejecting the parked waiters when there is
\* a handle), close, and reset the reliable state. The waiters run afterwards.
Teardown ==
  /\ handle' = None
  /\ chan' = [c \in ChannelIds |-> [state |-> IF chan[c].state = "none" THEN "none" ELSE "closed",
                                    queue |-> <<>>]]
  /\ InvalidateWaiters
  /\ items' = <<>> /\ sentSize' = 0 /\ sequence' = 1

\* restartConnection: tear down, and join again as a new participant.
RestartBegins ==
  /\ engine = "interrupted" /\ session < MaxRestarts
  /\ engine' = "restarting"
  /\ session' = session + 1
  /\ Teardown
  /\ serverSeq' = 0 /\ recvSeq' = 0
  /\ hist' = [hist EXCEPT !.cutoff = 0]
  /\ UNCHANGED <<lockQueue, ack, count>>

RestartEnds(outcome) ==
  /\ engine = "restarting"
  /\ engine' = outcome
  /\ EngineUnchanged
  /\ UNCHANGED <<session, handle, chan, snd, rep, ack, count, hist>>

\* RTCEngine.close
EngineCloses ==
  /\ engine # "closed"
  /\ engine' = "closed"
  /\ Teardown
  /\ UNCHANGED <<session, lockQueue, ack, serverSeq, recvSeq, count, hist>>

-----------------------------------------------------------------------------
\* Promise continuations run before the event loop takes the next task (a network
\* event, a timer): a settled wait, or a lock just granted, is never overtaken by one.
MicrotasksDrained ==
  /\ \A s \in Senders : snd[s].pc \notin {"ready", "failed"} /\ ~(snd[s].pc = "queued" /\ HoldsLock(s))
  /\ \A r \in Replays : rep[r].pc \notin {"ready", "failed"} /\ ~(rep[r].pc = "queued" /\ HoldsLock(r))

SenderStep(s) ==
  \/ SendGate(s) \/ SendFailed(s) \/ SendDeferredLate(s) \/ SendWrite(s) \/ SendThrows(s)

NewSend(s) ==
  SendDeferred(s) \/ SendWithoutChannel(s) \/ SendTooLarge(s) \/ SendQueue(s)

ReplayStep(r) ==
  \/ ReplayNoChannel(r) \/ ReplayStart(r) \/ ReplayMark(r)
  \/ ReplaySend(r) \/ ReplayFailed(r)

EngineStep ==
  \/ PublisherConnects \/ ConnectionLost \/ ResumeBegins \/ ReconnectResponse
  \/ \E recreate \in BOOLEAN : ResumeSucceeds(recreate)
  \/ ResumeFails \/ RestartBegins
  \/ \E outcome \in {"connected", "interrupted"} : RestartEnds(outcome)

Next ==
  \/ \E s \in Senders : NewSend(s) \/ SenderStep(s)
  \/ \E r \in Replays : ReplayStep(r)
  \/ EngineCloses
  \/ MicrotasksDrained /\ \E c \in ChannelIds : Transport(c) \/ ChannelAborts(c)
  \/ MicrotasksDrained /\ EngineStep

Spec == Init /\ [][Next]_vars

\* Continuations always run, and an open channel drains while the network works.
Fairness ==
  /\ \A s \in Senders : WF_vars(SenderStep(s))
  /\ \A r \in Replays : WF_vars(ReplayStep(r))
  /\ \A c \in ChannelIds : WF_vars(MicrotasksDrained /\ Transport(c))

FairSpec == Spec /\ Fairness

-----------------------------------------------------------------------------
(* Properties that hold. *)

SendStates   == {"idle", "queued", "ready", "parked", "failed"}
ReplayStates == SendStates \cup {"pending"}

SendCalls == [pc : SendStates, pkt : Packets \cup {None},
              dc : ChannelIds \cup {None}, on : ChannelIds \cup {None}]
ReplayCalls == [pc : ReplayStates, last : 0..MaxClaims, dc : ChannelIds \cup {None},
                on : ChannelIds \cup {None}, batch : Seq(Packets)]

TypeOK ==
  /\ engine \in {"connected", "interrupted", "resuming", "restarting", "closed"}
  /\ session \in 0..MaxRestarts
  /\ sequence \in 1..(MaxClaims + 1)
  /\ items \in Seq(Items) /\ sentSize \in Int
  /\ handle \in ChannelIds \cup {None}
  /\ chan \in [ChannelIds -> [state : {"none", "open", "closed"}, queue : Seq(Packets)]]
  /\ lockQueue \in Seq(Clients)
  /\ snd \in [Senders -> SendCalls] /\ rep \in [Replays -> ReplayCalls]
  /\ \A s \in Senders :
       snd[s].pc # "idle" => snd[s].pkt \in Packets /\ snd[s].dc \in ChannelIds
  /\ ack \in Nat \cup {None} /\ serverSeq \in 0..MaxClaims /\ recvSeq \in 0..MaxClaims

PastGate(p) == (IF p \in Senders THEN snd[p].pc ELSE rep[p].pc) \in {"ready", "parked", "failed"}

InBuffer(pkt) == \E i \in DOMAIN items : items[i].pkt = pkt
\* Buffered by a channel that can still transmit, or by one already replaced.
OnChannel(pkt) ==
  \E c \in ChannelIds : /\ chan[c].state = "open" \/ c # handle
                        /\ \E i \in DOMAIN chan[c].queue : chan[c].queue[i] = pkt

\* DataPacketBuffer keeps _sentSize in step with the packets flagged sent, by
\* adding and subtracting at every push, pop and markSent. Between replays the sum
\* is exact; it is what alignBufferedAmount compares with the channel.
SentAccounting ==
  (\A r \in Replays : rep[r].pc = "idle") => sentSize = SentBytes(items)

\* A packet whose send() resolved stays in the replay buffer until the transport
\* has taken it: trimming never drops one that only the current channel still
\* buffers, so that a channel lost at any moment loses nothing a resume could
\* resend (ReliableDataChannel's class comment).
RetainedUntilTransported ==
  engine # "closed" =>
    \A pkt \in hist.accepted : pkt.session = session =>
      \/ InBuffer(pkt) \/ pkt \in hist.arrived
      \/ pkt.seq <= hist.cutoff
      \/ OnChannel(pkt)

\* The replay buffer is sound: its types, its byte count, and what it must still hold.
BufferIsSound == TypeOK /\ SentAccounting /\ RetainedUntilTransported

\* One caller at a time is past the headroom gate, a replay for its whole drain:
\* no send can write between two packets of a replay.
GateExclusive ==
  \A p, q \in Clients : PastGate(p) /\ PastGate(q) => p = q

\* Packets that senders write to one channel object go out in the order their
\* sequence numbers were claimed, however the callers were scheduled.
DirectWritesInOrder ==
  [][\A c \in ChannelIds :
       hist'.direct[c] # hist.direct[c] => hist'.direct[c] > hist.direct[c]]_vars

\* A caller that queued on the gate is answered: the gate opens, or the channel it
\* waits on goes away and it is told. Only an aborted channel may keep it waiting:
\* it stays attached, and a send that parks on it hears no event again.
SendSettles ==
  \A s \in Senders :
    snd[s].pc = "queued" ~> (snd[s].pc = "idle" \/ count.aborts > 0)
=============================================================================

------------------------------ MODULE DataStreams ------------------------------
(***************************************************************************)
(* room/data-stream/ and room/rpc/: two pages in one room that send each other *)
(* streams (a header, chunks and a trailer, or all of it in the header) and call *)
(* each other's methods, whose request and answer are packets or, between      *)
(* clients that can, streams.                                              *)
(*                                                                         *)
(* link is the reliable channel from the other page, which may still lose or   *)
(* repeat a packet around a reconnect. A chunk is a unit of payload: its bytes, *)
(* compression and the UTF-8 boundaries are left out. A stream is pulled when   *)
(* it is read, so the order check of the pipe happens at the read.            *)
(***************************************************************************)
EXTENDS Integers, Sequences, FiniteSets, SequencesExt

CONSTANTS
  Pages,       \* the two pages
  Streams,     \* ids of streams
  Calls,       \* ids of calls
  Request, Response, \* the streams that carry a call and its answer
  Sessions     \* bound: the sessions to explore, see StreamsInit

Own == Streams \ {f[c] : f \in {Request, Response}, c \in Calls}
CallOf(s) == CHOOSE c \in Calls : s \in {Request[c], Response[c]}

ASSUME StreamsAssumption ==
  /\ Cardinality(Pages) = 2
  /\ Request \in [Calls -> Streams] /\ Response \in [Calls -> Streams]
  /\ \A c, d \in Calls : Request[c] # Response[d] /\ (c # d => Request[c] # Request[d] /\ Response[c] # Response[d])
  /\ \A s \in Sessions, c \in Calls : s.calls[c].from \in Pages

VARIABLES
  stream,     \* per stream, fixed: who sends it and how, its size, whether that is announced
  calls,      \* per call, fixed: the caller, whether it and its answer are streams
  left,       \* bound: what of each kind may still happen
  room,       \* per page: connected, reconnecting or ended
  gone,       \* per page: it has seen the other one leave
  encrypting, \* per page: data packets leave encrypted
  handles,    \* per page: the stream topic and the method it has handlers for
  link,       \* per page: the packets on the way to it
  held,       \* bufferedPackets
  lost,       \* history: streams of which a packet was lost or skipped
  out,        \* per stream: the sender's side
  into,       \* per stream: its controller, its pipe and its reader; late, a history: the
              \* header was handled after its sender was seen to leave
  call,       \* per call: the caller's side
  serve       \* per call: the side that is called

fixed == <<stream, calls>>
rpc   == <<call, serve>>
wire  == <<link, held, lost>>
state == <<room, gone, encrypting, handles>>
streamVars  == <<fixed, left, state, wire, out, into, rpc>>

Other(p) == CHOOSE o \in Pages : o # p
From(s)  == stream[s].from
To(s)    == Other(From(s))
Callee(c) == Other(calls[c].from)
IsCall(s) == s \notin Own
\* The files that go with a text follow it, all at once.
Attached(s) == {a \in Own : stream[a].by = "sendFile" /\ stream[a].with = s}
Uses(what) == left[what] > 0 /\ left' = [left EXCEPT ![what] = @ - 1]
Live(p) == room[p] # "ended"

Packet(kind, id, n) == [kind |-> kind, id |-> id, n |-> n, encrypted |-> FALSE]
Inline == -1
NotSent == [pc |-> "idle", how |-> "none", queued |-> 0, next |-> 0, closing |-> FALSE]
NoReader == [source |-> "none", mapped |-> FALSE, encrypted |-> FALSE, pipe |-> <<>>, last |-> -1, got |-> 0,
             read |-> "none", late |-> FALSE]
NoCall == [pc |-> "idle", result |-> "pending", ack |-> FALSE, response |-> FALSE, ackTimer |-> FALSE,
           responseTimer |-> FALSE, acked |-> FALSE]
NotServed == [pc |-> "none", runs |-> 0]

StreamsInit ==
  \E s \in Sessions :
    /\ stream = s.stream /\ calls = s.calls /\ left = s.left
    /\ room = [p \in Pages |-> "connected"] /\ gone = [p \in Pages |-> FALSE]
    /\ encrypting = [p \in Pages |-> FALSE]
    /\ handles = [p \in Pages |-> {"topic", "method"}]
    /\ link = [p \in Pages |-> <<>>] /\ held = [p \in Pages |-> <<>>] /\ lost = {}
    /\ out = [i \in Streams |-> NotSent] /\ into = [i \in Streams |-> NoReader]
    /\ call = [c \in Calls |-> NoCall] /\ serve = [c \in Calls |-> NotServed]

-----------------------------------------------------------------------------
(* Sending: OutgoingDataStreamManager. *)

\* A packet leaves its page encrypted or not as that is set when it is sent.
SendDataPacket(from, packet) ==
  link' = [link EXCEPT ![Other(from)] = Append(@, [packet EXCEPT !.encrypted = encrypting[from]])]

Sealed(from, packets) == [i \in DOMAIN packets |-> [packets[i] EXCEPT !.encrypted = encrypting[from]]]
Answer(from, packets) == link' = [link EXCEPT ![Other(from)] = @ \o Sealed(from, packets)]

\* A stream begins, in one packet, in chunks that are all there, or as a writer the
\* application fills.
Opened(how, size) ==
  [pc |-> "header", how |-> how, next |-> 0, closing |-> how = "chunks",
   queued |-> IF how = "chunks" THEN size ELSE 0]

Opens(s, hows) ==
  /\ out[s] = NotSent
  /\ \E how \in hows : out' = [out EXCEPT ![s] = Opened(how, stream[s].size)]

\* One packet if every recipient understands that, and it is small enough. A text with
\* attachments goes in chunks.
SendText(s)    == Opens(s, IF Attached(s) = {} THEN {"inline", "chunks"} ELSE {"chunks"})
SendBytes(s)   == Opens(s, {"inline", "chunks"})
StreamText(s)  == Opens(s, {"text"})
StreamBytes(s) == Opens(s, {"bytes"})

\* A file that goes with a text follows it.
SendFile(s)    == Opened("chunks", stream[s].size)

OpenStream(s) ==
  /\ s \in Own /\ Live(From(s))
  /\ \/ stream[s].by = "sendText" /\ SendText(s)
     \/ stream[s].by = "sendBytes" /\ SendBytes(s)
     \/ stream[s].by = "streamText" /\ StreamText(s)
     \/ stream[s].by = "streamBytes" /\ StreamBytes(s)
  /\ UNCHANGED <<fixed, left, state, wire, into, rpc>>

SendHeader(s) ==
  /\ out[s].pc = "header"
  /\ SendDataPacket(From(s), Packet("header", s, IF out[s].how = "inline" THEN Inline ELSE 0))
  /\ out' = [out EXCEPT ![s].pc = IF out[s].how = "inline" THEN "sent" ELSE "body"]
  /\ UNCHANGED <<fixed, left, state, held, lost, into, rpc>>

\* The application writes to, or closes, a writer.
Write(s) ==
  /\ out[s].pc = "body" /\ ~out[s].closing /\ out[s].queued < stream[s].size
  /\ out' = [out EXCEPT ![s].queued = @ + 1]
  /\ UNCHANGED <<fixed, left, state, wire, into, rpc>>

CloseWriter(s) ==
  /\ out[s].pc = "body" /\ ~out[s].closing
  /\ out' = [out EXCEPT ![s].closing = TRUE]
  /\ UNCHANGED <<fixed, left, state, wire, into, rpc>>

\* The chunk's index counts on when the packet was sent.
SendChunk(s) ==
  /\ out[s].pc = "body" /\ out[s].next < out[s].queued
  /\ SendDataPacket(From(s), Packet("chunk", s, out[s].next))
  /\ out' = [out EXCEPT ![s].next = @ + 1]
  /\ UNCHANGED <<fixed, left, state, held, lost, into, rpc>>

SendTrailer(s) ==
  /\ out[s].pc = "body" /\ out[s].closing /\ out[s].next = out[s].queued
  /\ SendDataPacket(From(s), Packet("trailer", s, 0))
  /\ out' = [i \in Streams |-> IF i = s THEN [out[s] EXCEPT !.pc = "sent"]
                             ELSE IF i \in Attached(s) THEN SendFile(i) ELSE out[i]]
  /\ UNCHANGED <<fixed, left, state, held, lost, into, rpc>>

\* sendDataPacket rejects: the stream goes no further, and nothing tells the receiver.
SendFails(s) ==
  /\ out[s].pc = "header" \/ (out[s].pc = "body" /\ (out[s].next < out[s].queued \/ out[s].closing))
  /\ IF Live(From(s)) THEN Uses("fail") ELSE UNCHANGED left
  /\ out' = [out EXCEPT ![s].pc = "broken"]
  /\ UNCHANGED <<fixed, state, wire, into, rpc>>

Sends(s) == SendHeader(s) \/ SendChunk(s) \/ SendTrailer(s) \/ SendFails(s)

ToggleEncryption(p) ==
  /\ Uses("toggle")
  /\ encrypting' = [encrypting EXCEPT ![p] = ~@]
  /\ UNCHANGED <<fixed, room, gone, handles, wire, out, into, rpc>>

-----------------------------------------------------------------------------
(* Receiving: IncomingDataStreamManager. *)

\* What a packet does to a page: the readers, the calls it serves, the packets it
\* answers with, and whether its handler throws.
At(p) == [into |-> into, serve |-> serve, answers |-> <<>>, throws |-> FALSE]

SizeKnown(s) == stream[s].known
Failed(r, why) == [r EXCEPT !.source = IF @ = "open" THEN "errored" ELSE @, !.mapped = FALSE, !.pipe = <<>>,
                            !.read = IF @ = "reading" /\ r.source = "open" THEN why ELSE @]

\* The reader a header makes; in one packet, its stream is complete.
InlineStream(s) == [NoReader EXCEPT !.source = "closed", !.pipe = <<[idx |-> 0, n |-> stream[s].size]>>]
NewReader(s, packet) ==
  IF packet.n = Inline
  THEN [InlineStream(s) EXCEPT !.read = "reading", !.encrypted = packet.encrypted]
  ELSE [NoReader EXCEPT !.source = "open", !.mapped = TRUE, !.read = "reading", !.encrypted = packet.encrypted]

\* A request that is a stream is acknowledged at its header.
RequestOpens(acc, c) ==
  IF acc.serve[c].pc # "none" THEN acc
  ELSE [acc EXCEPT !.serve[c].pc = "reading", !.answers = Append(@, Packet("ack", c, 0))]

HandleStreamHeader(p, acc, packet) ==
  LET s == packet.id
      heard == [acc EXCEPT !.into[s] = [NewReader(s, packet) EXCEPT !.late = gone[p]]] IN
  IF ~IsCall(s) /\ "topic" \notin handles[p] THEN acc
  ELSE IF packet.n # Inline /\ acc.into[s].mapped THEN [acc EXCEPT !.throws = TRUE]
  ELSE IF IsCall(s) /\ s = Request[CallOf(s)] THEN RequestOpens(heard, CallOf(s)) ELSE heard

\* A chunk for a stream whose pipe was cancelled cannot be enqueued.
HandleStreamChunk(acc, packet) ==
  LET s == packet.id
      r == acc.into[s] IN
  IF ~r.mapped THEN acc
  ELSE IF r.encrypted # packet.encrypted THEN [acc EXCEPT !.into[s] = Failed(r, "encryption mismatch")]
  ELSE IF r.source = "cancelled" THEN [acc EXCEPT !.throws = TRUE]
  ELSE [acc EXCEPT !.into[s].pipe = Append(@, [idx |-> packet.n, n |-> 1])]

HandleStreamTrailer(acc, packet) ==
  LET s == packet.id
      r == acc.into[s] IN
  IF ~r.mapped THEN acc
  ELSE IF r.encrypted # packet.encrypted THEN [acc EXCEPT !.into[s] = Failed(r, "encryption mismatch")]
  ELSE IF r.source = "cancelled" THEN [acc EXCEPT !.throws = TRUE]
  ELSE [acc EXCEPT !.into[s].source = "closed", !.into[s].mapped = FALSE]

HandleDataStreamPacket(p, acc, packet) ==
  CASE packet.kind = "header"  -> HandleStreamHeader(p, acc, packet)
    [] packet.kind = "chunk"   -> HandleStreamChunk(acc, packet)
    [] packet.kind = "trailer" -> HandleStreamTrailer(acc, packet)

\* The packets held back are handled in their order, up to one whose handler throws.
FlushBufferedPackets(p) ==
  FoldLeft(LAMBDA acc, packet : IF acc.throws THEN [acc EXCEPT !.skipped = @ \union {packet.id}]
                                ELSE HandleDataStreamPacket(p, acc, packet),
           [skipped |-> {}] @@ At(p), held[p])

Reading(s) == into[s].read = "reading"

\* Mutant: a chunk that came already counts again.
DuplicateOfOther(r, chunk) == chunk.idx < r.last

\* A chunk seen before is dropped, and a gap ends the pipe.
Duplicate(r, chunk) == chunk.idx <= r.last
Gap(r, chunk)       == chunk.idx > r.last + 1
\* More bytes than were announced end the reading, and so does an end with fewer.
BytesReceived(s, r, got, end) ==
  CASE SizeKnown(s) /\ got > stream[s].size -> "length exceeded"
    [] end /\ SizeKnown(s) /\ got < stream[s].size -> "incomplete"
    [] OTHER -> IF end THEN "done" ELSE r.read

ReadChunk(s) ==
  /\ Reading(s) /\ into[s].pipe # <<>>
  /\ LET r == into[s]
         chunk == Head(r.pipe)
         got == r.got + chunk.n IN
     into' = [into EXCEPT ![s] =
       CASE Duplicate(r, chunk) -> [r EXCEPT !.pipe = Tail(@)]
         [] Gap(r, chunk) -> [r EXCEPT !.pipe = <<>>, !.read = "incomplete",
                                       !.source = IF @ = "open" THEN "cancelled" ELSE @]
         [] OTHER -> [r EXCEPT !.pipe = Tail(@), !.last = chunk.idx, !.got = got,
                               !.read = BytesReceived(s, r, got, FALSE)]]
  /\ UNCHANGED <<fixed, left, state, wire, out, rpc>>

ReadEnd(s) ==
  /\ Reading(s) /\ into[s].pipe = <<>> /\ into[s].source = "closed"
  /\ into' = [into EXCEPT ![s].read = BytesReceived(s, into[s], into[s].got, TRUE)]
  /\ UNCHANGED <<fixed, left, state, wire, out, rpc>>

\* The application stops reading; nothing tells the controller.
AbortRead(s) ==
  /\ s \in Own /\ Reading(s) /\ Uses("abort")
  /\ into' = [into EXCEPT ![s].read = "aborted"]
  /\ UNCHANGED <<fixed, state, wire, out, rpc>>

\* A handler is registered, or taken away, for the topic or for the method.
Register(p, what) ==
  /\ Uses("handler") /\ what \notin handles[p]
  /\ handles' = [handles EXCEPT ![p] = @ \union {what}]
  /\ UNCHANGED <<fixed, room, gone, encrypting, wire, out, into, rpc>>

Unregister(p, what) ==
  /\ Uses("handler") /\ what \in handles[p]
  /\ handles' = [handles EXCEPT ![p] = @ \ {what}]
  /\ UNCHANGED <<fixed, room, gone, encrypting, wire, out, into, rpc>>

-----------------------------------------------------------------------------
(* Calling: RpcClientManager. *)

\* Mutant: the entry for the acknowledgement stays.
FinishedAwaitingAck(k) ==
  IF k.pc # "waiting" \/ k.result = "pending" THEN k ELSE [k EXCEPT !.pc = "settled", !.responseTimer = FALSE]

\* The completion promise has settled, and its finally clears what is left, once
\* performRpc has come to the point where it is attached.
Finished(k) ==
  IF k.pc # "waiting" \/ k.result = "pending" THEN k
  ELSE [k EXCEPT !.pc = "settled", !.responseTimer = FALSE, !.ack = FALSE, !.ackTimer = IF k.ack THEN FALSE ELSE @]

Settled(k, result) == Finished([k EXCEPT !.result = IF @ = "pending" THEN result ELSE @])

\* The request goes out as a stream, or as a packet whose sending is not awaited.
PublishRpcRequest(c) ==
  IF calls[c].streamed
  THEN /\ \E how \in {"inline", "chunks"} : out' = [out EXCEPT ![Request[c]] = Opened(how, stream[Request[c]].size)]
       /\ UNCHANGED link
  ELSE SendDataPacket(calls[c].from, Packet("request", c, 0)) /\ UNCHANGED out

PerformRpc(c) ==
  /\ call[c] = NoCall /\ Live(calls[c].from) /\ calls[c].used
  /\ LET started == [NoCall EXCEPT !.ack = TRUE, !.response = TRUE, !.ackTimer = TRUE] IN
     IF calls[c].large /\ ~calls[c].streamed
     THEN call' = [call EXCEPT ![c].pc = "thrown"] /\ UNCHANGED <<out, link>>
     ELSE /\ call' = [call EXCEPT ![c] = IF calls[c].streamed THEN [started EXCEPT !.pc = "publishing"]
                                        ELSE [started EXCEPT !.pc = "waiting", !.responseTimer = TRUE]]
          /\ PublishRpcRequest(c)
  /\ UNCHANGED <<fixed, left, state, held, lost, into, serve>>

\* The request was sent, or could not be: then the entries are left to the ack timer.
Published(c) ==
  /\ call[c].pc = "publishing" /\ out[Request[c]].pc \in {"sent", "broken"}
  /\ call' = [call EXCEPT ![c] = IF out[Request[c]].pc = "broken" THEN [@ EXCEPT !.pc = "thrown"]
                                 ELSE Finished([@ EXCEPT !.pc = "waiting", !.responseTimer = TRUE])]
  /\ UNCHANGED <<fixed, left, state, wire, out, into, serve>>

AckTimeout(c) ==
  /\ call[c].ackTimer
  /\ call' = [call EXCEPT ![c] = Settled([@ EXCEPT !.ackTimer = FALSE, !.ack = FALSE, !.response = FALSE,
                                                   !.responseTimer = FALSE], "connection timeout")]
  /\ UNCHANGED <<fixed, left, state, wire, out, into, serve>>

ResponseTimeout(c) ==
  /\ call[c].responseTimer
  /\ call' = [call EXCEPT ![c] = Settled([@ EXCEPT !.responseTimer = FALSE, !.response = FALSE], "response timeout")]
  /\ UNCHANGED <<fixed, left, state, wire, out, into, serve>>

HandleIncomingRpcAck(k) == IF k.ack THEN [k EXCEPT !.ack = FALSE, !.ackTimer = FALSE, !.acked = TRUE] ELSE k
HandleIncomingRpcResponse(k, result) == IF k.response THEN Settled([k EXCEPT !.response = FALSE], result) ELSE k

\* The stream of the answer was read, or not.
ResponseRead(c) ==
  LET r == Response[c] IN
  /\ into[r].read \notin {"none", "reading", "handled"}
  /\ into' = [into EXCEPT ![r].read = "handled"]
  /\ call' = [call EXCEPT ![c] = HandleIncomingRpcResponse(@, IF into[r].read = "done" THEN "ok" ELSE "unreadable")]
  /\ UNCHANGED <<fixed, left, state, wire, out, serve>>

\* The one who is called has left.
RecipientDisconnected(k) ==
  LET dropped == [k EXCEPT !.ack = FALSE] IN
  IF k.response THEN Settled([dropped EXCEPT !.response = FALSE], "recipient disconnected") ELSE dropped

-----------------------------------------------------------------------------
(* Being called: RpcServerManager. *)

\* Without a handler for the method, the call is answered so.
HandleMethod(p, s) ==
  IF "method" \in handles[p] THEN [pc |-> "handling", runs |-> s.runs + 1] ELSE [s EXCEPT !.pc = "answered"]
Unsupported(p, c) == IF "method" \in handles[p] THEN <<>> ELSE << Packet("response", c, 0) >>

HandleIncomingRpcRequest(p, acc, c) ==
  [acc EXCEPT !.serve[c] = HandleMethod(p, @), !.answers = @ \o << Packet("ack", c, 0) >> \o Unsupported(p, c)]

\* The stream of the request was read, or not.
RequestRead(c) ==
  LET q == Request[c]
      p == Callee(c)
      whole == into[q].read = "done" IN
  /\ serve[c].pc = "reading" /\ into[q].read \notin {"none", "reading"}
  /\ serve' = [serve EXCEPT ![c] = IF whole THEN HandleMethod(p, @) ELSE [@ EXCEPT !.pc = "answered"]]
  /\ Answer(p, IF whole THEN Unsupported(p, c) ELSE << Packet("response", c, 0) >>)
  /\ UNCHANGED <<fixed, left, state, held, lost, out, into, call>>

\* What a method returns goes back as a stream to a client that can, and otherwise if it is
\* small enough.
PublishRpcResponse(c) ==
  IF calls[c].back
  THEN /\ \E how \in {"inline", "chunks"} : out' = [out EXCEPT ![Response[c]] = Opened(how, stream[Response[c]].size)]
       /\ UNCHANGED link
  ELSE Answer(Callee(c), << Packet("response", c, IF calls[c].large THEN 0 ELSE 1) >>) /\ UNCHANGED out

HandlerReturns(c) ==
  /\ serve[c].pc = "handling"
  /\ serve' = [serve EXCEPT ![c].pc = "answered"]
  /\ PublishRpcResponse(c)
  /\ UNCHANGED <<fixed, left, state, held, lost, into, call>>

HandlerFails(c) ==
  /\ serve[c].pc = "handling"
  /\ serve' = [serve EXCEPT ![c].pc = "answered"]
  /\ Answer(Callee(c), << Packet("response", c, 0) >>)
  /\ UNCHANGED <<fixed, left, state, held, lost, out, into, call>>

-----------------------------------------------------------------------------
(* The room. *)

\* A packet that a page answers, or that a stream is made of.
Receive(p, packet) ==
  LET acc == IF packet.kind = "request" THEN HandleIncomingRpcRequest(p, At(p), packet.id)
             ELSE HandleDataStreamPacket(p, At(p), packet) IN
  /\ into' = acc.into /\ serve' = acc.serve
  /\ link' = [link EXCEPT ![p] = Tail(@), ![Other(p)] = @ \o Sealed(p, acc.answers)]
  /\ UNCHANGED <<call, held>>

Deliver(p) ==
  /\ link[p] # <<>>
  /\ LET packet == Head(link[p])
         taken == [link EXCEPT ![p] = Tail(@)] IN
     CASE ~Live(p) -> link' = taken /\ UNCHANGED <<call, held, into, serve>>
       [] Live(p) /\ packet.kind \in {"header", "chunk", "trailer"} /\ room[p] = "reconnecting" ->
            /\ held' = [held EXCEPT ![p] = Append(@, packet)]
            /\ link' = taken /\ UNCHANGED <<call, into, serve>>
       [] Live(p) /\ packet.kind = "ack" ->
            /\ call' = [call EXCEPT ![packet.id] = HandleIncomingRpcAck(@)]
            /\ link' = taken /\ UNCHANGED <<held, into, serve>>
       [] Live(p) /\ packet.kind = "response" ->
            /\ call' = [call EXCEPT ![packet.id] = HandleIncomingRpcResponse(@, IF packet.n = 1 THEN "ok" ELSE "error")]
            /\ link' = taken /\ UNCHANGED <<held, into, serve>>
       [] OTHER -> Receive(p, packet)
  /\ UNCHANGED <<fixed, left, state, lost, out>>

\* Around a reconnect of either side the channel loses a packet or repeats one.
LosePacket(p) ==
  /\ link[p] # <<>> /\ Uses("fault")
  /\ link' = [link EXCEPT ![p] = Tail(@)] /\ lost' = lost \union {Head(link[p]).id}
  /\ UNCHANGED <<fixed, state, held, out, into, rpc>>

RepeatPacket(p) ==
  /\ link[p] # <<>> /\ Uses("fault")
  /\ Head(link[p]).kind \in {"header", "chunk", "trailer"} /\ Head(link[p]).n # Inline
  /\ link' = [link EXCEPT ![p] = <<Head(@)>> \o @]
  /\ UNCHANGED <<fixed, state, held, lost, out, into, rpc>>

Reconnecting(p) ==
  /\ room[p] = "connected" /\ Uses("reconnect")
  /\ room' = [room EXCEPT ![p] = "reconnecting"]
  /\ UNCHANGED <<fixed, gone, encrypting, handles, wire, out, into, rpc>>

Reconnected(p) ==
  /\ room[p] = "reconnecting"
  /\ room' = [room EXCEPT ![p] = "connected"]
  /\ held' = [held EXCEPT ![p] = <<>>]
  /\ LET acc == FlushBufferedPackets(p) IN
     /\ into' = acc.into /\ serve' = acc.serve /\ lost' = lost \union acc.skipped
     /\ Answer(p, acc.answers)
  /\ UNCHANGED <<fixed, left, gone, encrypting, handles, out, call>>

\* A text writer that is open is closed by the closing engine.
EngineClosing(p) ==
  [s \in Streams |-> IF From(s) = p /\ out[s].how = "text" /\ out[s].pc = "body"
                     THEN [out[s] EXCEPT !.closing = TRUE] ELSE out[s]]

\* The controllers are forgotten as they are, and their readers with them.
ClearControllers(p) == [s \in Streams |-> IF To(s) = p THEN [into[s] EXCEPT !.mapped = FALSE] ELSE into[s]]

LeaveRoom(p) ==
  /\ Live(p) /\ Uses("leave")
  /\ room' = [room EXCEPT ![p] = "ended"]
  /\ held' = [held EXCEPT ![p] = <<>>]
  /\ out' = EngineClosing(p) /\ into' = ClearControllers(p)
  /\ UNCHANGED <<fixed, gone, encrypting, handles, link, lost, rpc>>

\* Mutant: only calls hear that a participant left, its streams do not.
ParticipantDisconnectedCallsOnly(p) ==
  /\ ~Live(Other(p)) /\ Live(p) /\ ~gone[p]
  /\ gone' = [gone EXCEPT ![p] = TRUE]
  /\ call' = [c \in Calls |-> IF calls[c].from = p THEN RecipientDisconnected(call[c]) ELSE call[c]]
  /\ UNCHANGED <<fixed, left, room, encrypting, handles, wire, out, into, serve>>

\* handleParticipantDisconnected: the streams of the one who left end, and so do the
\* calls to it.
StreamsOf(p) == {s \in Streams : From(s) = p /\ into[s].mapped}
ParticipantDisconnected(p) ==
  /\ ~Live(Other(p)) /\ Live(p) /\ ~gone[p]
  /\ gone' = [gone EXCEPT ![p] = TRUE]
  /\ into' = [s \in Streams |-> IF s \in StreamsOf(Other(p)) THEN Failed(into[s], "abnormal end") ELSE into[s]]
  /\ call' = [c \in Calls |-> IF calls[c].from = p THEN RecipientDisconnected(call[c]) ELSE call[c]]
  /\ UNCHANGED <<fixed, left, room, encrypting, handles, wire, out, serve>>

-----------------------------------------------------------------------------

CallTimeouts(c) == AckTimeout(c) \/ ResponseTimeout(c)

\* What goes on by itself: sends that end, packets that arrive, a departure that
\* is announced, timers that fire and chunks that are read.
Progress ==
  \/ \E s \in Streams : Sends(s) \/ ReadChunk(s) \/ ReadEnd(s)
  \/ \E p \in Pages : Deliver(p) \/ ParticipantDisconnected(p)
  \/ \E c \in Calls : Published(c) \/ ResponseRead(c) \/ RequestRead(c) \/ CallTimeouts(c)

StreamsNext ==
  \/ Progress
  \/ \E s \in Streams : OpenStream(s) \/ Write(s) \/ CloseWriter(s) \/ AbortRead(s)
  \/ \E c \in Calls : PerformRpc(c) \/ HandlerReturns(c) \/ HandlerFails(c)
  \/ \E p \in Pages :
       \/ LosePacket(p) \/ RepeatPacket(p) \/ Reconnecting(p) \/ Reconnected(p) \/ LeaveRoom(p) \/ ToggleEncryption(p)
       \/ \E what \in {"topic", "method"} : Register(p, what) \/ Unregister(p, what)

StreamsSpec == StreamsInit /\ [][StreamsNext]_streamVars

\* The event loops of both pages and the network go on; every such step is one of finitely
\* many, so none is left undone for ever. A reconnect comes to an end, as the engine sees to
\* it. The application may never write, close or return.
StreamsFairSpec == StreamsSpec /\ WF_streamVars(Progress) /\ \A p \in Pages : []<>(room[p] # "reconnecting")

-----------------------------------------------------------------------------
StreamPackets == [kind : {"header", "chunk", "trailer", "request", "ack", "response"}, id : Streams \union Calls,
            n : Int, encrypted : BOOLEAN]

StreamsTypeOK ==
  /\ room \in [Pages -> {"connected", "reconnecting", "ended"}] /\ gone \in [Pages -> BOOLEAN]
  /\ encrypting \in [Pages -> BOOLEAN] /\ handles \in [Pages -> SUBSET {"topic", "method"}]
  /\ \A p \in Pages : link[p] \in Seq(StreamPackets) /\ held[p] \in Seq(StreamPackets)
  /\ lost \subseteq Streams \union Calls
  /\ \A s \in Streams :
       /\ out[s].pc \in {"idle", "header", "body", "sent", "broken"}
       /\ out[s].next \in 0..out[s].queued /\ out[s].queued \in 0..stream[s].size
       /\ into[s].source \in {"none", "open", "closed", "errored", "cancelled"}
       /\ into[s].mapped => into[s].source \in {"open", "cancelled"}
       /\ into[s].got \in 0..(stream[s].size + 1) /\ into[s].last \in -1..stream[s].size
  /\ \A c \in Calls :
       /\ call[c].pc \in {"idle", "publishing", "waiting", "settled", "thrown"}
       /\ call[c].pc = "settled" => call[c].result # "pending"
       /\ serve[c].pc \in {"none", "reading", "handling", "answered"} /\ serve[c].runs \in 0..1

\* Who has read a stream to its end has all of it if its size was announced, and if not,
\* what its sender had sent when it closed the stream, unless a packet was lost: chunks
\* that are missing, repeated or cut off are never taken for the whole.
ReadIsWhole ==
  \A s \in Streams : into[s].read = "done" =>
    IF SizeKnown(s) THEN into[s].got = stream[s].size
    ELSE s \notin lost => into[s].got = (IF out[s].how = "inline" THEN stream[s].size ELSE out[s].next)

\* A reading does not go on for ever: it ends when the sender has sent it all, or has left
\* since it began. A page that leaves forgets its readers, and a stream of which a packet
\* was lost may never end.
Overdue(s) ==
  /\ Reading(s) /\ Live(To(s)) /\ s \notin lost
  /\ out[s].pc = "sent" \/ (~Live(From(s)) /\ ~into[s].late)
ReadersEnd == []<>(\A s \in Streams : ~Overdue(s))

\* Every call that is made ends, whatever the network, the method or the other side do.
CallsSettle == []<>(\A c \in Calls : call[c].pc \notin {"publishing", "waiting"})

\* A call that has settled has no entry left that a late acknowledgement or answer could
\* find, and no timer but the one of an acknowledgement whose recipient left.
SettledLeavesNothing ==
  \A c \in Calls : call[c].pc = "settled" =>
    /\ ~call[c].ack /\ ~call[c].response /\ ~call[c].responseTimer
    /\ call[c].ackTimer => gone[calls[c].from]

\* A call whose request was acknowledged does not end for want of an acknowledgement.
AcknowledgedIsReached ==
  [][\A c \in Calls : call[c].acked /\ call[c].result = "pending" => call'[c].result # "connection timeout"]_streamVars

\* A method runs with the whole request, and the caller has its answer only of a run.
MethodsRunOnWholeRequests ==
  \A c \in Calls :
    /\ serve[c].runs > 0 /\ calls[c].streamed => into[Request[c]].read = "done"
    /\ call[c].result = "ok" => serve[c].runs = 1 /\ (calls[c].back => into[Response[c]].got = stream[Response[c]].size)

\* What is read, run and answered is whole.
ReadsAndRunsAreWhole == StreamsTypeOK /\ ReadIsWhole /\ MethodsRunOnWholeRequests

\* The entries of a call whose request could not be sent go with its ack timer: only one
\* that was acknowledged before the request was all sent leaves its entry behind.
ThrownIsForgotten ==
  []<>(\A c \in Calls : call[c].pc = "thrown" => ~call[c].ack /\ (call[c].response => call[c].acked))

\* Readers and calls end as they should, and what has ended is forgotten.
StreamsAndCallsEnd == ReadersEnd /\ CallsSettle /\ AcknowledgedIsReached /\ ThrownIsForgotten
=============================================================================

----------------------------- MODULE OutgoingDataTracks -----------------------------
(***************************************************************************)
(* room/data-track: the publisher's side of data tracks. OutgoingDataTrackManager  *)
(* keeps a descriptor per publication, by the handle the page gave it, and agrees  *)
(* on it with the server. What is pushed to a track is cut into packets, which the  *)
(* LossyDataChannel of data tracks sends as its buffer allows, and which the       *)
(* DataTrackDepacketizer of a subscriber puts together again.                    *)
(*                                                                         *)
(* A payload is its chunks, a chunk what fits a packet. A track is used in the       *)
(* session it was published in only.                                        *)
(***************************************************************************)
EXTENDS Integers, Sequences, FiniteSets, SequencesExt

CONSTANTS
  Pubs,        \* calls of publishDataTrack
  MaxHandle,   \* U16_MAX_SIZE, for handles
  Modulus,     \* U16_MAX_SIZE + 1, for sequence numbers
  MaxPartials, \* maxPartialFrames of the subscriber
  MaxBuffered, \* MAX_BUFFER_PACKETS
  HighWater,   \* of the channel, in packets; its low-water mark is 0
  Workloads    \* bound: what a run may do, see Init

ASSUME OutgoingAssumption ==
  /\ MaxHandle \in Nat /\ Modulus \in Nat \ {0} /\ MaxPartials \in Nat \ {0}
  /\ MaxBuffered \in Nat \ {0} /\ HighWater \in Nat

Kinds == {"publish", "unpublish", "lose", "disconnect", "connect", "refuse", "revoke", "push", "chunks", "flush", "loss", "reorder"}

ASSUME WorkloadsAssumption ==
  \A w \in Workloads :
    /\ w.left \in [Kinds -> Nat]
    /\ w.published \in Seq(Pubs) /\ Len(w.published) <= MaxHandle
    /\ \A i, j \in DOMAIN w.published : w.published[i] = w.published[j] => i = j

VARIABLES
  left,         \* bound: what of each kind may still happen
  allocated,    \* value of the DataTrackHandleAllocator
  descriptorMap,  \* the descriptors, in the order of the map
  calls,        \* of each publication: how its call stands, its handle, whether onAbort is attached
  unpublishing, \* of each publication: whether an unpublish waits for its unpublishingFuture
  flush,        \* of each LocalDataTrack: whether it is flushed, is waited for, listens to the manager
  inFlight,     \* inFlightPacketCounter
  resetting,    \* how far reset got in the descriptors, or 0
  connection,   \* of the engine
  signal,       \* requests on the way, those held, answers on the way
  server,       \* the handles published at the server
  pushes,       \* frames whose packets are being made
  packetizer,   \* of each publication: the next sequence and frame numbers
  channel,      \* the buffer, the packets that wait for headroom, and where the first of them is
  net,          \* packets on the way to the subscriber
  partials,     \* of each handle: the frames the subscriber has packets of, the oldest first
  frames,       \* made, delivered, and those something happened to
  orphans       \* history: handles the server and the page disagree on

manager == <<allocated, descriptorMap, calls, unpublishing, resetting>>
wire    == <<connection, signal, server, orphans>>
flow    == <<flush, inFlight>>
sent    == <<pushes, packetizer, channel>>
arrived == <<net, partials>>
outVars == <<left, manager, wire, flow, sent, arrived, frames>>

Spends(what) == left[what] > 0 /\ left' = [left EXCEPT ![what] = @ - 1]

NoCall  == [at |-> "none", handle |-> 0, listening |-> FALSE]
NoFlush == [flushed |-> TRUE, waits |-> FALSE, attached |-> FALSE]

OutInit ==
  \E w \in Workloads :
    /\ left = w.left
    /\ allocated = Len(w.published)
    /\ descriptorMap = [i \in DOMAIN w.published |-> [handle |-> i, pub |-> w.published[i], type |-> "active", state |-> "published"]]
    /\ calls = [p \in Pubs |-> IF p \in ToSet(w.published)
                                 THEN [at |-> "published", handle |-> CHOOSE i \in DOMAIN w.published : w.published[i] = p, listening |-> FALSE]
                                 ELSE NoCall]
    /\ unpublishing = [p \in Pubs |-> FALSE]
    /\ flush = [p \in Pubs |-> [NoFlush EXCEPT !.attached = p \in ToSet(w.published)]]
    /\ inFlight = [h \in 1..MaxHandle |-> 0] /\ resetting = 0
    /\ connection = "up" /\ signal = [requests |-> <<>>, held |-> <<>>, answers |-> <<>>]
    /\ server = DOMAIN w.published /\ orphans = {}
    /\ pushes = <<>> /\ \E n \in {0, Modulus - 1} : packetizer = [p \in Pubs |-> [sequence |-> n, frame |-> 0]]
    /\ channel = [buffered |-> 0, waiting |-> <<>>, first |-> "checks"]
    /\ net = <<>> /\ partials = [h \in 1..MaxHandle |-> <<>>]
    /\ frames = [made |-> 0, chunks |-> <<>>, delivered |-> <<>>, disturbed |-> {}]

-----------------------------------------------------------------------------
(* The manager. *)

Of(h) == {i \in DOMAIN descriptorMap : descriptorMap[i].handle = h}
At(h) == CHOOSE i \in Of(h) : TRUE
Known(h) == Of(h) # {}
Without(h) == RemoveAt(descriptorMap, At(h))

\* sendRequest: held during a resume and while others are held, dropped without a connection.
WithRequests(s, rs) ==
  IF connection = "resuming" \/ s.held # <<>> THEN [s EXCEPT !.held = @ \o rs]
  ELSE IF connection = "up" THEN [s EXCEPT !.requests = @ \o rs] ELSE s
Sends(op, h) == signal' = WithRequests(signal, <<[op |-> op, handle |-> h]>>)

PublishRequest(p) ==
  LET h == allocated + 1 IN
  /\ Spends("publish") /\ calls[p].at = "none"
  /\ allocated' = h
  /\ IF h > MaxHandle \/ Known(h)
       THEN /\ calls' = [calls EXCEPT ![p].at = "failed"]
            /\ UNCHANGED <<descriptorMap, signal>>
       ELSE /\ calls' = [calls EXCEPT ![p] = [at |-> "waiting", handle |-> h, listening |-> TRUE]]
            /\ descriptorMap' = Append(descriptorMap, [handle |-> h, pub |-> p, type |-> "pending", state |-> "published"])
            /\ Sends("publish", h)
  /\ UNCHANGED <<unpublishing, resetting, connection, server, orphans, flow, sent, arrived, frames>>

\* Mutant: the call is not settled when it is aborted.
AbortUnsettled(p) ==
  LET h == calls[p].handle IN
  /\ calls[p].listening /\ UNCHANGED left
  /\ IF Known(h) THEN descriptorMap' = Without(h) /\ Sends("unpublish", h) ELSE UNCHANGED <<descriptorMap, signal>>
  /\ calls' = [calls EXCEPT ![p].listening = FALSE]
  /\ UNCHANGED <<allocated, unpublishing, resetting, connection, server, orphans, flow, sent, arrived, frames>>

\* The timeout, or the application: onAbort is for whatever has the handle by then.
Abort(p) ==
  LET h == calls[p].handle d == descriptorMap[At(h)] IN
  /\ calls[p].listening /\ UNCHANGED left
  /\ IF Known(h)
       THEN /\ descriptorMap' = Without(h) /\ Sends("unpublish", h)
            /\ resetting' = IF At(h) < resetting THEN resetting - 1 ELSE resetting
            /\ calls' = [q \in Pubs |-> [calls[q] EXCEPT !.listening = @ /\ q # p,
                                           !.at = IF q = d.pub /\ d.type = "pending" THEN "failed" ELSE @]]
            /\ orphans' = IF d.pub # p THEN orphans \union {h} ELSE orphans
       ELSE calls' = [calls EXCEPT ![p].listening = FALSE] /\ UNCHANGED <<descriptorMap, resetting, signal, orphans>>
  /\ UNCHANGED <<allocated, unpublishing, connection, server, flow, sent, arrived, frames>>

InSession(p) == calls[p].at = "published"

\* Mutant: the page does not tell the server.
UnpublishUnsent(p) ==
  /\ Spends("unpublish") /\ InSession(p) /\ ~unpublishing[p] /\ Known(calls[p].handle)
  /\ descriptorMap' = Without(calls[p].handle)
  /\ UNCHANGED <<allocated, calls, unpublishing, resetting, wire, flow, sent, arrived, frames>>

UnpublishRequest(p) ==
  LET h == calls[p].handle IN
  /\ Spends("unpublish") /\ InSession(p) /\ ~unpublishing[p]
  /\ Known(h) /\ descriptorMap[At(h)].type = "active"
  /\ Sends("unpublish", h) /\ unpublishing' = [unpublishing EXCEPT ![p] = TRUE]
  /\ UNCHANGED <<allocated, descriptorMap, calls, resetting, connection, server, orphans, flow, sent, arrived, frames>>

Answered == Head(signal.answers)
Hears == signal.answers # <<>> /\ signal' = [signal EXCEPT !.answers = Tail(@)]

\* receivedSfuPublishResponse deletes the descriptor before it looks at it.
PublishAnswered ==
  LET h == Answered.handle d == descriptorMap[At(h)] IN
  /\ Hears /\ Answered.op \in {"published", "refused"}
  /\ IF ~Known(h) THEN UNCHANGED <<descriptorMap, calls, flush, orphans>> ELSE
     LET good == Answered.op = "published" /\ (d.type = "pending" \/ d.state = "republishing") IN
       /\ descriptorMap' = IF good THEN Append(Without(h), [d EXCEPT !.type = "active", !.state = "published"]) ELSE Without(h)
       /\ calls' = IF d.type # "pending" THEN calls
                   ELSE [calls EXCEPT ![d.pub].at = IF good THEN "published" ELSE "failed", ![d.pub].listening = @ /\ ~good]
       /\ flush' = IF d.type = "pending" /\ good THEN [flush EXCEPT ![d.pub].attached = TRUE] ELSE flush
       /\ orphans' = IF d.type = "active" /\ ~good THEN orphans \union {h} ELSE orphans
  /\ UNCHANGED <<left, allocated, unpublishing, resetting, connection, server, inFlight, sent, arrived, frames>>

Unpublished(p) == unpublishing' = [unpublishing EXCEPT ![p] = FALSE]

UnpublishAnswered ==
  LET h == Answered.handle d == descriptorMap[At(h)] IN
  /\ Hears /\ Answered.op = "unpublished"
  /\ IF ~Known(h) THEN UNCHANGED <<descriptorMap, unpublishing, inFlight>>
     ELSE /\ descriptorMap' = Without(h) /\ Unpublished(d.pub)
          /\ inFlight' = IF unpublishing[d.pub] THEN [inFlight EXCEPT ![h] = 0] ELSE inFlight
  /\ UNCHANGED <<left, allocated, calls, resetting, connection, server, orphans, flush, sent, arrived, frames>>

-----------------------------------------------------------------------------
(* The session: a resume, a restart after it, the end, and the next connection. *)

\* packetsFlushedChange, which every LocalDataTrack listens to
FlushedChange(isFlushed) ==
  flush' = [p \in Pubs |-> IF ~flush[p].attached THEN flush[p]
                            ELSE [flush[p] EXCEPT !.flushed = isFlushed, !.waits = @ /\ ~isFlushed]]

\* handlePacketSendComplete for a packet of handle h that has been counted in counts
Completes(counts, h) ==
  LET n == IF counts[h] > 0 THEN counts[h] - 1 ELSE 0 IN
  /\ inFlight' = [counts EXCEPT ![h] = n]
  /\ IF n = 0 THEN FlushedChange(TRUE) ELSE UNCHANGED flush

\* The channel and what it had on the way go: who waits for headroom fails, which completes its packet.
TornDown ==
  LET counts == [h \in DOMAIN inFlight |-> LET n == Cardinality({j \in DOMAIN channel.waiting : channel.waiting[j].handle = h})
                                           IN IF n > inFlight[h] THEN 0 ELSE inFlight[h] - n]
      cut == ToSet(net) \union ToSet(channel.waiting)
      held == {q.payloads : q \in UNION {ToSet(partials[h]) : h \in DOMAIN partials}}
  IN
  /\ inFlight' = counts
  /\ IF \E k \in ToSet(channel.waiting) : counts[k.handle] = 0 THEN FlushedChange(TRUE) ELSE UNCHANGED flush
  /\ channel' = [buffered |-> 0, waiting |-> <<>>, first |-> "checks"]
  /\ net' = <<>> /\ partials' = [h \in DOMAIN partials |-> <<>>]
  /\ frames' = [frames EXCEPT !.disturbed = @ \union {k.frame : k \in cut} \union {c.chunk.frame : c \in UNION held}]
  /\ UNCHANGED <<pushes, packetizer>>

Lose ==
  /\ connection = "up" /\ Spends("lose")
  /\ connection' = "resuming"
  /\ signal' = [signal EXCEPT !.requests = <<>>, !.answers = <<>>]
  /\ orphans' = orphans \union {r.handle : r \in ToSet(signal.requests) \union ToSet(signal.answers)}
  /\ UNCHANGED <<manager, server, flow, sent, arrived, frames>>

Resumed ==
  /\ connection = "resuming" /\ connection' = "up"
  /\ signal' = [signal EXCEPT !.requests = signal.held, !.held = <<>>]
  /\ UNCHANGED <<left, manager, server, orphans, flow, sent, arrived, frames>>

InvalidateWaiters ==
  /\ connection = "resuming" /\ connection' = "restarting" /\ server' = {}
  /\ TornDown
  /\ UNCHANGED <<left, manager, signal, orphans>>

Has(p) == \E i \in DOMAIN descriptorMap : descriptorMap[i].pub = p

\* sfuWillRepublishTracks, after the requests that were held
SfuWillRepublishTracks ==
  LET active == {i \in DOMAIN descriptorMap : descriptorMap[i].type = "active"}
      rank(i) == Cardinality({j \in active : j <= i})
      republished == [k \in 1..Cardinality(active) |-> descriptorMap[CHOOSE i \in active : rank(i) = k]]
      requests == [i \in DOMAIN republished |-> [op |-> "publish", handle |-> republished[i].handle]]
  IN
  /\ connection = "restarting" /\ connection' = "up"
  /\ signal' = [signal EXCEPT !.requests = signal.held \o requests, !.held = <<>>]
  /\ descriptorMap' = [i \in DOMAIN republished |-> [republished[i] EXCEPT !.state = "republishing"]]
  /\ calls' = [p \in Pubs |-> IF calls[p].at = "waiting" /\ Has(p) THEN [calls[p] EXCEPT !.at = "failed"] ELSE calls[p]]
  /\ orphans' = orphans \union {r.handle : r \in ToSet(signal.held)} \union {calls[p].handle : p \in {q \in Pubs : InSession(q) /\ unpublishing[q]}}
  /\ UNCHANGED <<left, allocated, unpublishing, resetting, server, flow, sent, arrived, frames>>

\* handleDisconnect, which does not wait for reset; the page has no tracks of the session then. What
\* waits for an answer and has no descriptor is not told.
Disconnected ==
  /\ connection # "gone" /\ Spends("disconnect")
  /\ connection' = "gone" /\ server' = {} /\ orphans' = {}
  /\ signal' = [requests |-> <<>>, held |-> <<>>, answers |-> <<>>]
  /\ allocated' = 0 /\ resetting' = 1
  /\ calls' = [p \in Pubs |->
       IF calls[p].handle \in orphans /\ ~Has(p) /\ (calls[p].at = "waiting" \/ unpublishing[p])
         THEN [calls[p] EXCEPT !.at = "stuck"]
       ELSE IF calls[p].at = "published" THEN [calls[p] EXCEPT !.at = "over"] ELSE calls[p]]
  /\ TornDown
  /\ UNCHANGED <<descriptorMap, unpublishing>>

\* reset goes on after the wait for a descriptor, over what is published meanwhile as well.
Resets ==
  LET rest == {i \in DOMAIN descriptorMap : i >= resetting}
      actives == {i \in rest : descriptorMap[i].type = "active"}
      i == CHOOSE j \in actives : \A k \in actives : j <= k
      done == {j \in rest : actives # {} => j <= i}
  IN
  /\ resetting > 0
  /\ calls' = [p \in Pubs |-> IF \E j \in done : descriptorMap[j].pub = p /\ descriptorMap[j].type = "pending"
                                THEN [calls[p] EXCEPT !.at = "failed"] ELSE calls[p]]
  /\ IF actives # {}
       THEN /\ resetting' = i + 1 /\ Unpublished(descriptorMap[i].pub)
            /\ inFlight' = [inFlight EXCEPT ![descriptorMap[i].handle] = 0]
            /\ UNCHANGED <<descriptorMap, flush>>
       ELSE /\ resetting' = 0 /\ descriptorMap' = <<>>
            /\ inFlight' = [h \in DOMAIN inFlight |-> 0]
            /\ flush' = [p \in Pubs |-> [flush[p] EXCEPT !.waits = FALSE, !.attached = FALSE]]
            /\ UNCHANGED unpublishing
  /\ UNCHANGED <<left, allocated, wire, sent, arrived, frames>>

Connects ==
  /\ connection = "gone" /\ resetting = 0 /\ Spends("connect") /\ connection' = "up"
  /\ UNCHANGED <<manager, signal, server, orphans, flow, sent, arrived, frames>>

\* The server serves a request, and may end a publication itself.
Served ==
  LET r == Head(signal.requests) IN
  /\ signal.requests # <<>>
  /\ \E good \in {TRUE, r.op = "unpublish"} :
       LET new == IF r.op = "unpublish" THEN "unpublished" ELSE IF good THEN "published" ELSE "refused" IN
       /\ good \/ Spends("refuse")
       /\ good => UNCHANGED left
       /\ server' = IF r.op = "unpublish" THEN server \ {r.handle} ELSE IF good THEN server \union {r.handle} ELSE server
       /\ signal' = [signal EXCEPT !.requests = Tail(@), !.answers = Append(@, [op |-> new, handle |-> r.handle])]
  /\ UNCHANGED <<manager, connection, orphans, flow, sent, arrived, frames>>

ServerUnpublishes(h) ==
  /\ Spends("revoke") /\ h \in server /\ connection = "up"
  /\ server' = server \ {h}
  /\ signal' = [signal EXCEPT !.answers = Append(@, [op |-> "unpublished", handle |-> h])]
  /\ UNCHANGED <<manager, connection, orphans, flow, sent, arrived, frames>>

-----------------------------------------------------------------------------
(* Pushing frames: tryPush, the packetizer, and the channel. *)

TryPush(p, n) ==
  LET h == calls[p].handle f == frames.made + 1 IN
  /\ Spends("push") /\ n <= left.chunks /\ InSession(p) /\ Known(h)
  /\ descriptorMap[At(h)].type = "active" /\ descriptorMap[At(h)].state = "published"
  /\ pushes' = Append(pushes, [pub |-> p, handle |-> h, frame |-> f, number |-> packetizer[p].frame, next |-> 1])
  /\ packetizer' = [packetizer EXCEPT ![p].frame = (@ + 1) % Modulus]
  /\ frames' = [frames EXCEPT !.made = f, !.chunks = Append(@, n),
                  !.disturbed = @ \union (IF pushes = <<>> THEN {} ELSE {f} \union {pushes[i].frame : i \in DOMAIN pushes})]
  /\ UNCHANGED <<manager, wire, flow, channel, arrived>>

Marker(k, n) == IF n = 1 THEN "single" ELSE IF k = 1 THEN "start" ELSE IF k = n THEN "final" ELSE "inter"

\* dc.send: skipped during a reconnect; a packet may overtake one of its frame that waits.
Transmits(packet) ==
  LET overtaken == {channel.waiting[j].frame : j \in {k \in DOMAIN channel.waiting : channel.waiting[k].frame # packet.frame \/ channel.waiting[k].chunk < packet.chunk}} IN
  IF connection = "up"
    THEN /\ net' = Append(net, packet)
         /\ frames' = IF overtaken = {} THEN frames ELSE [frames EXCEPT !.disturbed = @ \union overtaken \union {packet.frame}]
    ELSE UNCHANGED net /\ frames' = [frames EXCEPT !.disturbed = @ \union {packet.frame}]

\* The channel has the buffer full or not; the packet that comes does not look at those that wait.
MakesPacket(i) ==
  LET push == pushes[i] p == push.pub h == push.handle n == frames.chunks[push.frame]
      packet == [handle |-> h, frame |-> push.frame, number |-> push.number, sequence |-> packetizer[p].sequence,
                 marker |-> Marker(push.next, n), chunk |-> push.next]
      counts == [inFlight EXCEPT ![h] = @ + 1]
  IN
  /\ packetizer' = [packetizer EXCEPT ![p].sequence = (@ + 1) % Modulus]
  /\ pushes' = IF push.next = n THEN RemoveAt(pushes, i) ELSE [pushes EXCEPT ![i].next = @ + 1]
  /\ IF channel.buffered > HighWater
       THEN /\ channel' = [channel EXCEPT !.waiting = Append(@, packet)]
            /\ inFlight' = counts
            /\ IF inFlight[h] = 0 THEN FlushedChange(FALSE) ELSE UNCHANGED flush
            /\ UNCHANGED <<net, frames>>
       ELSE /\ Transmits(packet)
            /\ channel' = IF connection = "up" THEN [channel EXCEPT !.buffered = @ + 1] ELSE channel
            /\ Completes(counts, h)
  /\ UNCHANGED <<left, manager, wire, partials>>

\* The browser takes a packet of the buffer; the first that waits is told once it is empty.
Drains ==
  /\ channel.buffered > 0
  /\ channel' = [channel EXCEPT !.buffered = @ - 1, !.first = IF channel.buffered = 1 /\ @ = "parked" THEN "woken" ELSE @]
  /\ UNCHANGED <<left, manager, wire, flow, pushes, packetizer, arrived, frames>>

WaiterChecks ==
  LET packet == Head(channel.waiting) IN
  /\ channel.waiting # <<>> /\ channel.first # "parked"
  /\ IF channel.first = "checks" /\ channel.buffered > HighWater
       THEN channel' = [channel EXCEPT !.first = "parked"] /\ UNCHANGED <<flow, net, frames>>
       ELSE /\ Transmits(packet)
            /\ channel' = [buffered |-> channel.buffered + (IF connection = "up" THEN 1 ELSE 0),
                           waiting |-> Tail(channel.waiting), first |-> "checks"]
            /\ Completes(inFlight, packet.handle)
  /\ UNCHANGED <<left, manager, wire, pushes, packetizer, partials>>

Flush(p) ==
  /\ Spends("flush") /\ InSession(p) /\ ~flush[p].flushed
  /\ flush' = [flush EXCEPT ![p].waits = TRUE]
  /\ UNCHANGED <<manager, wire, inFlight, sent, arrived, frames>>

-----------------------------------------------------------------------------
(* The network loses and reorders packets; the depacketizer of the subscriber. *)

Lost(i) ==
  /\ Spends("loss") /\ i \in DOMAIN net
  /\ frames' = [frames EXCEPT !.disturbed = @ \union {net[i].frame}]
  /\ net' = RemoveAt(net, i)
  /\ UNCHANGED <<manager, wire, flow, sent, partials>>

PartialOf(ps, n) == {j \in DOMAIN ps : ps[j].number = n}
Newest(ps, n) == IF Len(ps) <= n THEN ps ELSE SubSeq(ps, Len(ps) - n + 1, Len(ps))
WithoutPartial(ps, n) == IF PartialOf(ps, n) = {} THEN ps ELSE RemoveAt(ps, CHOOSE j \in PartialOf(ps, n) : TRUE)
Delivers(payload) == [frames EXCEPT !.delivered = Append(@, payload)]
Chunk(k) == [at |-> k.sequence, chunk |-> [frame |-> k.frame, chunk |-> k.chunk]]

\* A packet that is a frame of its own makes the oldest partial give way if there are enough.
FrameFromSingle(k, ps) ==
  /\ k.marker = "single"
  /\ partials' = [partials EXCEPT ![k.handle] = Newest(ps, MaxPartials - 1)]
  /\ frames' = Delivers(<<Chunk(k).chunk>>)

BeginPartial(k, ps) ==
  LET new == [number |-> k.number, start |-> k.sequence, payloads |-> {Chunk(k)}]
      kept == Newest(ps, MaxPartials - 1)
  IN
  /\ k.marker = "start" /\ UNCHANGED frames
  /\ partials' = [partials EXCEPT ![k.handle] =
       IF PartialOf(kept, k.number) = {} THEN Append(kept, new)
       ELSE [j \in DOMAIN kept |-> IF kept[j].number = k.number THEN new ELSE kept[j]]]

\* Mutant: the frame is put together of what there is.
FinalizeUnchecked(q, end) ==
  LET got == {k \in 0..((end - q.start) % Modulus) : \E c \in q.payloads : c.at = (q.start + k) % Modulus} IN
  Delivers([i \in 1..Cardinality(got) |->
    (CHOOSE c \in q.payloads : Cardinality({k \in got : k < (c.at - q.start) % Modulus}) = i - 1).chunk])

\* The chunks from the start to the end, if they are all there
Finalize(q, end) ==
  LET n == (end - q.start) % Modulus IN
  IF \A k \in 0..n : \E c \in q.payloads : c.at = (q.start + k) % Modulus
    THEN Delivers([k \in 1..(n + 1) |-> (CHOOSE c \in q.payloads : c.at = (q.start + k - 1) % Modulus).chunk])
    ELSE frames

PushToPartial(k, ps) ==
  LET mine == PartialOf(ps, k.number) q == ps[CHOOSE j \in mine : TRUE]
      full == [q EXCEPT !.payloads = {c \in @ : c.at # k.sequence} \union {Chunk(k)}]
      drops == mine = {} \/ Cardinality(q.payloads) >= MaxBuffered
  IN
  /\ k.marker \in {"inter", "final"}
  /\ partials' = [partials EXCEPT ![k.handle] =
       IF drops \/ k.marker = "final" THEN WithoutPartial(ps, k.number)
       ELSE [j \in DOMAIN ps |-> IF ps[j].number = k.number THEN full ELSE ps[j]]]
  /\ frames' = IF ~drops /\ k.marker = "final" THEN Finalize(full, k.sequence) ELSE frames

Arrives ==
  /\ net # <<>> /\ net' = Tail(net)
  /\ LET k == Head(net) ps == partials[k.handle] IN FrameFromSingle(k, ps) \/ BeginPartial(k, ps) \/ PushToPartial(k, ps)
  /\ UNCHANGED <<left, manager, wire, flow, sent>>

\* A packet is overtaken by the one sent after it.
Overtakes(i) ==
  /\ Spends("reorder") /\ i \in DOMAIN net /\ i > 1
  /\ net' = [net EXCEPT ![i - 1] = net[i], ![i] = net[i - 1]]
  /\ frames' = [frames EXCEPT !.disturbed = @ \union {net[i].frame, net[i - 1].frame}]
  /\ UNCHANGED <<manager, wire, flow, sent, partials>>

-----------------------------------------------------------------------------
Page ==
  \/ \E p \in Pubs : PublishRequest(p) \/ UnpublishRequest(p) \/ Flush(p) \/ \E n \in 1..3 : TryPush(p, n)
  \/ Disconnected \/ Connects

World ==
  \/ Lose \/ InvalidateWaiters \/ \E h \in 1..MaxHandle : ServerUnpublishes(h)
  \/ \E i \in DOMAIN net : Lost(i) \/ Overtakes(i)

OutProgress ==
  \/ \E p \in Pubs : Abort(p)
  \/ PublishAnswered \/ UnpublishAnswered \/ Resumed \/ SfuWillRepublishTracks \/ Resets \/ Served
  \/ (\E i \in DOMAIN pushes : MakesPacket(i)) \/ Drains \/ WaiterChecks \/ Arrives

OutNext == Page \/ World \/ OutProgress

OutgoingSpec == OutInit /\ [][OutNext]_outVars
-----------------------------------------------------------------------------
OutgoingTypeOK ==
  /\ allocated \in Nat /\ resetting \in Nat /\ server \subseteq 1..MaxHandle /\ orphans \subseteq 1..MaxHandle
  /\ \A i \in DOMAIN descriptorMap : descriptorMap[i] \in [handle : 1..MaxHandle, pub : Pubs, type : {"pending", "active"}, state : {"published", "republishing"}]
  /\ calls \in [Pubs -> [at : {"none", "waiting", "published", "failed", "over", "stuck"}, handle : 0..MaxHandle, listening : BOOLEAN]]
  /\ unpublishing \in [Pubs -> BOOLEAN] /\ flush \in [Pubs -> [flushed : BOOLEAN, waits : BOOLEAN, attached : BOOLEAN]]
  /\ inFlight \in [1..MaxHandle -> Nat] /\ connection \in {"up", "resuming", "restarting", "gone"}
  /\ \A r \in ToSet(signal.requests \o signal.held \o signal.answers) :
       r \in [op : {"publish", "unpublish", "published", "refused", "unpublished"}, handle : 1..MaxHandle]
  /\ packetizer \in [Pubs -> [sequence : 0..(Modulus - 1), frame : 0..(Modulus - 1)]]
  /\ channel.buffered \in Nat /\ channel.first \in {"checks", "parked", "woken"}
  /\ \A k \in ToSet(net \o channel.waiting) :
       k \in [handle : 1..MaxHandle, frame : 1..frames.made, number : 0..(Modulus - 1), sequence : 0..(Modulus - 1),
               marker : {"single", "start", "inter", "final"}, chunk : Nat]
  /\ \A h \in 1..MaxHandle : Len(partials[h]) <= MaxPartials

\* What a subscriber is given of a track are frames that were pushed, whole and once; and every one of
\* them that a subscriber has room for, unless a packet of it was lost or overtaken, or it was pushed
\* while another was.
FramesArrive ==
  LET f(i) == frames.delivered[i][1].frame IN
  /\ \A i \in DOMAIN frames.delivered :
       /\ frames.delivered[i] = [k \in 1..frames.chunks[f(i)] |-> [frame |-> f(i), chunk |-> k]]
       /\ \A j \in DOMAIN frames.delivered : f(i) = f(j) => i = j
  /\ pushes = <<>> /\ channel.waiting = <<>> /\ net = <<>> =>
       \A g \in 1..frames.made : g \in frames.disturbed \/ frames.chunks[g] > MaxBuffered \/ \E i \in DOMAIN frames.delivered : f(i) = g

\* A call waits exactly as long as its descriptor is pending; once nothing is on the way, the server
\* publishes what the page takes for published, and nobody waits for an unpublish, except of tracks
\* whose messages were lost or that were asked for or unpublished in the middle of a reconnect.
PublicationsAgree ==
  LET active(h) == Known(h) /\ descriptorMap[At(h)].type = "active" IN
  /\ OutgoingTypeOK
  /\ \A i, j \in DOMAIN descriptorMap : descriptorMap[i].handle = descriptorMap[j].handle => i = j
  /\ \A p \in Pubs : calls[p].at = "waiting" /\ calls[p].handle \notin orphans =>
       \E i \in DOMAIN descriptorMap : descriptorMap[i].type = "pending" /\ descriptorMap[i].pub = p /\ descriptorMap[i].handle = calls[p].handle
  /\ connection = "up" /\ signal.requests = <<>> /\ signal.answers = <<>> =>
       /\ \A h \in (1..MaxHandle) \ orphans : active(h) <=> h \in server
       /\ \A p \in Pubs : unpublishing[p] => calls[p].handle \in orphans \/ calls[p].at = "stuck"

\* Every publish call, every flush and every push ends, and so does a reset.
OutgoingSettles ==
  []<>(/\ resetting = 0 /\ pushes = <<>> /\ channel.waiting = <<>>
       /\ \A p \in Pubs : (calls[p].at = "waiting" => calls[p].handle \in orphans) /\ ~flush[p].waits)
=============================================================================

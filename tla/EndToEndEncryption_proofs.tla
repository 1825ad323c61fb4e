---------------------- MODULE EndToEndEncryption_proofs ----------------------
(***************************************************************************)
(* Proofs about the keys of page and worker, for any number of participants, *)
(* tracks, receivers, keys and frames, any size of the ring and of the window *)
(* and every session.                                                      *)
(*                                                                         *)
(* The invariant is Following. Keys, reports and the switch travel through a *)
(* queue each: the last message about a slot tells what the slot has, or will *)
(* have (KeysArrive, ReportsArrive, SwitchArrives). What a frame ratchets is *)
(* the key that it found, as long as nobody touched its slot (KeepsKey), and *)
(* a frame whose key is within reach is decrypted with the second ratchet it *)
(* takes part in at the latest (DueIsCaught).                              *)
(***************************************************************************)
EXTENDS EndToEndEncryption, SequenceTheorems, FiniteSetTheorems, WellFoundedInduction, TLAPS

-----------------------------------------------------------------------------
(* The types of all that there is. *)

\* Whom a key may be for: everybody, when it is shared.
Whos == IF shared THEN {None} ELSE Remotes \union {Local}

\* Messages to the worker, of keys for those of W, and back. A key is never 0.
Given            == Nat \ {0}
SetsKey(w, i)    == [kind : {"setKey"}, who : {w}, idx : {i}, key : Given, update : BOOLEAN]
SetsTo(w, i, k)  == [kind : {"setKey"}, who : {w}, idx : {i}, key : {k}, update : BOOLEAN]
KeyMessages(W)   == [kind : {"setKey"}, who : W, idx : Indices, key : Given, update : BOOLEAN]
EnableMessages   == [kind : {"enable"}, who : Remotes \union {Local}, on : BOOLEAN]
RatchetAsks(W)   == [kind : {"ratchetRequest"}, who : W, idx : Indices]
TrackMessages    ==
  [kind : {"decode"}, who : Remotes, track : Tracks, receiver : Receivers]
    \union [kind : {"updateCodec"}, who : Remotes, track : Tracks, previous : Tracks]
    \union [kind : {"removeTransform"}, who : Remotes, track : Tracks]
DataMessages     ==
  [kind : {"encode"}]
    \union [kind : {"encryptDataRequest"}, id : Requests]
    \union [kind : {"decryptDataRequest"}, id : Requests, who : Remotes, idx : Indices, key : Nat, step : Nat]
ToWorker(W) == KeyMessages(W) \union EnableMessages \union RatchetAsks(W) \union TrackMessages \union DataMessages

ReportsOf(h, i) == [kind : {"ratchetKey"}, h : {h}, idx : {i}, slot : Slots]
ReportMessages  == [kind : {"ratchetKey"}, h : Handlers, idx : Indices, slot : Slots]
AnswerMessages  == [kind : {"answer"}, id : Requests, how : {"resolved", "rejected"}]
ToPage == EnableMessages \union ReportMessages \union AnswerMessages

KeyInfo == [who : Remotes \union {Local, None}, idx : Indices, key : Given]
Ratchet == [pc : {None, "rejected", "ratchet", "derive"}, key : Nat, step : Nat, sets : BOOLEAN, asked : BOOLEAN]
Frame   == [pc : {"idle", "decrypt", "ratchet"}, c : Nat, h : Handlers \union {None}, idx : Indices, key : Nat,
            step : Nat, try : Slots, base : Slots, n : 0..Window, hot : BOOLEAN, due : BOOLEAN, missed : BOOLEAN]
Cryptor == [track : Tracks \union {None}, who : Remotes \union {None}, keys : Handlers, live : BOOLEAN,
            streams : Receivers \union {None}, watch : BOOLEAN, report : BOOLEAN]
Tasks   == {NoTask}
             \union [kind : {"setKey"}, h : Handlers, idx : Indices, key : Given, update : BOOLEAN]
             \union [kind : {"encrypt"}, id : Requests]
             \union [kind : {"decrypt"}, pc : {"decrypt", "ratchet"}, id : Requests, h : Handlers, idx : Indices,
                     key : Nat, step : Nat, seen : Slots, n : 0..Window]

OptionTypes ==
  /\ options \in [shared : BOOLEAN, people : SUBSET (Remotes \union {Local}), indices : SUBSET Indices,
                  keys : Nat, steps : Nat]
  /\ left \in [Kinds -> Nat]
PageTypes ==
  /\ keyInfos \in Seq(KeyInfo) /\ \A j \in DOMAIN keyInfos : keyInfos[j].who \in Whos
  /\ published \subseteq Tracks /\ subscribed \in [Tracks -> Receivers \union {None}]
  /\ trackOf \in [Receivers -> Tracks \union {None}]
  /\ home \in [Tracks -> Receivers \union {None, Moved}]
  /\ request \in [Requests -> {None, "pending", "resolved", "rejected"}]
  /\ wanted \in BOOLEAN /\ enabledHere \in BOOLEAN /\ disposed \in BOOLEAN
  /\ told \in [Handlers -> [Indices -> Slots]]
QueueTypes == queue \in Seq(ToWorker(Whos)) /\ inbox \in Seq(ToPage)
RingTypes ==
  /\ enabled \in [Remotes \union {Local} -> {None, "yes", "no"}]
  /\ ring \in [Handlers -> [Indices -> Slots]] /\ current \in [Handlers -> Indices]
  /\ failures \in [Handlers -> [Indices -> Nat]]
  /\ ratchets \in [Handlers -> [Indices -> Ratchet]]
  /\ raced \subseteq Handlers \X Indices
TaskTypes == task \in Tasks /\ (task.kind = "decrypt" => (task.pc = "ratchet" => task.n < Window))
CryptorTypes ==
  /\ cryptors \in Seq(Cryptor)
  /\ pipe \in [Receivers -> {0} \union DOMAIN cryptors] /\ usable \in [Receivers -> BOOLEAN]
FrameTypes ==
  /\ frame \in [Receivers -> Frame]
  /\ \A r \in Receivers :
       /\ frame[r].pc # "idle" => frame[r].c \in DOMAIN cryptors /\ frame[r].h \in Handlers
       /\ frame[r].c \in {0} \union DOMAIN cryptors
       /\ frame[r].pc = "ratchet" => frame[r].n < Window
SentTypes == sender \in BOOLEAN /\ sent \in {None, "plain", "dropped", "encrypted"}

Types ==
  /\ OptionTypes /\ PageTypes /\ QueueTypes /\ RingTypes /\ TaskTypes /\ CryptorTypes /\ FrameTypes /\ SentTypes

-----------------------------------------------------------------------------
(* The last of some messages in a queue. *)

\* The last message of S in q is one of G.
LastIn(q, S, G) == \E j \in DOMAIN q : q[j] \in G /\ \A l \in DOMAIN q : j < l => q[l] \notin S
NoneIn(q, S)    == \A l \in DOMAIN q : q[l] \notin S

\* A message more.
LEMMA AppendedLast ==
  ASSUME NEW T, NEW q \in Seq(T), NEW m \in T, NEW S, NEW G
  PROVE  /\ m \notin S /\ NoneIn(q, S) => NoneIn(Append(q, m), S)
         /\ m \notin S /\ LastIn(q, S, G) => LastIn(Append(q, m), S, G)
         /\ m \in G => LastIn(Append(q, m), S, G)
  <1> DEFINE n == Len(q)  a == Append(q, m)
  <1>1. n \in Nat /\ DOMAIN q = 1..n /\ DOMAIN a = 1..(n + 1) /\ a[n + 1] = m /\ \A i \in 1..n : a[i] = q[i]
    BY AppendProperties, LenProperties
  <1> HIDE DEF n, a
  <1>2. m \in G => LastIn(a, S, G)
    BY <1>1 DEF LastIn
  <1> QED
    BY <1>2, <1>1 DEF a, NoneIn, LastIn

\* The first message taken away.
LEMMA TailLast ==
  ASSUME NEW T, NEW q \in Seq(T), q # <<>>, NEW S, NEW G
  PROVE  /\ NoneIn(q, S) => NoneIn(Tail(q), S) /\ Head(q) \notin S
         /\ LastIn(q, S, G) => LastIn(Tail(q), S, G) \/ (NoneIn(Tail(q), S) /\ Head(q) \in G)
  <1> DEFINE n == Len(q)  t == Tail(q)
  <1>1. n \in Nat /\ n >= 1 /\ DOMAIN q = 1..n /\ DOMAIN t = 1..(n - 1) /\ Head(q) = q[1]
        /\ \A i \in 1..(n - 1) : t[i] = q[i + 1]
    BY HeadTailProperties, LenProperties, EmptySeq
  <1> HIDE DEF n, t
  <1>2. ASSUME LastIn(q, S, G) PROVE LastIn(t, S, G) \/ (NoneIn(t, S) /\ Head(q) \in G)
    <2>1. PICK j \in DOMAIN q : q[j] \in G /\ \A l \in DOMAIN q : j < l => q[l] \notin S
      BY <1>2 DEF LastIn
    <2>2. CASE j # 1
      <3>1. j - 1 \in DOMAIN t /\ t[j - 1] \in G
        BY <1>1, <2>1, <2>2
      <3>2. ASSUME NEW l \in DOMAIN t, j - 1 < l PROVE t[l] \notin S
        <4>1. l + 1 \in DOMAIN q /\ j < l + 1 /\ t[l] = q[l + 1]
          BY <1>1, <3>2, <2>1
        <4> QED
          BY <2>1, <4>1
      <3> QED
        BY <3>1, <3>2 DEF LastIn
    <2> QED
      BY <2>2, <1>1, <2>1 DEF NoneIn
  <1> QED
    BY <1>2, <1>1 DEF t, NoneIn

\* Several messages more.
LEMMA JoinedLast ==
  ASSUME NEW T, NEW q \in Seq(T), NEW b \in Seq(T), NEW S, NEW G
  PROVE  /\ NoneIn(b, S) /\ NoneIn(q, S) => NoneIn(q \o b, S)
         /\ NoneIn(b, S) /\ LastIn(q, S, G) => LastIn(q \o b, S, G)
         /\ LastIn(b, S, G) => LastIn(q \o b, S, G)
  <1> DEFINE n == Len(q)  k == Len(b)  a == q \o b
  <1>1. /\ n \in Nat /\ k \in Nat /\ DOMAIN q = 1..n /\ DOMAIN b = 1..k /\ DOMAIN a = 1..(n + k)
        /\ \A i \in 1..n : a[i] = q[i]
        /\ \A i \in 1..k : a[n + i] = b[i]
    <2>1. a \in Seq(T) /\ Len(a) = n + k /\ \A i \in 1..(n + k) : a[i] = IF i <= n THEN q[i] ELSE b[i - n]
      BY ConcatProperties
    <2>2. n \in Nat /\ k \in Nat /\ DOMAIN q = 1..n /\ DOMAIN b = 1..k /\ DOMAIN a = 1..(n + k)
      BY <2>1, LenProperties
    <2> HIDE DEF n, k, a
    <2>3. \A i \in 1..k : a[n + i] = b[i]
      <3> TAKE i \in 1..k
      <3> QED
        BY <2>1, <2>2
    <2> QED
      BY <2>2, <2>3, <2>1
  <1> HIDE DEF n, k, a
  <1>2. \A l \in DOMAIN a : l \in 1..n \/ (l - n \in 1..k /\ a[l] = b[l - n] /\ l = n + (l - n))
    BY <1>1
  <1>3. ASSUME NoneIn(b, S), LastIn(q, S, G) PROVE LastIn(a, S, G)
    BY <1>3, <1>1, <1>2 DEF LastIn, NoneIn
  <1>4. ASSUME LastIn(b, S, G) PROVE LastIn(a, S, G)
    <2>1. PICK j \in DOMAIN b : b[j] \in G /\ \A l \in DOMAIN b : j < l => b[l] \notin S
      BY <1>4 DEF LastIn
    <2>2. \A l \in DOMAIN a : n + j < l => a[l] \notin S
      <3> TAKE l \in DOMAIN a
      <3> HAVE n + j < l
      <3> QED
        BY <1>1, <2>1, <1>2
    <2> QED
      BY <2>2, <1>1, <2>1 DEF LastIn
  <1> QED
    BY <1>3, <1>4, <1>1, <1>2 DEF a, NoneIn

-----------------------------------------------------------------------------
(* The inductive invariant. *)

Runs(k) == k.pc \in {"ratchet", "derive"}

\* Of a frame f, what is in its slot is s, and runs there is k; x says that the slot is in raced, and own that
\* the cryptor of the frame still has the keys it began with.

\* It waits for a ratchet that runs.
WaitsForRun(f, k) == f.pc = "ratchet" => Runs(k)

\* While its slot is as the frame found it, the frame ratchets the key that is there.
KeepsKey(f, s, k, x) ==
  /\ f.base.nth <= s.nth
  /\ s = f.base /\ ~x => /\ f.pc = "ratchet" => k.key = f.base.key
                         /\ f.pc = "decrypt" /\ f.hot => f.try.key = f.base.key

\* One that is due is decrypted with the second ratchet it takes part in at the latest.
IsNext(f, k) == k.key = f.key /\ k.step = f.step
Catches(f, s, k) ==
  \/ f.step = f.base.step /\ f.pc = "decrypt" /\ SameKey(f.try, f)
  \/ /\ f.step = f.base.step + 1 /\ s = f.base
     /\ f.pc = "decrypt" => SameKey(f.try, f) \/ f.n = 0 \/ (f.n = 1 /\ (k.pc = None \/ IsNext(f, k)))
     /\ f.pc = "ratchet" => f.n = 0 \/ (f.n = 1 /\ IsNext(f, k))
  \/ /\ f.step = f.base.step + 1 /\ s # f.base /\ s.step = f.step
     /\ f.pc = "decrypt" => SameKey(f.try, f) \/ f.n <= 1
     /\ f.pc = "ratchet" => f.n = 0 \/ (f.n = 1 /\ IsNext(f, k))
DueIsCaught(f, s, k, own) ==
  f.due => /\ own /\ f.base.key = f.key /\ s.key = f.key /\ k.pc # "rejected"
           /\ Catches(f, s, k)

FrameIsRight(f, s, k, x, own) ==
  /\ f.due => f.pc # "idle"
  /\ Window >= 2 => ~f.missed
  /\ f.pc # "idle" => /\ f.try.key # 0 /\ f.base.key # 0
                      /\ WaitsForRun(f, k) /\ KeepsKey(f, s, k, x)
                      /\ Window >= 2 => DueIsCaught(f, s, k, own)
FramesAreRight ==
  \A r \in Receivers :
    FrameIsRight(frame[r], ring[frame[r].h][frame[r].idx], ratchets[frame[r].h][frame[r].idx],
                 <<frame[r].h, frame[r].idx>> \in raced, cryptors[frame[r].c].keys = frame[r].h)

\* What runs ratchets a key, and derives one only to set it; a packet that is decrypted has one, and waits for a ratchet that runs.
RunIsRight(k)  == (Runs(k) => k.key # 0) /\ (k.pc = "derive" => k.sets)
RunsHaveKeys   == \A h \in Handlers, i \in Indices : RunIsRight(ratchets[h][i])
PacketIsRight ==
  task.kind = "decrypt" => /\ ring[task.h][task.idx].key # 0
                           /\ task.pc = "ratchet" => Runs(ratchets[task.h][task.idx])

\* A key is on its way to its slot, or there: a requested ratchet that will be set is one of it.
Installed(h, i, key) ==
  <<h, i>> \notin raced =>
    /\ ring[h][i].key = key
    /\ Runs(ratchets[h][i]) /\ ratchets[h][i].sets => ratchets[h][i].key = key
TaskSets(h, i) == task.kind = "setKey" /\ task.h = h /\ task.idx = i
Settled(h, i, key) == IF TaskSets(h, i) THEN task.key = key ELSE Installed(h, i, key)
Arrives(w, i, key) ==
  \/ LastIn(queue, SetsKey(w, i), SetsTo(w, i, key))
  \/ NoneIn(queue, SetsKey(w, i)) /\ Settled(Handler(w), i, key)
KeysArrive == \A j \in DOMAIN keyInfos : Arrives(keyInfos[j].who, keyInfos[j].idx, keyInfos[j].key)
KeyInfosDiffer ==
  \A j, l \in DOMAIN keyInfos : keyInfos[j].who = keyInfos[l].who /\ keyInfos[j].idx = keyInfos[l].idx => j = l

\* The ratchet in a slot is known to the key provider, or is the last that it will hear of the slot.
Tells(slot, S) == {m \in S : SameKey(m.slot, slot)}
Heard(h, i) ==
  \/ LastIn(inbox, ReportsOf(h, i), Tells(ring[h][i], ReportsOf(h, i)))
  \/ NoneIn(inbox, ReportsOf(h, i)) /\ SameKey(told[h][i], ring[h][i])
ReportsArrive ==
  \A h \in Handlers \ {SharedKey}, i \in Indices : ring[h][i].step > 0 /\ ~disposed => Heard(h, i)

\* The manager knows whether the worker encrypts, or the last it will hear of it is so.
LocalEnables(S) == [kind : {"enable"}, who : {Local}, on : S]
Switched(on) ==
  \/ LastIn(inbox, LocalEnables(BOOLEAN), LocalEnables({on}))
  \/ NoneIn(inbox, LocalEnables(BOOLEAN)) /\ (disposed \/ enabledHere = on)
SwitchArrives == \A on \in BOOLEAN : (on <=> enabled[Local] = "yes") => Switched(on)

Following ==
  /\ Types /\ FramesAreRight /\ RunsHaveKeys /\ PacketIsRight
  /\ KeysArrive /\ KeyInfosDiffer /\ ReportsArrive /\ SwitchArrives

-----------------------------------------------------------------------------
(* Handlers, slots and lists. *)

\* A set of numbers has a least one.
LEMMA LeastIsIn ==
  ASSUME NEW A \in SUBSET Nat, A # {}
  PROVE  LeastOf(A) \in A
  <1>1. PICK x \in A : \A y \in A : ~(<<y, x>> \in OpToRel(<, Nat))
    BY NatLessThanWellFounded, WFMin
  <1>2. \A y \in A : ~(y < x)
    BY <1>1 DEF OpToRel
  <1>3. \A y \in A : x <= y
    BY <1>2
  <1> QED
    BY <1>3 DEF LeastOf

\* A handler for each of those that keys are for, another one for each.
LEMMA HandlersDiffer ==
  ASSUME OptionTypes
  PROVE  /\ \A w \in Whos : Handler(w) \in Handlers
         /\ \A w, v \in Whos : Handler(w) = Handler(v) => w = v
         /\ \A p \in Remotes \union {Local} : Handler(p) \in Handlers
  BY NamesAssumption DEF OptionTypes, Whos, Handler, Handlers, shared

\* Keys are for the same as before: no step changes how they are shared.
LEMMA SharedStays ==
  ASSUME options' = options
  PROVE  Whos' = Whos /\ \A w : Handler(w)' = Handler(w)
  BY DEF Whos, Handler, shared

\* A slot of one participant is another one's slot in nothing.
LEMMA SlotReplaced ==
  ASSUME NEW S, NEW g \in [Handlers -> [Indices -> S]], NEW h \in Handlers, NEW i \in Indices, NEW v \in S,
         NEW x, x = [g EXCEPT ![h][i] = v]
  PROVE  /\ x \in [Handlers -> [Indices -> S]]
         /\ x[h][i] = v
         /\ \A a \in Handlers, b \in Indices : ~(a = h /\ b = i) => x[a][b] = g[a][b]
  BY Zenon

\* What a slot is filled with, and that it is another object then.
LEMMA FillsOne ==
  ASSUME RingTypes, NEW h \in Handlers, NEW i \in Indices, NEW k, k.key \in Nat, k.step \in Nat, Fills(h, i, k)
  PROVE  /\ ring' \in [Handlers -> [Indices -> Slots]]
         /\ ring'[h][i] = [key |-> k.key, step |-> k.step, nth |-> ring[h][i].nth + 1]
         /\ \A a \in Handlers, b \in Indices : ~(a = h /\ b = i) => ring'[a][b] = ring[a][b]
  <1>1. ring[h][i] \in Slots /\ ring \in [Handlers -> [Indices -> Slots]]
    BY DEF RingTypes
  <1> DEFINE v == [key |-> k.key, step |-> k.step, nth |-> ring[h][i].nth + 1]
  <1>2. v \in Slots
    BY <1>1 DEF Slots
  <1>3. ring' = [ring EXCEPT ![h][i] = v]
    BY DEF Fills
  <1> HIDE DEF v
  <1>4. /\ ring' \in [Handlers -> [Indices -> Slots]]
        /\ ring'[h][i] = v
        /\ \A a \in Handlers, b \in Indices : ~(a = h /\ b = i) => ring'[a][b] = ring[a][b]
    BY <1>1, <1>2, <1>3, SlotReplaced
  <1> QED
    BY <1>4 DEF v

\* A ratchet that is asked for joins the one that there is, is rejected, or is the next of the key in the slot.
LEMMA RatchetsOne ==
  ASSUME RingTypes, NEW h \in Handlers, NEW i \in Indices, NEW sets \in BOOLEAN, NEW asked \in BOOLEAN,
         Ratcheting(h, i, sets, asked)
  PROVE  /\ ratchets' \in [Handlers -> [Indices -> Ratchet]]
         /\ \A a \in Handlers, b \in Indices : ~(a = h /\ b = i) => ratchets'[a][b] = ratchets[a][b]
         /\ ratchets[h][i].pc # None =>
              /\ ratchets'[h][i].pc = ratchets[h][i].pc /\ ratchets'[h][i].sets = ratchets[h][i].sets
              /\ ratchets'[h][i].key = ratchets[h][i].key /\ ratchets'[h][i].step = ratchets[h][i].step
         /\ ratchets[h][i].pc = None /\ ring[h][i].key = 0 => ratchets'[h][i].pc = "rejected"
         /\ ratchets[h][i].pc = None /\ ring[h][i].key # 0 =>
              /\ ratchets'[h][i].pc = "ratchet"
              /\ ratchets'[h][i].key = ring[h][i].key /\ ratchets'[h][i].step = ring[h][i].step + 1
         /\ ratchets'[h][i].pc # None
  <1> DEFINE old == ratchets[h][i]  slot == ring[h][i]
             joined  == [old EXCEPT !.asked = old.asked \/ asked]
             refused == [NoRatchet EXCEPT !.pc = "rejected"]
             begun   == [pc |-> "ratchet", key |-> slot.key, step |-> slot.step + 1, sets |-> sets, asked |-> asked]
  <1>1. old \in Ratchet /\ slot \in Slots
    BY DEF RingTypes
  <1>2. PICK new : /\ ratchets' = [ratchets EXCEPT ![h][i] = new]
                   /\ old.pc # None => new = joined
                   /\ old.pc = None /\ slot.key = 0 => new = refused
                   /\ old.pc = None /\ slot.key # 0 => new = begun
    BY DEF Ratcheting
  <1> HIDE DEF old, slot
  <1>3. /\ new \in Ratchet
        /\ old.pc # None => new.pc = old.pc /\ new.sets = old.sets /\ new.key = old.key /\ new.step = old.step
        /\ old.pc = None /\ slot.key = 0 => new.pc = "rejected"
        /\ old.pc = None /\ slot.key # 0 => new.pc = "ratchet" /\ new.key = slot.key /\ new.step = slot.step + 1
        /\ new.pc # None
    <2>1. CASE old.pc = None /\ slot.key = 0
      <3>1. new = [NoRatchet EXCEPT !.pc = "rejected"]
        BY <1>2, <2>1
      <3> QED
        BY <2>1, <3>1 DEF Ratchet, NoRatchet, None
    <2>2. CASE old.pc = None /\ slot.key # 0
      BY <1>2, <2>2, <1>1 DEF Ratchet, Slots, None
    <2> QED
      BY <2>1, <2>2, <1>2, <1>1 DEF Ratchet
  <1> QED
    BY <1>3, <1>2, SlotReplaced DEF old, slot, RingTypes

\* x is the frame f, woken with the key k.
Wakes(x, f, k) ==
  /\ x.pc = "decrypt" /\ x.n = f.n + 1 /\ x.hot = TRUE
  /\ x.try.key = k.key /\ x.try.step = k.step
  /\ x.c = f.c /\ x.h = f.h /\ x.idx = f.idx /\ x.key = f.key /\ x.step = f.step /\ x.base = f.base
  /\ x.due = f.due /\ x.missed = f.missed
  /\ f.n < Window => x \in Frame

\* The ratchet of a slot is over: those that wait for it go on with what it made, the others as they are.
LEMMA ResolvesOneSlot ==
  ASSUME RingTypes, NEW f \in [Receivers -> Frame], NEW h \in Handlers, NEW i \in Indices, Resolves(f, h, i)
  PROVE  /\ ratchets' \in [Handlers -> [Indices -> Ratchet]]
         /\ ratchets'[h][i] = NoRatchet
         /\ \A a \in Handlers, b \in Indices : ~(a = h /\ b = i) => ratchets'[a][b] = ratchets[a][b]
         /\ failures' \in [Handlers -> [Indices -> Nat]]
         /\ frame' = [r \in Receivers |-> frame'[r]]
         /\ \A r \in Receivers : ~(f[r].pc = "ratchet" /\ f[r].h = h /\ f[r].idx = i) => frame'[r] = f[r]
         /\ \A r \in Receivers : f[r].pc = "ratchet" /\ f[r].h = h /\ f[r].idx = i =>
              Wakes(frame'[r], f[r], ratchets[h][i])
  <1>1. /\ ratchets' \in [Handlers -> [Indices -> Ratchet]]
        /\ ratchets'[h][i] = NoRatchet
        /\ \A a \in Handlers, b \in Indices : ~(a = h /\ b = i) => ratchets'[a][b] = ratchets[a][b]
    <2>1. ratchets' = [ratchets EXCEPT ![h][i] = NoRatchet]
      BY DEF Resolves
    <2> QED
      BY <2>1, SlotReplaced DEF RingTypes, NoRatchet, Ratchet
  <1> DEFINE k == ratchets[h][i]  made == [NoSlot EXCEPT !.key = k.key, !.step = k.step]
  <1>2. k \in Ratchet /\ made \in Slots /\ made.key = k.key /\ made.step = k.step
    <2>1. k \in Ratchet
      BY DEF RingTypes
    <2> HIDE DEF k
    <2> QED
      BY <2>1 DEF Ratchet, Slots, NoSlot
  <1>3. frame' = [r \in Receivers |-> frame'[r]] /\
        \A r \in Receivers : frame'[r] =
          IF f[r].pc = "ratchet" /\ f[r].h = h /\ f[r].idx = i
          THEN [f[r] EXCEPT !.pc = "decrypt", !.n = @ + 1, !.hot = TRUE,
                            !.try = [NoSlot EXCEPT !.key = k.key, !.step = k.step]]
          ELSE f[r]
    BY DEF Resolves
  <1> HIDE DEF made, k
  <1>4. ASSUME NEW r \in Receivers, f[r].pc = "ratchet" /\ f[r].h = h /\ f[r].idx = i
        PROVE  Wakes(frame'[r], f[r], k)
    <2> DEFINE x == f[r]
    <2>1. x \in Frame
      OBVIOUS
    <2>2. frame'[r] = [x EXCEPT !.pc = "decrypt", !.n = @ + 1, !.hot = TRUE, !.try = made]
      BY <1>3, <1>4 DEF made
    <2> HIDE DEF x
    <2>3. ASSUME x.n < Window PROVE frame'[r] \in Frame
      <3>1. x.n + 1 \in 0..Window
        BY <2>1, <2>3, SettingsAssumption DEF Frame
      <3>2. frame'[r] = [x EXCEPT !.pc = "decrypt", !.n = x.n + 1, !.hot = TRUE, !.try = made]
        BY <2>2
      <3>3. "decrypt" \in {"idle", "decrypt", "ratchet"}
        OBVIOUS
      <3> QED
        BY <1>2, <2>1, <3>1, <3>2, <3>3 DEF Frame
    <2> QED
      BY <2>3, <2>1, <2>2, <1>2 DEF x, Wakes, Frame
  <1> QED
    BY <1>1, <1>3, <1>4 DEF k, RingTypes, Resolves

\* A frame that need not be decrypted any more differs in nothing else.
LEMMA Undue ==
  ASSUME NEW f \in Frame, NEW x, x = f \/ x = [f EXCEPT !.due = FALSE]
  PROVE  /\ x \in Frame /\ x.due \in BOOLEAN /\ (x.due => f.due)
         /\ x.pc = f.pc /\ x.c = f.c /\ x.h = f.h /\ x.idx = f.idx /\ x.key = f.key /\ x.step = f.step
         /\ x.try = f.try /\ x.base = f.base /\ x.n = f.n /\ x.hot = f.hot /\ x.missed = f.missed
  BY DEF Frame

-----------------------------------------------------------------------------
(* The types are kept: the page. *)

\* Keys are set for those whom the session has keys for.
LEMMA IdentitiesAreWhos ==
  ASSUME OptionTypes
  PROVE  /\ Identities \subseteq Whos
         /\ options.indices \subseteq Indices /\ options.people \subseteq Remotes \union {Local}
  BY DEF OptionTypes, Identities, Whos, shared

\* What happens around the worker leaves the page, both queues and what the worker is at.
LEMMA EnvironmentLeaves ==
  ASSUME Environment
  PROVE  /\ UNCHANGED page /\ UNCHANGED <<options, queue, inbox, task, enabled>>
         /\ left' = left \/ Uses("fault") \/ Uses("frame")
  <1>1. ASSUME NEW r \in Receivers, NEW again \in BOOLEAN, PipeEnds(r, again)
        PROVE  /\ UNCHANGED page /\ UNCHANGED <<options, queue, inbox, task, enabled>>
               /\ left' = left \/ Uses("fault") \/ Uses("frame")
    BY <1>1 DEF PipeEnds
  <1>2. ASSUME NEW r \in Receivers, NEW i \in options.indices, NEW k \in GivenKeys, NEW n \in Steps,
               FrameArrives(r, i, k, n)
        PROVE  /\ UNCHANGED page /\ UNCHANGED <<options, queue, inbox, task, enabled>>
               /\ left' = left \/ Uses("fault") \/ Uses("frame")
    BY <1>2 DEF FrameArrives
  <1>3. CASE FrameSent
    BY <1>3 DEF FrameSent
  <1> QED
    BY <1>1, <1>2, <1>3 DEF Environment

\* How often what has happened is counted; nothing else changes of the session.
LEMMA OptionsKept ==
  ASSUME OptionTypes, [Next]_vars
  PROVE  OptionTypes' /\ options' = options
  <1>1. options' = options /\ (left' = left \/ \E x \in Kinds : Uses(x))
    <2> USE DEF Kinds
    <2>1. CASE AppActs
      BY <2>1 DEF AppActs, RatchetKey, OnSetEncryptionKey, TrackPublished, TrackUnsubscribed, HandleReceiver, SignalConnected,
        HandleSender, Dispose, SetE2EEEnabled, EncryptData, HandleEncryptedData, Asks
    <2>2. CASE WorkerTakes
      BY <2>2 DEF WorkerTakes, TakesEnable, TakesSetKey, TakesRatchetRequest, TakesEncryptData, TakesDecryptData,
        TakesDecode, TakesUpdateCodec, TakesRemoveTransform, TakesEncode
    <2>3. CASE WorkerGoesOn
      BY <2>3 DEF WorkerGoesOn, SetKey, DataEncrypted, DataDecrypted, RatchetLooksAhead, RatchetDerives, RatchetSets,
        FrameDecrypted, FrameNotDecrypted, FrameGivenUp, WatchdogFires
    <2>4. CASE Environment
      BY <2>4, EnvironmentLeaves
    <2> QED
      BY <2>1, <2>2, <2>3, <2>4 DEF Next, PageHears, HearsEnable, HearsRatchet, HearsAnswer, HearsNothing, vars
  <1>2. left' \in [Kinds -> Nat]
    BY <1>1 DEF OptionTypes, Uses
  <1> QED
    BY <1>1, <1>2 DEF OptionTypes

\* The worker and its environment leave the page alone.
LEMMA PageIsLeft ==
  ASSUME WorkerTakes \/ WorkerGoesOn \/ Environment \/ UNCHANGED vars
  PROVE  UNCHANGED page
  <1>1. CASE WorkerTakes
    BY <1>1 DEF WorkerTakes, TakesEnable, TakesSetKey, TakesRatchetRequest, TakesEncryptData, TakesDecryptData,
      TakesDecode, TakesUpdateCodec, TakesRemoveTransform, TakesEncode
  <1>2. CASE WorkerGoesOn
    BY <1>2 DEF WorkerGoesOn, SetKey, DataEncrypted, DataDecrypted, RatchetLooksAhead, RatchetDerives, RatchetSets,
      FrameDecrypted, FrameNotDecrypted, FrameGivenUp, WatchdogFires
  <1>3. CASE Environment
    BY <1>3, EnvironmentLeaves
  <1> QED
    BY <1>1, <1>2, <1>3 DEF vars

\* The page leaves the worker alone.
LEMMA WorkerIsLeft ==
  ASSUME AppActs \/ PageHears \/ UNCHANGED vars
  PROVE  UNCHANGED worker
  <1>1. CASE AppActs
    BY <1>1 DEF AppActs, RatchetKey, OnSetEncryptionKey, TrackPublished, TrackUnsubscribed, HandleReceiver, SignalConnected,
      HandleSender, Dispose, SetE2EEEnabled, EncryptData, HandleEncryptedData, Asks
  <1> QED
    BY <1>1 DEF PageHears, HearsEnable, HearsRatchet, HearsAnswer, HearsNothing, vars

\* A key that is set replaces the one of the same participant and index, or is one more.
LEMMA KeyIsListed ==
  ASSUME OptionTypes, PageTypes, NEW p \in Identities, NEW i \in options.indices, NEW g \in BOOLEAN, OnSetEncryptionKey(p, i, g)
  PROVE  /\ left.key \in Given /\ p \in Whos /\ i \in Indices
         /\ LET info == [who |-> p, idx |-> i, key |-> left.key] IN
            /\ info \in KeyInfo /\ info.who \in Whos
            /\ KeyMessage(info, g) \in KeyMessages(Whos)
            /\ \/ /\ keyInfos' = Append(keyInfos, info)
                  /\ \A j \in DOMAIN keyInfos : ~(keyInfos[j].who = p /\ keyInfos[j].idx = i)
               \/ \E l \in DOMAIN keyInfos : /\ keyInfos[l].who = p /\ keyInfos[l].idx = i
                                             /\ keyInfos' = [keyInfos EXCEPT ![l] = info]
  <1> DEFINE info == [who |-> p, idx |-> i, key |-> left.key]
             old  == {j \in DOMAIN keyInfos : keyInfos[j].who = p /\ keyInfos[j].idx = i}
  <1>1. p \in Whos /\ i \in Indices /\ left.key \in Nat /\ left.key > 0
    BY IdentitiesAreWhos DEF Kinds, OnSetEncryptionKey, Uses, OptionTypes
  <1>2. info \in KeyInfo /\ info.who \in Whos
    BY <1>1 DEF KeyInfo, Given, Whos
  <1>3. KeyMessage(info, g) \in KeyMessages(Whos)
    BY <1>1 DEF KeyMessage, KeyMessages, Given
  <1>4. keyInfos' = IF old = {} THEN Append(keyInfos, info) ELSE [keyInfos EXCEPT ![LeastOf(old)] = info]
    BY DEF OnSetEncryptionKey
  <1>5. CASE old = {}
    BY <1>1, <1>2, <1>3, <1>4, <1>5 DEF Given
  <1>6. CASE old # {}
    <2>1. old \in SUBSET Nat
      BY LenProperties DEF PageTypes
    <2>2. PICK l \in DOMAIN keyInfos : /\ keyInfos[l].who = p /\ keyInfos[l].idx = i
                                       /\ keyInfos' = [keyInfos EXCEPT ![l] = info]
      BY <1>4, <1>6, <2>1, LeastIsIn
    <2> HIDE DEF info
    <2>3. left.key \in Given
      BY <1>1 DEF Given
    <2> USE DEF info
    <2> QED
      BY <1>1, <1>2, <1>3, <2>3, <2>2
  <1> QED
    BY <1>5, <1>6

\* What the page knows stays what it is.
LEMMA PageKept ==
  ASSUME Types, [Next]_vars
  PROVE  PageTypes'
  <1>1. /\ OptionTypes /\ PageTypes /\ QueueTypes /\ options' = options /\ Whos' = Whos
    BY OptionsKept, SharedStays DEF Types
  <1>2. ASSUME NEW p \in Identities, NEW i \in options.indices, NEW g \in BOOLEAN, OnSetEncryptionKey(p, i, g)
        PROVE  PageTypes'
    <2> DEFINE info == [who |-> p, idx |-> i, key |-> left.key]
    <2>1. /\ info \in KeyInfo /\ info.who \in Whos /\ keyInfos \in Seq(KeyInfo)
          /\ \/ keyInfos' = Append(keyInfos, info)
             \/ \E l \in DOMAIN keyInfos : keyInfos' = [keyInfos EXCEPT ![l] = info]
      BY <1>1, <1>2, KeyIsListed DEF PageTypes
    <2> HIDE DEF info
    <2>2. keyInfos' \in Seq(KeyInfo) /\ \A j \in DOMAIN keyInfos' : keyInfos'[j].who \in Whos
      <3>1. CASE keyInfos' = Append(keyInfos, info)
        BY <1>1, <2>1, <3>1, AppendProperties, LenProperties DEF PageTypes
      <3>2. ASSUME NEW l \in DOMAIN keyInfos, keyInfos' = [keyInfos EXCEPT ![l] = info]
            PROVE  keyInfos' \in Seq(KeyInfo) /\ \A j \in DOMAIN keyInfos' : keyInfos'[j].who \in Whos
        BY <1>1, <2>1, <3>2, ExceptSeq DEF PageTypes
      <3> QED
        BY <2>1, <3>1, <3>2
    <2> QED
      BY <1>1, <2>2, <1>2 DEF PageTypes, tracks, OnSetEncryptionKey
  <1>3. CASE PageHears
    <2>1. CASE HearsEnable
      BY <1>1, <2>1, HeadTailProperties, EmptySeq
        DEF HearsEnable, Hears, QueueTypes, ToPage, EnableMessages, ReportMessages, AnswerMessages,
            PageTypes, tracks
    <2>2. CASE HearsRatchet
      <3> DEFINE m == Head(inbox)
      <3>1. m \in ReportMessages
        BY <1>1, <2>2, HeadTailProperties, EmptySeq
          DEF ToPage, EnableMessages, ReportMessages, AnswerMessages, HearsRatchet, Hears, QueueTypes
      <3>2. told' = [told EXCEPT ![m.h][m.idx] = m.slot] /\ UNCHANGED <<keyInfos, tracks, request, wanted, enabledHere, disposed>>
        BY <2>2 DEF HearsRatchet
      <3> HIDE DEF m
      <3>3. told' \in [Handlers -> [Indices -> Slots]]
        BY <1>1, <3>2, SlotReplaced, <3>1 DEF PageTypes, ReportMessages
      <3> QED
        BY <1>1, <3>2, <3>3 DEF PageTypes, tracks
    <2>3. CASE HearsAnswer
      <3> DEFINE m == Head(inbox)
      <3>1. m \in AnswerMessages
        BY <1>1, <2>3, HeadTailProperties, EmptySeq
          DEF ToPage, EnableMessages, ReportMessages, AnswerMessages, HearsAnswer, Hears, QueueTypes
      <3>2. /\ request' = [request EXCEPT ![m.id] = IF @ = "pending" THEN m.how ELSE @]
            /\ UNCHANGED <<keyInfos, tracks, told, wanted, enabledHere, disposed>>
        BY <2>3 DEF HearsAnswer
      <3> HIDE DEF m
      <3>3. request' \in [Requests -> {None, "pending", "resolved", "rejected"}]
        BY <1>1, <3>2, <3>1 DEF PageTypes, AnswerMessages
      <3> QED
        BY <1>1, <3>2, <3>3 DEF PageTypes, tracks
    <2> QED
      BY <1>3, <2>1, <2>2, <2>3, <1>1 DEF PageHears, HearsNothing, PageTypes, page, tracks
  <1>4. CASE AppActs
    <2>1. ASSUME NEW t \in Tracks, TrackPublished(t) \/ TrackUnsubscribed(t) \/ \E r \in Receivers : HandleReceiver(t, r)
          PROVE  PageTypes'
      <3>1. CASE TrackUnsubscribed(t)
        BY <1>1, <3>1 DEF TrackUnsubscribed, PageTypes, tracks
      <3>2. ASSUME NEW r \in Receivers, HandleReceiver(t, r) PROVE PageTypes'
        BY <1>1, <3>2 DEF HandleReceiver, PageTypes, tracks
      <3> QED
        BY <2>1, <3>1, <3>2, <1>1 DEF TrackPublished, PageTypes, tracks
    <2>2. CASE SignalConnected \/ HandleSender
      BY <1>1, <2>2 DEF SignalConnected, HandleSender, PageTypes, page, tracks
    <2>3. CASE Dispose
      BY <1>1, <2>3 DEF Dispose, PageTypes, tracks
    <2>4. ASSUME NEW on \in BOOLEAN, SetE2EEEnabled(on) PROVE PageTypes'
      BY <1>1, <2>4 DEF SetE2EEEnabled, PageTypes, tracks
    <2>5. ASSUME NEW id \in Requests, NEW m, Asks(id, m) PROVE PageTypes'
      BY <1>1, <2>5 DEF Asks, PageTypes, tracks
    <2> QED
      BY <1>4, <2>1, <2>2, <2>3, <2>4, <2>5, <1>1, <1>2
        DEF AppActs, EncryptData, HandleEncryptedData, RatchetKey, PageTypes, page, tracks
  <1> QED
    BY <1>3, <1>4, <1>1, PageIsLeft DEF Next, PageTypes, page, tracks

-----------------------------------------------------------------------------
(* The types are kept: the queues. *)

\* All the keys the provider has are messages for the worker.
LEMMA AllKeysAreMessages ==
  ASSUME PageTypes, NEW S
  PROVE  /\ AllKeys(S) \in Seq(KeyMessages(Whos)) /\ DOMAIN AllKeys(S) = DOMAIN keyInfos
         /\ \A j \in DOMAIN keyInfos : AllKeys(S)[j] = KeyMessage(keyInfos[j], keyInfos[j].idx \in S)
  <1> DEFINE n == Len(keyInfos)
  <1>1. n \in Nat /\ DOMAIN keyInfos = 1..n /\ keyInfos \in [1..n -> KeyInfo]
    BY LenProperties DEF PageTypes
  <1> HIDE DEF n
  <1>2. AllKeys(S) \in [1..n -> KeyMessages(Whos)]
    BY <1>1 DEF AllKeys, PageTypes, KeyMessage, KeyMessages, KeyInfo
  <1> QED
    BY <1>1, <1>2, SeqDef DEF AllKeys

\* What the page tells the worker: a key that was set, something else, or all keys again.
TellsThis(m)  == m \in ToWorker(Whos) /\ m.kind # "setKey" /\ queue' = Append(queue, m)
TellsAll(S) ==
  \/ queue' = queue \o AllKeys(S)
  \/ \E m \in EnableMessages : queue' = queue \o AllKeys(S) \o <<m>>

\* Whatever the page does or hears, it tells the worker one of these.
LEMMA PageTells ==
  ASSUME Types, AppActs \/ PageHears
  PROVE  \/ \E p \in Identities, i \in options.indices, g \in BOOLEAN : OnSetEncryptionKey(p, i, g)
         \/ keyInfos' = keyInfos /\ (queue' = queue \/ (\E S : TellsAll(S)) \/ \E m : TellsThis(m))
  <1>1. OptionTypes /\ PageTypes
    BY DEF Types
  <1> DEFINE Good == keyInfos' = keyInfos /\ (queue' = queue \/ (\E S : TellsAll(S)) \/ \E m : TellsThis(m))
  <1>2. CASE AppActs
    <2>1. ASSUME NEW p \in Identities, NEW i \in options.indices, RatchetKey(p, i) PROVE Good
      <3> DEFINE m == [kind |-> "ratchetRequest", who |-> p, idx |-> i]
      <3> QED
        BY <1>1, IdentitiesAreWhos, <2>1 DEF TellsThis, ToWorker, RatchetAsks, RatchetKey, page
    <2>2. ASSUME NEW t \in Tracks, TrackPublished(t) PROVE Good
      <3> DEFINE m == EnableMessage(Owner[t], TRUE)
      <3> QED
        BY SettingsAssumption, <2>2 DEF TellsThis, ToWorker, EnableMessages, EnableMessage, TrackPublished
    <2>3. ASSUME NEW t \in Tracks, TrackUnsubscribed(t) PROVE Good
      <3> DEFINE m == [kind |-> "removeTransform", who |-> Owner[t], track |-> t]
      <3> QED
        BY SettingsAssumption, <2>3 DEF TellsThis, ToWorker, TrackMessages, TrackUnsubscribed
    <2>4. ASSUME NEW t \in Tracks, NEW r \in Receivers, HandleReceiver(t, r) PROVE Good
      <3> DEFINE m1 == [kind |-> "decode", who |-> Owner[t], track |-> t, receiver |-> r]
                 m2 == [kind |-> "updateCodec", who |-> Owner[t], track |-> t, previous |-> trackOf[r]]
      <3>1. m1 \in ToWorker(Whos) /\ m1.kind # "setKey"
        BY SettingsAssumption DEF ToWorker, TrackMessages
      <3>2. ASSUME trackOf[r] # None PROVE m2 \in ToWorker(Whos) /\ m2.kind # "setKey"
        BY <1>1, <3>2, SettingsAssumption DEF PageTypes, ToWorker, TrackMessages
      <3>3. queue' = Append(queue, IF trackOf[r] = None THEN m1 ELSE m2) /\ keyInfos' = keyInfos
        BY <2>4 DEF HandleReceiver
      <3> HIDE DEF m1, m2
      <3> QED
        BY <3>1, <3>2, <3>3 DEF TellsThis
    <2>5. ASSUME SignalConnected PROVE Good
      BY <1>1, <2>5 DEF PageTypes, EnableMessage, EnableMessages, SignalConnected, page, TellsAll
    <2>6. ASSUME HandleSender PROVE Good
      <3> DEFINE m == [kind |-> "encode"]
      <3> QED
        BY <2>6 DEF TellsThis, ToWorker, DataMessages, HandleSender, page
    <2>7. ASSUME Dispose PROVE Good
      BY <2>7 DEF Dispose
    <2>8. ASSUME NEW on \in BOOLEAN, SetE2EEEnabled(on) PROVE Good
      <3> DEFINE m == EnableMessage(Local, on)
      <3> QED
        BY <2>8 DEF TellsThis, ToWorker, EnableMessages, EnableMessage, SetE2EEEnabled
    <2>9. ASSUME NEW id \in Requests, EncryptData(id) PROVE Good
      <3> DEFINE m == [kind |-> "encryptDataRequest", id |-> id]
      <3> QED
        BY <2>9 DEF TellsThis, ToWorker, DataMessages, EncryptData, Asks
    <2>10. ASSUME NEW id \in Requests, NEW p \in Remotes \intersect options.people, NEW i \in options.indices,
                  NEW k \in GivenKeys, NEW n \in Steps, HandleEncryptedData(id, p, i, k, n)
           PROVE  Good
      <3> DEFINE m == [kind |-> "decryptDataRequest", id |-> id, who |-> p, idx |-> i, key |-> k, step |-> n]
      <3>1. i \in Indices /\ k \in Nat /\ n \in Nat /\ p \in Remotes
        BY <1>1, IdentitiesAreWhos DEF Kinds, OptionTypes, GivenKeys, Steps
      <3>2. queue' = Append(queue, m) /\ keyInfos' = keyInfos
        BY <2>10 DEF HandleEncryptedData, Asks
      <3> QED
        BY <3>2, <3>1 DEF TellsThis, ToWorker, DataMessages
    <2> HIDE DEF Good
    <2>11. ASSUME \E id \in Requests :
                  \/ EncryptData(id)
                  \/ \E p \in Remotes \intersect options.people, i \in options.indices, k \in GivenKeys, n \in Steps :
                       HandleEncryptedData(id, p, i, k, n)
           PROVE  Good
      BY <2>9, <2>10, <2>11
    <2>12. ASSUME SignalConnected \/ HandleSender \/ Dispose \/ \E on \in BOOLEAN : SetE2EEEnabled(on)
           PROVE  Good
      BY <2>5, <2>6, <2>7, <2>8, <2>12
    <2> QED
      BY <1>2, <2>11, <2>12, <2>1, <2>2, <2>3, <2>4 DEF AppActs, Good
  <1> QED
    BY <1>2 DEF PageHears, HearsEnable, HearsRatchet, HearsAnswer, HearsNothing, page, TellsAll

\* The first message is one for the worker, of what its kind says.
LEMMA FirstMessage ==
  ASSUME QueueTypes, queue # <<>>
  PROVE  /\ Tail(queue) \in Seq(ToWorker(Whos)) /\ Head(queue) \in ToWorker(Whos)
         /\ Head(queue).kind = "setKey" => Head(queue) \in KeyMessages(Whos)
         /\ Head(queue).kind = "enable" => Head(queue) \in EnableMessages
         /\ Head(queue).kind = "ratchetRequest" => Head(queue) \in RatchetAsks(Whos)
         /\ Head(queue).kind = "decode" => Head(queue) \in [kind : {"decode"}, who : Remotes, track : Tracks, receiver : Receivers]
         /\ Head(queue).kind = "updateCodec" => Head(queue) \in [kind : {"updateCodec"}, who : Remotes, track : Tracks, previous : Tracks]
         /\ Head(queue).kind = "removeTransform" => Head(queue) \in [kind : {"removeTransform"}, who : Remotes, track : Tracks]
         /\ Head(queue).kind = "encryptDataRequest" => Head(queue) \in [kind : {"encryptDataRequest"}, id : Requests]
         /\ Head(queue).kind = "decryptDataRequest" =>
              Head(queue) \in [kind : {"decryptDataRequest"}, id : Requests, who : Remotes, idx : Indices, key : Nat, step : Nat]
  BY HeadTailProperties, EmptySeq
    DEF KeyMessages, EnableMessages, RatchetAsks, TrackMessages, DataMessages, ToWorker, QueueTypes

\* The worker takes the first message, or leaves the queue as it is.
LEMMA WorkerLeavesQueue ==
  ASSUME WorkerTakes \/ WorkerGoesOn \/ Environment \/ UNCHANGED vars
  PROVE  /\ WorkerTakes => queue # <<>> /\ queue' = Tail(queue) /\ task = NoTask
         /\ ~WorkerTakes => queue' = queue
  <1>1. WorkerTakes => queue # <<>> /\ queue' = Tail(queue) /\ task = NoTask
    BY DEF WorkerTakes, Takes, TakesEnable, TakesSetKey, TakesRatchetRequest, TakesEncryptData, TakesDecryptData,
      TakesDecode, TakesUpdateCodec, TakesRemoveTransform, TakesEncode
  <1>2. CASE WorkerGoesOn
    BY <1>1, <1>2 DEF WorkerGoesOn, SetKey, DataEncrypted, DataDecrypted, RatchetLooksAhead, RatchetDerives, RatchetSets,
      FrameDecrypted, FrameNotDecrypted, FrameGivenUp, WatchdogFires
  <1>3. CASE Environment
    BY <1>1, <1>3, EnvironmentLeaves
  <1> QED
    BY <1>1, <1>2, <1>3 DEF vars

\* Messages to the worker stay messages to the worker.
LEMMA QueueKept ==
  ASSUME Types, [Next]_vars
  PROVE  (queue \in Seq(ToWorker(Whos)))'
  <1>1. options' = options /\ Whos' = Whos /\ OptionTypes /\ PageTypes /\ QueueTypes
    BY OptionsKept, SharedStays DEF Types
  <1>2. ToWorker(Whos)' = ToWorker(Whos)
    BY <1>1 DEF ToWorker, KeyMessages, EnableMessages, RatchetAsks, TrackMessages, DataMessages
  <1>3. queue \in Seq(ToWorker(Whos)) /\ KeyMessages(Whos) \subseteq ToWorker(Whos) /\ EnableMessages \subseteq ToWorker(Whos)
    BY <1>1 DEF QueueTypes, ToWorker
  <1>4. CASE AppActs \/ PageHears
    <2>1. ASSUME NEW p \in Identities, NEW i \in options.indices, NEW g \in BOOLEAN, OnSetEncryptionKey(p, i, g)
          PROVE  queue' \in Seq(ToWorker(Whos))
      <3>1. queue' = Append(queue, KeyMessage([who |-> p, idx |-> i, key |-> left.key], g))
        BY <2>1 DEF OnSetEncryptionKey
      <3> QED
        BY <1>3, <3>1, AppendProperties, <1>1, <2>1, KeyIsListed
    <2>2. ASSUME NEW S, NEW m \in EnableMessages
          PROVE  /\ queue \o AllKeys(S) \in Seq(ToWorker(Whos))
                 /\ queue \o AllKeys(S) \o <<m>> \in Seq(ToWorker(Whos))
      BY <1>1, <1>3, AllKeysAreMessages, ConcatProperties
    <2>3. EnableMessage(Local, TRUE) \in EnableMessages
      BY DEF EnableMessage, EnableMessages
    <2>4. ASSUME NEW S, TellsAll(S) PROVE queue' \in Seq(ToWorker(Whos))
      BY <2>2, <2>3, <2>4 DEF TellsAll
    <2> QED
      BY <1>2, <1>3, <1>4, <2>1, <2>4, PageTells, AppendProperties DEF TellsThis
  <1> QED
    BY <1>4, <1>1, <1>2, FirstMessage, WorkerLeavesQueue, <1>3 DEF Next

-----------------------------------------------------------------------------
(* The types are kept: the worker. *)

\* The handler that is at an await is of the kind it says.
LEMMA TaskIs ==
  ASSUME TaskTypes
  PROVE  /\ task.kind \in {None, "setKey", "encrypt", "decrypt"}
         /\ task.kind = "setKey" =>
              /\ task.h \in Handlers /\ task.idx \in Indices /\ task.key \in Given /\ task.update \in BOOLEAN
              /\ task.idx % RingSize = task.idx
         /\ task.kind = "encrypt" => task.id \in Requests
         /\ task.kind = "decrypt" =>
              /\ task \in [kind : {"decrypt"}, pc : {"decrypt", "ratchet"}, id : Requests, h : Handlers, idx : Indices,
                           key : Nat, step : Nat, seen : Slots, n : 0..Window]
              /\ task.pc = "ratchet" => task.n < Window
  <1>1. CASE task \in [kind : {"setKey"}, h : Handlers, idx : Indices, key : Given, update : BOOLEAN]
    BY <1>1, SettingsAssumption DEF Indices
  <1>2. CASE task \in [kind : {"encrypt"}, id : Requests]
    BY <1>2
  <1>3. CASE task \in [kind : {"decrypt"}, pc : {"decrypt", "ratchet"}, id : Requests, h : Handlers, idx : Indices,
                       key : Nat, step : Nat, seen : Slots, n : 0..Window]
    BY <1>3 DEF TaskTypes
  <1> QED
    BY <1>1, <1>2, <1>3 DEF TaskTypes, Tasks, NoTask, None

\* What setting a key does.
LEMMA SetKeyDoes ==
  ASSUME Types, SetKey
  PROVE  LET h == task.h  i == task.idx IN
         /\ h \in Handlers /\ i \in Indices /\ task.key \in Given /\ task.kind = "setKey" /\ task' = NoTask
         /\ ring' \in [Handlers -> [Indices -> Slots]]
         /\ ring'[h][i] = [key |-> task.key, step |-> 0, nth |-> ring[h][i].nth + 1]
         /\ \A a \in Handlers, b \in Indices : ~(a = h /\ b = i) => ring'[a][b] = ring[a][b]
         /\ current' \in [Handlers -> Indices] /\ failures' \in [Handlers -> [Indices -> Nat]]
         /\ frame' = Excuses(frame, h, i)
         /\ raced' = IF Runs(ratchets[h][i]) /\ ratchets[h][i].sets THEN raced \union {<<h, i>>} ELSE raced \ {<<h, i>>}
         /\ UNCHANGED <<page, queue, inbox, enabled, ratchets, cryptors, pipe, usable, sender, sent>>
  <1> DEFINE h == task.h  i == task.idx  k == [key |-> task.key, step |-> 0]
  <1>1. /\ h \in Handlers /\ i \in Indices /\ task.key \in Given /\ task.kind = "setKey" /\ i % RingSize = i
        /\ task.update \in BOOLEAN /\ task' = NoTask
    BY TaskIs DEF SetKey, Types
  <1>2. /\ Fills(h, i, k)
        /\ frame' = Excuses(frame, h, i)
        /\ raced' = IF Runs(ratchets[h][i]) /\ ratchets[h][i].sets THEN raced \union {<<h, i>>} ELSE raced \ {<<h, i>>}
        /\ \/ current' = [current EXCEPT ![h] = i] /\ (failures' = failures \/ failures' = [failures EXCEPT ![h][i] = 0])
           \/ current' = current /\ failures' = failures
        /\ UNCHANGED <<page, queue, inbox, enabled, ratchets, cryptors, pipe, usable, sender, sent>>
    BY <1>1 DEF SetKey, Runs
  <1>3. RingTypes /\ k.key = task.key /\ k.step = 0 /\ k.key \in Nat /\ k.step \in Nat
    BY <1>1 DEF Types, Given
  <1>4. /\ ring' \in [Handlers -> [Indices -> Slots]]
        /\ ring'[h][i] = [key |-> k.key, step |-> k.step, nth |-> ring[h][i].nth + 1]
        /\ \A a \in Handlers, b \in Indices : ~(a = h /\ b = i) => ring'[a][b] = ring[a][b]
    <2> HIDE DEF k, h, i
    <2> QED
      BY <1>1, <1>2, <1>3, FillsOne
  <1>5. current' \in [Handlers -> Indices] /\ failures' \in [Handlers -> [Indices -> Nat]]
    <2> HIDE DEF k, h, i
    <2>1. current \in [Handlers -> Indices] /\ failures \in [Handlers -> [Indices -> Nat]] /\ 0 \in Nat
      BY <1>3 DEF RingTypes
    <2>2. failures' = [failures EXCEPT ![h][i] = 0] => failures' \in [Handlers -> [Indices -> Nat]]
      BY <1>1, <2>1, SlotReplaced
    <2> QED
      BY <1>1, <1>2, <2>1, <2>2
  <1> QED
    BY <1>1, <1>2, <1>3, <1>4, <1>5

\* A slot and what runs in it, of a frame that is decrypted.
LEMMA FrameIs ==
  ASSUME Types, NEW r \in Receivers
  PROVE  /\ frame[r] \in Frame
         /\ frame[r].pc # "idle" =>
              /\ frame[r].c \in DOMAIN cryptors /\ frame[r].h \in Handlers /\ frame[r].idx \in Indices
              /\ cryptors[frame[r].c].keys \in Handlers
              /\ ring[frame[r].h][frame[r].idx] \in Slots
              /\ ratchets[frame[r].h][frame[r].idx] \in Ratchet
  <1>1. \A c \in DOMAIN cryptors : cryptors[c].keys \in Handlers
    <2> TAKE c \in DOMAIN cryptors
    <2>1. cryptors[c] \in Cryptor
      BY LenProperties DEF Types, CryptorTypes
    <2> QED
      BY <2>1 DEF Cryptor
  <1>2. ring \in [Handlers -> [Indices -> Slots]] /\ ratchets \in [Handlers -> [Indices -> Ratchet]]
    BY DEF Types, RingTypes
  <1> QED
    BY <1>1, <1>2 DEF Frame, Types, FrameTypes

\* What a frame does that is decrypted: at most, it fills its slot with the key it was ratcheted with.
LEMMA DecryptedDoes ==
  ASSUME Types, NEW r \in Receivers, FrameDecrypted(r)
  PROVE  LET f == frame[r]  h == cryptors[frame[r].c].keys  others == [frame EXCEPT ![r] = NoFrame] IN
         /\ f \in Frame /\ f.pc = "decrypt" /\ SameKey(f.try, f) /\ f.c \in DOMAIN cryptors /\ f.idx \in Indices
         /\ h \in Handlers /\ f.h \in Handlers
         /\ failures' \in [Handlers -> [Indices -> Nat]]
         /\ \/ frame' = others /\ UNCHANGED <<ring, current, inbox>>
            \/ /\ f.hot /\ h = f.h /\ ring[f.h][f.idx] = f.base
               /\ ring' \in [Handlers -> [Indices -> Slots]]
               /\ ring'[f.h][f.idx] = [key |-> f.try.key, step |-> f.try.step, nth |-> ring[f.h][f.idx].nth + 1]
               /\ \A a \in Handlers, b \in Indices : ~(a = f.h /\ b = f.idx) => ring'[a][b] = ring[a][b]
               /\ current' \in [Handlers -> Indices] /\ Reports(f.h, f.idx, f.try)
               /\ frame' = Passes(others, f.h, f.idx, f.try)
         /\ UNCHANGED <<page, queue, task, enabled, ratchets, raced, cryptors, pipe, usable, sender, sent>>
  <1> DEFINE f == frame[r]  h == cryptors[frame[r].c].keys  others == [frame EXCEPT ![r] = NoFrame]
  <1>1. f.pc = "decrypt" /\ SameKey(f.try, f)
    BY DEF FrameDecrypted
  <1>2. f \in Frame /\ f.c \in DOMAIN cryptors /\ f.idx \in Indices /\ h \in Handlers /\ f.h \in Handlers
    BY <1>1, FrameIs
  <1>3. failures' \in [Handlers -> [Indices -> Nat]]
    <2> HIDE DEF f, h
    <2> QED
      BY <1>2, SlotReplaced DEF FrameDecrypted, Types, RingTypes
  <1>4. \/ frame' = others /\ UNCHANGED <<ring, current, inbox>>
        \/ /\ f.hot /\ Untouched(f)
           /\ Fills(h, f.idx, f.try) /\ current' = [current EXCEPT ![h] = f.idx] /\ Reports(h, f.idx, f.try)
           /\ frame' = Passes(others, h, f.idx, f.try)
    BY DEF FrameDecrypted
  <1>5. ASSUME f.hot, Untouched(f), Fills(h, f.idx, f.try), current' = [current EXCEPT ![h] = f.idx],
               Reports(h, f.idx, f.try), frame' = Passes(others, h, f.idx, f.try)
        PROVE  /\ f.hot /\ h = f.h /\ ring[f.h][f.idx] = f.base
               /\ ring' \in [Handlers -> [Indices -> Slots]]
               /\ ring'[f.h][f.idx] = [key |-> f.try.key, step |-> f.try.step, nth |-> ring[f.h][f.idx].nth + 1]
               /\ \A a \in Handlers, b \in Indices : ~(a = f.h /\ b = f.idx) => ring'[a][b] = ring[a][b]
               /\ current' \in [Handlers -> Indices] /\ Reports(f.h, f.idx, f.try)
               /\ frame' = Passes(others, f.h, f.idx, f.try)
    <2>1. h = f.h /\ ring[f.h][f.idx] = f.base
      BY <1>5 DEF Untouched
    <2>2. f.try.key \in Nat /\ f.try.step \in Nat
      <3> HIDE DEF f
      <3> QED
        BY <1>2 DEF Frame, Slots
    <2>3. RingTypes /\ Fills(f.h, f.idx, f.try) /\ Reports(f.h, f.idx, f.try) /\ frame' = Passes(others, f.h, f.idx, f.try)
      BY <1>5, <2>1 DEF Types
    <2> HIDE DEF f, h, others
    <2> QED
      BY <1>5, <2>1, <2>3, <1>2, <2>2, FillsOne DEF RingTypes
  <1> HIDE DEF f, h, others
  <1> QED
    BY <1>1, <1>2, <1>3, <1>4, <1>5 DEF f, h, others, FrameDecrypted

\* What it does that is not decrypted yet: it waits for a ratchet, ends, or goes on with what is in its slot.
LEMMA NotDecryptedDoes ==
  ASSUME Types, NEW r \in Receivers, FrameNotDecrypted(r)
  PROVE  LET f == frame[r]  h == cryptors[frame[r].c].keys  slot == ring[h][f.idx] IN
         /\ f \in Frame /\ f.pc = "decrypt" /\ ~SameKey(f.try, f) /\ f.n < Window /\ f.c \in DOMAIN cryptors
         /\ f.idx \in Indices /\ h \in Handlers /\ f.h \in Handlers /\ slot \in Slots
         /\ \/ /\ Untouched(f) /\ ratchets[f.h][f.idx].pc # "rejected"
               /\ Ratcheting(f.h, f.idx, FALSE, FALSE)
               /\ frame' = [frame EXCEPT ![r] = [f EXCEPT !.pc = "ratchet"]]
               /\ raced' = IF ratchets'[f.h][f.idx].key # ring[f.h][f.idx].key THEN raced \union {<<f.h, f.idx>>} ELSE raced
            \/ /\ IF Untouched(f) THEN ratchets[f.h][f.idx].pc = "rejected" ELSE slot.key = 0
               /\ frame' = [frame EXCEPT ![r] = NoFrame] /\ UNCHANGED <<ratchets, raced>>
            \/ /\ ~Untouched(f) /\ slot.key # 0
               /\ frame' = [frame EXCEPT ![r] = [f EXCEPT !.n = f.n + 1, !.try = slot, !.hot = FALSE]]
               /\ UNCHANGED <<ratchets, raced>>
         /\ UNCHANGED <<page, queue, inbox, task, enabled, ring, current, failures, cryptors, pipe, usable, sender, sent>>
  <1> DEFINE f == frame[r]  h == cryptors[frame[r].c].keys  slot == ring[h][f.idx]
  <1>1. f.pc = "decrypt" /\ ~SameKey(f.try, f) /\ f.n < Window
    BY DEF FrameNotDecrypted
  <1>2. f \in Frame /\ f.c \in DOMAIN cryptors /\ f.idx \in Indices /\ h \in Handlers /\ f.h \in Handlers
    BY <1>1, FrameIs
  <1>3. slot \in Slots
    <2> HIDE DEF f, h
    <2> QED
      BY <1>2 DEF Types, RingTypes
  <1>4. \/ /\ Untouched(f) /\ ratchets[h][f.idx].pc # "rejected"
           /\ Ratcheting(h, f.idx, FALSE, FALSE)
           /\ frame' = [frame EXCEPT ![r].pc = "ratchet"]
           /\ raced' = IF ratchets'[h][f.idx].key # slot.key THEN raced \union {<<h, f.idx>>} ELSE raced
        \/ /\ IF Untouched(f) THEN ratchets[h][f.idx].pc = "rejected" ELSE slot.key = 0
           /\ frame' = [frame EXCEPT ![r] = NoFrame] /\ UNCHANGED <<ratchets, raced>>
        \/ /\ ~Untouched(f) /\ slot.key # 0
           /\ frame' = [frame EXCEPT ![r].n = @ + 1, ![r].try = slot, ![r].hot = FALSE]
           /\ UNCHANGED <<ratchets, raced>>
    BY DEF FrameNotDecrypted
  <1>5. frame' = [frame EXCEPT ![r].pc = "ratchet"] => frame' = [frame EXCEPT ![r] = [f EXCEPT !.pc = "ratchet"]]
    BY DEF Types, FrameTypes
  <1>6. frame' = [frame EXCEPT ![r].n = @ + 1, ![r].try = slot, ![r].hot = FALSE]
          => frame' = [frame EXCEPT ![r] = [f EXCEPT !.n = f.n + 1, !.try = slot, !.hot = FALSE]]
    <2> HIDE DEF slot
    <2> QED
      BY DEF Frame, Types, FrameTypes
  <1>7. Untouched(f) => h = f.h
    BY DEF Untouched
  <1> HIDE DEF f, h, slot
  <1>8. ASSUME Untouched(f), ratchets[h][f.idx].pc # "rejected", Ratcheting(h, f.idx, FALSE, FALSE),
               frame' = [frame EXCEPT ![r].pc = "ratchet"],
               raced' = IF ratchets'[h][f.idx].key # slot.key THEN raced \union {<<h, f.idx>>} ELSE raced
        PROVE  /\ Untouched(f) /\ ratchets[f.h][f.idx].pc # "rejected"
               /\ Ratcheting(f.h, f.idx, FALSE, FALSE)
               /\ frame' = [frame EXCEPT ![r] = [f EXCEPT !.pc = "ratchet"]]
               /\ raced' = IF ratchets'[f.h][f.idx].key # ring[f.h][f.idx].key THEN raced \union {<<f.h, f.idx>>} ELSE raced
    BY <1>5, <1>7, <1>8 DEF slot
  <1>9. \/ /\ Untouched(f) /\ ratchets[f.h][f.idx].pc # "rejected"
           /\ Ratcheting(f.h, f.idx, FALSE, FALSE)
           /\ frame' = [frame EXCEPT ![r] = [f EXCEPT !.pc = "ratchet"]]
           /\ raced' = IF ratchets'[f.h][f.idx].key # ring[f.h][f.idx].key THEN raced \union {<<f.h, f.idx>>} ELSE raced
        \/ /\ IF Untouched(f) THEN ratchets[f.h][f.idx].pc = "rejected" ELSE slot.key = 0
           /\ frame' = [frame EXCEPT ![r] = NoFrame] /\ UNCHANGED <<ratchets, raced>>
        \/ /\ ~Untouched(f) /\ slot.key # 0
           /\ frame' = [frame EXCEPT ![r] = [f EXCEPT !.n = f.n + 1, !.try = slot, !.hot = FALSE]]
           /\ UNCHANGED <<ratchets, raced>>
    BY <1>4, <1>6, <1>8, <1>7
  <1> QED
    BY <1>1, <1>2, <1>3, <1>9 DEF f, h, slot, FrameNotDecrypted

\* What the worker tells the page: that it is enabled, an answer, or a ratchet.
LEMMA WorkerTells ==
  ASSUME Types, WorkerTakes \/ WorkerGoesOn \/ Environment \/ UNCHANGED vars
  PROVE  \/ inbox' = inbox
         \/ TakesEnable
         \/ \E m \in AnswerMessages : inbox' = Append(inbox, m)
         \/ \E h \in Handlers, i \in Indices : RatchetSets(h, i)
         \/ \E r \in Receivers : FrameDecrypted(r)
  <1>1. TaskTypes /\ QueueTypes
    BY DEF Types
  <1>2. ASSUME NEW id \in Requests, NEW how \in {"resolved", "rejected"}, Answers(id, how)
        PROVE  \E m \in AnswerMessages : inbox' = Append(inbox, m)
    BY <1>2 DEF Answers, AnswerMessages
  <1>3. CASE WorkerTakes
    <2>1. CASE TakesEnable \/ TakesSetKey \/ TakesRatchetRequest \/ TakesEncryptData
      BY <2>1 DEF TakesSetKey, TakesRatchetRequest, TakesEncryptData
    <2>2. CASE TakesDecode \/ TakesUpdateCodec \/ TakesRemoveTransform \/ TakesEncode
      BY <2>2 DEF TakesDecode, TakesUpdateCodec, TakesRemoveTransform, TakesEncode
    <2> QED
      BY <1>3, <2>1, <2>2, <1>1, FirstMessage, <1>2 DEF WorkerTakes, TakesDecryptData, Takes
  <1>4. CASE WorkerGoesOn
    BY <1>1, TaskIs, <1>2, <1>4
      DEF DataEncrypted, DataDecrypted, SetKey, RatchetLooksAhead, RatchetDerives, FrameNotDecrypted,
          FrameGivenUp, WatchdogFires, WorkerGoesOn
  <1>5. CASE Environment
    BY <1>5, EnvironmentLeaves
  <1>6. CASE UNCHANGED vars
    BY <1>6 DEF vars
  <1> QED
    BY <1>3, <1>4, <1>5, <1>6

\* The page reads what it is told from the front, and adds nothing to it.
LEMMA PageListens ==
  ASSUME AppActs \/ PageHears
  PROVE  inbox' = inbox \/ (PageHears /\ inbox # <<>> /\ inbox' = Tail(inbox))
  <1>1. CASE AppActs
    BY <1>1 DEF AppActs, RatchetKey, OnSetEncryptionKey, TrackPublished, TrackUnsubscribed, HandleReceiver, SignalConnected,
      HandleSender, Dispose, SetE2EEEnabled, EncryptData, HandleEncryptedData, Asks
  <1> QED
    BY <1>1 DEF PageHears, HearsEnable, HearsRatchet, HearsAnswer, HearsNothing, Hears

\* Of a ratchet of another key than the shared one the page is told.
LEMMA ReportIs ==
  ASSUME QueueTypes, NEW h \in Handlers, NEW i \in Indices, NEW k, k.key \in Nat, k.step \in Nat, Reports(h, i, k)
  PROVE  /\ inbox' \in Seq(ToPage)
         /\ h = SharedKey => inbox' = inbox
         /\ h # SharedKey => \E m \in ReportsOf(h, i) : /\ m \in ToPage /\ m.slot.key = k.key /\ m.slot.step = k.step
                                                        /\ inbox' = Append(inbox, m)
  <1> DEFINE m == [kind |-> "ratchetKey", h |-> h, idx |-> i, slot |-> [key |-> k.key, step |-> k.step, nth |-> 0]]
  <1>1. m \in ReportsOf(h, i) /\ m \in ReportMessages /\ m.slot.key = k.key /\ m.slot.step = k.step
    BY DEF ReportsOf, ReportMessages, Slots
  <1>2. h # SharedKey => inbox' = Append(inbox, m)
    BY DEF Reports
  <1>3. m \in ToPage
    BY <1>1 DEF ToPage
  <1> HIDE DEF m
  <1> QED
    BY <1>1, <1>2, <1>3, AppendProperties DEF QueueTypes, Reports

\* What a requested ratchet does when it is set.
LEMMA RatchetSetsDoes ==
  ASSUME Types, NEW h \in Handlers, NEW i \in Indices, RatchetSets(h, i)
  PROVE  LET k == ratchets[h][i] IN
         /\ k \in Ratchet /\ k.pc = "derive" /\ RingTypes
         /\ ring' \in [Handlers -> [Indices -> Slots]]
         /\ ring'[h][i] = [key |-> k.key, step |-> k.step, nth |-> ring[h][i].nth + 1]
         /\ \A a \in Handlers, b \in Indices : ~(a = h /\ b = i) => ring'[a][b] = ring[a][b]
         /\ current' \in [Handlers -> Indices]
         /\ Reports(h, i, k) /\ Resolves(Excuses(frame, h, i), h, i)
         /\ UNCHANGED <<page, queue, enabled, raced, cryptors, pipe, usable, sender, sent>>
  <1>1. RingTypes /\ ratchets[h][i] \in Ratchet
    BY DEF Types, RingTypes
  <1>2. /\ ratchets[h][i].pc = "derive" /\ Fills(h, i, ratchets[h][i])
        /\ Reports(h, i, ratchets[h][i]) /\ Resolves(Excuses(frame, h, i), h, i)
        /\ UNCHANGED <<page, queue, enabled, raced, cryptors, pipe, usable, sender, sent>>
        /\ current' = [current EXCEPT ![h] = i]
    BY DEF RatchetSets
  <1> DEFINE k == ratchets[h][i]
  <1>3. /\ ring' \in [Handlers -> [Indices -> Slots]]
        /\ ring'[h][i] = [key |-> k.key, step |-> k.step, nth |-> ring[h][i].nth + 1]
        /\ \A a \in Handlers, b \in Indices : ~(a = h /\ b = i) => ring'[a][b] = ring[a][b]
    <2>1. k.key \in Nat /\ k.step \in Nat /\ Fills(h, i, k)
      BY <1>2, <1>1 DEF Ratchet
    <2> HIDE DEF k
    <2> QED
      BY <1>1, <2>1, FillsOne
  <1> QED
    BY <1>1, <1>2, <1>3 DEF RingTypes

\* Messages to the page stay messages to the page.
LEMMA InboxKept ==
  ASSUME Types, [Next]_vars
  PROVE  inbox' \in Seq(ToPage)
  <1>1. QueueTypes /\ inbox \in Seq(ToPage)
    BY DEF Types, QueueTypes
  <1>2. CASE WorkerTakes \/ WorkerGoesOn \/ Environment \/ UNCHANGED vars
    <2>1. CASE TakesEnable
      BY <1>1, <2>1, FirstMessage, AppendProperties DEF TakesEnable, Takes, ToPage
    <2>2. ASSUME NEW m \in AnswerMessages, inbox' = Append(inbox, m) PROVE inbox' \in Seq(ToPage)
      BY <1>1, <2>2, AppendProperties DEF ToPage
    <2>3. ASSUME NEW h \in Handlers, NEW i \in Indices, RatchetSets(h, i) PROVE inbox' \in Seq(ToPage)
      BY <2>3, RatchetSetsDoes, <1>1, ReportIs DEF Ratchet
    <2>4. ASSUME NEW r \in Receivers, FrameDecrypted(r) PROVE inbox' \in Seq(ToPage)
      <3> DEFINE f == frame[r]
      <3> HIDE DEF f
      <3> QED
        BY <1>1, ReportIs, <2>4, DecryptedDoes DEF Frame, Slots
    <2> QED
      BY <1>1, <1>2, <2>1, <2>2, <2>3, <2>4, WorkerTells
  <1> QED
    BY <1>2, <1>1, PageListens, HeadTailProperties, EmptySeq DEF Next

\* What the handler at an await does goes on with its kind, or ends.
LEMMA TaskKept ==
  ASSUME Types, [Next]_vars
  PROVE  TaskTypes'
  <1>1. TaskTypes /\ QueueTypes /\ OptionTypes /\ RingTypes /\ Window \in Nat
    BY SettingsAssumption DEF Types
  <1>2. CASE task' = NoTask
    BY <1>2 DEF TaskTypes, Tasks, NoTask, None
  <1>3. CASE task' = task
    BY <1>1, <1>3 DEF TaskTypes
  <1> DEFINE Decrypts == [kind : {"decrypt"}, pc : {"decrypt", "ratchet"}, id : Requests, h : Handlers, idx : Indices,
                          key : Nat, step : Nat, seen : Slots, n : 0..Window]
  <1>4. ASSUME task' \in Decrypts, task'.pc = "ratchet" => task'.n < Window PROVE TaskTypes'
    BY <1>4 DEF Tasks, TaskTypes
  <1>5. CASE TakesSetKey
    <2> DEFINE m == Head(queue)
    <2>1. task' = [kind |-> "setKey", h |-> Handler(m.who), idx |-> m.idx, key |-> m.key, update |-> m.update]
      BY <1>5 DEF TakesSetKey
    <2> HIDE DEF m
    <2> QED
      BY <2>1, <1>1, HandlersDiffer, <1>5, FirstMessage DEF TaskTypes, Tasks, KeyMessages, TakesSetKey, Takes
  <1>6. CASE TakesEncryptData
    BY <1>1, <1>6, FirstMessage, <1>2 DEF TakesEncryptData, Takes, TaskTypes, Tasks
  <1>7. CASE TakesDecryptData
    <2> DEFINE m == Head(queue)  h == Handler(m.who)  slot == ring[h][m.idx]
               new == [kind |-> "decrypt", pc |-> "decrypt", id |-> m.id, h |-> h, idx |-> m.idx,
                       key |-> m.key, step |-> m.step, seen |-> slot, n |-> 0]
    <2>1. m \in [kind : {"decryptDataRequest"}, id : Requests, who : Remotes, idx : Indices, key : Nat, step : Nat]
      BY <1>1, <1>7, FirstMessage DEF TakesDecryptData, Takes
    <2>2. h \in Handlers
      BY <1>1, <2>1, HandlersDiffer
    <2>3. task' = task \/ task' = new
      BY <1>7 DEF TakesDecryptData
    <2>4. slot \in Slots
      BY <1>1, <2>1, <2>2 DEF RingTypes
    <2>5. new \in Decrypts /\ new.pc = "decrypt"
      <3> HIDE DEF m, h, slot
      <3> QED
        BY <1>1, <2>1, <2>2, <2>4
    <2> HIDE DEF new
    <2> QED
      BY <1>3, <1>4, <2>3, <2>5
  <1>8. CASE DataDecrypted
    <2>1. task \in Decrypts /\ task.pc = "decrypt"
      BY <1>1, <1>8, TaskIs DEF DataDecrypted
    <2> DEFINE slot == ring[task.h][task.idx]
    <2>2. slot \in Slots
      BY <1>1, <2>1 DEF RingTypes
    <2>3. CASE ~SameKey(task.seen, task) /\ task.n < Window /\ task' = [task EXCEPT !.seen = slot, !.n = @ + 1]
      <3> HIDE DEF slot
      <3>1. task.n + 1 \in 0..Window
        BY <1>1, <2>1, <2>3
      <3>2. task' \in Decrypts /\ task'.pc = "decrypt"
        BY <2>1, <2>2, <2>3, <3>1
      <3> QED
        BY <1>4, <3>2
    <2>4. CASE ~SameKey(task.seen, task) /\ task.n # Window /\ task' = [task EXCEPT !.pc = "ratchet"]
      BY <1>1, <2>1, <2>4, <1>4
    <2> QED
      BY <1>2, <2>3, <2>4, <1>8 DEF DataDecrypted
  <1>9. ASSUME NEW h \in Handlers, NEW i \in Indices, RatchetLooksAhead(h, i) \/ RatchetSets(h, i) PROVE TaskTypes'
    <2>1. ring[h][i] \in Slots
      BY <1>1 DEF RingTypes
    <2>2. ASSUME task.kind = "decrypt", task.pc = "ratchet", NEW s \in Slots,
                 task' = [task EXCEPT !.pc = "decrypt", !.n = @ + 1, !.seen = s]
          PROVE  TaskTypes'
      <3>1. task \in Decrypts /\ task.n + 1 \in 0..Window
        BY <1>1, <2>2, TaskIs
      <3>2. task' \in Decrypts /\ task'.pc = "decrypt"
        BY <2>2, <3>1
      <3> QED
        BY <1>4, <3>2
    <2> QED
      BY <1>3, <2>1, <2>2, <1>9 DEF RatchetLooksAhead, RatchetSets, Resolves
  <1>10. CASE WorkerGoesOn
    BY <1>2, <1>3, <1>8, <1>9, <1>10
      DEF SetKey, DataEncrypted, RatchetDerives, FrameDecrypted, FrameNotDecrypted, FrameGivenUp,
          WatchdogFires, WorkerGoesOn
  <1>11. CASE Environment
    <2>1. task' = task
      BY <1>11, EnvironmentLeaves
    <2> QED
      BY <1>3, <2>1
  <1> QED
    BY <1>10, <1>11, <1>3, WorkerIsLeft, <1>5, <1>6, <1>7
      DEF Next, worker, TakesEnable, TakesRatchetRequest, TakesDecode, TakesUpdateCodec,
          TakesRemoveTransform, TakesEncode, WorkerTakes

\* Setting a slot that is counted in: its failures.
LEMMA FailureCounts ==
  ASSUME RingTypes, NEW h \in Handlers, NEW i \in Indices, DecryptionFailure(h, i)
  PROVE  failures' \in [Handlers -> [Indices -> Nat]]
  <1>1. failures \in [Handlers -> [Indices -> Nat]] /\ failures[h][i] + 1 \in Nat
    BY DEF RingTypes
  <1> DEFINE v == failures[h][i] + 1
  <1>2. failures' = [failures EXCEPT ![h][i] = v] => failures' \in [Handlers -> [Indices -> Nat]]
    <2>1. v \in Nat
      BY <1>1
    <2> HIDE DEF v
    <2> QED
      BY <1>1, <2>1, SlotReplaced
  <1> QED
    BY <1>1, <1>2 DEF DecryptionFailure

\* The slot a frame comes for: of the cryptor its pipe runs through.
LEMMA ArrivesDoes ==
  ASSUME Types, NEW r \in Receivers, NEW idx \in options.indices, NEW key \in GivenKeys, NEW step \in Steps,
         FrameArrives(r, idx, key, step)
  PROVE  LET c == pipe[r]  h == cryptors[pipe[r]].keys  slot == ring[h][idx] IN
         /\ c \in DOMAIN cryptors /\ h \in Handlers /\ idx \in Indices /\ slot \in Slots /\ key \in Nat /\ step \in Nat
         /\ frame[r].pc = "idle"
         /\ \/ frame' = frame /\ (failures' = failures \/ DecryptionFailure(h, idx))
            \/ /\ slot.key # 0 /\ failures' = failures
               /\ frame' = [frame EXCEPT ![r] =
                    [pc |-> "decrypt", c |-> c, h |-> h, idx |-> idx, key |-> key, step |-> step,
                     try |-> slot, base |-> slot, n |-> 0, hot |-> FALSE, missed |-> FALSE,
                     due |-> slot.key = key /\ step \in slot.step..(slot.step + 1) /\ ratchets[h][idx].pc # "rejected"]]
         /\ UNCHANGED <<page, queue, inbox, task, enabled, ring, current, ratchets, raced, cryptors, pipe, usable, sender, sent>>
  <1> DEFINE c == pipe[r]  h == cryptors[pipe[r]].keys  slot == ring[h][idx]
  <1>1. c # 0 /\ frame[r].pc = "idle"
        /\ UNCHANGED <<page, queue, inbox, task, enabled, ring, current, ratchets, raced, cryptors, pipe, usable, sender, sent>>
    BY DEF FrameArrives
  <1>2. c \in DOMAIN cryptors /\ cryptors \in Seq(Cryptor)
    BY <1>1 DEF Types, CryptorTypes
  <1>3. h \in Handlers
    <2>1. cryptors[c] \in Cryptor
      BY <1>2, LenProperties
    <2> QED
      BY <2>1 DEF Cryptor
  <1>4. idx \in Indices /\ key \in Nat /\ step \in Nat
    BY IdentitiesAreWhos DEF Types, Kinds, OptionTypes, GivenKeys, Steps
  <1>5. slot \in Slots
    <2> HIDE DEF h
    <2> QED
      BY <1>3, <1>4 DEF Types, RingTypes
  <1> QED
    BY <1>1, <1>2, <1>3, <1>4, <1>5 DEF FrameArrives

\* Rings, ratchets and failures have a place for each slot.
LEMMA RingKept ==
  ASSUME Types, [Next]_vars
  PROVE  RingTypes'
  <1>1. RingTypes /\ QueueTypes /\ OptionTypes /\ TaskTypes
    BY DEF Types
  <1>2. CASE UNCHANGED <<enabled, keys>>
    BY <1>1, <1>2 DEF RingTypes, keys
  <1>3. CASE TakesEnable
    BY <1>1, <1>3, FirstMessage DEF TakesEnable, Takes, RingTypes, EnableMessages, keys
  <1>4. CASE SetKey
    BY <1>1, <1>4, SetKeyDoes DEF RingTypes
  <1>5. ASSUME NEW h \in Handlers, NEW i \in Indices, NEW sets \in BOOLEAN, NEW asked \in BOOLEAN,
               Ratcheting(h, i, sets, asked), UNCHANGED <<enabled, ring, current, failures>>,
               raced' \subseteq Handlers \X Indices
        PROVE  RingTypes'
    BY <1>1, <1>5, RatchetsOne DEF RingTypes
  <1>6. CASE TakesRatchetRequest
    BY <1>1, <1>6, FirstMessage, HandlersDiffer, <1>5 DEF TakesRatchetRequest, Takes, RatchetAsks, RingTypes
  <1>7. CASE DataDecrypted
    BY <1>1, <1>7, TaskIs, <1>5 DEF DataDecrypted, RingTypes
  <1>8. ASSUME NEW h \in Handlers, NEW i \in Indices, RatchetDerives(h, i) PROVE RingTypes'
    <2> DEFINE new == [ratchets[h][i] EXCEPT !.pc = "derive"]
    <2>1. ratchets' = [ratchets EXCEPT ![h][i] = new] /\ UNCHANGED <<enabled, ring, current, failures, raced>>
      BY <1>1, <1>8 DEF RatchetDerives, RingTypes
    <2>2. new \in Ratchet
      <3> DEFINE k == ratchets[h][i]
      <3>1. k \in Ratchet
        BY <1>1 DEF RingTypes
      <3> HIDE DEF k
      <3> QED
        BY <3>1 DEF k, Ratchet
    <2> HIDE DEF new
    <2> QED
      BY <1>1, <2>1, <2>2, SlotReplaced DEF RingTypes
  <1>9. ASSUME NEW h \in Handlers, NEW i \in Indices, RatchetSets(h, i) PROVE RingTypes'
    BY Undue, <1>9, RatchetSetsDoes, <1>1, ResolvesOneSlot DEF Types, FrameTypes, Excuses, RingTypes
  <1>10. ASSUME NEW r \in Receivers, FrameNotDecrypted(r) PROVE RingTypes'
    <2> DEFINE f == frame[r]
    <2>1. /\ f.h \in Handlers /\ f.idx \in Indices /\ UNCHANGED <<enabled, ring, current, failures>>
          /\ \/ UNCHANGED <<ratchets, raced>>
             \/ Ratcheting(f.h, f.idx, FALSE, FALSE) /\ (raced' = raced \/ raced' = raced \union {<<f.h, f.idx>>})
      BY <1>10, NotDecryptedDoes
    <2> HIDE DEF f
    <2>2. raced' \subseteq Handlers \X Indices
      <3>1. raced' = raced \/ raced' = raced \union {<<f.h, f.idx>>}
        BY <2>1
      <3> QED
        BY <3>1, <1>1, <2>1 DEF RingTypes
    <2> QED
      BY <1>5, <2>1, <2>2, <1>1 DEF RingTypes
  <1>11. ASSUME NEW r \in Receivers, FrameGivenUp(r) PROVE RingTypes'
    <2> DEFINE f == frame[r]  h == cryptors[f.c].keys
    <2>1. UNCHANGED <<enabled, ring, current, ratchets, raced>> /\ (failures' = failures \/ DecryptionFailure(h, f.idx))
      BY <1>11 DEF FrameGivenUp
    <2> HIDE DEF f, h
    <2> QED
      BY <1>1, <2>1, FailureCounts, <1>11, FrameIs DEF RingTypes, FrameGivenUp
  <1>12. ASSUME NEW r \in Receivers, NEW idx \in options.indices, NEW key \in GivenKeys, NEW step \in Steps,
                FrameArrives(r, idx, key, step)
         PROVE  RingTypes'
    <2> DEFINE h == cryptors[pipe[r]].keys
    <2>1. h \in Handlers /\ idx \in Indices /\ UNCHANGED <<enabled, ring, current, ratchets, raced>>
          /\ (failures' = failures \/ DecryptionFailure(h, idx))
      BY <1>12, ArrivesDoes
    <2> HIDE DEF h
    <2> QED
      BY <1>1, <2>1, FailureCounts DEF RingTypes
  <1>13. CASE WorkerTakes
    BY <1>2, <1>3, <1>6, <1>13
      DEF TakesSetKey, TakesEncryptData, TakesDecryptData, TakesDecode, TakesUpdateCodec,
          TakesRemoveTransform, TakesEncode, WorkerTakes
  <1>14. CASE WorkerGoesOn
    <2>1. CASE DataEncrypted
      BY <1>2, <2>1 DEF DataEncrypted
    <2>2. ASSUME NEW c, WatchdogFires(c) PROVE RingTypes'
      BY <1>2, <2>2 DEF WatchdogFires
    <2>3. CASE \E h \in Handlers, i \in Indices : RatchetLooksAhead(h, i) \/ RatchetDerives(h, i) \/ RatchetSets(h, i)
      BY <1>8, <1>9, <2>3, <1>1, ResolvesOneSlot DEF RatchetLooksAhead, Types, FrameTypes, RingTypes
    <2>4. CASE \E r \in Receivers : FrameDecrypted(r) \/ FrameNotDecrypted(r) \/ FrameGivenUp(r)
      BY <1>10, <1>11, <2>4, DecryptedDoes, <1>1 DEF RingTypes
    <2> QED
      BY <1>4, <1>7, <1>14, <2>1, <2>2, <2>3, <2>4 DEF WorkerGoesOn
  <1> QED
    BY <1>13, <1>14, <1>2, WorkerIsLeft, <1>12 DEF Next, worker, FrameSent, PipeEnds, Environment

\* The cryptor of a track is one of the list, or the next one.
LEMMA CryptorIsFound ==
  ASSUME CryptorTypes, NEW t \in Tracks, NEW previous
  PROVE  TrackCryptor(t, previous) \in DOMAIN cryptors \union {Len(cryptors) + 1}
  <1>1. \A u : Keyed(u) \in SUBSET Nat /\ Keyed(u) \subseteq DOMAIN cryptors
    BY LenProperties DEF CryptorTypes, Keyed
  <1>2. \A u : Keyed(u) # {} => LeastOf(Keyed(u)) \in DOMAIN cryptors
    BY <1>1, LeastIsIn
  <1> QED
    BY <1>2 DEF TrackCryptor

\* Assigned to a participant it is one of that participant; one of the same has the keys it had.
LEMMA AssignedIs ==
  ASSUME OptionTypes, CryptorTypes, NEW c, NEW p \in Remotes, NEW t \in Tracks, NEW previous
  PROVE  /\ Assigned(c, p, t, previous) \in Cryptor /\ Assigned(c, p, t, previous).who = p
         /\ c \in DOMAIN cryptors /\ cryptors[c].who = p => Assigned(c, p, t, previous).keys = cryptors[c].keys
  <1> DEFINE old == IF c \in DOMAIN cryptors THEN cryptors[c] ELSE Fresh(p)
             track == IF Keyed(t) = {} /\ c \in DOMAIN cryptors THEN t ELSE old.track
             watch == IF old.who \notin {None, p} THEN FALSE ELSE old.watch
             hisKeys  == IF old.who # p THEN Handler(p) ELSE old.keys
             new == [old EXCEPT !.track = track, !.watch = watch, !.who = p, !.keys = hisKeys]
  <1>1. Handler(p) \in Handlers
    BY HandlersDiffer
  <1>2. old \in Cryptor
    <2>1. c \in DOMAIN cryptors => cryptors[c] \in Cryptor
      BY LenProperties DEF CryptorTypes
    <2> QED
      BY <2>1, <1>1 DEF Fresh, Cryptor
  <1>3. c \in DOMAIN cryptors => old = cryptors[c]
    OBVIOUS
  <1>4. Assigned(c, p, t, previous) = new
    BY Zenon DEF Assigned
  <1> HIDE DEF old
  <1>5. track \in Tracks \union {None} /\ watch \in BOOLEAN /\ hisKeys \in Handlers
    BY <1>1, <1>2 DEF Cryptor
  <1>6. old.who = p => hisKeys = old.keys
    OBVIOUS
  <1> HIDE DEF track, watch, hisKeys
  <1>7. new \in Cryptor /\ new.who = p /\ new.keys = hisKeys
    BY <1>2, <1>5 DEF Cryptor
  <1> HIDE DEF new
  <1> QED
    BY <1>3, <1>4, <1>6, <1>7

\* One of the list is replaced, or the list is one longer.
LEMMA StoredIs ==
  ASSUME CryptorTypes, NEW c \in DOMAIN cryptors \union {Len(cryptors) + 1}, NEW x \in Cryptor
  PROVE  /\ Stored(c, x) \in Seq(Cryptor) /\ DOMAIN cryptors \subseteq DOMAIN Stored(c, x)
         /\ c \in DOMAIN Stored(c, x) /\ Stored(c, x)[c] = x
         /\ \A d \in DOMAIN cryptors : d # c => Stored(c, x)[d] = cryptors[d]
  <1> DEFINE n == Len(cryptors)
  <1>1. cryptors \in Seq(Cryptor) /\ n \in Nat /\ DOMAIN cryptors = 1..n
    BY LenProperties DEF CryptorTypes
  <1>2. CASE c \notin DOMAIN cryptors
    <2>1. DOMAIN Append(cryptors, x) = 1..(n + 1)
      BY <1>1, AppendProperties, LenProperties
    <2> HIDE DEF n
    <2> QED
      BY <1>1, <2>1, <1>2, AppendProperties DEF Stored
  <1> QED
    BY <1>2, <1>1, ExceptSeq DEF Stored

\* A cryptor that is given another participant has no frame that is due.
Reassigned ==
  /\ cryptors' \in Seq(Cryptor) /\ DOMAIN cryptors \subseteq DOMAIN cryptors'
  /\ pipe' \in [Receivers -> {0} \union DOMAIN cryptors'] /\ usable' = usable
  /\ frame' = [r \in Receivers |-> frame'[r]]
  /\ \A r \in Receivers : /\ frame'[r] = frame[r] \/ frame'[r] = [frame[r] EXCEPT !.due = FALSE]
                          /\ frame'[r].due /\ frame[r].c \in DOMAIN cryptors
                               => cryptors'[frame[r].c].keys = cryptors[frame[r].c].keys

\* So it is with each of the messages about tracks.
LEMMA ReassignDoes ==
  ASSUME Types, TakesDecode \/ TakesUpdateCodec \/ TakesRemoveTransform
  PROVE  Reassigned /\ UNCHANGED <<page, task, enabled, keys, sender, sent>>
  <1>1. CryptorTypes /\ OptionTypes /\ QueueTypes /\ frame \in [Receivers -> Frame]
    BY DEF Types, FrameTypes
  <1>2. ASSUME NEW c, NEW p, frame' = ReassignExcuses(c, p), cryptors' \in Seq(Cryptor), DOMAIN cryptors \subseteq DOMAIN cryptors',
               pipe' \in [Receivers -> {0} \union DOMAIN cryptors'], usable' = usable,
               \A d \in DOMAIN cryptors : d # c => cryptors'[d].keys = cryptors[d].keys,
               c \in DOMAIN cryptors /\ cryptors[c].who = p => cryptors'[c].keys = cryptors[c].keys
        PROVE  Reassigned
    <2>1. frame' = [r \in Receivers |-> frame'[r]]
          /\ \A r \in Receivers : frame'[r] = IF frame[r].c = c /\ cryptors[c].who # p THEN [frame[r] EXCEPT !.due = FALSE] ELSE frame[r]
      BY <1>2 DEF ReassignExcuses
    <2>2. ASSUME NEW r \in Receivers, frame'[r].due, frame[r].c \in DOMAIN cryptors
          PROVE  cryptors'[frame[r].c].keys = cryptors[frame[r].c].keys
      BY <1>1, <2>1, <2>2, <1>2 DEF Frame
    <2> QED
      BY <1>2, <2>1, <2>2 DEF Reassigned
  <1>3. CASE TakesDecode
    <2> DEFINE m == Head(queue)  c == TrackCryptor(m.track, None)  a == Assigned(c, m.who, m.track, None)
               x == SetUp(a, m.track, m.receiver)
    <2>1. m.track \in Tracks /\ m.who \in Remotes /\ m.receiver \in Receivers
      BY <1>1, <1>3, FirstMessage DEF TakesDecode, Takes
    <2>2. /\ cryptors' = Stored(c, x) /\ pipe' = [pipe EXCEPT ![m.receiver] = c] /\ frame' = ReassignExcuses(c, m.who)
          /\ usable' = usable /\ UNCHANGED <<page, task, enabled, keys, sender, sent>>
      BY <1>3 DEF TakesDecode
    <2>3. c \in DOMAIN cryptors \union {Len(cryptors) + 1}
      BY <1>1, <2>1, CryptorIsFound
    <2>4. a \in Cryptor /\ (c \in DOMAIN cryptors /\ cryptors[c].who = m.who => a.keys = cryptors[c].keys)
      BY <1>1, <2>1, AssignedIs
    <2>5. x \in Cryptor /\ x.keys = a.keys
      <3> HIDE DEF a, m
      <3> QED
        BY <2>1, <2>4 DEF SetUp, Cryptor
    <2> HIDE DEF x, a, c, m
    <2>6. /\ cryptors' \in Seq(Cryptor) /\ DOMAIN cryptors \subseteq DOMAIN cryptors'
          /\ c \in DOMAIN cryptors' /\ cryptors'[c] = x
          /\ \A d \in DOMAIN cryptors : d # c => cryptors'[d] = cryptors[d]
      BY <1>1, <2>2, <2>3, <2>5, StoredIs
    <2> QED
      BY <1>2, <2>2, <2>4, <2>5, <2>6, <1>1, <2>1 DEF CryptorTypes
  <1>4. CASE TakesUpdateCodec
    <2> DEFINE m == Head(queue)  c == TrackCryptor(m.track, m.previous)  a == Assigned(c, m.who, m.track, m.previous)
               again == ~a.live /\ a.streams # None /\ a.track # None
               x == IF again THEN SetUp(a, a.track, a.streams) ELSE a
    <2>1. m.track \in Tracks /\ m.who \in Remotes /\ m.previous \in Tracks
      BY <1>1, <1>4, FirstMessage DEF TakesUpdateCodec, Takes
    <2>2. /\ cryptors' = Stored(c, x) /\ pipe' = IF again THEN [pipe EXCEPT ![a.streams] = c] ELSE pipe
          /\ frame' = ReassignExcuses(c, m.who)
          /\ usable' = usable /\ UNCHANGED <<page, task, enabled, keys, sender, sent>>
      BY <1>4 DEF TakesUpdateCodec
    <2>3. c \in DOMAIN cryptors \union {Len(cryptors) + 1}
      BY <1>1, <2>1, CryptorIsFound
    <2>4. a \in Cryptor /\ (c \in DOMAIN cryptors /\ cryptors[c].who = m.who => a.keys = cryptors[c].keys)
      <3>1. \A d, u : d \in DOMAIN cryptors /\ cryptors[d].who = m.who => Assigned(d, m.who, m.track, u).keys = cryptors[d].keys
        BY <1>1, <2>1, AssignedIs
      <3> QED
        BY <3>1, <1>1, <2>1, AssignedIs
    <2>5. x \in Cryptor /\ x.keys = a.keys
      <3> HIDE DEF a, m
      <3> QED
        BY <2>1, <2>4 DEF SetUp, Cryptor
    <2>6. again => a.streams \in Receivers
      <3> HIDE DEF a
      <3> QED
        BY <2>4 DEF Cryptor
    <2> HIDE DEF x, again, a, c, m
    <2>7. /\ cryptors' \in Seq(Cryptor) /\ DOMAIN cryptors \subseteq DOMAIN cryptors'
          /\ c \in DOMAIN cryptors' /\ cryptors'[c] = x
          /\ \A d \in DOMAIN cryptors : d # c => cryptors'[d] = cryptors[d]
      BY <1>1, <2>2, <2>3, <2>5, StoredIs
    <2> QED
      BY <1>2, <2>2, <2>4, <2>5, <2>7, <1>1, <2>6 DEF CryptorTypes
  <1>5. CASE TakesRemoveTransform
    <2> DEFINE m == Head(queue)  mine == {c \in Keyed(m.track) : cryptors[c].who = m.who}  l == LeastOf(mine)
               x == [cryptors[l] EXCEPT !.who = None, !.watch = FALSE]
    <2>1. UNCHANGED <<page, task, enabled, keys, sender, sent, pipe, usable>>
      BY <1>5 DEF TakesRemoveTransform
    <2>2. cryptors \in Seq(Cryptor) /\ DOMAIN cryptors \subseteq Nat
      BY <1>1, LenProperties DEF CryptorTypes
    <2>3. CASE mine # {}
      <3>1. l \in DOMAIN cryptors
        BY <2>3, LeastIsIn, <2>2 DEF Keyed
      <3>2. /\ cryptors' = [cryptors EXCEPT ![l].who = None, ![l].watch = FALSE]
            /\ frame' = ReassignExcuses(l, None)
        BY <1>5, <2>3 DEF TakesRemoveTransform
      <3> HIDE DEF l, mine
      <3>3. cryptors' = [cryptors EXCEPT ![l] = x]
        BY <2>2, <3>1, <3>2
      <3>4. cryptors[l] \in Cryptor
        BY <2>2, <3>1, LenProperties
      <3>5. x \in Cryptor /\ x.keys = cryptors[l].keys
        BY <3>4 DEF Cryptor
      <3> HIDE DEF x
      <3>6. /\ cryptors' \in Seq(Cryptor) /\ DOMAIN cryptors' = DOMAIN cryptors
            /\ cryptors'[l] = x /\ \A d \in DOMAIN cryptors : d # l => cryptors'[d] = cryptors[d]
        BY <2>2, <3>1, <3>3, <3>5, ExceptSeq
      <3> QED
        BY <1>2, <2>1, <3>2, <3>5, <3>6, <1>1 DEF CryptorTypes
    <2> QED
      BY <2>3, <1>5, <1>1, <2>1 DEF TakesRemoveTransform, Reassigned, CryptorTypes
  <1> QED
    BY <1>3, <1>4, <1>5

\* Cryptors that lose their transform, or are watched, keep their participant's keys.
LEMMA PipesDo ==
  ASSUME Types, (\E r \in Receivers : \E again \in BOOLEAN : PipeEnds(r, again)) \/ (\E c \in DOMAIN cryptors : WatchdogFires(c))
  PROVE  /\ cryptors' \in Seq(Cryptor) /\ DOMAIN cryptors' = DOMAIN cryptors
         /\ pipe' \in [Receivers -> {0} \union DOMAIN cryptors'] /\ usable' \in [Receivers -> BOOLEAN]
         /\ \A d \in DOMAIN cryptors : cryptors'[d].keys = cryptors[d].keys
         /\ UNCHANGED <<page, inbox, queue, task, enabled, keys, frame, sender, sent>>
  <1>1. CryptorTypes /\ cryptors \in Seq(Cryptor)
    BY DEF Types, CryptorTypes
  <1>2. ASSUME NEW c \in DOMAIN cryptors, NEW x \in Cryptor, x.keys = cryptors[c].keys, cryptors' = [cryptors EXCEPT ![c] = x]
        PROVE  /\ cryptors' \in Seq(Cryptor) /\ DOMAIN cryptors' = DOMAIN cryptors
               /\ \A d \in DOMAIN cryptors : cryptors'[d].keys = cryptors[d].keys
    BY <1>1, <1>2, ExceptSeq
  <1>3. \A c \in DOMAIN cryptors : cryptors[c] \in Cryptor
    BY <1>1, LenProperties
  <1>4. ASSUME NEW r \in Receivers, NEW again \in BOOLEAN, PipeEnds(r, again)
        PROVE  /\ cryptors' \in Seq(Cryptor) /\ DOMAIN cryptors' = DOMAIN cryptors
               /\ pipe' \in [Receivers -> {0} \union DOMAIN cryptors'] /\ usable' \in [Receivers -> BOOLEAN]
               /\ \A d \in DOMAIN cryptors : cryptors'[d].keys = cryptors[d].keys
               /\ UNCHANGED <<page, inbox, queue, task, enabled, keys, frame, sender, sent>>
    <2> DEFINE c == pipe[r]  live == cryptors[c].live /\ cryptors[c].streams # r
               x == [cryptors[c] EXCEPT !.live = live, !.watch = TRUE]
    <2>1. c \in DOMAIN cryptors
      BY <1>1, <1>4 DEF PipeEnds, CryptorTypes
    <2>2. live \in BOOLEAN /\ cryptors[c] \in Cryptor
      BY <1>3, <2>1
    <2>3. cryptors' = [cryptors EXCEPT ![c] = x]
      BY <1>1, <1>3, <1>4, <2>1 DEF PipeEnds, Cryptor
    <2>4. x \in Cryptor /\ x.keys = cryptors[c].keys
      <3> HIDE DEF live, c
      <3> QED
        BY <2>2 DEF Cryptor
    <2> HIDE DEF x, c
    <2>5. /\ cryptors' \in Seq(Cryptor) /\ DOMAIN cryptors' = DOMAIN cryptors
          /\ \A d \in DOMAIN cryptors : cryptors'[d].keys = cryptors[d].keys
      BY <1>2, <2>1, <2>3, <2>4
    <2> QED
      BY <1>1, <2>5, <1>4 DEF CryptorTypes, PipeEnds
  <1>5. ASSUME NEW c \in DOMAIN cryptors, WatchdogFires(c)
        PROVE  /\ cryptors' \in Seq(Cryptor) /\ DOMAIN cryptors' = DOMAIN cryptors
               /\ pipe' \in [Receivers -> {0} \union DOMAIN cryptors'] /\ usable' \in [Receivers -> BOOLEAN]
               /\ \A d \in DOMAIN cryptors : cryptors'[d].keys = cryptors[d].keys
               /\ UNCHANGED <<page, inbox, queue, task, enabled, keys, frame, sender, sent>>
    <2> DEFINE report == cryptors[c].report
                           \/ (~cryptors[c].live /\ cryptors[c].who # None /\ enabled[cryptors[c].who] = "yes")
               x == [cryptors[c] EXCEPT !.watch = FALSE, !.report = report]
    <2>1. report \in BOOLEAN /\ cryptors[c] \in Cryptor
      BY <1>3
    <2>2. cryptors' = [cryptors EXCEPT ![c] = x]
      BY <1>1, <1>3, <1>5 DEF WatchdogFires, Cryptor
    <2>3. x \in Cryptor /\ x.keys = cryptors[c].keys
      <3> HIDE DEF report
      <3> QED
        BY <2>1 DEF Cryptor
    <2> HIDE DEF x
    <2>4. /\ cryptors' \in Seq(Cryptor) /\ DOMAIN cryptors' = DOMAIN cryptors
          /\ \A d \in DOMAIN cryptors : cryptors'[d].keys = cryptors[d].keys
      BY <1>2, <2>2, <2>3
    <2> QED
      BY <1>1, <2>4, <1>5 DEF CryptorTypes, WatchdogFires
  <1> QED
    BY <1>4, <1>5

-----------------------------------------------------------------------------
(* The types are kept: cryptors and frames. *)

\* Cryptors stay cryptors, and none is taken from the list.
LEMMA CryptorKept ==
  ASSUME Types, [Next]_vars
  PROVE  CryptorTypes' /\ DOMAIN cryptors \subseteq DOMAIN cryptors'
  <1>1. CryptorTypes
    BY DEF Types
  <1>2. CASE UNCHANGED <<cryptors, pipe, usable>>
    BY <1>1, <1>2 DEF CryptorTypes
  <1>3. CASE TakesDecode \/ TakesUpdateCodec \/ TakesRemoveTransform
    BY <1>3, ReassignDoes, <1>1 DEF Reassigned, CryptorTypes
  <1>4. CASE (\E r \in Receivers : \E again \in BOOLEAN : PipeEnds(r, again)) \/ (\E c \in DOMAIN cryptors : WatchdogFires(c))
    BY <1>4, PipesDo DEF CryptorTypes
  <1>5. CASE WorkerTakes
    BY <1>2, <1>3, <1>5
      DEF TakesEnable, TakesSetKey, TakesRatchetRequest, media, TakesEncryptData, TakesDecryptData,
          TakesEncode, WorkerTakes
  <1>6. CASE WorkerGoesOn
    <2>1. CASE \E r \in Receivers : FrameDecrypted(r) \/ FrameNotDecrypted(r) \/ FrameGivenUp(r)
      BY <1>2, <2>1 DEF FrameDecrypted, FrameNotDecrypted, FrameGivenUp
    <2> QED
      BY <1>4, <1>6, <2>1, <1>2
        DEF WorkerGoesOn, SetKey, DataEncrypted, DataDecrypted, media, RatchetLooksAhead, RatchetDerives,
            RatchetSets
  <1>7. CASE Environment
    <2>1. ASSUME NEW r, NEW i, NEW k, NEW n, FrameArrives(r, i, k, n) PROVE UNCHANGED <<cryptors, pipe, usable>>
      BY <2>1 DEF FrameArrives
    <2> QED
      BY <1>2, <1>4, <1>7, <2>1 DEF Environment, FrameSent, media
  <1> QED
    BY <1>5, <1>6, <1>7, <1>2, WorkerIsLeft DEF Next, worker, media

\* The steps that frames take part in.
FrameSteps ==
  \/ SetKey \/ TakesDecode \/ TakesUpdateCodec \/ TakesRemoveTransform
  \/ \E h \in Handlers, i \in Indices : RatchetLooksAhead(h, i) \/ RatchetSets(h, i)
  \/ \E r \in Receivers : FrameDecrypted(r) \/ FrameNotDecrypted(r) \/ FrameGivenUp(r)
  \/ \E r \in Receivers, i \in options.indices, k \in GivenKeys, n \in Steps : FrameArrives(r, i, k, n)

\* In the others no frame changes.
LEMMA FramesRest ==
  ASSUME [Next]_vars
  PROVE  FrameSteps \/ UNCHANGED frame
  <1>1. CASE WorkerTakes
    BY <1>1
      DEF TakesEnable, TakesSetKey, TakesRatchetRequest, media, TakesEncryptData, TakesDecryptData,
          TakesEncode, WorkerTakes, FrameSteps
  <1>2. CASE Environment
    BY <1>2 DEF FrameSent, PipeEnds, media, Environment, FrameSteps
  <1> QED
    BY <1>1, <1>2, WorkerIsLeft
      DEF Next, worker, media, DataEncrypted, DataDecrypted, WatchdogFires, RatchetDerives, WorkerGoesOn,
          FrameSteps

\* A frame runs through a cryptor of those in D.
IsFrame(f, D) ==
  /\ f \in Frame
  /\ f.pc # "idle" => f.c \in D /\ f.h \in Handlers
  /\ f.c \in {0} \union D
  /\ f.pc = "ratchet" => f.n < Window

\* No frame does.
LEMMA NoFrameIs ==
  ASSUME NEW D
  PROVE  IsFrame(NoFrame, D) /\ \A b \in BOOLEAN : IsFrame([NoFrame EXCEPT !.missed = b], D)
  <1>1. NoFrame \in Frame /\ NoFrame.pc = "idle" /\ NoFrame.c = 0
    BY SettingsAssumption DEF NoFrame, Frame, NoSlot, Slots, Indices
  <1> QED
    BY <1>1 DEF IsFrame, Frame

\* Frames that need not be decrypted any more.
LEMMA UndueAreFrames ==
  ASSUME NEW f, NEW D, \A r \in Receivers : IsFrame(f[r], D), NEW x, x = [r \in Receivers |-> x[r]],
         \A r \in Receivers : x[r] = f[r] \/ x[r] = [f[r] EXCEPT !.due = FALSE]
  PROVE  x \in [Receivers -> Frame] /\ \A r \in Receivers : IsFrame(x[r], D)
  BY Undue DEF IsFrame

\* Those that are excused.
LEMMA ExcusesDo ==
  ASSUME NEW f, NEW D, \A r \in Receivers : IsFrame(f[r], D), NEW h, NEW i
  PROVE  /\ Excuses(f, h, i) = [r \in Receivers |-> Excuses(f, h, i)[r]]
         /\ \A r \in Receivers : Excuses(f, h, i)[r] = f[r] \/ Excuses(f, h, i)[r] = [f[r] EXCEPT !.due = FALSE]
         /\ Excuses(f, h, i) \in [Receivers -> Frame]
         /\ \A r \in Receivers : IsFrame(Excuses(f, h, i)[r], D)
  <1> DEFINE x == Excuses(f, h, i)
  <1> HIDE DEF x
  <1> QED
    BY UndueAreFrames DEF x, Excuses

\* Those that are passed.
LEMMA PassesDo ==
  ASSUME NEW f, NEW D, \A r \in Receivers : IsFrame(f[r], D), NEW h, NEW i, NEW k
  PROVE  /\ Passes(f, h, i, k) = [r \in Receivers |-> Passes(f, h, i, k)[r]]
         /\ \A r \in Receivers : Passes(f, h, i, k)[r] = f[r] \/ Passes(f, h, i, k)[r] = [f[r] EXCEPT !.due = FALSE]
         /\ Passes(f, h, i, k) \in [Receivers -> Frame]
         /\ \A r \in Receivers : IsFrame(Passes(f, h, i, k)[r], D)
  <1> DEFINE x == Passes(f, h, i, k)
  <1> HIDE DEF x
  <1> QED
    BY UndueAreFrames DEF x, Passes

\* A frame that went on, or ended, and the others as they are.
LEMMA OneFrame ==
  ASSUME FrameTypes, NEW r \in Receivers, NEW x, IsFrame(x, DOMAIN cryptors), NEW g, g = [frame EXCEPT ![r] = x]
  PROVE  /\ g = [s \in Receivers |-> g[s]] /\ g[r] = x /\ \A s \in Receivers : s # r => g[s] = frame[s]
         /\ \A s \in Receivers : IsFrame(g[s], DOMAIN cryptors)
         /\ g \in [Receivers -> Frame]
  BY DEF FrameTypes, IsFrame

\* Frames stay frames.
LEMMA FrameKept ==
  ASSUME Types, [Next]_vars
  PROVE  FrameTypes'
  <1> DEFINE D == DOMAIN cryptors
  <1>0. /\ FrameTypes /\ RingTypes /\ Window \in Nat /\ D \subseteq DOMAIN cryptors'
        /\ frame \in [Receivers -> Frame] /\ \A r \in Receivers : IsFrame(frame[r], D)
        /\ frame = [r \in Receivers |-> frame[r]]
    BY CryptorKept, SettingsAssumption DEF Types, FrameTypes, IsFrame
  <1>1. ASSUME frame' \in [Receivers -> Frame], \A r \in Receivers : IsFrame(frame'[r], D) PROVE FrameTypes'
    BY <1>0, <1>1 DEF FrameTypes, IsFrame
  <1> HIDE DEF D
  <1>2. ASSUME NEW h, NEW i, frame' = Excuses(frame, h, i) PROVE FrameTypes'
    BY <1>0, <1>1, <1>2, ExcusesDo
  <1>3. CASE TakesDecode \/ TakesUpdateCodec \/ TakesRemoveTransform
    <2>1. Reassigned
      BY <1>3, ReassignDoes
    <2>2. ASSUME NEW r \in Receivers PROVE IsFrame(frame'[r], D)
      <3>1. IsFrame(frame[r], D) /\ (frame'[r] = frame[r] \/ frame'[r] = [frame[r] EXCEPT !.due = FALSE])
        BY <1>0, <2>1 DEF Reassigned
      <3>2. frame'[r] \in Frame /\ frame'[r].pc = frame[r].pc /\ frame'[r].c = frame[r].c /\ frame'[r].h = frame[r].h
            /\ frame'[r].n = frame[r].n
        BY <3>1, Undue DEF IsFrame
      <3> QED
        BY <3>1, <3>2 DEF IsFrame
    <2>3. frame' \in [Receivers -> Frame]
      BY <2>1, <2>2 DEF Reassigned, IsFrame
    <2> QED
      BY <1>1, <2>2, <2>3
  <1>4. ASSUME NEW h \in Handlers, NEW i \in Indices, NEW f \in [Receivers -> Frame], \A r \in Receivers : IsFrame(f[r], D), Resolves(f, h, i)
        PROVE  FrameTypes'
    <2>0. /\ \A r \in Receivers : ~(f[r].pc = "ratchet" /\ f[r].h = h /\ f[r].idx = i) => frame'[r] = f[r]
          /\ \A r \in Receivers : f[r].pc = "ratchet" /\ f[r].h = h /\ f[r].idx = i => Wakes(frame'[r], f[r], ratchets[h][i])
      BY <1>0, <1>4, ResolvesOneSlot
    <2>1. ASSUME NEW r \in Receivers PROVE IsFrame(frame'[r], D)
      <3>1. CASE ~(f[r].pc = "ratchet" /\ f[r].h = h /\ f[r].idx = i)
        BY <1>4, <2>0, <3>1
      <3>2. CASE f[r].pc = "ratchet" /\ f[r].h = h /\ f[r].idx = i
        <4>1. f[r].n < Window /\ f[r].c \in D /\ f[r].h \in Handlers
          BY <1>4, <3>2 DEF IsFrame
        <4>2. frame'[r] \in Frame /\ frame'[r].pc = "decrypt" /\ frame'[r].c = f[r].c /\ frame'[r].h = f[r].h
          BY <2>0, <3>2, <4>1 DEF Wakes
        <4> QED
          BY <4>1, <4>2 DEF IsFrame
      <3> QED
        BY <3>1, <3>2
    <2>2. frame' = [r \in Receivers |-> frame'[r]]
      BY <1>0, <1>4, ResolvesOneSlot
    <2>3. frame' \in [Receivers -> Frame]
      BY <2>1, <2>2 DEF IsFrame
    <2> QED
      BY <1>1, <2>1, <2>3
  <1>5. ASSUME NEW h \in Handlers, NEW i \in Indices, RatchetLooksAhead(h, i) \/ RatchetSets(h, i) PROVE FrameTypes'
    <2>1. CASE RatchetLooksAhead(h, i)
      <3>1. Resolves(frame, h, i)
        BY <2>1 DEF RatchetLooksAhead
      <3> QED
        BY <1>0, <1>4, <3>1
    <2>2. CASE RatchetSets(h, i)
      <3> DEFINE f == Excuses(frame, h, i)
      <3>1. f \in [Receivers -> Frame] /\ \A r \in Receivers : IsFrame(f[r], D)
        BY <1>0, ExcusesDo
      <3>2. Resolves(f, h, i)
        BY <2>2 DEF RatchetSets
      <3> HIDE DEF f
      <3> QED
        BY <1>4, <3>1, <3>2
    <2> QED
      BY <1>5, <2>1, <2>2
  <1>6. ASSUME NEW r \in Receivers, NEW x, IsFrame(x, D), frame' = [frame EXCEPT ![r] = x] PROVE FrameTypes'
    BY <1>0, <1>1, <1>6, OneFrame DEF D
  <1>7. ASSUME NEW r \in Receivers, FrameDecrypted(r) PROVE FrameTypes'
    <2> DEFINE f == frame[r]  others == [frame EXCEPT ![r] = NoFrame]
    <2>1. frame' = others \/ frame' = Passes(others, f.h, f.idx, f.try)
      BY <1>7, DecryptedDoes
    <2>2. IsFrame(NoFrame, D)
      BY NoFrameIs
    <2>3. others = [s \in Receivers |-> others[s]] /\ \A s \in Receivers : IsFrame(others[s], D)
      BY <1>0, <2>2, OneFrame DEF D
    <2> HIDE DEF f, others
    <2>4. frame' = Passes(others, f.h, f.idx, f.try) => FrameTypes'
      <3>1. LET x == Passes(others, f.h, f.idx, f.try) IN x \in [Receivers -> Frame] /\ \A s \in Receivers : IsFrame(x[s], D)
        BY <2>3, PassesDo
      <3> QED
        BY <1>1, <3>1
    <2>5. frame' = others => FrameTypes'
      BY <1>6, <2>2 DEF others
    <2> QED
      BY <2>1, <2>4, <2>5
  <1>8. ASSUME NEW r \in Receivers, FrameNotDecrypted(r) PROVE FrameTypes'
    <2> DEFINE f == frame[r]  h == cryptors[frame[r].c].keys  slot == ring[h][f.idx]
               waits == [f EXCEPT !.pc = "ratchet"]  tries == [f EXCEPT !.n = f.n + 1, !.try = slot, !.hot = FALSE]
    <2>1. /\ f \in Frame /\ f.pc = "decrypt" /\ f.n < Window /\ f.c \in DOMAIN cryptors /\ f.h \in Handlers /\ slot \in Slots
          /\ \/ frame' = [frame EXCEPT ![r] = waits] \/ frame' = [frame EXCEPT ![r] = NoFrame]
             \/ frame' = [frame EXCEPT ![r] = tries]
      BY <1>8, NotDecryptedDoes
    <2> HIDE DEF f, slot
    <2>2. IsFrame(waits, D)
      <3>1. waits \in Frame /\ waits.c = f.c /\ waits.h = f.h /\ waits.n = f.n
        BY <2>1 DEF Frame
      <3> QED
        BY <2>1, <3>1 DEF IsFrame, D
    <2>3. IsFrame(tries, D)
      <3>1. f.n + 1 \in 0..Window
        BY <1>0, <2>1 DEF Frame
      <3>2. tries \in Frame /\ tries.c = f.c /\ tries.h = f.h /\ tries.pc = "decrypt"
        BY <2>1, <3>1 DEF Frame
      <3> QED
        BY <2>1, <3>2 DEF IsFrame, D
    <2>4. IsFrame(NoFrame, D)
      BY NoFrameIs
    <2> HIDE DEF waits, tries
    <2> QED
      BY <1>6, <2>1, <2>2, <2>3, <2>4
  <1>9. ASSUME NEW r \in Receivers, FrameGivenUp(r) PROVE FrameTypes'
    <2>1. frame' = [frame EXCEPT ![r] = [NoFrame EXCEPT !.missed = frame[r].due]] /\ frame[r].due \in BOOLEAN
      BY <1>0, <1>9 DEF FrameGivenUp, Frame
    <2>2. IsFrame([NoFrame EXCEPT !.missed = frame[r].due], D)
      BY <2>1, NoFrameIs
    <2> QED
      BY <1>6, <2>1, <2>2
  <1>10. ASSUME NEW r \in Receivers, NEW i \in options.indices, NEW k \in GivenKeys, NEW n \in Steps, FrameArrives(r, i, k, n)
         PROVE  FrameTypes'
    <2> DEFINE c == pipe[r]  h == cryptors[pipe[r]].keys  slot == ring[h][i]
               due == slot.key = k /\ n \in slot.step..(slot.step + 1) /\ ratchets[h][i].pc # "rejected"
               new == [pc |-> "decrypt", c |-> c, h |-> h, idx |-> i, key |-> k, step |-> n,
                       try |-> slot, base |-> slot, n |-> 0, hot |-> FALSE, missed |-> FALSE, due |-> due]
    <2>1. /\ c \in D /\ h \in Handlers /\ i \in Indices /\ slot \in Slots /\ k \in Nat /\ n \in Nat
          /\ frame' = frame \/ frame' = [frame EXCEPT ![r] = new]
      BY <1>10, ArrivesDoes DEF D
    <2>2. due \in BOOLEAN /\ c \in Nat
      BY <2>1, LenProperties DEF Types, CryptorTypes, D
    <2> HIDE DEF c, h, slot, due
    <2>3. new \in Frame
      BY <1>0, <2>1, <2>2 DEF Frame
    <2>4. IsFrame(new, D)
      BY <2>1, <2>3 DEF IsFrame
    <2> HIDE DEF new
    <2> QED
      BY <1>0, <1>1, <1>6, <2>1, <2>4
  <1>11. CASE SetKey
    BY <1>2, <1>11, SetKeyDoes
  <1>12. CASE UNCHANGED frame
    BY <1>0, <1>1, <1>12
  <1> QED
    BY <1>3, <1>5, <1>7, <1>8, <1>9, <1>10, <1>11, <1>12, FramesRest DEF FrameSteps

\* Who sends, and how.
LEMMA SentKept ==
  ASSUME Types, [Next]_vars
  PROVE  SentTypes'
  <1>1. SentTypes
    BY DEF Types
  <1>2. CASE UNCHANGED <<sender, sent>>
    BY <1>1, <1>2 DEF SentTypes
  <1>3. CASE WorkerTakes
    BY <1>2, ReassignDoes, <1>3, <1>1
      DEF TakesEnable, TakesSetKey, TakesRatchetRequest, TakesEncryptData, TakesDecryptData, WorkerTakes,
          TakesEncode, SentTypes
  <1>4. CASE WorkerGoesOn
    <2>1. CASE \E r \in Receivers : FrameDecrypted(r) \/ FrameNotDecrypted(r) \/ FrameGivenUp(r)
      BY <1>2, <2>1 DEF FrameDecrypted, FrameNotDecrypted, FrameGivenUp
    <2> QED
      BY <1>4, <2>1, <1>2
        DEF WorkerGoesOn, SetKey, DataEncrypted, DataDecrypted, WatchdogFires, RatchetLooksAhead,
            RatchetDerives, RatchetSets
  <1>5. CASE Environment
    <2>1. ASSUME NEW r, NEW i, NEW k, NEW n, FrameArrives(r, i, k, n) PROVE UNCHANGED <<sender, sent>>
      BY <2>1 DEF FrameArrives
    <2>2. ASSUME NEW r, NEW again, PipeEnds(r, again) PROVE UNCHANGED <<sender, sent>>
      BY <2>2 DEF PipeEnds
    <2> QED
      BY <1>2, <1>5, <2>1, <2>2, <1>1 DEF Environment, FrameSent, SentTypes
  <1> QED
    BY <1>3, <1>4, <1>5, <1>2, WorkerIsLeft DEF Next, worker

\* The state is well-formed, and stays so.
LEMMA TypesKept ==
  ASSUME Types, [Next]_vars
  PROVE  Types'
  BY OptionsKept, PageKept, RingKept, TaskKept, CryptorKept, FrameKept, SentKept, QueueKept, InboxKept
    DEF Types, QueueTypes

\* It is so in the beginning, of every session.
LEMMA InitTypes ==
  ASSUME Init
  PROVE  Types
  <1>1. PICK s \in Sessions :
          LET on == Elements(s.ready)
              rx(t) == (CHOOSE e \in on : e.track = t).receiver
              up == {e.track : e \in on} IN
          /\ options = [shared |-> s.shared, people |-> s.people, indices |-> s.indices,
                        keys |-> s.left.key, steps |-> s.steps]
          /\ left = s.left
          /\ published = up
          /\ subscribed = [t \in Tracks |-> IF t \in up THEN rx(t) ELSE None]
          /\ trackOf = [r \in Receivers |-> IF \E t \in up : rx(t) = r THEN CHOOSE t \in up : rx(t) = r ELSE None]
          /\ enabled = [p \in Remotes \union {Local} |-> IF \E t \in up : Owner[t] = p THEN "yes" ELSE None]
          /\ cryptors = [c \in DOMAIN s.ready |->
               [track |-> s.ready[c].track, who |-> Owner[s.ready[c].track],
                keys |-> IF s.shared THEN SharedKey ELSE Owner[s.ready[c].track],
                live |-> TRUE, streams |-> s.ready[c].receiver, watch |-> FALSE, report |-> FALSE]]
          /\ pipe = [r \in Receivers |-> IF \E c \in DOMAIN s.ready : s.ready[c].receiver = r
                                         THEN CHOOSE c \in DOMAIN s.ready : s.ready[c].receiver = r ELSE 0]
    BY Zenon DEF Init
  <1>2. /\ keyInfos = <<>> /\ home = subscribed /\ request = [i \in Requests |-> None]
        /\ wanted = FALSE /\ enabledHere = FALSE /\ disposed = FALSE
        /\ told = [h \in Handlers |-> [i \in Indices |-> NoSlot]]
        /\ queue = <<>> /\ inbox = <<>> /\ task = NoTask
        /\ ring = [h \in Handlers |-> [i \in Indices |-> NoSlot]]
        /\ current = [h \in Handlers |-> 0]
        /\ failures = [h \in Handlers |-> [i \in Indices |-> 0]]
        /\ ratchets = [h \in Handlers |-> [i \in Indices |-> NoRatchet]]
        /\ raced = {} /\ usable = [r \in Receivers |-> TRUE] /\ frame = [r \in Receivers |-> NoFrame]
        /\ sender = FALSE /\ sent = None
    BY DEF Init
  <1> DEFINE on == Elements(s.ready)
             rx(t) == (CHOOSE e \in on : e.track = t).receiver
             up == {e.track : e \in on}
             Ready == [track : Tracks, receiver : Receivers]
  <1>3. /\ s.shared \in BOOLEAN /\ s.people \subseteq Remotes \union {Local} /\ s.indices \subseteq Indices
        /\ s.steps \in Nat /\ s.left \in [Kinds -> Nat] /\ s.ready \in Seq(Ready)
    BY SessionsAssumption
  <1>4. /\ \A c \in DOMAIN s.ready : s.ready[c] \in Ready
        /\ DOMAIN s.ready = 1..Len(s.ready) /\ Len(s.ready) \in Nat
    <2> HIDE DEF Ready
    <2> QED
      BY <1>3, LenProperties
  <1>5. on \subseteq Ready
    BY <1>4 DEF Elements
  <1>6. up \subseteq Tracks /\ \A t \in up : rx(t) \in Receivers
    <2>1. ASSUME NEW t \in up PROVE rx(t) \in Receivers
      <3> HIDE DEF on
      <3> QED
        BY <1>5
    <2> QED
      BY <2>1, <1>5
  <1>7. NoSlot \in Slots /\ NoRatchet \in Ratchet /\ 0 \in Indices
    BY SettingsAssumption DEF NoSlot, Slots, NoRatchet, Ratchet, Indices
  <1>8. PageTypes
    <2>1. trackOf \in [Receivers -> Tracks \union {None}]
      <3> HIDE DEF rx, up
      <3> QED
        BY <1>6, <1>1 DEF rx, up
    <2>2. keyInfos \in Seq(KeyInfo) /\ DOMAIN keyInfos = {}
      BY <1>2
    <2> QED
      BY <1>2, <2>1, <2>2, <1>1, <1>6, <1>7 DEF PageTypes, Requests
  <1>9. QueueTypes /\ TaskTypes /\ SentTypes
    <2>1. queue \in Seq(ToWorker(Whos)) /\ inbox \in Seq(ToPage)
      BY <1>2
    <2>2. task \in Tasks /\ task.kind # "decrypt"
      BY <1>2 DEF Tasks, NoTask, None
    <2> QED
      BY <1>2, <2>1, <2>2 DEF QueueTypes, TaskTypes, SentTypes
  <1>10. RingTypes
    BY <1>1, <1>2, <1>7 DEF RingTypes
  <1>11. CryptorTypes
    <2>1. ASSUME NEW c \in DOMAIN s.ready PROVE cryptors[c] \in Cryptor
      <3> DEFINE e == s.ready[c]
      <3>1. e.track \in Tracks /\ e.receiver \in Receivers /\ Owner[e.track] \in Remotes
        BY <1>4, SettingsAssumption
      <3> DEFINE hisKeys == IF s.shared THEN SharedKey ELSE Owner[e.track]
      <3>2. hisKeys \in Handlers
        BY <3>1 DEF Handlers
      <3>3. cryptors[c] = [track |-> e.track, who |-> Owner[e.track], keys |-> hisKeys,
                           live |-> TRUE, streams |-> e.receiver, watch |-> FALSE, report |-> FALSE]
        BY <1>1
      <3> HIDE DEF e, hisKeys
      <3> QED
        BY <3>1, <3>2, <3>3 DEF Cryptor
    <2>2. DOMAIN cryptors = DOMAIN s.ready /\ cryptors = [c \in DOMAIN s.ready |-> cryptors[c]]
      BY <1>1
    <2>3. cryptors \in [1..Len(s.ready) -> Cryptor]
      BY <1>4, <2>1, <2>2
    <2>4. cryptors \in Seq(Cryptor)
      BY <1>4, <2>3, SeqDef
    <2>5. pipe \in [Receivers -> {0} \union DOMAIN cryptors]
      BY <1>1, <2>2
    <2> QED
      BY <1>2, <2>4, <2>5 DEF CryptorTypes
  <1>12. FrameTypes
    BY NoFrameIs, <1>2 DEF IsFrame, FrameTypes
  <1> QED
    BY <1>8, <1>9, <1>10, <1>11, <1>12, <1>3, <1>1 DEF Types, Kinds, OptionTypes

-----------------------------------------------------------------------------
(* What happens to a frame, and to its slot. *)

\* A ratchet that goes on is of the same key.
SameTurn(l, k) == /\ l.key = k.key /\ l.step = k.step /\ Runs(l) = Runs(k)
                  /\ (l.pc = None) = (k.pc = None) /\ (l.pc = "rejected") = (k.pc = "rejected")

\* g is the frame f, which may not be due any more.
MaybeUndue(g, f) == g = f \/ g = [f EXCEPT !.due = FALSE]

\* Nothing that matters to a frame happens.
LEMMA FrameRests ==
  ASSUME NEW f \in Frame, NEW s \in Slots, NEW k \in Ratchet, NEW x \in BOOLEAN, NEW own \in BOOLEAN,
         NEW g, NEW l \in Ratchet, NEW y \in BOOLEAN, NEW mine \in BOOLEAN,
         FrameIsRight(f, s, k, x, own), MaybeUndue(g, f), SameTurn(l, k), x => y, g.due => mine = own
  PROVE  FrameIsRight(g, s, l, y, mine)
  BY Undue DEF MaybeUndue, WaitsForRun, SameTurn, KeepsKey, Catches, IsNext, SameKey, DueIsCaught, FrameIsRight

\* A ratchet of the key in the slot begins, or, without a key, is rejected.
Begins(l, k, s) ==
  /\ k.pc = None
  /\ \/ s.key = 0 /\ l.pc = "rejected"
     \/ s.key # 0 /\ l.pc = "ratchet" /\ l.key = s.key /\ l.step = s.step + 1

\* A frame that is right stays so when a ratchet begins in its slot.
LEMMA RatchetBegins ==
  ASSUME NEW f \in Frame, NEW s \in Slots, NEW k \in Ratchet, NEW x \in BOOLEAN, NEW own \in BOOLEAN, NEW l \in Ratchet,
         FrameIsRight(f, s, k, x, own), Begins(l, k, s)
  PROVE  FrameIsRight(f, s, l, x, own)
  <1>1. CASE f.pc # "idle"
    <2>1. f.pc = "decrypt"
      BY <1>1 DEF FrameIsRight, WaitsForRun, Begins, Runs, Frame, None
    <2>2. ASSUME f.due, DueIsCaught(f, s, k, own), f.base.key # 0 PROVE DueIsCaught(f, s, l, own)
      <3>1. s.key = f.key /\ f.key # 0 /\ own /\ f.base.key = f.key /\ Catches(f, s, k)
        BY <2>2 DEF DueIsCaught
      <3>2. l.pc = "ratchet" /\ l.key = s.key /\ l.step = s.step + 1
        BY <3>1 DEF Begins
      <3>3. Catches(f, s, l)
        BY <3>1, <3>2, <2>1 DEF IsNext, Catches, Frame, Slots
      <3> QED
        BY <3>1, <3>2, <3>3 DEF DueIsCaught
    <2> QED
      BY <2>1, <2>2 DEF FrameIsRight, WaitsForRun, KeepsKey, DueIsCaught
  <1> QED
    BY <1>1 DEF FrameIsRight

\* The slot is filled: who is due still is so for the next ratchet of the key.
LEMMA SlotFills ==
  ASSUME NEW f \in Frame, NEW s \in Slots, NEW k \in Ratchet, NEW x \in BOOLEAN, NEW own \in BOOLEAN,
         NEW g, NEW t \in Slots, NEW y \in BOOLEAN,
         FrameIsRight(f, s, k, x, own), MaybeUndue(g, f), t.nth = s.nth + 1,
         g.due => t.key = s.key /\ t.step = s.step + 1 /\ t.step <= f.step
  PROVE  FrameIsRight(g, t, k, y, own)
  <1>1. /\ g \in Frame /\ (g.due => f.due)
        /\ g.pc = f.pc /\ g.c = f.c /\ g.h = f.h /\ g.idx = f.idx /\ g.key = f.key /\ g.step = f.step
        /\ g.try = f.try /\ g.base = f.base /\ g.n = f.n /\ g.hot = f.hot /\ g.missed = f.missed
    BY Undue DEF MaybeUndue
  <1>2. CASE f.pc # "idle"
    <2>1. f.try.key # 0 /\ f.base.key # 0 /\ WaitsForRun(f, k) /\ KeepsKey(f, s, k, x)
          /\ (Window >= 2 => DueIsCaught(f, s, k, own)) /\ (Window >= 2 => ~f.missed)
      BY <1>2 DEF FrameIsRight
    <2>2. t # f.base /\ f.base.nth <= t.nth
      BY <2>1 DEF KeepsKey, Frame, Slots
    <2>3. ASSUME g.due, DueIsCaught(f, s, k, own) PROVE DueIsCaught(g, t, k, own)
      <3>1. f.due /\ own /\ f.base.key = f.key /\ s.key = f.key /\ k.pc # "rejected" /\ Catches(f, s, k)
        BY <1>1, <2>3 DEF DueIsCaught
      <3>2. s.step \in Nat /\ f.step \in Nat /\ f.base.step \in Nat /\ f.n \in Nat
        BY SettingsAssumption DEF Slots, Frame
      <3>3. Catches(f, t, k)
        BY <2>3, <2>2, <3>2, <3>1 DEF Catches
      <3> QED
        BY <1>1, <2>3, <3>1, <3>3 DEF DueIsCaught, Catches, IsNext, SameKey
    <2>4. DueIsCaught(f, s, k, own) => DueIsCaught(g, t, k, own)
      BY <2>3 DEF DueIsCaught
    <2> QED
      BY <1>1, <1>2, <2>1, <2>4, <2>2 DEF FrameIsRight, WaitsForRun, KeepsKey
  <1> QED
    BY <1>2, <1>1 DEF FrameIsRight

\* The ratchet is over: the frame is woken with its key, unless it waits for none.
LEMMA RatchetEnds ==
  ASSUME NEW f \in Frame, NEW s \in Slots, NEW k \in Ratchet, NEW x \in BOOLEAN, NEW own \in BOOLEAN, NEW g, g \in Frame,
         FrameIsRight(f, s, k, x, own), Runs(k), k.key # 0,
         IF f.pc = "ratchet" THEN Wakes(g, f, k) ELSE g = f
  PROVE  FrameIsRight(g, s, NoRatchet, x, own)
  <1>1. NoRatchet.pc = None /\ NoRatchet.pc # "rejected" /\ k.pc # None
    BY DEF NoRatchet, None, Runs
  <1>2. CASE f.pc = "ratchet"
    <2>1. /\ g.pc = "decrypt" /\ g.n = f.n + 1 /\ g.hot = TRUE /\ g.try.key = k.key /\ g.try.step = k.step
          /\ g.c = f.c /\ g.h = f.h /\ g.idx = f.idx /\ g.key = f.key /\ g.step = f.step /\ g.base = f.base
          /\ g.due = f.due /\ g.missed = f.missed
      BY <1>2 DEF Wakes
    <2>2. ASSUME f.due, DueIsCaught(f, s, k, own) PROVE DueIsCaught(g, s, NoRatchet, own)
      BY <2>2, <2>1, <1>1, <1>2 DEF DueIsCaught, IsNext, SameKey, Catches
    <2>3. DueIsCaught(f, s, k, own) => DueIsCaught(g, s, NoRatchet, own)
      BY <2>1, <2>2 DEF DueIsCaught
    <2> QED
      BY <2>1, <2>3, <1>2 DEF FrameIsRight, WaitsForRun, KeepsKey
  <1> QED
    BY <1>2, <1>1 DEF WaitsForRun, KeepsKey, Catches, DueIsCaught, FrameIsRight

\* The frame itself begins to wait: for a ratchet that runs, or for one it begins.
LEMMA FrameWaits ==
  ASSUME NEW f \in Frame, NEW k \in Ratchet, NEW x \in BOOLEAN, NEW l \in Ratchet, NEW y \in BOOLEAN,
         f.pc = "decrypt", ~SameKey(f.try, f), FrameIsRight(f, f.base, k, x, TRUE),
         \/ Begins(l, k, f.base)
         \/ Runs(k) /\ SameTurn(l, k),
         x => y, ~y => l.key = f.base.key
  PROVE  FrameIsRight([f EXCEPT !.pc = "ratchet"], f.base, l, y, TRUE)
  <1> DEFINE g == [f EXCEPT !.pc = "ratchet"]
  <1>1. /\ g.pc = "ratchet" /\ g.h = f.h /\ g.idx = f.idx /\ g.key = f.key /\ g.step = f.step
        /\ g.try = f.try /\ g.base = f.base /\ g.n = f.n /\ g.hot = f.hot /\ g.missed = f.missed /\ g.due = f.due
    BY DEF Frame
  <1> HIDE DEF g
  <1>2. f.try.key # 0 /\ f.base.key # 0 /\ KeepsKey(f, f.base, k, x)
        /\ (Window >= 2 => DueIsCaught(f, f.base, k, TRUE)) /\ (Window >= 2 => ~f.missed)
    BY DEF FrameIsRight
  <1>3. Runs(l)
    BY <1>2 DEF Begins, SameTurn, Runs
  <1>4. ASSUME f.due, DueIsCaught(f, f.base, k, TRUE) PROVE DueIsCaught(g, f.base, l, TRUE)
    <2>1. f.base.key = f.key /\ Catches(f, f.base, k)
      BY <1>4 DEF DueIsCaught
    <2>2. f.step = f.base.step + 1 /\ (f.n = 0 \/ (f.n = 1 /\ (k.pc = None \/ IsNext(f, k))))
      BY <2>1 DEF Catches
    <2>3. f.n = 1 => IsNext(f, l)
      BY <2>2, <1>2, <2>1 DEF Runs, None, SameTurn, IsNext, Begins
    <2>4. l.pc # "rejected"
      BY <1>3 DEF Runs
    <2> QED
      BY <1>1, <2>1, <2>4, <2>2, <2>3 DEF DueIsCaught, Catches, IsNext
  <1> QED
    BY <1>1, <1>2, <1>3, <1>4 DEF FrameIsRight, WaitsForRun, g, KeepsKey, DueIsCaught

\* The frame itself tries what there is by now.
LEMMA FrameRetries ==
  ASSUME NEW f \in Frame, NEW s \in Slots, NEW k \in Ratchet, NEW x \in BOOLEAN, NEW own \in BOOLEAN, NEW t \in Slots,
         f.pc = "decrypt", ~SameKey(f.try, f), FrameIsRight(f, s, k, x, own), t.key # 0,
         own => t = s /\ s # f.base,
         NEW g, g = [f EXCEPT !.n = f.n + 1, !.try = t, !.hot = FALSE]
  PROVE  FrameIsRight(g, s, k, x, own)
  BY DEF Frame, FrameIsRight, DueIsCaught, Catches, SameKey, WaitsForRun, KeepsKey

\* No frame is right whatever there is.
LEMMA NoFrameIsRight ==
  ASSUME NEW s, NEW k, NEW x, NEW own
  PROVE  /\ FrameIsRight(NoFrame, s, k, x, own)
         /\ \A b \in BOOLEAN : (Window >= 2 => ~b) => FrameIsRight([NoFrame EXCEPT !.missed = b], s, k, x, own)
  BY DEF NoFrame, FrameIsRight

\* A frame that comes has the key that is there, and tries it.
LEMMA FrameBegins ==
  ASSUME NEW f \in Frame, NEW s \in Slots, NEW k \in Ratchet, NEW x, s.key # 0, f.pc = "decrypt", f.try = s, f.base = s, f.n = 0,
         f.hot = FALSE, f.missed = FALSE,
         f.due => s.key = f.key /\ f.step \in s.step..(s.step + 1) /\ k.pc # "rejected"
  PROVE  FrameIsRight(f, s, k, x, TRUE)
  BY DEF Slots, SameKey, Catches, FrameIsRight, DueIsCaught, KeepsKey, WaitsForRun

\* A frame that is due is not given up.
LEMMA NoneIsMissed ==
  ASSUME NEW f \in Frame, NEW s \in Slots, NEW k \in Ratchet, NEW x, NEW own, Window >= 2,
         FrameIsRight(f, s, k, x, own), f.pc = "decrypt", ~SameKey(f.try, f), f.n = Window
  PROVE  ~f.due
  BY SettingsAssumption DEF FrameIsRight, DueIsCaught, Catches

-----------------------------------------------------------------------------
(* Frames stay right: whatever happens, each of them decrypts or has a reason not to. *)

\* The frame of r is right.
FrameRight(r) ==
  FrameIsRight(frame[r], ring[frame[r].h][frame[r].idx], ratchets[frame[r].h][frame[r].idx],
               <<frame[r].h, frame[r].idx>> \in raced, cryptors[frame[r].c].keys = frame[r].h)

\* While no frame is handled, there is nothing to be right.
LEMMA IdleIsRight ==
  ASSUME NEW f \in Frame, NEW s, NEW k, NEW x, NEW own, FrameIsRight(f, s, k, x, own), f.pc = "idle",
         NEW g, MaybeUndue(g, f), NEW t, NEW l, NEW y, NEW mine
  PROVE  FrameIsRight(g, t, l, y, mine)
  BY Undue DEF MaybeUndue, FrameIsRight

\* What a frame refers to, before and after a step that leaves it as it is.
LEMMA SameFrame ==
  ASSUME Types, Types', FramesAreRight, NEW r \in Receivers, MaybeUndue(frame'[r], frame[r])
  PROVE  LET f == frame[r]  h == frame[r].h  i == frame[r].idx IN
         /\ f \in Frame /\ FrameRight(r)
         /\ frame'[r].h = h /\ frame'[r].idx = i /\ frame'[r].c = f.c
         /\ (frame'[r].due => f.due)
         /\ f.pc # "idle" => /\ h \in Handlers /\ i \in Indices /\ ring[h][i] \in Slots /\ ring'[h][i] \in Slots
                             /\ ratchets[h][i] \in Ratchet /\ ratchets'[h][i] \in Ratchet
                             /\ f.c \in DOMAIN cryptors
  <1>1. frame[r] \in Frame /\ FrameRight(r)
    BY FrameIs DEF FramesAreRight, FrameRight
  <1>2. ASSUME frame[r].pc # "idle"
        PROVE  LET h == frame[r].h  i == frame[r].idx IN
               /\ h \in Handlers /\ i \in Indices /\ ring[h][i] \in Slots /\ ring'[h][i] \in Slots
               /\ ratchets[h][i] \in Ratchet /\ ratchets'[h][i] \in Ratchet /\ frame[r].c \in DOMAIN cryptors
    BY <1>2, FrameIs DEF Types, RingTypes
  <1> QED
    BY <1>1, <1>2, Undue DEF MaybeUndue

\* Nothing happens to the slot, or the ratchet in it goes on.
SlotRests(h, i) == /\ ring'[h][i] = ring[h][i] /\ SameTurn(ratchets'[h][i], ratchets[h][i])
                   /\ <<h, i>> \in raced => <<h, i>> \in raced'
KeysRest(r) == frame'[r].due => cryptors'[frame[r].c].keys = cryptors[frame[r].c].keys

\* Nothing happens to the frame.
LEMMA FrameStays ==
  ASSUME Types, Types', FramesAreRight, NEW r \in Receivers, MaybeUndue(frame'[r], frame[r]), KeysRest(r),
         frame[r].pc # "idle" => SlotRests(frame[r].h, frame[r].idx)
  PROVE  FrameRight(r)'
  <1> DEFINE f == frame[r]  g == frame'[r]  h == frame[r].h  i == frame[r].idx
             own == cryptors[f.c].keys = h  mine == cryptors'[f.c].keys = h
             x == <<h, i>> \in raced  y == <<h, i>> \in raced'
  <1>1. /\ f \in Frame /\ FrameRight(r) /\ g.h = h /\ g.idx = i /\ g.c = f.c
        /\ f.pc # "idle" => /\ ring[h][i] \in Slots /\ ratchets[h][i] \in Ratchet /\ ratchets'[h][i] \in Ratchet
    BY SameFrame
  <1>2. FrameIsRight(f, ring[h][i], ratchets[h][i], x, own)
    BY <1>1 DEF FrameRight
  <1>3. FrameIsRight(g, ring'[h][i], ratchets'[h][i], y, mine)
    <2>1. CASE f.pc # "idle"
      <3>1. /\ ring'[h][i] = ring[h][i] /\ SameTurn(ratchets'[h][i], ratchets[h][i])
            /\ x => y
            /\ g.due => mine = own
        BY <2>1 DEF SlotRests, KeysRest
      <3>2. own \in BOOLEAN /\ mine \in BOOLEAN /\ x \in BOOLEAN /\ y \in BOOLEAN
        OBVIOUS
      <3>3. MaybeUndue(g, f)
        OBVIOUS
      <3> DEFINE s == ring[h][i]  k == ratchets[h][i]  l == ratchets'[h][i]
      <3>4. /\ f \in Frame /\ s \in Slots /\ k \in Ratchet /\ l \in Ratchet /\ SameTurn(l, k)
            /\ FrameIsRight(f, s, k, x, own)
        BY <1>1, <1>2, <2>1, <3>1
      <3> HIDE DEF own, mine, x, y, f, g, h, i, s, k, l
      <3>5. FrameIsRight(g, s, l, y, mine)
        BY <3>1, <3>2, <3>3, <3>4, FrameRests
      <3> QED
        BY <3>1, <3>5 DEF s, l
    <2> QED
      BY <2>1, <1>1, <1>2, IdleIsRight
  <1> QED
    BY <1>1, <1>3 DEF FrameRight

\* A ratchet begins in its slot, or is rejected.
LEMMA FrameSeesRatchet ==
  ASSUME Types, Types', FramesAreRight, NEW r \in Receivers, frame'[r] = frame[r],
         cryptors' = cryptors, raced' = raced, ring' = ring,
         frame[r].pc # "idle" => LET h == frame[r].h  i == frame[r].idx IN
           Begins(ratchets'[h][i], ratchets[h][i], ring[h][i])
  PROVE  FrameRight(r)'
  <1> DEFINE f == frame[r]  h == frame[r].h  i == frame[r].idx
             own == cryptors[f.c].keys = h  x == <<h, i>> \in raced
  <1>1. /\ f \in Frame /\ FrameRight(r)
        /\ f.pc # "idle" => /\ ring[h][i] \in Slots /\ ratchets[h][i] \in Ratchet /\ ratchets'[h][i] \in Ratchet
    BY SameFrame DEF MaybeUndue
  <1>2. FrameIsRight(f, ring[h][i], ratchets[h][i], x, own)
    BY <1>1 DEF FrameRight
  <1>3. FrameIsRight(f, ring[h][i], ratchets'[h][i], x, own)
    <2>1. CASE f.pc # "idle"
      <3>1. own \in BOOLEAN /\ x \in BOOLEAN /\ Begins(ratchets'[h][i], ratchets[h][i], ring[h][i])
        BY <2>1
      <3> HIDE DEF own, x, f, h, i
      <3> QED
        BY <1>1, <1>2, <2>1, <3>1, RatchetBegins
    <2> QED
      BY <2>1, <1>1, <1>2, IdleIsRight DEF MaybeUndue
  <1> QED
    BY <1>3 DEF FrameRight

\* Its slot is filled, with the next ratchet of the key if it is due still.
Succeeds(t, s, f) == t.key = s.key /\ t.step = s.step + 1 /\ t.step <= f.step

\* A frame that is right stays so when its slot is filled.
LEMMA FrameSeesKey ==
  ASSUME Types, Types', FramesAreRight, NEW r \in Receivers, MaybeUndue(frame'[r], frame[r]),
         cryptors' = cryptors, ratchets' = ratchets,
         frame[r].pc # "idle" => LET h == frame[r].h  i == frame[r].idx IN
           /\ ring'[h][i].nth = ring[h][i].nth + 1
           /\ frame'[r].due => Succeeds(ring'[h][i], ring[h][i], frame[r])
  PROVE  FrameRight(r)'
  <1> DEFINE f == frame[r]  g == frame'[r]  h == frame[r].h  i == frame[r].idx
             own == cryptors[f.c].keys = h  x == <<h, i>> \in raced  y == <<h, i>> \in raced'
  <1>0. /\ f \in Frame /\ FrameRight(r) /\ g.h = h /\ g.idx = i /\ g.c = f.c
        /\ f.pc # "idle" => /\ ring[h][i] \in Slots /\ ratchets[h][i] \in Ratchet /\ ring'[h][i] \in Slots
    BY SameFrame
  <1>1. FrameIsRight(f, ring[h][i], ratchets[h][i], x, own)
    BY <1>0 DEF FrameRight
  <1>2. FrameIsRight(g, ring'[h][i], ratchets[h][i], y, own)
    <2>1. CASE f.pc = "idle"
      BY <1>0, <1>1, <2>1, IdleIsRight
    <2>2. CASE f.pc # "idle"
      <3>1. /\ own \in BOOLEAN /\ x \in BOOLEAN /\ y \in BOOLEAN
            /\ ring'[h][i].nth = ring[h][i].nth + 1 /\ (g.due => Succeeds(ring'[h][i], ring[h][i], f))
        BY <2>2
      <3>2. MaybeUndue(g, f)
        OBVIOUS
      <3> DEFINE s == ring[h][i]  t == ring'[h][i]  k == ratchets[h][i]
      <3>3. /\ f \in Frame /\ s \in Slots /\ k \in Ratchet /\ t \in Slots /\ t.nth = s.nth + 1
            /\ g.due => t.key = s.key /\ t.step = s.step + 1 /\ t.step <= f.step
        BY <1>0, <2>2, <3>1 DEF Succeeds
      <3>4. FrameIsRight(f, s, k, x, own)
        BY <1>1
      <3> HIDE DEF own, x, y, f, g, h, i, s, t, k
      <3>5. FrameIsRight(g, t, k, y, own)
        BY <3>1, <3>2, <3>3, <3>4, SlotFills
      <3> QED
        BY <3>5 DEF t, k
    <2> QED
      BY <2>1, <2>2
  <1> QED
    BY <1>0, <1>2 DEF FrameRight

\* A ratchet is asked for, of a slot; those that join an older one of another key are remembered.
Joins(h, i, sets, asked) ==
  /\ Ratcheting(h, i, sets, asked) /\ ring' = ring
  /\ raced \subseteq raced' /\ (ratchets[h][i].pc = None => raced' = raced)

\* A frame that is not decrypted may join a ratchet, or begin one of the key in its slot.
LEMMA NotDecryptedJoins ==
  ASSUME Types, FramesAreRight, NEW r \in Receivers, FrameNotDecrypted(r)
  PROVE  \/ UNCHANGED <<ring, ratchets, raced>>
         \/ \E h \in Handlers, i \in Indices, sets, asked \in BOOLEAN : Joins(h, i, sets, asked)
  <1> DEFINE f == frame[r]
  <1>1. f.h \in Handlers /\ f.idx \in Indices /\ f.pc = "decrypt" /\ ring' = ring
    BY NotDecryptedDoes
  <1>2. \/ UNCHANGED <<ratchets, raced>>
        \/ /\ Untouched(f) /\ Ratcheting(f.h, f.idx, FALSE, FALSE)
           /\ raced' = IF ratchets'[f.h][f.idx].key # ring[f.h][f.idx].key THEN raced \union {<<f.h, f.idx>>} ELSE raced
    BY NotDecryptedDoes
  <1>3. ring[f.h][f.idx] = f.base => ring[f.h][f.idx].key # 0
    BY <1>1 DEF FramesAreRight, FrameIsRight
  <1>4. Untouched(f) => ring[f.h][f.idx] = f.base
    BY DEF Untouched
  <1> HIDE DEF f
  <1>5. ASSUME Ratcheting(f.h, f.idx, FALSE, FALSE), Untouched(f), ratchets[f.h][f.idx].pc = None
        PROVE  ratchets'[f.h][f.idx].key = ring[f.h][f.idx].key
    BY <1>1, <1>3, <1>4, <1>5, RatchetsOne DEF Types
  <1> QED
    BY <1>1, <1>2, <1>5 DEF Joins

\* What happens to the slots.
LEMMA KeysChange ==
  ASSUME Types, FramesAreRight, [Next]_vars
  PROVE  \/ UNCHANGED <<ring, ratchets, raced>>
         \/ SetKey
         \/ \E h \in Handlers, i \in Indices, sets, asked \in BOOLEAN : Joins(h, i, sets, asked)
         \/ \E h \in Handlers, i \in Indices : RatchetLooksAhead(h, i) \/ RatchetDerives(h, i) \/ RatchetSets(h, i)
         \/ \E r \in Receivers : FrameDecrypted(r)
  <1>1. RingTypes /\ QueueTypes /\ OptionTypes /\ TaskTypes
    BY DEF Types
  <1> DEFINE Good == \/ UNCHANGED <<ring, ratchets, raced>>
                     \/ \E h \in Handlers, i \in Indices, sets, asked \in BOOLEAN : Joins(h, i, sets, asked)
  <1>2. CASE UNCHANGED keys
    BY <1>2 DEF keys
  <1>3. ASSUME TakesRatchetRequest PROVE Good
    BY <1>1, <1>3, FirstMessage, HandlersDiffer DEF TakesRatchetRequest, Takes, RatchetAsks, Joins
  <1>4. ASSUME NEW r \in Receivers, FrameNotDecrypted(r) PROVE Good
    BY <1>4, NotDecryptedJoins
  <1> HIDE DEF Good
  <1>5. CASE WorkerGoesOn
    BY <1>2, PipesDo, <1>4, <1>5, <1>1, TaskIs
      DEF DataEncrypted, FrameGivenUp, Good, WorkerGoesOn, DataDecrypted, Joins
  <1>6. CASE Environment
    <2>1. ASSUME NEW r, NEW i, NEW k, NEW n, FrameArrives(r, i, k, n) PROVE UNCHANGED <<ring, ratchets, raced>>
      BY <2>1 DEF FrameArrives
    <2>2. FrameSent => UNCHANGED keys
      BY DEF FrameSent
    <2> QED
      BY <1>2, <1>6, <2>1, <2>2, PipesDo DEF Environment
  <1> QED
    BY <1>5, <1>6, <1>2, WorkerIsLeft, ReassignDoes, <1>3
      DEF Next, worker, TakesEnable, TakesSetKey, TakesEncryptData, TakesDecryptData, TakesEncode, Good,
          WorkerTakes

\* A ratchet that is asked for by another one: the frame sees it begin, or stays as it is.
LEMMA FrameSeesJoining ==
  ASSUME Types, Types', FramesAreRight, NEW h \in Handlers, NEW i \in Indices, NEW sets \in BOOLEAN, NEW asked \in BOOLEAN,
         Joins(h, i, sets, asked), cryptors' = cryptors, NEW r \in Receivers, frame'[r] = frame[r]
  PROVE  FrameRight(r)'
  <1> DEFINE a == frame[r].h  b == frame[r].idx
  <1>1. RingTypes /\ MaybeUndue(frame'[r], frame[r]) /\ KeysRest(r) /\ ring' = ring
    BY DEF Types, MaybeUndue, KeysRest, Joins
  <1>2. frame[r].pc # "idle" => a \in Handlers /\ b \in Indices
    BY FrameIs
  <1>3. Ratcheting(h, i, sets, asked)
    BY DEF Joins
  <1>4. \A c \in Handlers, d \in Indices : ~(c = h /\ d = i) => ratchets'[c][d] = ratchets[c][d]
    BY <1>1, <1>3, RatchetsOne
  <1>5. CASE ratchets[h][i].pc = None
    <2>1. raced' = raced
      BY <1>5 DEF Joins
    <2>2. CASE frame[r].pc # "idle" /\ ~(a = h /\ b = i)
      BY <1>1, <1>2, <1>4, <2>1, <2>2, FrameStays DEF SlotRests, SameTurn
    <2>3. CASE frame[r].pc # "idle" => (a = h /\ b = i)
      BY <1>1, <1>3, <1>5, RatchetsOne, <2>1, <2>3, FrameSeesRatchet DEF Begins
    <2> QED
      BY <2>2, <2>3
  <1>6. CASE ratchets[h][i].pc # None
    <2>1. SameTurn(ratchets'[h][i], ratchets[h][i])
      BY <1>1, <1>3, <1>6, RatchetsOne DEF SameTurn, Runs
    <2>2. \A c \in Handlers, d \in Indices : SlotRests(c, d)
      BY <1>4, <2>1, <1>1 DEF SameTurn, SlotRests, Joins
    <2> QED
      BY <1>1, <1>2, <2>2, FrameStays
  <1> QED
    BY <1>5, <1>6

\* A ratchet of its slot is over: it goes on with what it made, or as it is.
LEMMA FrameSeesEnd ==
  ASSUME Types, Types', NEW h \in Handlers, NEW i \in Indices, NEW g \in Frame, NEW r \in Receivers, NEW s,
         g.h = h, g.idx = i, s = ring'[h][i],
         FrameIsRight(g, s, ratchets[h][i], <<h, i>> \in raced, cryptors[g.c].keys = h),
         Runs(ratchets[h][i]), ratchets[h][i].key # 0,
         IF g.pc = "ratchet" THEN Wakes(frame'[r], g, ratchets[h][i]) ELSE frame'[r] = g,
         ratchets'[h][i] = NoRatchet, cryptors' = cryptors, raced' = raced
  PROVE  FrameRight(r)'
  <1> DEFINE k == ratchets[h][i]  x == <<h, i>> \in raced  own == cryptors[g.c].keys = h  e == frame'[r]
  <1>1. k \in Ratchet /\ s \in Slots /\ e \in Frame /\ x \in BOOLEAN /\ own \in BOOLEAN
    BY DEF Types, RingTypes, FrameTypes
  <1>2. FrameIsRight(e, s, NoRatchet, x, own)
    <2>1. FrameIsRight(g, s, k, x, own) /\ Runs(k) /\ k.key # 0 /\ (IF g.pc = "ratchet" THEN Wakes(e, g, k) ELSE e = g)
      OBVIOUS
    <2> HIDE DEF k, x, own, e
    <2> QED
      BY <1>1, <2>1, RatchetEnds
  <1> QED
    BY <1>2 DEF FrameRight, Wakes

\* A ratchet that is over leaves every frame right, whether its key is set or not.
LEMMA RatchetsLeaveRight ==
  ASSUME Types, Types', FramesAreRight, RunsHaveKeys, NEW h \in Handlers, NEW i \in Indices,
         RatchetLooksAhead(h, i) \/ RatchetSets(h, i), NEW r \in Receivers
  PROVE  FrameRight(r)'
  <1> DEFINE f == frame[r]  k == ratchets[h][i]
  <1>1. /\ RingTypes /\ FrameTypes /\ f \in Frame /\ FrameRight(r)
        /\ f.pc # "idle" => f.h \in Handlers /\ f.idx \in Indices /\ f.c \in DOMAIN cryptors
    BY FrameIs DEF Types, FramesAreRight, FrameRight
  <1>2. Runs(k) /\ k.key # 0
    BY DEF RunsHaveKeys, RatchetLooksAhead, RatchetSets, RunIsRight, Runs
  <1>3. CASE RatchetLooksAhead(h, i)
    <2>1. Resolves(frame, h, i) /\ ring' = ring /\ raced' = raced /\ cryptors' = cryptors
      BY <1>3 DEF RatchetLooksAhead
    <2>2. /\ ratchets'[h][i] = NoRatchet
          /\ \A a \in Handlers, b \in Indices : ~(a = h /\ b = i) => ratchets'[a][b] = ratchets[a][b]
          /\ ~(f.pc = "ratchet" /\ f.h = h /\ f.idx = i) => frame'[r] = f
          /\ f.pc = "ratchet" /\ f.h = h /\ f.idx = i => Wakes(frame'[r], f, k)
      BY <1>1, <2>1, ResolvesOneSlot DEF FrameTypes
    <2>3. CASE f.h = h /\ f.idx = i
      BY <1>1, <2>3, <2>2, <1>2, <2>1, FrameSeesEnd DEF FrameRight
    <2>4. CASE ~(f.h = h /\ f.idx = i)
      BY <2>2, <2>4, <1>1, <2>1, FrameStays DEF SlotRests, SameTurn, MaybeUndue, KeysRest
    <2> QED
      BY <2>3, <2>4
  <1>4. CASE RatchetSets(h, i)
    <2> DEFINE e == Excuses(frame, h, i)  g == Excuses(frame, h, i)[r]
    <2>1. Resolves(e, h, i) /\ raced' = raced /\ cryptors' = cryptors
          /\ ring'[h][i] = [key |-> k.key, step |-> k.step, nth |-> ring[h][i].nth + 1]
          /\ \A a \in Handlers, b \in Indices : ~(a = h /\ b = i) => ring'[a][b] = ring[a][b]
      BY <1>4, RatchetSetsDoes
    <2>2. e \in [Receivers -> Frame]
      BY <1>1, ExcusesDo DEF FrameTypes, IsFrame
    <2>3. /\ g \in Frame /\ MaybeUndue(g, f)
          /\ f.h = h /\ f.idx = i => g = [f EXCEPT !.due = FALSE]
      BY <1>1, <2>2 DEF Excuses, MaybeUndue
    <2>4. /\ g.pc = f.pc /\ g.h = f.h /\ g.idx = f.idx /\ g.c = f.c
          /\ f.h = h /\ f.idx = i => ~g.due
      BY <1>1, <2>3 DEF MaybeUndue, Frame
    <2> HIDE DEF e
    <2>5. /\ ratchets'[h][i] = NoRatchet
          /\ \A a \in Handlers, b \in Indices : ~(a = h /\ b = i) => ratchets'[a][b] = ratchets[a][b]
          /\ ~(e[r].pc = "ratchet" /\ e[r].h = h /\ e[r].idx = i) => frame'[r] = e[r]
          /\ e[r].pc = "ratchet" /\ e[r].h = h /\ e[r].idx = i => Wakes(frame'[r], e[r], k)
      BY <1>1, <2>1, <2>2, ResolvesOneSlot
    <2>6. e[r] = g
      BY DEF e
    <2> HIDE DEF g
    <2>7. CASE f.h = h /\ f.idx = i
      <3> DEFINE s == ring[h][i]  t == ring'[h][i]  x == <<h, i>> \in raced  own == cryptors[f.c].keys = h
      <3>1. FrameIsRight(f, s, k, x, own)
        BY <1>1, <2>7 DEF FrameRight
      <3>2. s \in Slots /\ t \in Slots /\ k \in Ratchet /\ x \in BOOLEAN /\ own \in BOOLEAN /\ t.nth = s.nth + 1
        BY <1>1, <2>1 DEF Types, RingTypes
      <3>3. FrameIsRight(g, t, k, x, own)
        <4> HIDE DEF s, t, x, own, f, k
        <4> QED
          BY <1>1, <2>3, <2>4, <2>7, <3>1, <3>2, SlotFills
      <3>4. IF g.pc = "ratchet" THEN Wakes(frame'[r], g, k) ELSE frame'[r] = g
        BY <2>4, <2>5, <2>6, <2>7
      <3> QED
        BY <1>2, <2>1, <2>3, <2>5, <3>4, FrameSeesEnd, <2>4, <3>3, <2>7
    <2> QED
      BY <2>7, <2>4, <2>5, <2>6, <1>1, <2>1, <2>3, FrameStays DEF SlotRests, SameTurn, KeysRest
  <1> QED
    BY <1>3, <1>4

\* So does a key that is set.
LEMMA KeysLeaveRight ==
  ASSUME Types, Types', FramesAreRight, SetKey, NEW r \in Receivers
  PROVE  FrameRight(r)'
  <1> DEFINE f == frame[r]  h == task.h  i == task.idx  g == Excuses(frame, h, i)[r]
  <1>1. /\ RingTypes /\ FrameTypes /\ f \in Frame
        /\ f.pc # "idle" => f.h \in Handlers /\ f.idx \in Indices /\ f.c \in DOMAIN cryptors
    BY FrameIs DEF Types
  <1>2. /\ h \in Handlers /\ i \in Indices /\ frame' = Excuses(frame, h, i) /\ ratchets' = ratchets /\ cryptors' = cryptors
        /\ ring'[h][i] = [key |-> task.key, step |-> 0, nth |-> ring[h][i].nth + 1]
        /\ \A a \in Handlers, b \in Indices : ~(a = h /\ b = i) => ring'[a][b] = ring[a][b]
        /\ raced' = IF Runs(ratchets[h][i]) /\ ratchets[h][i].sets THEN raced \union {<<h, i>>} ELSE raced \ {<<h, i>>}
    BY SetKeyDoes
  <1>3. frame'[r] = g
    BY <1>2
  <1>4. MaybeUndue(g, f) /\ (f.h = h /\ f.idx = i => g = [f EXCEPT !.due = FALSE])
    BY DEF Excuses, MaybeUndue
  <1> HIDE DEF g
  <1>5. CASE f.pc # "idle" /\ f.h = h /\ f.idx = i
    BY <1>2, <1>3, <1>4, <1>5, FrameSeesKey, <1>1 DEF Frame
  <1>6. CASE f.pc = "idle"
    BY <1>2, <1>3, <1>4, <1>6, FrameStays DEF KeysRest
  <1> QED
    BY <1>5, <1>6, <1>1, <1>2, <1>3, <1>4, FrameStays DEF SameTurn, SlotRests, KeysRest

\* A frame that is decrypted leaves the others right, whose slot it may have filled.
LEMMA DecryptedLeavesRight ==
  ASSUME Types, Types', FramesAreRight, NEW r \in Receivers, FrameDecrypted(r), NEW q \in Receivers
  PROVE  FrameRight(q)'
  <1> DEFINE f == frame[r]  h == f.h  i == f.idx  others == [frame EXCEPT ![r] = NoFrame]  e == frame[q]
  <1>1. /\ RingTypes /\ FrameTypes /\ NoFrame \in Frame /\ e \in Frame
        /\ e.pc # "idle" => e.h \in Handlers /\ e.idx \in Indices /\ e.c \in DOMAIN cryptors
    BY FrameIs, NoFrameIs DEF Types, IsFrame
  <1>2. others[r] = NoFrame /\ (q # r => others[q] = e)
    BY <1>1 DEF FrameTypes
  <1>3. /\ UNCHANGED <<ratchets, raced, cryptors>> /\ h \in Handlers /\ i \in Indices
        /\ \/ frame' = others /\ ring' = ring
           \/ /\ ring'[h][i] = [key |-> f.try.key, step |-> f.try.step, nth |-> ring[h][i].nth + 1]
              /\ \A a \in Handlers, b \in Indices : ~(a = h /\ b = i) => ring'[a][b] = ring[a][b]
              /\ frame' = Passes(others, h, i, f.try)
    BY DecryptedDoes
  <1>4. ASSUME MaybeUndue(frame'[r], NoFrame) PROVE FrameRight(r)'
    BY NoFrameIsRight, <1>1, <1>4, IdleIsRight DEF NoFrame, FrameRight
  <1>5. CASE frame' = others /\ ring' = ring
    BY <1>2, <1>3, <1>5, FrameStays, <1>4 DEF SlotRests, SameTurn, MaybeUndue, KeysRest
  <1>6. CASE /\ ring'[h][i] = [key |-> f.try.key, step |-> f.try.step, nth |-> ring[h][i].nth + 1]
             /\ \A a \in Handlers, b \in Indices : ~(a = h /\ b = i) => ring'[a][b] = ring[a][b]
             /\ frame' = Passes(others, h, i, f.try)
    <2>1. \A p \in Receivers :
            LET o == others[p] IN
            /\ frame'[p] = o \/ frame'[p] = [o EXCEPT !.due = FALSE]
            /\ ~(frame'[p] = [o EXCEPT !.due = FALSE]) =>
                 ~(o.h = h /\ o.idx = i /\ ~(f.try.key = ring[h][i].key /\ f.try.step = ring[h][i].step + 1 /\ f.try.step <= o.step))
      BY <1>6 DEF Passes
    <2> HIDE DEF others
    <2>2. CASE q # r
      <3>1. MaybeUndue(frame'[q], e)
        BY <1>2, <2>1, <2>2 DEF MaybeUndue
      <3>2. CASE e.pc # "idle" /\ e.h = h /\ e.idx = i
        <4>1. ring'[h][i].nth = ring[h][i].nth + 1 /\ ring'[h][i].key = f.try.key /\ ring'[h][i].step = f.try.step
          BY <1>6
        <4>2. frame'[q].due => Succeeds(ring'[h][i], ring[h][i], e)
          BY <1>2, <2>1, <2>2, <3>2, <4>1, <1>1 DEF Succeeds, Frame
        <4> QED
          BY <1>3, <3>1, <3>2, <4>1, <4>2, FrameSeesKey
      <3>3. CASE e.pc = "idle"
        BY <1>3, <3>1, <3>3, FrameStays DEF KeysRest
      <3> QED
        BY <3>2, <3>3, <1>1, <1>3, <1>6, <3>1, FrameStays DEF SlotRests, SameTurn, KeysRest
    <2> QED
      BY <2>2, <1>2, <1>4, <2>1 DEF MaybeUndue
  <1> QED
    BY <1>3, <1>5, <1>6

\* The frame itself, while what is in its slot stays: it is x now.
LEMMA FrameBecomes ==
  ASSUME Types, NEW r \in Receivers, NEW x, frame' = [frame EXCEPT ![r] = x]
  PROVE  frame'[r] = x /\ \A q \in Receivers : q # r => frame'[q] = frame[q]
  BY DEF Types, FrameTypes

\* A frame that is not decrypted stays right, or is none any more.
LEMMA NotDecryptedIsRight ==
  ASSUME Types, Types', FramesAreRight, NEW r \in Receivers, FrameNotDecrypted(r)
  PROVE  FrameRight(r)'
  <1> DEFINE f == frame[r]  h == f.h  i == f.idx  own == cryptors[f.c].keys = h  slot == ring[cryptors[f.c].keys][i]
             s == ring[h][i]  k == ratchets[h][i]  l == ratchets'[h][i]  x == <<h, i>> \in raced  y == <<h, i>> \in raced'
             waits == [f EXCEPT !.pc = "ratchet"]  tries == [f EXCEPT !.n = f.n + 1, !.try = slot, !.hot = FALSE]
  <1>1. /\ f \in Frame /\ f.pc = "decrypt" /\ ~SameKey(f.try, f) /\ h \in Handlers /\ i \in Indices /\ slot \in Slots
        /\ \/ /\ Untouched(f) /\ k.pc # "rejected" /\ Ratcheting(h, i, FALSE, FALSE)
              /\ frame' = [frame EXCEPT ![r] = waits]
              /\ raced' = IF l.key # s.key THEN raced \union {<<h, i>>} ELSE raced
           \/ frame' = [frame EXCEPT ![r] = NoFrame]
           \/ /\ ~Untouched(f) /\ slot.key # 0 /\ frame' = [frame EXCEPT ![r] = tries]
              /\ UNCHANGED <<ratchets, raced>>
        /\ UNCHANGED <<ring, cryptors>>
    BY NotDecryptedDoes
  <1>2. /\ RingTypes /\ s \in Slots /\ k \in Ratchet /\ l \in Ratchet
        /\ x \in BOOLEAN /\ y \in BOOLEAN /\ own \in BOOLEAN
        /\ FrameIsRight(f, s, k, x, own)
    <2>1. RingTypes /\ (RingTypes)' /\ h \in Handlers /\ i \in Indices
      BY <1>1 DEF Types
    <2>2. s \in Slots /\ k \in Ratchet /\ l \in Ratchet
      BY <2>1 DEF RingTypes
    <2>3. FrameIsRight(f, s, k, x, own)
      BY DEF FramesAreRight
    <2> QED
      BY <2>1, <2>2, <2>3
  <1>3. Untouched(f) = (own /\ s = f.base)
    BY DEF Untouched
  <1>4. CASE /\ Untouched(f) /\ k.pc # "rejected" /\ Ratcheting(h, i, FALSE, FALSE)
             /\ frame' = [frame EXCEPT ![r] = waits]
             /\ raced' = IF l.key # s.key THEN raced \union {<<h, i>>} ELSE raced
    <2>1. own /\ s = f.base /\ s.key # 0
      BY <1>1, <1>2, <1>3, <1>4 DEF FrameIsRight
    <2>2. Begins(l, k, f.base) \/ (Runs(k) /\ SameTurn(l, k))
      <3>1. /\ k.pc # None => l.pc = k.pc /\ l.key = k.key /\ l.step = k.step
            /\ k.pc = None /\ s.key # 0 => l.pc = "ratchet" /\ l.key = s.key /\ l.step = s.step + 1
        <4>1. h \in Handlers /\ i \in Indices /\ RingTypes /\ Ratcheting(h, i, FALSE, FALSE)
          BY <1>1, <1>2, <1>4
        <4> HIDE DEF h, i
        <4> QED
          BY <4>1, RatchetsOne
      <3> QED
        BY <2>1, <3>1, <1>2, <1>4 DEF Begins, Ratchet, Runs, SameTurn
    <2>3. (x => y) /\ (~y => l.key = f.base.key)
      BY <1>4, <2>1
    <2>4. frame'[r] = waits /\ waits.h = h /\ waits.idx = i /\ waits.c = f.c
      BY <1>4, FrameBecomes, <1>1 DEF Frame
    <2>5. FrameIsRight(waits, f.base, l, y, TRUE)
      <3>1. FrameIsRight(f, f.base, k, x, TRUE)
        BY <1>2, <2>1
      <3>2. /\ f \in Frame /\ k \in Ratchet /\ l \in Ratchet /\ x \in BOOLEAN /\ y \in BOOLEAN
            /\ f.pc = "decrypt" /\ ~SameKey(f.try, f)
        BY <1>1, <1>2
      <3> HIDE DEF f, k, l, x, y
      <3> QED
        BY <2>2, <2>3, <3>1, <3>2, FrameWaits
    <2>6. FrameIsRight(waits, s, l, y, cryptors[f.c].keys = h)
      BY <2>1, <2>5
    <2> QED
      BY <1>1, <2>4, <2>6 DEF FrameRight
  <1>5. CASE frame' = [frame EXCEPT ![r] = NoFrame]
    <2>1. frame'[r] = NoFrame
      BY <1>5, FrameBecomes
    <2> QED
      BY <2>1, NoFrameIsRight DEF FrameRight
  <1>6. CASE /\ ~Untouched(f) /\ slot.key # 0 /\ frame' = [frame EXCEPT ![r] = tries]
             /\ UNCHANGED <<ratchets, raced>>
    <2>1. own => slot = s /\ s # f.base
      BY <1>3, <1>6
    <2>2. frame'[r] = tries /\ tries.h = h /\ tries.idx = i /\ tries.c = f.c
      BY <1>6, FrameBecomes, <1>1 DEF Frame
    <2>3. FrameIsRight(tries, s, k, x, own)
      <3>1. /\ f \in Frame /\ s \in Slots /\ k \in Ratchet /\ x \in BOOLEAN /\ own \in BOOLEAN /\ slot \in Slots
            /\ f.pc = "decrypt" /\ ~SameKey(f.try, f) /\ FrameIsRight(f, s, k, x, own) /\ slot.key # 0
        BY <1>1, <1>2, <1>6
      <3>2. tries = [f EXCEPT !.n = f.n + 1, !.try = slot, !.hot = FALSE]
        OBVIOUS
      <3> HIDE DEF f, s, k, x, own, slot, tries
      <3> QED
        BY <2>1, <3>1, <3>2, FrameRetries
    <2>4. ring' = ring /\ ratchets' = ratchets /\ raced' = raced /\ cryptors' = cryptors
      BY <1>1, <1>6
    <2> QED
      BY <2>2, <2>3, <2>4 DEF FrameRight
  <1> QED
    BY <1>1, <1>4, <1>5, <1>6

\* A frame that is given up need not have been decrypted.
LEMMA GivenUpIsRight ==
  ASSUME Types, FramesAreRight, NEW r \in Receivers, FrameGivenUp(r)
  PROVE  FrameRight(r)'
  <1> DEFINE f == frame[r]
  <1>1. f \in Frame /\ f.pc = "decrypt" /\ ~SameKey(f.try, f) /\ f.n = Window
        /\ frame' = [frame EXCEPT ![r] = [NoFrame EXCEPT !.missed = f.due]]
    BY FrameIs DEF FrameGivenUp
  <1>2. frame'[r] = [NoFrame EXCEPT !.missed = f.due]
    BY <1>1, FrameBecomes
  <1>3. Window >= 2 => ~f.due
    <2>1. /\ ring[f.h][f.idx] \in Slots /\ ratchets[f.h][f.idx] \in Ratchet
          /\ FrameIsRight(f, ring[f.h][f.idx], ratchets[f.h][f.idx], <<f.h, f.idx>> \in raced, cryptors[f.c].keys = f.h)
      BY <1>1, FrameIs DEF FramesAreRight
    <2> HIDE DEF f
    <2> QED
      BY <1>1, <2>1, NoneIsMissed
  <1> QED
    <2>1. \A s, k, x, own : FrameIsRight([NoFrame EXCEPT !.missed = f.due], s, k, x, own)
      <3> HIDE DEF f
      <3> QED
        BY <1>3, NoFrameIsRight, <1>1 DEF Frame
    <2> QED
      BY <1>2, <2>1 DEF FrameRight

\* A frame that comes is right.
LEMMA ArrivalIsRight ==
  ASSUME Types, Types', FramesAreRight, NEW r \in Receivers, NEW i \in options.indices, NEW key \in GivenKeys, NEW step \in Steps,
         FrameArrives(r, i, key, step)
  PROVE  FrameRight(r)'
  <1> DEFINE c == pipe[r]  h == cryptors[c].keys  slot == ring[h][i]  k == ratchets[h][i]
             due == slot.key = key /\ step \in slot.step..(slot.step + 1) /\ k.pc # "rejected"
             new == [pc |-> "decrypt", c |-> c, h |-> h, idx |-> i, key |-> key, step |-> step,
                     try |-> slot, base |-> slot, n |-> 0, hot |-> FALSE, missed |-> FALSE, due |-> due]
  <1>1. /\ c \in DOMAIN cryptors /\ h \in Handlers /\ i \in Indices /\ slot \in Slots
        /\ frame' = frame \/ (slot.key # 0 /\ frame' = [frame EXCEPT ![r] = new])
        /\ UNCHANGED <<ring, ratchets, raced, cryptors>>
    BY ArrivesDoes
  <1>2. CASE slot.key # 0 /\ frame' = [frame EXCEPT ![r] = new]
    <2>1. frame'[r] = new
      <3> HIDE DEF new
      <3> QED
        BY <1>2, FrameBecomes
    <2>2. frame'[r] \in Frame /\ k \in Ratchet
      BY <1>1 DEF Types, FrameTypes, RingTypes
    <2>3. /\ new.pc = "decrypt" /\ new.c = c /\ new.h = h /\ new.idx = i /\ new.key = key /\ new.step = step
          /\ new.try = slot /\ new.base = slot /\ new.n = 0 /\ new.hot = FALSE /\ new.missed = FALSE /\ new.due = due
      BY <2>1
    <2>4. FrameIsRight(new, slot, k, <<h, i>> \in raced, TRUE)
      <3> HIDE DEF new, slot, k
      <3> QED
        BY <1>1, <1>2, <2>1, <2>2, <2>3, FrameBegins
    <2> HIDE DEF new
    <2> QED
      BY <1>1, <2>1, <2>3, <2>4 DEF FrameRight
  <1> QED
    BY <1>1, <1>2, FrameStays DEF MaybeUndue, KeysRest, SlotRests, SameTurn

\* So every frame stays right.
LEMMA FramesStayRight ==
  ASSUME Types, FramesAreRight, RunsHaveKeys, [Next]_vars
  PROVE  FramesAreRight'
  <1>1. Types'
    BY TypesKept
  <1> DEFINE Good == \A q \in Receivers : FrameRight(q)'
  <1>2. ASSUME \A a, b : SlotRests(a, b), NEW q \in Receivers, MaybeUndue(frame'[q], frame[q]),
               frame[q].c \in DOMAIN cryptors => KeysRest(q)
        PROVE  FrameRight(q)'
    BY FrameIs, <1>2, Undue, <1>1, FrameStays DEF FramesAreRight, MaybeUndue, FrameIsRight, KeysRest
  <1>3. UNCHANGED <<ring, ratchets, raced>> => \A a, b : SlotRests(a, b)
    BY DEF SlotRests, SameTurn
  <1>4. ASSUME UNCHANGED <<keys, cryptors, frame>> PROVE Good
    BY <1>4, <1>2, <1>3 DEF MaybeUndue, KeysRest, keys
  <1>5. ASSUME NEW h \in Handlers, NEW i \in Indices, NEW sets \in BOOLEAN, NEW asked \in BOOLEAN,
               Joins(h, i, sets, asked), cryptors' = cryptors, NEW q \in Receivers, frame'[q] = frame[q]
        PROVE  FrameRight(q)'
    BY <1>1, <1>5, FrameSeesJoining
  <1>6. ASSUME TakesRatchetRequest PROVE Good
    BY <1>6, FirstMessage, HandlersDiffer, <1>5 DEF TakesRatchetRequest, Takes, Types, RatchetAsks, Joins, media
  <1>7. ASSUME DataDecrypted PROVE Good
    BY <1>7, TaskIs, <1>4, <1>5 DEF DataDecrypted, Types, Joins, media, keys
  <1>8. ASSUME TakesDecode \/ TakesUpdateCodec \/ TakesRemoveTransform PROVE Good
    BY <1>8, ReassignDoes, <1>2, <1>3 DEF Reassigned, MaybeUndue, KeysRest, keys
  <1>9. ASSUME (\E r \in Receivers : \E again \in BOOLEAN : PipeEnds(r, again)) \/ (\E c \in DOMAIN cryptors : WatchdogFires(c)) PROVE Good
    BY <1>9, PipesDo, <1>2, <1>3 DEF MaybeUndue, KeysRest, keys
  <1>10. ASSUME NEW h \in Handlers, NEW i \in Indices, RatchetDerives(h, i) PROVE Good
    <2>1. UNCHANGED <<ring, raced, cryptors, frame>>
      BY <1>10 DEF RatchetDerives, media
    <2>2. ratchets[h][i].pc = "ratchet" /\ ratchets' = [ratchets EXCEPT ![h][i].pc = "derive"] /\ RingTypes
      BY <1>10 DEF RatchetDerives, Types
    <2> DEFINE new == [ratchets[h][i] EXCEPT !.pc = "derive"]
    <2>3. new \in Ratchet /\ SameTurn(new, ratchets[h][i])
      <3> DEFINE k == ratchets[h][i]
      <3>1. k \in Ratchet /\ k.pc = "ratchet" /\ new = [k EXCEPT !.pc = "derive"]
        BY <2>2 DEF RingTypes
      <3> HIDE DEF k, new
      <3> QED
        BY <3>1 DEF k, SameTurn, Runs, None, Ratchet
    <2> HIDE DEF new
    <2>4. ratchets'[h][i] = new /\ \A a \in Handlers, b \in Indices : ~(a = h /\ b = i) => ratchets'[a][b] = ratchets[a][b]
      <3>1. ratchets \in [Handlers -> [Indices -> Ratchet]] /\ ratchets' = [ratchets EXCEPT ![h][i] = new]
        BY <2>2 DEF RingTypes, new
      <3> QED
        BY <2>3, <3>1, SlotReplaced
    <2>5. ASSUME NEW q \in Receivers PROVE FrameRight(q)'
      BY <2>1, <1>1, FrameIs, FrameStays, <2>3, <2>4 DEF MaybeUndue, KeysRest, SameTurn, SlotRests
    <2> QED
      BY <2>5
  <1>11. ASSUME NEW h \in Handlers, NEW i \in Indices, RatchetLooksAhead(h, i) \/ RatchetSets(h, i) PROVE Good
    BY <1>1, <1>11, RatchetsLeaveRight
  <1>12. ASSUME SetKey PROVE Good
    BY <1>1, <1>12, KeysLeaveRight
  <1>13. ASSUME NEW r \in Receivers, FrameDecrypted(r) PROVE Good
    BY <1>1, <1>13, DecryptedLeavesRight
  <1>14. ASSUME NEW r \in Receivers, FrameNotDecrypted(r) PROVE Good
    <2>1. ASSUME NEW q \in Receivers, q # r PROVE FrameRight(q)'
      <3>1. frame'[q] = frame[q] /\ ring' = ring /\ cryptors' = cryptors
        BY <1>14, <2>1, FrameBecomes, NotDecryptedDoes
      <3>2. CASE UNCHANGED <<ring, ratchets, raced>>
        BY <1>2, <1>3, <3>1, <3>2 DEF MaybeUndue, KeysRest
      <3> QED
        BY <1>5, <3>1, <3>2, <1>14, NotDecryptedJoins
    <2> QED
      BY <2>1, <1>1, <1>14, NotDecryptedIsRight
  <1>15. ASSUME NEW r \in Receivers, FrameGivenUp(r) PROVE Good
    BY <1>15, FrameBecomes, <1>2, <1>3, GivenUpIsRight DEF FrameGivenUp, MaybeUndue, KeysRest
  <1>16. ASSUME NEW r \in Receivers, NEW i \in options.indices, NEW k \in GivenKeys, NEW n \in Steps, FrameArrives(r, i, k, n)
         PROVE  Good
    <2>1. ASSUME NEW q \in Receivers, q # r PROVE FrameRight(q)'
      <3>1. UNCHANGED <<ring, ratchets, raced, cryptors>> /\ (frame' = frame \/ \E x : frame' = [frame EXCEPT ![r] = x])
        BY <1>16, ArrivesDoes
      <3> QED
        BY <1>2, <1>3, <3>1, <2>1, FrameBecomes DEF MaybeUndue, KeysRest
    <2> QED
      BY <2>1, <1>1, <1>16, ArrivalIsRight
  <1>17. (TakesEnable \/ TakesSetKey \/ TakesEncryptData \/ TakesDecryptData \/ TakesEncode \/ DataEncrypted \/ FrameSent)
            => UNCHANGED <<keys, cryptors, frame>>
    BY DEF TakesEnable, TakesSetKey, TakesEncryptData, TakesDecryptData, TakesEncode, DataEncrypted, FrameSent, media
  <1> HIDE DEF Good
  <1>18. ASSUME WorkerTakes PROVE Good
    BY <1>4, <1>6, <1>8, <1>17, <1>18 DEF WorkerTakes
  <1>19. ASSUME WorkerGoesOn PROVE Good
    BY <1>4, <1>7, <1>9, <1>10, <1>11, <1>12, <1>13, <1>14, <1>15, <1>17, <1>19 DEF WorkerGoesOn
  <1>20. Good
    BY <1>18, <1>19, <1>4, WorkerIsLeft, <1>9, <1>16, <1>17 DEF Next, worker, media, Environment
  <1> QED
    BY <1>20 DEF Good, FramesAreRight, FrameRight

-----------------------------------------------------------------------------
(* What runs in a slot, and what is there. *)

\* When a ratchet is over, those of other slots stay as they are.
LEMMA OthersRatchets ==
  ASSUME Types, NEW h \in Handlers, NEW i \in Indices, RatchetLooksAhead(h, i) \/ RatchetSets(h, i),
         NEW a \in Handlers, NEW b \in Indices
  PROVE  ratchets'[a][b] = IF a = h /\ b = i THEN NoRatchet ELSE ratchets[a][b]
  <1>1. RingTypes /\ FrameTypes
    BY DEF Types
  <1>2. PICK f \in [Receivers -> Frame] : Resolves(f, h, i)
    BY <1>1, ExcusesDo DEF RatchetSets, FrameTypes, IsFrame, RatchetLooksAhead
  <1> QED
    BY <1>1, <1>2, ResolvesOneSlot

\* A ratchet goes on, begins, or is over.
GoesOn(l, k) == SameTurn(l, k) /\ l.sets = k.sets /\ (l.pc = "derive" => k.pc = "derive" \/ k.sets)

\* Nothing else happens to it.
LEMMA RatchetTurns ==
  ASSUME Types, FramesAreRight, [Next]_vars, NEW a \in Handlers, NEW b \in Indices
  PROVE  LET k == ratchets[a][b]  l == ratchets'[a][b] IN
         \/ GoesOn(l, k)
         \/ Begins(l, k, ring[a][b]) /\ ring' = ring /\ raced' = raced
         \/ (RatchetLooksAhead(a, b) \/ RatchetSets(a, b)) /\ l = NoRatchet
  <1>1. RingTypes /\ FrameTypes
    BY DEF Types
  <1>2. ASSUME NEW h \in Handlers, NEW i \in Indices, RatchetDerives(h, i)
        PROVE  LET k == ratchets[a][b]  l == ratchets'[a][b] IN GoesOn(l, k)
    <2> DEFINE k == ratchets[h][i]  new == [ratchets[h][i] EXCEPT !.pc = "derive"]
    <2>1. k \in Ratchet /\ k.pc = "ratchet" /\ k.sets /\ ratchets' = [ratchets EXCEPT ![h][i] = new]
          /\ ratchets \in [Handlers -> [Indices -> Ratchet]]
      BY <1>1, <1>2 DEF RatchetDerives, RingTypes
    <2>2. new = [k EXCEPT !.pc = "derive"]
      OBVIOUS
    <2> HIDE DEF k, new
    <2>3. new \in Ratchet /\ new.pc = "derive" /\ new.key = k.key /\ new.step = k.step /\ new.sets = k.sets
      BY <2>1, <2>2 DEF Ratchet
    <2>4. SameTurn(new, k)
      BY <2>1, <2>3 DEF SameTurn, Runs, None
    <2>5. ratchets'[h][i] = new /\ \A c \in Handlers, d \in Indices : ~(c = h /\ d = i) => ratchets'[c][d] = ratchets[c][d]
      BY <2>1, <2>3, SlotReplaced
    <2> QED
      BY <2>5, <2>1, <2>3, <2>4 DEF GoesOn, SameTurn, k
  <1>3. ASSUME NEW h \in Handlers, NEW i \in Indices, RatchetLooksAhead(h, i) \/ RatchetSets(h, i)
        PROVE  LET k == ratchets[a][b]  l == ratchets'[a][b] IN
               GoesOn(l, k) \/ ((RatchetLooksAhead(a, b) \/ RatchetSets(a, b)) /\ l = NoRatchet)
    BY <1>3, OthersRatchets DEF GoesOn, SameTurn
  <1>4. CASE \E h \in Handlers, i \in Indices, sets, asked \in BOOLEAN : Joins(h, i, sets, asked)
    BY <1>4, <1>1, RatchetsOne DEF Joins, GoesOn, SameTurn, Begins, Runs
  <1>5. CASE \E h \in Handlers, i \in Indices : RatchetLooksAhead(h, i) \/ RatchetDerives(h, i) \/ RatchetSets(h, i)
    BY <1>2, <1>3, <1>5
  <1>6. CASE \E r \in Receivers : FrameDecrypted(r)
    BY <1>6 DEF GoesOn, SameTurn, FrameDecrypted
  <1> QED
    BY <1>4, <1>5, <1>6, KeysChange, SetKeyDoes DEF GoesOn, SameTurn

\* What is in a slot: the key that the worker sets, a ratchet that was requested, or what a frame found.
LEMMA SlotTurns ==
  ASSUME Types, FramesAreRight, [Next]_vars, NEW a \in Handlers, NEW b \in Indices
  PROVE  LET s == ring[a][b]  t == ring'[a][b]  k == ratchets[a][b] IN
         \/ t = s
         \/ SetKey /\ TaskSets(a, b) /\ t.key = task.key /\ t.step = 0
         \/ RatchetSets(a, b) /\ t.key = k.key /\ t.step = k.step
         \/ \E r \in Receivers : LET f == frame[r] IN
              /\ FrameDecrypted(r) /\ Reports(a, b, f.try) /\ t.key = f.try.key /\ t.step = f.try.step
              /\ f.pc = "decrypt" /\ f.hot /\ f.h = a /\ f.idx = b /\ f.base = s
  <1>1. CASE SetKey
    BY <1>1, SetKeyDoes DEF TaskSets
  <1>2. ASSUME NEW h \in Handlers, NEW i \in Indices, RatchetSets(h, i)
        PROVE  LET s == ring[a][b]  t == ring'[a][b]  k == ratchets[a][b] IN
               t = s \/ (RatchetSets(a, b) /\ t.key = k.key /\ t.step = k.step)
    <2>1. CASE a = h /\ b = i
      <3>1. ring'[h][i] = [key |-> ratchets[h][i].key, step |-> ratchets[h][i].step, nth |-> ring[h][i].nth + 1]
        BY <1>2, RatchetSetsDoes
      <3>2. ring'[h][i].key = ratchets[h][i].key /\ ring'[h][i].step = ratchets[h][i].step
        BY <3>1
      <3> QED
        BY <1>2, <2>1, <3>2
    <2>2. CASE ~(a = h /\ b = i)
      <3>1. \A c \in Handlers, d \in Indices : ~(c = h /\ d = i) => ring'[c][d] = ring[c][d]
        BY <1>2, RatchetSetsDoes
      <3>2. ring'[a][b] = ring[a][b]
        BY <2>2, <3>1
      <3> QED
        BY <3>2
    <2> QED
      BY <2>1, <2>2
  <1>3. ASSUME NEW h \in Handlers, NEW i \in Indices, RatchetLooksAhead(h, i) \/ RatchetDerives(h, i) PROVE ring' = ring
    BY <1>3 DEF RatchetLooksAhead, RatchetDerives
  <1>4. ASSUME NEW r \in Receivers, FrameDecrypted(r)
        PROVE  LET f == frame[r]  s == ring[a][b]  t == ring'[a][b] IN
               \/ t = s
               \/ /\ Reports(a, b, f.try) /\ t.key = f.try.key /\ t.step = f.try.step
                  /\ f.pc = "decrypt" /\ f.hot /\ f.h = a /\ f.idx = b /\ f.base = s
    <2> DEFINE f == frame[r]
    <2>1. /\ f.pc = "decrypt" /\ f.h \in Handlers /\ f.idx \in Indices
          /\ \/ ring' = ring
             \/ /\ f.hot /\ ring[f.h][f.idx] = f.base
                /\ ring'[f.h][f.idx] = [key |-> f.try.key, step |-> f.try.step, nth |-> ring[f.h][f.idx].nth + 1]
                /\ \A c \in Handlers, d \in Indices : ~(c = f.h /\ d = f.idx) => ring'[c][d] = ring[c][d]
                /\ Reports(f.h, f.idx, f.try)
      BY <1>4, DecryptedDoes
    <2> HIDE DEF f
    <2>2. CASE a = f.h /\ b = f.idx
      BY <2>1, <2>2 DEF f
    <2>3. CASE ~(a = f.h /\ b = f.idx)
      BY <2>1, <2>3
    <2> QED
      BY <2>2, <2>3
  <1>5. ASSUME NEW h \in Handlers, NEW i \in Indices, NEW sets, NEW asked, Joins(h, i, sets, asked) PROVE ring' = ring
    BY <1>5 DEF Joins
  <1>6. CASE \E h \in Handlers, i \in Indices : RatchetLooksAhead(h, i) \/ RatchetDerives(h, i) \/ RatchetSets(h, i)
    BY <1>2, <1>3, <1>6
  <1>7. CASE \E r \in Receivers : FrameDecrypted(r)
    BY <1>4, <1>7
  <1>8. CASE UNCHANGED <<ring, ratchets, raced>> \/ \E h \in Handlers, i \in Indices, sets, asked \in BOOLEAN : Joins(h, i, sets, asked)
    BY <1>5, <1>8
  <1> QED
    BY <1>1, <1>6, <1>7, <1>8, KeysChange

\* What runs has a key.
LEMMA RunsKeepKeys ==
  ASSUME Types, FramesAreRight, RunsHaveKeys, [Next]_vars
  PROVE  RunsHaveKeys'
  <1>1. ASSUME NEW a \in Handlers, NEW b \in Indices
        PROVE  RunIsRight(ratchets'[a][b])
    <2> DEFINE k == ratchets[a][b]  l == ratchets'[a][b]
    <2>1. \/ GoesOn(l, k) \/ Begins(l, k, ring[a][b]) \/ l = NoRatchet
      BY RatchetTurns
    <2>2. RunIsRight(k)
      BY DEF RunsHaveKeys
    <2> HIDE DEF k, l
    <2>3. RunIsRight(l)
      BY <2>2, <2>1 DEF RunIsRight, GoesOn, SameTurn, Begins, Runs, NoRatchet, None
    <2> QED
      BY <2>3 DEF l
  <1> QED
    BY <1>1 DEF RunsHaveKeys

\* A slot that has a key keeps one.
LEMMA SlotsKeepKeys ==
  ASSUME Types, FramesAreRight, RunsHaveKeys, [Next]_vars, NEW a \in Handlers, NEW b \in Indices, ring[a][b].key # 0
  PROVE  ring'[a][b].key # 0
  <1>1. CASE SetKey /\ TaskSets(a, b) /\ ring'[a][b].key = task.key
    BY <1>1, TaskIs DEF Types, Given, TaskSets
  <1>2. CASE RatchetSets(a, b) /\ ring'[a][b].key = ratchets[a][b].key
    BY <1>2 DEF RatchetSets, Runs, RunsHaveKeys, RunIsRight
  <1>3. ASSUME NEW r \in Receivers, ring'[a][b].key = frame[r].try.key, frame[r].pc = "decrypt" PROVE ring'[a][b].key # 0
    BY <1>3 DEF FramesAreRight, FrameIsRight
  <1> QED
    BY <1>1, <1>2, <1>3, SlotTurns

\* What the worker does with the message it is at.
LEMMA TaskChanges ==
  ASSUME [Next]_vars
  PROVE  \/ task' = task
         \/ TakesSetKey \/ SetKey \/ TakesEncryptData \/ DataEncrypted \/ TakesDecryptData \/ DataDecrypted
         \/ \E h \in Handlers, i \in Indices : RatchetLooksAhead(h, i) \/ RatchetSets(h, i)
  <1>1. CASE WorkerGoesOn
    BY <1>1 DEF RatchetDerives, FrameDecrypted, FrameNotDecrypted, FrameGivenUp, WatchdogFires, WorkerGoesOn
  <1>2. CASE Environment
    BY <1>2, EnvironmentLeaves
  <1> QED
    BY <1>1, <1>2, WorkerIsLeft
      DEF Next, worker, WorkerTakes, TakesEnable, TakesRatchetRequest, TakesDecode, TakesUpdateCodec,
          TakesRemoveTransform, TakesEncode

\* A packet that is decrypted has a key, and waits for a ratchet that runs.
LEMMA PacketStaysRight ==
  ASSUME Types, FramesAreRight, RunsHaveKeys, PacketIsRight, [Next]_vars
  PROVE  PacketIsRight'
  <1>1. TaskTypes /\ RingTypes /\ QueueTypes /\ OptionTypes
    BY DEF Types
  <1>2. ASSUME task.kind = "decrypt", NEW a, NEW b, a = task.h, b = task.idx
        PROVE  /\ a \in Handlers /\ b \in Indices /\ ring'[a][b].key # 0
               /\ Runs(ratchets[a][b]) => Runs(ratchets'[a][b]) \/ RatchetLooksAhead(a, b) \/ RatchetSets(a, b)
    BY <1>1, <1>2, TaskIs, SlotsKeepKeys, RatchetTurns DEF PacketIsRight, GoesOn, SameTurn, Begins, Runs, None
  <1>3. CASE task' = task /\ ~(\E h \in Handlers, i \in Indices : RatchetLooksAhead(h, i) \/ RatchetSets(h, i))
    BY <1>2, <1>3 DEF PacketIsRight
  <1>4. ASSUME NEW h \in Handlers, NEW i \in Indices, RatchetLooksAhead(h, i) \/ RatchetSets(h, i) PROVE PacketIsRight'
    <2>1. task' = IF task.kind = "decrypt" /\ task.pc = "ratchet" /\ task.h = h /\ task.idx = i
                  THEN [task EXCEPT !.pc = "decrypt", !.n = @ + 1, !.seen = ring[h][i]] ELSE task
      BY <1>4 DEF RatchetLooksAhead, RatchetSets, Resolves
    <2>2. CASE task.kind = "decrypt" /\ task.pc = "ratchet" /\ task.h = h /\ task.idx = i
      BY <1>1, <2>2, TaskIs, <2>1, <1>2 DEF PacketIsRight
    <2>3. CASE task.kind = "decrypt" /\ ~(task.pc = "ratchet" /\ task.h = h /\ task.idx = i)
      BY <2>1, <2>3, <1>2, <1>4, OthersRatchets DEF PacketIsRight
    <2>4. CASE task.kind # "decrypt"
      BY <2>1, <2>4 DEF PacketIsRight
    <2> QED
      BY <2>2, <2>3, <2>4
  <1>5. CASE TakesDecryptData
    <2> DEFINE m == Head(queue)  h == Handler(m.who)  slot == ring[h][m.idx]
    <2> HIDE DEF m, h
    <2> QED
      BY <1>5 DEF PacketIsRight, NoTask, None, TakesDecryptData, Takes, keys
  <1>6. CASE DataDecrypted
    <2> DEFINE slot == ring[task.h][task.idx]
    <2>1. /\ task \in [kind : {"decrypt"}, pc : {"decrypt", "ratchet"}, id : Requests, h : Handlers, idx : Indices,
                       key : Nat, step : Nat, seen : Slots, n : 0..Window]
          /\ task.kind = "decrypt"
      BY <1>1, <1>6, TaskIs DEF DataDecrypted
    <2>2. /\ ring' = ring
          /\ \/ task' = NoTask
             \/ task' = [task EXCEPT !.seen = slot, !.n = @ + 1] /\ task.pc = "decrypt"
             \/ /\ task' = [task EXCEPT !.pc = "ratchet"] /\ Ratcheting(task.h, task.idx, FALSE, FALSE)
                /\ ~(~SameKey(task.seen, task) /\ task.n = Window)
                /\ ~(~SameKey(task.seen, task) /\ task.n < Window /\ task.seen # slot)
                /\ ~SameKey(task.seen, task)
                /\ ~(~SameKey(task.seen, task) /\ task.n < Window /\ task.seen = slot /\ ratchets[task.h][task.idx].pc = "rejected")
      BY <1>6 DEF DataDecrypted
    <2>3. CASE task' = NoTask
      BY <2>3 DEF PacketIsRight, NoTask, None
    <2>4. ASSUME task' = [task EXCEPT !.pc = "ratchet"], Ratcheting(task.h, task.idx, FALSE, FALSE),
                 ratchets[task.h][task.idx].pc # "rejected"
          PROVE  PacketIsRight'
      <3> DEFINE h == task.h  i == task.idx
      <3>1. task'.h = h /\ task'.idx = i /\ h \in Handlers /\ i \in Indices /\ ring[h][i].key # 0 /\ ratchets[h][i] \in Ratchet
        BY <1>1, <2>1, <2>4 DEF PacketIsRight, RingTypes
      <3>2. Ratcheting(h, i, FALSE, FALSE) /\ ratchets[h][i].pc # "rejected"
        BY <2>4
      <3> HIDE DEF h, i
      <3>3. /\ ratchets[h][i].pc # None => ratchets'[h][i].pc = ratchets[h][i].pc
            /\ ratchets[h][i].pc = None /\ ring[h][i].key # 0 => ratchets'[h][i].pc = "ratchet"
        BY <1>1, <3>1, <3>2, RatchetsOne
      <3> QED
        BY <2>2, <3>1, <3>2, <3>3 DEF PacketIsRight, Runs, Ratchet
    <2>5. CASE /\ task' = [task EXCEPT !.pc = "ratchet"] /\ Ratcheting(task.h, task.idx, FALSE, FALSE)
               /\ ~(~SameKey(task.seen, task) /\ task.n = Window)
               /\ ~(~SameKey(task.seen, task) /\ task.n < Window /\ task.seen # slot)
               /\ ~SameKey(task.seen, task)
               /\ ~(~SameKey(task.seen, task) /\ task.n < Window /\ task.seen = slot /\ ratchets[task.h][task.idx].pc = "rejected")
      BY <2>5, <2>4, <2>1, SettingsAssumption
    <2> QED
      BY <2>2, <2>3, <2>5, <1>2, <2>1 DEF PacketIsRight
  <1> QED
    BY <1>3, <1>4, <1>5, <1>6, TaskChanges
      DEF TakesSetKey, SetKey, TakesEncryptData, DataEncrypted, NoTask, None, PacketIsRight

-----------------------------------------------------------------------------
(* Keys arrive. *)

\* Only another key that is set takes a slot out of raced.
LEMMA RacedStays ==
  ASSUME Types, FramesAreRight, [Next]_vars, NEW a \in Handlers, NEW b \in Indices, <<a, b>> \in raced
  PROVE  <<a, b>> \in raced' \/ (SetKey /\ TaskSets(a, b))
  BY SetKeyDoes, KeysChange DEF TaskSets, Joins, RatchetLooksAhead, RatchetDerives, RatchetSets, FrameDecrypted

\* A key that is set is in its slot, with no ratchet of another key to replace it.
LEMMA SetIsInstalled ==
  ASSUME Types, SetKey, NEW h \in Handlers, NEW i \in Indices, TaskSets(h, i)
  PROVE  \A key : key = task.key => Settled(h, i, key)'
  <1> TAKE key
  <1> HAVE key = task.key
  <1> QED
    BY SetKeyDoes DEF Settled, TaskSets, Installed, NoTask, None

\* Whatever happens then, short of another key for the slot: the key is on its way to it, or there.
LEMMA SettledStays ==
  ASSUME Types, FramesAreRight, RunsHaveKeys, [Next]_vars, ~TakesSetKey,
         NEW h \in Handlers, NEW i \in Indices, NEW key, Settled(h, i, key)
  PROVE  Settled(h, i, key)'
  <1>1. TaskTypes
    BY DEF Types
  <1> DEFINE Ends == \E a \in Handlers, b \in Indices : RatchetLooksAhead(a, b) \/ RatchetSets(a, b)
  <1>2. Ends => task' = task \/ (task.kind = "decrypt" /\ task'.kind = "decrypt")
    <2>1. ASSUME NEW a \in Handlers, NEW b \in Indices, RatchetLooksAhead(a, b) \/ RatchetSets(a, b)
          PROVE  task' = task \/ (task.kind = "decrypt" /\ task'.kind = "decrypt")
      BY <2>1, <1>1, TaskIs DEF RatchetLooksAhead, RatchetSets, Resolves
    <2> QED
      BY <2>1
  <1>3. CASE TaskSets(h, i) /\ ~SetKey
    BY <1>3, <1>2, TaskChanges
      DEF TaskSets, TakesEncryptData, TakesDecryptData, Takes, DataEncrypted, DataDecrypted, NoTask, None,
          Settled
  <1>4. CASE ~TaskSets(h, i)
    <2>1. ~TaskSets(h, i)'
      <3>1. CASE DataDecrypted
        <4>1. /\ \A s : [task EXCEPT !.seen = s, !.n = @ + 1].kind = "decrypt"
              /\ [task EXCEPT !.pc = "ratchet"].kind = "decrypt"
          BY <1>1, <3>1, TaskIs DEF DataDecrypted
        <4>2. task' = NoTask \/ task'.kind = "decrypt"
          BY <4>1, <3>1 DEF DataDecrypted
        <4> QED
          BY <4>2 DEF TaskSets, NoTask, None
      <3>2. CASE task' = task
        BY <1>4, <3>2 DEF TaskSets
      <3> QED
        BY <1>2, <3>1, <3>2, TaskChanges, SetKeyDoes, <1>4
          DEF TaskSets, NoTask, None, TakesEncryptData, TakesDecryptData, DataEncrypted
    <2>2. ASSUME <<h, i>> \notin raced'
          PROVE  ring'[h][i].key = key /\ (Runs(ratchets'[h][i]) /\ ratchets'[h][i].sets => ratchets'[h][i].key = key)
      <3>1. <<h, i>> \notin raced
        BY <1>4, <2>2, RacedStays
      <3>2. ring[h][i].key = key /\ (Runs(ratchets[h][i]) /\ ratchets[h][i].sets => ratchets[h][i].key = key)
        BY <1>4, <3>1 DEF Settled, Installed
      <3>3. ring'[h][i].key = key
        <4>1. ASSUME RatchetSets(h, i) PROVE ratchets[h][i].key = key
          BY <4>1, <3>2 DEF RatchetSets, RunsHaveKeys, RunIsRight, Runs
        <4>2. ASSUME NEW r \in Receivers, frame[r].pc = "decrypt", frame[r].hot, frame[r].h = h, frame[r].idx = i,
                     frame[r].base = ring[h][i]
              PROVE  frame[r].try.key = key
          BY <4>2, <3>1, <3>2 DEF FramesAreRight, FrameIsRight, KeepsKey
        <4> QED
          BY <1>4, <3>2, <4>1, <4>2, SlotTurns
      <3>4. Runs(ratchets'[h][i]) /\ ratchets'[h][i].sets => ratchets'[h][i].key = key
        <4> DEFINE k == ratchets[h][i]  l == ratchets'[h][i]
        <4>1. GoesOn(l, k) \/ Begins(l, k, ring[h][i]) \/ l = NoRatchet
          BY RatchetTurns
        <4> HIDE DEF k, l
        <4>2. CASE Begins(l, k, ring[h][i])
          BY <3>2, <4>2 DEF Begins, Runs, k, l
        <4>3. CASE l = NoRatchet
          BY <4>3 DEF NoRatchet, Runs, None, l
        <4> QED
          BY <4>1, <4>2, <4>3, <3>2 DEF GoesOn, SameTurn, k, l
      <3> QED
        BY <3>3, <3>4
    <2> QED
      BY <2>1, <2>2 DEF Settled, TaskSets, Installed
  <1> QED
    BY <1>3, <1>4, SetIsInstalled DEF Settled

\* No two keys of the page are for the same slot.
LEMMA KeyInfosStayDifferent ==
  ASSUME Types, KeyInfosDiffer, [Next]_vars
  PROVE  KeyInfosDiffer'
  <1>1. OptionTypes /\ PageTypes /\ keyInfos \in Seq(KeyInfo)
    BY DEF Types, PageTypes
  <1>2. CASE keyInfos' = keyInfos
    BY <1>2 DEF KeyInfosDiffer
  <1>3. ASSUME NEW p \in Identities, NEW i \in options.indices, NEW g \in BOOLEAN, OnSetEncryptionKey(p, i, g)
        PROVE  KeyInfosDiffer'
    <2> DEFINE info == [who |-> p, idx |-> i, key |-> left.key]
    <2>1. /\ info \in KeyInfo /\ info.who = p /\ info.idx = i
          /\ \/ /\ keyInfos' = Append(keyInfos, info)
                /\ \A j \in DOMAIN keyInfos : ~(keyInfos[j].who = p /\ keyInfos[j].idx = i)
             \/ \E l \in DOMAIN keyInfos : /\ keyInfos[l].who = p /\ keyInfos[l].idx = i
                                           /\ keyInfos' = [keyInfos EXCEPT ![l] = info]
      BY <1>1, <1>3, KeyIsListed
    <2> HIDE DEF info
    <2>2. ASSUME keyInfos' = Append(keyInfos, info), \A j \in DOMAIN keyInfos : ~(keyInfos[j].who = p /\ keyInfos[j].idx = i)
          PROVE  KeyInfosDiffer'
      <3> DEFINE n == Len(keyInfos)
      <3> HIDE DEF n
      <3> QED
        BY <2>1, <2>2, <1>1, AppendProperties, LenProperties DEF KeyInfosDiffer
    <2> QED
      BY <2>1, <2>2 DEF KeyInfosDiffer
  <1> QED
    BY <1>1, <1>2, <1>3, PageTells, PageIsLeft DEF Next, page

\* All keys again: the last message of each slot is the key that is listed for it.
LEMMA AllKeysLast ==
  ASSUME PageTypes, KeyInfosDiffer, NEW S, NEW j \in DOMAIN keyInfos, NEW w, NEW i, NEW key,
         keyInfos[j].who = w, keyInfos[j].idx = i, keyInfos[j].key = key
  PROVE  LastIn(AllKeys(S), SetsKey(w, i), SetsTo(w, i, key))
  <1>1. /\ DOMAIN AllKeys(S) = DOMAIN keyInfos
        /\ \A l \in DOMAIN keyInfos : AllKeys(S)[l] = KeyMessage(keyInfos[l], keyInfos[l].idx \in S)
    BY AllKeysAreMessages
  <1>2. AllKeys(S)[j] \in SetsTo(w, i, key)
    <2> DEFINE b == keyInfos[j].idx \in S
    <2>1. b \in BOOLEAN /\ AllKeys(S)[j] = KeyMessage(keyInfos[j], b)
      BY <1>1
    <2> HIDE DEF b
    <2> QED
      BY <2>1 DEF SetsTo, KeyMessage
  <1>3. \A l \in DOMAIN keyInfos : AllKeys(S)[l] \in SetsKey(w, i) => l = j
    <2> TAKE l \in DOMAIN keyInfos
    <2> HAVE AllKeys(S)[l] \in SetsKey(w, i)
    <2> QED
      BY <1>1 DEF KeyInfosDiffer, KeyMessage, SetsKey
  <1> QED
    BY <1>1, <1>2, <1>3, LenProperties DEF LastIn, PageTypes

\* What the page tells the worker is the listed key, or nothing about it.
LEMMA ToldLast ==
  ASSUME Types, KeyInfosDiffer, queue' = queue \/ (\E S : TellsAll(S)) \/ (\E m : TellsThis(m)),
         NEW j \in DOMAIN keyInfos, NEW w, NEW i, NEW key,
         keyInfos[j].who = w, keyInfos[j].idx = i, keyInfos[j].key = key
  PROVE  LET S == SetsKey(w, i)  G == SetsTo(w, i, key) IN
         LastIn(queue, S, G) \/ NoneIn(queue, S) => LastIn(queue', S, G) \/ (NoneIn(queue, S) /\ NoneIn(queue', S))
  <1> DEFINE S == SetsKey(w, i)  G == SetsTo(w, i, key)  T == ToWorker(Whos)
  <1>1. PageTypes /\ queue \in Seq(T) /\ KeyMessages(Whos) \subseteq T /\ EnableMessages \subseteq T
    BY DEF Types, QueueTypes, ToWorker
  <1>2. ASSUME NEW m, TellsThis(m)
        PROVE  LastIn(queue, S, G) \/ NoneIn(queue, S) => LastIn(queue', S, G) \/ (NoneIn(queue, S) /\ NoneIn(queue', S))
    <2>1. m \in T /\ m \notin S /\ queue' = Append(queue, m)
      BY <1>2 DEF TellsThis, SetsKey
    <2> HIDE DEF S, G, T
    <2> QED
      BY <1>1, <2>1, AppendedLast
  <1>3. ASSUME NEW U, TellsAll(U) PROVE LastIn(queue', S, G)
    <2>1. AllKeys(U) \in Seq(T)
      BY <1>1, AllKeysAreMessages
    <2>2. LastIn(AllKeys(U), S, G)
      BY <1>1, AllKeysLast
    <2>3. LastIn(queue \o AllKeys(U), S, G)
      <3> HIDE DEF S, G, T
      <3> QED
        BY <1>1, <2>1, <2>2, JoinedLast
    <2>4. ASSUME NEW m \in EnableMessages PROVE LastIn(queue \o AllKeys(U) \o <<m>>, S, G)
      <3>1. m \notin S /\ <<m>> \in Seq(T)
        BY <1>1 DEF EnableMessages, SetsKey
      <3> DEFINE q == queue \o AllKeys(U)
      <3> HIDE DEF S, G, T
      <3>2. q \in Seq(T) /\ LastIn(q, S, G)
        BY <2>3, <1>1, <2>1, ConcatProperties
      <3> HIDE DEF q
      <3>3. LastIn(q \o <<m>>, S, G)
        BY <3>1, <3>2, JoinedLast DEF NoneIn
      <3> QED
        BY <3>3 DEF q
    <2> QED
      BY <1>3, <2>3, <2>4 DEF TellsAll
  <1> QED
    BY <1>2, <1>3

\* The key that is set takes its place behind all the others of its slot.
LEMMA SetLast ==
  ASSUME Types, NEW p \in Identities, NEW i \in options.indices, NEW g \in BOOLEAN, OnSetEncryptionKey(p, i, g)
  PROVE  /\ LastIn(queue', SetsKey(p, i), SetsTo(p, i, left.key))
         /\ \A w, b, key : w # p \/ b # i =>
              /\ NoneIn(queue, SetsKey(w, b)) => NoneIn(queue', SetsKey(w, b))
              /\ LastIn(queue, SetsKey(w, b), SetsTo(w, b, key)) => LastIn(queue', SetsKey(w, b), SetsTo(w, b, key))
  <1> DEFINE m == KeyMessage([who |-> p, idx |-> i, key |-> left.key], g)  T == ToWorker(Whos)
  <1>1. /\ m \in T /\ queue \in Seq(T) /\ queue' = Append(queue, m)
    BY KeyIsListed DEF Types, QueueTypes, ToWorker, OnSetEncryptionKey
  <1>2. m \in SetsTo(p, i, left.key) /\ \A w, b : w # p \/ b # i => m \notin SetsKey(w, b)
    BY DEF KeyMessage, SetsTo, SetsKey
  <1> HIDE DEF m, T
  <1> QED
    BY <1>1, <1>2, AppendedLast

\* The worker takes a key: it is the one that is set next, and no other participant's.
LEMMA TakenIsSettled ==
  ASSUME Types, TakesSetKey, NEW w \in Whos, NEW i \in Indices, NEW key, Arrives(w, i, key)
  PROVE  Arrives(w, i, key)'
  <1> DEFINE S == SetsKey(w, i)  G == SetsTo(w, i, key)  T == ToWorker(Whos)  h == Handler(w)  m == Head(queue)
  <1>1. /\ queue \in Seq(T) /\ queue # <<>> /\ queue' = Tail(queue) /\ m \in KeyMessages(Whos) /\ task = NoTask
        /\ task' = [kind |-> "setKey", h |-> Handler(m.who), idx |-> m.idx, key |-> m.key, update |-> m.update]
        /\ UNCHANGED <<ring, ratchets, raced, options>>
    BY FirstMessage DEF Types, QueueTypes, TakesSetKey, Takes, keys
  <1>2. h' = h /\ h \in Handlers
    BY <1>1, SharedStays, HandlersDiffer DEF Types
  <1>3. m \in S <=> TaskSets(h, i)'
    BY <1>1, HandlersDiffer, <1>2 DEF KeyMessages, Types, TaskSets, SetsKey
  <1>4. m \in G => Settled(h, i, key)'
    BY <1>1, <1>2, <1>3 DEF SetsTo, KeyMessages, SetsKey, Settled, TaskSets
  <1>5. m \notin S /\ Settled(h, i, key) => Settled(h, i, key)'
    BY <1>1, <1>2, <1>3 DEF TaskSets, NoTask, None, Installed, Settled
  <1>6. LastIn(queue, S, G) \/ (NoneIn(queue, S) /\ Settled(h, i, key))
    BY DEF Arrives
  <1>7. LastIn(queue', S, G) \/ (NoneIn(queue', S) /\ Settled(h, i, key)')
    <2> HIDE DEF S, G, T, m, h
    <2>1. /\ NoneIn(queue, S) => NoneIn(Tail(queue), S) /\ m \notin S
          /\ LastIn(queue, S, G) => LastIn(Tail(queue), S, G) \/ (NoneIn(Tail(queue), S) /\ m \in G)
      BY <1>1, TailLast DEF m
    <2> QED
      BY <1>1, <1>4, <1>5, <1>6, <2>1
  <1> QED
    BY <1>2, <1>7 DEF Arrives

\* Nothing else the worker does changes what the last key of a slot is.
LEMMA WorkerLetsArrive ==
  ASSUME Types, FramesAreRight, RunsHaveKeys, [Next]_vars, WorkerTakes \/ WorkerGoesOn \/ Environment \/ UNCHANGED vars, ~TakesSetKey,
         NEW w \in Whos, NEW i \in Indices, NEW key, Arrives(w, i, key)
  PROVE  Arrives(w, i, key)'
  <1> DEFINE S == SetsKey(w, i)  G == SetsTo(w, i, key)  T == ToWorker(Whos)  h == Handler(w)
  <1>1. LastIn(queue, S, G) \/ (NoneIn(queue, S) /\ Settled(h, i, key))
    BY DEF Arrives
  <1>2. (NoneIn(queue, S) => NoneIn(queue', S)) /\ (LastIn(queue, S, G) => LastIn(queue', S, G))
    <2>1. CASE WorkerTakes
      <3>1. queue \in Seq(T) /\ queue # <<>> /\ queue' = Tail(queue)
        BY <2>1, WorkerLeavesQueue DEF Types, QueueTypes
      <3>2. Head(queue).kind # "setKey"
        BY <2>1 DEF WorkerTakes, Takes, TakesEnable, TakesRatchetRequest, TakesEncryptData, TakesDecryptData,
                    TakesDecode, TakesUpdateCodec, TakesRemoveTransform, TakesEncode
      <3>3. Head(queue) \notin G
        BY <3>2 DEF SetsTo
      <3> HIDE DEF S, G, T, h
      <3> QED
        BY <3>1, <3>3, TailLast
    <2> QED
      BY <2>1, WorkerLeavesQueue
  <1> QED
    BY <1>1, <1>2, SettledStays, OptionsKept, SharedStays, HandlersDiffer DEF Arrives, Types

\* What the page tells the worker changes nothing there: what is settled stays so.
LEMMA ToldArrives ==
  ASSUME Types, OptionTypes', UNCHANGED <<options, worker>>, NEW w \in Whos, NEW i \in Indices, NEW key \in Given, Arrives(w, i, key),
         LET S == SetsKey(w, i)  G == SetsTo(w, i, key) IN
         LastIn(queue', S, G) \/ (NoneIn(queue, S) /\ NoneIn(queue', S))
  PROVE  Arrives(w, i, key)'
  <1> DEFINE S == SetsKey(w, i)  G == SetsTo(w, i, key)  h == Handler(w)
  <1>1. h' = h
    BY SharedStays
  <1>2. LastIn(queue, S, G) \/ (NoneIn(queue, S) /\ Settled(h, i, key))
    BY DEF Arrives
  <1>3. LastIn(queue', S, G) \/ (NoneIn(queue, S) /\ NoneIn(queue', S))
    OBVIOUS
  <1>4. NoneIn(queue, S) => ~LastIn(queue, S, G)
    BY DEF LastIn, NoneIn, SetsTo, SetsKey
  <1> QED
    BY <1>1, <1>2, <1>3, <1>4 DEF Arrives, worker, keys, Settled, TaskSets, Installed

\* A key that is in the page's list is one of the messages' keys.
LEMMA InfoIs ==
  ASSUME PageTypes, NEW j \in DOMAIN keyInfos
  PROVE  keyInfos[j].who \in Whos /\ keyInfos[j].idx \in Indices /\ keyInfos[j].key \in Given
  <1>1. keyInfos[j] \in KeyInfo
    BY DEF PageTypes
  <1> QED
    BY <1>1 DEF PageTypes, KeyInfo

\* A key that the application set last is on its way to its slot, or there.
LEMMA KeysStillArrive ==
  ASSUME Types, FramesAreRight, RunsHaveKeys, KeysArrive, KeyInfosDiffer, [Next]_vars
  PROVE  KeysArrive'
  <1>1. OptionTypes /\ PageTypes /\ keyInfos \in Seq(KeyInfo) /\ options' = options /\ OptionTypes'
    BY OptionsKept DEF Types, PageTypes
  <1>2. ASSUME NEW p \in Identities, NEW b \in options.indices, NEW g \in BOOLEAN, OnSetEncryptionKey(p, b, g)
        PROVE  KeysArrive'
    <2> DEFINE info == [who |-> p, idx |-> b, key |-> left.key]
    <2>1. /\ info.who = p /\ info.idx = b /\ info.key = left.key
          /\ \/ /\ keyInfos' = Append(keyInfos, info)
                /\ \A j \in DOMAIN keyInfos : ~(keyInfos[j].who = p /\ keyInfos[j].idx = b)
             \/ \E l \in DOMAIN keyInfos : /\ keyInfos[l].who = p /\ keyInfos[l].idx = b
                                           /\ keyInfos' = [keyInfos EXCEPT ![l] = info]
      BY <1>1, <1>2, KeyIsListed
    <2>2. \A w, i, key : w = p /\ i = b /\ key = left.key => Arrives(w, i, key)'
      BY <1>2, SetLast DEF Arrives
    <2>3. ASSUME NEW j \in DOMAIN keyInfos, ~(keyInfos[j].who = p /\ keyInfos[j].idx = b)
          PROVE  \A w, i, key : w = keyInfos[j].who /\ i = keyInfos[j].idx /\ key = keyInfos[j].key => Arrives(w, i, key)'
      <3> TAKE w, i, key
      <3> HAVE w = keyInfos[j].who /\ i = keyInfos[j].idx /\ key = keyInfos[j].key
      <3> DEFINE S == SetsKey(w, i)  G == SetsTo(w, i, key)
      <3>1. w # p \/ i # b
        BY <2>3
      <3>2. (NoneIn(queue, S) => NoneIn(queue', S)) /\ (LastIn(queue, S, G) => LastIn(queue', S, G))
        BY <1>2, <3>1, SetLast
      <3>3. UNCHANGED worker
        BY <1>2 DEF OnSetEncryptionKey
      <3> QED
        BY <1>1, <3>2, <3>3, ToldArrives, InfoIs DEF Arrives, KeysArrive
    <2>4. ASSUME NEW l \in DOMAIN keyInfos, keyInfos[l].who = p, keyInfos[l].idx = b, keyInfos' = [keyInfos EXCEPT ![l] = info]
          PROVE  KeysArrive'
      <3>1. DOMAIN keyInfos' = DOMAIN keyInfos /\ \A j \in DOMAIN keyInfos : keyInfos'[j] = IF j = l THEN info ELSE keyInfos[j]
        BY <2>4
      <3> HIDE DEF info
      <3>2. ASSUME NEW j \in DOMAIN keyInfos
            PROVE  \A w, i, key : w = keyInfos'[j].who /\ i = keyInfos'[j].idx /\ key = keyInfos'[j].key => Arrives(w, i, key)'
        BY <2>1, <2>2, <3>1, <2>3, <2>4 DEF KeyInfosDiffer
      <3> QED
        BY <3>1, <3>2 DEF KeysArrive
    <2>5. ASSUME keyInfos' = Append(keyInfos, info), \A j \in DOMAIN keyInfos : ~(keyInfos[j].who = p /\ keyInfos[j].idx = b)
          PROVE  KeysArrive'
      <3> DEFINE n == Len(keyInfos)
      <3> HIDE DEF info, n
      <3>1. ASSUME NEW j \in DOMAIN keyInfos'
            PROVE  \A w, i, key : w = keyInfos'[j].who /\ i = keyInfos'[j].idx /\ key = keyInfos'[j].key => Arrives(w, i, key)'
        BY <2>1, <2>2, <2>3, <2>5, <1>1, <1>2, KeyIsListed, AppendProperties, LenProperties
      <3> QED
        BY <3>1 DEF KeysArrive
    <2> QED
      BY <2>1, <2>4, <2>5
  <1>3. ASSUME keyInfos' = keyInfos,
               \A j \in DOMAIN keyInfos : \A w, i, key :
                 w = keyInfos[j].who /\ i = keyInfos[j].idx /\ key = keyInfos[j].key => Arrives(w, i, key)'
        PROVE  KeysArrive'
    BY <1>3 DEF KeysArrive
  <1>4. ASSUME AppActs \/ PageHears PROVE KeysArrive'
    <2>1. CASE keyInfos' = keyInfos /\ (queue' = queue \/ (\E U : TellsAll(U)) \/ \E m : TellsThis(m))
      <3>1. ASSUME NEW j \in DOMAIN keyInfos, NEW w, NEW i, NEW key, w = keyInfos[j].who, i = keyInfos[j].idx, key = keyInfos[j].key
            PROVE  Arrives(w, i, key)'
        <4> DEFINE S == SetsKey(w, i)  G == SetsTo(w, i, key)
        <4>1. LastIn(queue, S, G) \/ NoneIn(queue, S) => LastIn(queue', S, G) \/ (NoneIn(queue, S) /\ NoneIn(queue', S))
          BY <2>1, <3>1, ToldLast
        <4>2. UNCHANGED worker
          BY <1>4, WorkerIsLeft
        <4> QED
          BY <1>1, <4>1, <4>2, ToldArrives, <3>1, InfoIs DEF Arrives, KeysArrive
      <3> QED
        BY <1>3, <2>1, <3>1
    <2> QED
      BY <1>2, <1>4, <2>1, PageTells
  <1>5. ASSUME WorkerTakes \/ WorkerGoesOn \/ Environment \/ UNCHANGED vars PROVE KeysArrive'
    BY <1>1, InfoIs, TakenIsSettled, <1>5, WorkerLetsArrive, PageIsLeft, <1>3 DEF KeysArrive, page
  <1> QED
    BY <1>4, <1>5 DEF Next

-----------------------------------------------------------------------------
(* The key provider hears of ratchets, and the manager of the switch. *)

\* A ratchet that is reported is what will be heard of its slot, and says nothing of others.
LEMMA ReportIsHeard ==
  ASSUME QueueTypes, NEW a \in Handlers, NEW b \in Indices, NEW k, k.key \in Nat, k.step \in Nat, Reports(a, b, k),
         ring'[a][b].key = k.key, ring'[a][b].step = k.step, told' = told,
         NEW h \in Handlers \ {SharedKey}, NEW i \in Indices, Heard(h, i) \/ (a = h /\ b = i),
         ~(a = h /\ b = i) => ring'[h][i] = ring[h][i]
  PROVE  Heard(h, i)'
  <1> DEFINE S == ReportsOf(h, i)  G == Tells(ring[h][i], S)  H == Tells(ring'[h][i], S)
  <1>1. inbox \in Seq(ToPage)
    BY DEF QueueTypes
  <1>2. CASE a # SharedKey
    <2>1. PICK m \in ReportsOf(a, b) : m \in ToPage /\ m.slot.key = k.key /\ m.slot.step = k.step /\ inbox' = Append(inbox, m)
      BY <1>2, ReportIs
    <2>2. CASE a = h /\ b = i
      <3>1. m \in H
        BY <2>1, <2>2 DEF Tells, SameKey
      <3> HIDE DEF S, H
      <3> QED
        BY <1>1, <2>1, <3>1, AppendedLast DEF Heard, S, H
    <2>3. CASE ~(a = h /\ b = i)
      <3> HIDE DEF S, G
      <3> QED
        BY <2>3, <1>1, <2>1, AppendedLast DEF Heard, S, G, H, ReportsOf
    <2> QED
      BY <2>2, <2>3
  <1> QED
    BY <1>2, ReportIs DEF Heard

\* Another message to the page says nothing of ratchets.
LEMMA OthersAreHeard ==
  ASSUME QueueTypes, NEW m \in EnableMessages \union AnswerMessages, inbox' = inbox \/ inbox' = Append(inbox, m), told' = told,
         NEW h \in Handlers, NEW i \in Indices, Heard(h, i), ring'[h][i] = ring[h][i]
  PROVE  Heard(h, i)'
  <1> DEFINE S == ReportsOf(h, i)  G == Tells(ring[h][i], S)
  <1>1. m \notin S /\ m \in ToPage /\ inbox \in Seq(ToPage)
    BY DEF EnableMessages, AnswerMessages, ReportsOf, ToPage, QueueTypes
  <1> HIDE DEF S, G
  <1>2. (NoneIn(inbox, S) => NoneIn(Append(inbox, m), S)) /\ (LastIn(inbox, S, G) => LastIn(Append(inbox, m), S, G))
    BY <1>1, AppendedLast
  <1> QED
    BY <1>2 DEF Heard, S, G

\* What the page hears of a slot is what the key provider knows then.
LEMMA ListeningIsHeard ==
  ASSUME Types, AppActs \/ PageHears, ~disposed', NEW h \in Handlers, NEW i \in Indices, Heard(h, i)
  PROVE  Heard(h, i)'
  <1> DEFINE S == ReportsOf(h, i)  G == Tells(ring[h][i], S)  m == Head(inbox)
  <1>1. inbox \in Seq(ToPage) /\ told \in [Handlers -> [Indices -> Slots]]
    BY DEF Types, QueueTypes, PageTypes
  <1>2. ring' = ring
    BY WorkerIsLeft DEF worker, keys
  <1>3. CASE HearsRatchet
    <2>1. /\ inbox # <<>> /\ inbox' = Tail(inbox) /\ m.kind = "ratchetKey"
          /\ told' = [told EXCEPT ![m.h][m.idx] = m.slot]
      BY <1>3 DEF HearsRatchet, Hears
    <2>2. m \in ReportMessages
      BY <1>1, <2>1, HeadTailProperties DEF ToPage, EnableMessages, AnswerMessages
    <2>3. m \in S <=> m.h = h /\ m.idx = i
      BY <2>2 DEF ReportMessages, ReportsOf
    <2> DEFINE x == m.h  y == m.idx  v == m.slot
    <2>4. told'[h][i] = IF x = h /\ y = i THEN v ELSE told[h][i]
      <3> HIDE DEF m
      <3>1. x \in Handlers /\ y \in Indices /\ v \in Slots /\ told' = [told EXCEPT ![x][y] = v]
        BY <2>1, <2>2 DEF ReportMessages
      <3> HIDE DEF x, y, v
      <3> QED
        BY <1>1, <3>1, SlotReplaced
    <2> HIDE DEF S, G, m
    <2>5. /\ NoneIn(inbox, S) => NoneIn(Tail(inbox), S) /\ m \notin S
          /\ LastIn(inbox, S, G) => LastIn(Tail(inbox), S, G) \/ (NoneIn(Tail(inbox), S) /\ m \in G)
      BY <1>1, <2>1, TailLast DEF m
    <2> QED
      BY <1>2, <2>1, <2>5, <2>3, <2>4 DEF Heard, S, G, Tells
  <1>4. CASE HearsEnable \/ HearsAnswer
    <2>1. inbox # <<>> /\ inbox' = Tail(inbox) /\ told' = told /\ m.kind \in {"enable", "answer"}
      BY <1>4 DEF HearsEnable, HearsAnswer, Hears
    <2> HIDE DEF S, G, m
    <2> QED
      BY <1>2, <2>1, <1>1, TailLast DEF Heard, S, G, m, Tells, ReportsOf
  <1>5. CASE AppActs
    <2>1. UNCHANGED <<inbox, told>>
      <3>1. CASE SignalConnected \/ HandleSender \/ Dispose \/ \E on \in BOOLEAN : SetE2EEEnabled(on)
        BY <3>1 DEF SignalConnected, HandleSender, Dispose, SetE2EEEnabled, page
      <3>2. ASSUME NEW id, NEW x, Asks(id, x) PROVE UNCHANGED <<inbox, told>>
        BY <3>2 DEF Asks
      <3> QED
        BY <1>5, <3>1, <3>2
          DEF AppActs, EncryptData, HandleEncryptedData, RatchetKey, OnSetEncryptionKey, page,
              TrackPublished, TrackUnsubscribed, HandleReceiver
    <2> QED
      BY <1>2, <2>1 DEF Heard
  <1> QED
    BY <1>3, <1>4, <1>5 DEF PageHears, HearsNothing, page

\* The key provider has heard of every ratchet, or will.
LEMMA ReportsStillArrive ==
  ASSUME Types, FramesAreRight, ReportsArrive, [Next]_vars
  PROVE  ReportsArrive'
  <1> SUFFICES ASSUME NEW h \in Handlers \ {SharedKey}, NEW i \in Indices, ring'[h][i].step > 0, ~disposed' PROVE Heard(h, i)'
    BY DEF ReportsArrive
  <1>1. QueueTypes /\ RingTypes
    BY DEF Types
  <1>2. CASE AppActs \/ PageHears
    <2>1. ~disposed
      BY <1>2 DEF AppActs, PageHears, HearsNothing, page, Dispose, RatchetKey, OnSetEncryptionKey, TrackPublished, TrackUnsubscribed,
                  HandleReceiver, SignalConnected, HandleSender, SetE2EEEnabled, EncryptData, HandleEncryptedData, Asks,
                  HearsEnable, HearsRatchet, HearsAnswer
    <2> QED
      BY <1>2, ListeningIsHeard, <2>1, WorkerIsLeft DEF ReportsArrive, worker, keys
  <1>3. CASE WorkerTakes \/ WorkerGoesOn \/ Environment \/ UNCHANGED vars
    <2>1. disposed' = disposed /\ told' = told
      BY <1>3, PageIsLeft DEF page
    <2>2. ring'[h][i] = ring[h][i] => Heard(h, i)
      BY <2>1 DEF ReportsArrive
    <2>3. ASSUME NEW a \in Handlers, NEW b \in Indices, RatchetSets(a, b) PROVE Heard(h, i)'
      <3> DEFINE k == ratchets[a][b]
      <3>1. /\ k \in Ratchet /\ Reports(a, b, k)
            /\ ring'[a][b] = [key |-> k.key, step |-> k.step, nth |-> ring[a][b].nth + 1]
            /\ \A x \in Handlers, y \in Indices : ~(x = a /\ y = b) => ring'[x][y] = ring[x][y]
        BY <2>3, RatchetSetsDoes
      <3> HIDE DEF k
      <3> QED
        BY <1>1, <2>1, <2>2, <3>1, ReportIsHeard DEF Ratchet
    <2>4. ASSUME NEW r \in Receivers, FrameDecrypted(r) PROVE Heard(h, i)'
      <3> DEFINE f == frame[r]  a == f.h  b == f.idx  k == f.try
      <3>1. /\ f \in Frame /\ a \in Handlers /\ b \in Indices
            /\ \/ ring' = ring /\ inbox' = inbox
               \/ /\ ring'[a][b] = [key |-> k.key, step |-> k.step, nth |-> ring[a][b].nth + 1]
                  /\ \A x \in Handlers, y \in Indices : ~(x = a /\ y = b) => ring'[x][y] = ring[x][y]
                  /\ Reports(a, b, k)
        BY <2>4, DecryptedDoes
      <3>2. k.key \in Nat /\ k.step \in Nat
        BY <3>1 DEF Frame, Slots
      <3> HIDE DEF f, a, b, k
      <3>3. CASE /\ ring'[a][b] = [key |-> k.key, step |-> k.step, nth |-> ring[a][b].nth + 1]
                 /\ \A x \in Handlers, y \in Indices : ~(x = a /\ y = b) => ring'[x][y] = ring[x][y]
                 /\ Reports(a, b, k)
        BY <3>3, <1>1, <2>1, <2>2, <3>1, <3>2, ReportIsHeard
      <3> QED
        BY <3>1, <3>3, <2>1, <2>2 DEF Heard
    <2>5. CASE ~(\E a \in Handlers, b \in Indices : RatchetSets(a, b)) /\ ~(\E r \in Receivers : FrameDecrypted(r))
      BY <2>5, SlotTurns, <1>1, FirstMessage, <1>3, WorkerTells, <2>1, <2>2, OthersAreHeard
        DEF TakesEnable, Takes, Heard
    <2> QED
      BY <2>3, <2>4, <2>5
  <1> QED
    BY <1>2, <1>3 DEF Next

\* Other messages leave the switch as it is known.
LEMMA OthersSwitchNothing ==
  ASSUME QueueTypes, NEW on, Switched(on), UNCHANGED <<disposed, enabledHere>>,
         NEW m \in ToPage, m \notin LocalEnables(BOOLEAN), inbox' = inbox \/ inbox' = Append(inbox, m)
  PROVE  Switched(on)'
  <1> DEFINE S == LocalEnables(BOOLEAN)  G == LocalEnables({on})
  <1>1. inbox \in Seq(ToPage) /\ m \notin S
    BY DEF QueueTypes
  <1> HIDE DEF S, G
  <1>2. (NoneIn(inbox, S) => NoneIn(Append(inbox, m), S)) /\ (LastIn(inbox, S, G) => LastIn(Append(inbox, m), S, G))
    BY <1>1, AppendedLast
  <1> QED
    BY <1>2 DEF Switched, S, G

\* The worker does what it is told, and says so.
LEMMA TakenIsSwitched ==
  ASSUME Types, SwitchArrives, TakesEnable
  PROVE  SwitchArrives'
  <1> DEFINE m == Head(queue)
  <1>1. /\ m \in EnableMessages /\ inbox' = Append(inbox, m) /\ UNCHANGED <<disposed, enabledHere>>
        /\ enabled' = [enabled EXCEPT ![m.who] = IF m.on THEN "yes" ELSE "no"]
        /\ enabled \in [Remotes \union {Local} -> {None, "yes", "no"}]
    BY FirstMessage DEF Types, TakesEnable, Takes, page, RingTypes
  <1>2. m \in ToPage /\ QueueTypes /\ inbox \in Seq(ToPage) /\ m.who \in Remotes \union {Local} /\ m.on \in BOOLEAN /\ m.kind = "enable"
    BY <1>1 DEF ToPage, Types, QueueTypes, EnableMessages
  <1> SUFFICES ASSUME NEW on \in BOOLEAN, on <=> enabled'[Local] = "yes" PROVE Switched(on)'
    BY DEF SwitchArrives
  <1>3. CASE m.who = Local
    <2> DEFINE S == LocalEnables(BOOLEAN)  G == LocalEnables({on})
    <2>1. m \in G
      BY <1>1, <1>3, <1>2 DEF EnableMessages, LocalEnables
    <2> HIDE DEF m, S, G
    <2> QED
      BY <1>1, <1>2, <2>1, AppendedLast DEF Switched, S, G
  <1>4. CASE m.who # Local
    <2> HIDE DEF m
    <2> QED
      BY <1>1, <1>2, OthersSwitchNothing, <1>4 DEF LocalEnables, SwitchArrives
  <1> QED
    BY <1>3, <1>4

\* Only enable messages turn encryption on or off in the worker.
LEMMA EnabledStays ==
  ASSUME [Next]_vars, ~TakesEnable
  PROVE  enabled' = enabled
  <1>1. CASE WorkerTakes
    BY <1>1 DEF WorkerTakes, TakesSetKey, TakesRatchetRequest, TakesEncryptData, TakesDecryptData, TakesDecode, TakesUpdateCodec,
                TakesRemoveTransform, TakesEncode
  <1>2. ASSUME NEW h, NEW i, RatchetLooksAhead(h, i) \/ RatchetDerives(h, i) \/ RatchetSets(h, i) PROVE enabled' = enabled
    BY <1>2 DEF RatchetLooksAhead, RatchetDerives, RatchetSets
  <1>3. ASSUME NEW r, FrameDecrypted(r) \/ FrameNotDecrypted(r) \/ FrameGivenUp(r) PROVE enabled' = enabled
    BY <1>3 DEF FrameDecrypted, FrameNotDecrypted, FrameGivenUp
  <1>4. ASSUME NEW c, WatchdogFires(c) PROVE enabled' = enabled
    BY <1>4 DEF WatchdogFires
  <1>5. ASSUME NEW r, NEW again, PipeEnds(r, again) PROVE enabled' = enabled
    BY <1>5 DEF PipeEnds
  <1>6. ASSUME NEW r, NEW i, NEW k, NEW n, FrameArrives(r, i, k, n) PROVE enabled' = enabled
    BY <1>6 DEF FrameArrives
  <1>7. CASE FrameSent
    BY <1>7 DEF FrameSent
  <1> QED
    BY <1>1, <1>2, <1>3, <1>4, <1>5, <1>6, <1>7, WorkerIsLeft
      DEF Next, WorkerGoesOn, Environment, worker, SetKey, DataEncrypted, DataDecrypted

\* The manager knows whether the worker encrypts, or will hear of it.
LEMMA SwitchStillArrives ==
  ASSUME Types, SwitchArrives, [Next]_vars
  PROVE  SwitchArrives'
  <1>1. QueueTypes /\ RingTypes
    BY DEF Types
  <1>2. ASSUME ~TakesEnable, \A on \in BOOLEAN : Switched(on) => Switched(on)' PROVE SwitchArrives'
    BY <1>2, EnabledStays DEF SwitchArrives
  <1>3. CASE (WorkerTakes \/ WorkerGoesOn \/ Environment \/ UNCHANGED vars) /\ ~TakesEnable
    <2>1. UNCHANGED <<disposed, enabledHere>>
      BY <1>3, PageIsLeft DEF page
    <2>2. inbox' = inbox \/ \E m \in ToPage : m \notin LocalEnables(BOOLEAN) /\ inbox' = Append(inbox, m)
      <3>1. ASSUME NEW a \in Handlers, NEW b \in Indices, NEW k, k.key \in Nat, k.step \in Nat, Reports(a, b, k)
            PROVE  inbox' = inbox \/ \E m \in ReportMessages : inbox' = Append(inbox, m)
        BY <1>1, <3>1, ReportIs DEF ReportsOf, ReportMessages
      <3>2. ASSUME NEW a \in Handlers, NEW b \in Indices, RatchetSets(a, b)
            PROVE  inbox' = inbox \/ \E m \in ReportMessages : inbox' = Append(inbox, m)
        <4> DEFINE k == ratchets[a][b]
        <4> HIDE DEF k
        <4> QED
          BY <3>1, <3>2, RatchetSetsDoes DEF Ratchet
      <3>3. ASSUME NEW r \in Receivers, FrameDecrypted(r)
            PROVE  inbox' = inbox \/ \E m \in ReportMessages : inbox' = Append(inbox, m)
        <4> DEFINE f == frame[r]  a == f.h  b == f.idx  k == f.try
        <4>1. f \in Frame /\ a \in Handlers /\ b \in Indices /\ (inbox' = inbox \/ Reports(a, b, k))
          BY <3>3, DecryptedDoes
        <4>2. k.key \in Nat /\ k.step \in Nat
          BY <4>1 DEF Frame, Slots
        <4> HIDE DEF f, a, b, k
        <4> QED
          BY <3>1, <4>1, <4>2
      <3> QED
        BY <1>3, <3>2, <3>3, WorkerTells DEF AnswerMessages, ReportMessages, ToPage, LocalEnables
    <2>3. ASSUME NEW on \in BOOLEAN, Switched(on) PROVE Switched(on)'
      BY <2>1, <2>3, <1>1, OthersSwitchNothing, <2>2 DEF Switched
    <2> QED
      BY <1>2, <1>3, <2>3
  <1>4. CASE AppActs
    <2>1. UNCHANGED <<inbox, enabledHere>> /\ (disposed' = disposed \/ disposed')
      <3>1. CASE SignalConnected \/ HandleSender \/ Dispose \/ \E on \in BOOLEAN : SetE2EEEnabled(on)
        BY <3>1 DEF SignalConnected, HandleSender, Dispose, SetE2EEEnabled, page
      <3>2. ASSUME NEW id, NEW x, Asks(id, x) PROVE UNCHANGED <<inbox, enabledHere, disposed>>
        BY <3>2 DEF Asks
      <3> QED
        BY <1>4, <3>1, <3>2
          DEF AppActs, EncryptData, HandleEncryptedData, RatchetKey, OnSetEncryptionKey, page,
              TrackPublished, TrackUnsubscribed, HandleReceiver
    <2>2. ~TakesEnable
      BY <1>1, FirstMessage, <2>1, AppendProperties, LenProperties DEF TakesEnable, Takes, QueueTypes, ToPage
    <2> QED
      BY <1>2, <2>2, <2>1 DEF Switched
  <1>5. CASE PageHears
    <2> DEFINE m == Head(inbox)
    <2>1. /\ inbox # <<>> /\ inbox' = Tail(inbox) /\ disposed' = disposed
          /\ \/ m.kind # "enable" /\ enabledHere' = enabledHere
             \/ m.kind = "enable" /\ enabledHere' = (IF m.who = Local THEN m.on ELSE enabledHere)
             \/ disposed
      BY <1>5 DEF PageHears, HearsEnable, HearsRatchet, HearsAnswer, HearsNothing, Hears, page
    <2>2. ~TakesEnable
      BY <1>1, FirstMessage, <2>1, AppendProperties, HeadTailProperties, LenProperties
        DEF TakesEnable, Takes, QueueTypes, ToPage
    <2>3. ASSUME NEW on \in BOOLEAN, Switched(on) PROVE Switched(on)'
      <3> DEFINE S == LocalEnables(BOOLEAN)  G == LocalEnables({on})
      <3>1. m \in ToPage /\ inbox \in Seq(ToPage)
        BY <1>1, <2>1, HeadTailProperties DEF QueueTypes
      <3>2. m \in G => enabledHere' = on \/ disposed
        BY <2>1 DEF LocalEnables
      <3> HIDE DEF m, S, G
      <3>3. /\ NoneIn(inbox, S) => NoneIn(Tail(inbox), S) /\ m \notin S
            /\ LastIn(inbox, S, G) => LastIn(Tail(inbox), S, G) \/ (NoneIn(Tail(inbox), S) /\ m \in G)
        BY <2>1, <3>1, TailLast DEF m
      <3> QED
        BY <2>1, <2>3, <3>2, <3>3, <3>1
          DEF Switched, S, G, ToPage, ReportMessages, AnswerMessages, EnableMessages, LocalEnables
    <2> QED
      BY <1>2, <2>2, <2>3
  <1> QED
    BY <1>3, <1>4, <1>5, TakenIsSwitched DEF Next

-----------------------------------------------------------------------------
(* The invariant, and what follows from it. *)

\* At first the worker does not encrypt: who does publishes a track, and all of these are of others.
LEMMA FirstSwitch ==
  ASSUME Init
  PROVE  SwitchArrives
  <1> DEFINE Ready == [track : Tracks, receiver : Receivers]
  <1>1. PICK s \in Sessions :
          LET up == {e.track : e \in Elements(s.ready)} IN
          /\ enabled = [p \in Remotes \union {Local} |-> IF \E t \in up : Owner[t] = p THEN "yes" ELSE None]
          /\ enabledHere = FALSE /\ inbox = <<>>
    BY DEF Init
  <1> DEFINE up == {e.track : e \in Elements(s.ready)}
  <1>2. \A c \in DOMAIN s.ready : s.ready[c] \in Ready
    <2>1. s.ready \in Seq(Ready)
      BY SessionsAssumption
    <2> HIDE DEF Ready
    <2> QED
      BY <2>1, LenProperties
  <1>3. enabled[Local] # "yes"
    <2> HIDE DEF up
    <2> QED
      BY <1>1, SettingsAssumption, <1>2 DEF None, up, Elements
  <1>4. ASSUME NEW x \in BOOLEAN, x <=> enabled[Local] = "yes" PROVE Switched(x)
    <2>1. NoneIn(inbox, LocalEnables(BOOLEAN))
      BY <1>1 DEF NoneIn
    <2> QED
      BY <2>1, <1>1, <1>3, <1>4 DEF Switched
  <1> QED
    BY <1>4 DEF SwitchArrives

\* So it is at first.
LEMMA InitFollowing ==
  ASSUME Init
  PROVE  Following
  <1>1. /\ keyInfos = <<>> /\ task = NoTask
        /\ ring = [h \in Handlers |-> [i \in Indices |-> NoSlot]]
        /\ ratchets = [h \in Handlers |-> [i \in Indices |-> NoRatchet]]
        /\ frame = [r \in Receivers |-> NoFrame]
    BY DEF Init
  <1>2. RunsHaveKeys /\ PacketIsRight
    BY <1>1 DEF RunsHaveKeys, RunIsRight, Runs, NoRatchet, None, PacketIsRight, NoTask
  <1>3. KeysArrive /\ KeyInfosDiffer
    BY <1>1 DEF KeysArrive, KeyInfosDiffer
  <1>4. ReportsArrive
    BY <1>1 DEF ReportsArrive, NoSlot
  <1> QED
    BY <1>2, <1>3, <1>4, InitTypes, FirstSwitch, <1>1 DEF Following, FramesAreRight, NoFrame, FrameIsRight

\* So it stays.
LEMMA FollowingStays ==
  ASSUME Following, [Next]_vars
  PROVE  Following'
  BY TypesKept, FramesStayRight, RunsKeepKeys, PacketStaysRight, KeysStillArrive, KeyInfosStayDifferent,
     ReportsStillArrive, SwitchStillArrives DEF Following

\* The invariant of all that is proved here.
LEMMA FollowingHolds == Spec => []Following
  BY InitFollowing, FollowingStays, PTL DEF Spec

\* The types say as much as the model's own type invariant.
LEMMA TypesSuffice ==
  ASSUME Types
  PROVE  TypeOK
  <1>1. \A c \in DOMAIN cryptors :
          /\ cryptors[c].track \in Tracks \union {None} /\ cryptors[c].who \in Remotes \union {None}
          /\ cryptors[c].keys \in Handlers /\ cryptors[c].streams \in Receivers \union {None}
    <2> TAKE c \in DOMAIN cryptors
    <2>1. cryptors[c] \in Cryptor
      BY DEF Types, CryptorTypes
    <2> QED
      BY <2>1 DEF Cryptor
  <1>2. task.kind \in {None, "setKey", "encrypt", "decrypt"}
    BY TaskIs DEF Types
  <1> QED
    BY <1>1, <1>2 DEF Types, PageTypes, RingTypes, CryptorTypes, SentTypes, TypeOK, FrameTypes, Frame

\* Nothing is running: no frame waits, and no packet.
LEMMA NobodyWaitsThen ==
  ASSUME Following
  PROVE  NobodyWaitsForever
  BY FrameIs, TaskIs
    DEF NobodyWaitsForever, Runs, None, Following, FramesAreRight, FrameIsRight, WaitsForRun, Types,
        PacketIsRight

\* With everything handled, what is on its way has arrived.
LEMMA QuietHasArrived ==
  ASSUME Following
  PROVE  QuietKeysAreInstalled /\ RatchetIsFollowed /\ RatchetsAreReported
  <1>1. \A S, G : ~LastIn(<<>>, S, G)
    BY DEF LastIn
  <1>2. QuietKeysAreInstalled
    <2> SUFFICES ASSUME Idle, \A h \in Handlers, i \in Indices : ratchets[h][i].pc \in {None, "rejected"}, NEW j \in DOMAIN keyInfos
                 PROVE  ring[Handler(keyInfos[j].who)][keyInfos[j].idx].key = keyInfos[j].key
                          \/ <<Handler(keyInfos[j].who), keyInfos[j].idx>> \in raced
      BY DEF QuietKeysAreInstalled
    <2>1. Installed(Handler(keyInfos[j].who), keyInfos[j].idx, keyInfos[j].key)
      BY <1>1 DEF Settled, TaskSets, NoTask, None, Following, KeysArrive, Arrives, Idle
    <2> QED
      BY <2>1 DEF Installed
  <1> QED
    BY <1>2, <1>1
      DEF Following, FramesAreRight, FrameIsRight, RatchetIsFollowed, RatchetsAreReported, ReportsArrive,
          Idle, Heard

\* Rings, frames and the key provider agree on the keys, whatever the participants, the tracks, the size of
\* the ring and the window, and however keys are set, ratcheted and lost (E2eeManager.ts, ParticipantKeyHandler.ts,
\* FrameCryptor.ts).
THEOREM KeysFollowed == Spec => []KeysAreFollowed
  <1>1. Following => KeysAreFollowed
    BY TypesSuffice, QuietHasArrived DEF Following, KeysAreFollowed
  <1> QED
    BY <1>1, FollowingHolds, PTL

\* No frame and no packet waits for a ratchet when none runs: the promise that is shared wakes them all
\* (ParticipantKeyHandler.ts, ratchetKey).
THEOREM NobodyWaits == Spec => []NobodyWaitsForever
  BY NobodyWaitsThen, FollowingHolds, PTL

\* No frame leaves in plain text while the manager counts as enabled, unless it was asked to disable or is
\* disposed of (E2eeManager.ts, onWorkerMessage; FrameCryptor.ts, encodeFunction).
THEOREM NoPlainText == Spec => NoPlainOnceEnabled
  <1>1. ASSUME Following, FrameSent, enabledHere, ~disposed, ~Disables PROVE sent' # "plain"
    <2>1. ASSUME enabled[Local] # "yes" PROVE FALSE
      BY <2>1, <1>1 DEF SwitchArrives, Following, LocalEnables, EnableMessage, Disables, Switched, LastIn
    <2> QED
      BY <1>1, <2>1 DEF FrameSent
  <1>2. Following => [FrameSent /\ enabledHere /\ ~disposed /\ ~Disables => sent' # "plain"]_vars
    BY <1>1
  <1> QED
    BY <1>2, FollowingHolds, PTL DEF NoPlainOnceEnabled
=============================================================================

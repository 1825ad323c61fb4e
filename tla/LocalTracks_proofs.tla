------------------------- MODULE LocalTracks_proofs -------------------------
(***************************************************************************)
(* Proofs about LocalTracks for every number of tasks, media and changes:  *)
(* Core, what every step keeps however the tasks interleave. The state has *)
(* its types, each lock's queue holds exactly the tasks that wait for it   *)
(* or hold it, a task is at a place of its own operation, and a track that *)
(* is still being created is alone. Then how a step changes the queues,    *)
(* and the first of what a track owes its application: what stops does so  *)
(* for good, and a muted track sends nothing.                              *)
(***************************************************************************)
EXTENDS LocalTracks, SequenceTheorems, TLAPS

(***************************************************************************)
(* The track.                                                              *)
(***************************************************************************)
Kinds == [camera : BOOLEAN, stopOnMute : BOOLEAN, mobile : BOOLEAN, processor : BOOLEAN]
Media == [device : Devices, live : BOOLEAN, enabled : BOOLEAN, silent : BOOLEAN, by : {"sdk", "user"}]
TrackRecs == [m : Nat, published : BOOLEAN, muted : BOOLEAN, paused : BOOLEAN, device : Devices \union {Unset},
              pendingDevice : BOOLEAN, stopped : BOOLEAN, user : BOOLEAN, processor : BOOLEAN, reacquire : BOOLEAN]
Ops == {"idle", "mute", "unmute", "device", "restart", "ended", "reacquire", "replace", "processor", "unprocess",
        "create", "quality", "refresh", "codec", "publish", "performance"}
Places == {"none", "mute", "change", "acquire", "process", "replaced", "resume", "clone", "sender", "dimensions",
           "init", "destroy", "install", "codec", "negotiate"}
Codecs == {"main", "backup"}
Calls == [op : Ops, at : Places, m : Nat, device : Devices \union {Unset, "exact", "ideal"}, codecs : SUBSET Codecs]
Locks == {"mute", "change", "sender"}
Histories == [heard : SUBSET Nat, lost : SUBSET Nat, wanted : Devices, failed : BOOLEAN, raced : BOOLEAN,
              dropped : BOOLEAN, bypassed : BOOLEAN, outrun : BOOLEAN, resized : BOOLEAN,
              missed : BOOLEAN, revived : BOOLEAN]

TMedia  == media \in Seq(Media) /\ kind \in Kinds
TTrack  == track \in TrackRecs /\ track.m <= Len(media)
TBackup == /\ backup \in [m : Nat, sender : BOOLEAN] /\ backup.m <= Len(media) /\ (backup.sender => backup.m # 0)
TSends  == /\ sends \in [main : Int, backup : Int, scaled : Devices, encoded : Devices]
           /\ sends.main \in Processed..Len(media) /\ sends.backup \in Processed..Len(media)
TLayers == /\ layers \in [main : {"all", "low", "off"}, backup : BOOLEAN, performance : BOOLEAN]
           /\ asked \in SUBSET Codecs
TFlags  == timers \in [mute : BOOLEAN, refresh : BOOLEAN] /\ muted \in BOOLEAN /\ hidden \in BOOLEAN /\ active \in Devices
THist   == history \in Histories /\ history.heard \subseteq 1..Len(media) /\ history.lost \subseteq 1..Len(media)
TTask   == task \in [Tasks -> Calls] /\ (\A i \in Tasks : task[i].m <= Len(media))
TypeInv == TMedia /\ TTrack /\ TBackup /\ TSends /\ TLayers /\ TFlags /\ THist /\ TTask

(* Where an operation may be, and which locks it waits for or holds. *)
InChange == {"acquire", "process", "replaced", "resume", "init", "destroy", "install"}
Swapping == {"change", "acquire", "process", "replaced", "resume"}
Later    == {"sender", "dimensions"}

Legal(op, at) ==
  \/ op = "idle" /\ at = "none"
  \/ op = "mute" /\ at = "mute"
  \/ op = "unmute" /\ at \in Swapping \union {"mute"}
  \/ op \in {"device", "restart", "ended"} /\ at \in Swapping \union Later \union {"clone"}
  \/ op = "reacquire" /\ at \in Swapping
  \/ op = "replace" /\ at \in (Swapping \ {"acquire"}) \union Later
  \/ op = "processor" /\ at \in {"change", "init", "destroy", "replaced", "resume", "install"} \union Later
  \/ op = "unprocess" /\ at \in {"change", "destroy", "replaced", "resume"} \union Later
  \/ op = "create" /\ at \in {"acquire", "init"}
  \/ op \in {"quality", "refresh"} /\ at \in {"sender", "codec"}
  \/ op \in {"codec", "performance"} /\ at = "sender"
  \/ op = "publish" /\ at = "negotiate"

ChangeTask(t) == t.op # "create" /\ t.at \in InChange
Holds(l, t) ==
  \/ l = "mute" /\ t.op = "unmute" /\ t.at # "mute"
  \/ l = "change" /\ ChangeTask(t)
  \/ l = "sender" /\ t.at = "dimensions"
In(l, t) == t.at = l \/ Holds(l, t)

Queue(q, tk, l) ==
  /\ q \in Seq(Tasks)
  /\ \A j, k \in 1..Len(q) : q[j] = q[k] => j = k
  /\ \A j \in 1..Len(q) : In(l, tk[q[j]]) /\ (j > 1 => tk[q[j]].at = l)
  /\ \A i \in Tasks : In(l, tk[i]) => \E j \in 1..Len(q) : q[j] = i
Queues == DOMAIN lock = Locks /\ \A l \in Locks : Queue(lock[l], task, l)

LegalTasks == \A i \in Tasks : Legal(task[i].op, task[i].at)
DeviceOK(t) ==
  /\ (t.op \in Restarts /\ t.at \in Swapping \ {"change"}) => t.device \in Devices
  /\ FallsBack(t) /\ t.at \in {"change", "acquire", "process", "replaced", "resume"} => t.device = Fallback
  /\ (t.op = "replace" /\ t.at = "change") => t.device \in Devices
  /\ (t.op \in Restarts /\ ~FallsBack(t) /\ t.at \in {"mute", "change"}) => t.device = Unset
MediaOK(t) ==
  /\ t.at \in {"process", "replaced", "resume", "clone"} => t.m # 0
  /\ t.op = "replace" /\ t.at \in {"process", "replaced", "resume"} => track.user
  /\ t.op \in {"unprocess", "processor"} /\ t.at = "replaced" => t.m = track.m
  /\ t.at = "resume" => t.m = track.m
  /\ t.op = "unmute" /\ t.at # "mute" => track.muted
TasksOK == \A i \in Tasks : DeviceOK(task[i]) /\ MediaOK(task[i])

Newborn ==
  /\ track.m # 0 /\ track = [NewTrack(track.m, Fallback) EXCEPT !.published = FALSE]
  /\ media[track.m].device = Fallback /\ media[track.m].enabled
  /\ IF media[track.m].live THEN track.m \in history.heard ELSE track.m \in history.lost
CreateOK ==
  \A i \in Tasks : task[i].op = "create" =>
    /\ \A j \in Tasks : j # i => task[j].op = "idle"
    /\ ~muted /\ ~hidden /\ ~timers.refresh /\ backup = NoBackup /\ active = Fallback /\ history.wanted = Fallback
    /\ sends.scaled = Fallback /\ asked = {"main"} /\ layers.main = "all" /\ task[i].m = 0
    /\ task[i].at = "acquire" => track = NoTrack
    /\ task[i].at = "init" => Newborn

TrackOK ==
  /\ track.m = 0 => track = NoTrack
  /\ track.m # 0 => track.device \in Devices
  /\ track.published => ~track.stopped
  /\ \A i \in Tasks : task[i].op \notin {"idle", "create"} => track.m # 0
  /\ timers.refresh => track.m # 0
  /\ hidden => track.m # 0 /\ kind.mobile

Core == TypeInv /\ Queues /\ LegalTasks /\ TasksOK /\ CreateOK /\ TrackOK

(* What the helpers make of the media. *)
Kept(md, md2) ==
  /\ md2 \in Seq(Media) /\ Len(md) <= Len(md2)
  /\ \A m \in 1..Len(md) : /\ md2[m].device = md[m].device /\ md2[m].by = md[m].by
                           /\ md2[m].live => md[m].live

LEMMA KeptSame == ASSUME media \in Seq(Media) PROVE Kept(media, media)
BY DEF Kept

LEMMA EndedFacts ==
  ASSUME NEW md \in Seq(Media), NEW S
  PROVE  /\ Kept(md, Ended(md, S)) /\ Len(Ended(md, S)) = Len(md)
         /\ \A m \in 1..Len(md) : /\ Ended(md, S)[m].enabled = md[m].enabled
                                  /\ Ended(md, S)[m].live <=> md[m].live /\ m \notin S
<1> DEFINE e == [m \in DOMAIN md |-> IF m \in S THEN [md[m] EXCEPT !.live = FALSE] ELSE md[m]]
<1>1. Len(md) \in Nat /\ DOMAIN md = 1..Len(md) /\ \A m \in 1..Len(md) : md[m] \in Media
  OBVIOUS
<1>2. \A m \in 1..Len(md) : /\ e[m] \in Media /\ e[m].device = md[m].device /\ e[m].by = md[m].by
                            /\ e[m].enabled = md[m].enabled /\ (e[m].live <=> md[m].live /\ m \notin S)
  BY <1>1 DEF Media
<1>3. e \in Seq(Media) /\ Len(e) = Len(md)
  BY <1>1, <1>2
<1>4. Ended(md, S) = e
  BY DEF Ended
<1> HIDE DEF e
<1> QED BY <1>1, <1>2, <1>3, <1>4 DEF Kept

LEMMA EnabledFacts ==
  ASSUME NEW md \in Seq(Media), NEW S, NEW v \in BOOLEAN
  PROVE  /\ Kept(md, Enabled(md, S, v)) /\ Len(Enabled(md, S, v)) = Len(md)
         /\ \A m \in 1..Len(md) : /\ Enabled(md, S, v)[m].live = md[m].live
                                  /\ Enabled(md, S, v)[m].enabled = IF m \in S THEN v ELSE md[m].enabled
<1> DEFINE e == [m \in DOMAIN md |-> IF m \in S THEN [md[m] EXCEPT !.enabled = v] ELSE md[m]]
<1>1. Len(md) \in Nat /\ DOMAIN md = 1..Len(md) /\ \A m \in 1..Len(md) : md[m] \in Media
  OBVIOUS
<1>2. \A m \in 1..Len(md) : /\ e[m] \in Media /\ e[m].device = md[m].device /\ e[m].by = md[m].by
                            /\ e[m].live = md[m].live /\ e[m].enabled = IF m \in S THEN v ELSE md[m].enabled
  BY <1>1 DEF Media
<1>3. e \in Seq(Media) /\ Len(e) = Len(md)
  BY <1>1, <1>2
<1>4. Enabled(md, S, v) = e
  BY DEF Enabled
<1> HIDE DEF e
<1> QED BY <1>1, <1>2, <1>3, <1>4 DEF Kept

LEMMA AppendFacts ==
  ASSUME NEW md \in Seq(Media), NEW x \in Media
  PROVE  /\ Kept(md, Append(md, x)) /\ Len(Append(md, x)) = Len(md) + 1
         /\ Append(md, x)[Len(md) + 1] = x
         /\ \A m \in 1..Len(md) : Append(md, x)[m] = md[m]
  BY DEF Kept

LEMMA KeptTwice ==
  ASSUME NEW a \in Seq(Media), NEW b, NEW c, Kept(a, b), Kept(b, c)
  PROVE  Kept(a, c)
  BY DEF Kept

(* One place of a queue changes. *)
LEMMA QueueStep ==
  ASSUME NEW l \in Locks, NEW q, NEW tk \in [Tasks -> Calls], NEW i \in Tasks, NEW t \in Calls,
         Queue(q, tk, l), NEW f \in BOOLEAN,
         f => q # <<>> /\ Head(q) = i,
         t.at = l => f \/ ~In(l, tk[i]),
         In(l, t) /\ t.at # l => ~f /\ q # <<>> /\ Head(q) = i,
         ~In(l, t) => f \/ ~In(l, tk[i])
  PROVE  LET r == IF f THEN Tail(q) ELSE q
         IN  Queue(IF t.at = l THEN (IF In(l, tk[i]) /\ ~f THEN r ELSE Append(r, i)) ELSE r, [tk EXCEPT ![i] = t], l)
<1> DEFINE r == IF f THEN Tail(q) ELSE q
           tk2 == [tk EXCEPT ![i] = t]
<1>1. q \in Seq(Tasks) /\ Len(q) \in Nat
  BY DEF Queue
<1>2. r \in Seq(Tasks) /\ Len(r) \in Nat
  BY <1>1, HeadTailProperties
<1>3. tk2[i] = t /\ \A j \in Tasks : j # i => tk2[j] = tk[j]
  OBVIOUS
<1>4. ASSUME f
      PROVE  /\ Len(r) = Len(q) - 1 /\ \A j \in 1..Len(r) : r[j] = q[j + 1]
             /\ \A j \in 1..Len(r) : r[j] # i
             /\ \A k \in 1..Len(q) : k # 1 => \E j \in 1..Len(r) : r[j] = q[k]
             /\ q[1] = i
  <2>1. Len(q) >= 1 /\ q[1] = i
    BY <1>1, <1>4, EmptySeq
  <2>2. Len(r) = Len(q) - 1 /\ \A j \in 1..Len(r) : r[j] = q[j + 1]
    BY <1>1, <1>4, <2>1, HeadTailProperties
  <2> HIDE DEF r
  <2>3. ASSUME NEW k \in 1..Len(q), k # 1 PROVE \E j \in 1..Len(r) : r[j] = q[k]
    <3>1. k - 1 \in 1..Len(r) /\ r[k - 1] = q[k]
      BY <1>1, <1>2, <2>1, <2>2, <2>3
    <3> QED BY <3>1
  <2> QED
    BY <2>1, <2>2, <2>3, <1>1, <1>2 DEF Queue
<1>5. ~f => r = q
  OBVIOUS
<1> HIDE DEF r, tk2
<1>6. \A j, k \in 1..Len(r) : r[j] = r[k] => j = k
  <2>1. CASE f
    <3> SUFFICES ASSUME NEW j \in 1..Len(r), NEW k \in 1..Len(r), r[j] = r[k] PROVE j = k
      OBVIOUS
    <3>1. j + 1 \in 1..Len(q) /\ k + 1 \in 1..Len(q) /\ q[j + 1] = q[k + 1]
      BY <1>1, <1>2, <1>4, <2>1
    <3>2. j + 1 = k + 1
      BY <3>1 DEF Queue
    <3> QED BY <3>2, <1>2
  <2> QED
    BY <2>1, <1>5 DEF Queue
\* In what is left of the queue, all others are as they were.
<1>7. \A j \in 1..Len(r) : r[j] # i => r[j] \in Tasks /\ In(l, tk2[r[j]]) /\ (j > 1 => tk2[r[j]].at = l)
  <2> SUFFICES ASSUME NEW j \in 1..Len(r), r[j] # i
               PROVE  r[j] \in Tasks /\ In(l, tk2[r[j]]) /\ (j > 1 => tk2[r[j]].at = l)
    OBVIOUS
  <2>1. r[j] \in Tasks
    BY <1>2
  <2>2. tk2[r[j]] = tk[r[j]]
    BY <1>3, <2>1
  <2>3. CASE f
    BY <1>1, <1>2, <1>4, <2>3, <2>1, <2>2 DEF Queue
  <2>4. CASE ~f
    BY <1>5, <2>4, <2>1, <2>2 DEF Queue
  <2> QED BY <2>3, <2>4
<1>8. \A k \in Tasks : k # i /\ In(l, tk2[k]) => \E j \in 1..Len(r) : r[j] = k
  BY <1>3, <1>4, <1>5 DEF Queue
<1>9. CASE t.at = l /\ ~(In(l, tk[i]) /\ ~f)
  <2>1. \A j \in 1..Len(r) : r[j] # i
    BY <1>9, <1>5, <1>4 DEF Queue
  <2> DEFINE s == Append(r, i)
  <2>2. s \in Seq(Tasks) /\ Len(s) = Len(r) + 1 /\ s[Len(r) + 1] = i /\ \A j \in 1..Len(r) : s[j] = r[j]
    BY <1>2, AppendProperties
  <2>3. \A j \in 1..Len(s) : j = Len(r) + 1 \/ j \in 1..Len(r)
    BY <1>2, <2>2
  <2> HIDE DEF s
  <2>4. \A j, k \in 1..Len(s) : s[j] = s[k] => j = k
    BY <2>3, <1>6, <2>1, <2>2
  <2>5. \A j \in 1..Len(s) : In(l, tk2[s[j]]) /\ (j > 1 => tk2[s[j]].at = l)
    BY <1>3, <1>9, <2>2, <1>7, <2>1, <2>3 DEF In
  <2>6. \A k \in Tasks : In(l, tk2[k]) => \E j \in 1..Len(s) : s[j] = k
    BY <1>2, <2>2, <1>8
  <2>7. Queue(s, tk2, l)
    BY <2>2, <2>4, <2>5, <2>6 DEF Queue
  <2> QED BY <1>9, <2>7 DEF r, tk2, s
<1>10. CASE ~(t.at = l /\ ~(In(l, tk[i]) /\ ~f))
  <2>1. \A j \in 1..Len(r) : In(l, tk2[r[j]]) /\ (j > 1 => tk2[r[j]].at = l)
    BY <1>3, <1>7, <1>4, <1>5, <1>10, <1>1, EmptySeq DEF Queue
  <2>2. \A k \in Tasks : In(l, tk2[k]) => \E j \in 1..Len(r) : r[j] = k
    <3> SUFFICES ASSUME NEW k \in Tasks, In(l, tk2[k]) PROVE \E j \in 1..Len(r) : r[j] = k
      OBVIOUS
    <3>1. CASE k = i
      <4>1. In(l, t) /\ ~f
        BY <1>3, <1>10, <3>1
      <4>2. In(l, tk[i])
        BY <1>1, <4>1, EmptySeq, <1>10 DEF Queue
      <4> QED BY <1>5, <3>1, <4>1, <4>2 DEF Queue
    <3> QED
      BY <3>1, <1>8
  <2>3. Queue(r, tk2, l)
    BY <1>2, <1>6, <2>1, <2>2 DEF Queue
  <2> QED
    BY <2>3, <1>10 DEF r, tk2
<1> QED BY <1>9, <1>10

(* A lock has one holder, the first of its queue. *)
LEMMA HolderIsFirst ==
  ASSUME Queues, NEW l \in Locks, NEW i \in Tasks, Holds(l, task[i]), task[i].at # l
  PROVE  lock[l] # <<>> /\ Head(lock[l]) = i
  BY DEF Queues, Queue, In

LEMMA EntererIsFirst ==
  ASSUME Queues, NEW l \in Locks, NEW i \in Tasks, Enters(i, l)
  PROVE  lock[l] # <<>> /\ Head(lock[l]) = i
  BY DEF Queues, Queue, In, Enters

LEMMA ChangeIsExclusive ==
  ASSUME Queues, NEW i \in Tasks, NEW j \in Tasks, ChangeTask(task[i]),
         ChangeTask(task[j]) \/ Enters(j, "change")
  PROVE  i = j
  BY HolderIsFirst, EntererIsFirst DEF Locks, ChangeTask, InChange, Holds

LEMMA MuteIsExclusive ==
  ASSUME Queues, NEW i \in Tasks, NEW j \in Tasks, task[i].op = "unmute", task[i].at # "mute",
         (task[j].op = "unmute" /\ task[j].at # "mute") \/ Enters(j, "mute")
  PROVE  i = j
  BY HolderIsFirst, EntererIsFirst DEF Locks, Holds

LEMMA InChangeIsChanging ==
  ASSUME Queues, NEW i \in Tasks, In("change", task[i])
  PROVE  Changing
  BY DEF Queues, Queue, Locks, Changing

(* The queues when one task moves. *)
MovesWell(i, frees, t) ==
  \A l \in Locks :
    /\ l \in frees => lock[l] # <<>> /\ Head(lock[l]) = i
    /\ t.at = l => l \in frees \/ ~In(l, task[i])
    /\ In(l, t) /\ t.at # l => l \notin frees /\ lock[l] # <<>> /\ Head(lock[l]) = i
    /\ ~In(l, t) => l \in frees \/ ~In(l, task[i])

LEMMA GoesOnQueues ==
  ASSUME TypeInv, Queues, NEW i \in Tasks, NEW frees, NEW t \in Calls, MovesWell(i, frees, t), GoesOn(i, frees, t)
  PROVE  task' = [task EXCEPT ![i] = t] /\ Queues'
<1>1. task' = [task EXCEPT ![i] = t]
  BY DEF GoesOn
<1>2. lock' = [l \in DOMAIN lock |-> LET rest == IF l \in frees THEN Tail(lock[l]) ELSE lock[l]
                                     IN IF l = t.at THEN Append(rest, i) ELSE rest]
  BY DEF GoesOn
<1>3. ASSUME NEW l \in Locks PROVE Queue(lock'[l], task', l)
  <2> DEFINE f == l \in frees
             rest == IF f THEN Tail(lock[l]) ELSE lock[l]
  <2>1. lock'[l] = IF t.at = l THEN Append(rest, i) ELSE rest
    BY <1>2 DEF Queues
  <2>2. /\ Queue(lock[l], task, l) /\ f \in BOOLEAN
        /\ f => lock[l] # <<>> /\ Head(lock[l]) = i
        /\ t.at = l => f \/ ~In(l, task[i])
        /\ In(l, t) /\ t.at # l => ~f /\ lock[l] # <<>> /\ Head(lock[l]) = i
        /\ ~In(l, t) => f \/ ~In(l, task[i])
    BY DEF Queues, MovesWell
  <2> HIDE DEF f
  <2>3. Queue(IF t.at = l THEN (IF In(l, task[i]) /\ ~f THEN rest ELSE Append(rest, i)) ELSE rest,
              [task EXCEPT ![i] = t], l)
    BY <2>2, QueueStep DEF TypeInv, TTask
  <2>4. (IF t.at = l THEN (IF In(l, task[i]) /\ ~f THEN rest ELSE Append(rest, i)) ELSE rest) = lock'[l]
    BY <2>1, <2>2
  <2> QED BY <1>1, <2>3, <2>4
<1> QED
  BY <1>1, <1>3, <1>2 DEF Queues

LEMMA StaysQueues ==
  ASSUME TypeInv, Queues, NEW i \in Tasks, NEW t \in Calls, MovesWell(i, {}, t), t.at \notin Locks,
         task' = [task EXCEPT ![i] = t], lock' = lock
  PROVE  Queues'
  BY QueueStep DEF Queues, MovesWell, TypeInv, TTask

LEMMA BeginsQueues ==
  ASSUME TypeInv, Queues, LegalTasks, NEW t \in Calls, \A l \in Locks : ~Holds(l, t), Begins(t)
  PROVE  \E i \in Tasks : task[i].op = "idle" /\ task' = [task EXCEPT ![i] = t] /\ Queues'
<1> DEFINE i == CHOOSE k \in Spare : TRUE
<1>1. Spare # {} /\ task' = [task EXCEPT ![i] = t]
      /\ lock' = [l \in DOMAIN lock |-> IF l = t.at THEN Append(lock[l], i) ELSE lock[l]]
  BY DEF Begins
<1>2. i \in Spare
  BY <1>1
<1> HIDE DEF i
<1>3. i \in Tasks /\ task[i].op = "idle"
  BY <1>2 DEF Spare
<1>4. MovesWell(i, {}, t)
  BY <1>3 DEF MovesWell, In, Holds, Locks, ChangeTask, InChange, LegalTasks, Legal
<1> QED
  BY <1>1, <1>3, <1>4, GoesOnQueues DEF GoesOn

(* What a step keeps. *)
LEMMA TypesKept ==
  ASSUME TypeInv, Kept(media, media'), kind' = kind,
         track' = track \/ TTrack', backup' = backup \/ TBackup', sends' = sends \/ TSends',
         UNCHANGED <<layers, asked>> \/ TLayers', UNCHANGED <<timers, muted, hidden, active>> \/ TFlags',
         history' = history \/ THist', task' = task \/ TTask'
  PROVE  TypeInv'
<1>1. Len(media) \in Nat /\ Len(media') \in Nat /\ Len(media) <= Len(media') /\ media' \in Seq(Media)
  BY DEF TypeInv, TMedia, Kept
<1>2. TTrack'
  BY <1>1 DEF TypeInv, TTrack, TrackRecs
<1>3. TBackup'
  BY <1>1 DEF TypeInv, TBackup
<1>4. TSends'
  BY <1>1 DEF TypeInv, TSends, Processed
<1>5. TLayers' /\ TFlags'
  BY DEF TypeInv, TLayers, TFlags
<1>6. THist'
  BY <1>1 DEF TypeInv, THist
<1>7. TTask'
  BY <1>1 DEF TypeInv, TTask, Calls
<1> QED
  BY <1>2, <1>3, <1>4, <1>5, <1>6, <1>7, <1>1 DEF TypeInv, TMedia

TaskCore == /\ TTask /\ Queues /\ LegalTasks /\ TasksOK /\ CreateOK
            /\ \A i \in Tasks : task[i].op \notin {"idle", "create"} => track.m # 0

\* What the other tasks know of the track.
TrackKeeps == /\ Kept(media, media') /\ kind' = kind
              /\ track'.m = track.m /\ (track.user => track'.user) /\ (track.muted => track'.muted)

NobodyCreates == \A i \in Tasks : task[i].op # "create"

LEMMA NotCreating ==
  ASSUME Core, track.published \/ hidden \/ timers.refresh \/ (\E i \in Tasks : task[i].op \notin {"idle", "create"})
  PROVE  NobodyCreates
  BY DEF NobodyCreates, Core, CreateOK, LegalTasks, Legal, NoTrack, NewTrack, Newborn

\* It may change also if the other tasks do not depend on what does.
TrackMoves(i) == /\ Kept(media, media') /\ kind' = kind /\ (track.m # 0 => track'.m # 0)
                 /\ \A j \in Tasks : j # i => MediaOK(task[j])'

LEMMA KeepsMoves ==
  ASSUME Core, TrackKeeps, NEW i \in Tasks, NEW t, task' = [task EXCEPT ![i] = t]
  PROVE  TrackMoves(i)
  BY DEF Core, TypeInv, TTask, TasksOK, MediaOK, TrackKeeps, TrackMoves

LEMMA TaskMoves ==
  ASSUME Core, NobodyCreates, NEW i \in Tasks, TrackMoves(i), NEW t \in Calls, task' = [task EXCEPT ![i] = t], Queues',
         Legal(t.op, t.at), DeviceOK(t), MediaOK(t)', t.m <= Len(media'), t.op # "create",
         t.op # "idle" => track.m # 0
  PROVE  TaskCore'
<1>1. task'[i] = t /\ \A j \in Tasks : j # i => task'[j] = task[j]
  BY DEF Core, TypeInv, TTask
<1>2. LegalTasks'
  BY <1>1 DEF LegalTasks, Core
<1>3. TasksOK'
  BY <1>1 DEF TasksOK, Core, TrackMoves, DeviceOK, FallsBack, MediaOK
<1>4. CreateOK'
  BY <1>1 DEF CreateOK, NobodyCreates
<1>5. \A j \in Tasks : task'[j].op \notin {"idle", "create"} => track'.m # 0
  BY <1>1 DEF Core, TrackOK, TrackMoves
<1> QED
  BY <1>2, <1>3, <1>4, <1>5, <1>1 DEF TaskCore, Core, TypeInv, TTask, Calls, TrackMoves, Kept, TMedia

LEMMA TasksStay ==
  ASSUME Core, NobodyCreates, TrackKeeps, UNCHANGED tasks
  PROVE  TaskCore'
<1>1. Queues' /\ LegalTasks'
  BY DEF Core, Queues, LegalTasks, tasks
<1>2. TasksOK'
  BY DEF TasksOK, Core, tasks, DeviceOK, FallsBack, MediaOK, TrackKeeps
<1>3. CreateOK'
  BY DEF CreateOK, NobodyCreates, tasks
<1>4. \A j \in Tasks : task'[j].op \notin {"idle", "create"} => track'.m # 0
  BY DEF Core, TrackOK, TrackKeeps, tasks
<1> QED
  BY <1>1, <1>2, <1>3, <1>4 DEF TaskCore, Core, TypeInv, TTask, Calls, TrackKeeps, Kept, TMedia, tasks

\* An operation that begins.
Fresh(t) ==
  /\ t \in Calls /\ Legal(t.op, t.at) /\ DeviceOK(t) /\ t.m = 0
  /\ t.op \notin {"idle", "create"} /\ t.at \in {"mute", "change", "sender", "codec"}
  /\ t.op = "unmute" => t.at = "mute"

LEMMA TaskBegins ==
  ASSUME Core, TrackKeeps, NEW t, Fresh(t), Begins(t), track.published \/ hidden \/ timers.refresh
  PROVE  /\ \E i \in Tasks : task[i].op = "idle" /\ task' = [task EXCEPT ![i] = t]
         /\ TaskCore' /\ NobodyCreates
<1>1. NobodyCreates
  BY NotCreating
<1>2. TypeInv /\ Queues /\ LegalTasks /\ t \in Calls
  BY DEF Core, Fresh
<1>3. PICK i \in Tasks : task[i].op = "idle" /\ task' = [task EXCEPT ![i] = t] /\ Queues'
  BY <1>2, BeginsQueues DEF Fresh, Holds, Locks, ChangeTask, InChange
<1>4. t.m <= Len(media') /\ Legal(t.op, t.at) /\ DeviceOK(t) /\ t.op # "create"
  BY DEF Fresh, TrackKeeps, Kept
<1>5. TaskCore'
  BY <1>1, <1>2, <1>3, <1>4, KeepsMoves, TaskMoves DEF Core, TrackOK, NoTrack, NewTrack, MediaOK, Fresh
<1> QED BY <1>1, <1>3, <1>5

\* An operation that goes on.
LEMMA TaskGoesOn ==
  ASSUME Core, NEW i \in Tasks, TrackKeeps \/ TrackMoves(i), NEW frees, NEW t \in Calls, task[i].op \notin {"idle", "create"},
         GoesOn(i, frees, t), MovesWell(i, frees, t),
         Legal(t.op, t.at), DeviceOK(t), MediaOK(t)', t.m <= Len(media'), t.op # "create"
  PROVE  task' = [task EXCEPT ![i] = t] /\ TaskCore' /\ NobodyCreates
  BY NotCreating, GoesOnQueues, KeepsMoves, TaskMoves DEF Core, TrackOK

LEMMA TaskStays ==
  ASSUME Core, NEW i \in Tasks, TrackKeeps \/ TrackMoves(i), NEW t \in Calls, task[i].op \notin {"idle", "create"},
         task' = [task EXCEPT ![i] = t], lock' = lock, MovesWell(i, {}, t), t.at \notin Locks,
         Legal(t.op, t.at), DeviceOK(t), MediaOK(t)', t.m <= Len(media'), t.op # "create"
  PROVE  TaskCore' /\ NobodyCreates
  BY NotCreating, StaysQueues, KeepsMoves, TaskMoves DEF Core, TrackOK

\* A call of one of these operations begins well.
LEMMA FreshCall ==
  ASSUME TypeInv, NEW op \in Ops, NEW at \in Places, Legal(op, at), op \notin {"idle", "create", "replace", "ended"},
         at \in {"mute", "change", "sender", "codec"}, op = "unmute" => at = "mute"
  PROVE  Fresh(Call(op, at)) /\ Call(op, at).op = op /\ Call(op, at).at = at
BY DEF Fresh, Call, Idle, Calls, DeviceOK, FallsBack, Restarts, Swapping

LEMMA IdleIsFine ==
  Idle \in Calls /\ Idle.op = "idle" /\ Idle.at = "none" /\ Idle.m = 0 /\ Legal("idle", "none") /\ DeviceOK(Idle)
    /\ MediaOK(Idle)' /\ \A l \in Locks : ~In(l, Idle)
BY DEF Idle, Calls, Ops, Places, Legal, DeviceOK, FallsBack, Restarts, MediaOK, In, Holds, Locks, ChangeTask, InChange

TrackRest ==
  /\ track.m = 0 => track = NoTrack
  /\ track.m # 0 => track.device \in Devices
  /\ track.published => ~track.stopped
  /\ timers.refresh => track.m # 0
  /\ hidden => track.m # 0 /\ kind.mobile

LEMMA CoreAgain ==
  ASSUME Core, TaskCore', Kept(media, media'), kind' = kind,
         track' = track \/ TTrack', backup' = backup \/ TBackup', sends' = sends \/ TSends',
         UNCHANGED <<layers, asked>> \/ TLayers', UNCHANGED <<timers, muted, hidden, active>> \/ TFlags',
         history' = history \/ THist', UNCHANGED <<track, timers, hidden>> \/ TrackRest'
  PROVE  Core'
  BY TypesKept DEF TrackRest, Core, TrackOK, TaskCore

LEMMA SameKeeps ==
  ASSUME Core, UNCHANGED <<kind, media, track>>
  PROVE  TrackKeeps
BY KeptSame DEF TrackKeeps, Core, TypeInv, TMedia

LEMMA BeginsCore ==
  ASSUME Core, NEW t, Fresh(t), Begins(t), track.published \/ timers.refresh,
         UNCHANGED <<kind, media, track, backup, sends, layers, muted, outside, history>>,
         asked' \in SUBSET Codecs, timers' \in {timers, [timers EXCEPT !.refresh = FALSE]}
  PROVE  Core' /\ \E i \in Tasks : task[i].op = "idle" /\ task' = [task EXCEPT ![i] = t]
<1>1. TrackKeeps
  BY SameKeeps
<1>2. TLayers'
  BY DEF Core, TypeInv, TLayers
<1>3. timers' \in [mute : BOOLEAN, refresh : BOOLEAN] /\ (timers'.refresh => timers.refresh)
  BY DEF Core, TypeInv, TFlags
<1>4. TFlags'
  BY <1>3 DEF Core, TypeInv, TFlags, outside
<1>5. TrackRest'
  BY <1>3 DEF Core, TrackOK, TrackRest, outside
<1> QED
  BY <1>1, <1>2, <1>4, <1>5, CoreAgain, TaskBegins DEF TrackKeeps

LEMMA AskedIsTyped == ASSUME Core, asked' = asked PROVE asked' \in SUBSET Codecs
BY DEF Core, TypeInv, TLayers

LEMMA BeginsMute == ASSUME Core, Mute PROVE Core' /\ \E i \in Tasks : task[i].op = "idle" /\ task' = [task EXCEPT ![i] = Call("mute", "mute")]
  BY FreshCall, BeginsCore, AskedIsTyped DEF Core, Ops, Places, Legal, Mute, sending, outside

LEMMA BeginsUnmute == ASSUME Core, Unmute PROVE Core' /\ \E i \in Tasks : task[i].op = "idle" /\ task' = [task EXCEPT ![i] = Call("unmute", "mute")]
  BY FreshCall, BeginsCore, AskedIsTyped DEF Core, Ops, Places, Legal, Unmute, sending, outside

LEMMA BeginsProcessor == ASSUME Core, SetProcessor PROVE Core' /\ \E i \in Tasks : task[i].op = "idle" /\ task' = [task EXCEPT ![i] = Call("processor", "change")]
  BY FreshCall, BeginsCore, AskedIsTyped DEF Core, Ops, Places, Legal, Swapping, SetProcessor, sending, outside

LEMMA BeginsUnprocess == ASSUME Core, StopProcessor PROVE Core' /\ \E i \in Tasks : task[i].op = "idle" /\ task' = [task EXCEPT ![i] = Call("unprocess", "change")]
  BY FreshCall, BeginsCore, AskedIsTyped DEF Core, Ops, Places, Legal, Swapping, StopProcessor, sending, outside

LEMMA BeginsPerformance == ASSUME Core, PrioritizePerformance PROVE Core' /\ \E i \in Tasks : task[i].op = "idle" /\ task' = [task EXCEPT ![i] = Call("performance", "sender")]
  BY FreshCall, BeginsCore, AskedIsTyped
    DEF Core, Ops, Places, Legal, Swapping, PrioritizePerformance, sending, outside

ReplaceCall(d) == [Call("replace", "change") EXCEPT !.device = d]
LEMMA BeginsReplace ==
  ASSUME Core, NEW d \in Devices, ReplaceTrack(d)
  PROVE  Core' /\ \E i \in Tasks : task[i].op = "idle" /\ task' = [task EXCEPT ![i] = ReplaceCall(d)]
<1>1. Fresh(ReplaceCall(d))
  BY DEF Fresh, ReplaceCall, Call, Idle, Calls, Ops, Places, DeviceOK, FallsBack, Restarts, Legal, Swapping
<1> QED BY <1>1, BeginsCore, AskedIsTyped DEF ReplaceTrack, sending, outside, ReplaceCall

CodecsCall(op, C) == [Call(op, IF layers.performance \/ ~track.published THEN "codec" ELSE "sender") EXCEPT !.codecs = C]
LEMMA FreshCodecs ==
  ASSUME NEW op \in {"quality", "refresh"}, NEW C \in SUBSET Codecs
  PROVE  /\ Fresh(CodecsCall(op, C)) /\ CodecsCall(op, C).op = op /\ CodecsCall(op, C).codecs = C
         /\ CodecsCall(op, C).at = IF layers.performance \/ ~track.published THEN "codec" ELSE "sender"
BY DEF Fresh, CodecsCall, Call, Idle, Calls, Ops, Places, DeviceOK, FallsBack, Restarts, Legal, Swapping

LEMMA BeginsQuality ==
  ASSUME Core, NEW C \in SUBSET Codecs, SubscribedQuality(C)
  PROVE  Core' /\ \E i \in Tasks : task[i].op = "idle" /\ task' = [task EXCEPT ![i] = CodecsCall("quality", C)]
  BY FreshCodecs, BeginsCore DEF SubscribedQuality, SetsCodecs, CodecsCall, outside

LEMMA BeginsRefresh ==
  ASSUME Core, RefreshTimer
  PROVE  Core' /\ \E i \in Tasks : task[i].op = "idle" /\ task' = [task EXCEPT ![i] = CodecsCall("refresh", asked)]
  BY FreshCodecs, BeginsCore DEF Core, TypeInv, TLayers, RefreshTimer, SetsCodecs, CodecsCall, outside, options

\* A restart that begins.
LEMMA RestartBegins ==
  ASSUME Core, NEW t, Fresh(t), t.op \in Restarts, Begins(t), track.published \/ hidden,
         UNCHANGED <<kind, backup, sends, layers, asked>>, Kept(media, media'),
         timers' = timers, muted' = muted, active' = active, hidden' \in BOOLEAN, hidden' => hidden, THist',
         track' \in TrackRecs, track'.m = track.m, track'.user = track.user, track'.muted = track.muted,
         track'.device \in Devices, ~track'.stopped
  PROVE  Core' /\ \E i \in Tasks : task[i].op = "idle" /\ task' = [task EXCEPT ![i] = t]
<1>1. TTrack'
  BY DEF Core, TypeInv, TTrack, TrackRecs, Kept, TMedia
<1>2. TFlags'
  BY DEF Core, TypeInv, TFlags
<1>3. TrackRest'
  BY DEF Core, TrackOK, TrackRest, NoTrack, NewTrack
<1> QED
  BY <1>1, <1>2, <1>3, CoreAgain, TaskBegins DEF TrackKeeps

First(i, l) == (Holds(l, task[i]) /\ task[i].at # l) \/ Enters(i, l)
MayMove(i, frees, t) ==
  \A l \in Locks : /\ l \in frees => First(i, l)
                   /\ t.at = l => l \in frees \/ ~In(l, task[i])
                   /\ In(l, t) /\ t.at # l => l \notin frees /\ First(i, l)
                   /\ ~In(l, t) => l \in frees \/ ~In(l, task[i])
LEMMA MoveWell ==
  ASSUME Core, NEW i \in Tasks, NEW frees, NEW t, MayMove(i, frees, t)
  PROVE  MovesWell(i, frees, t)
  BY HolderIsFirst, EntererIsFirst DEF First, Core, MayMove, MovesWell

\* setTrackMuted.
LEMMA SetMuted ==
  ASSUME Core, NEW md, Kept(media, md), Len(md) = Len(media), NEW v \in BOOLEAN, SetTrackMuted(md, v)
  PROVE  /\ Kept(media, media') /\ Len(media') = Len(media) /\ TTrack' /\ muted' \in BOOLEAN
         /\ track' = [track EXCEPT !.muted = v] /\ track'.m = track.m /\ track'.user = track.user /\ track'.muted = v
         /\ track'.published = track.published /\ track'.paused = track.paused /\ track'.stopped = track.stopped
         /\ track'.device = track.device /\ track'.processor = track.processor
         /\ track'.pendingDevice = track.pendingDevice
         /\ \A m \in 1..Len(media) : /\ media'[m].live <=> md[m].live
                                     /\ m \in OwnMedia => (media'[m].enabled <=> ~v)
                                     /\ m \notin OwnMedia => media'[m].enabled = md[m].enabled
<1> DEFINE w == ~v
<1>1. md \in Seq(Media) /\ w \in BOOLEAN /\ media' = Enabled(md, OwnMedia, w)
  BY DEF Kept, SetTrackMuted
<1>2. w <=> ~v
  OBVIOUS
<1> HIDE DEF w
<1>3. Kept(md, media') /\ Len(media') = Len(md)
      /\ \A m \in 1..Len(md) : /\ media'[m].live = md[m].live
                               /\ media'[m].enabled = IF m \in OwnMedia THEN w ELSE md[m].enabled
  BY <1>1, EnabledFacts
<1>4. track \in TrackRecs /\ track.m <= Len(media) /\ track' = [track EXCEPT !.muted = v]
  BY DEF Core, TypeInv, TTrack, SetTrackMuted
<1>5. track' \in TrackRecs /\ track'.m = track.m /\ track'.user = track.user /\ track'.muted = v
         /\ track'.published = track.published /\ track'.paused = track.paused /\ track'.stopped = track.stopped
         /\ track'.device = track.device /\ track'.processor = track.processor
         /\ track'.pendingDevice = track.pendingDevice
  BY <1>4 DEF TrackRecs
<1>6. muted' = (v \/ track.paused) /\ track.paused \in BOOLEAN
  BY <1>4 DEF SetTrackMuted, TrackRecs
<1> QED
  BY <1>2, <1>1, <1>3, <1>4, <1>5, <1>6, KeptTwice DEF TTrack, Core, TypeInv, TMedia

LEMMA MutedRest ==
  ASSUME Core, track' = [track EXCEPT !.muted = track'.muted], track'.muted \in BOOLEAN, track.m # 0, UNCHANGED <<timers, hidden, kind>>
  PROVE  TrackRest'
  BY DEF Core, TypeInv, TTrack, TrackRecs, TrackRest, TrackOK

LEMMA TaskFacts ==
  ASSUME Core, NEW i \in Tasks
  PROVE  /\ task[i] \in Calls /\ Legal(task[i].op, task[i].at) /\ DeviceOK(task[i]) /\ MediaOK(task[i])
         /\ task[i].op \notin {"idle", "create"} => track.m # 0 /\ NobodyCreates
  BY NotCreating DEF Core, TypeInv, TTask, LegalTasks, TasksOK, TrackOK

LEMMA HistFacts ==
  ASSUME Core, Len(media) <= Len(media'), Len(media') \in Nat,
         history' \in Histories, history'.heard \subseteq history.heard, history'.lost \subseteq history.lost
  PROVE  THist'
  BY DEF Core, TypeInv, THist, TMedia

LEMMA CoreMuteEnters ==
  ASSUME Core, NEW i \in Tasks, MuteEnters(i)
  PROVE  Core'
<1>1. task[i].op = "mute" /\ task[i].at = "mute" /\ Enters(i, "mute") /\ GoesOn(i, {"mute"}, Idle)
  BY DEF MuteEnters, Enters
<1>2. media \in Seq(Media) /\ Len(media) \in Nat
  BY DEF Core, TypeInv, TMedia
<1>3. /\ TrackKeeps /\ UNCHANGED <<kind, backup, sends, layers, asked, timers, active, hidden>>
      /\ (track' = track /\ muted' = muted /\ history' = history) \/ (TTrack' /\ muted' \in BOOLEAN /\ THist' /\ TrackRest')
  <2>1. CASE ~track.muted
    <3> DEFINE md == IF StopsOnMute THEN Ended(media, {track.m}) ELSE media
    <3>1. SetTrackMuted(md, TRUE) /\ history' = [history EXCEPT !.raced = @ \/ Changing]
          /\ UNCHANGED <<kind, backup, sends, layers, asked, timers, active, hidden>>
      BY <2>1 DEF MuteEnters, options, sending, outside
    <3>2. Kept(media, md) /\ Len(md) = Len(media)
      BY <1>2, EndedFacts, KeptSame
    <3> HIDE DEF md
    <3>3. /\ Kept(media, media') /\ Len(media') = Len(media) /\ TTrack' /\ muted' \in BOOLEAN
          /\ track' = [track EXCEPT !.muted = TRUE] /\ track'.m = track.m /\ track'.user = track.user /\ track'.muted = TRUE
      BY <3>1, <3>2, SetMuted
    <3>4. THist'
      BY <1>2, <3>3, HistFacts, <3>1 DEF Core, TypeInv, THist, Histories
    <3> QED
      BY <3>1, <3>3, <3>4, MutedRest, <1>1, TaskFacts DEF TrackKeeps
  <2> QED
    BY <2>1, SameKeeps DEF MuteEnters, options, sending, outside
<1>4. TaskCore'
  BY <1>3, IdleIsFine, <1>1, TaskGoesOn, MoveWell
    DEF TrackKeeps, Kept, MayMove, First, In, Holds, Locks, ChangeTask, InChange
<1> QED
  BY <1>3, <1>4, CoreAgain DEF TrackKeeps, Core, TypeInv, TFlags

HistoryKept ==
  /\ history'.heard = history.heard /\ history'.lost = history.lost /\ history'.wanted = history.wanted
  /\ history'.failed = history.failed /\ history'.raced = history.raced /\ history'.dropped = history.dropped
  /\ history'.bypassed = history.bypassed /\ history'.outrun = history.outrun
  /\ history'.resized = history.resized /\ history'.missed = history.missed

LEMMA RevivesFacts ==
  ASSUME Core, Revives, media' = media
  PROVE  track' = [track EXCEPT !.stopped = FALSE] /\ THist' /\ HistoryKept
<1>1. PICK v \in BOOLEAN : v = (history.revived \/ ~track.published)
  OBVIOUS
<1>2. track' = [track EXCEPT !.stopped = FALSE] /\ history' = [history EXCEPT !.revived = v]
  BY <1>1 DEF Revives
<1>3. history' \in Histories /\ HistoryKept
  BY <1>2 DEF Core, TypeInv, THist, Histories, HistoryKept
<1> QED BY <1>2, <1>3 DEF HistoryKept, Core, TypeInv, THist

LEMMA CoreUnmuteEnters ==
  ASSUME Core, NEW i \in Tasks, UnmuteEnters(i)
  PROVE  Core'
<1>1. task[i].op = "unmute" /\ task[i].at = "mute" /\ Enters(i, "mute")
  BY DEF UnmuteEnters, Enters
<1>2. track.m # 0 /\ NobodyCreates /\ task[i] \in Calls
  BY <1>1, TaskFacts
<1>3. UNCHANGED <<kind, backup, sends, layers, asked, timers, active, hidden>>
  BY DEF UnmuteEnters, options, sending, outside
<1>4. media \in Seq(Media) /\ Len(media) \in Nat /\ track \in TrackRecs /\ Kept(media, media)
  BY KeptSame DEF Core, TypeInv, TMedia, TTrack
<1>5. CASE track.muted /\ Reacquires
  <2>1. PICK t : t = [task[i] EXCEPT !.at = "change"]
    OBVIOUS
  <2>2. GoesOn(i, {}, t) /\ track' = [track EXCEPT !.stopped = FALSE] /\ media' = media /\ muted' = muted
        /\ THist' /\ HistoryKept
    BY <1>5, <2>1, RevivesFacts DEF UnmuteEnters
  <2>3. t \in Calls /\ t.op = "unmute" /\ t.at = "change" /\ t.m = task[i].m /\ t.device = task[i].device
    BY <1>1, <1>2, <2>1 DEF Calls, Places
  <2>4. track' \in TrackRecs /\ track'.m = track.m /\ track'.user = track.user /\ track'.muted = track.muted
        /\ track'.device = track.device /\ ~track'.stopped
    BY <1>4, <2>2 DEF TrackRecs
  <2>5. TrackKeeps
    BY <1>3, <1>4, <2>2, <2>4 DEF TrackKeeps, HistoryKept
  <2>6. Legal(t.op, t.at) /\ MediaOK(t)' /\ t.m <= Len(media')
    BY <1>5, <2>2, <2>3, <2>4 DEF Legal, Swapping, MediaOK, Core, TypeInv, TTask
  <2>7. DeviceOK(t)
    BY <1>1, <2>3 DEF DeviceOK, FallsBack, Restarts, Core, TasksOK, Swapping
  <2>8. TaskCore'
    BY <1>1, <2>2, <2>3, <2>5, <2>6, <2>7, TaskGoesOn, MoveWell
      DEF MayMove, First, In, Holds, Locks, ChangeTask, InChange
  <2> QED
    BY <1>3, <1>4, <2>2, <2>8, CoreAgain, <1>2, <2>4 DEF TTrack, TrackRest, Core, TypeInv, TrackOK
<1>6. CASE ~(track.muted /\ Reacquires)
  <2>1. GoesOn(i, {"mute"}, Idle) /\ history' = history
    BY <1>6 DEF UnmuteEnters
  <2>2. ASSUME TrackMoves(i), Kept(media, media') PROVE TaskCore'
    BY <2>2, IdleIsFine, <1>1, <2>1, TaskGoesOn, MoveWell
      DEF Kept, MayMove, First, In, Holds, Locks, ChangeTask, InChange
  <2>3. task' = [task EXCEPT ![i] = Idle]
    BY <2>1 DEF GoesOn
  <2>4. CASE track.muted
    <3>1. /\ Kept(media, media') /\ TTrack' /\ muted' \in BOOLEAN
          /\ track' = [track EXCEPT !.muted = FALSE] /\ track'.m = track.m /\ track'.user = track.user /\ track'.muted = FALSE
      BY <1>4, SetMuted, <1>6, <2>4 DEF UnmuteEnters
    <3>2. TrackMoves(i)
      BY <1>2, <1>3, <2>1, <3>1, <2>3, TaskFacts, <1>1, MuteIsExclusive DEF TrackMoves, Core, TypeInv, TTask, MediaOK
    <3> QED
      BY <1>3, <2>1, <2>2, <3>1, <3>2, CoreAgain, <1>2, MutedRest DEF Core, TypeInv, TFlags
  <2> QED
    BY <2>4, <1>6, <1>3, <2>1, <2>3, SameKeeps, KeepsMoves, <1>4, <2>2, CoreAgain DEF UnmuteEnters
<1> QED BY <1>5, <1>6

LEMMA SendsWith ==
  ASSUME NEW s \in [main : Int, backup : Int, scaled : Devices, encoded : Devices], NEW a \in Int, NEW b \in Int
  PROVE  LET r == [s EXCEPT !.main = a, !.backup = b]
         IN  r \in [main : Int, backup : Int, scaled : Devices, encoded : Devices] /\ r.main = a /\ r.backup = b /\ r.scaled = s.scaled /\ r.encoded = s.encoded
OBVIOUS

\* pauseUpstream and resumeUpstream.
LEMMA PausesFacts ==
  ASSUME Core, Pauses, Kept(media, media')
  PROVE  /\ TTrack' /\ muted' \in BOOLEAN /\ sends' \in [main : Int, backup : Int, scaled : Devices, encoded : Devices]
         /\ sends'.main \in {sends.main, 0} /\ sends'.backup \in {sends.backup, 0} /\ sends'.scaled = sends.scaled /\ sends'.encoded = sends.encoded
         /\ track'.m = track.m /\ track'.user = track.user /\ track'.muted = track.muted
         /\ track'.published = track.published /\ track'.stopped = track.stopped /\ track'.device = track.device
         /\ track'.processor = track.processor /\ track'.pendingDevice = track.pendingDevice
         /\ ~track.published => track' = track
<1>1. track.m <= Len(media') /\ track.m \in Nat
  BY DEF Core, TypeInv, TTrack, TMedia, Kept, TrackRecs
<1>2. track \in TrackRecs /\ sends \in [main : Int, backup : Int, scaled : Devices, encoded : Devices] /\ muted \in BOOLEAN
  BY DEF Core, TypeInv, TTrack, TSends, TFlags
<1>3. CASE ~(track.paused \/ ~track.published)
  <2>1. track' = [track EXCEPT !.paused = TRUE] /\ muted' = TRUE /\ sends' = [sends EXCEPT !.main = 0, !.backup = 0]
    BY <1>3 DEF Pauses
  <2>2. sends' \in [main : Int, backup : Int, scaled : Devices, encoded : Devices] /\ sends'.main = 0 /\ sends'.backup = 0
        /\ sends'.scaled = sends.scaled /\ sends'.encoded = sends.encoded
    <3>1. PICK z \in Int : z = 0
      OBVIOUS
    <3>2. sends' \in [main : Int, backup : Int, scaled : Devices, encoded : Devices] /\ sends'.main = z /\ sends'.backup = z
          /\ sends'.scaled = sends.scaled /\ sends'.encoded = sends.encoded
      BY <1>2, SendsWith, <2>1, <3>1
    <3> QED BY <3>1, <3>2
  <2> QED
    BY <1>1, <1>3, <2>1, <2>2, <1>2 DEF TTrack, TrackRecs
<1> QED
  BY <1>3, <1>1, <1>2 DEF Pauses, TTrack, TrackRecs

LEMMA PausedRest ==
  ASSUME Core, track'.m = track.m, track'.published = track.published, track'.stopped = track.stopped,
         track'.device = track.device, ~track.published => track' = track,
         timers'.refresh => timers.refresh, hidden' => hidden, kind' = kind
  PROVE  TrackRest'
  BY DEF Core, TrackOK, NoTrack, NewTrack, TrackRest

LEMMA ResumedSendsFacts ==
  ASSUME Core
  PROVE  /\ ResumedSends \in [main : Int, backup : Int, scaled : Devices, encoded : Devices] /\ ResumedSends.scaled = sends.scaled
         /\ ResumedSends.encoded = sends.encoded
         /\ ResumedSends.main = IF track.published /\ track.paused THEN Current(track) ELSE sends.main
         /\ ResumedSends.main \in Processed..Len(media) /\ ResumedSends.backup \in Processed..Len(media)
<1>1. /\ sends \in [main : Int, backup : Int, scaled : Devices, encoded : Devices] /\ track.m \in Nat /\ backup.m \in Nat
      /\ Len(media) \in Nat /\ track.m <= Len(media) /\ backup.m <= Len(media)
      /\ sends.main \in Processed..Len(media) /\ sends.backup \in Processed..Len(media)
  BY DEF Core, TypeInv, TTrack, TSends, TBackup, TrackRecs, TMedia
<1>2. CASE track.published
  <2> DEFINE a == IF track.paused THEN Current(track) ELSE sends.main
             b == IF backup.sender THEN backup.m ELSE sends.backup
  <2>1. ResumedSends = [sends EXCEPT !.main = a, !.backup = b]
    BY <1>2 DEF ResumedSends
  <2>2. a \in Int /\ b \in Int /\ a \in Processed..Len(media) /\ b \in Processed..Len(media)
    BY <1>1 DEF Processed, Current
  <2>3. a = IF track.published /\ track.paused THEN Current(track) ELSE sends.main
    BY <1>2
  <2> HIDE DEF a, b
  <2> QED BY <1>1, <2>1, <2>2, <2>3
<1> QED
  BY <1>2, <1>1 DEF ResumedSends

LEMMA ResumesFacts ==
  ASSUME Core, Resumes, Kept(media, media')
  PROVE  /\ TTrack' /\ muted' \in BOOLEAN
         /\ track'.m = track.m /\ track'.user = track.user /\ track'.muted = track.muted
         /\ track'.published = track.published /\ track'.stopped = track.stopped /\ track'.device = track.device
         /\ track'.processor = track.processor /\ track'.pendingDevice = track.pendingDevice
         /\ track'.paused = (track.paused /\ ~track.published)
         /\ ~track.published => track' = track
<1>1. track.m <= Len(media') /\ track.m \in Nat
  BY DEF Core, TypeInv, TTrack, TMedia, Kept, TrackRecs
<1>2. track \in TrackRecs /\ muted \in BOOLEAN /\ track.muted \in BOOLEAN
  BY DEF Core, TypeInv, TTrack, TFlags, TrackRecs
<1>3. CASE ~(track.paused /\ track.published)
  BY <1>3, <1>1, <1>2 DEF Resumes, TTrack, TrackRecs
<1>4. CASE track.paused /\ track.published
  BY <1>4, <1>2, <1>1 DEF Resumes, TrackRecs, TTrack
<1> QED BY <1>3, <1>4

\* Steps that pause or resume and move no task; the history may say that a resume outran a replacement.
LEMMA CorePauses ==
  ASSUME Core, NobodyCreates \/ ~track.published, Pauses, UNCHANGED <<kind, media, backup, layers, asked, tasks, hidden, active, history>>,
         timers' \in [mute : BOOLEAN, refresh : BOOLEAN], timers'.refresh = timers.refresh
  PROVE  Core'
<1>1. Kept(media, media')
  BY KeptSame DEF Core, TypeInv, TMedia
<1>2. /\ TTrack' /\ muted' \in BOOLEAN /\ sends' \in [main : Int, backup : Int, scaled : Devices, encoded : Devices]
      /\ sends'.main \in {sends.main, 0} /\ sends'.backup \in {sends.backup, 0} /\ sends'.scaled = sends.scaled /\ sends'.encoded = sends.encoded
      /\ track'.m = track.m /\ track'.user = track.user /\ track'.muted = track.muted
      /\ track'.published = track.published /\ track'.stopped = track.stopped /\ track'.device = track.device
      /\ ~track.published => track' = track
  BY <1>1, PausesFacts
<1>3. TSends'
  BY <1>2 DEF Core, TypeInv, TSends, TMedia, Processed
<1>4. TFlags'
  BY <1>2 DEF Core, TypeInv, TFlags
<1>5. TrackRest'
  BY <1>2, PausedRest
<1>6. CASE ~track.published
  <2>1. UNCHANGED <<track, muted, sends>>
    BY <1>6 DEF Pauses
  <2>2. TaskCore'
    <3>1. TTask' /\ Queues' /\ LegalTasks' /\ TasksOK'
      BY <2>1 DEF Core, TypeInv, TTask, Queues, LegalTasks, TasksOK, DeviceOK, FallsBack, MediaOK, tasks
    <3> QED
      BY <2>1, <3>1, <1>2 DEF TaskCore, Core, TrackOK, tasks, CreateOK, Newborn
  <2> QED BY <1>1, <1>2, <1>3, <1>4, <1>5, <2>2, CoreAgain
<1> QED
  BY <1>6, <1>1, <1>2, TasksStay, <1>3, <1>4, <1>5, CoreAgain DEF TrackKeeps

LEMMA TimersFacts ==
  ASSUME Core, NEW v \in BOOLEAN, timers' = [timers EXCEPT !.mute = v]
  PROVE  timers' \in [mute : BOOLEAN, refresh : BOOLEAN] /\ timers'.refresh = timers.refresh
BY DEF Core, TypeInv, TFlags

LEMMA CorePauseUpstream ==
  ASSUME Core, PauseUpstream
  PROVE  Core'
  BY NotCreating, CorePauses DEF PauseUpstream, Core, TypeInv, TFlags, outside

LEMMA CoreMuteTimer ==
  ASSUME Core, MuteTimer
  PROVE  Core'
  BY TimersFacts, NotCreating, CorePauses DEF MuteTimer, outside, options

LEMMA CoreResumes ==
  ASSUME Core, NobodyCreates \/ (~track.published /\ media' = media), Resumes, Kept(media, media'), Len(media') = Len(media),
         UNCHANGED <<kind, backup, layers, asked, tasks, hidden, active>>,
         \A m \in 1..Len(media) : /\ media'[m].enabled = media[m].enabled /\ media'[m].live = media[m].live,
         history' \in Histories, history'.heard = history.heard, history'.lost = history.lost, history'.wanted = history.wanted,
         timers' \in [mute : BOOLEAN, refresh : BOOLEAN], timers'.refresh = timers.refresh
  PROVE  Core'
<1>1. /\ TTrack' /\ muted' \in BOOLEAN
      /\ track'.m = track.m /\ track'.user = track.user /\ track'.muted = track.muted
      /\ track'.published = track.published /\ track'.stopped = track.stopped /\ track'.device = track.device
      /\ ~track.published => track' = track
  BY ResumesFacts
<1>2. /\ sends' \in [main : Int, backup : Int, scaled : Devices, encoded : Devices] /\ sends'.scaled = sends.scaled /\ sends'.encoded = sends.encoded
      /\ sends'.main \in Processed..Len(media) /\ sends'.backup \in Processed..Len(media)
  BY ResumedSendsFacts DEF Resumes
<1>3. TSends'
  BY <1>2 DEF TSends
<1>4. TFlags'
  BY <1>1 DEF Core, TypeInv, TFlags
<1>5. TrackRest'
  BY <1>1, PausedRest
<1>6. THist'
  BY HistFacts DEF Core, TypeInv, TMedia
<1>7. CASE ~track.published /\ media' = media
  <2>1. UNCHANGED <<track, muted, sends>>
    BY <1>7 DEF Resumes, ResumedSends
  <2>2. TaskCore'
    <3>1. TTask' /\ Queues' /\ LegalTasks' /\ TasksOK'
      BY <1>7, <2>1 DEF Core, TypeInv, TTask, Queues, LegalTasks, TasksOK, DeviceOK, FallsBack, MediaOK, tasks
    <3> QED
      BY <2>1, <3>1, <1>2, <1>7 DEF TaskCore, Core, TrackOK, tasks, CreateOK, Newborn
  <2> QED BY <1>1, <1>2, <1>3, <1>4, <1>5, <1>6, <2>2, CoreAgain
<1> QED
  BY <1>7, <1>1, TasksStay, <1>2, <1>3, <1>4, <1>5, <1>6, CoreAgain DEF TrackKeeps

LEMMA OutrunFacts ==
  ASSUME Core, NEW v \in BOOLEAN, history' = [history EXCEPT !.outrun = v]
  PROVE  /\ history' \in Histories /\ history'.heard = history.heard /\ history'.lost = history.lost
         /\ history'.wanted = history.wanted /\ history'.failed = history.failed /\ history'.raced = history.raced
         /\ history'.dropped = history.dropped /\ history'.bypassed = history.bypassed /\ history'.outrun = v
         /\ history'.resized = history.resized /\ history'.missed = history.missed
BY DEF Core, TypeInv, THist, Histories

LEMMA CoreResumeUpstream ==
  ASSUME Core, ResumeUpstream
  PROVE  Core'
  BY KeptSame, OutrunFacts, CoreResumes, NotCreating
    DEF ResumeUpstream, Core, TypeInv, TFlags, THist, Histories, TMedia, outside

\* The device gives nothing, or gives something again.
LEMMA SilentFacts ==
  ASSUME Core, NEW m \in DOMAIN media, NEW v \in BOOLEAN, media' = [media EXCEPT ![m].silent = v]
  PROVE  /\ Kept(media, media') /\ Len(media') = Len(media)
         /\ \A k \in 1..Len(media) : /\ media'[k].enabled = media[k].enabled /\ media'[k].live = media[k].live
                                     /\ media'[k].device = media[k].device /\ media'[k].by = media[k].by
<1>1. media \in Seq(Media) /\ Len(media) \in Nat /\ DOMAIN media = 1..Len(media) /\ \A k \in 1..Len(media) : media[k] \in Media
  BY DEF Core, TypeInv, TMedia
<1>2. media' = [media EXCEPT ![m] = [media[m] EXCEPT !.silent = v]]
  OBVIOUS
<1>3. ASSUME NEW k \in 1..Len(media)
      PROVE  /\ media'[k].enabled = media[k].enabled /\ media'[k].live = media[k].live
             /\ media'[k].device = media[k].device /\ media'[k].by = media[k].by
  BY <1>1, <1>2 DEF Media
<1> QED
  BY <1>1, <1>3, <1>2, ExceptSeq DEF Kept, Media

\* A step that changes neither what a track is nor its tasks.
LEMMA CreateStays ==
  ASSUME Core, UNCHANGED <<kind, track, muted, hidden, tasks, backup, active, sends, asked, layers, history>>, timers'.refresh = timers.refresh,
         Kept(media, media'), Len(media') = Len(media),
         \A k \in 1..Len(media) : /\ media'[k].enabled = media[k].enabled /\ media'[k].live = media[k].live
                                  /\ media'[k].device = media[k].device
  PROVE  TaskCore'
<1>1. TTask' /\ Queues' /\ LegalTasks' /\ TasksOK'
  BY DEF Core, TypeInv, TTask, Queues, LegalTasks, TasksOK, DeviceOK, FallsBack, MediaOK, tasks
<1>2. CreateOK'
  BY DEF Core, TypeInv, TTrack, TrackRecs, TMedia, Newborn, CreateOK, tasks
<1> QED BY <1>1, <1>2 DEF TaskCore, Core, TrackOK, tasks

LEMMA CoreDeviceMutes ==
  ASSUME Core, DeviceMutes
  PROVE  Core'
<1>1. track.m \in DOMAIN media
  BY DEF DeviceMutes, Core, TypeInv, THist, TMedia
<1>2. media' = [media EXCEPT ![track.m].silent = TRUE] /\ timers' = [timers EXCEPT !.mute = TRUE]
      /\ UNCHANGED <<kind, track, muted, hidden, tasks, backup, active, sends, asked, layers, history>>
  BY DEF DeviceMutes, sending, outside
<1>3. timers' \in [mute : BOOLEAN, refresh : BOOLEAN] /\ timers'.refresh = timers.refresh
  BY <1>2, TimersFacts
<1>4. TFlags' /\ TrackRest'
  BY <1>2, <1>3 DEF Core, TypeInv, TFlags, TrackOK, TrackRest
<1> QED
  BY <1>2, <1>4, CoreAgain, <1>3, CreateStays, <1>1, SilentFacts

LEMMA CoreDeviceUnmutes ==
  ASSUME Core, NEW m \in DOMAIN media, DeviceUnmutes(m)
  PROVE  Core'
<1>1. media' = [media EXCEPT ![m].silent = FALSE]
      /\ UNCHANGED <<kind, hidden, tasks, backup, active, asked, layers, history>>
  BY DEF DeviceUnmutes, options, outside
<1>2. /\ Kept(media, media') /\ Len(media') = Len(media)
      /\ \A k \in 1..Len(media) : /\ media'[k].enabled = media[k].enabled /\ media'[k].live = media[k].live
                                  /\ media'[k].device = media[k].device /\ media'[k].by = media[k].by
  BY <1>1, SilentFacts
<1>3. timers' \in [mute : BOOLEAN, refresh : BOOLEAN] /\ timers'.refresh = timers.refresh
  BY TimersFacts DEF Core, TypeInv, TFlags, DeviceUnmutes
<1>4. CASE UNCHANGED <<track, muted, sends>>
  BY <1>1, <1>2, <1>3, <1>4, CreateStays, CoreAgain DEF Core, TypeInv, TFlags, TrackOK, TrackRest
<1>5. CASE Resumes /\ ~track.published
  BY <1>4, <1>5 DEF Resumes, ResumedSends
<1>6. NobodyCreates \/ ~track.published
  BY NotCreating
<1> QED
  BY <1>4, <1>5, <1>6, <1>1, <1>2, <1>3, CoreResumes DEF DeviceUnmutes, Core, TypeInv, THist

\* Operations that restart the track begin.
TrackStands == /\ track'.m = track.m /\ track'.muted = track.muted /\ track'.user = track.user
               /\ track'.paused = track.paused /\ track'.published = track.published /\ track'.processor = track.processor

LEMMA HistoryTyped == ASSUME Core PROVE /\ history \in Histories /\ history.heard \subseteq 1..Len(media) /\ history.lost \subseteq 1..Len(media)
                                        /\ Len(media) \in Nat /\ media \in Seq(Media) /\ track \in TrackRecs /\ track.m <= Len(media)
                                        /\ Changing \in BOOLEAN /\ kind \in Kinds /\ hidden \in BOOLEAN
BY DEF Core, TypeInv, THist, TMedia, TTrack, TFlags, Changing

LEMMA CoreSetDeviceId ==
  ASSUME Core, NEW d \in Devices, SetDeviceId(d)
  PROVE  /\ Core' /\ UNCHANGED <<kind, media, backup, sends, layers, asked, timers, muted, hidden>>
         /\ history' = [history EXCEPT !.wanted = d, !.raced = history.raced \/ Changing]
         /\ history' \in Histories /\ history'.heard = history.heard /\ history'.lost = history.lost /\ history'.wanted = d
         /\ history'.failed = history.failed /\ history'.raced = (history.raced \/ Changing) /\ history'.dropped = history.dropped
         /\ history'.bypassed = history.bypassed /\ history'.outrun = history.outrun /\ history'.resized = history.resized /\ history'.missed = history.missed
         /\ track'.device = d /\ TrackStands
         /\ IF track.muted
              THEN track'.pendingDevice /\ active' = d /\ UNCHANGED tasks /\ track'.stopped = track.stopped
              ELSE /\ track'.pendingDevice = track.pendingDevice /\ active' = active /\ ~track'.stopped
                   /\ \E i \in Tasks : task[i].op = "idle" /\ task' = [task EXCEPT ![i] = Call("device", "change")]
<1>1. UNCHANGED <<kind, media, backup, sends, layers, asked, timers, muted, hidden>> /\ track.published
  BY DEF SetDeviceId, sending
<1>2. /\ history' = [history EXCEPT !.wanted = d, !.raced = history.raced \/ Changing]
      /\ history' \in Histories /\ history'.heard = history.heard /\ history'.lost = history.lost /\ history'.wanted = d
      /\ history'.failed = history.failed /\ history'.raced = (history.raced \/ Changing) /\ history'.dropped = history.dropped
      /\ history'.bypassed = history.bypassed /\ history'.outrun = history.outrun /\ history'.resized = history.resized /\ history'.missed = history.missed
  BY HistoryTyped DEF SetDeviceId, Histories
<1>3. track.m # 0 /\ NobodyCreates
  BY <1>1, NotCreating DEF Core, TrackOK, NoTrack, NewTrack
<1>4. THist' /\ Kept(media, media')
  BY <1>1, <1>2, HistoryTyped, KeptSame DEF THist
<1>5. CASE track.muted
  <2>1. track' = [track EXCEPT !.device = d, !.pendingDevice = TRUE] /\ active' = d /\ UNCHANGED tasks
    BY <1>5 DEF SetDeviceId
  <2>2. /\ track' \in TrackRecs /\ track'.device = d /\ TrackStands
        /\ track'.pendingDevice /\ track'.stopped = track.stopped
    BY <2>1, HistoryTyped DEF TrackRecs, TrackStands
  <2>3. Core'
    BY <1>1, <1>4, CoreAgain, <1>3, <2>1, <2>2, HistoryTyped, TasksStay
      DEF TrackStands, TTrack, TrackRest, TFlags, Core, TypeInv, TrackOK, TrackKeeps
  <2> QED BY <1>1, <1>2, <1>5, <2>1, <2>2, <2>3
<1>6. CASE ~track.muted
  <2>1. track' = [track EXCEPT !.device = d, !.stopped = FALSE] /\ active' = active /\ Begins(Call("device", "change"))
    BY <1>6 DEF SetDeviceId
  <2>2. /\ track' \in TrackRecs /\ track'.device = d /\ TrackStands
        /\ track'.pendingDevice = track.pendingDevice /\ ~track'.stopped
    BY <2>1, HistoryTyped DEF TrackRecs, TrackStands
  <2>3. hidden' \in BOOLEAN
    BY <1>1, HistoryTyped
  <2>4. Core' /\ \E i \in Tasks : task[i].op = "idle" /\ task' = [task EXCEPT ![i] = Call("device", "change")]
    BY <1>1, <1>4, <2>1, <2>2, <2>3, RestartBegins, FreshCall
      DEF TrackStands, Core, Ops, Places, Legal, Swapping, Restarts
  <2> QED BY <1>1, <1>2, <1>6, <2>1, <2>2, <2>4
<1> QED BY <1>5, <1>6

LEMMA CoreRestartTrack ==
  ASSUME Core, RestartTrack
  PROVE  /\ Core' /\ ~track.muted /\ UNCHANGED <<kind, media, backup, sends, layers, asked, timers, muted, active, hidden, history>>
         /\ \E i \in Tasks : task[i].op = "idle" /\ task' = [task EXCEPT ![i] = Call("restart", "change")]
         /\ track'.device = track.device /\ TrackStands
         /\ track'.pendingDevice = track.pendingDevice /\ ~track'.stopped
<1>1. UNCHANGED <<kind, media, backup, sends, layers, asked, timers, muted, active, hidden, history>> /\ track.published /\ ~track.muted
      /\ track' = [track EXCEPT !.stopped = FALSE] /\ Begins(Call("restart", "change"))
  BY DEF RestartTrack, sending, outside
<1>2. Fresh(Call("restart", "change")) /\ Call("restart", "change").op \in Restarts
  BY FreshCall DEF Core, Ops, Places, Legal, Swapping, Restarts
<1>3. THist' /\ Kept(media, media') /\ hidden' \in BOOLEAN
  BY <1>1, HistoryTyped, KeptSame DEF THist
<1>4. track.device \in Devices
  BY <1>1 DEF Core, TrackOK, NoTrack, NewTrack
<1> QED
  BY <1>1, <1>2, <1>3, <1>4, RestartBegins, HistoryTyped DEF TrackStands, TrackRecs

LEMMA CoreShow ==
  ASSUME Core, Show
  PROVE  /\ Core' /\ hidden /\ ~hidden' /\ UNCHANGED <<kind, media, backup, sends, layers, asked, timers, muted, active>> /\ HistoryKept
         /\ track'.device = track.device /\ TrackStands
         /\ track'.pendingDevice = track.pendingDevice /\ (track'.stopped => track.stopped)
         /\ IF NeedsReAcquisition /\ ~track.user /\ ~track.muted
              THEN \E i \in Tasks : task[i].op = "idle" /\ task' = [task EXCEPT ![i] = Call("reacquire", "change")]
              ELSE UNCHANGED tasks
<1>1. UNCHANGED <<kind, media, backup, sends, layers, asked, timers, muted, active>> /\ hidden /\ hidden' = FALSE
  BY DEF Show, sending, options
<1>2. Kept(media, media')
  BY <1>1, HistoryTyped, KeptSame
<1>3. track.m # 0 /\ track.device \in Devices /\ NobodyCreates
  BY <1>1, NotCreating DEF Core, TrackOK
<1>4. CASE NeedsReAcquisition /\ ~track.user /\ ~track.muted
  <2>1. track' = [track EXCEPT !.stopped = FALSE] /\ Begins(Call("reacquire", "change")) /\ THist' /\ HistoryKept
    BY <1>1, <1>4, RevivesFacts DEF Show
  <2>2. /\ track' \in TrackRecs /\ track'.device = track.device /\ TrackStands
        /\ track'.pendingDevice = track.pendingDevice /\ ~track'.stopped
    BY <2>1, HistoryTyped DEF TrackRecs, TrackStands
  <2>3. Fresh(Call("reacquire", "change")) /\ Call("reacquire", "change").op \in Restarts
    BY FreshCall DEF Core, Ops, Places, Legal, Swapping, Restarts
  <2>4. Core' /\ \E i \in Tasks : task[i].op = "idle" /\ task' = [task EXCEPT ![i] = Call("reacquire", "change")]
    BY <1>1, <1>2, <1>3, <2>1, <2>2, <2>3, RestartBegins DEF TrackStands
  <2> QED BY <1>1, <1>4, <2>1, <2>2, <2>4
<1>5. CASE ~(NeedsReAcquisition /\ ~track.user /\ ~track.muted)
  <2>1. UNCHANGED <<tasks, track, history>> /\ THist' /\ HistoryKept
    BY <1>1, <1>5, HistoryTyped DEF Show, THist, HistoryKept
  <2> QED
  BY <2>1, <1>5, <1>1, <1>3, SameKeeps, TasksStay, <1>2, CoreAgain
    DEF TrackRest, TFlags, Core, TypeInv, TrackOK, TrackStands
<1> QED BY <1>4, <1>5

HistoryGrows  == /\ history'.dropped = history.dropped /\ (history.bypassed => history'.bypassed)
                 /\ history'.outrun = history.outrun /\ history'.resized = history.resized /\ history'.missed = history.missed
HistoryStands == /\ history'.dropped = history.dropped /\ history'.bypassed = history.bypassed
                 /\ history'.outrun = history.outrun /\ history'.resized = history.resized /\ history'.missed = history.missed

\* Which media a device that goes takes with it, and what happens to the track then.
Unheard(m) == m \notin history.heard \/ ~track.published \/ (track.muted /\ ~track.user)
EndedCall == [Call("ended", "change") EXCEPT !.device = IF kind.camera THEN Unset ELSE Fallback]

LEMMA CoreMediaEnds ==
  ASSUME Core, NEW m \in DOMAIN media, MediaEnds(m)
  PROVE  /\ Core' /\ m \in 1..Len(media) /\ media' = Ended(media, {m}) /\ UNCHANGED <<kind, backup, sends, layers, asked, timers, muted, active, hidden>>
         /\ TrackStands /\ track'.device = track.device /\ track'.pendingDevice = track.pendingDevice
         /\ (track'.stopped => track.stopped)
         /\ HistoryStands /\ history'.failed = history.failed /\ history'.heard = history.heard \ {m}
         /\ \/ /\ Unheard(m) /\ UNCHANGED <<track, tasks>> /\ history'.raced = history.raced /\ history'.wanted = history.wanted
               /\ history'.lost = history.lost \union (IF Changing \/ ~track.published THEN {m} ELSE {})
            \/ /\ ~Unheard(m) /\ track.user /\ track' = track /\ history'.raced = history.raced /\ history'.wanted = history.wanted
               /\ history'.lost = history.lost
               /\ \E i \in Tasks : task[i].op = "idle" /\ task' = [task EXCEPT ![i] = Call("mute", "mute")]
            \/ /\ ~Unheard(m) /\ ~track.user /\ ~track.muted /\ history'.raced = (history.raced \/ Changing)
               /\ history'.wanted = IF kind.camera THEN history.wanted ELSE Fallback
               /\ history'.lost = history.lost
               /\ \E i \in Tasks : task[i].op = "idle" /\ task' = [task EXCEPT ![i] = EndedCall]
<1>1. media' = Ended(media, {m}) /\ UNCHANGED <<kind, backup, sends, layers, asked, timers, muted, active, hidden>>
  BY DEF MediaEnds, sending, outside
<1>2. m \in 1..Len(media) /\ m \in Nat
  BY HistoryTyped
<1>3. /\ Kept(media, media') /\ Len(media') = Len(media)
      /\ \A k \in 1..Len(media) : /\ media'[k].enabled = media[k].enabled
                                  /\ media'[k].live <=> media[k].live /\ k \notin {m}
  BY <1>1, EndedFacts, HistoryTyped
<1>4. DeviceAssumption /\ hidden' \in BOOLEAN
  BY <1>1, DeviceAssumption, HistoryTyped
<1>5. CASE Unheard(m)
  <2>1. PICK gone : gone = history.lost \union (IF Changing \/ ~track.published THEN {m} ELSE {})
    OBVIOUS
  <2>2. gone \subseteq 1..Len(media) /\ history.lost \subseteq gone /\ (~track.published => m \in gone) /\ gone \in SUBSET Nat
    BY HistoryTyped, <1>2, <2>1
  <2>3. UNCHANGED <<track, tasks>> /\ history' = [history EXCEPT !.heard = history.heard \ {m}, !.lost = gone]
    BY <1>5, <2>1 DEF MediaEnds, Unheard
  <2>4. /\ history' \in Histories /\ history'.heard = history.heard \ {m} /\ history'.lost = gone /\ history'.wanted = history.wanted
        /\ history'.failed = history.failed /\ history'.raced = history.raced /\ HistoryStands
    BY <2>2, <2>3, HistoryTyped DEF Histories, HistoryStands
  <2>5. TaskCore'
    <3>1. CASE ~track.published
      <4>1. CreateOK'
        <5>1. Newborn => Newborn'
          BY <1>2, <1>3, <2>2, <2>3, <2>4, <3>1, HistoryTyped DEF Newborn, Kept, TrackRecs
        <5> QED BY <1>1, <2>3, <2>4, <5>1 DEF Core, CreateOK, tasks
      <4>2. Queues' /\ LegalTasks' /\ TasksOK'
        BY <1>1, <2>3 DEF Core, Queues, LegalTasks, TasksOK, DeviceOK, FallsBack, MediaOK, tasks
      <4> QED
        BY <2>3, <4>1, <4>2, <1>3 DEF TaskCore, Core, TrackOK, tasks, TTask, TypeInv
    <3> QED
      BY <3>1, NotCreating, <1>1, <1>3, <2>3, TasksStay DEF TrackKeeps
  <2>6. Core'
    BY <1>1, <1>3, <2>5, CoreAgain, <2>2, <2>3, <2>4, HistoryTyped
      DEF THist, TTrack, TrackRest, Core, TypeInv, TrackOK
  <2> QED
    BY <1>1, <1>2, <1>5, <2>1, <2>3, <2>4, <2>6 DEF TrackStands
<1>6. CASE ~Unheard(m) /\ track.user
  <2>1. Begins(Call("mute", "mute")) /\ track' = track /\ history' = [history EXCEPT !.heard = history.heard \ {m}] /\ track.published
    BY <1>6 DEF MediaEnds, Unheard
  <2>2. /\ history' \in Histories /\ history'.heard = history.heard \ {m} /\ history'.lost = history.lost /\ history'.wanted = history.wanted
        /\ history'.failed = history.failed /\ history'.raced = history.raced /\ HistoryStands
    BY <2>1, HistoryTyped DEF Histories, HistoryStands
  <2>3. TaskCore' /\ \E i \in Tasks : task[i].op = "idle" /\ task' = [task EXCEPT ![i] = Call("mute", "mute")]
    BY <2>1, TaskBegins, <1>1, <1>3, FreshCall DEF Core, Ops, Places, Legal, TrackKeeps
  <2> QED
    BY <1>1, <1>2, <1>6, <2>1, <2>2, <2>3, <1>3, CoreAgain, HistoryTyped
      DEF TrackStands, THist, TTrack, TrackRest, Core, TypeInv, TrackOK
<1>7. CASE ~Unheard(m) /\ ~track.user
  <2>1. PICK w, r : w = (IF kind.camera THEN history.wanted ELSE Fallback) /\ r = (history.raced \/ Changing)
    OBVIOUS
  <2>2. Begins(EndedCall) /\ track' = [track EXCEPT !.stopped = FALSE, !.reacquire = track.reacquire \/ hidden] /\ track.published /\ ~track.muted
        /\ history' = [history EXCEPT !.heard = history.heard \ {m}, !.raced = r, !.wanted = w]
    BY <1>7, <2>1 DEF MediaEnds, Unheard, EndedCall
  <2>3. history.heard \ {m} \in SUBSET Nat
    BY HistoryTyped DEF Histories
  <2>4. /\ history' \in Histories /\ history'.heard = history.heard \ {m} /\ history'.lost = history.lost /\ history'.wanted = w
        /\ history'.failed = history.failed /\ history'.raced = r /\ HistoryStands
    BY <2>3, <2>2, HistoryTyped, <1>4, <2>1 DEF Histories, HistoryStands, DeviceAssumption
  <2>5. /\ track' \in TrackRecs /\ TrackStands /\ track'.device = track.device /\ track'.pendingDevice = track.pendingDevice /\ ~track'.stopped
    BY <2>2, HistoryTyped DEF TrackRecs, TrackStands
  <2>6. Fresh(EndedCall) /\ EndedCall.op \in Restarts
    <3>1. PICK d \in Devices \union {Unset} : d = (IF kind.camera THEN Unset ELSE Fallback)
      BY <1>4 DEF DeviceAssumption
    <3>2. /\ EndedCall \in Calls /\ EndedCall.op = "ended" /\ EndedCall.at = "change" /\ EndedCall.m = 0 /\ EndedCall.device = d
      BY <3>1 DEF Call, Idle, Calls, Ops, Places, EndedCall
    <3> QED BY <3>1, <3>2 DEF Fresh, DeviceOK, FallsBack, Restarts, Legal, Swapping
  <2>7. Core' /\ \E i \in Tasks : task[i].op = "idle" /\ task' = [task EXCEPT ![i] = EndedCall]
    BY <1>1, <1>3, <1>4, <2>2, <2>5, <2>6, RestartBegins, <2>4, HistoryTyped
      DEF TrackStands, THist, Core, TrackOK, NoTrack, NewTrack
  <2> QED BY <1>1, <1>2, <1>7, <2>1, <2>2, <2>4, <2>5, <2>7
<1> QED BY <1>5, <1>6, <1>7

\* restart stops what it has.
LEMMA CoreRestartEnters ==
  ASSUME Core, NEW i \in Tasks, RestartEnters(i)
  PROVE  /\ Core' /\ task[i].op \in Restarts /\ task[i].at = "change" /\ Enters(i, "change")
         /\ media' = Ended(media, {track.m}) /\ UNCHANGED <<kind, track, backup, sends, layers, asked, timers, muted, active, hidden>>
         /\ HistoryStands /\ history'.failed = history.failed /\ history'.heard = history.heard \ {track.m}
         /\ history'.raced = history.raced /\ history'.wanted = history.wanted /\ history'.lost = history.lost
         /\ \E t \in Calls : /\ task' = [task EXCEPT ![i] = t] /\ t.op = task[i].op /\ t.at = "acquire" /\ t.m = task[i].m
                             /\ t.device = IF FallsBack(task[i]) THEN Fallback ELSE track.device
<1>1. /\ task[i].op \in Restarts /\ task[i].at = "change" /\ Enters(i, "change") /\ lock' = lock
      /\ media' = Ended(media, {track.m}) /\ UNCHANGED <<kind, track, backup, sends, layers, asked, timers, muted, active, hidden>>
      /\ history' = [history EXCEPT !.heard = history.heard \ {track.m}]
  BY DEF RestartEnters, Enters, options, sending, outside
<1>2. PICK t : t = [task[i] EXCEPT !.at = "acquire", !.device = IF task[i].device = Unset THEN track.device ELSE task[i].device]
  OBVIOUS
<1>3. task[i] \in Calls /\ DeviceOK(task[i]) /\ MediaOK(task[i]) /\ track.m # 0 /\ task[i].op \notin {"idle", "create"}
  BY <1>1, TaskFacts DEF Restarts
<1>4. task' = [task EXCEPT ![i] = t]
  BY <1>2 DEF RestartEnters, Core, TypeInv, TTask
<1>5. track.device \in Devices /\ Fallback \in Devices /\ Unset \notin Devices
  BY <1>3, DeviceAssumption DEF Core, TrackOK, DeviceAssumption
<1>6. PICK d \in Devices : d = IF task[i].device = Unset THEN track.device ELSE task[i].device
  BY <1>1, <1>3, <1>5 DEF DeviceOK
<1>7. t \in Calls /\ t.op = task[i].op /\ t.at = "acquire" /\ t.m = task[i].m /\ t.device = d
  BY <1>3, <1>2, <1>6 DEF Calls, Places
<1>8. t.device = IF FallsBack(task[i]) THEN Fallback ELSE track.device
  BY <1>1, <1>3, <1>5, <1>6, <1>7 DEF DeviceOK, Swapping
<1>9. MovesWell(i, {}, t)
  BY <1>1, <1>7, MoveWell DEF MayMove, First, In, Holds, Locks, ChangeTask, InChange, Restarts
<1>10. Kept(media, media') /\ Len(media') = Len(media)
  BY <1>1, EndedFacts, HistoryTyped
<1>11. TrackKeeps
  BY <1>1, <1>10 DEF TrackKeeps
<1>12. Legal(t.op, t.at)
  BY <1>1, <1>7 DEF Restarts, Legal, Swapping
<1>13. DeviceOK(t)
  BY <1>6, <1>7, <1>8 DEF DeviceOK, FallsBack
<1>14. MediaOK(t)' /\ t.m <= Len(media')
  BY <1>1, <1>3, <1>7, <1>10 DEF MediaOK, Core, TypeInv, TTask
<1>15. t.at \notin Locks /\ t.op # "create"
  BY <1>1, <1>7 DEF Locks, Restarts
<1>16. TaskCore'
  BY <1>1, <1>3, <1>4, <1>7, <1>9, <1>11, <1>12, <1>13, <1>14, <1>15, TaskStays
<1>17. /\ history' \in Histories /\ HistoryStands /\ history'.failed = history.failed /\ history'.heard = history.heard \ {track.m}
       /\ history'.raced = history.raced /\ history'.wanted = history.wanted /\ history'.lost = history.lost
  BY HistoryTyped, <1>1 DEF Histories, HistoryStands
<1> QED
  BY <1>1, <1>4, <1>7, <1>8, <1>17, <1>10, <1>16, CoreAgain, HistoryTyped DEF THist

\* setMediaStreamTrack up to its first wait.
SetsFacts(i, m, md, tr) ==
  /\ media' = md /\ track' = tr /\ UNCHANGED <<kind, backup, layers, asked, lock, muted, active, hidden>>
  /\ sends'.main = IF track.published /\ ~tr.processor THEN m ELSE sends.main
  /\ sends'.scaled = sends.scaled /\ sends'.encoded = sends.encoded /\ ~timers'.mute /\ timers'.refresh = timers.refresh
  /\ history'.heard = (history.heard \ {track.m}) \union (IF md[m].live THEN {m} ELSE {})
  /\ ~history'.outrun /\ history'.dropped = (history.dropped \/ (task[i].op \in {"unprocess", "processor"} /\ tr.device # track.device))
  /\ history'.lost = history.lost /\ history'.failed = history.failed /\ history'.raced = history.raced
  /\ history'.wanted = history.wanted /\ history'.bypassed = history.bypassed /\ history'.resized = history.resized /\ history'.missed = history.missed
  /\ \E t \in Calls : /\ task' = [task EXCEPT ![i] = t] /\ t.op = task[i].op /\ t.at = IF tr.processor THEN "process" ELSE "replaced"
                      /\ t.m = m
                      /\ t.device = IF task[i].op \in Restarts /\ ~FallsBack(task[i]) THEN track.device ELSE task[i].device

LEMMA CoreSets ==
  ASSUME Core, NEW i \in Tasks, NEW m \in Nat, NEW md, NEW tr, Sets(i, m, md, tr), Kept(media, md), m \in 1..Len(md),
         tr \in TrackRecs, tr.m = track.m, tr.muted = track.muted, track.user => tr.user, tr.published = track.published,
         tr.stopped = track.stopped, tr.device \in Devices,
         ChangeTask(task[i]) \/ Enters(i, "change"), task[i].op \in Restarts \union {"replace", "unprocess", "processor"},
         (task[i].op \in Restarts /\ task[i].at = "acquire") \/ (task[i].op = "replace" /\ task[i].at = "change" /\ tr.user)
           \/ (task[i].op \in {"unprocess", "processor"} /\ task[i].at = "destroy" /\ m = track.m /\ ~tr.processor)
  PROVE  Core' /\ SetsFacts(i, m, md, tr)
<1>1. /\ media' = md /\ track' = tr /\ UNCHANGED <<kind, backup, layers, asked, lock, muted, active, hidden>>
      /\ sends' = IF track.published /\ ~tr.processor THEN [sends EXCEPT !.main = m] ELSE sends
      /\ timers' = [timers EXCEPT !.mute = FALSE]
  BY DEF Sets, options, outside
<1>2. PICK at : at = IF tr.processor THEN "process" ELSE "replaced"
  OBVIOUS
<1>3. task[i] \in Calls /\ DeviceOK(task[i]) /\ MediaOK(task[i]) /\ track.m # 0 /\ NobodyCreates /\ task[i].op \notin {"idle", "create"}
  BY TaskFacts DEF Restarts
<1>4. track.device \in Devices /\ Fallback \in Devices
  BY <1>3, DeviceAssumption DEF Core, TrackOK, DeviceAssumption
<1>5. PICK d \in Devices \union {Unset, "exact", "ideal"} :
         d = IF task[i].op \in Restarts /\ ~FallsBack(task[i]) THEN track.device ELSE task[i].device
  BY <1>3, <1>4 DEF Calls
<1>6. PICK t : t = [task[i] EXCEPT !.m = m, !.at = at, !.device = d]
  OBVIOUS
<1>7. task' = [task EXCEPT ![i] = t]
  BY <1>2, <1>5, <1>6 DEF Sets, Core, TypeInv, TTask
<1>8. t \in Calls /\ t.op = task[i].op /\ t.at = at /\ t.m = m /\ t.device = d
  BY <1>2, <1>3, <1>6 DEF Calls, Places
<1>9. MovesWell(i, {}, t)
  BY <1>2, <1>8, MoveWell DEF MayMove, First, In, Holds, Locks, ChangeTask, InChange, Restarts, Enters
<1>10. TrackKeeps
  BY <1>1 DEF TrackKeeps
<1>11. Legal(t.op, t.at)
  BY <1>2, <1>8 DEF Restarts, Legal, Swapping
<1>12. DeviceOK(t)
  BY <1>2, <1>3, <1>4, <1>5, <1>8 DEF DeviceOK, FallsBack, Restarts, Swapping
<1>13. t.m <= Len(media') /\ t.m # 0
  BY <1>1, <1>8 DEF Kept
<1>14. MediaOK(t)'
  BY <1>3, <1>1, <1>2, <1>8, <1>13 DEF MediaOK, Restarts
<1>15. t.at \notin Locks /\ t.op # "create"
  BY <1>2, <1>3, <1>8 DEF Locks
<1>16. TaskCore'
  BY <1>1, <1>3, <1>7, <1>8, <1>9, <1>10, <1>11, <1>12, <1>13, <1>14, <1>15, TaskStays
<1>17. TSends' /\ sends'.main = (IF track.published /\ ~tr.processor THEN m ELSE sends.main) /\ sends'.scaled = sends.scaled /\ sends'.encoded = sends.encoded
  <2>1. /\ sends \in [main : Int, backup : Int, scaled : Devices, encoded : Devices] /\ m \in Int
        /\ sends.main \in Processed..Len(media) /\ sends.backup \in Processed..Len(media)
    BY DEF Core, TypeInv, TSends
  <2>2. /\ sends' \in [main : Int, backup : Int, scaled : Devices, encoded : Devices] /\ sends'.backup = sends.backup
        /\ sends'.main = (IF track.published /\ ~tr.processor THEN m ELSE sends.main)
        /\ sends'.scaled = sends.scaled /\ sends'.encoded = sends.encoded
    BY <1>1, <2>1
  <2> QED BY <1>1, <2>1, <2>2, HistoryTyped DEF TSends, Kept, Processed
<1>18. TFlags' /\ ~timers'.mute /\ timers'.refresh = timers.refresh
  BY <1>1 DEF TFlags, Core, TypeInv
<1>19. PICK S \in SUBSET Nat, v \in BOOLEAN :
         /\ S = (history.heard \ {track.m}) \union (IF md[m].live THEN {m} ELSE {})
         /\ v = (history.dropped \/ (task[i].op \in {"unprocess", "processor"} /\ tr.device # track.device))
  BY HistoryTyped DEF Histories
<1>20. /\ history' \in Histories /\ history'.heard = S /\ ~history'.outrun /\ history'.dropped = v
       /\ history'.lost = history.lost /\ history'.failed = history.failed /\ history'.raced = history.raced
       /\ history'.wanted = history.wanted /\ history'.bypassed = history.bypassed /\ history'.resized = history.resized /\ history'.missed = history.missed
  BY HistoryTyped, <1>19 DEF Histories, Sets
<1>21. TTrack' /\ TrackRest'
  BY <1>1, HistoryTyped, <1>3, <1>18 DEF Kept, TrackRecs, TTrack, TrackRest, Core, TrackOK
<1>22. Core'
  BY <1>1, <1>16, <1>17, <1>18, <1>21, CoreAgain, HistoryTyped, <1>19, <1>20 DEF Kept, THist
<1>23. SetsFacts(i, m, md, tr)
  BY <1>1, <1>2, <1>5, <1>7, <1>8, <1>17, <1>18, <1>19, <1>20 DEF SetsFacts
<1> QED BY <1>22, <1>23

NewMedia(d, by) == IF by = "sdk" THEN Captured(d) ELSE [Captured(d) EXCEPT !.by = "user"]
LEMMA NewMediaFacts ==
  ASSUME NEW d \in Devices, NEW by \in {"sdk", "user"}
  PROVE  /\ NewMedia(d, by) \in Media /\ NewMedia(d, by).device = d /\ NewMedia(d, by).live /\ NewMedia(d, by).enabled
         /\ NewMedia(d, by).by = by
BY DEF NewMedia, Captured, Media

LEMMA CoreAcquired ==
  ASSUME Core, NEW i \in Tasks, Acquired(i)
  PROVE  /\ Core' /\ ChangeTask(task[i]) /\ task[i].op \in Restarts /\ task[i].at = "acquire" /\ task[i].device \in Devices
         /\ \E tr : /\ tr = [track EXCEPT !.device = task[i].device]
                    /\ SetsFacts(i, Len(media) + 1, Append(media, NewMedia(task[i].device, "sdk")), tr)
<1>1. task[i].op \in Restarts /\ task[i].at = "acquire"
  BY DEF Acquired
<1>2. task[i].device \in Devices
  BY <1>1, TaskFacts DEF DeviceOK, Swapping, Restarts
<1>3. PICK tr : tr = [track EXCEPT !.device = task[i].device]
  OBVIOUS
<1>4. PICK md : md = Append(media, NewMedia(task[i].device, "sdk"))
  OBVIOUS
<1>5. Sets(i, Len(media) + 1, md, tr)
  BY <1>3, <1>4 DEF Acquired, NewMedia
<1>6. Kept(media, md) /\ Len(md) = Len(media) + 1
  BY <1>2, <1>4, NewMediaFacts, AppendFacts, HistoryTyped
<1>7. /\ tr \in TrackRecs /\ tr.m = track.m /\ tr.muted = track.muted /\ tr.user = track.user /\ tr.published = track.published
      /\ tr.stopped = track.stopped /\ tr.device \in Devices
  BY <1>2, <1>3, HistoryTyped DEF TrackRecs
<1>8. ChangeTask(task[i])
  BY <1>1 DEF ChangeTask, InChange, Restarts
<1>9. Core' /\ SetsFacts(i, Len(media) + 1, md, tr)
  BY <1>1, <1>5, <1>6, <1>7, <1>8, CoreSets, HistoryTyped
<1> QED BY <1>1, <1>2, <1>3, <1>4, <1>8, <1>9

LEMMA CoreReplaceEnters ==
  ASSUME Core, NEW i \in Tasks, ReplaceEnters(i)
  PROVE  /\ Core' /\ Enters(i, "change") /\ task[i].op = "replace" /\ task[i].at = "change" /\ task[i].device \in Devices
         /\ \E tr : /\ tr = [track EXCEPT !.user = TRUE, !.device = task[i].device]
                    /\ SetsFacts(i, Len(media) + 1, Append(media, NewMedia(task[i].device, "user")), tr)
<1>1. task[i].op = "replace" /\ task[i].at = "change" /\ Enters(i, "change")
  BY DEF ReplaceEnters, Enters
<1>2. task[i].device \in Devices
  BY <1>1, TaskFacts DEF DeviceOK
<1>3. PICK tr : tr = [track EXCEPT !.user = TRUE, !.device = task[i].device]
  OBVIOUS
<1>4. PICK md : md = Append(media, NewMedia(task[i].device, "user"))
  OBVIOUS
<1>5. Kept(media, md) /\ Len(md) = Len(media) + 1
  BY <1>2, <1>4, NewMediaFacts, AppendFacts, HistoryTyped
<1>6. Len(media) + 1 \in Nat /\ Len(media) + 1 \in 1..Len(md)
  BY <1>5, HistoryTyped
<1>7. /\ tr \in TrackRecs /\ tr.m = track.m /\ tr.muted = track.muted /\ tr.user /\ tr.published = track.published
      /\ tr.stopped = track.stopped /\ tr.device \in Devices
  BY <1>2, <1>3, HistoryTyped DEF TrackRecs
<1>8. Core' /\ SetsFacts(i, Len(media) + 1, md, tr)
  BY <1>1, <1>5, <1>6, <1>7, CoreSets, <1>3, <1>4 DEF ReplaceEnters, NewMedia
<1> QED BY <1>1, <1>2, <1>3, <1>4, <1>8

LEMMA CoreDestroyed ==
  ASSUME Core, NEW i \in Tasks, Destroyed(i)
  PROVE  /\ Core' /\ ChangeTask(task[i]) /\ task[i].op \in {"unprocess", "processor"} /\ task[i].at = "destroy"
         /\ \E tr, d : /\ tr = [track EXCEPT !.processor = FALSE, !.device = d] /\ d \in Devices
                       /\ SetsFacts(i, track.m, media, tr)
<1>1. task[i].at = "destroy"
  BY DEF Destroyed
<1>2. task[i].op \in {"unprocess", "processor"} /\ task[i].op \notin {"idle", "create"}
  BY TaskFacts, <1>1 DEF Legal, Swapping, Later
<1>3. track.m # 0 /\ track.m \in Nat /\ track.m \in 1..Len(media) /\ track.device \in Devices /\ media[track.m].device \in Devices
  <2>1. track.m # 0 /\ track.m \in Nat /\ track.m \in 1..Len(media) /\ track.device \in Devices
    BY <1>2, TaskFacts, HistoryTyped DEF TrackRecs, Core, TrackOK
  <2>2. media[track.m] \in Media
    BY <2>1, HistoryTyped
  <2> QED BY <2>1, <2>2 DEF Media
<1>4. PICK d \in Devices : Sets(i, track.m, media, [track EXCEPT !.processor = FALSE, !.device = d])
  BY <1>3 DEF Destroyed
<1>5. PICK tr : tr = [track EXCEPT !.processor = FALSE, !.device = d]
  OBVIOUS
<1>6. /\ tr \in TrackRecs /\ tr.m = track.m /\ tr.muted = track.muted /\ tr.user = track.user /\ tr.published = track.published
      /\ tr.stopped = track.stopped /\ tr.device \in Devices /\ ~tr.processor
  BY <1>4, <1>5, HistoryTyped DEF TrackRecs
<1>7. ChangeTask(task[i])
  BY <1>1, <1>2 DEF ChangeTask, InChange
<1>8. Kept(media, media) /\ Sets(i, track.m, media, tr)
  BY <1>4, <1>5, HistoryTyped, KeptSame
<1> QED
  BY <1>1, <1>2, <1>4, <1>5, <1>7, <1>3, <1>6, <1>8, CoreSets

\* An operation in the middle of a change ends without one.
LEMMA FailsMoves ==
  ASSUME Core, NEW i \in Tasks, ChangeTask(task[i]), task[i].op \in Restarts \union {"replace"}, ChangeFails(i),
         Kept(media, media'), kind' = kind, track' = track
  PROVE  /\ TaskCore' /\ NobodyCreates /\ task[i].op \notin {"idle", "create"}
         /\ task' = [task EXCEPT ![i] = IF task[i].op = "ended" THEN Call("mute", "mute") ELSE Idle]
<1>1. PICK t, frees : /\ t = (IF task[i].op = "ended" THEN Call("mute", "mute") ELSE Idle)
                      /\ frees = (IF task[i].op = "unmute" THEN {"mute", "change"} ELSE {"change"})
  OBVIOUS
<1>2. task[i].op \notin {"idle", "create"} /\ task[i].at \in InChange
  BY DEF Restarts, ChangeTask
<1>3. /\ t \in Calls /\ Legal(t.op, t.at) /\ DeviceOK(t) /\ MediaOK(t)' /\ t.m = 0 /\ t.op \in {"mute", "idle"}
      /\ t.op = "mute" => t.at = "mute" /\ task[i].op = "ended"
      /\ t.op = "idle" => t.at = "none"
  <2>1. CASE task[i].op = "ended"
    <3>1. Fresh(Call("mute", "mute")) /\ Call("mute", "mute").op = "mute" /\ Call("mute", "mute").at = "mute"
      BY FreshCall DEF Core, Ops, Places, Legal
    <3> QED BY <1>1, <2>1, <3>1 DEF Fresh, MediaOK
  <2> QED
    BY <2>1, <1>1, IdleIsFine
<1>4. TrackKeeps /\ t.m <= Len(media') /\ t.op # "create"
  BY <1>3 DEF TrackKeeps, Kept
<1>5. task' = [task EXCEPT ![i] = t] /\ TaskCore' /\ NobodyCreates
  BY <1>2, <1>3, <1>4, TaskGoesOn, <1>1, MoveWell
    DEF ChangeFails, MayMove, First, In, Holds, Locks, ChangeTask, InChange
<1> QED BY <1>1, <1>2, <1>5

LEMMA CoreAcquireFails ==
  ASSUME Core, NEW i \in Tasks, AcquireFails(i)
  PROVE  /\ Core' /\ task[i].op \in Restarts /\ task[i].at = "acquire" /\ ChangeTask(task[i])
         /\ UNCHANGED <<kind, track, backup, sends, layers, asked, timers, muted, active, hidden>>
         /\ HistoryStands /\ history'.failed /\ history'.heard = history.heard /\ history'.raced = history.raced
         /\ history'.wanted = IF FallsBack(task[i]) THEN track.device ELSE history.wanted
         /\ \/ media' = media /\ history'.lost = history.lost
            \/ /\ media' = Append(media, NewMedia(task[i].device, "sdk")) /\ task[i].device \in Devices
               /\ history'.lost = history.lost \union {Len(media) + 1}
         /\ task' = [task EXCEPT ![i] = IF task[i].op = "ended" THEN Call("mute", "mute") ELSE Idle]
<1>1. /\ task[i].op \in Restarts /\ task[i].at = "acquire" /\ ChangeFails(i)
      /\ UNCHANGED <<kind, track, backup, sends, layers, asked, timers, muted, active, hidden>>
  BY DEF AcquireFails, sending, outside
<1>2. ChangeTask(task[i])
  BY <1>1 DEF ChangeTask, InChange, Restarts
<1>3. task[i].device \in Devices /\ track.device \in Devices
  BY <1>1, TaskFacts DEF DeviceOK, Swapping, Core, TrackOK, Restarts
<1>4. PICK forgotten \in BOOLEAN : \E gone, w :
        /\ media' = IF forgotten THEN Append(media, Captured(task[i].device)) ELSE media
        /\ gone = IF forgotten THEN history.lost \union {Len(media) + 1} ELSE history.lost
        /\ w = IF FallsBack(task[i]) THEN track.device ELSE history.wanted
        /\ history' = [history EXCEPT !.failed = TRUE, !.lost = gone, !.wanted = w]
  <2>1. PICK f \in {FALSE, kind.camera /\ Len(media) < MaxMedia} :
          /\ media' = IF f THEN Append(media, Captured(task[i].device)) ELSE media
          /\ history' = [history EXCEPT !.failed = TRUE, !.lost = IF f THEN @ \union {Len(media) + 1} ELSE @,
                                        !.wanted = IF FallsBack(task[i]) THEN track.device ELSE @]
    BY DEF AcquireFails
  <2> QED
    BY <2>1, HistoryTyped DEF Kinds
<1>5. PICK gone, w :
        /\ media' = IF forgotten THEN Append(media, Captured(task[i].device)) ELSE media
        /\ gone = IF forgotten THEN history.lost \union {Len(media) + 1} ELSE history.lost
        /\ w = IF FallsBack(task[i]) THEN track.device ELSE history.wanted
        /\ history' = [history EXCEPT !.failed = TRUE, !.lost = gone, !.wanted = w]
  BY <1>4
<1>6. NewMedia(task[i].device, "sdk") = Captured(task[i].device)
  BY DEF NewMedia
<1>7. /\ Kept(media, media') /\ gone \subseteq 1..Len(media') /\ gone \in SUBSET Nat
      /\ (media' = media /\ gone = history.lost) \/ (media' = Append(media, NewMedia(task[i].device, "sdk"))
                                                      /\ gone = history.lost \union {Len(media) + 1})
  BY <1>5, <1>6, <1>3, NewMediaFacts, AppendFacts, HistoryTyped, KeptSame DEF Histories
<1>8. /\ history' \in Histories /\ HistoryStands /\ history'.failed /\ history'.heard = history.heard /\ history'.raced = history.raced
      /\ history'.wanted = w /\ history'.lost = gone
  BY <1>5, <1>7, HistoryTyped, <1>3 DEF Histories, HistoryStands
<1>9. TaskCore' /\ task' = [task EXCEPT ![i] = IF task[i].op = "ended" THEN Call("mute", "mute") ELSE Idle]
  BY <1>1, <1>2, <1>7, FailsMoves
<1>10. Core'
  BY <1>1, <1>7, <1>9, CoreAgain, HistoryTyped, <1>8 DEF Kept, THist
<1> QED BY <1>1, <1>2, <1>3, <1>5, <1>7, <1>8, <1>9, <1>10

LEMMA CoreProcessFails ==
  ASSUME Core, NEW i \in Tasks, ProcessFails(i)
  PROVE  /\ Core' /\ task[i].op \in Restarts \union {"replace"} /\ task[i].at = "process" /\ ChangeTask(task[i])
         /\ UNCHANGED <<kind, media, track, backup, sends, layers, asked, timers, muted, active, hidden>>
         /\ HistoryStands /\ history'.failed /\ history'.heard = history.heard /\ history'.raced = history.raced
         /\ history'.wanted = history.wanted /\ history'.lost = history.lost \union ({task[i].m} \ OwnMedia)
         /\ task' = [task EXCEPT ![i] = IF task[i].op = "ended" THEN Call("mute", "mute") ELSE Idle]
<1>1. /\ task[i].at = "process" /\ ChangeFails(i)
      /\ UNCHANGED <<kind, media, track, backup, sends, layers, asked, timers, muted, active, hidden>>
  BY DEF ProcessFails, sending, outside
<1>2. task[i].op \in Restarts \union {"replace"}
  BY TaskFacts, <1>1 DEF Legal, Swapping, Restarts, Later
<1>3. ChangeTask(task[i])
  BY <1>1, <1>2 DEF ChangeTask, InChange, Restarts
<1>4. Kept(media, media')
  BY <1>1, KeptSame, HistoryTyped
<1>5. task[i].m \in Nat /\ task[i].m # 0 /\ task[i].m <= Len(media)
  BY TaskFacts, <1>1 DEF MediaOK, Calls, Core, TypeInv, TTask
<1>6. PICK gone \in SUBSET Nat : gone = history.lost \union ({task[i].m} \ OwnMedia)
  BY <1>5, HistoryTyped DEF Histories
<1>7. /\ history' \in Histories /\ HistoryStands /\ history'.failed /\ history'.heard = history.heard /\ history'.raced = history.raced
      /\ history'.wanted = history.wanted /\ history'.lost = gone
  BY HistoryTyped, <1>6 DEF Histories, HistoryStands, ProcessFails
<1>8. THist'
  BY <1>1, <1>7, HistoryTyped, <1>5, <1>6 DEF THist
<1> QED
  BY <1>1, <1>2, <1>3, <1>6, <1>7, <1>4, <1>8, CoreAgain, FailsMoves

\* After a change the encodings are computed anew, or nothing is left to do.
Refreshing(t) == [t EXCEPT !.at = "sender", !.m = 0]
LEMMA RefreshMoves ==
  ASSUME Core, NEW i \in Tasks, NEW frees, Refreshes(i, frees), task[i].op \in Swaps,
         TrackKeeps \/ TrackMoves(i),
         \/ frees = {"change"} /\ (ChangeTask(task[i]) \/ Enters(i, "change"))
         \/ frees = {} /\ task[i].at = "clone"
  PROVE  /\ TaskCore' /\ NobodyCreates
         /\ \E t \in Calls : /\ task' = [task EXCEPT ![i] = t] /\ GoesOn(i, frees, t)
                             /\ IF kind.camera /\ track.published /\ ~layers.performance
                                  THEN t.at = "sender" /\ t.op = task[i].op ELSE t = Idle
<1>1. PICK t : t = IF kind.camera /\ track.published /\ ~layers.performance THEN Refreshing(task[i]) ELSE Idle
  OBVIOUS
<1>2. GoesOn(i, frees, t)
  BY <1>1 DEF Refreshes, Refreshing
<1>3. task[i] \in Calls /\ DeviceOK(task[i]) /\ task[i].op \notin {"idle", "create", "unmute"}
  BY TaskFacts DEF Swaps
<1>4. /\ t \in Calls /\ t.m = 0 /\ (t = Idle \/ (t.op = task[i].op /\ t.at = "sender"))
      /\ IF kind.camera /\ track.published /\ ~layers.performance THEN t.at = "sender" /\ t.op = task[i].op ELSE t = Idle
  BY <1>1, <1>3, IdleIsFine DEF Refreshing, Calls, Places
<1>5. MovesWell(i, frees, t)
  BY MoveWell, IdleIsFine, <1>3, <1>4 DEF Locks, MayMove, First, In, Holds, ChangeTask, InChange, Enters
<1>6. t.m <= Len(media')
  BY <1>4 DEF TrackKeeps, TrackMoves, Kept
<1>7. task' = [task EXCEPT ![i] = t] /\ TaskCore' /\ NobodyCreates
  BY <1>2, <1>3, <1>4, <1>5, <1>6, TaskGoesOn, IdleIsFine DEF Swaps, Legal, Later, Swapping, DeviceOK, MediaOK
<1> QED BY <1>2, <1>4, <1>7

LEMMA CoreReprocessed ==
  ASSUME Core, NEW i \in Tasks, Reprocessed(i)
  PROVE  /\ Core' /\ task[i].op \in Restarts \union {"replace"} /\ task[i].at = "process" /\ ChangeTask(task[i]) /\ track.processor
         /\ UNCHANGED <<kind, media, track, backup, layers, asked, timers, muted, active, hidden, history>>
         /\ sends'.main = IF track.published THEN Processed ELSE sends.main
         /\ sends'.scaled = sends.scaled /\ sends'.encoded = sends.encoded
         /\ \E t \in Calls : /\ task' = [task EXCEPT ![i] = t] /\ t.op = task[i].op /\ t.at = "replaced" /\ t.m = task[i].m
                             /\ t.device = task[i].device
<1>1. /\ task[i].at = "process" /\ track.processor /\ Reaches(i, "replaced")
      /\ UNCHANGED <<kind, media, track, backup, layers, asked, timers, muted, active, hidden, history>>
      /\ sends' = IF track.published THEN [sends EXCEPT !.main = Processed] ELSE sends
  BY DEF Reprocessed, options, outside
<1>2. task[i] \in Calls /\ Legal(task[i].op, task[i].at) /\ DeviceOK(task[i]) /\ MediaOK(task[i])
  BY TaskFacts
<1>3. task[i].op \in Restarts \union {"replace"} /\ task[i].op \notin {"idle", "create"}
  BY <1>1, <1>2 DEF Legal, Swapping, Restarts, Later
<1>4. ChangeTask(task[i])
  BY <1>1, <1>3 DEF ChangeTask, InChange, Restarts
<1>5. PICK t : t = [task[i] EXCEPT !.at = "replaced"]
  OBVIOUS
<1>6. t \in Calls /\ t.op = task[i].op /\ t.at = "replaced" /\ t.m = task[i].m /\ t.device = task[i].device
  BY <1>2, <1>5 DEF Calls, Places
<1>7. task' = [task EXCEPT ![i] = t] /\ lock' = lock
  BY <1>1, <1>5 DEF Reaches
<1>8. MovesWell(i, {}, t)
  BY <1>1, <1>6, <1>4, MoveWell DEF MayMove, First, In, Holds, Locks, ChangeTask, InChange
<1>9. TrackKeeps /\ Kept(media, media')
  BY <1>1, SameKeeps, KeptSame, HistoryTyped
<1>10. MediaOK(t)' /\ t.m <= Len(media')
  BY <1>1, <1>2, <1>3, <1>6 DEF Core, TypeInv, TTask, MediaOK, Restarts
<1>11. TaskCore'
  BY <1>3, <1>6, <1>7, <1>8, <1>9, <1>10, TaskStays, <1>1, <1>2
    DEF Legal, Swapping, Restarts, Locks, DeviceOK, FallsBack
<1>12. TSends' /\ sends'.main = (IF track.published THEN Processed ELSE sends.main) /\ sends'.scaled = sends.scaled /\ sends'.encoded = sends.encoded
  <2>1. /\ sends \in [main : Int, backup : Int, scaled : Devices, encoded : Devices] /\ sends.main \in Processed..Len(media) /\ sends.backup \in Processed..Len(media)
        /\ Len(media) \in Nat
    BY HistoryTyped DEF Core, TypeInv, TSends
  <2>2. Processed \in Int /\ Processed \in Processed..Len(media)
    BY <2>1 DEF Processed
  <2>3. CASE track.published
    <3> HIDE DEF Processed
    <3> QED
      BY <1>1, <2>1, <2>2, <2>3 DEF TSends
  <2> QED
    BY <2>3, <1>1, <2>1 DEF TSends
<1> QED
  BY <1>1, <1>3, <1>4, <1>6, <1>7, <1>12, <1>9, <1>11, CoreAgain

\* Steps of a processor.
LEMMA CoreProcessorEnters ==
  ASSUME Core, NEW i \in Tasks, ProcessorEnters(i)
  PROVE  /\ Core' /\ UNCHANGED <<kind, media, track, backup, sends, layers, asked, timers, muted, active, hidden, history>>
         /\ \E t \in Calls : task' = [task EXCEPT ![i] = t] /\ task[i].op = "processor" /\ t.op = "processor"
<1>1. /\ task[i].op = "processor" /\ task[i].at = "change" /\ Enters(i, "change") /\ Reaches(i, "init")
      /\ UNCHANGED <<kind, media, track, backup, sends, layers, asked, timers, muted, active, hidden, history>>
  BY DEF ProcessorEnters, options, outside, sending, Enters
<1>2. PICK t : t = [task[i] EXCEPT !.at = "init"]
  OBVIOUS
<1>3. t \in Calls /\ t.op = "processor" /\ t.at = "init" /\ t.m = task[i].m
  BY <1>1, <1>2, TaskFacts DEF Calls, Places
<1>4. task' = [task EXCEPT ![i] = t] /\ lock' = lock
  BY <1>1, <1>2 DEF Reaches
<1>5. MovesWell(i, {}, t)
  BY <1>1, <1>3, MoveWell DEF MayMove, First, In, Holds, Locks, ChangeTask, InChange
<1>6. TrackKeeps /\ Kept(media, media')
  BY <1>1, SameKeeps, KeptSame, HistoryTyped
<1>7. TaskCore'
  BY <1>1, <1>3, <1>4, <1>5, <1>6, TaskStays
    DEF Core, TypeInv, TTask, Legal, Locks, DeviceOK, MediaOK, Restarts, FallsBack
<1> QED
  BY <1>1, <1>3, <1>4, <1>6, <1>7, CoreAgain

\* An operation that ends while it holds trackChangeLock.
LEMMA ChangeIsOver ==
  ASSUME Core, NEW i \in Tasks, ChangeTask(task[i]) \/ Enters(i, "change"), task[i].op \in {"processor", "unprocess", "replace"}, GoesOn(i, {"change"}, Idle), TrackKeeps
  PROVE  TaskCore' /\ NobodyCreates /\ task' = [task EXCEPT ![i] = Idle]
<1>1. task[i].op \notin {"idle", "create"} /\ (task[i].at \in InChange \/ Enters(i, "change"))
  BY DEF ChangeTask
<1>2. Idle.m <= Len(media')
  BY IdleIsFine DEF TrackKeeps, Kept
<1> QED
  BY <1>1, <1>2, IdleIsFine, TaskGoesOn, MoveWell DEF MayMove, First, In, Holds, Locks, ChangeTask, InChange, Enters

LEMMA CoreReplaceRefused ==
  ASSUME Core, NEW i \in Tasks, ReplaceRefused(i)
  PROVE  /\ Core' /\ UNCHANGED <<kind, media, track, backup, sends, layers, asked, timers, muted, active, hidden, history>>
         /\ task' = [task EXCEPT ![i] = Idle] /\ task[i].op = "replace" /\ task[i].at = "change"
  BY SameKeeps, KeptSame, HistoryTyped, ChangeIsOver, CoreAgain
    DEF ReplaceRefused, outside, sending, options, Enters

LEMMA CoreInitFails ==
  ASSUME Core, NEW i \in Tasks, InitFails(i)
  PROVE  /\ Core' /\ UNCHANGED <<kind, media, track, backup, sends, layers, asked, timers, muted, active, hidden, history>>
         /\ task' = [task EXCEPT ![i] = Idle] /\ task[i].op = "processor"
  BY SameKeeps, KeptSame, HistoryTyped, ChangeIsOver, CoreAgain
    DEF InitFails, outside, sending, ChangeTask, InChange

LEMMA CoreDestroyFails ==
  ASSUME Core, NEW i \in Tasks, DestroyFails(i)
  PROVE  /\ Core' /\ UNCHANGED <<kind, media, backup, sends, layers, asked, timers, muted, active, hidden>>
         /\ task' = [task EXCEPT ![i] = Idle] /\ task[i].op \in {"unprocess", "processor"} /\ task[i].at = "destroy"
         /\ track'.m = track.m /\ track'.muted = track.muted /\ track'.user = track.user
         /\ track'.paused = track.paused /\ track'.published = track.published
         /\ track'.device = track.device /\ track'.pendingDevice = track.pendingDevice /\ track'.stopped = track.stopped
         /\ HistoryStands /\ history'.failed /\ history'.heard = history.heard /\ history'.raced = history.raced
         /\ history'.wanted = history.wanted /\ history'.lost = history.lost
<1>1. /\ task[i].at = "destroy" /\ GoesOn(i, {"change"}, Idle)
      /\ UNCHANGED <<kind, media, backup, sends, layers, asked, timers, muted, active, hidden>>
      /\ track' \in {track, [track EXCEPT !.processor = FALSE]} /\ history' = [history EXCEPT !.failed = TRUE]
  BY DEF DestroyFails, outside, sending
<1>2. task[i].op \in {"unprocess", "processor"} /\ track.m # 0
  BY TaskFacts, <1>1 DEF Legal, Swapping, Later
<1>3. /\ track' \in TrackRecs /\ track'.m = track.m /\ track'.muted = track.muted /\ track'.user = track.user
      /\ track'.paused = track.paused /\ track'.published = track.published
      /\ track'.device = track.device /\ track'.pendingDevice = track.pendingDevice /\ track'.stopped = track.stopped
  BY HistoryTyped, <1>1 DEF TrackRecs
<1>4. TrackKeeps /\ Kept(media, media')
  BY <1>1, <1>3, KeptSame, HistoryTyped DEF TrackKeeps
<1>5. TaskCore' /\ task' = [task EXCEPT ![i] = Idle]
  BY <1>1, <1>2, <1>4, ChangeIsOver DEF ChangeTask, InChange
<1>6. /\ history' \in Histories /\ HistoryStands /\ history'.failed /\ history'.heard = history.heard /\ history'.raced = history.raced
      /\ history'.wanted = history.wanted /\ history'.lost = history.lost
  BY <1>1, HistoryTyped DEF Histories, HistoryStands
<1> QED
  BY <1>1, <1>2, <1>3, <1>5, <1>6, <1>4, CoreAgain, HistoryTyped DEF THist, TTrack, TrackRest, Core, TrackOK

LEMMA CoreUnprocessEnters ==
  ASSUME Core, NEW i \in Tasks, UnprocessEnters(i)
  PROVE  /\ Core' /\ UNCHANGED <<kind, media, track, backup, sends, layers, asked, timers, muted, active, hidden, history>>
         /\ task[i].op = "unprocess" /\ task[i].at = "change" /\ Enters(i, "change")
         /\ \E t \in Calls : /\ task' = [task EXCEPT ![i] = t]
                             /\ t = Idle \/ (t.op = "unprocess" /\ t.at \in {"destroy", "sender"})
                             /\ t.at # "destroy" => IF kind.camera /\ track.published /\ ~layers.performance
                                                      THEN t.at = "sender" ELSE t = Idle
<1>1. /\ task[i].op = "unprocess" /\ task[i].at = "change" /\ Enters(i, "change")
      /\ UNCHANGED <<kind, media, track, backup, sends, layers, asked, timers, muted, active, hidden, history>>
  BY DEF UnprocessEnters, options, outside, sending, Enters
<1>2. TrackKeeps /\ Kept(media, media')
  BY <1>1, SameKeeps, KeptSame, HistoryTyped
<1>3. CASE track.processor
  <2>1. PICK t : t = [task[i] EXCEPT !.at = "destroy"]
    OBVIOUS
  <2>2. t \in Calls /\ t.op = "unprocess" /\ t.at = "destroy" /\ t.m = task[i].m
    BY <1>1, <2>1, TaskFacts DEF Calls, Places
  <2>3. task' = [task EXCEPT ![i] = t] /\ lock' = lock
    BY <1>3, <2>1 DEF Reaches, UnprocessEnters
  <2>4. MovesWell(i, {}, t)
    BY <1>1, <2>2, MoveWell DEF MayMove, First, In, Holds, Locks, ChangeTask, InChange
  <2>5. TaskCore'
    BY <1>1, <1>2, <2>2, <2>3, <2>4, TaskStays
      DEF Core, TypeInv, TTask, Legal, Locks, DeviceOK, MediaOK, Restarts, FallsBack
  <2> QED BY <1>1, <1>2, <2>2, <2>3, <2>5, CoreAgain
<1> QED
  BY <1>3, <1>1, <1>2, RefreshMoves, CoreAgain DEF UnprocessEnters, Swaps

\* The media of the track is the new one.
LEMMA CoreReplaced ==
  ASSUME Core, NEW i \in Tasks, Replaced(i)
  PROVE  /\ Core' /\ task[i].op \in Restarts \union {"replace", "unprocess", "processor"} /\ task[i].at = "replaced" /\ ChangeTask(task[i])
         /\ UNCHANGED <<kind, backup, sends, layers, asked, timers, muted, active, hidden, lock>>
         /\ task[i].m \in 1..Len(media)
         /\ track' = [track EXCEPT !.m = task[i].m] /\ track'.m = task[i].m /\ track'.muted = track.muted /\ track'.user = track.user
         /\ track'.paused = track.paused /\ track'.published = track.published /\ track'.processor = track.processor
         /\ track'.device = track.device /\ track'.pendingDevice = track.pendingDevice /\ track'.stopped = track.stopped
         /\ Kept(media, media') /\ Len(media') = Len(media)
         /\ \A k \in 1..Len(media) : /\ media'[k].live <=> media[k].live /\ (track.user \/ k # track.m \/ k = task[i].m)
                                     /\ k # task[i].m => media'[k].enabled = media[k].enabled
         /\ media'[task[i].m].enabled <=> (task[i].op = "unmute" \/ ~track.muted)
         /\ HistoryStands /\ history'.failed = history.failed /\ history'.raced = history.raced /\ history'.wanted = history.wanted
         /\ history'.heard = history.heard \ ({track.m} \ {task[i].m})
         /\ history.lost \subseteq history'.lost
         /\ track.user /\ track.m # task[i].m /\ media[track.m].by = "sdk" => track.m \in history'.lost
         /\ ~track.user => history'.lost = history.lost
         /\ \E t \in Calls : /\ task' = [task EXCEPT ![i] = t] /\ t.op = task[i].op /\ t.at = "resume" /\ t.m = task[i].m
                             /\ t.device = task[i].device
<1>1. /\ task[i].at = "replaced" /\ Reaches(i, "resume")
      /\ UNCHANGED <<kind, backup, sends, layers, asked, timers, muted, active, hidden>>
      /\ track' = [track EXCEPT !.m = task[i].m]
  BY DEF Replaced, options, outside, sending
<1>2. task[i] \in Calls /\ Legal(task[i].op, task[i].at) /\ DeviceOK(task[i]) /\ MediaOK(task[i])
  BY TaskFacts
<1>3. task[i].op \in Restarts \union {"replace", "unprocess", "processor"} /\ task[i].op \notin {"idle", "create"}
  BY <1>1, <1>2 DEF Legal, Swapping, Restarts, Later
<1>4. ChangeTask(task[i])
  BY <1>1, <1>3 DEF ChangeTask, InChange, Restarts
<1>5. PICK m : m = task[i].m
  OBVIOUS
<1>6. m \in Nat /\ m # 0 /\ m \in 1..Len(media)
  BY <1>1, <1>2, <1>5, HistoryTyped DEF MediaOK, Calls, Core, TypeInv, TTask
<1>7. /\ track' \in TrackRecs /\ track'.m = m /\ track'.muted = track.muted /\ track'.user = track.user
      /\ track'.paused = track.paused /\ track'.published = track.published /\ track'.processor = track.processor
      /\ track'.device = track.device /\ track'.pendingDevice = track.pendingDevice /\ track'.stopped = track.stopped
  BY <1>1, <1>5, <1>6, HistoryTyped DEF TrackRecs
<1>8. PICK v \in BOOLEAN : v = (task[i].op = "unmute" \/ ~track.muted)
  OBVIOUS
<1>9. PICK md : md = IF track.user THEN media ELSE Ended(media, {track.m} \ {m})
  OBVIOUS
<1>10. /\ Kept(media, md) /\ Len(md) = Len(media) /\ md \in Seq(Media)
       /\ \A k \in 1..Len(media) : /\ md[k].live <=> media[k].live /\ (track.user \/ k # track.m \/ k = m)
                                   /\ md[k].enabled = media[k].enabled
  BY EndedFacts, HistoryTyped, <1>9, KeptSame DEF Kept
<1>11. media' = Enabled(md, {m}, v)
  BY <1>5, <1>8, <1>9 DEF Replaced
<1>12. /\ Kept(md, media') /\ Len(media') = Len(md)
       /\ \A k \in 1..Len(md) : /\ media'[k].live = md[k].live
                                /\ media'[k].enabled = IF k \in {m} THEN v ELSE md[k].enabled
  BY <1>10, <1>11, EnabledFacts
<1>13. Kept(media, media') /\ Len(media') = Len(media)
  BY <1>10, <1>12, KeptTwice, HistoryTyped
<1>14. PICK H \in SUBSET Nat, L \in SUBSET Nat :
         /\ H = history.heard \ ({track.m} \ {m})
         /\ L = IF track.user THEN history.lost \union {k \in {track.m} \ {m} : media[k].by = "sdk"} ELSE history.lost
  BY HistoryTyped DEF Histories, TrackRecs
<1>15. /\ history' \in Histories /\ HistoryStands /\ history'.failed = history.failed /\ history'.raced = history.raced
       /\ history'.wanted = history.wanted /\ history'.heard = H /\ history'.lost = L
  BY HistoryTyped, <1>5, <1>14 DEF Histories, HistoryStands, Replaced
<1>16. track.m # 0 /\ track.m \in 1..Len(media)
  BY <1>3, TaskFacts, HistoryTyped DEF TrackRecs
<1>17. PICK t : t = [task[i] EXCEPT !.at = "resume"]
  OBVIOUS
<1>18. t \in Calls /\ t.op = task[i].op /\ t.at = "resume" /\ t.m = m /\ t.device = task[i].device
  BY <1>2, <1>5, <1>17 DEF Calls, Places
<1>19. task' = [task EXCEPT ![i] = t] /\ lock' = lock
  BY <1>1, <1>17 DEF Reaches
<1>20. MovesWell(i, {}, t)
  BY <1>1, <1>18, <1>4, MoveWell DEF MayMove, First, In, Holds, Locks, ChangeTask, InChange
<1>21. TrackMoves(i)
  BY <1>4, ChangeIsExclusive, <1>19, <1>3, TaskFacts, <1>7, <1>1, <1>6, <1>13
    DEF Core, TypeInv, TTask, TasksOK, ChangeTask, InChange, NobodyCreates, MediaOK, TrackMoves
<1>22. MediaOK(t)' /\ t.m <= Len(media')
  BY <1>1, <1>2, <1>3, <1>6, <1>7, <1>13, <1>18 DEF MediaOK, Restarts
<1>23. TaskCore'
  BY <1>3, <1>18, <1>19, <1>20, <1>21, <1>22, TaskStays, <1>1, <1>2
    DEF Legal, Swapping, Restarts, Locks, DeviceOK, FallsBack
<1>24. TTrack' /\ TrackRest'
  BY <1>1, <1>6, <1>7, <1>13, <1>16 DEF TTrack, TrackRest, Core, TrackOK
<1>25. Core'
  BY <1>1, <1>13, <1>23, <1>24, CoreAgain, <1>14, <1>15, <1>16, HistoryTyped DEF THist
<1>26. /\ history'.heard = history.heard \ ({track.m} \ {task[i].m})
       /\ history.lost \subseteq history'.lost
       /\ track.user /\ track.m # task[i].m /\ media[track.m].by = "sdk" => track.m \in history'.lost
       /\ ~track.user => history'.lost = history.lost
  BY <1>5, <1>14, <1>15
<1>27. \E u \in Calls : /\ task' = [task EXCEPT ![i] = u] /\ u.op = task[i].op /\ u.at = "resume" /\ u.m = task[i].m
                        /\ u.device = task[i].device
  BY <1>5, <1>18, <1>19
<1>28. /\ task[i].m \in 1..Len(media) /\ (media'[task[i].m].enabled <=> (task[i].op = "unmute" \/ ~track.muted)) /\ track'.m = task[i].m
       /\ \A k \in 1..Len(media) : /\ media'[k].live <=> media[k].live /\ (track.user \/ k # track.m \/ k = task[i].m)
                                   /\ k # task[i].m => media'[k].enabled = media[k].enabled
  BY <1>5, <1>6, <1>7, <1>8, <1>10, <1>12
<1> QED BY <1>1, <1>3, <1>4, <1>7, <1>13, <1>15, <1>19, <1>25, <1>26, <1>27, <1>28

\* The end of a change.
EndsFacts(i) ==
  LET t == task[i] restores == t.op \in Restarts stops == Stops(t) unmutes == t.op = "unmute" IN
  /\ UNCHANGED <<kind, backup, layers, asked, timers, hidden>>
  /\ track'.m = track.m /\ track'.user = track.user /\ track'.published = track.published /\ track'.stopped = track.stopped
  /\ track'.paused = (track.paused /\ ~track.published) /\ track'.muted = (track.muted /\ ~unmutes)
  /\ track'.device = (IF restores THEN t.device ELSE track.device) /\ track'.pendingDevice = (track.pendingDevice /\ ~restores)
  /\ track'.processor = (track.processor /\ ~stops)
  /\ sends'.main = (IF track.published /\ track.paused THEN Current(track) ELSE sends.main) /\ sends'.scaled = sends.scaled /\ sends'.encoded = sends.encoded
  /\ muted' = IF unmutes THEN track'.paused ELSE IF track.paused /\ track.published THEN track.muted ELSE muted
  /\ active' = IF restores /\ track.published THEN media[t.m].device ELSE active
  /\ Kept(media, media') /\ Len(media') = Len(media)
  /\ \A k \in 1..Len(media) : /\ media'[k].live <=> media[k].live /\ ~(stops /\ k \in OwnMedia)
                              /\ media'[k].enabled <=> media[k].enabled \/ (unmutes /\ k \in OwnMedia)
  /\ history'.heard = (IF stops THEN history.heard \ {t.m} ELSE history.heard) /\ history'.failed = (history.failed /\ ~restores)
  /\ history'.resized = (IF t.op \in {"unmute", "reacquire"} THEN media[t.m].device # sends.scaled ELSE history.resized)
  /\ history'.missed = history.missed /\ history'.lost = history.lost /\ history'.raced = history.raced /\ history'.wanted = history.wanted
  /\ history'.dropped = history.dropped /\ history'.bypassed = history.bypassed /\ history'.outrun = history.outrun
  /\ \E u \in Calls : /\ task' = [task EXCEPT ![i] = u]
                      /\ IF t.op \in {"unmute", "reacquire"} THEN u = Idle
                         ELSE IF t.op \in {"device", "restart", "ended"} THEN u.op = t.op /\ u.at = "clone"
                         ELSE IF t.op = "processor" THEN u.op = t.op /\ u.at = "install"
                         ELSE IF kind.camera /\ track.published /\ ~layers.performance THEN u.at = "sender" /\ u.op = t.op
                         ELSE u = Idle

LEMMA CoreChangeEnds ==
  ASSUME Core, NEW i \in Tasks, ChangeEnds(i)
  PROVE  /\ Core' /\ task[i].op \in Restarts \union {"replace", "unprocess", "processor"} /\ task[i].at = "resume" /\ ChangeTask(task[i])
         /\ task[i].m = track.m /\ track.m # 0
         /\ EndsFacts(i)
<1>1. task[i].at = "resume" /\ UNCHANGED <<kind, backup, layers, asked, timers, hidden>> /\ sends' = ResumedSends
  BY DEF ChangeEnds, options
<1>2. task[i] \in Calls /\ Legal(task[i].op, task[i].at) /\ DeviceOK(task[i]) /\ MediaOK(task[i])
  BY TaskFacts
<1>3. task[i].op \in Restarts \union {"replace", "unprocess", "processor"} /\ task[i].op \notin {"idle", "create"}
  BY <1>1, <1>2 DEF Legal, Swapping, Restarts, Later
<1>4. ChangeTask(task[i])
  BY <1>1, <1>3 DEF ChangeTask, InChange, Restarts
<1>5. task[i].m = track.m /\ track.m # 0 /\ track.m \in 1..Len(media) /\ NobodyCreates
  BY <1>1, <1>2, <1>3, TaskFacts, HistoryTyped DEF MediaOK, TrackRecs
<1>6. PICK restores \in BOOLEAN, stops \in BOOLEAN, unmutes \in BOOLEAN :
         /\ restores = (task[i].op \in Restarts) /\ stops = Stops(task[i]) /\ unmutes = (task[i].op = "unmute")
  <2>1. (task[i].op \in Restarts) \in BOOLEAN /\ Stops(task[i]) \in BOOLEAN /\ (task[i].op = "unmute") \in BOOLEAN
    BY DEF Stops
  <2> QED BY <2>1
<1>7. PICK p \in BOOLEAN, mu \in BOOLEAN, d \in Devices, pd \in BOOLEAN, re \in BOOLEAN, pr \in BOOLEAN :
         /\ p = StaysPaused /\ mu = (track.muted /\ ~unmutes) /\ d = (IF restores THEN task[i].device ELSE track.device)
         /\ pd = (track.pendingDevice /\ ~restores) /\ re = (track.reacquire /\ task[i].op # "reacquire")
         /\ pr = (track.processor /\ ~stops)
  BY <1>1, <1>2, <1>5, <1>6, HistoryTyped DEF DeviceOK, Swapping, Core, TrackOK, StaysPaused, TrackRecs
<1>8. /\ track' \in TrackRecs /\ track'.m = track.m /\ track'.user = track.user /\ track'.published = track.published
      /\ track'.stopped = track.stopped /\ track'.paused = p /\ track'.muted = mu /\ track'.device = d
      /\ track'.pendingDevice = pd /\ track'.processor = pr
  <2>1. PICK a : a = [track EXCEPT !.paused = p, !.muted = mu, !.device = d]
    OBVIOUS
  <2>2. /\ a \in TrackRecs /\ a.m = track.m /\ a.user = track.user /\ a.published = track.published
        /\ a.stopped = track.stopped /\ a.paused = p /\ a.muted = mu /\ a.device = d
    BY <2>1, HistoryTyped DEF TrackRecs
  <2>3. track' = [a EXCEPT !.pendingDevice = pd, !.reacquire = re, !.processor = pr]
    BY <2>1, <1>6, <1>7 DEF ChangeEnds
  <2> QED BY <2>2, <2>3 DEF TrackRecs
<1>9. p = (track.paused /\ ~track.published)
  BY <1>7 DEF StaysPaused
<1>10. /\ Kept(media, media') /\ Len(media') = Len(media)
       /\ \A k \in 1..Len(media) : /\ media'[k].live <=> media[k].live /\ ~(stops /\ k \in OwnMedia)
                                   /\ media'[k].enabled <=> media[k].enabled \/ (unmutes /\ k \in OwnMedia)
  <2>1. PICK md : md = IF unmutes THEN Enabled(media, OwnMedia, TRUE) ELSE media
    OBVIOUS
  <2>2. media' = IF stops THEN Ended(md, OwnMedia) ELSE md
    BY <1>6, <2>1 DEF ChangeEnds
  <2>3. \A k \in 1..Len(media) : media[k].live \in BOOLEAN /\ media[k].enabled \in BOOLEAN
    <3>1. \A k \in 1..Len(media) : media[k] \in Media
      BY HistoryTyped
    <3> QED BY <3>1 DEF Media
  <2>4. /\ Kept(media, md) /\ Len(md) = Len(media) /\ md \in Seq(Media)
        /\ \A k \in 1..Len(media) : /\ md[k].live = media[k].live
                                    /\ md[k].enabled <=> media[k].enabled \/ (unmutes /\ k \in OwnMedia)
    <3>1. CASE unmutes
      <4>1. PICK v \in BOOLEAN : v = TRUE
        OBVIOUS
      <4>2. md = Enabled(media, OwnMedia, v)
        BY <2>1, <3>1, <4>1
      <4>3. /\ Kept(media, md) /\ Len(md) = Len(media)
            /\ \A k \in 1..Len(media) : /\ md[k].live = media[k].live
                                        /\ md[k].enabled = IF k \in OwnMedia THEN v ELSE media[k].enabled
        BY <4>2, EnabledFacts, HistoryTyped
      <4> QED BY <2>3, <3>1, <4>1, <4>3 DEF Kept
    <3> QED
      BY <3>1, <2>1, <2>3, KeptSame, HistoryTyped
  <2>5. CASE ~stops
    BY <2>2, <2>3, <2>4, <2>5
  <2> QED
    BY <2>5, <2>2, <2>4, EndedFacts, KeptTwice, HistoryTyped
<1>11. TSends' /\ sends'.main = (IF track.published /\ track.paused THEN Current(track) ELSE sends.main) /\ sends'.scaled = sends.scaled /\ sends'.encoded = sends.encoded
  BY <1>1, <1>10, ResumedSendsFacts DEF TSends
<1>12. muted' = (IF unmutes THEN track'.paused ELSE IF track.paused /\ track.published THEN track.muted ELSE muted)
       /\ active' = (IF restores /\ track.published THEN media[task[i].m].device ELSE active)
  <2>1. /\ muted' = IF task[i].op = "unmute" THEN track'.paused ELSE IF track.paused /\ track.published THEN track.muted ELSE muted
        /\ active' = IF task[i].op \in Restarts /\ track.published THEN media[task[i].m].device ELSE active
    BY DEF ChangeEnds
  <2> QED BY <1>6, <2>1
<1>13. media[task[i].m] \in Media
  BY <1>5, HistoryTyped
<1>14. TFlags'
  BY <1>8, <1>12, <1>13, HistoryTyped, <1>1 DEF Media, TrackRecs, Core, TypeInv, TFlags
<1>15. PICK H \in SUBSET Nat, f \in BOOLEAN, z \in BOOLEAN :
         /\ H = IF stops THEN history.heard \ {task[i].m} ELSE history.heard
         /\ f = (history.failed /\ ~restores)
         /\ z = IF task[i].op \in {"unmute", "reacquire"} THEN media[task[i].m].device # sends.scaled ELSE history.resized
  BY HistoryTyped DEF Histories
<1>16. history' = [history EXCEPT !.heard = H, !.failed = f, !.resized = z]
  BY <1>6, <1>15 DEF ChangeEnds
<1>17. /\ history' \in Histories /\ history'.heard = H /\ history'.failed = f /\ history'.resized = z
       /\ history'.missed = history.missed /\ history'.lost = history.lost /\ history'.raced = history.raced /\ history'.wanted = history.wanted
       /\ history'.dropped = history.dropped /\ history'.bypassed = history.bypassed /\ history'.outrun = history.outrun
  BY <1>16, HistoryTyped DEF Histories
<1>18. THist'
  BY <1>10, <1>15, <1>17, HistoryTyped DEF THist
\* muteLock has one holder, so that no other task unmutes the track.
<1>19. ASSUME Queues, task' = [task EXCEPT ![i] = task'[i]] PROVE TrackMoves(i)
  <2>1. ASSUME NEW j \in Tasks, j # i PROVE MediaOK(task[j])'
    BY <1>19, <2>1, <1>1, <1>6, MuteIsExclusive, <1>7, <1>8 DEF Core, TypeInv, TTask, TasksOK, MediaOK
  <2> QED BY <1>1, <1>5, <1>8, <1>10, <2>1 DEF TrackMoves
<1>20. Queues
  BY DEF Core
<1>21. /\ TaskCore'
       /\ \E u \in Calls : /\ task' = [task EXCEPT ![i] = u]
                           /\ IF task[i].op \in {"unmute", "reacquire"} THEN u = Idle
                              ELSE IF task[i].op \in {"device", "restart", "ended"} THEN u.op = task[i].op /\ u.at = "clone"
                              ELSE IF task[i].op = "processor" THEN u.op = task[i].op /\ u.at = "install"
                              ELSE IF kind.camera /\ track.published /\ ~layers.performance THEN u.at = "sender" /\ u.op = task[i].op
                              ELSE u = Idle
  <2>1. CASE task[i].op = "unmute"
    <3>1. GoesOn(i, {"mute", "change"}, Idle)
      BY <1>6, <2>1 DEF ChangeEnds
    <3>2. task' = [task EXCEPT ![i] = Idle]
      BY <3>1 DEF GoesOn
    <3>3. MovesWell(i, {"mute", "change"}, Idle)
      BY <1>1, <1>4, <2>1, IdleIsFine, MoveWell DEF MayMove, First, In, Holds, Locks, ChangeTask, InChange
    <3>4. TaskCore'
      BY <1>3, <3>1, <3>3, IdleIsFine, TaskGoesOn, <1>19, <1>20, <3>2, <1>10 DEF Core, TypeInv, TTask, Kept
    <3> QED BY <2>1, <3>2, <3>4, IdleIsFine
  <2>2. CASE task[i].op = "reacquire"
    <3>1. GoesOn(i, {"change"}, Idle)
      BY <1>6, <2>2 DEF ChangeEnds
    <3>2. task' = [task EXCEPT ![i] = Idle]
      BY <3>1 DEF GoesOn
    <3>3. MovesWell(i, {"change"}, Idle)
      BY <1>1, <1>4, <2>2, IdleIsFine, MoveWell DEF MayMove, First, In, Holds, Locks, ChangeTask, InChange
    <3>4. TaskCore'
      BY <1>3, <3>1, <3>3, IdleIsFine, TaskGoesOn, <1>19, <1>20, <3>2, <1>10 DEF Core, TypeInv, TTask, Kept
    <3> QED BY <2>2, <3>2, <3>4, IdleIsFine
  <2>3. CASE task[i].op \in {"device", "restart", "ended"}
    <3>1. PICK u : u = [task[i] EXCEPT !.at = "clone"]
      OBVIOUS
    <3>2. u \in Calls /\ u.op = task[i].op /\ u.at = "clone" /\ u.m = task[i].m /\ u.device = task[i].device
      BY <1>2, <3>1 DEF Calls, Places
    <3>3. GoesOn(i, {"change"}, u)
      BY <1>6, <2>3, <3>1 DEF ChangeEnds
    <3>4. task' = [task EXCEPT ![i] = u]
      BY <3>3 DEF GoesOn
    <3>5. TrackMoves(i)
      BY <1>19, <1>20, <3>4 DEF Core, TypeInv, TTask
    <3>6. MovesWell(i, {"change"}, u)
      BY <1>1, <1>4, <2>3, <3>2, MoveWell DEF MayMove, First, In, Holds, Locks, ChangeTask, InChange
    <3>7. u.m <= Len(media') /\ u.m # 0
      BY <1>5, <1>10, <3>2, HistoryTyped
    <3> QED
      BY <2>3, <3>2, <3>4, <1>3, <3>3, <3>5, <3>6, <3>7, TaskGoesOn DEF Legal, DeviceOK, MediaOK, Swapping
  <2>4. CASE task[i].op \in {"replace", "unprocess"}
    <3>1. Refreshes(i, {"change"}) /\ task[i].op \in Swaps
      BY <1>6, <2>4 DEF ChangeEnds, Swaps
    <3>2. PICK x : task' = [task EXCEPT ![i] = x]
      BY <3>1 DEF Refreshes, GoesOn
    <3>3. /\ TaskCore'
          /\ \E u \in Calls : /\ task' = [task EXCEPT ![i] = u]
                              /\ IF kind.camera /\ track.published /\ ~layers.performance
                                   THEN u.at = "sender" /\ u.op = task[i].op ELSE u = Idle
      BY <1>4, <3>1, RefreshMoves, <1>19, <1>20, <3>2 DEF Core, TypeInv, TTask
    <3> QED BY <2>4, <3>3
  <2>5. CASE task[i].op = "processor"
    <3>1. PICK u : u = [task[i] EXCEPT !.at = "install"]
      OBVIOUS
    <3>2. u \in Calls /\ u.op = task[i].op /\ u.at = "install" /\ u.m = task[i].m /\ u.device = task[i].device
      BY <1>2, <3>1 DEF Calls, Places
    <3>3. task' = [task EXCEPT ![i] = u] /\ lock' = lock
      BY <1>6, <2>5, <3>1 DEF ChangeEnds, Reaches
    <3>4. TrackMoves(i)
      BY <1>19, <1>20, <3>3 DEF Core, TypeInv, TTask
    <3>5. MovesWell(i, {}, u)
      BY <1>1, <1>4, <2>5, <3>2, MoveWell DEF MayMove, First, In, Holds, Locks, ChangeTask, InChange
    <3>6. u.m <= Len(media') /\ u.m # 0
      BY <1>5, <1>10, <3>2, HistoryTyped
    <3>7. Legal(u.op, u.at) /\ DeviceOK(u) /\ MediaOK(u)'
      BY <2>5, <3>2, <3>6 DEF Legal, DeviceOK, FallsBack, MediaOK, Restarts
    <3> QED
      BY <2>5, <3>2, <3>3, <1>3, <3>4, <3>5, <3>6, <3>7, TaskStays DEF Locks
  <2> QED BY <1>3, <2>1, <2>2, <2>3, <2>4, <2>5 DEF Restarts
<1>22. Core'
  BY <1>1, <1>10, <1>11, <1>14, <1>18, <1>21, CoreAgain, <1>5, <1>8 DEF TTrack, TrackRest, Core, TrackOK
<1>23. EndsFacts(i)
  BY <1>1, <1>6, <1>7, <1>8, <1>9, <1>10, <1>11, <1>12, <1>15, <1>17, <1>21 DEF EndsFacts
<1> QED BY <1>1, <1>3, <1>4, <1>5, <1>22, <1>23

LEMMA SendsTyped ==
  ASSUME Core
  PROVE  /\ sends \in [main : Int, backup : Int, scaled : Devices, encoded : Devices]
         /\ sends.main \in Processed..Len(media) /\ sends.backup \in Processed..Len(media)
         /\ backup \in [m : Nat, sender : BOOLEAN] /\ backup.m <= Len(media) /\ (backup.sender => backup.m # 0)
         /\ layers \in [main : {"all", "low", "off"}, backup : BOOLEAN, performance : BOOLEAN] /\ asked \in SUBSET Codecs
         /\ timers \in [mute : BOOLEAN, refresh : BOOLEAN] /\ muted \in BOOLEAN /\ hidden \in BOOLEAN /\ active \in Devices
BY DEF Core, TypeInv, TSends, TBackup, TLayers, TFlags

LEMMA CoreRecloned ==
  ASSUME Core, NEW i \in Tasks, Recloned(i)
  PROVE  /\ Core' /\ task[i].at = "clone" /\ task[i].op \in {"device", "restart", "ended"}
         /\ UNCHANGED <<kind, track, layers, asked, timers, muted, active, hidden>>
         /\ HistoryGrows /\ history'.failed = history.failed /\ history'.heard = history.heard /\ history'.raced = history.raced
         /\ history'.wanted = history.wanted
         /\ sends'.main = sends.main /\ sends'.scaled = sends.scaled /\ sends'.encoded = sends.encoded
         /\ \/ media' = media /\ backup' = backup /\ history'.lost = history.lost
            \/ /\ media' = Append(media, media[track.m]) /\ media[track.m] \in Media /\ backup'.m = Len(media) + 1
               /\ backup'.sender = backup.sender /\ history'.lost = history.lost \union {backup.m}
         /\ \E t \in Calls : /\ task' = [task EXCEPT ![i] = t]
                             /\ IF kind.camera /\ track.published /\ ~layers.performance
                                  THEN t.at = "sender" /\ t.op = task[i].op ELSE t = Idle
<1>1. task[i].at = "clone" /\ UNCHANGED <<kind, track, layers, asked, timers, muted, active, hidden>> /\ Refreshes(i, {})
  BY DEF Recloned, options, outside
<1>2. task[i].op \in {"device", "restart", "ended"} /\ task[i].op \in Swaps
  BY TaskFacts, <1>1 DEF Legal, Swapping, Later, Swaps
<1>3. media[track.m] \in Media
  BY HistoryTyped, <1>2, TaskFacts DEF TrackRecs
<1>4. /\ Kept(media, media') /\ TBackup' /\ TSends' /\ THist'
      /\ HistoryGrows /\ history'.failed = history.failed /\ history'.heard = history.heard /\ history'.raced = history.raced
      /\ history'.wanted = history.wanted
      /\ sends'.main = sends.main /\ sends'.scaled = sends.scaled /\ sends'.encoded = sends.encoded
      /\ \/ media' = media /\ backup' = backup /\ history'.lost = history.lost
         \/ /\ media' = Append(media, media[track.m]) /\ backup'.m = Len(media) + 1
            /\ backup'.sender = backup.sender /\ history'.lost = history.lost \union {backup.m}
  <2>1. CASE backup.sender
    <3>1. /\ media' = Append(media, media[track.m]) /\ backup' = [backup EXCEPT !.m = Len(media) + 1]
          /\ sends' = [sends EXCEPT !.backup = Len(media) + 1] /\ history' = [history EXCEPT !.lost = history.lost \union {backup.m}, !.bypassed = history.bypassed \/ track.paused]
      BY <2>1 DEF Recloned
    <3>2. Kept(media, media') /\ Len(media') = Len(media) + 1
      BY <1>3, <3>1, AppendFacts, HistoryTyped
    <3>3. PICK n \in Nat : n = Len(media) + 1
      BY HistoryTyped
    <3>4. backup' = [backup EXCEPT !.m = n] /\ sends' = [sends EXCEPT !.backup = n]
      BY <3>1, <3>3
    <3>5. backup' \in [m : Nat, sender : BOOLEAN] /\ backup'.m = n /\ backup'.sender = backup.sender
      BY <3>4, SendsTyped
    <3>6. /\ sends' \in [main : Int, backup : Int, scaled : Devices, encoded : Devices] /\ sends'.main = sends.main /\ sends'.backup = n
          /\ sends'.scaled = sends.scaled /\ sends'.encoded = sends.encoded
      BY <3>4, SendsTyped
    <3>7. TBackup' /\ TSends'
      BY <3>2, <3>3, <3>5, <3>6, SendsTyped, HistoryTyped DEF TBackup, TSends, Processed
    <3>8. PICK L \in SUBSET Nat : L = history.lost \union {backup.m}
      BY HistoryTyped, SendsTyped DEF Histories
    <3>11. PICK b \in BOOLEAN : b = (history.bypassed \/ track.paused)
      OBVIOUS
    <3>9. /\ history' \in Histories /\ HistoryGrows /\ history'.failed = history.failed /\ history'.heard = history.heard
          /\ history'.raced = history.raced /\ history'.wanted = history.wanted /\ history'.lost = L
      BY <3>1, <3>8, <3>11, HistoryTyped DEF Histories, HistoryGrows
    <3>10. THist'
      BY <2>1, <3>2, SendsTyped, HistoryTyped, <3>8, <3>9 DEF THist
    <3> QED BY <3>1, <3>2, <3>3, <3>5, <3>6, <3>7, <3>8, <3>9, <3>10
  <2>2. CASE ~backup.sender
    BY <2>2, SendsTyped, HistoryTyped, KeptSame DEF Recloned, TBackup, TSends, THist, HistoryGrows
  <2> QED BY <2>1, <2>2
<1> QED
  BY <1>1, <1>2, <1>3, <1>4, CoreAgain, RefreshMoves DEF TrackKeeps

\* A new processor is installed, at once or after the one before it was stopped.
Installing(i) == (Inited(i) /\ ~track.processor) \/ Installed(i)

LEMMA CoreInstalls ==
  ASSUME Core, NEW i \in Tasks, Installing(i)
  PROVE  /\ Core' /\ task[i].op = "processor" /\ task[i].at \in {"init", "install"} /\ ChangeTask(task[i])
         /\ UNCHANGED <<kind, media, backup, layers, asked, timers, muted, active, hidden>>
         /\ track'.m = track.m /\ track'.muted = track.muted /\ track'.user = track.user
         /\ track'.paused = track.paused /\ track'.published = track.published /\ track'.processor
         /\ track'.device = track.device /\ track'.pendingDevice = track.pendingDevice /\ track'.stopped = track.stopped
         /\ sends'.main = (IF track.published THEN Processed ELSE sends.main) /\ sends'.scaled = sends.scaled /\ sends'.encoded = sends.encoded
         /\ history'.failed = history.failed /\ history'.heard = history.heard /\ history'.raced = history.raced
         /\ history'.wanted = history.wanted /\ history'.lost = history.lost /\ history'.dropped = history.dropped
         /\ history'.outrun = history.outrun /\ history'.resized = history.resized /\ history'.missed = history.missed
         /\ history'.bypassed = (history.bypassed \/ track.paused)
         /\ \E t \in Calls : /\ task' = [task EXCEPT ![i] = t]
                             /\ IF kind.camera /\ track.published /\ ~layers.performance
                                  THEN t.at = "sender" /\ t.op = "processor" ELSE t = Idle
<1>1. /\ task[i].op = "processor" /\ task[i].at \in {"init", "install"} /\ Installs(i) /\ Refreshes(i, {"change"})
      /\ UNCHANGED <<kind, media, backup, layers, asked, timers, muted, active, hidden>>
      /\ track' = [track EXCEPT !.processor = TRUE]
  BY TaskFacts DEF Installing, Inited, Installed, Installs, options, outside, Legal, Swapping, Later
<1>2. task[i].op \in Swaps /\ ChangeTask(task[i])
  BY <1>1 DEF Swaps, ChangeTask, InChange
<1>3. /\ track' \in TrackRecs /\ track'.m = track.m /\ track'.muted = track.muted /\ track'.user = track.user
      /\ track'.paused = track.paused /\ track'.published = track.published /\ track'.processor
      /\ track'.device = track.device /\ track'.pendingDevice = track.pendingDevice /\ track'.stopped = track.stopped
  BY <1>1, HistoryTyped DEF TrackRecs
<1>4. TrackKeeps /\ Kept(media, media')
  BY <1>1, <1>3, KeptSame, HistoryTyped DEF TrackKeeps
<1>5. /\ TaskCore'
      /\ \E t \in Calls : /\ task' = [task EXCEPT ![i] = t]
                          /\ IF kind.camera /\ track.published /\ ~layers.performance
                               THEN t.at = "sender" /\ t.op = task[i].op ELSE t = Idle
  BY <1>1, <1>2, <1>4, RefreshMoves
<1>6. TSends' /\ sends'.main = (IF track.published THEN Processed ELSE sends.main) /\ sends'.scaled = sends.scaled /\ sends'.encoded = sends.encoded
  <2>1. PICK p \in Int : p = Processed
    BY DEF Processed
  <2>2. PICK b \in Int : b = IF backup.sender THEN p ELSE sends.backup
    BY SendsTyped
  <2>3. CASE track.published
    <3>1. sends' \in [main : Int, backup : Int, scaled : Devices, encoded : Devices] /\ sends'.main = p /\ sends'.backup = b /\ sends'.scaled = sends.scaled /\ sends'.encoded = sends.encoded
      BY SendsTyped, <2>1, <2>2, <1>1, <2>3 DEF Installs
    <3> QED
      BY <2>1, <2>3, <3>1, <1>1, <2>2, SendsTyped, HistoryTyped DEF TSends, Processed
  <2> QED
    BY <2>3, <1>1, SendsTyped DEF Installs, TSends
<1>7. PICK v \in BOOLEAN : v = (history.bypassed \/ track.paused)
  OBVIOUS
<1>8. /\ history' \in Histories
      /\ history'.failed = history.failed /\ history'.heard = history.heard /\ history'.raced = history.raced
      /\ history'.wanted = history.wanted /\ history'.lost = history.lost /\ history'.dropped = history.dropped
      /\ history'.outrun = history.outrun /\ history'.resized = history.resized /\ history'.missed = history.missed /\ history'.bypassed = v
  BY HistoryTyped, <1>1, <1>7 DEF Histories, Installs
<1>9. Core'
  BY <1>1, <1>4, <1>5, <1>6, CoreAgain, <1>3, <1>8, HistoryTyped, TaskFacts
    DEF THist, TTrack, TrackRest, Core, TrackOK
<1> QED BY <1>1, <1>2, <1>3, <1>5, <1>6, <1>7, <1>8, <1>9

\* The processor that is in use is stopped first.
LEMMA CoreInited ==
  ASSUME Core, NEW i \in Tasks, Inited(i), track.processor
  PROVE  /\ Core' /\ UNCHANGED <<kind, media, track, backup, sends, layers, asked, timers, muted, active, hidden, history>>
         /\ task[i].op = "processor" /\ task[i].at = "init"
         /\ \E t \in Calls : task' = [task EXCEPT ![i] = t] /\ t.op = "processor" /\ t.at = "destroy"
<1>1. /\ task[i].op = "processor" /\ task[i].at = "init" /\ Reaches(i, "destroy")
      /\ UNCHANGED <<kind, media, track, backup, sends, layers, asked, timers, muted, active, hidden, history>>
  BY DEF Inited, options, outside
<1>2. PICK t : t = [task[i] EXCEPT !.at = "destroy"]
  OBVIOUS
<1>3. t \in Calls /\ t.op = "processor" /\ t.at = "destroy" /\ t.m = task[i].m
  BY <1>1, <1>2, TaskFacts DEF Calls, Places
<1>4. task' = [task EXCEPT ![i] = t] /\ lock' = lock
  BY <1>1, <1>2 DEF Reaches
<1>5. MovesWell(i, {}, t)
  BY <1>1, <1>3, MoveWell DEF MayMove, First, In, Holds, Locks, ChangeTask, InChange
<1>6. TrackKeeps /\ Kept(media, media')
  BY <1>1, SameKeeps, KeptSame, HistoryTyped
<1>7. TaskCore'
  BY <1>1, <1>3, <1>4, <1>5, <1>6, TaskStays
    DEF Core, TypeInv, TTask, Legal, Locks, DeviceOK, MediaOK, Restarts, FallsBack
<1> QED BY <1>1, <1>3, <1>4, <1>6, <1>7, CoreAgain

LEMMA CoreUnpublish ==
  ASSUME Core, Unpublish
  PROVE  /\ Core' /\ track.published /\ UNCHANGED <<kind, layers, asked, timers, task, lock, muted, active, hidden>>
         /\ track'.m = track.m /\ track'.muted = track.muted /\ track'.user = track.user
         /\ track'.paused = track.paused /\ ~track'.published /\ ~track'.processor
         /\ track'.device = track.device /\ track'.pendingDevice = track.pendingDevice /\ track'.stopped
         /\ media' = Ended(media, OwnMedia) /\ backup'.m = 0 /\ sends'.main = 0
         /\ HistoryStands /\ history'.failed = history.failed /\ history'.heard = history.heard \ {track.m}
         /\ history'.raced = history.raced /\ history'.wanted = history.wanted /\ history'.lost = history.lost
<1>1. /\ track.published /\ UNCHANGED <<kind, layers, asked, timers, tasks, task, lock, muted, active, hidden>>
      /\ track' = [track EXCEPT !.published = FALSE, !.stopped = TRUE, !.processor = FALSE]
      /\ media' = Ended(media, OwnMedia) /\ backup' = NoBackup /\ sends' = [sends EXCEPT !.main = 0, !.backup = 0]
  BY DEF Unpublish, outside, tasks
<1>2. NobodyCreates /\ track.m # 0
  BY <1>1, NotCreating DEF Core, TrackOK, NoTrack, NewTrack
<1>3. /\ track' \in TrackRecs /\ track'.m = track.m /\ track'.muted = track.muted /\ track'.user = track.user
      /\ track'.paused = track.paused /\ ~track'.published /\ ~track'.processor
      /\ track'.device = track.device /\ track'.pendingDevice = track.pendingDevice /\ track'.stopped
  BY <1>1, HistoryTyped DEF TrackRecs
<1>4. Kept(media, media') /\ Len(media') = Len(media)
  BY <1>1, EndedFacts, HistoryTyped
<1>5. TBackup' /\ backup'.m = 0
  BY <1>1, <1>4, HistoryTyped DEF TBackup, NoBackup
<1>6. TSends' /\ sends'.main = 0
  <2>1. PICK z \in Int : z = 0
    OBVIOUS
  <2>2. sends' \in [main : Int, backup : Int, scaled : Devices, encoded : Devices] /\ sends'.main = z /\ sends'.backup = z
    BY SendsTyped, <1>1, <2>1
  <2> QED BY <1>4, <2>1, <2>2, HistoryTyped DEF TSends, Processed
<1>7. PICK H \in SUBSET Nat : H = history.heard \ {track.m}
  BY HistoryTyped DEF Histories
<1>8. /\ history' \in Histories /\ HistoryStands /\ history'.failed = history.failed /\ history'.heard = H
      /\ history'.raced = history.raced /\ history'.wanted = history.wanted /\ history'.lost = history.lost
  BY HistoryTyped, <1>7 DEF Histories, HistoryStands, Unpublish
<1>9. THist' /\ TTrack' /\ TrackRest'
  BY <1>1, <1>2, <1>3, <1>4, <1>7, <1>8, HistoryTyped DEF THist, TTrack, TrackRest, Core, TrackOK
<1>10. Core'
  BY <1>1, <1>4, <1>5, <1>6, <1>9, CoreAgain, <1>2, <1>3, TasksStay DEF TrackKeeps
<1> QED BY <1>1, <1>3, <1>5, <1>6, <1>7, <1>8, <1>10

LEMMA CoreHide ==
  ASSUME Core, Hide
  PROVE  /\ Core' /\ track.published /\ kind.mobile /\ ~hidden /\ hidden'
         /\ UNCHANGED <<kind, track, backup, sends, layers, asked, timers, task, lock, muted, active, history>>
         /\ Kept(media, media') /\ Len(media') = Len(media)
         /\ \A k \in 1..Len(media) : /\ media'[k].live = media[k].live /\ (media'[k].enabled => media[k].enabled)
                                     /\ media'[k].enabled # media[k].enabled => k = track.m /\ kind.camera
<1>1. /\ track.published /\ kind.mobile /\ ~hidden /\ hidden' = TRUE
      /\ UNCHANGED <<kind, track, backup, sends, layers, asked, timers, tasks, task, lock, muted, active, history>>
      /\ media' = IF kind.camera THEN Enabled(media, {track.m}, FALSE) ELSE media
  BY DEF Hide, tasks, sending
<1>2. /\ Kept(media, media') /\ Len(media') = Len(media)
      /\ \A k \in 1..Len(media) : /\ media'[k].live = media[k].live /\ (media'[k].enabled => media[k].enabled)
                                  /\ media'[k].enabled # media[k].enabled => k = track.m /\ kind.camera
  <2>1. CASE kind.camera
    <3>1. PICK v \in BOOLEAN : v = FALSE
      OBVIOUS
    <3>2. media' = Enabled(media, {track.m}, v)
      BY <1>1, <2>1, <3>1
    <3>3. /\ Kept(media, media') /\ Len(media') = Len(media)
          /\ \A k \in 1..Len(media) : /\ media'[k].live = media[k].live
                                      /\ media'[k].enabled = IF k \in {track.m} THEN v ELSE media[k].enabled
      BY <3>1, <3>2, EnabledFacts, HistoryTyped
    <3> QED BY <2>1, <3>1, <3>3
  <2> QED
    BY <2>1, <1>1, KeptSame, HistoryTyped
<1>3. NobodyCreates /\ track.m # 0
  BY <1>1, NotCreating DEF Core, TrackOK, NoTrack, NewTrack
<1>4. Core'
  BY <1>1, <1>2, CoreAgain, <1>3, TasksStay, HistoryTyped
    DEF TrackKeeps, TFlags, TTrack, TrackRest, Core, TypeInv, TrackOK
<1> QED BY <1>1, <1>2, <1>4

\* The creation of the track.
Creation(i) ==
  /\ task[i].op = "create" /\ \A j \in Tasks : j # i => task[j].op = "idle" /\ task[j].at = "none"
  /\ ~muted /\ ~hidden /\ ~timers.refresh /\ backup = NoBackup /\ active = Fallback /\ history.wanted = Fallback
  /\ sends.scaled = Fallback /\ asked = {"main"} /\ layers.main = "all" /\ task[i].m = 0
  /\ ~track.published

LEMMA CreationFacts ==
  ASSUME Core, NEW i \in Tasks, task[i].op = "create"
  PROVE  /\ Creation(i) /\ task[i] \in Calls /\ task[i].at \in {"acquire", "init"}
         /\ task[i].at = "acquire" => track = NoTrack
         /\ task[i].at = "init" => Newborn
         /\ \A l \in Locks : ~In(l, task[i])
<1>1. /\ \A j \in Tasks : j # i => task[j].op = "idle"
      /\ ~muted /\ ~hidden /\ ~timers.refresh /\ backup = NoBackup /\ active = Fallback /\ history.wanted = Fallback
      /\ sends.scaled = Fallback /\ asked = {"main"} /\ layers.main = "all" /\ task[i].m = 0
      /\ task[i].at = "acquire" => track = NoTrack
      /\ task[i].at = "init" => Newborn
  BY DEF Core, CreateOK
<1>2. task[i].at \in {"acquire", "init"} /\ task[i] \in Calls /\ \A j \in Tasks : j # i => task[j].at = "none"
  BY <1>1, TaskFacts DEF Legal
<1>3. \A l \in Locks : ~In(l, task[i])
  BY <1>2 DEF In, Holds, Locks, ChangeTask, InChange
<1> QED
  BY <1>1, <1>2, <1>3 DEF Creation, NoTrack, NewTrack, Newborn

LEMMA CreationMoves ==
  ASSUME Core, NEW i \in Tasks, task[i].op = "create", NEW t \in Calls, task' = [task EXCEPT ![i] = t],
         lock' = lock \/ GoesOn(i, {}, t), Kept(media, media'),
         t = Idle \/ (t.op = "create" /\ t.at \in {"acquire", "init"} /\ t.m = 0 /\ CreateOK')
  PROVE  TaskCore'
<1>1. Creation(i) /\ \A l \in Locks : ~In(l, task[i])
  BY CreationFacts
<1>2. task'[i] = t /\ \A j \in Tasks : j # i => task'[j] = task[j]
  BY DEF Core, TypeInv, TTask
<1>3. /\ Legal(t.op, t.at) /\ t.m = 0 /\ (\A l \in Locks : ~In(l, t)) /\ t.at \notin Locks /\ DeviceOK(t)
      /\ t.op \in {"idle", "create"} /\ t.at \in {"none", "acquire", "init"}
  <2>1. CASE t.op = "create" /\ t.at \in {"acquire", "init"} /\ t.m = 0
    BY <2>1 DEF Legal, In, Holds, Locks, ChangeTask, InChange, DeviceOK, Restarts, FallsBack
  <2> QED
    BY <2>1, IdleIsFine DEF Idle, Locks
<1>4. Queues'
  <2>1. MovesWell(i, {}, t)
    BY <1>1, <1>3 DEF MovesWell
  <2>2. CASE GoesOn(i, {}, t)
    BY <2>1, <2>2, GoesOnQueues DEF Core
  <2> QED
    BY <2>2, <1>3, <2>1, StaysQueues DEF Core
<1>5. LegalTasks'
  BY <1>2, <1>3 DEF LegalTasks, Core
<1>6. TasksOK'
  BY <1>1, <1>2, <1>3 DEF TasksOK, Creation, DeviceOK, FallsBack, Restarts, MediaOK
<1>7. CreateOK'
  BY <1>1, <1>2 DEF CreateOK, Creation, Idle
<1>8. \A j \in Tasks : task'[j].op \notin {"idle", "create"} => track'.m # 0
  BY <1>1, <1>2, <1>3 DEF Creation
<1> QED
  BY <1>4, <1>5, <1>6, <1>7, <1>8, HistoryTyped, <1>2, <1>3 DEF TaskCore, Core, TypeInv, TTask, Calls, Kept

LEMMA NoTrackFacts ==
  /\ NoTrack \in TrackRecs /\ NoTrack.m = 0 /\ ~NoTrack.published /\ ~NoTrack.muted /\ ~NoTrack.paused
  /\ ~NoTrack.stopped /\ ~NoTrack.user /\ ~NoTrack.processor /\ ~NoTrack.pendingDevice /\ NoTrack.device = Unset
  BY DEF NoTrack, NewTrack, TrackRecs

LEMMA NewTrackFacts ==
  ASSUME NEW m \in Nat
  PROVE  LET n == NewTrack(m, Fallback) b == [n EXCEPT !.published = FALSE] IN
         /\ n \in TrackRecs /\ n.m = m /\ n.published /\ ~n.muted /\ ~n.paused
         /\ ~n.stopped /\ ~n.user /\ ~n.processor /\ ~n.pendingDevice /\ n.device = Fallback
         /\ b \in TrackRecs /\ b.m = m /\ ~b.published /\ ~b.muted /\ ~b.paused
         /\ ~b.stopped /\ ~b.user /\ ~b.processor /\ ~b.pendingDevice /\ b.device = Fallback
BY DeviceAssumption DEF NewTrack, TrackRecs

LEMMA CoreCreateFails ==
  ASSUME Core, NEW i \in Tasks, CreateFails(i)
  PROVE  /\ Core' /\ UNCHANGED <<kind, media, track, backup, sends, layers, asked, timers, muted, active, hidden, history>>
         /\ Creation(i)
         /\ \E t \in Calls : task' = [task EXCEPT ![i] = t] /\ (t = Idle \/ (t.op = "create" /\ t.at = "acquire"))
<1>1. /\ task[i].op = "create" /\ task[i].at = "acquire" /\ CreateAgain(i)
      /\ UNCHANGED <<kind, media, track, backup, sends, layers, asked, timers, muted, active, hidden, history>>
  BY DEF CreateFails, sending, outside
<1>2. /\ Creation(i) /\ task[i] \in Calls /\ track = NoTrack
  BY <1>1, CreationFacts
<1>3. PICK t : t = IF task[i].device = "exact" THEN [task[i] EXCEPT !.at = "acquire", !.device = "ideal"] ELSE Idle
  OBVIOUS
<1>4. t \in Calls /\ (t = Idle \/ (t.op = "create" /\ t.at = "acquire" /\ t.m = 0))
  BY <1>1, <1>2, <1>3, IdleIsFine DEF Calls, Places, Creation
<1>5. GoesOn(i, {}, t) /\ task' = [task EXCEPT ![i] = t]
  BY <1>1, <1>3 DEF CreateAgain, GoesOn
<1>6. Kept(media, media')
  BY <1>1, KeptSame, HistoryTyped
<1>7. TaskCore'
  BY <1>1, <1>4, <1>5, <1>6, CreationMoves, <1>2 DEF Core, TypeInv, TTask, CreateOK, Creation
<1> QED
  BY <1>1, <1>2, <1>4, <1>5, <1>6, <1>7, CoreAgain

LEMMA CoreCreateInitFails ==
  ASSUME Core, NEW i \in Tasks, CreateInitFails(i)
  PROVE  /\ Core' /\ UNCHANGED <<kind, media, backup, sends, layers, asked, timers, muted, active, hidden>>
         /\ Creation(i) /\ track' = NoTrack /\ ~track.user
         /\ HistoryStands /\ history'.failed = history.failed /\ history'.heard = history.heard
         /\ history'.raced = history.raced /\ history'.wanted = history.wanted /\ history'.lost = history.lost \union {track.m}
         /\ \E t \in Calls : task' = [task EXCEPT ![i] = t] /\ (t = Idle \/ (t.op = "create" /\ t.at = "acquire"))
<1>1. /\ task[i].op = "create" /\ task[i].at = "init" /\ CreateAgain(i) /\ track' = NoTrack
      /\ UNCHANGED <<kind, media, backup, sends, layers, asked, timers, muted, active, hidden>>
      /\ history' = [history EXCEPT !.lost = history.lost \union {track.m}]
  BY DEF CreateInitFails, sending, outside
<1>2. /\ Creation(i) /\ task[i] \in Calls /\ Newborn
  BY <1>1, CreationFacts
<1>3. track.m # 0 /\ track.m \in 1..Len(media) /\ ~track.user
  BY <1>2, HistoryTyped, NewTrackFacts DEF Newborn, TrackRecs
<1>4. PICK t : t = IF task[i].device = "exact" THEN [task[i] EXCEPT !.at = "acquire", !.device = "ideal"] ELSE Idle
  OBVIOUS
<1>5. t \in Calls /\ (t = Idle \/ (t.op = "create" /\ t.at = "acquire" /\ t.m = 0))
  BY <1>1, <1>2, <1>4, IdleIsFine DEF Calls, Places, Creation
<1>6. GoesOn(i, {}, t) /\ task' = [task EXCEPT ![i] = t]
  BY <1>1, <1>4 DEF CreateAgain, GoesOn
<1>7. Kept(media, media')
  BY <1>1, KeptSame, HistoryTyped
<1>8. PICK L \in SUBSET Nat : L = history.lost \union {track.m}
  BY HistoryTyped DEF Histories, TrackRecs
<1>9. /\ history' \in Histories /\ HistoryStands /\ history'.failed = history.failed /\ history'.heard = history.heard
      /\ history'.raced = history.raced /\ history'.wanted = history.wanted /\ history'.lost = L
  BY <1>1, <1>8, HistoryTyped DEF Histories, HistoryStands
<1>10. THist' /\ TTrack' /\ TrackRest'
  BY <1>1, <1>2, <1>3, <1>8, <1>9, NoTrackFacts, HistoryTyped DEF THist, TTrack, TrackRest, Creation
<1>11. TaskCore'
  BY <1>1, <1>5, <1>6, <1>7, CreationMoves, <1>2, <1>9 DEF Core, TypeInv, TTask, CreateOK, Creation
<1>12. Core'
  BY <1>1, <1>7, <1>10, <1>11, CoreAgain
<1> QED BY <1>1, <1>2, <1>3, <1>5, <1>6, <1>8, <1>9, <1>12

LEMMA CoreCreated ==
  ASSUME Core, NEW i \in Tasks, Created(i)
  PROVE  /\ Core' /\ UNCHANGED <<kind, media, backup, layers, asked, timers, muted, active, hidden, history>>
         /\ Creation(i) /\ Newborn /\ task' = [task EXCEPT ![i] = Idle]
         /\ track'.m = track.m /\ track.m # 0 /\ track'.published /\ ~track'.muted /\ ~track'.paused
         /\ ~track'.stopped /\ ~track'.user /\ track'.processor /\ ~track'.pendingDevice /\ track'.device = Fallback
         /\ ~track.user
         /\ sends'.main = Processed /\ sends'.scaled = sends.scaled /\ sends'.encoded = sends.encoded
<1>1. /\ task[i].op = "create" /\ task[i].at = "init" /\ track' = [track EXCEPT !.published = TRUE, !.processor = TRUE]
      /\ sends' = [sends EXCEPT !.main = Processed] /\ GoesOn(i, {}, Idle)
      /\ UNCHANGED <<kind, media, backup, layers, asked, timers, muted, active, hidden, history>>
  BY DEF Created, outside, options
<1>2. /\ Creation(i) /\ task[i] \in Calls /\ Newborn
  BY <1>1, CreationFacts
<1>3. /\ track.m # 0 /\ ~track.muted /\ ~track.paused /\ track \in TrackRecs
      /\ ~track.stopped /\ ~track.user /\ ~track.pendingDevice /\ track.device = Fallback
  BY <1>2, HistoryTyped, NewTrackFacts DEF Newborn, TrackRecs
<1>4. /\ track' \in TrackRecs /\ track'.m = track.m /\ track'.published /\ ~track'.muted /\ ~track'.paused
      /\ ~track'.stopped /\ ~track'.user /\ track'.processor /\ ~track'.pendingDevice /\ track'.device = Fallback
  BY <1>1, <1>3 DEF TrackRecs
<1>5. TSends' /\ sends'.main = Processed /\ sends'.scaled = sends.scaled /\ sends'.encoded = sends.encoded
  BY <1>1, SendsTyped, HistoryTyped DEF Processed, TSends
<1>6. Kept(media, media') /\ TTrack' /\ TrackRest'
  BY <1>1, <1>2, <1>3, <1>4, KeptSame, HistoryTyped, DeviceAssumption DEF TTrack, TrackRest, Creation
<1>7. task' = [task EXCEPT ![i] = Idle]
  BY <1>1 DEF GoesOn
<1>8. Core'
  BY <1>1, <1>5, <1>6, CoreAgain, <1>7, CreationMoves, IdleIsFine
<1> QED BY <1>1, <1>2, <1>3, <1>4, <1>5, <1>7, <1>8

LEMMA CoreCreateAcquires ==
  ASSUME Core, NEW i \in Tasks, CreateAcquires(i)
  PROVE  /\ Core' /\ UNCHANGED <<kind, backup, layers, asked, timers, muted, active, hidden>>
         /\ Creation(i) /\ track = NoTrack
         /\ media' = Append(media, Captured(Fallback)) /\ Captured(Fallback) \in Media
         /\ track'.m = Len(media) + 1 /\ (track'.published <=> ~kind.processor) /\ ~track'.muted /\ ~track'.paused
         /\ ~track'.stopped /\ ~track'.user /\ ~track'.processor /\ ~track'.pendingDevice /\ track'.device = Fallback
         /\ HistoryStands /\ history'.failed = history.failed /\ history'.heard = history.heard \union {Len(media) + 1}
         /\ history'.raced = history.raced /\ history'.wanted = history.wanted /\ history'.lost = history.lost
         /\ sends'.scaled = sends.scaled /\ sends'.encoded = sends.encoded /\ sends'.main = (IF kind.processor THEN sends.main ELSE Len(media) + 1)
         /\ \E t \in Calls : task' = [task EXCEPT ![i] = t] /\ (t = Idle \/ (t.op = "create" /\ t.at = "init"))
<1>1. /\ task[i].op = "create" /\ task[i].at = "acquire" /\ media' = Append(media, Captured(Fallback))
      /\ history' = [history EXCEPT !.heard = history.heard \union {Len(media) + 1}]
      /\ UNCHANGED <<kind, backup, layers, asked, timers, muted, active, hidden>>
  BY DEF CreateAcquires, outside, options
<1>2. /\ Creation(i) /\ task[i] \in Calls /\ track = NoTrack
  BY <1>1, CreationFacts
<1>3. PICK m \in Nat : m = Len(media) + 1
  BY HistoryTyped
<1>4. Captured(Fallback) \in Media /\ Captured(Fallback).live /\ Captured(Fallback).enabled /\ Captured(Fallback).device = Fallback
  BY DeviceAssumption DEF Captured, Media
<1>5. /\ Kept(media, media') /\ Len(media') = m /\ media'[m] = Captured(Fallback)
  BY <1>1, <1>3, <1>4, AppendFacts, HistoryTyped
<1>6. PICK H \in SUBSET Nat : H = history.heard \union {m}
  BY <1>3, HistoryTyped DEF Histories
<1>7. /\ history' \in Histories /\ HistoryStands /\ history'.failed = history.failed /\ history'.heard = H
      /\ history'.raced = history.raced /\ history'.wanted = history.wanted /\ history'.lost = history.lost
  BY <1>1, <1>3, <1>6, HistoryTyped DEF Histories, HistoryStands
<1>8. THist'
  BY <1>3, <1>5, <1>6, HistoryTyped, <1>7 DEF THist
<1>9. CASE kind.processor
  <2>1. track' = [NewTrack(m, Fallback) EXCEPT !.published = FALSE] /\ Reaches(i, "init") /\ sends' = sends
    BY <1>3, <1>9 DEF CreateAcquires
  <2>2. /\ track' \in TrackRecs /\ track'.m = m /\ ~track'.published /\ ~track'.muted /\ ~track'.paused
        /\ ~track'.stopped /\ ~track'.user /\ ~track'.processor /\ ~track'.pendingDevice /\ track'.device = Fallback
    BY <2>1, NewTrackFacts
  <2>3. PICK t : t = [task[i] EXCEPT !.at = "init"]
    OBVIOUS
  <2>4. t \in Calls /\ t.op = "create" /\ t.at = "init" /\ t.m = 0 /\ task' = [task EXCEPT ![i] = t] /\ lock' = lock
    BY <1>1, <1>2, <2>1, <2>3 DEF Calls, Places, Creation, Reaches
  <2>5. TTrack' /\ TrackRest'
    BY <1>1, <1>2, <1>3, <1>5, <2>2, DeviceAssumption, HistoryTyped DEF TTrack, TrackRest, Creation
  <2>6. Newborn'
    BY <1>3, <1>4, <1>5, <1>6, <1>7, <2>2, <2>1 DEF Newborn
  <2>7. TaskCore'
    BY <1>1, <1>5, <2>4, CreationMoves, <1>2, <1>7, <2>1, <2>6 DEF Core, TypeInv, TTask, CreateOK, Creation
  <2>8. Core'
    BY <1>1, <1>5, <1>8, <2>1, <2>5, <2>7, CoreAgain
  <2> QED BY <1>1, <1>2, <1>3, <1>4, <1>6, <1>7, <1>9, <2>1, <2>2, <2>4, <2>8
<1>10. CASE ~kind.processor
  <2>1. track' = NewTrack(m, Fallback) /\ GoesOn(i, {}, Idle) /\ sends' = [sends EXCEPT !.main = m]
    BY <1>3, <1>10 DEF CreateAcquires
  <2>2. /\ track' \in TrackRecs /\ track'.m = m /\ track'.published /\ ~track'.muted /\ ~track'.paused
        /\ ~track'.stopped /\ ~track'.user /\ ~track'.processor /\ ~track'.pendingDevice /\ track'.device = Fallback
    BY <2>1, NewTrackFacts
  <2>3. task' = [task EXCEPT ![i] = Idle]
    BY <2>1 DEF GoesOn
  <2>4. TTrack' /\ TrackRest'
    BY <1>1, <1>2, <1>3, <1>5, <2>2, DeviceAssumption, HistoryTyped DEF TTrack, TrackRest, Creation
  <2>5. TSends' /\ sends'.main = m /\ sends'.scaled = sends.scaled /\ sends'.encoded = sends.encoded
    BY <2>1, SendsTyped, <1>3, <1>5, HistoryTyped DEF TSends, Processed
  <2>6. TaskCore'
    BY <1>1, <1>5, <2>1, <2>3, CreationMoves, IdleIsFine
  <2>7. Core'
    BY <1>1, <1>5, <1>8, <2>4, <2>5, <2>6, CoreAgain
  <2> QED BY <1>1, <1>2, <1>3, <1>4, <1>6, <1>7, <1>10, <2>2, <2>3, <2>5, <2>7, IdleIsFine
<1> QED BY <1>9, <1>10

\* What is set at the senders.
TaskLeaves(i, u) ==
  \/ u = Idle
  \/ u.op = "publish" /\ u.at = "negotiate"
  \/ u.op = "codec" /\ u.at = "sender" /\ u.codecs = task[i].codecs
LEMMA NextFacts ==
  ASSUME Core, NEW i \in Tasks, NEW frees, NextCodec(i, frees), UNCHANGED <<kind, track>>,
         \/ frees = {"sender"} /\ task[i].op \in {"quality", "refresh"} /\ Enters(i, "sender")
         \/ frees = {} /\ task[i].at = "codec"
  PROVE  /\ TaskCore' /\ NobodyCreates /\ Kept(media, media') /\ TBackup'
         /\ \/ media' = media /\ backup' = backup
            \/ /\ track.published /\ media' = Append(media, media[track.m]) /\ media[track.m] \in Media /\ backup.m = 0
               /\ backup'.m = Len(media) + 1 /\ ~backup'.sender
         /\ \E u \in Calls : task' = [task EXCEPT ![i] = u] /\ TaskLeaves(i, u)
                             /\ (backup'.sender => u.op = "codec" /\ backup.sender)
<1>1. task[i].op \in {"quality", "refresh"} /\ task[i].at \in {"sender", "codec"}
  BY TaskFacts DEF Legal, Enters, Swapping, Later
<1>2. track.m # 0 /\ track.m \in 1..Len(media) /\ task[i] \in Calls
  BY <1>1, TaskFacts, HistoryTyped DEF TrackRecs
<1>3. media[track.m] \in Media
  BY <1>2, HistoryTyped
<1>4. PICK p \in BOOLEAN : p = (task[i].op = "quality" /\ "backup" \in task[i].codecs /\ backup.m = 0 /\ track.published)
  OBVIOUS
<1>5. PICK u : u = IF p THEN Call("publish", "negotiate")
                   ELSE IF backup.sender THEN [task[i] EXCEPT !.op = "codec", !.at = "sender"] ELSE Idle
  OBVIOUS
<1>6. GoesOn(i, frees, u) /\ task' = [task EXCEPT ![i] = u]
  BY <1>4, <1>5 DEF NextCodec, GoesOn
<1>7. /\ u \in Calls /\ TaskLeaves(i, u) /\ (~p /\ backup.sender => u.op = "codec")
      /\ Legal(u.op, u.at) /\ DeviceOK(u) /\ MediaOK(u)' /\ u.m <= Len(media) /\ u.op # "create" /\ MayMove(i, frees, u)
  <2>1. Len(media) \in Nat
    BY HistoryTyped
  <2>2. CASE p
    <3>1. u \in Calls /\ u.op = "publish" /\ u.at = "negotiate" /\ u.m = 0
      BY <1>5, <2>2 DEF Calls, Call, Idle, Ops, Places
    <3> QED BY <1>1, <2>1, <2>2, <3>1 DEF TaskLeaves, Legal, DeviceOK, MediaOK, Restarts, FallsBack,
                                 MayMove, First, In, Holds, Locks, ChangeTask, InChange
  <2>3. CASE ~p /\ backup.sender
    <3>1. u \in Calls /\ u.op = "codec" /\ u.at = "sender" /\ u.m = task[i].m /\ u.codecs = task[i].codecs
      BY <1>2, <1>5, <2>3 DEF Calls, Ops, Places
    <3>2. task[i].m <= Len(media)
      BY DEF Core, TypeInv, TTask
    <3> QED BY <1>1, <2>3, <3>1, <3>2 DEF TaskLeaves, Legal, DeviceOK, MediaOK, Restarts, FallsBack,
                                 MayMove, First, In, Holds, Locks, ChangeTask, InChange
  <2> QED
    BY <2>2, <2>3, <1>5, <2>1, IdleIsFine, <1>1
      DEF MayMove, First, In, Holds, Locks, ChangeTask, InChange, TaskLeaves
<1>8. /\ Kept(media, media') /\ TBackup' /\ (~p => media' = media /\ backup' = backup)
      /\ p => /\ media' = Append(media, media[track.m]) /\ backup'.m = Len(media) + 1 /\ ~backup'.sender
  <2>1. CASE p
    <3>1. media' = Append(media, media[track.m]) /\ backup' = [m |-> Len(media) + 1, sender |-> FALSE]
      BY <1>4, <2>1 DEF NextCodec
    <3>2. Kept(media, media') /\ Len(media') = Len(media) + 1
      BY <1>3, <3>1, AppendFacts, HistoryTyped
    <3>3. PICK n \in Nat : n = Len(media) + 1
      BY HistoryTyped
    <3> QED
      BY <2>1, <3>1, <3>2, <3>3 DEF TBackup
  <2> QED
    BY <2>1, <1>4, KeptSame, SendsTyped, HistoryTyped DEF NextCodec, TBackup
<1>9. TaskCore' /\ NobodyCreates
  BY <1>1, <1>7, MoveWell, <1>6, TaskGoesOn, <1>8, HistoryTyped DEF Calls, Kept, TrackKeeps
<1> QED
  BY <1>6, <1>7, <1>8, <1>9, <1>3, <1>4

LEMMA CoreLayersSet ==
  ASSUME Core, NEW i \in Tasks, LayersSet(i)
  PROVE  /\ Core' /\ task[i].op \in {"quality", "refresh"} /\ task[i].at = "sender" /\ Enters(i, "sender")
         /\ UNCHANGED <<kind, track, sends, asked, timers, muted, active, hidden, history>>
         /\ layers'.backup = layers.backup /\ layers'.performance = layers.performance
         /\ layers'.main = IF ~track.published THEN layers.main ELSE IF "main" \in task[i].codecs THEN "all" ELSE "off"
         /\ \/ media' = media /\ backup' = backup
            \/ /\ track.published /\ media' = Append(media, media[track.m]) /\ media[track.m] \in Media /\ backup.m = 0
               /\ backup'.m = Len(media) + 1 /\ ~backup'.sender
         /\ \E u \in Calls : task' = [task EXCEPT ![i] = u] /\ TaskLeaves(i, u)
                             /\ (backup'.sender => u.op = "codec" /\ backup.sender)
  BY NextFacts, SendsTyped, CoreAgain DEF LayersSet, Enters, options, outside, TLayers

LEMMA CoreLayersSkipped ==
  ASSUME Core, NEW i \in Tasks, LayersSkipped(i)
  PROVE  /\ Core' /\ task[i].op \in {"quality", "refresh"} /\ task[i].at = "codec"
         /\ UNCHANGED <<kind, track, sends, layers, asked, timers, muted, active, hidden, history>>
         /\ \/ media' = media /\ backup' = backup
            \/ /\ track.published /\ media' = Append(media, media[track.m]) /\ media[track.m] \in Media /\ backup.m = 0
               /\ backup'.m = Len(media) + 1 /\ ~backup'.sender
         /\ \E u \in Calls : task' = [task EXCEPT ![i] = u] /\ TaskLeaves(i, u)
                             /\ (backup'.sender => u.op = "codec" /\ backup.sender)
  BY TaskFacts, NextFacts, CoreAgain DEF LayersSkipped, options, outside, sending, Legal, Swapping, Later

\* A task at the senders is done.
LEMMA SenderIsDone ==
  ASSUME Core, NEW i \in Tasks, UNCHANGED <<kind, media, track>>,
         \/ GoesOn(i, {"sender"}, Idle) /\ task[i].op # "idle" /\ (Enters(i, "sender") \/ task[i].at = "dimensions")
         \/ GoesOn(i, {}, Idle) /\ task[i].at = "negotiate"
  PROVE  TaskCore' /\ task' = [task EXCEPT ![i] = Idle] /\ NobodyCreates
<1>1. task[i].op \notin {"idle", "create", "unmute"} /\ task[i].at \in {"sender", "dimensions", "negotiate"}
  BY TaskFacts DEF Legal, Enters, Swapping, Later
<1>2. TrackKeeps /\ Idle.m <= Len(media')
  BY SameKeeps, IdleIsFine, HistoryTyped
<1>3. CASE GoesOn(i, {}, Idle) /\ task[i].at = "negotiate"
  BY <1>1, <1>3, IdleIsFine, MoveWell, <1>2, TaskGoesOn
    DEF MayMove, First, In, Holds, Locks, ChangeTask, InChange
<1> QED
  BY <1>3, <1>1, IdleIsFine, MoveWell, <1>2, TaskGoesOn
    DEF MayMove, First, In, Holds, Locks, ChangeTask, InChange, Enters

LEMMA CoreCodecSet ==
  ASSUME Core, NEW i \in Tasks, CodecSet(i)
  PROVE  /\ Core' /\ task[i].op = "codec" /\ task[i].at = "sender" /\ Enters(i, "sender")
         /\ UNCHANGED <<kind, media, track, backup, sends, asked, timers, muted, active, hidden, history>>
         /\ layers'.main = layers.main /\ layers'.performance = layers.performance
         /\ (layers'.backup <=> "backup" \in task[i].codecs) /\ task' = [task EXCEPT ![i] = Idle]
<1>1. /\ task[i].op = "codec" /\ task[i].at = "sender" /\ Enters(i, "sender") /\ GoesOn(i, {"sender"}, Idle)
      /\ UNCHANGED <<kind, media, track, backup, sends, asked, timers, muted, active, hidden, history>>
  BY DEF CodecSet, Enters, options, outside
<1>2. TaskCore' /\ task' = [task EXCEPT ![i] = Idle]
  BY <1>1, SenderIsDone
<1>3. PICK x \in BOOLEAN : x = ("backup" \in task[i].codecs)
  <2>1. ("backup" \in task[i].codecs) \in BOOLEAN
    OBVIOUS
  <2> QED BY <2>1
<1>4. TLayers' /\ layers'.main = layers.main /\ layers'.performance = layers.performance /\ layers'.backup = x
  BY <1>1, SendsTyped, <1>3 DEF TLayers, CodecSet
<1> QED
  BY <1>1, <1>2, <1>3, <1>4, CoreAgain, KeptSame, HistoryTyped

LEMMA CoreCodecPublished ==
  ASSUME Core, NEW i \in Tasks, CodecPublished(i)
  PROVE  /\ Core' /\ task[i].op = "publish" /\ task[i].at = "negotiate"
         /\ UNCHANGED <<kind, media, track, asked, muted, active, hidden>> /\ THist' /\ HistoryGrows
         /\ history'.heard = history.heard /\ history'.lost = history.lost /\ history'.wanted = history.wanted
         /\ history'.failed = history.failed /\ history'.raced = history.raced
         /\ layers'.main = layers.main /\ layers'.performance = layers.performance /\ backup'.m = backup.m
         /\ sends'.main = sends.main /\ sends'.scaled = sends.scaled /\ sends'.encoded = sends.encoded /\ timers'.mute = timers.mute
         /\ task' = [task EXCEPT ![i] = Idle]
         /\ timers'.refresh \/ UNCHANGED <<backup, layers, timers>>
<1>1. /\ task[i].at = "negotiate" /\ GoesOn(i, {}, Idle)
      /\ UNCHANGED <<kind, media, track, asked, muted, active, hidden>>
  BY DEF CodecPublished, options, outside
<1>2. task[i].op = "publish" /\ track.m # 0
  BY <1>1, TaskFacts DEF Legal, Swapping, Later
<1>3. TaskCore' /\ task' = [task EXCEPT ![i] = Idle]
  BY <1>1, SenderIsDone
<1>4. Kept(media, media')
  BY <1>1, KeptSame, HistoryTyped
<1>6. /\ THist' /\ HistoryGrows
      /\ history'.heard = history.heard /\ history'.lost = history.lost /\ history'.wanted = history.wanted
      /\ history'.failed = history.failed /\ history'.raced = history.raced
  <2>1. PICK b \in BOOLEAN : b = (history.bypassed \/ track.paused)
    OBVIOUS
  <2>2. history' = history \/ history' = [history EXCEPT !.bypassed = b]
    BY <2>1 DEF CodecPublished
  <2> QED BY <1>1, <2>1, <2>2, HistoryTyped DEF THist, Histories, HistoryGrows
<1>5. CASE backup.m # 0
  <2>1. /\ backup' = [backup EXCEPT !.sender = TRUE] /\ sends' = [sends EXCEPT !.backup = backup.m]
        /\ layers' = [layers EXCEPT !.backup = TRUE] /\ timers' = [timers EXCEPT !.refresh = TRUE]
    BY <1>5 DEF CodecPublished
  <2>2. PICK n \in Nat : n = backup.m
    BY SendsTyped
  <2>3. /\ backup'.m = n /\ TBackup'
    BY <1>1, <1>5, <2>1, <2>2, SendsTyped DEF TBackup
  <2>4. sends' \in [main : Int, backup : Int, scaled : Devices, encoded : Devices] /\ sends'.main = sends.main /\ sends'.scaled = sends.scaled /\ sends'.encoded = sends.encoded
        /\ sends'.backup = n
    BY <2>1, <2>2, SendsTyped
  <2>5. TSends'
    BY <1>1, <2>4, SendsTyped, <2>2, HistoryTyped DEF TSends, Processed
  <2>6. TLayers' /\ layers'.main = layers.main /\ layers'.performance = layers.performance
    BY <1>1, <2>1, SendsTyped DEF TLayers
  <2>7. TFlags' /\ timers'.refresh /\ timers'.mute = timers.mute
    BY <1>1, <2>1, SendsTyped DEF TFlags
  <2>8. Core'
    BY <1>1, <1>3, <1>4, <1>6, <2>3, <2>5, <2>6, <2>7, CoreAgain, <1>2 DEF TrackRest, Core, TrackOK
  <2> QED BY <1>1, <1>2, <1>3, <1>6, <2>2, <2>3, <2>4, <2>6, <2>7, <2>8
<1> QED
  BY <1>5, <1>1, <1>3, <1>4, <1>6, CoreAgain, <1>2 DEF CodecPublished

LEMMA CoreCodecFails ==
  ASSUME Core, NEW i \in Tasks, CodecFails(i)
  PROVE  /\ Core' /\ task[i].op = "publish" /\ task[i].at = "negotiate"
         /\ UNCHANGED <<kind, media, track, backup, sends, layers, asked, timers, muted, active, hidden, history>>
         /\ task' = [task EXCEPT ![i] = Idle]
  BY TaskFacts, SenderIsDone, KeptSame, HistoryTyped, CoreAgain
    DEF CodecFails, sending, outside, Legal, Swapping, Later

LEMMA CorePerformanceSet ==
  ASSUME Core, NEW i \in Tasks, PerformanceSet(i)
  PROVE  /\ Core' /\ task[i].op = "performance" /\ task[i].at = "sender" /\ Enters(i, "sender")
         /\ UNCHANGED <<kind, media, track, backup, sends, asked, timers, muted, active, hidden, history>>
         /\ layers'.performance /\ task' = [task EXCEPT ![i] = Idle]
  BY SenderIsDone, KeptSame, HistoryTyped, SendsTyped, CoreAgain
    DEF PerformanceSet, Enters, options, outside, TLayers

LEMMA CoreRefreshEnters ==
  ASSUME Core, NEW i \in Tasks, RefreshEnters(i)
  PROVE  /\ Core' /\ task[i].op \in Swaps /\ task[i].at = "sender" /\ Enters(i, "sender")
         /\ UNCHANGED <<kind, media, track, backup, sends, layers, asked, timers, muted, active, hidden, history, lock>>
         /\ \E t \in Calls : task' = [task EXCEPT ![i] = t] /\ t.op = task[i].op /\ t.at = "dimensions"
<1>1. /\ task[i].op \in Swaps /\ task[i].at = "sender" /\ Enters(i, "sender") /\ lock' = lock
      /\ task' = [task EXCEPT ![i].at = "dimensions"]
      /\ UNCHANGED <<kind, media, track, backup, sends, layers, asked, timers, muted, active, hidden, history, lock>>
  BY DEF RefreshEnters, Enters, options, outside, sending, Reaches
<1>2. task[i] \in Calls /\ Legal(task[i].op, task[i].at) /\ task[i].m <= Len(media)
  BY TaskFacts DEF Core, TypeInv, TTask
<1>3. PICK t : t = [task[i] EXCEPT !.at = "dimensions"]
  OBVIOUS
<1>4. t \in Calls /\ t.op = task[i].op /\ t.at = "dimensions" /\ t.m = task[i].m
  BY <1>2, <1>3 DEF Calls, Places
<1>5. task' = [task EXCEPT ![i] = t]
  BY <1>1, <1>3
<1>6. MovesWell(i, {}, t)
  BY <1>1, <1>4, MoveWell DEF MayMove, First, In, Holds, Locks, ChangeTask, InChange, Swaps
<1>7. TrackKeeps /\ t.m <= Len(media') /\ Kept(media, media')
  BY <1>1, <1>2, <1>4, SameKeeps, KeptSame, HistoryTyped
<1>8. TaskCore'
  BY <1>1, <1>4, <1>5, <1>6, <1>7, TaskStays
    DEF Legal, DeviceOK, MediaOK, Swaps, Later, Swapping, Locks, FallsBack, Restarts
<1> QED
  BY <1>1, <1>4, <1>5, <1>7, <1>8, CoreAgain

LEMMA CoreRefreshed ==
  ASSUME Core, NEW i \in Tasks, Refreshed(i)
  PROVE  /\ Core' /\ task[i].op \in Swaps /\ task[i].at = "dimensions" /\ task' = [task EXCEPT ![i] = Idle]
         /\ UNCHANGED <<kind, media, track, backup, layers, asked, timers, muted, active, hidden>>
         /\ sends'.main = sends.main
         /\ LET d == media[track.m].device computes == track.published /\ d # sends.encoded IN
            /\ sends'.encoded = (IF computes THEN d ELSE sends.encoded)
            /\ sends'.scaled = (IF computes /\ layers.main # "off" THEN d ELSE sends.scaled)
            /\ history'.missed = (IF computes THEN layers.main = "off" ELSE history.missed)
         /\ history'.failed = history.failed /\ history'.heard = history.heard /\ history'.raced = history.raced
         /\ history'.wanted = history.wanted /\ history'.lost = history.lost /\ history'.dropped = history.dropped
         /\ history'.outrun = history.outrun /\ history'.bypassed = history.bypassed
<1>1. /\ task[i].at = "dimensions" /\ GoesOn(i, {"sender"}, Idle) 
      /\ UNCHANGED <<kind, media, track, backup, layers, asked, timers, muted, active, hidden>>
  BY DEF Refreshed, options, outside
<1>2. task[i].op \in Swaps
  BY <1>1, TaskFacts DEF Legal, Later, Swaps, Swapping
<1>3. media[track.m].device \in Devices
  <2>1. media[track.m] \in Media
    BY HistoryTyped, <1>2, TaskFacts DEF Swaps, TrackRecs
  <2> QED BY <2>1 DEF Media
<1>4. TaskCore' /\ task' = [task EXCEPT ![i] = Idle] /\ Kept(media, media')
  BY <1>2, <1>1, SenderIsDone, KeptSame, HistoryTyped DEF Swaps
<1>7. PICK d \in Devices, c \in BOOLEAN, n \in Devices, z \in BOOLEAN :
         /\ d = media[track.m].device /\ c = (track.published /\ d # sends.encoded)
         /\ n = (IF layers.main = "off" THEN sends.scaled ELSE d)
         /\ z = (IF c THEN layers.main = "off" ELSE history.missed)
  BY <1>3, SendsTyped, HistoryTyped DEF Histories
<1>8. sends' = IF c THEN [sends EXCEPT !.encoded = d, !.scaled = n] ELSE sends
  BY <1>7 DEF Refreshed
<1>9. history' = [history EXCEPT !.resized = FALSE, !.missed = z]
  BY <1>7 DEF Refreshed
<1>5. TSends' /\ sends'.main = sends.main /\ sends'.encoded = (IF c THEN d ELSE sends.encoded)
      /\ sends'.scaled = (IF c THEN n ELSE sends.scaled)
  BY <1>1, <1>8, SendsTyped DEF TSends
<1>6. /\ history' \in Histories /\ history'.missed = z
      /\ history'.failed = history.failed /\ history'.heard = history.heard /\ history'.raced = history.raced
      /\ history'.wanted = history.wanted /\ history'.lost = history.lost /\ history'.dropped = history.dropped
      /\ history'.outrun = history.outrun /\ history'.bypassed = history.bypassed
  BY <1>9, HistoryTyped DEF Histories
<1> QED
  BY <1>1, <1>2, <1>4, <1>5, <1>6, <1>7, CoreAgain, HistoryTyped DEF THist

LEMMA CoreRefreshFails ==
  ASSUME Core, NEW i \in Tasks, RefreshFails(i)
  PROVE  /\ Core' /\ task[i].op \in Swaps /\ task[i].at = "dimensions" /\ task' = [task EXCEPT ![i] = Idle]
         /\ UNCHANGED <<kind, media, track, backup, sends, layers, asked, timers, muted, active, hidden>>
         /\ history'.failed = history.failed /\ history'.heard = history.heard /\ history'.raced = history.raced
         /\ history'.wanted = history.wanted /\ history'.lost = history.lost /\ history'.dropped = history.dropped
         /\ history'.outrun = history.outrun /\ history'.bypassed = history.bypassed
         /\ history'.resized = (history.resized \/ media[track.m].device # sends.scaled) /\ history'.missed = history.missed
<1>1. /\ task[i].at = "dimensions" /\ GoesOn(i, {"sender"}, Idle)
      /\ UNCHANGED <<kind, media, track, backup, sends, layers, asked, timers, muted, active, hidden>>
  BY DEF RefreshFails, sending, outside
<1>2. task[i].op \in Swaps
  BY <1>1, TaskFacts DEF Legal, Later, Swaps, Swapping
<1>3. TaskCore' /\ task' = [task EXCEPT ![i] = Idle] /\ Kept(media, media')
  BY <1>2, <1>1, SenderIsDone, KeptSame, HistoryTyped DEF Swaps
<1>4. PICK z \in BOOLEAN : z = (history.resized \/ media[track.m].device # sends.scaled)
  OBVIOUS
<1>5. /\ history' \in Histories
      /\ history'.failed = history.failed /\ history'.heard = history.heard /\ history'.raced = history.raced
      /\ history'.wanted = history.wanted /\ history'.lost = history.lost /\ history'.dropped = history.dropped
      /\ history'.outrun = history.outrun /\ history'.bypassed = history.bypassed
      /\ history'.resized = z /\ history'.missed = history.missed
  BY <1>4, HistoryTyped DEF Histories, RefreshFails
<1> QED
  BY <1>1, <1>2, <1>3, <1>4, <1>5, CoreAgain, HistoryTyped DEF THist

LEMMA CoreStutters == ASSUME Core, UNCHANGED trackVars PROVE Core'
<1>1. UNCHANGED <<kind, media, track, backup, sends, layers, asked, timers, task, lock, muted, active, hidden, history>>
  BY DEF trackVars, options, sending, tasks, outside
<1> QED BY <1>1 DEF Core, TypeInv, TMedia, TTrack, TBackup, TSends, TLayers, TFlags, THist, TTask, Queues, LegalTasks, TasksOK,
           DeviceOK, FallsBack, MediaOK, CreateOK, Newborn, TrackOK

LEMMA CoreInitially == ASSUME TracksInit PROVE Core
<1>1. PICK s \in Sessions :
        /\ kind = s.kind
        /\ media = IF s.creates THEN <<>> ELSE <<Captured(Fallback)>>
        /\ track = IF s.creates THEN NoTrack ELSE NewTrack(1, Fallback)
        /\ sends = [main |-> IF s.creates THEN 0 ELSE 1, backup |-> 0, scaled |-> Fallback, encoded |-> Fallback]
        /\ task = [i \in Tasks |-> IF s.creates /\ i = 1
                     THEN [Idle EXCEPT !.op = "create", !.at = "acquire", !.device = "exact"] ELSE Idle]
        /\ history = [heard |-> IF s.creates THEN {} ELSE {1}, lost |-> {}, wanted |-> Fallback, failed |-> FALSE,
                      raced |-> FALSE, dropped |-> FALSE, bypassed |-> FALSE, outrun |-> FALSE, resized |-> FALSE,
                      missed |-> FALSE, revived |-> FALSE]
  BY DEF TracksInit
<1>2. /\ lock = [l \in {"mute", "change", "sender"} |-> <<>>] /\ backup = NoBackup
      /\ layers = [main |-> "all", backup |-> TRUE, performance |-> FALSE] /\ asked = {"main"}
      /\ timers = [mute |-> FALSE, refresh |-> FALSE]
      /\ muted = FALSE /\ active = Fallback /\ hidden = FALSE
  BY DEF TracksInit
<1>3. kind \in Kinds /\ s.creates \in BOOLEAN /\ Fallback \in Devices
  BY <1>1, DeviceAssumption DEF Kinds
<1>4. Captured(Fallback) \in Media /\ Captured(Fallback).live
  BY <1>3 DEF Captured, Media
<1>5. PICK c : c = [Idle EXCEPT !.op = "create", !.at = "acquire", !.device = "exact"]
  OBVIOUS
<1>6. c \in Calls /\ c.op = "create" /\ c.at = "acquire" /\ c.m = 0
  BY <1>5 DEF Idle, Calls, Ops, Places
<1>7. task = [i \in Tasks |-> IF s.creates /\ i = 1 THEN c ELSE Idle]
  BY <1>1, <1>5
<1>8. \A i \in Tasks : (task[i] = c /\ s.creates /\ i = 1) \/ task[i] = Idle
  BY <1>7
<1>9. TTask
  BY <1>6, <1>7, IdleIsFine, <1>1, <1>4, <1>8 DEF TTask
<1>10. Queues
  BY <1>6, <1>8, IdleIsFine, <1>2 DEF In, Holds, Locks, ChangeTask, Queue, Queues
<1>11. LegalTasks
  BY <1>6, <1>8, IdleIsFine DEF LegalTasks, Legal
<1>12. TasksOK
  BY <1>6, <1>8 DEF TasksOK, Idle, DeviceOK, FallsBack, MediaOK, Restarts
<1>13. CreateOK
  BY <1>8, IdleIsFine, <1>1, <1>2, <1>6 DEF CreateOK
<1>14. \A i \in Tasks : task[i].op \in {"idle", "create"}
  BY <1>6, <1>8, IdleIsFine
<1>15. TLayers /\ TFlags
  BY <1>2, <1>3 DEF TLayers, TFlags, Codecs
<1>16. history \in Histories
  BY <1>1, <1>3 DEF Histories
<1>17. CASE s.creates
  <2>1. media = <<>> /\ track = NoTrack
    BY <1>1, <1>17
  <2>2. media \in Seq(Media) /\ Len(media) = 0
    BY <2>1
  <2>3. TMedia /\ TTrack
    BY <1>3, <2>1, <2>2, NoTrackFacts DEF TMedia, TTrack
  <2>4. TBackup
    BY <1>2, <2>2 DEF TBackup, NoBackup
  <2>5. TSends
    BY <1>1, <1>3, <1>17, <2>2 DEF TSends, Processed
  <2>6. THist
    BY <1>1, <1>16, <1>17 DEF THist
  <2>7. TrackOK
    BY <1>2, <1>14, <2>1, NoTrackFacts DEF TrackOK
  <2> QED BY <1>9, <1>10, <1>11, <1>12, <1>13, <1>15, <2>3, <2>4, <2>5, <2>6, <2>7 DEF Core, TypeInv
<1>18. CASE ~s.creates
  <2>1. media = <<Captured(Fallback)>> /\ track = NewTrack(1, Fallback)
    BY <1>1, <1>18
  <2>2. media \in Seq(Media) /\ Len(media) = 1
    BY <1>4, <2>1
  <2>3. PICK m \in Nat : m = 1
    OBVIOUS
  <2>4. track \in TrackRecs /\ track.m = 1 /\ ~track.stopped /\ track.device = Fallback
    BY <2>3, NewTrackFacts, <2>1
  <2>5. TMedia /\ TTrack
    BY <1>3, <2>2, <2>4 DEF TMedia, TTrack
  <2>6. TBackup
    BY <1>2, <2>2 DEF TBackup, NoBackup
  <2>7. TSends
    BY <1>1, <1>3, <1>18, <2>2 DEF TSends, Processed
  <2>8. THist
    BY <1>1, <1>16, <1>18, <2>2 DEF THist
  <2>9. TrackOK
    BY <1>2, <1>3, <1>14, <2>4 DEF TrackOK
  <2> QED BY <1>9, <1>10, <1>11, <1>12, <1>13, <1>15, <2>5, <2>6, <2>7, <2>8, <2>9 DEF Core, TypeInv
<1> QED BY <1>17, <1>18

(* What the properties of the track rest on. *)
InPlace(i) == task[i].at \in {"process", "replaced"}
Restarting(i, places) == task[i].op \in Restarts /\ task[i].at \in places

\* A media that is captured has somebody who knows of it.
Known(m) == m = track.m \/ m = backup.m \/ m \in history.lost \/ \E i \in Tasks : InPlace(i) /\ task[i].m = m
Captures == \A m \in 1..Len(media) : media[m].live /\ media[m].by = "sdk" => Known(m)

\* The media of a track that is restarted has ended.
GoneBefore == \A i \in Tasks : Restarting(i, {"acquire", "process", "replaced"}) => ~media[track.m].live

StoppedEnds ==
  track.stopped /\ ~track.user /\ track.m # 0 => ~media[track.m].live \/ \E i \in Tasks : Restarting(i, {"resume"})

MutedEnds ==
  /\ track.muted /\ StopsOnMute /\ ~history.raced /\ track.m # 0 =>
       ~media[track.m].live \/ \E i \in Tasks : task[i].op = "unmute" /\ task[i].at = "resume"
  /\ track.muted /\ ~history.raced => \A i \in Tasks : Restarting(i, Swapping) => task[i].op = "unmute"

PausedIsQuiet ==
  track.paused /\ ~history.bypassed /\ sends.main # 0 =>
    track.published /\ \E i \in Tasks : task[i].at \in {"replaced", "resume"}

\* What is sent is what the track has, or is about to have.
Sent(i) == IF track.processor THEN Processed ELSE task[i].m
Settled == \A i \in Tasks : ~InPlace(i)
SentFollows ==
  track.published /\ ~track.paused /\ ~history.outrun =>
    /\ \A i \in Tasks : task[i].at = "replaced" => sends.main = Sent(i)
    /\ \A i \in Tasks : task[i].at = "resume" => sends.main = Current(track)
    /\ ~history.failed /\ Settled => sends.main = Current(track)
HeardNew == \A i \in Tasks : InPlace(i) => track.m \notin history.heard \/ task[i].m = track.m

\* The size that is sent is that of the device, or is about to be computed.
Sized ==
  /\ ~history.missed => sends.scaled = sends.encoded
  /\ kind.camera /\ track.published /\ ~layers.performance /\ ~history.resized /\ ~history.missed =>
       \/ sends.scaled = media[track.m].device
       \/ \E i \in Tasks : task[i].op \in Restarts \union {"replace"} /\ task[i].at = "resume"
       \/ \E i \in Tasks : task[i].op \in Swaps /\ task[i].at \in {"clone", "sender", "dimensions"}

\* The device that was asked for comes, also if the microphone falls back.
Falling(i) == FallsBack(task[i]) /\ task[i].at \in {"change", "acquire"}
DevicesFollow ==
  ~history.raced /\ ~track.user =>
    /\ track.m # 0 /\ ~history.dropped => track.device = history.wanted \/ \E i \in Tasks : Falling(i)
    /\ \A i \in Tasks : Falling(i) => history.wanted = Fallback /\ \A j \in Tasks : Falling(j) => i = j
    /\ \A i \in Tasks : Restarting(i, {"acquire"}) /\ ~FallsBack(task[i]) => task[i].device = track.device
    /\ \A i \in Tasks : Restarting(i, {"process", "replaced", "resume"}) =>
         task[i].device = track.device /\ media[task[i].m].device = track.device
    /\ track.pendingDevice => track.muted
    /\ track.published /\ ~history.failed /\ ~history.dropped /\ ~track.pendingDevice
         /\ (\A i \in Tasks : ~Restarting(i, Swapping)) =>
         media[track.m].device = history.wanted /\ active = history.wanted

\* What excuses a track that is not captured.
Coming  == \E i \in Tasks : Restarting(i, {"change", "acquire", "process", "replaced"})
GaveUp  == history.failed /\ \A i \in Tasks : ~Restarting(i, {"resume"})
Excused == track.user \/ GaveUp \/ Coming
IsEnabled ==
  track.published /\ ~track.muted => media[track.m].enabled \/ (kind.camera /\ kind.mobile /\ (hidden \/ Excused))
IsHeard ==
  track.published /\ ~track.user =>
    /\ media[track.m].live => track.m \in history.heard
    /\ \A i \in Tasks : Restarting(i, {"process", "replaced"}) /\ media[task[i].m].live => task[i].m \in history.heard
Unmutes == \E i \in Tasks : task[i].op = "unmute" /\ task[i].at = "resume"
IsLive ==
  track.published =>
    /\ ~track.muted \/ Unmutes => media[track.m].live \/ track.m \in history.lost \/ Excused
    /\ \A i \in Tasks : Restarting(i, {"process", "replaced"}) =>
         \/ media[task[i].m].live \/ task[i].m \in history.lost \/ track.user \/ (track.muted /\ task[i].op # "unmute")
         \/ \E j \in Tasks : Restarting(j, {"change"})

\* Steps that concern neither what is captured nor what is sent of it.
Apart(t) == t.at \notin {"process", "replaced", "resume"} /\ ~(t.op \in Restarts /\ t.at \in Swapping)
PlainTasks == \A i \in Tasks : task'[i] = task[i] \/ (Apart(task[i]) /\ Apart(task'[i]))
PlainMedia ==
  /\ Kept(media, media')
  /\ \A m \in 1..Len(media) : (media'[m].live <=> media[m].live) /\ (media'[m].enabled <=> media[m].enabled)
  /\ \A m \in 1..Len(media') : m > Len(media) => m = backup'.m
  /\ backup'.m = backup.m \/ backup.m = 0 \/ backup.m \in history'.lost
  /\ \/ backup'.m = backup.m
     \/ backup'.m = Len(media) + 1 /\ Len(media') = Len(media) + 1 /\ (media'[Len(media) + 1].enabled <=> media[track.m].enabled)
PlainHistory ==
  /\ history'.heard = history.heard /\ history'.failed = history.failed /\ history'.raced = history.raced
  /\ history'.wanted = history.wanted /\ history'.dropped = history.dropped /\ (history.bypassed => history'.bypassed)
  /\ history'.outrun = history.outrun /\ history.lost \subseteq history'.lost
PlainStep ==
  /\ UNCHANGED <<kind, track, muted, active, hidden>> /\ sends'.main = sends.main
  /\ PlainMedia /\ PlainTasks /\ PlainHistory

LEMMA OneApart ==
  ASSUME Core, NEW i \in Tasks, NEW t, task' = [task EXCEPT ![i] = t], Apart(task[i]), Apart(t)
  PROVE  PlainTasks
BY DEF PlainTasks, Core, TypeInv, TTask

LEMMA SameMedia ==
  ASSUME Core, UNCHANGED <<media, backup>>
  PROVE  PlainMedia
  BY HistoryTyped, KeptSame DEF PlainMedia

LEMMA IdleIsApart == Apart(Idle)
BY DEF Apart, Idle, Restarts

LEMMA StillPlain ==
  ASSUME Core, UNCHANGED <<kind, media, track, backup, muted, active, hidden, history>>, sends'.main = sends.main, PlainTasks
  PROVE  PlainStep
BY SameMedia DEF PlainStep, PlainHistory

LEMMA TypedSends ==
  ASSUME Core
  PROVE  sends \in [main : Int, backup : Int, scaled : Devices, encoded : Devices]
BY DEF Core, TypeInv, TSends

\* The application and the timers begin what does not concern it.
LEMMA BeginsPlain ==
  ASSUME Core, NEW t, \E i \in Tasks : task[i].op = "idle" /\ task' = [task EXCEPT ![i] = t], Apart(t),
         UNCHANGED <<kind, media, track, backup, sends, muted, active, hidden, history>>
  PROVE  PlainStep
  BY TaskFacts, OneApart, StillPlain DEF Legal, Apart, Restarts, Swapping, Later

LEMMA PlainBeginnings ==
  ASSUME Core,
         \/ Mute \/ Unmute \/ SetProcessor \/ StopProcessor \/ PrioritizePerformance \/ RefreshTimer
         \/ \E d \in Devices : ReplaceTrack(d)
         \/ \E C \in SUBSET {"main", "backup"} : SubscribedQuality(C)
  PROVE  Core' /\ PlainStep
<1>1. CASE Unmute
  BY <1>1, BeginsUnmute, BeginsPlain DEF Apart, Call, Idle, Restarts, Swapping, Unmute, outside, sending
<1>2. CASE SetProcessor
  BY <1>2, BeginsProcessor, BeginsPlain
    DEF Apart, Call, Idle, Restarts, Swapping, SetProcessor, outside, sending
<1>3. CASE StopProcessor
  BY <1>3, BeginsUnprocess, BeginsPlain
    DEF Apart, Call, Idle, Restarts, Swapping, StopProcessor, outside, sending
<1>4. CASE PrioritizePerformance
  BY <1>4, BeginsPerformance, BeginsPlain
    DEF Apart, Call, Idle, Restarts, Swapping, PrioritizePerformance, outside, sending
<1>5. CASE RefreshTimer
  BY <1>5, BeginsRefresh, SendsTyped, FreshCodecs, BeginsPlain
    DEF Apart, Restarts, Swapping, RefreshTimer, outside, options
<1>6. ASSUME NEW d \in Devices, ReplaceTrack(d) PROVE Core' /\ PlainStep
  BY <1>6, BeginsReplace, BeginsPlain
    DEF Apart, ReplaceCall, Call, Idle, Restarts, Swapping, ReplaceTrack, outside, sending
<1>7. ASSUME NEW C \in SUBSET {"main", "backup"}, SubscribedQuality(C) PROVE Core' /\ PlainStep
  BY <1>7, BeginsQuality, FreshCodecs, BeginsPlain
    DEF Codecs, Apart, Restarts, Swapping, SubscribedQuality, outside
<1> QED
  BY <1>1, <1>2, <1>3, <1>4, <1>5, <1>6, <1>7, BeginsMute, BeginsPlain
    DEF Apart, Call, Idle, Restarts, Swapping, Mute, outside, sending

\* What is set at the senders, and how a processor begins.
PlainNext(i) ==
  \/ LayersSet(i) \/ LayersSkipped(i) \/ CodecSet(i) \/ CodecPublished(i) \/ CodecFails(i) \/ PerformanceSet(i)
  \/ RefreshEnters(i) \/ Refreshed(i) \/ ProcessorEnters(i) \/ InitFails(i) \/ UnprocessEnters(i)
  \/ CreateFails(i) \/ Recloned(i) \/ ReplaceRefused(i) \/ RefreshFails(i) \/ (Inited(i) /\ track.processor)

LEMMA NextMedia ==
  ASSUME Core, history.lost \subseteq history'.lost,
         \/ media' = media /\ backup' = backup
         \/ /\ media' = Append(media, media[track.m]) /\ media[track.m] \in Media
            /\ backup'.m = Len(media) + 1 /\ (backup.m = 0 \/ backup.m \in history'.lost)
  PROVE  PlainMedia
<1>1. CASE /\ media' = Append(media, media[track.m]) /\ media[track.m] \in Media
           /\ backup'.m = Len(media) + 1 /\ (backup.m = 0 \/ backup.m \in history'.lost)
  BY <1>1, AppendFacts, HistoryTyped DEF PlainMedia
<1> QED
  BY <1>1, SameMedia

LEMMA PlainProgress ==
  ASSUME Core, NEW i \in Tasks, PlainNext(i)
  PROVE  Core' /\ PlainStep
<1>1. ASSUME NEW t, Apart(task[i]), Apart(t), task' = [task EXCEPT ![i] = t] PROVE PlainTasks
  BY <1>1, OneApart
<1>2. CASE LayersSet(i)
  BY <1>2, CoreLayersSet, IdleIsApart, <1>1, NextMedia
    DEF TaskLeaves, Apart, Restarts, Swapping, HistoryStands, PlainStep, PlainHistory
<1>3. CASE LayersSkipped(i)
  BY <1>3, CoreLayersSkipped, IdleIsApart, <1>1, NextMedia
    DEF TaskLeaves, Apart, Restarts, Swapping, HistoryStands, PlainStep, PlainHistory
<1>4. CASE CodecSet(i)
  BY <1>4, CoreCodecSet, <1>1, IdleIsApart, StillPlain DEF Apart, Restarts
<1>5. CASE CodecPublished(i)
  BY <1>1, <1>5, CoreCodecPublished, IdleIsApart, HistoryTyped, KeptSame
    DEF HistoryGrows, Apart, Restarts, PlainMedia, PlainStep, PlainHistory
<1>6. CASE CodecFails(i)
  BY <1>6, CoreCodecFails, <1>1, IdleIsApart, StillPlain DEF Apart, Restarts
<1>7. CASE PerformanceSet(i)
  BY <1>7, CorePerformanceSet, <1>1, IdleIsApart, StillPlain DEF Apart, Restarts
<1>8. CASE RefreshEnters(i)
  BY <1>8, CoreRefreshEnters, <1>1, StillPlain DEF Apart, Swapping
<1>9. CASE Refreshed(i)
  BY <1>9, CoreRefreshed, <1>1, IdleIsApart, SameMedia DEF Apart, Swapping, PlainStep, PlainHistory
<1>10. CASE ProcessorEnters(i)
  BY <1>10, CoreProcessorEnters, <1>1, StillPlain
    DEF ProcessorEnters, Enters, Reaches, Core, TypeInv, TTask, Calls, Apart, Restarts
<1>11. CASE InitFails(i)
  BY <1>11, CoreInitFails, TaskFacts, <1>1, IdleIsApart, StillPlain DEF InitFails, Apart, Restarts
<1>12. CASE UnprocessEnters(i)
  BY <1>12, CoreUnprocessEnters, IdleIsApart, <1>1, StillPlain DEF Apart, Restarts
<1>13. CASE CreateFails(i)
  BY <1>13, CoreCreateFails, IdleIsApart, <1>1, StillPlain DEF CreateFails, Apart, Restarts
<1>14. CASE Recloned(i)
  BY <1>14, CoreRecloned, IdleIsApart, <1>1, NextMedia
    DEF Apart, Swapping, PlainStep, PlainHistory, HistoryGrows
<1>15. CASE ReplaceRefused(i)
  BY <1>15, CoreReplaceRefused, <1>1, IdleIsApart, StillPlain DEF Apart, Restarts
<1>16. CASE RefreshFails(i)
  BY <1>16, CoreRefreshFails, <1>1, IdleIsApart, SameMedia DEF Apart, Swapping, PlainStep, PlainHistory
<1>17. CASE Inited(i) /\ track.processor
  BY <1>17, CoreInited, <1>1, StillPlain DEF Apart, Restarts
<1> QED BY <1>15, <1>16, <1>17, <1>2, <1>3, <1>4, <1>5, <1>6, <1>7, <1>8, <1>9, <1>10, <1>11, <1>12, <1>13, <1>14 DEF PlainNext

(* What each of the other steps does. *)
Others(i) == \A j \in Tasks : j # i => task'[j] = task[j]
Ends(i)   == task'[i] = Idle /\ Others(i)
Moves(i, at) == task'[i].op = task[i].op /\ task'[i].at = at /\ Others(i)

TrackButMuted == /\ track'.m = track.m /\ track'.user = track.user /\ track'.paused = track.paused
                 /\ track'.published = track.published /\ track'.processor = track.processor
                 /\ track'.stopped = track.stopped /\ track'.device = track.device
                 /\ track'.pendingDevice = track.pendingDevice
TrackButPaused == /\ track'.m = track.m /\ track'.user = track.user /\ track'.muted = track.muted
                  /\ track'.published = track.published /\ track'.processor = track.processor
                  /\ track'.stopped = track.stopped /\ track'.device = track.device
                  /\ track'.pendingDevice = track.pendingDevice
HistoryButOutrun == /\ history'.heard = history.heard /\ history'.lost = history.lost
                    /\ history'.wanted = history.wanted /\ history'.failed = history.failed /\ history'.raced = history.raced
                    /\ history'.dropped = history.dropped /\ history'.bypassed = history.bypassed
                    /\ history'.resized = history.resized /\ history'.missed = history.missed

Mutes(i) ==
  /\ task[i].op = "mute" /\ Ends(i) /\ ~track.muted /\ track'.muted /\ muted' /\ TrackButMuted
  /\ UNCHANGED <<kind, backup, sends, layers, active, hidden>>
  /\ Kept(media, media') /\ Len(media') = Len(media)
  /\ \A k \in 1..Len(media) : /\ media'[k].live <=> media[k].live /\ ~(StopsOnMute /\ k = track.m)
                              /\ k \in OwnMedia => ~media'[k].enabled
  /\ HistoryStands /\ history'.heard = history.heard /\ history'.lost = history.lost /\ history'.failed = history.failed
  /\ history'.wanted = history.wanted /\ history'.raced = (history.raced \/ Changing)

Unmuting(i) ==
  /\ task[i].op = "unmute" /\ task[i].at = "mute" /\ Enters(i, "mute") /\ Moves(i, "change") /\ task'[i].device = task[i].device
  /\ track.muted /\ Reacquires
  /\ TrackStands /\ ~track'.stopped /\ track'.device = track.device /\ track'.pendingDevice = track.pendingDevice
  /\ UNCHANGED <<kind, media, backup, sends, layers, muted, active, hidden>> /\ HistoryKept

Unmuted(i) ==
  /\ task[i].op = "unmute" /\ task[i].at = "mute" /\ Enters(i, "mute") /\ Ends(i)
  /\ track.muted /\ ~Reacquires /\ ~track'.muted /\ muted' = track.paused /\ TrackButMuted
  /\ UNCHANGED <<kind, backup, sends, layers, active, hidden, history>>
  /\ Kept(media, media') /\ Len(media') = Len(media)
  /\ \A k \in 1..Len(media) : media'[k].live <=> media[k].live
  /\ media'[track.m].enabled

Paused ==
  /\ ~track.paused /\ track.published /\ track'.paused /\ muted' /\ sends'.main = 0 /\ sends'.scaled = sends.scaled /\ sends'.encoded = sends.encoded
  /\ TrackButPaused
  /\ UNCHANGED <<kind, media, backup, layers, active, hidden, history, task>>

Resumed ==
  /\ track.paused /\ track.published /\ ~track'.paused /\ muted' = track.muted /\ sends'.main = Current(track)
  /\ sends'.scaled = sends.scaled /\ sends'.encoded = sends.encoded /\ TrackButPaused
  /\ UNCHANGED <<kind, backup, layers, active, hidden, task>>
  /\ Kept(media, media') /\ Len(media') = Len(media)
  /\ \A k \in 1..Len(media) : (media'[k].live <=> media[k].live) /\ (media'[k].enabled <=> media[k].enabled)
  /\ HistoryButOutrun
  /\ \/ history'.outrun = (history.outrun \/ \E i \in Tasks : task[i].at = "replaced")
     \/ history'.outrun = history.outrun /\ track.m \in history.heard

LEMMA AssignedTask ==
  ASSUME Core, NEW i \in Tasks, NEW t, task' = [task EXCEPT ![i] = t]
  PROVE  task'[i] = t /\ Others(i)
BY DEF Others, Core, TypeInv, TTask

LEMMA MutesOrPlain ==
  ASSUME Core, NEW i \in Tasks, MuteEnters(i)
  PROVE  Core' /\ (PlainStep \/ Mutes(i))
<1>1. Core' /\ task[i].op = "mute" /\ task[i].at = "mute" /\ GoesOn(i, {"mute"}, Idle)
      /\ UNCHANGED <<kind, backup, sends, layers, active, hidden>>
  BY CoreMuteEnters DEF MuteEnters, Enters, options, sending, outside
<1>2. task' = [task EXCEPT ![i] = Idle]
  BY <1>1 DEF GoesOn
<1>3. CASE ~track.muted
  <2> DEFINE md == IF StopsOnMute THEN Ended(media, {track.m}) ELSE media
  <2>1. SetTrackMuted(md, TRUE) /\ history' = [history EXCEPT !.raced = @ \/ Changing]
    BY <1>3 DEF MuteEnters
  <2>2. /\ Kept(media, md) /\ Len(md) = Len(media)
        /\ \A k \in 1..Len(media) : md[k].live <=> media[k].live /\ ~(StopsOnMute /\ k = track.m)
    BY EndedFacts, HistoryTyped, KeptSame
  <2> HIDE DEF md
  <2>3. /\ Kept(media, media') /\ Len(media') = Len(media)
        /\ track'.muted /\ TrackButMuted
        /\ \A k \in 1..Len(media) : (media'[k].live <=> md[k].live) /\ (k \in OwnMedia => ~media'[k].enabled)
    BY <2>1, <2>2, SetMuted DEF TrackButMuted
  <2>4. PICK r \in BOOLEAN : r = (history.raced \/ Changing)
    BY HistoryTyped DEF Histories
  <2>5. HistoryStands /\ history'.heard = history.heard /\ history'.lost = history.lost /\ history'.failed = history.failed
        /\ history'.wanted = history.wanted /\ history'.raced = r
    BY HistoryTyped, <2>1, <2>4 DEF HistoryStands, Histories
  <2>6. \A k \in 1..Len(media) : /\ media'[k].live <=> media[k].live /\ ~(StopsOnMute /\ k = track.m)
                                 /\ k \in OwnMedia => ~media'[k].enabled
    BY <2>2, <2>3
  <2>7. Mutes(i)
    BY <1>1, <1>3, <2>3, <2>4, <2>5, <2>6, <1>2, <2>1
      DEF Mutes, Ends, Others, Core, TypeInv, TTask, SetTrackMuted
  <2> QED BY <1>1, <2>7
<1> QED
  BY <1>3, <1>1, <1>2, IdleIsApart, OneApart, StillPlain DEF MuteEnters, Apart, Restarts

LEMMA UnmutesOrPlain ==
  ASSUME Core, NEW i \in Tasks, UnmuteEnters(i)
  PROVE  Core' /\ (PlainStep \/ Unmuting(i) \/ Unmuted(i))
<1>1. Core' /\ task[i].op = "unmute" /\ task[i].at = "mute" /\ Enters(i, "mute")
      /\ UNCHANGED <<kind, backup, sends, layers, active, hidden>>
  BY CoreUnmuteEnters DEF UnmuteEnters, Enters, options, sending, outside
<1>2. CASE track.muted /\ Reacquires
  <2>1. GoesOn(i, {}, [task[i] EXCEPT !.at = "change"]) /\ track' = [track EXCEPT !.stopped = FALSE] /\ UNCHANGED <<media, muted>> /\ HistoryKept
    BY <1>2, RevivesFacts DEF UnmuteEnters
  <2>2. PICK t : t = [task[i] EXCEPT !.at = "change"]
    OBVIOUS
  <2>3. Moves(i, "change") /\ task'[i].device = task[i].device
    BY <2>1, <2>2, TaskFacts DEF Moves, Others, Core, TypeInv, TTask, GoesOn, Calls
  <2> QED
    BY <1>1, <1>2, <2>1, <2>3, HistoryTyped DEF Unmuting, TrackStands, TrackRecs
<1>3. CASE ~(track.muted /\ Reacquires)
  <2>1. task' = [task EXCEPT ![i] = Idle] /\ history' = history
    BY <1>3 DEF GoesOn, UnmuteEnters
  <2>2. CASE track.muted
    <3>1. SetTrackMuted(media, FALSE)
      BY <1>3, <2>2 DEF UnmuteEnters
    <3>2. /\ Kept(media, media') /\ Len(media') = Len(media)
          /\ ~track'.muted /\ TrackButMuted
          /\ \A k \in 1..Len(media) : /\ media'[k].live <=> media[k].live
                                      /\ k \in OwnMedia => media'[k].enabled
      BY <3>1, KeptSame, HistoryTyped, SetMuted DEF TrackButMuted
    <3>3. media'[track.m].enabled
      BY <3>2, <1>1, TaskFacts, HistoryTyped DEF OwnMedia, TrackRecs
    <3>4. Unmuted(i)
      BY <1>1, <1>3, <2>2, <3>2, <3>3, <3>1, HistoryTyped, <2>1
        DEF Unmuted, SetTrackMuted, TrackRecs, Ends, Others, Core, TypeInv, TTask
    <3> QED BY <1>1, <3>4
  <2> QED
    BY <2>2, <1>3, <1>1, <2>1, IdleIsApart, OneApart, StillPlain DEF UnmuteEnters, Apart, Swapping
<1> QED BY <1>2, <1>3

LEMMA SameTasksArePlain == ASSUME task' = task PROVE PlainTasks
BY DEF PlainTasks

LEMMA PausesOrPlain ==
  ASSUME Core, PauseUpstream \/ MuteTimer
  PROVE  Core' /\ (PlainStep \/ Paused)
<1>1. Core'
  BY CorePauseUpstream, CoreMuteTimer
<1>2. Pauses /\ UNCHANGED <<kind, media, backup, layers, active, hidden, history, task>>
  BY DEF PauseUpstream, MuteTimer, options, outside, tasks
<1>3. CASE ~(track.paused \/ ~track.published)
  <2>1. track' = [track EXCEPT !.paused = TRUE] /\ muted' = TRUE /\ sends' = [sends EXCEPT !.main = 0, !.backup = 0]
    BY <1>2, <1>3 DEF Pauses
  <2>2. PICK z \in Int : z = 0
    OBVIOUS
  <2>3. sends'.main = z /\ sends'.scaled = sends.scaled /\ sends'.encoded = sends.encoded
    BY SendsTyped, SendsWith, <2>1, <2>2
  <2>4. TrackButPaused
    BY <1>2, KeptSame, HistoryTyped, PausesFacts DEF TrackButPaused
  <2>5. Paused
    BY <1>2, <1>3, <2>1, <2>2, <2>3, <2>4, HistoryTyped DEF Paused, TrackRecs
  <2> QED BY <1>1, <2>5
<1> QED
  BY <1>3, <1>2, <1>1, SameTasksArePlain, StillPlain DEF Pauses

LEMMA ResumesOrPlain ==
  ASSUME Core, Resumes, UNCHANGED <<kind, backup, layers, active, hidden, task>>,
         Kept(media, media'), Len(media') = Len(media), HistoryButOutrun,
         \A k \in 1..Len(media) : (media'[k].live <=> media[k].live) /\ (media'[k].enabled <=> media[k].enabled),
         track.paused /\ track.published =>
           \/ history'.outrun = (history.outrun \/ \E i \in Tasks : task[i].at = "replaced")
           \/ history'.outrun = history.outrun /\ track.m \in history.heard,
         ~(track.paused /\ track.published) => history'.outrun = history.outrun
  PROVE  PlainStep \/ Resumed
<1>1. sends'.scaled = sends.scaled /\ sends'.encoded = sends.encoded /\ sends'.main = IF track.published /\ track.paused THEN Current(track) ELSE sends.main
  BY ResumedSendsFacts DEF Resumes
<1>2. CASE track.paused /\ track.published
  BY <1>2, ResumesFacts, <1>1 DEF Resumes, TrackButPaused, Resumed
<1>3. CASE ~(track.paused /\ track.published)
  BY <1>3, SameTasksArePlain, HistoryTyped, <1>1
    DEF Resumes, PlainMedia, PlainHistory, HistoryButOutrun, PlainStep
<1> QED BY <1>2, <1>3

LEMMA ResumeUpstreamFacts ==
  ASSUME Core, ResumeUpstream
  PROVE  Core' /\ (PlainStep \/ Resumed)
  BY CoreResumeUpstream, HistoryTyped, OutrunFacts, KeptSame, ResumesOrPlain
    DEF ResumeUpstream, outside, tasks, Histories, TrackRecs, HistoryButOutrun

LEMMA DeviceUnmutesFacts ==
  ASSUME Core, NEW m \in DOMAIN media, DeviceUnmutes(m)
  PROVE  Core' /\ (PlainStep \/ Resumed)
<1>1. Core' /\ UNCHANGED <<kind, backup, layers, active, hidden, task, history>> /\ media' = [media EXCEPT ![m].silent = FALSE]
  BY CoreDeviceUnmutes DEF DeviceUnmutes, outside, tasks, options
<1>2. /\ Kept(media, media') /\ Len(media') = Len(media)
      /\ \A k \in 1..Len(media) : media'[k].enabled = media[k].enabled /\ media'[k].live = media[k].live
  BY <1>1, SilentFacts
<1>3. HistoryButOutrun /\ history'.outrun = history.outrun
  BY <1>1 DEF HistoryButOutrun
<1>4. CASE m = track.m /\ m \in history.heard
  BY <1>4, <1>1, <1>2, <1>3, ResumesOrPlain DEF DeviceUnmutes
<1>5. CASE ~(m = track.m /\ m \in history.heard)
  BY <1>5, <1>2, HistoryTyped, <1>1, SameTasksArePlain DEF DeviceUnmutes, PlainMedia, PlainStep, PlainHistory
<1> QED BY <1>4, <1>5

LEMMA DeviceMutesFacts ==
  ASSUME Core, DeviceMutes
  PROVE  Core' /\ PlainStep
<1>1. Core' /\ UNCHANGED <<kind, track, backup, sends, layers, muted, active, hidden, task, history>>
      /\ media' = [media EXCEPT ![track.m].silent = TRUE] /\ track.m \in history.heard
  BY CoreDeviceMutes DEF DeviceMutes, outside, tasks, sending
<1>2. track.m \in DOMAIN media
  BY <1>1, HistoryTyped
<1>3. /\ Kept(media, media') /\ Len(media') = Len(media)
      /\ \A k \in 1..Len(media) : media'[k].enabled = media[k].enabled /\ media'[k].live = media[k].live
  BY <1>1, <1>2, SilentFacts
<1>4. PlainMedia
  BY <1>1, <1>3, HistoryTyped DEF PlainMedia
<1> QED BY <1>1, <1>4, SameTasksArePlain DEF PlainStep, PlainHistory

\* An operation that restarts the track begins.
Begun(op) == \E i \in Tasks : /\ task[i].op = "idle" /\ task[i].at = "none" /\ Others(i)
                              /\ task'[i].op = op /\ task'[i].at = "change"
TrackButStopped == /\ TrackStands /\ track'.device = track.device /\ track'.pendingDevice = track.pendingDevice
                   /\ (track'.stopped => track.stopped)

DeviceAsked(d) ==
  /\ UNCHANGED <<kind, media, backup, sends, layers, muted, hidden>>
  /\ HistoryStands /\ history'.failed = history.failed /\ history'.heard = history.heard /\ history'.lost = history.lost
  /\ history'.wanted = d /\ history'.raced = (history.raced \/ Changing)
  /\ TrackStands /\ track'.device = d
  /\ IF track.muted THEN track'.pendingDevice /\ active' = d /\ task' = task /\ track'.stopped = track.stopped
     ELSE track'.pendingDevice = track.pendingDevice /\ active' = active /\ ~track'.stopped /\ Begun("device")

RestartAsked ==
  /\ UNCHANGED <<kind, media, backup, sends, layers, muted, active, hidden, history>>
  /\ TrackButStopped /\ ~track'.stopped /\ ~track.muted /\ Begun("restart")

Shown ==
  /\ UNCHANGED <<kind, media, backup, sends, layers, muted, active>> /\ HistoryKept
  /\ hidden /\ ~hidden' /\ TrackButStopped
  /\ IF NeedsReAcquisition /\ ~track.user /\ ~track.muted THEN Begun("reacquire") ELSE task' = task

Hidden ==
  /\ UNCHANGED <<kind, track, backup, sends, layers, muted, active, history, task>>
  /\ kind.mobile /\ hidden' /\ Kept(media, media') /\ Len(media') = Len(media)
  /\ \A k \in 1..Len(media) : /\ media'[k].live = media[k].live /\ (media'[k].enabled => media[k].enabled)
                              /\ media'[k].enabled # media[k].enabled => k = track.m /\ kind.camera

Gone(m) ==
  /\ m \in 1..Len(media) /\ Kept(media, media') /\ Len(media') = Len(media)
  /\ \A k \in 1..Len(media) : (media'[k].live <=> media[k].live /\ k # m) /\ media'[k].enabled = media[k].enabled
  /\ UNCHANGED <<kind, backup, sends, layers, muted, active, hidden>> /\ TrackButStopped
  /\ HistoryStands /\ history'.failed = history.failed /\ history'.heard = history.heard \ {m}
  /\ \/ /\ Unheard(m) /\ task' = task /\ history'.raced = history.raced /\ history'.wanted = history.wanted
        /\ history'.lost = history.lost \union (IF Changing \/ ~track.published THEN {m} ELSE {})
     \/ /\ ~Unheard(m) /\ track.user /\ history'.raced = history.raced /\ history'.wanted = history.wanted
        /\ history'.lost = history.lost /\ PlainTasks
     \/ /\ ~Unheard(m) /\ ~track.user /\ ~track.muted /\ history'.raced = (history.raced \/ Changing)
        /\ history'.wanted = IF kind.camera THEN history.wanted ELSE Fallback
        /\ history'.lost = history.lost /\ Begun("ended")

\* The change of an operation goes on.
Acquiring(i) ==
  /\ task[i].op \in Restarts /\ task[i].at = "change" /\ Enters(i, "change") /\ Moves(i, "acquire")
  /\ task'[i].device = IF FallsBack(task[i]) THEN Fallback ELSE track.device
  /\ Kept(media, media') /\ Len(media') = Len(media)
  /\ \A k \in 1..Len(media) : (media'[k].live <=> media[k].live /\ k # track.m) /\ media'[k].enabled = media[k].enabled
  /\ UNCHANGED <<kind, track, backup, sends, layers, muted, active, hidden>>
  /\ HistoryStands /\ history'.failed = history.failed /\ history'.heard = history.heard \ {track.m}
  /\ history'.raced = history.raced /\ history'.wanted = history.wanted /\ history'.lost = history.lost

\* A media is set: that which was acquired, the user's, or that which it has.
Setting(i, m) ==
  /\ Moves(i, IF track'.processor THEN "process" ELSE "replaced") /\ task'[i].m = m
  /\ task'[i].device = IF task[i].op \in Restarts /\ ~FallsBack(task[i]) THEN track.device ELSE task[i].device
  /\ UNCHANGED <<kind, backup, layers, muted, active, hidden>>
  /\ track'.m = track.m /\ track'.muted = track.muted /\ track'.paused = track.paused
  /\ track'.published = track.published /\ track'.stopped = track.stopped /\ track'.pendingDevice = track.pendingDevice
  /\ sends'.main = (IF track.published /\ ~track'.processor THEN m ELSE sends.main) /\ sends'.scaled = sends.scaled /\ sends'.encoded = sends.encoded
  /\ history'.heard = (history.heard \ {track.m}) \union (IF media'[m].live THEN {m} ELSE {})
  /\ ~history'.outrun /\ history'.lost = history.lost /\ history'.failed = history.failed
  /\ history'.raced = history.raced /\ history'.wanted = history.wanted /\ history'.bypassed = history.bypassed
  /\ history'.resized = history.resized /\ history'.missed = history.missed
  /\ Kept(media, media') /\ \A k \in 1..Len(media) : media'[k] = media[k]
SettingNew(i, m, by) ==
  /\ Setting(i, m) /\ m = Len(media) + 1 /\ Len(media') = m /\ task[i].device \in Devices
  /\ media'[m].device = task[i].device /\ media'[m].live /\ media'[m].by = by
  /\ track'.device = task[i].device /\ track'.processor = track.processor /\ history'.dropped = history.dropped
SettingAcquired(i) ==
  /\ SettingNew(i, Len(media) + 1, "sdk") /\ task[i].op \in Restarts /\ task[i].at = "acquire" /\ ChangeTask(task[i])
  /\ track'.user = track.user
SettingUsers(i) ==
  /\ SettingNew(i, Len(media) + 1, "user") /\ task[i].op = "replace" /\ task[i].at = "change" /\ Enters(i, "change")
  /\ track'.user
SettingAgain(i) ==
  /\ Setting(i, track.m) /\ media' = media /\ task[i].op \in {"unprocess", "processor"} /\ task[i].at = "destroy" /\ ChangeTask(task[i])
  /\ track'.user = track.user /\ ~track'.processor
  /\ history'.dropped = (history.dropped \/ track'.device # track.device)

LEMMA BegunAs ==
  ASSUME Core, NEW t, t.at = "change", \E i \in Tasks : task[i].op = "idle" /\ task' = [task EXCEPT ![i] = t]
  PROVE  Begun(t.op)
  BY TaskFacts, AssignedTask DEF Legal, Begun

LEMMA DeviceAskedFacts ==
  ASSUME Core, NEW d \in Devices, SetDeviceId(d)
  PROVE  Core' /\ DeviceAsked(d)
<1>1. CASE ~track.muted
  <2>1. \E i \in Tasks : task[i].op = "idle" /\ task' = [task EXCEPT ![i] = Call("device", "change")]
    BY <1>1, CoreSetDeviceId
  <2>2. PICK t : t = Call("device", "change")
    OBVIOUS
  <2>3. t.op = "device" /\ t.at = "change"
    BY <2>2 DEF Call, Idle
  <2>4. Begun("device")
    BY <2>1, <2>2, <2>3, BegunAs
  <2> QED BY <1>1, <2>4, CoreSetDeviceId DEF DeviceAsked, HistoryStands
<1> QED
  BY <1>1, CoreSetDeviceId DEF DeviceAsked, HistoryStands, tasks

LEMMA RestartAskedFacts ==
  ASSUME Core, RestartTrack
  PROVE  Core' /\ RestartAsked
<1>1. PICK t : t = Call("restart", "change")
  OBVIOUS
<1>2. t.op = "restart" /\ t.at = "change"
  BY <1>1 DEF Call, Idle
<1>3. Begun("restart")
  BY <1>1, <1>2, BegunAs, CoreRestartTrack
<1> QED BY <1>3, CoreRestartTrack DEF RestartAsked, TrackButStopped

LEMMA ShownFacts ==
  ASSUME Core, Show
  PROVE  Core' /\ Shown
<1>1. PICK t : t = Call("reacquire", "change")
  OBVIOUS
<1>2. t.op = "reacquire" /\ t.at = "change"
  BY <1>1 DEF Call, Idle
<1>3. CASE NeedsReAcquisition /\ ~track.user /\ ~track.muted
  BY <1>1, <1>2, <1>3, BegunAs, CoreShow DEF Shown, TrackButStopped
<1> QED
  BY <1>3, CoreShow DEF Shown, TrackButStopped, tasks

LEMMA HiddenFacts ==
  ASSUME Core, Hide
  PROVE  Core' /\ Hidden
BY CoreHide DEF Hidden

LEMMA GoneFacts ==
  ASSUME Core, NEW m \in DOMAIN media, MediaEnds(m)
  PROVE  Core' /\ Gone(m)
<1>1. media' = Ended(media, {m})
  BY CoreMediaEnds
<1>2. /\ Kept(media, media') /\ Len(media') = Len(media)
      /\ \A k \in 1..Len(media) : (media'[k].live <=> media[k].live /\ k # m) /\ media'[k].enabled = media[k].enabled
  BY <1>1, EndedFacts, HistoryTyped
<1>3. TrackButStopped /\ m \in 1..Len(media) /\ Core' /\ UNCHANGED <<kind, backup, sends, layers, muted, active, hidden>>
      /\ HistoryStands /\ history'.failed = history.failed /\ history'.heard = history.heard \ {m}
  BY CoreMediaEnds DEF TrackButStopped
<1>4. CASE /\ ~Unheard(m) /\ track.user /\ track' = track /\ history'.raced = history.raced /\ history'.wanted = history.wanted
           /\ history'.lost = history.lost
           /\ \E i \in Tasks : task[i].op = "idle" /\ task' = [task EXCEPT ![i] = Call("mute", "mute")]
  <2>1. PICK i \in Tasks : task[i].op = "idle" /\ task' = [task EXCEPT ![i] = Call("mute", "mute")]
    BY <1>4
  <2>2. Apart(Call("mute", "mute"))
    BY DEF Apart, Call, Idle, Restarts
  <2>3. PlainTasks
    BY <2>1, <2>2, OneApart, TaskFacts DEF Legal, Apart, Restarts
  <2> QED BY <1>2, <1>3, <1>4, <2>3 DEF Gone
<1>5. CASE /\ ~Unheard(m) /\ ~track.user /\ ~track.muted /\ history'.raced = (history.raced \/ Changing)
           /\ history'.wanted = IF kind.camera THEN history.wanted ELSE Fallback
           /\ history'.lost = history.lost
           /\ \E i \in Tasks : task[i].op = "idle" /\ task' = [task EXCEPT ![i] = EndedCall]
  <2>1. PICK t : t = EndedCall
    OBVIOUS
  <2>2. t.op = "ended" /\ t.at = "change"
    BY <2>1 DEF EndedCall, Call, Idle
  <2>3. Begun("ended")
    BY <1>5, <2>1, <2>2, BegunAs
  <2> QED BY <1>2, <1>3, <1>5, <2>3 DEF Gone
<1> QED
  BY <1>4, <1>5, CoreMediaEnds, <1>2, <1>3 DEF Gone, tasks

LEMMA AcquiringFacts ==
  ASSUME Core, NEW i \in Tasks, RestartEnters(i)
  PROVE  Core' /\ Acquiring(i)
<1>1. PICK t \in Calls : /\ task' = [task EXCEPT ![i] = t] /\ t.op = task[i].op /\ t.at = "acquire"
                         /\ t.device = IF FallsBack(task[i]) THEN Fallback ELSE track.device
  BY CoreRestartEnters
<1>2. task'[i] = t /\ Others(i)
  BY <1>1, AssignedTask
<1>3. /\ Kept(media, media') /\ Len(media') = Len(media)
      /\ \A k \in 1..Len(media) : (media'[k].live <=> media[k].live /\ k # track.m) /\ media'[k].enabled = media[k].enabled
  BY EndedFacts, HistoryTyped, CoreRestartEnters
<1> QED BY <1>1, <1>2, <1>3, CoreRestartEnters DEF Acquiring, Moves

LEMMA SettingFacts ==
  ASSUME Core, NEW i \in Tasks, NEW m, NEW md, NEW tr, SetsFacts(i, m, md, tr), tr \in TrackRecs,
         tr.m = track.m, tr.muted = track.muted, tr.paused = track.paused, tr.published = track.published,
         tr.stopped = track.stopped, tr.pendingDevice = track.pendingDevice,
         Kept(media, md), \A k \in 1..Len(media) : md[k] = media[k]
  PROVE  Setting(i, m) /\ media' = md /\ track' = tr
  BY AssignedTask DEF SetsFacts, Moves, Setting

LEMMA AcquiredFacts ==
  ASSUME Core, NEW i \in Tasks, Acquired(i)
  PROVE  Core' /\ SettingAcquired(i)
<1>1. /\ Core' /\ ChangeTask(task[i]) /\ task[i].op \in Restarts /\ task[i].at = "acquire" /\ task[i].device \in Devices
  BY CoreAcquired
<1>2. PICK d \in Devices : d = task[i].device
  BY <1>1
<1>3. PICK tr : /\ tr = [track EXCEPT !.device = d]
                /\ SetsFacts(i, Len(media) + 1, Append(media, NewMedia(d, "sdk")), tr)
  BY <1>2, CoreAcquired
<1>4. /\ tr \in TrackRecs /\ tr.m = track.m /\ tr.muted = track.muted /\ tr.paused = track.paused /\ tr.published = track.published
      /\ tr.stopped = track.stopped /\ tr.pendingDevice = track.pendingDevice /\ tr.user = track.user
      /\ tr.processor = track.processor /\ tr.device = d
  BY <1>3, HistoryTyped DEF TrackRecs
<1>5. PICK md : md = Append(media, NewMedia(d, "sdk"))
  OBVIOUS
<1>6. /\ Kept(media, md) /\ Len(md) = Len(media) + 1 /\ md[Len(media) + 1] = NewMedia(d, "sdk")
      /\ \A k \in 1..Len(media) : md[k] = media[k]
  BY <1>5, AppendFacts, NewMediaFacts, HistoryTyped
<1>7. Setting(i, Len(media) + 1) /\ media' = md /\ track' = tr
  <2>1. PICK m : m = Len(media) + 1
    OBVIOUS
  <2>2. SetsFacts(i, m, md, tr)
    BY <2>1, <1>3, <1>5
  <2> QED
    BY <2>1, <1>4, <1>6, <2>2, SettingFacts
<1> QED
  BY <1>1, <1>4, <1>7, <1>2, <1>6, NewMediaFacts, HistoryTyped, <1>3
    DEF SettingAcquired, SettingNew, Restarts, Histories, SetsFacts

LEMMA UsersFacts ==
  ASSUME Core, NEW i \in Tasks, ReplaceEnters(i)
  PROVE  Core' /\ SettingUsers(i)
<1>1. /\ Core' /\ Enters(i, "change") /\ task[i].op = "replace" /\ task[i].at = "change" /\ task[i].device \in Devices
  BY CoreReplaceEnters
<1>2. PICK d \in Devices : d = task[i].device
  BY <1>1
<1>3. PICK tr : /\ tr = [track EXCEPT !.user = TRUE, !.device = d]
                /\ SetsFacts(i, Len(media) + 1, Append(media, NewMedia(d, "user")), tr)
  BY <1>2, CoreReplaceEnters
<1>4. /\ tr \in TrackRecs /\ tr.m = track.m /\ tr.muted = track.muted /\ tr.paused = track.paused /\ tr.published = track.published
      /\ tr.stopped = track.stopped /\ tr.pendingDevice = track.pendingDevice /\ tr.user
      /\ tr.processor = track.processor /\ tr.device = d
  BY <1>3, HistoryTyped DEF TrackRecs
<1>5. PICK md : md = Append(media, NewMedia(d, "user"))
  OBVIOUS
<1>6. /\ Kept(media, md) /\ Len(md) = Len(media) + 1 /\ md[Len(media) + 1] = NewMedia(d, "user")
      /\ \A k \in 1..Len(media) : md[k] = media[k]
  BY <1>5, AppendFacts, NewMediaFacts, HistoryTyped
<1>7. Setting(i, Len(media) + 1) /\ media' = md /\ track' = tr
  <2>1. PICK m : m = Len(media) + 1
    OBVIOUS
  <2>2. SetsFacts(i, m, md, tr)
    BY <2>1, <1>3, <1>5
  <2> QED
    BY <2>1, <1>4, <1>6, <2>2, SettingFacts
<1> QED
  BY <1>1, <1>4, <1>7, <1>2, <1>6, NewMediaFacts, HistoryTyped, <1>3
    DEF SettingUsers, SettingNew, Histories, SetsFacts

LEMMA AgainFacts ==
  ASSUME Core, NEW i \in Tasks, Destroyed(i)
  PROVE  Core' /\ SettingAgain(i)
<1>1. PICK tr, d : /\ tr = [track EXCEPT !.processor = FALSE, !.device = d] /\ d \in Devices
                   /\ SetsFacts(i, track.m, media, tr)
  BY CoreDestroyed
<1>2. /\ tr \in TrackRecs /\ tr.m = track.m /\ tr.muted = track.muted /\ tr.paused = track.paused /\ tr.published = track.published
      /\ tr.stopped = track.stopped /\ tr.pendingDevice = track.pendingDevice /\ tr.user = track.user
      /\ ~tr.processor
  BY <1>1, HistoryTyped DEF TrackRecs
<1>3. Setting(i, track.m) /\ media' = media /\ track' = tr
  BY <1>1, <1>2, KeptSame, HistoryTyped, SettingFacts
<1>4. history'.dropped = (history.dropped \/ (task[i].op \in {"unprocess", "processor"} /\ tr.device # track.device))
  BY <1>1 DEF SetsFacts
<1> QED
  BY <1>2, <1>3, <1>4, CoreDestroyed DEF SettingAgain

\* The device or the processor fails.
Over(i) == task'[i].op \in {"idle", "mute"} /\ task'[i].at \in {"none", "mute"} /\ Others(i)
NotAcquired(i) ==
  /\ task[i].op \in Restarts /\ task[i].at = "acquire" /\ ChangeTask(task[i]) /\ Over(i)
  /\ UNCHANGED <<kind, track, backup, sends, layers, muted, active, hidden>>
  /\ HistoryStands /\ history'.failed /\ history'.heard = history.heard /\ history'.raced = history.raced
  /\ history'.wanted = (IF FallsBack(task[i]) THEN track.device ELSE history.wanted)
  /\ Kept(media, media') /\ (\A k \in 1..Len(media) : media'[k] = media[k])
  /\ history.lost \subseteq history'.lost
  /\ \A k \in 1..Len(media') : k > Len(media) => k \in history'.lost
NotProcessed(i) ==
  /\ task[i].op \in Restarts \union {"replace"} /\ task[i].at = "process" /\ ChangeTask(task[i]) /\ Over(i)
  /\ UNCHANGED <<kind, media, track, backup, sends, layers, muted, active, hidden>>
  /\ HistoryStands /\ history'.failed /\ history'.heard = history.heard /\ history'.raced = history.raced
  /\ history'.wanted = history.wanted /\ history'.lost = history.lost \union ({task[i].m} \ OwnMedia)
Processing(i) ==
  /\ task[i].op \in Restarts \union {"replace"} /\ task[i].at = "process" /\ ChangeTask(task[i]) /\ track.processor
  /\ UNCHANGED <<kind, media, track, backup, layers, muted, active, hidden, history>>
  /\ sends'.main = (IF track.published THEN Processed ELSE sends.main) /\ sends'.scaled = sends.scaled /\ sends'.encoded = sends.encoded
  /\ Moves(i, "replaced") /\ task'[i].m = task[i].m /\ task'[i].device = task[i].device
Swapped(i) ==
  /\ task[i].op \in Restarts \union {"replace", "unprocess", "processor"} /\ task[i].at = "replaced" /\ ChangeTask(task[i])
  /\ UNCHANGED <<kind, backup, sends, layers, muted, active, hidden>>
  /\ task[i].m \in 1..Len(media)
  /\ track'.m = task[i].m /\ track'.muted = track.muted /\ track'.user = track.user
  /\ track'.paused = track.paused /\ track'.published = track.published /\ track'.processor = track.processor
  /\ track'.device = track.device /\ track'.pendingDevice = track.pendingDevice /\ track'.stopped = track.stopped
  /\ Kept(media, media') /\ Len(media') = Len(media)
  /\ \A k \in 1..Len(media) : /\ media'[k].live <=> media[k].live /\ (track.user \/ k # track.m \/ k = task[i].m)
                              /\ k # task[i].m => media'[k].enabled = media[k].enabled
  /\ media'[task[i].m].enabled <=> (task[i].op = "unmute" \/ ~track.muted)
  /\ HistoryStands /\ history'.failed = history.failed /\ history'.raced = history.raced /\ history'.wanted = history.wanted
  /\ history'.heard = history.heard \ ({track.m} \ {task[i].m})
  /\ history.lost \subseteq history'.lost
  /\ track.user /\ track.m # task[i].m /\ media[track.m].by = "sdk" => track.m \in history'.lost
  /\ ~track.user => history'.lost = history.lost
  /\ Moves(i, "resume") /\ task'[i].m = task[i].m /\ task'[i].device = task[i].device
ChangeEnded(i) ==
  LET t == task[i] restores == t.op \in Restarts stops == Stops(t) unmutes == t.op = "unmute" IN
  /\ t.op \in Restarts \union {"replace", "unprocess", "processor"} /\ t.at = "resume" /\ ChangeTask(t) /\ t.m = track.m /\ track.m # 0
  /\ UNCHANGED <<kind, backup, layers, hidden>>
  /\ track'.m = track.m /\ track'.user = track.user /\ track'.published = track.published /\ track'.stopped = track.stopped
  /\ track'.paused = (track.paused /\ ~track.published) /\ track'.muted = (track.muted /\ ~unmutes)
  /\ track'.device = (IF restores THEN t.device ELSE track.device) /\ track'.pendingDevice = (track.pendingDevice /\ ~restores)
  /\ track'.processor = (track.processor /\ ~stops)
  /\ sends'.main = (IF track.published /\ track.paused THEN Current(track) ELSE sends.main) /\ sends'.scaled = sends.scaled /\ sends'.encoded = sends.encoded
  /\ muted' = (IF unmutes THEN track'.paused ELSE IF track.paused /\ track.published THEN track.muted ELSE muted)
  /\ active' = (IF restores /\ track.published THEN media[t.m].device ELSE active)
  /\ Kept(media, media') /\ Len(media') = Len(media)
  /\ \A k \in 1..Len(media) : /\ media'[k].live <=> media[k].live /\ ~(stops /\ k \in OwnMedia)
                              /\ media'[k].enabled <=> media[k].enabled \/ (unmutes /\ k \in OwnMedia)
  /\ history'.heard = (IF stops THEN history.heard \ {t.m} ELSE history.heard) /\ history'.failed = (history.failed /\ ~restores)
  /\ history'.resized = (IF t.op \in {"unmute", "reacquire"} THEN media[t.m].device # sends.scaled ELSE history.resized)
  /\ history'.missed = history.missed /\ history'.lost = history.lost /\ history'.raced = history.raced /\ history'.wanted = history.wanted
  /\ history'.dropped = history.dropped /\ history'.bypassed = history.bypassed /\ history'.outrun = history.outrun
  /\ Others(i)
  /\ IF t.op \in {"unmute", "reacquire"} THEN task'[i] = Idle
     ELSE IF t.op \in {"device", "restart", "ended"} THEN task'[i].op = t.op /\ task'[i].at = "clone"
     ELSE IF t.op = "processor" THEN task'[i].op = t.op /\ task'[i].at = "install"
     ELSE IF kind.camera /\ track.published /\ ~layers.performance THEN task'[i].at = "sender" /\ task'[i].op = t.op
     ELSE task'[i] = Idle

\* Steps of a processor, and the end of the track.
Initialised(i) ==
  /\ task[i].op = "processor" /\ task[i].at \in {"init", "install"} /\ ChangeTask(task[i])
  /\ UNCHANGED <<kind, media, backup, layers, muted, active, hidden>>
  /\ track'.m = track.m /\ track'.muted = track.muted /\ track'.user = track.user
  /\ track'.paused = track.paused /\ track'.published = track.published /\ track'.processor
  /\ track'.device = track.device /\ track'.pendingDevice = track.pendingDevice /\ track'.stopped = track.stopped
  /\ sends'.main = (IF track.published THEN Processed ELSE sends.main) /\ sends'.scaled = sends.scaled /\ sends'.encoded = sends.encoded
  /\ history'.failed = history.failed /\ history'.heard = history.heard /\ history'.raced = history.raced
  /\ history'.wanted = history.wanted /\ history'.lost = history.lost /\ history'.dropped = history.dropped
  /\ history'.outrun = history.outrun /\ history'.resized = history.resized /\ history'.missed = history.missed
  /\ history'.bypassed = (history.bypassed \/ track.paused)
  /\ PlainTasks /\ Others(i)
  /\ IF kind.camera /\ track.published /\ ~layers.performance THEN task'[i].at = "sender" /\ task'[i].op = "processor"
     ELSE task'[i] = Idle
NotDestroyed(i) ==
  /\ task[i].op \in {"unprocess", "processor"} /\ task[i].at = "destroy" /\ PlainTasks /\ Ends(i)
  /\ UNCHANGED <<kind, media, backup, sends, layers, muted, active, hidden>>
  /\ track'.m = track.m /\ track'.muted = track.muted /\ track'.user = track.user
  /\ track'.paused = track.paused /\ track'.published = track.published
  /\ track'.device = track.device /\ track'.pendingDevice = track.pendingDevice /\ track'.stopped = track.stopped
  /\ HistoryStands /\ history'.failed /\ history'.heard = history.heard /\ history'.raced = history.raced
  /\ history'.wanted = history.wanted /\ history'.lost = history.lost
Unpublished ==
  /\ track.published /\ UNCHANGED <<kind, layers, task, muted, active, hidden>>
  /\ track'.m = track.m /\ track'.muted = track.muted /\ track'.user = track.user
  /\ track'.paused = track.paused /\ ~track'.published /\ ~track'.processor
  /\ track'.device = track.device /\ track'.pendingDevice = track.pendingDevice /\ track'.stopped
  /\ Kept(media, media') /\ Len(media') = Len(media)
  /\ (\A k \in 1..Len(media) : (media'[k].live <=> media[k].live /\ k \notin OwnMedia) /\ media'[k].enabled = media[k].enabled)
  /\ backup'.m = 0 /\ sends'.main = 0
  /\ HistoryStands /\ history'.failed = history.failed /\ history'.heard = history.heard \ {track.m}
  /\ history'.raced = history.raced /\ history'.wanted = history.wanted /\ history'.lost = history.lost

\* Steps of the creation: nothing else is under way.
Creating(i) == /\ task[i].op = "create" /\ (\A j \in Tasks : j # i => task[j].op = "idle" /\ task[j].at = "none")
               /\ task'[i].op \in {"create", "idle"} /\ task'[i].at \in {"none", "acquire", "init"} /\ Others(i)
               /\ UNCHANGED <<kind, backup, layers, muted, active, hidden>> /\ ~hidden /\ ~muted /\ backup = NoBackup
               /\ ~track'.muted /\ ~track'.paused /\ ~track'.stopped /\ ~track'.user /\ ~track'.pendingDevice
               /\ HistoryStands /\ history'.failed = history.failed
               /\ history'.raced = history.raced /\ history'.wanted = history.wanted /\ sends'.scaled = sends.scaled /\ sends'.encoded = sends.encoded
               /\ active = Fallback /\ history.wanted = Fallback /\ sends.scaled = Fallback
Creates(i) ==
  /\ Creating(i) /\ track = NoTrack
  /\ Kept(media, media') /\ (\A k \in 1..Len(media) : media'[k] = media[k]) /\ Len(media') = Len(media) + 1
  /\ media'[Len(media) + 1] = Captured(Fallback)
  /\ track'.m = Len(media) + 1 /\ track'.device = Fallback /\ ~track'.processor
  /\ history'.heard = history.heard \union {Len(media) + 1} /\ history'.lost = history.lost
  /\ sends'.main = (IF track'.published THEN Len(media) + 1 ELSE sends.main)
NotCreated(i) ==
  /\ Creating(i) /\ media' = media /\ track' = NoTrack /\ history'.lost = history.lost \union {track.m} /\ sends' = sends
CreatedNow(i) ==
  /\ Creating(i) /\ Newborn /\ media' = media /\ track'.m = track.m /\ track.m # 0 /\ track'.published /\ track'.processor
  /\ track'.device = Fallback /\ sends'.main = Processed /\ history' = history

LEMMA NotAcquiredFacts ==
  ASSUME Core, NEW i \in Tasks, AcquireFails(i)
  PROVE  Core' /\ NotAcquired(i)
<1>1. PICK t : t = IF task[i].op = "ended" THEN Call("mute", "mute") ELSE Idle
  OBVIOUS
<1>2. t.op \in {"idle", "mute"} /\ t.at \in {"none", "mute"}
  BY <1>1 DEF Call, Idle
<1>3. Over(i)
  BY <1>1, <1>2, AssignedTask, CoreAcquireFails DEF Over
<1>4. CASE media' = media /\ history'.lost = history.lost
  BY <1>4, HistoryTyped, <1>3, KeptSame, CoreAcquireFails DEF NotAcquired
<1>5. CASE /\ media' = Append(media, NewMedia(task[i].device, "sdk")) /\ task[i].device \in Devices
           /\ history'.lost = history.lost \union {Len(media) + 1}
  BY <1>5, AppendFacts, NewMediaFacts, HistoryTyped, <1>3, CoreAcquireFails DEF NotAcquired
<1> QED BY <1>4, <1>5, CoreAcquireFails

LEMMA NotProcessedFacts ==
  ASSUME Core, NEW i \in Tasks, ProcessFails(i)
  PROVE  Core' /\ NotProcessed(i)
<1>1. PICK t : t = IF task[i].op = "ended" THEN Call("mute", "mute") ELSE Idle
  OBVIOUS
<1>2. t.op \in {"idle", "mute"} /\ t.at \in {"none", "mute"}
  BY <1>1 DEF Call, Idle
<1>3. Over(i)
  BY <1>1, <1>2, AssignedTask, CoreProcessFails DEF Over
<1> QED BY <1>3, CoreProcessFails DEF NotProcessed

LEMMA ProcessingFacts ==
  ASSUME Core, NEW i \in Tasks, Reprocessed(i)
  PROVE  Core' /\ Processing(i)
<1>1. PICK t \in Calls : /\ task' = [task EXCEPT ![i] = t] /\ t.op = task[i].op /\ t.at = "replaced" /\ t.m = task[i].m
                         /\ t.device = task[i].device
  BY CoreReprocessed
<1>2. task'[i] = t /\ Others(i)
  BY <1>1, AssignedTask
<1> QED BY <1>1, <1>2, CoreReprocessed DEF Processing, Moves

LEMMA SwappedFacts ==
  ASSUME Core, NEW i \in Tasks, Replaced(i)
  PROVE  Core' /\ Swapped(i)
<1>1. PICK t \in Calls : /\ task' = [task EXCEPT ![i] = t] /\ t.op = task[i].op /\ t.at = "resume" /\ t.m = task[i].m
                         /\ t.device = task[i].device
  BY CoreReplaced
<1>2. Moves(i, "resume") /\ task'[i].m = task[i].m /\ task'[i].device = task[i].device
  BY <1>1, AssignedTask DEF Moves
<1> QED BY <1>2, CoreReplaced DEF Swapped

LEMMA ChangeEndedFacts ==
  ASSUME Core, NEW i \in Tasks, ChangeEnds(i)
  PROVE  Core' /\ ChangeEnded(i)
<1>1. /\ Core' /\ task[i].op \in Restarts \union {"replace", "unprocess", "processor"} /\ task[i].at = "resume" /\ ChangeTask(task[i])
      /\ task[i].m = track.m /\ track.m # 0 /\ EndsFacts(i)
  BY CoreChangeEnds
<1>2. PICK u \in Calls : /\ task' = [task EXCEPT ![i] = u]
                         /\ IF task[i].op \in {"unmute", "reacquire"} THEN u = Idle
                            ELSE IF task[i].op \in {"device", "restart", "ended"} THEN u.op = task[i].op /\ u.at = "clone"
                            ELSE IF task[i].op = "processor" THEN u.op = task[i].op /\ u.at = "install"
                            ELSE IF kind.camera /\ track.published /\ ~layers.performance THEN u.at = "sender" /\ u.op = task[i].op
                            ELSE u = Idle
  BY <1>1 DEF EndsFacts
<1>3. /\ Others(i)
      /\ IF task[i].op \in {"unmute", "reacquire"} THEN task'[i] = Idle
         ELSE IF task[i].op \in {"device", "restart", "ended"} THEN task'[i].op = task[i].op /\ task'[i].at = "clone"
         ELSE IF task[i].op = "processor" THEN task'[i].op = task[i].op /\ task'[i].at = "install"
         ELSE IF kind.camera /\ track.published /\ ~layers.performance THEN task'[i].at = "sender" /\ task'[i].op = task[i].op
         ELSE task'[i] = Idle
  BY <1>2, AssignedTask
<1> QED BY <1>1, <1>3 DEF ChangeEnded, EndsFacts

LEMMA InitialisedFacts ==
  ASSUME Core, NEW i \in Tasks, Installing(i)
  PROVE  Core' /\ Initialised(i)
  BY CoreInstalls, AssignedTask, IdleIsApart, OneApart DEF Apart, Restarts, Initialised

LEMMA NotDestroyedFacts ==
  ASSUME Core, NEW i \in Tasks, DestroyFails(i)
  PROVE  Core' /\ NotDestroyed(i)
  BY CoreDestroyFails, AssignedTask, IdleIsApart, OneApart DEF Ends, Apart, Restarts, NotDestroyed

LEMMA UnpublishedFacts ==
  ASSUME Core, Unpublish
  PROVE  Core' /\ Unpublished
  BY CoreUnpublish, EndedFacts, HistoryTyped DEF Unpublished

LEMMA CreatesFacts ==
  ASSUME Core, NEW i \in Tasks, CreateAcquires(i)
  PROVE  Core' /\ Creates(i)
<1>1. PICK t \in Calls : task' = [task EXCEPT ![i] = t] /\ (t = Idle \/ (t.op = "create" /\ t.at = "init"))
  BY CoreCreateAcquires
<1>2. task'[i] = t /\ Others(i)
  BY <1>1, AssignedTask
<1>3. Creating(i)
  BY <1>2, CoreCreateAcquires, <1>1 DEF Creating, Creation, Idle
<1>4. PICK x \in Media : x = Captured(Fallback)
  BY CoreCreateAcquires
<1>5. media' = Append(media, x)
  BY <1>4, CoreCreateAcquires
<1>6. /\ Kept(media, media') /\ (\A k \in 1..Len(media) : media'[k] = media[k]) /\ Len(media') = Len(media) + 1
      /\ media'[Len(media) + 1] = x
  BY <1>5, AppendFacts, HistoryTyped
<1> QED
  BY <1>3, <1>4, <1>6, CoreCreateAcquires DEF Creates

LEMMA NotCreatedFacts ==
  ASSUME Core, NEW i \in Tasks, CreateInitFails(i)
  PROVE  Core' /\ NotCreated(i)
  BY CoreCreateInitFails, AssignedTask, NoTrackFacts DEF Idle, Creating, Creation, NotCreated

LEMMA CreatedFacts ==
  ASSUME Core, NEW i \in Tasks, Created(i)
  PROVE  Core' /\ CreatedNow(i)
  BY CoreCreated, AssignedTask DEF Idle, HistoryStands, Creating, Creation, CreatedNow

\* Every step is one of these.
Part(i) ==
  \/ Mutes(i) \/ Unmuting(i) \/ Unmuted(i) \/ Acquiring(i) \/ SettingAcquired(i) \/ SettingUsers(i)
  \/ SettingAgain(i) \/ NotAcquired(i) \/ NotProcessed(i) \/ Processing(i) \/ Swapped(i) \/ ChangeEnded(i)
  \/ Initialised(i) \/ NotDestroyed(i) \/ Creates(i) \/ NotCreated(i) \/ CreatedNow(i)
Whole ==
  \/ PlainStep \/ Paused \/ Resumed \/ RestartAsked \/ Shown \/ Hidden \/ Unpublished
  \/ (\E d \in Devices : DeviceAsked(d)) \/ (\E m \in 1..Len(media) : Gone(m))
Step == Whole \/ \E i \in Tasks : Part(i)

LEMMA Steps ==
  ASSUME Core, [TracksNext]_trackVars
  PROVE  Core' /\ Step
<1>1. CASE Application
  BY <1>1, PlainBeginnings, PausesOrPlain, ResumeUpstreamFacts, RestartAskedFacts, UnpublishedFacts, DeviceAskedFacts
     DEF Application, Step, Whole
<1>2. CASE Browser
  BY HiddenFacts, HistoryTyped, GoneFacts, <1>2, DeviceMutesFacts, PlainBeginnings
    DEF Step, Whole, Part, Browser
<1>3. CASE Show
  BY <1>3, ShownFacts DEF Step, Whole, Part
<1>4. ASSUME NEW m \in DOMAIN media, DeviceUnmutes(m) PROVE Core' /\ Step
  BY <1>4, DeviceUnmutesFacts DEF Step, Whole, Part
<1>5. ASSUME NEW i \in Tasks,
             \/ MuteEnters(i) \/ UnmuteEnters(i) \/ RestartEnters(i) \/ Acquired(i) \/ Reprocessed(i) \/ Replaced(i)
             \/ ChangeEnds(i) \/ ReplaceEnters(i) \/ Installing(i) \/ Destroyed(i) \/ CreateAcquires(i) \/ Created(i)
      PROVE  Core' /\ Step
  BY <1>5, MutesOrPlain, UnmutesOrPlain, AcquiringFacts, AcquiredFacts, ProcessingFacts, SwappedFacts, ChangeEndedFacts, UsersFacts,
     InitialisedFacts, AgainFacts, CreatesFacts, CreatedFacts DEF Step, Whole, Part
<1>6. ASSUME NEW i \in Tasks, PlainNext(i) PROVE Core' /\ Step
  BY <1>6, PlainProgress DEF Step, Whole, Part
<1>7. CASE Progress
  BY <1>5, <1>6, <1>7, PausesOrPlain, PlainBeginnings, NotAcquiredFacts, NotProcessedFacts,
     NotDestroyedFacts, NotCreatedFacts DEF Installing, Progress, Failures, PlainNext, Step, Whole, Part
<1> QED
  BY <1>1, <1>2, <1>3, <1>4, <1>7, CoreStutters, SameTasksArePlain, StillPlain
    DEF TracksNext, trackVars, options, sending, tasks, outside, Step, Whole, Part

(* A media that is captured has somebody who knows of it. *)
LEMMA PlainAts ==
  ASSUME PlainTasks, NEW i \in Tasks
  PROVE  /\ task[i].at \in {"process", "replaced", "resume"} \/ task'[i].at \in {"process", "replaced", "resume"}
              => task'[i] = task[i]
         /\ \A places : places \subseteq Swapping =>
              (Restarting(i, places) \/ Restarting(i, places)' => task'[i] = task[i])
BY DEF PlainTasks, Apart, Restarting

LEMMA CapturesFrame ==
  ASSUME Core, Captures, Kept(media, media'),
         \A m \in 1..Len(media') : m > Len(media) /\ media'[m].live /\ media'[m].by = "sdk" => Known(m)',
         \A m \in 1..Len(media) : Known(m) /\ media'[m].live /\ media[m].by = "sdk" => Known(m)'
  PROVE  Captures'
  BY HistoryTyped DEF Captures, Kept

StayInPlace == \A j \in Tasks : InPlace(j) => task'[j].at \in {"process", "replaced"} /\ task'[j].m = task[j].m

LEMMA CapturesStay ==
  ASSUME Core, Captures, Kept(media, media'), StayInPlace, track'.m = track.m, backup'.m = backup.m, history.lost \subseteq history'.lost,
         \A m \in 1..Len(media') : m > Len(media) /\ media'[m].live /\ media'[m].by = "sdk" => Known(m)'
  PROVE  Captures'
  BY CapturesFrame DEF Known, StayInPlace, InPlace

LEMMA NothingNew ==
  ASSUME Core, Len(media') = Len(media)
  PROVE  \A m \in 1..Len(media') : ~(m > Len(media))
BY HistoryTyped

LEMMA OnlyOneMoves ==
  ASSUME NEW i \in Tasks, Others(i), ~InPlace(i) \/ (task'[i].at \in {"process", "replaced"} /\ task'[i].m = task[i].m)
  PROVE  StayInPlace
BY DEF StayInPlace, Others, InPlace

LEMMA BegunStay ==
  ASSUME NEW op, Begun(op)
  PROVE  StayInPlace
BY OnlyOneMoves DEF Begun, InPlace

LEMMA SameTasksStay ==
  ASSUME task' = task
  PROVE  StayInPlace
BY DEF StayInPlace, InPlace

LEMMA PlainTasksStay ==
  ASSUME PlainTasks
  PROVE  StayInPlace
BY DEF StayInPlace, InPlace, PlainTasks, Apart

LEMMA MutesAt ==
  ASSUME Core, NEW i \in Tasks, task[i].op = "mute"
  PROVE  task[i].at = "mute"
BY TaskFacts DEF Legal

LEMMA CapturesKept ==
  ASSUME Core, Core', Captures, Step
  PROVE  Captures'
<1>1. track.m \in 0..Len(media) /\ Len(media) \in Nat
  BY HistoryTyped DEF TrackRecs
<1>2. CASE PlainStep
  BY <1>2, PlainTasksStay, CapturesFrame DEF PlainStep, PlainMedia, PlainHistory, Known, StayInPlace, InPlace
<1>3. CASE Paused \/ Resumed \/ Hidden
  BY <1>3, SameTasksStay, KeptSame, HistoryTyped, NothingNew, CapturesStay
    DEF Paused, Resumed, Hidden, HistoryButOutrun, TrackButPaused
<1>4. CASE RestartAsked \/ Shown \/ \E d \in Devices : DeviceAsked(d)
  BY <1>4, BegunStay, SameTasksStay, KeptSame, NothingNew, HistoryTyped, CapturesStay
    DEF RestartAsked, Shown, HistoryKept, DeviceAsked, TrackButStopped, TrackStands
<1>5. ASSUME NEW m \in 1..Len(media), Gone(m) PROVE Captures'
  BY <1>5, BegunStay, SameTasksStay, PlainTasksStay, NothingNew, CapturesStay
    DEF Gone, TrackButStopped, TrackStands
<1>6. CASE Unpublished
  BY <1>6, NothingNew, CapturesFrame DEF Unpublished, Known, OwnMedia, InPlace
<1>7. ASSUME NEW i \in Tasks, Mutes(i) \/ Unmuting(i) \/ Unmuted(i) \/ Acquiring(i) \/ ChangeEnded(i) PROVE Captures'
  <2>1. Kept(media, media') /\ Len(media') = Len(media)
    BY <1>7, KeptSame, HistoryTyped DEF Mutes, Unmuting, HistoryKept, Unmuted, Acquiring, ChangeEnded
  <2>2. track'.m = track.m /\ backup' = backup
    BY <1>7 DEF Mutes, Unmuting, HistoryKept, Unmuted, Acquiring, ChangeEnded, TrackButMuted, TrackStands
  <2>3. history'.lost = history.lost
    BY <1>7 DEF Mutes, Unmuting, HistoryKept, Unmuted, Acquiring, ChangeEnded
  <2> QED
    BY <2>1, <2>2, <2>3, NothingNew, CapturesStay, <1>7, MutesAt, OnlyOneMoves
      DEF Mutes, Unmuting, HistoryKept, Unmuted, Acquiring, ChangeEnded, InPlace, Moves, Ends
<1>8. ASSUME NEW i \in Tasks, SettingAcquired(i) \/ SettingUsers(i) \/ SettingAgain(i) PROVE Captures'
  BY OnlyOneMoves, <1>8, <1>1, CapturesStay, NothingNew
    DEF SettingAcquired, SettingUsers, SettingAgain, InPlace, SettingNew, Setting, Moves, Known
<1>9. ASSUME NEW i \in Tasks, NotAcquired(i) PROVE Captures'
  BY <1>9, OnlyOneMoves, CapturesStay DEF NotAcquired, Over, InPlace, Known
<1>10. ASSUME NEW i \in Tasks, NotProcessed(i) PROVE Captures'
  BY <1>10, KeptSame, NothingNew, HistoryTyped, CapturesFrame
    DEF NotProcessed, Over, Known, InPlace, Others, OwnMedia
<1>11. ASSUME NEW i \in Tasks, Processing(i) PROVE Captures'
  BY <1>11, OnlyOneMoves, KeptSame, NothingNew, HistoryTyped, CapturesStay DEF Processing, Moves
<1>12. ASSUME NEW i \in Tasks, Swapped(i) PROVE Captures'
  <2>1. ASSUME NEW m \in 1..Len(media), Known(m), media'[m].live, media[m].by = "sdk" PROVE Known(m)'
    <3>1. Others(i) /\ backup' = backup /\ history.lost \subseteq history'.lost /\ track'.m = task[i].m
      BY <1>12 DEF Swapped, Moves
    <3>2. CASE \E j \in Tasks : j # i /\ InPlace(j) /\ task[j].m = m
      BY <3>1, <3>2 DEF Known, InPlace, Others
    <3> QED
      BY <2>1, <3>1, <3>2, <1>12 DEF Known, Swapped
  <2> QED BY <1>12, <2>1, NothingNew, CapturesFrame DEF Swapped
<1>13. ASSUME NEW i \in Tasks, Initialised(i) \/ NotDestroyed(i) PROVE Captures'
  BY <1>13, PlainTasksStay, KeptSame, NothingNew, HistoryTyped, CapturesStay DEF Initialised, NotDestroyed
<1>14. ASSUME NEW i \in Tasks, Creates(i) \/ NotCreated(i) \/ CreatedNow(i) PROVE Captures'
  BY <1>14, CreationFacts, NoTrackFacts, <1>1, CapturesFrame, KeptSame, NothingNew, HistoryTyped
    DEF Creates, NotCreated, CreatedNow, Creating, InPlace, Known
<1>15. ASSUME NEW i \in Tasks, Part(i) PROVE Captures'
  BY <1>7, <1>8, <1>9, <1>10, <1>11, <1>12, <1>13, <1>14, <1>15 DEF Part
<1> QED
  BY <1>15, <1>2, <1>3, <1>4, <1>5, <1>6 DEF Step, Whole

(* Most steps leave alone the tasks that change the media of the track. *)
Quietly == PlainTasks \/ \E op \in Restarts : Begun(op)
Changers(t) == t.at \in {"process", "replaced", "resume"} \/ (t.op \in Restarts /\ t.at = "acquire")

LEMMA QuietTasks ==
  ASSUME Quietly, NEW i \in Tasks, Changers(task[i]) \/ Changers(task'[i])
  PROVE  task'[i] = task[i]
  BY DEF PlainTasks, Apart, Changers, Swapping, Begun, Others, Quietly

LEMMA ApartMoves ==
  ASSUME NEW i \in Tasks, Others(i), Apart(task[i]), Apart(task'[i])
  PROVE  PlainTasks
BY DEF PlainTasks, Others

LEMMA PartsApart ==
  ASSUME Core, NEW i \in Tasks, Mutes(i) \/ Unmuted(i) \/ Initialised(i) \/ NotDestroyed(i) \/ Creating(i)
  PROVE  PlainTasks
  BY MutesAt, IdleIsApart, ApartMoves, CreationFacts
    DEF Mutes, Ends, Apart, Restarts, Unmuted, Swapping, Creating, Initialised, NotDestroyed

LEMMA WholeIsQuiet ==
  ASSUME Core, Whole
  PROVE  Quietly
<1>1. CASE RestartAsked \/ Shown \/ \E d \in Devices : DeviceAsked(d)
  BY <1>1, SameTasksArePlain DEF RestartAsked, Shown, HistoryKept, DeviceAsked, Quietly, Restarts
<1> QED
  BY <1>1, SameTasksArePlain DEF Whole, PlainStep, Paused, Resumed, Hidden, Unpublished, Quietly, Gone, Restarts

\* The media that are there, live on at most.
LEMMA LiveBefore ==
  ASSUME Core, Step, NEW m \in 1..Len(media)
  PROVE  /\ m \in 1..Len(media') /\ (media'[m].live => media[m].live)
         /\ media'[m].device = media[m].device /\ media'[m].by = media[m].by
<1>1. Kept(media, media')
  <2>1. CASE Whole
    <3>1. CASE RestartAsked \/ Shown \/ \E d \in Devices : DeviceAsked(d)
      BY <3>1, KeptSame, HistoryTyped DEF RestartAsked, Shown, HistoryKept, DeviceAsked
    <3>2. CASE \E k \in 1..Len(media) : Gone(k)
      BY <3>2 DEF Gone
    <3> QED
      BY <2>1, <3>1, <3>2, KeptSame, HistoryTyped
        DEF Whole, PlainStep, PlainMedia, Paused, Resumed, Hidden, Unpublished
  <2>2. ASSUME NEW i \in Tasks, Part(i) PROVE Kept(media, media')
    <3>1. CASE SettingAcquired(i) \/ SettingUsers(i) \/ SettingAgain(i)
      BY <3>1 DEF SettingAcquired, SettingUsers, SettingAgain, SettingNew, Setting
    <3>2. CASE NotAcquired(i) \/ NotProcessed(i) \/ Processing(i) \/ Initialised(i) \/ NotDestroyed(i)
      BY <3>2, KeptSame, HistoryTyped DEF NotAcquired, NotProcessed, Processing, Initialised, NotDestroyed
    <3>3. CASE Creates(i) \/ NotCreated(i) \/ CreatedNow(i)
      BY <3>3, KeptSame, HistoryTyped DEF Creates, NotCreated, CreatedNow
    <3> QED
      BY <2>2, <3>1, <3>2, <3>3, KeptSame, HistoryTyped
        DEF Part, Mutes, Unmuting, HistoryKept, Unmuted, Acquiring, ChangeEnded, Swapped
  <2> QED BY <2>1, <2>2 DEF Step
<1> QED
  BY <1>1, HistoryTyped DEF Kept

(* The server knows. *)
LEMMA MuteStays ==
  ASSUME Core, ServerKnowsMute, track'.muted = track.muted, track'.paused = track.paused, track'.published = track.published,
         muted' = muted
  PROVE  ServerKnowsMute'
BY DEF ServerKnowsMute

LEMMA MuteKept ==
  ASSUME Core, Core', ServerKnowsMute, Step
  PROVE  ServerKnowsMute'
<1>1. CASE Whole
  <2>1. CASE RestartAsked \/ Shown \/ \E d \in Devices : DeviceAsked(d)
    BY <2>1, MuteStays DEF RestartAsked, Shown, HistoryKept, DeviceAsked, TrackButStopped, TrackStands
  <2>2. CASE \E m \in 1..Len(media) : Gone(m)
    BY <2>2, MuteStays DEF Gone, TrackButStopped, TrackStands
  <2> QED
    BY <1>1, <2>1, <2>2, MuteStays, HistoryTyped, SendsTyped
      DEF Whole, PlainStep, Hidden, ServerKnowsMute, Paused, Resumed, Unpublished, TrackButPaused, TrackRecs
<1>2. ASSUME NEW i \in Tasks, Part(i) PROVE ServerKnowsMute'
  <2>1. CASE Unmuting(i) \/ Acquiring(i) \/ NotAcquired(i) \/ NotProcessed(i) \/ Processing(i)
    BY <2>1, MuteStays DEF Unmuting, HistoryKept, Acquiring, NotAcquired, NotProcessed, Processing, TrackStands
  <2>2. CASE SettingAcquired(i) \/ SettingUsers(i) \/ SettingAgain(i)
    BY <2>2, MuteStays DEF SettingAcquired, SettingUsers, SettingAgain, SettingNew, Setting
  <2>3. CASE ChangeEnded(i)
    BY <2>3, HistoryTyped, SendsTyped DEF ChangeEnded, ServerKnowsMute, TrackRecs
  <2>4. CASE Creates(i) \/ NotCreated(i) \/ CreatedNow(i)
    BY <2>4 DEF Creates, NotCreated, CreatedNow, Creating, ServerKnowsMute
  <2> QED
    BY <1>2, <2>1, <2>2, <2>3, <2>4, HistoryTyped, MuteStays
      DEF Part, Mutes, Unmuted, TrackButMuted, ServerKnowsMute, TrackRecs, Swapped, Initialised, NotDestroyed
<1> QED BY <1>1, <1>2 DEF Step

(* What is paused. *)
Placed(t) == t.at \in {"replaced", "resume"}
LEMMA QuietStays ==
  ASSUME Core, PausedIsQuiet, track'.paused => track.paused, track'.published = track.published,
         history.bypassed => history'.bypassed, sends'.main = sends.main,
         \A i \in Tasks : Placed(task[i]) => Placed(task'[i])
  PROVE  PausedIsQuiet'
BY DEF PausedIsQuiet, Placed

LEMMA QuietlyPlaced ==
  ASSUME Quietly
  PROVE  \A i \in Tasks : Placed(task[i]) => Placed(task'[i])
BY QuietTasks DEF Placed, Changers

LEMMA OthersPlaced ==
  ASSUME NEW i \in Tasks, Others(i), ~Placed(task[i]) \/ Placed(task'[i])
  PROVE  \A j \in Tasks : Placed(task[j]) => Placed(task'[j])
BY DEF Others

LEMMA QuietKept ==
  ASSUME Core, Core', PausedIsQuiet, Step
  PROVE  PausedIsQuiet'
<1>1. CASE Whole
  <2>1. \A i \in Tasks : Placed(task[i]) => Placed(task'[i])
    BY <1>1, WholeIsQuiet, QuietlyPlaced
  <2>2. CASE RestartAsked \/ Shown \/ \E d \in Devices : DeviceAsked(d)
    BY <2>1, <2>2, QuietStays DEF RestartAsked, Shown, HistoryKept, DeviceAsked, TrackButStopped, TrackStands, HistoryStands
  <2>3. CASE \E m \in 1..Len(media) : Gone(m)
    BY <2>1, <2>3, QuietStays DEF Gone, TrackButStopped, TrackStands, HistoryStands
  <2> QED
    BY <1>1, <2>2, <2>3, <2>1, QuietStays
      DEF Whole, PlainStep, PlainHistory, Hidden, PausedIsQuiet, Paused, Resumed, Unpublished
<1>2. ASSUME NEW i \in Tasks, Part(i) PROVE PausedIsQuiet'
  <2>1. CASE Mutes(i) \/ Unmuted(i)
    BY <2>1, PartsApart, QuietlyPlaced, QuietStays DEF Quietly, Mutes, Unmuted, TrackButMuted, HistoryStands
  <2>2. CASE Unmuting(i) \/ Acquiring(i) \/ NotAcquired(i) \/ NotProcessed(i)
    BY <2>2, OthersPlaced, QuietStays
      DEF Unmuting, HistoryKept, Acquiring, NotAcquired, NotProcessed, Moves, Over, Placed, TrackStands, HistoryStands
  <2>3. CASE SettingAcquired(i) \/ SettingUsers(i) \/ SettingAgain(i)
    BY <2>3, OthersPlaced, QuietStays
      DEF SettingAcquired, SettingUsers, SettingAgain, SettingNew, Setting, Placed, Moves, PausedIsQuiet
  <2>4. CASE Processing(i)
    BY <2>4, OthersPlaced, QuietStays DEF Processing, Moves, Placed, PausedIsQuiet
  <2>5. CASE Swapped(i)
    BY <2>5, OthersPlaced, QuietStays DEF Swapped, Moves, Placed, HistoryStands
  <2>6. CASE Initialised(i)
    BY <2>6 DEF Initialised, PausedIsQuiet
  <2>7. CASE NotDestroyed(i)
    BY <2>7, PartsApart, QuietlyPlaced, QuietStays DEF Quietly, NotDestroyed, HistoryStands
  <2>8. CASE Creates(i) \/ NotCreated(i) \/ CreatedNow(i)
    BY <2>8 DEF Creates, NotCreated, CreatedNow, Creating, PausedIsQuiet
  <2> QED
    BY <1>2, <2>1, <2>2, <2>3, <2>4, <2>5, <2>6, <2>7, <2>8 DEF Part, ChangeEnded, PausedIsQuiet
<1> QED BY <1>1, <1>2 DEF Step

(* What ends. *)
Renews(t) == t.op \in Restarts /\ t.at \in {"acquire", "process", "replaced"}

LEMMA RenewsFacts ==
  ASSUME Core
  PROVE  /\ GoneBefore <=> \A i \in Tasks : Renews(task[i]) => ~media[track.m].live
         /\ GoneBefore' <=> \A i \in Tasks : Renews(task'[i]) => ~media'[track'.m].live
         /\ \A i \in Tasks : Renews(task[i]) => track.m \in 1..Len(media)
  BY TaskFacts, HistoryTyped DEF Renews, Restarts, GoneBefore, Restarting, TrackRecs

LEMMA GoneStays ==
  ASSUME Core, Step, GoneBefore, track'.m = track.m, \A i \in Tasks : Renews(task'[i]) => Renews(task[i])
  PROVE  GoneBefore'
  BY RenewsFacts, LiveBefore

LEMMA QuietlyRenews ==
  ASSUME Quietly
  PROVE  \A i \in Tasks : Renews(task'[i]) => Renews(task[i])
BY QuietTasks DEF Renews, Changers

LEMMA OthersRenew ==
  ASSUME NEW i \in Tasks, Others(i), ~Renews(task'[i]) \/ Renews(task[i])
  PROVE  \A j \in Tasks : Renews(task'[j]) => Renews(task[j])
BY DEF Others

LEMMA SameMediaOfTrack ==
  ASSUME Core, Whole
  PROVE  track'.m = track.m /\ track'.user = track.user
<1>1. CASE RestartAsked \/ Shown \/ \E d \in Devices : DeviceAsked(d)
  BY <1>1 DEF RestartAsked, Shown, HistoryKept, DeviceAsked, TrackButStopped, TrackStands
<1>2. CASE \E m \in 1..Len(media) : Gone(m)
  BY <1>2 DEF Gone, TrackButStopped, TrackStands
<1> QED
  BY <1>1, <1>2 DEF Whole, PlainStep, Hidden, Paused, Resumed, Unpublished, TrackButPaused

LEMMA GoneKept ==
  ASSUME Core, Core', GoneBefore, Step
  PROVE  GoneBefore'
<1>1. ASSUME NEW i \in Tasks, Part(i) PROVE GoneBefore'
  <2>1. CASE Acquiring(i)
    BY <2>1, TaskFacts, HistoryTyped, RenewsFacts DEF Acquiring, Restarts, TrackRecs
  <2>2. CASE Unmuting(i) \/ NotAcquired(i) \/ NotProcessed(i) \/ Processing(i) \/ SettingAcquired(i) \/ SettingUsers(i)
             \/ SettingAgain(i) \/ ChangeEnded(i)
    <3>1. Others(i) /\ track'.m = track.m
      BY <2>2 DEF Unmuting, HistoryKept, NotAcquired, NotProcessed, Processing, SettingAcquired, SettingUsers, SettingAgain, ChangeEnded,
                  SettingNew, Setting, Moves, Over, TrackStands
    <3>2. ~Renews(task'[i]) \/ Renews(task[i])
      <4>1. CASE SettingAcquired(i) \/ SettingUsers(i) \/ SettingAgain(i)
        BY <4>1 DEF SettingAcquired, SettingUsers, SettingAgain, SettingNew, Setting, Moves, Renews, Restarts
      <4>2. CASE ChangeEnded(i)
        BY <4>2 DEF ChangeEnded, Renews, Restarts, Idle
      <4> QED
        BY <2>2, <4>1, <4>2 DEF Unmuting, HistoryKept, NotAcquired, NotProcessed, Processing, Moves, Over, Renews, Restarts
    <3> QED
      BY <3>1, GoneStays, <3>2, OthersRenew
  \* The lock has one holder.
  <2>3. CASE Swapped(i)
    BY <2>3, ChangeIsExclusive, RenewsFacts
      DEF Swapped, Moves, Renews, Others, ChangeTask, Restarts, InChange, Core
  <2>4. CASE Creates(i) \/ NotCreated(i) \/ CreatedNow(i)
    BY <2>4, RenewsFacts DEF Creates, NotCreated, CreatedNow, Creating, Renews, Restarts, Others
  <2> QED
    BY <1>1, <2>1, <2>2, <2>3, <2>4, PartsApart, QuietlyRenews, GoneStays
      DEF Part, Quietly, Mutes, Unmuted, Initialised, NotDestroyed, TrackButMuted
<1> QED
  BY <1>1, WholeIsQuiet, QuietlyRenews, SameMediaOfTrack, GoneStays DEF Step

\* A task that is about to end a restart.
Resuming(t) == t.op \in Restarts /\ t.at = "resume"

LEMMA StopsStay ==
  ASSUME Core, Step, StoppedEnds, track'.m = track.m, track.user => track'.user, track'.stopped => track.stopped,
         \A i \in Tasks : Resuming(task[i]) => Resuming(task'[i])
  PROVE  StoppedEnds'
  BY HistoryTyped, LiveBefore DEF StoppedEnds, TrackRecs, Restarting, Resuming

LEMMA QuietlyResuming ==
  ASSUME Quietly
  PROVE  \A i \in Tasks : Resuming(task[i]) => Resuming(task'[i])
BY QuietTasks DEF Resuming, Changers

LEMMA OthersResume ==
  ASSUME NEW i \in Tasks, Others(i), ~Resuming(task[i])
  PROVE  \A j \in Tasks : Resuming(task[j]) => Resuming(task'[j])
BY DEF Others

LEMMA StopsKept ==
  ASSUME Core, Core', StoppedEnds, Step
  PROVE  StoppedEnds'
<1>1. CASE Whole
  <2>1. /\ track'.m = track.m /\ track'.user = track.user
        /\ \A i \in Tasks : Resuming(task[i]) => Resuming(task'[i])
    BY <1>1, SameMediaOfTrack, WholeIsQuiet, QuietlyResuming
  <2>2. CASE RestartAsked \/ Shown \/ \E d \in Devices : DeviceAsked(d)
    BY <2>2, <2>1, StopsStay DEF RestartAsked, Shown, HistoryKept, DeviceAsked, TrackButStopped
  <2>3. CASE Unpublished
    BY <2>1, <2>3, HistoryTyped DEF Unpublished, OwnMedia, TrackRecs, StoppedEnds
  <2> QED
    BY <1>1, <2>2, <2>3, <2>1, StopsStay
      DEF Whole, PlainStep, Hidden, Paused, Resumed, TrackButPaused, Gone, TrackButStopped
<1>2. ASSUME NEW i \in Tasks, Part(i) PROVE StoppedEnds'
  <2>1. CASE Unmuting(i) \/ Acquiring(i) \/ NotAcquired(i) \/ NotProcessed(i) \/ Processing(i)
    BY <2>1, OthersResume, StopsStay
      DEF Unmuting, HistoryKept, Acquiring, NotAcquired, NotProcessed, Processing, Moves, Over, Resuming, TrackStands
  <2>2. CASE SettingAcquired(i) \/ SettingUsers(i) \/ SettingAgain(i)
    BY <2>2, OthersResume, StopsStay
      DEF SettingAcquired, SettingUsers, SettingAgain, SettingNew, Setting, Moves, Resuming
  <2>3. CASE Swapped(i)
    BY <2>3, TaskFacts, OthersResume, StopsStay DEF Swapped, Moves, Resuming, MediaOK, StoppedEnds, Restarting
  \* What was stopped meanwhile is stopped at the end.
  <2>4. CASE ChangeEnded(i)
    <3>1. /\ track'.m = track.m /\ track'.user = track.user /\ track'.stopped = track.stopped /\ track.m # 0
          /\ ChangeTask(task[i]) /\ Others(i)
      BY <2>4 DEF ChangeEnded
    <3>2. CASE Stops(task[i])
      BY <2>4, <3>2, <3>1, HistoryTyped DEF ChangeEnded, OwnMedia, StoppedEnds, TrackRecs
    <3>3. CASE ~Stops(task[i])
      BY <3>3, <3>1, OthersResume, StopsStay DEF Stops, Resuming, StoppedEnds
    <3> QED BY <3>2, <3>3
  <2>5. CASE Creates(i) \/ NotCreated(i) \/ CreatedNow(i)
    BY <2>5 DEF Creates, NotCreated, CreatedNow, Creating, StoppedEnds
  <2> QED
    BY <1>2, <2>1, <2>2, <2>3, <2>4, <2>5, PartsApart, QuietlyResuming, StopsStay
      DEF Part, Quietly, Mutes, Unmuted, Initialised, NotDestroyed, TrackButMuted
<1> QED BY <1>1, <1>2 DEF Step

(* What is muted. *)
Swings(t)  == t.op \in Restarts \ {"unmute"} /\ t.at \in Swapping
Returns(t) == t.op = "unmute" /\ t.at = "resume"
MutedTasks == track.muted /\ ~history.raced => \A i \in Tasks : ~Swings(task[i])
MutedMedia == track.muted /\ StopsOnMute /\ ~history.raced /\ track.m # 0 =>
                ~media[track.m].live \/ \E i \in Tasks : Returns(task[i])

LEMMA MutedEndsParts ==
  ASSUME Core
  PROVE  /\ MutedEnds <=> MutedTasks /\ MutedMedia
         /\ MutedEnds' <=> MutedTasks' /\ MutedMedia'
BY DEF MutedEnds, MutedTasks, MutedMedia, Swings, Returns, Restarting

LEMMA WholeFacts ==
  ASSUME Core, Whole
  PROVE  kind' = kind /\ track'.muted = track.muted /\ (history.raced => history'.raced)
<1>1. CASE RestartAsked \/ Shown \/ \E d \in Devices : DeviceAsked(d)
  BY <1>1 DEF RestartAsked, Shown, HistoryKept, DeviceAsked, TrackButStopped, TrackStands
<1>2. CASE \E m \in 1..Len(media) : Gone(m)
  BY <1>2 DEF Gone, TrackButStopped, TrackStands
<1> QED
  BY <1>1, <1>2
    DEF Whole, PlainStep, PlainHistory, Hidden, Paused, Resumed, Unpublished, TrackButPaused,
        HistoryButOutrun

LEMMA SwingsChange ==
  ASSUME Core, NEW i \in Tasks, Swings(task[i])
  PROVE  Changing
  BY InChangeIsChanging DEF Swings, Swapping, In, Holds, ChangeTask, InChange, Restarts, Core

LEMMA PlainSwings ==
  ASSUME PlainTasks
  PROVE  \A i \in Tasks : Swings(task'[i]) => Swings(task[i])
BY DEF PlainTasks, Apart, Swings

LEMMA OthersSwing ==
  ASSUME NEW i \in Tasks, Others(i), ~Swings(task'[i]) \/ Swings(task[i])
  PROVE  \A j \in Tasks : Swings(task'[j]) => Swings(task[j])
BY DEF Others

LEMMA TasksStayMuted ==
  ASSUME MutedTasks, track'.muted => track.muted, history.raced => history'.raced,
         \A i \in Tasks : Swings(task'[i]) => Swings(task[i])
  PROVE  MutedTasks'
BY DEF MutedTasks

LEMMA MutedTasksKept ==
  ASSUME Core, Core', MutedTasks, Step
  PROVE  MutedTasks'
<1>1. CASE Whole
  <2>1. track'.muted = track.muted /\ (history.raced => history'.raced)
    BY <1>1, WholeFacts
  <2>2. PlainTasks \/ ~track.muted
    <3>1. CASE \E m \in 1..Len(media) : Gone(m)
      BY <3>1, SameTasksArePlain DEF Gone
    <3> QED
      BY <1>1, <3>1, SameTasksArePlain
        DEF Whole, PlainStep, Paused, Resumed, Hidden, Unpublished, RestartAsked, Shown, HistoryKept, DeviceAsked
  <2> QED
    BY <2>2, <2>1, PlainSwings, TasksStayMuted DEF MutedTasks
<1>2. ASSUME NEW i \in Tasks, Part(i) PROVE MutedTasks'
  <2>1. CASE Mutes(i)
    <3>1. history'.raced = (history.raced \/ Changing) /\ Others(i) /\ task'[i] = Idle
      BY <2>1 DEF Mutes, Ends
    <3>2. \A j \in Tasks : Swings(task'[j]) => Changing
      BY <3>1, OthersSwing, SwingsChange DEF Swings, Idle, Restarts
    <3> QED BY <3>1, <3>2 DEF MutedTasks
  <2>2. CASE Unmuting(i) \/ Acquiring(i) \/ NotAcquired(i) \/ NotProcessed(i) \/ Processing(i)
    <3>1. ~Swings(task'[i]) \/ Swings(task[i])
      BY <2>2 DEF Unmuting, HistoryKept, Acquiring, NotAcquired, NotProcessed, Processing, Moves, Over, Swings, Swapping, Restarts
    <3> QED
      BY <3>1, OthersSwing, TasksStayMuted, <2>2
        DEF Unmuting, HistoryKept, Acquiring, NotAcquired, NotProcessed, Processing, Moves, Over, TrackStands
  <2>3. CASE SettingAcquired(i) \/ SettingUsers(i) \/ SettingAgain(i)
    BY <2>3, OthersSwing, TasksStayMuted
      DEF SettingAcquired, SettingUsers, SettingAgain, SettingNew, Setting, Moves, Swings, Swapping, Restarts
  <2>4. CASE Swapped(i)
    BY <2>4, OthersSwing, TasksStayMuted DEF Swapped, Moves, Swings, Swapping
  <2>5. CASE ChangeEnded(i)
    <3>1. ~Swings(task'[i])
      BY <2>5 DEF ChangeEnded, Swings, Swapping, Idle
    <3> QED
      BY <3>1, OthersSwing, TasksStayMuted, <2>5 DEF ChangeEnded
  <2> QED
    BY <1>2, <2>1, <2>2, <2>3, <2>4, <2>5, PlainSwings, TasksStayMuted
      DEF Part, Creates, NotCreated, CreatedNow, Unmuted, Creating, MutedTasks, Initialised, NotDestroyed
<1> QED BY <1>1, <1>2 DEF Step

LEMMA MediaStaysMuted ==
  ASSUME Core, Step, MutedMedia, track'.m = track.m, track'.muted => track.muted, history.raced => history'.raced,
         track.user => track'.user, kind' = kind, \A i \in Tasks : Returns(task[i]) => Returns(task'[i])
  PROVE  MutedMedia'
  BY HistoryTyped, LiveBefore DEF MutedMedia, TrackRecs, StopsOnMute

LEMMA QuietlyUnmutes ==
  ASSUME Quietly
  PROVE  \A i \in Tasks : Returns(task[i]) => Returns(task'[i])
BY QuietTasks DEF Returns, Changers

LEMMA OthersUnmute ==
  ASSUME NEW i \in Tasks, Others(i), ~Returns(task[i])
  PROVE  \A j \in Tasks : Returns(task[j]) => Returns(task'[j])
BY DEF Others

LEMMA MutedMediaKept ==
  ASSUME Core, Core', MutedMedia, MutedTasks, Step
  PROVE  MutedMedia'
<1>1. ASSUME NEW i \in Tasks, Part(i) PROVE MutedMedia'
  <2>1. CASE Unmuted(i) \/ Creating(i)
    BY <2>1 DEF Unmuted, Creating, MutedMedia
  <2>2. CASE Initialised(i) \/ NotDestroyed(i)
    BY <2>2, QuietlyUnmutes, MediaStaysMuted DEF Initialised, NotDestroyed, Quietly
  <2>3. CASE Unmuting(i) \/ Acquiring(i) \/ NotAcquired(i) \/ NotProcessed(i) \/ Processing(i)
    BY <2>3, OthersUnmute, MediaStaysMuted
      DEF Unmuting, HistoryKept, Acquiring, NotAcquired, NotProcessed, Processing, Moves, Over, Returns, TrackStands
  <2>4. CASE SettingAcquired(i) \/ SettingAgain(i)
    BY <2>4, OthersUnmute, MediaStaysMuted
      DEF SettingAcquired, SettingAgain, SettingNew, Setting, Moves, Returns
  <2>5. CASE SettingUsers(i)
    BY <2>5 DEF SettingUsers, MutedMedia, StopsOnMute
  <2>6. CASE Swapped(i)
    BY <2>6, TaskFacts, OthersUnmute, MediaStaysMuted
      DEF Swapped, Moves, Returns, MutedTasks, Swings, Swapping, MutedMedia, MediaOK, StopsOnMute
  <2>7. CASE ChangeEnded(i)
    BY <2>7, OthersUnmute, MediaStaysMuted DEF ChangeEnded, Returns, MutedMedia
  <2> QED
    BY <1>1, <2>1, <2>2, <2>3, <2>4, <2>5, <2>6, <2>7, HistoryTyped
      DEF Part, Creates, NotCreated, CreatedNow, Mutes, TrackButMuted, TrackRecs, StopsOnMute, MutedMedia
<1> QED
  BY <1>1, WholeFacts, SameMediaOfTrack, WholeIsQuiet, QuietlyUnmutes, MediaStaysMuted DEF Step

=============================================================================

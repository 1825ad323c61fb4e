-------------------------- MODULE EndToEndEncryption --------------------------
(***************************************************************************)
(* e2ee/: the manager of the page, the worker it talks to through two queues, *)
(* the key ring of each participant and the cryptors that decrypt the frames of *)
(* the tracks that are subscribed to.                                        *)
(*                                                                         *)
(* The worker handles one message at a time and goes on with the next when the *)
(* handler's promise settles (AsyncQueue): task is the handler that is at an  *)
(* await. Frames, and the ratchets asked for by the application, do not wait in *)
(* that queue. A receiver's encoded streams are handed over once (Chromium); the *)
(* script transforms of other browsers are not modelled. A key is a number, its *)
(* material the number and how often it was ratcheted; a frame decrypts exactly *)
(* with the material it was encrypted with.                                   *)
(***************************************************************************)
EXTENDS Integers, Sequences, FiniteSets

CONSTANTS
  Local, Remotes,      \* identities
  Tracks, Owner,       \* remote tracks and who publishes each, encrypted
  Receivers,
  RingSize,            \* keyringSize
  Window, Tolerance,   \* ratchetWindowSize, failureTolerance
  Sessions             \* bound: the sessions to explore, see Init

None == "none"
SharedKey == "shared-key"
Handlers  == Remotes \union {Local, SharedKey}
Indices   == 0..(RingSize - 1)
Requests  == 1..2

ASSUME SettingsAssumption ==
  /\ Owner \in [Tracks -> Remotes] /\ Local \notin Remotes
  /\ RingSize \in 1..256 /\ Window \in Nat /\ Tolerance \in Int

ASSUME NamesAssumption ==
  /\ {None, SharedKey} \intersect (Remotes \union {Local}) = {}
  /\ None \notin Tracks /\ None \notin Receivers

\* What a session may have several of.
Kinds == {"key", "ratchet", "connect", "toggle", "publish", "track", "sender", "data", "dispose", "fault", "frame"}

\* Keys are set for somebody there is, and for slots of the ring; no track and no receiver is taken twice.
ASSUME SessionsAssumption ==
  \A s \in Sessions :
    /\ s.shared \in BOOLEAN /\ s.people \subseteq Remotes \union {Local} /\ s.indices \subseteq Indices
    /\ s.steps \in Nat /\ s.left \in [Kinds -> Nat]
    /\ s.ready \in Seq([track : Tracks, receiver : Receivers])
    /\ \A i, j \in DOMAIN s.ready :
         s.ready[i].track = s.ready[j].track \/ s.ready[i].receiver = s.ready[j].receiver => i = j

VARIABLES
  options,     \* the key provider's sharedKey, and bound: the identities and indices keys are set for,
               \* how many keys there are, and how often others ratchet them
  left,        \* bound: what of each kind may still happen
  \* the page
  keyInfos,    \* keyInfoMap, in the order of insertion
  latest,      \* latestManuallySetKeyIndex
  published,   \* tracks whose publication is known
  subscribed,  \* per track: its receiver
  trackOf,     \* E2EE_TRACK_ID of a receiver
  home,        \* history: the receiver a track was first on; Moved after another one
  request,     \* per data request: how it stands
  wanted,      \* encryptionType of the local participant is not NONE
  enabledHere, \* encryptionEnabled of the manager
  told,        \* per handler and index: the ratchet the key provider heard of last
  disposed,
  queue, inbox, \* messages to the worker and back
  \* the worker
  task,        \* the handler at an await
  enabled,     \* encryptionEnabledMap
  ring, current, failures, \* ParticipantKeyHandler
  ratchets,    \* ratchetPromiseMap
  raced,       \* history: slots whose key was set while a requested ratchet ran, or in which a frame
               \* waits for the ratchet of an older key
  cryptors,    \* participantCryptors
  pipe,        \* per receiver: the cryptor its frames run through
  usable,      \* per receiver: its streams can be piped
  frame,       \* per receiver: the frame in decodeFunction
  sender,      \* the local sender has its transform
  sent         \* how the last frame was sent

tracks == <<published, subscribed, trackOf, home>>
page   == <<keyInfos, latest, tracks, request, wanted, enabledHere, told, disposed>>
keys   == <<ring, current, failures, ratchets, raced>>
media  == <<cryptors, pipe, usable, frame>>
worker == <<task, enabled, keys, media, sender, sent>>
vars   == <<options, left, page, queue, inbox, worker>>

Moved == "moved"
NoSlot  == [key |-> 0, step |-> 0, nth |-> 0]
NoFrame == [pc |-> "idle", c |-> 0, h |-> None, idx |-> 0, key |-> 0, step |-> 0,
            try |-> NoSlot, base |-> NoSlot, n |-> 0, hot |-> FALSE, due |-> FALSE, missed |-> FALSE]
NoTask  == [kind |-> None]
NoRatchet == [pc |-> None, key |-> 0, step |-> 0, sets |-> FALSE, asked |-> FALSE]

shared == options.shared
Handler(p) == IF shared THEN SharedKey ELSE p
SameKey(s, k) == s.key = k.key /\ s.step = k.step
LeastOf(S) == CHOOSE x \in S : \A y \in S : x <= y
Elements(q) == {q[i] : i \in DOMAIN q}
Idle == queue = <<>> /\ inbox = <<>> /\ task = NoTask

\* A session: how keys are shared, the tracks that are subscribed to already with
\* their receivers, and how much of each kind of event happens.
Init ==
  \E s \in Sessions :
    LET on == Elements(s.ready)
        rx(t) == (CHOOSE e \in on : e.track = t).receiver
        up == {e.track : e \in on} IN
    /\ options = [shared |-> s.shared, people |-> s.people, indices |-> s.indices,
                  keys |-> s.left.key, steps |-> s.steps]
    /\ left = s.left
    /\ keyInfos = <<>> /\ latest = 0
    /\ published = up
    /\ subscribed = [t \in Tracks |-> IF t \in up THEN rx(t) ELSE None]
    /\ home = subscribed
    /\ trackOf = [r \in Receivers |-> IF \E t \in up : rx(t) = r THEN CHOOSE t \in up : rx(t) = r
                                      ELSE None]
    /\ request = [i \in Requests |-> None]
    /\ wanted = FALSE /\ enabledHere = FALSE /\ disposed = FALSE
    /\ told = [h \in Handlers |-> [i \in Indices |-> NoSlot]]
    /\ queue = <<>> /\ inbox = <<>> /\ task = NoTask
    /\ enabled = [p \in Remotes \union {Local} |->
                    IF \E t \in up : Owner[t] = p THEN "yes" ELSE None]
    /\ ring = [h \in Handlers |-> [i \in Indices |-> NoSlot]]
    /\ current = [h \in Handlers |-> 0]
    /\ failures = [h \in Handlers |-> [i \in Indices |-> 0]]
    /\ ratchets = [h \in Handlers |-> [i \in Indices |-> NoRatchet]]
    /\ raced = {}
    /\ cryptors = [c \in DOMAIN s.ready |->
         [track |-> s.ready[c].track, who |-> Owner[s.ready[c].track],
          keys |-> IF s.shared THEN SharedKey ELSE Owner[s.ready[c].track],
          live |-> TRUE, streams |-> s.ready[c].receiver, watch |-> FALSE, report |-> FALSE]]
    /\ pipe = [r \in Receivers |-> IF \E c \in DOMAIN s.ready : s.ready[c].receiver = r
                                   THEN CHOOSE c \in DOMAIN s.ready : s.ready[c].receiver = r ELSE 0]
    /\ usable = [r \in Receivers |-> TRUE]
    /\ frame = [r \in Receivers |-> NoFrame]
    /\ sender = FALSE /\ sent = None

Uses(what) == left[what] > 0 /\ left' = [left EXCEPT ![what] = @ - 1]

-----------------------------------------------------------------------------
(* The page: the key provider. *)

KeyMessage(info, update) ==
  [kind |-> "setKey", who |-> info.who, idx |-> info.idx, key |-> info.key, update |-> update]

\* postKey for every key the provider has; those of some indices are the ones to use.
AllKeys(updated) ==
  [i \in DOMAIN keyInfos |-> KeyMessage(keyInfos[i], keyInfos[i].idx \in updated)]

EnableMessage(p, on) == [kind |-> "enable", who |-> p, on |-> on]

\* A key is set, for an index or, with no index given, for index 0.
OnSetEncryptionKey(p, i, given) ==
  LET info == [who |-> p, idx |-> i, key |-> left.key]
      old  == {j \in DOMAIN keyInfos : keyInfos[j].who = p /\ keyInfos[j].idx = i} IN
  /\ Uses("key") /\ (p = None) = shared
  /\ given \/ i = 0
  /\ keyInfos' = IF old = {} THEN Append(keyInfos, info)
                 ELSE [keyInfos EXCEPT ![LeastOf(old)] = info]
  /\ latest' = IF given THEN i ELSE latest
  /\ queue' = Append(queue, KeyMessage(info, given))
  /\ UNCHANGED <<options, tracks, request, wanted, enabledHere, told, disposed, inbox, worker>>

RatchetKey(p, i) ==
  /\ Uses("ratchet") /\ (p = None) = shared
  /\ queue' = Append(queue, [kind |-> "ratchetRequest", who |-> p, idx |-> i])
  /\ UNCHANGED <<options, page, inbox, worker>>

(* The page: the manager. *)

TrackPublished(t) ==
  /\ Uses("publish") /\ t \notin published /\ published' = published \union {t}
  /\ queue' = Append(queue, EnableMessage(Owner[t], TRUE))
  /\ UNCHANGED <<options, keyInfos, latest, subscribed, trackOf, home, request, wanted,
                 enabledHere, told, disposed, inbox, worker>>

SignalConnected ==
  /\ Uses("connect")
  /\ queue' = queue \o AllKeys({latest})
                    \o << EnableMessage(Local, wanted) >>
  /\ UNCHANGED <<options, page, inbox, worker>>

\* setE2EEEnabled of the room: a call that asks for what the manager has is ignored.
SetE2EEEnabled(on) ==
  /\ Uses("toggle") /\ enabledHere # on
  /\ wanted' = on
  /\ queue' = Append(queue, EnableMessage(Local, on))
  /\ UNCHANGED <<options, keyInfos, latest, tracks, request, enabledHere, told, disposed, inbox, worker>>

\* TrackSubscribed: a receiver's streams are handed over once; after that the worker
\* is told which track the receiver carried before.
HandleReceiver(t, r) ==
  /\ Uses("track") /\ t \in published /\ subscribed[t] = None
  /\ \A u \in Tracks : subscribed[u] # r
  /\ subscribed' = [subscribed EXCEPT ![t] = r]
  /\ home' = [home EXCEPT ![t] = IF @ \in {None, r} THEN r ELSE Moved]
  /\ queue' = Append(queue, IF trackOf[r] = None
       THEN [kind |-> "decode", who |-> Owner[t], track |-> t, receiver |-> r]
       ELSE [kind |-> "updateCodec", who |-> Owner[t], track |-> t, previous |-> trackOf[r]])
  /\ trackOf' = [trackOf EXCEPT ![r] = t]
  /\ UNCHANGED <<options, keyInfos, latest, published, request, wanted, enabledHere, told, disposed,
                 inbox, worker>>

TrackUnsubscribed(t) ==
  /\ Uses("track") /\ subscribed[t] # None
  /\ subscribed' = [subscribed EXCEPT ![t] = None]
  /\ queue' = Append(queue, [kind |-> "removeTransform", who |-> Owner[t], track |-> t])
  /\ UNCHANGED <<options, keyInfos, latest, published, trackOf, home, request, wanted, enabledHere,
                 told, disposed, inbox, worker>>

\* LocalSenderCreated.
HandleSender ==
  /\ Uses("sender")
  /\ queue' = Append(queue, [kind |-> "encode"])
  /\ UNCHANGED <<options, page, inbox, worker>>

Asks(i, m) ==
  /\ Uses("data") /\ request[i] = None
  /\ \A j \in Requests : j < i => request[j] # None
  /\ request' = [request EXCEPT ![i] = "pending"]
  /\ queue' = Append(queue, m)
  /\ UNCHANGED <<options, keyInfos, latest, tracks, wanted, enabledHere, told, disposed, inbox, worker>>

EncryptData(i) == Asks(i, [kind |-> "encryptDataRequest", id |-> i])

\* A packet of participant p, of the key and the step it was encrypted with.
HandleEncryptedData(i, p, idx, key, step) ==
  Asks(i, [kind |-> "decryptDataRequest", id |-> i, who |-> p, idx |-> idx, key |-> key, step |-> step])

\* The pending requests are rejected, then the worker is not listened to any more.
Dispose ==
  /\ Uses("dispose") /\ ~disposed /\ disposed' = TRUE
  /\ request' = [i \in Requests |-> IF request[i] = "pending" THEN "rejected" ELSE request[i]]
  /\ UNCHANGED <<options, keyInfos, latest, tracks, wanted, enabledHere, told, queue, inbox, worker>>

\* onWorkerMessage.
Hears(kind) == inbox # <<>> /\ inbox' = Tail(inbox) /\ ~disposed /\ Head(inbox).kind = kind

HearsEnable ==
  LET m == Head(inbox) IN
  /\ Hears("enable")
  /\ queue' = IF m.on THEN queue \o AllKeys({}) ELSE queue
  /\ enabledHere' = IF m.who = Local THEN m.on ELSE enabledHere
  /\ UNCHANGED <<options, left, keyInfos, latest, tracks, request, wanted, told, disposed, worker>>

HearsRatchet ==
  LET m == Head(inbox) IN
  /\ Hears("ratchetKey")
  /\ told' = [told EXCEPT ![m.h][m.idx] = m.slot]
  /\ UNCHANGED <<options, left, keyInfos, latest, tracks, request, wanted, enabledHere, disposed,
                 queue, worker>>

HearsAnswer ==
  LET m == Head(inbox) IN
  /\ Hears("answer")
  /\ request' = [request EXCEPT ![m.id] = IF @ = "pending" THEN m.how ELSE @]
  /\ UNCHANGED <<options, left, keyInfos, latest, tracks, wanted, enabledHere, told, disposed,
                 queue, worker>>

HearsNothing ==
  /\ disposed /\ inbox # <<>> /\ inbox' = Tail(inbox)
  /\ UNCHANGED <<options, left, page, queue, worker>>

-----------------------------------------------------------------------------
(* The worker: keys. *)

Takes(kind) == task = NoTask /\ queue # <<>> /\ Head(queue).kind = kind /\ queue' = Tail(queue)

TakesEnable ==
  LET m == Head(queue) IN
  /\ Takes("enable")
  /\ enabled' = [enabled EXCEPT ![m.who] = IF m.on THEN "yes" ELSE "no"]
  /\ inbox' = Append(inbox, m)
  /\ UNCHANGED <<options, left, page, task, keys, media, sender, sent>>

TakesSetKey ==
  LET m == Head(queue) IN
  /\ Takes("setKey")
  /\ task' = [kind |-> "setKey", h |-> Handler(m.who), idx |-> m.idx, key |-> m.key, update |-> m.update]
  /\ UNCHANGED <<options, left, page, inbox, enabled, keys, media, sender, sent>>

\* What is in a slot is another object after each setKeySet.
Fills(h, i, k) ==
  ring' = [ring EXCEPT ![h][i] = [key |-> k.key, step |-> k.step, nth |-> @.nth + 1]]

\* History: frames that need not be decrypted by the slot they found any more.
Excuses(f, h, i) ==
  [r \in Receivers |-> IF f[r].h = h /\ f[r].idx = i THEN [f[r] EXCEPT !.due = FALSE] ELSE f[r]]

\* Those that k leaves behind, which a frame puts there: unless it is the next ratchet, all of them.
Passes(f, h, i, k) ==
  LET next == k.key = ring[h][i].key /\ k.step = ring[h][i].step + 1 IN
  [r \in Receivers |-> IF f[r].h = h /\ f[r].idx = i /\ ~(next /\ k.step <= f[r].step)
                       THEN [f[r] EXCEPT !.due = FALSE] ELSE f[r]]

\* setKeyFromMaterial, after deriveKeys.
SetKey ==
  LET h == task.h  i == task.idx % RingSize IN
  /\ task.kind = "setKey" /\ task' = NoTask
  /\ Fills(h, i, [key |-> task.key, step |-> 0])
  /\ IF task.update
     THEN /\ current' = [current EXCEPT ![h] = i]
          /\ failures' = IF task.idx \in Indices THEN [failures EXCEPT ![h][task.idx] = 0] ELSE failures
     ELSE UNCHANGED <<current, failures>>
  /\ frame' = Excuses(frame, h, i)
  /\ raced' = IF ratchets[h][i].pc \in {"ratchet", "derive"} /\ ratchets[h][i].sets
              THEN raced \union {<<h, i>>} ELSE raced \ {<<h, i>>}
  /\ UNCHANGED <<options, left, page, queue, inbox, enabled, ratchets, cryptors, pipe, usable, sender, sent>>

\* ratchetKey: whoever comes while a ratchet of the index runs is given its promise.
\* Without a key the promise is rejected before it is stored, and it stays.
Ratcheting(h, i, sets, asked) ==
  LET old == ratchets[h][i]  slot == ring[h][i] IN
  ratchets' = [ratchets EXCEPT ![h][i] =
    IF old.pc # None THEN [old EXCEPT !.asked = @ \/ asked]
    ELSE IF slot.key = 0 THEN [NoRatchet EXCEPT !.pc = "rejected"]
    ELSE [pc |-> "ratchet", key |-> slot.key, step |-> slot.step + 1, sets |-> sets, asked |-> asked]]

\* handleRatchetRequest: the queue does not wait for it.
TakesRatchetRequest ==
  LET m == Head(queue) IN
  /\ Takes("ratchetRequest")
  /\ Ratcheting(Handler(m.who), m.idx, TRUE, TRUE)
  /\ UNCHANGED <<options, left, page, inbox, task, enabled, ring, current, failures, raced, media,
                 sender, sent>>

\* Mutant of Resolves: only the frame that started the ratchet is woken.
ResolvesOne(f, h, i) ==
  LET k == ratchets[h][i]
      waiting == {r \in Receivers : f[r].pc = "ratchet" /\ f[r].h = h /\ f[r].idx = i} IN
  /\ ratchets' = [ratchets EXCEPT ![h][i] = NoRatchet]
  /\ failures' = IF k.asked THEN [failures EXCEPT ![h] = [j \in Indices |-> 0]] ELSE failures
  /\ frame' = [r \in Receivers |->
       IF r \in waiting /\ r = CHOOSE x \in waiting : TRUE
       THEN [f[r] EXCEPT !.pc = "decrypt", !.n = @ + 1, !.hot = TRUE,
                         !.try = [NoSlot EXCEPT !.key = k.key, !.step = k.step]]
       ELSE f[r]]
  /\ UNCHANGED task

\* The promise resolves: a requested ratchet marks every key as valid, the frames and
\* the packet that wait for it try again, a frame with the ratcheted key.
Resolves(f, h, i) ==
  LET k == ratchets[h][i] IN
  /\ ratchets' = [ratchets EXCEPT ![h][i] = NoRatchet]
  /\ failures' = IF k.asked THEN [failures EXCEPT ![h] = [j \in Indices |-> 0]] ELSE failures
  /\ frame' = [r \in Receivers |->
       IF f[r].pc = "ratchet" /\ f[r].h = h /\ f[r].idx = i
       THEN [f[r] EXCEPT !.pc = "decrypt", !.n = @ + 1, !.hot = TRUE,
                         !.try = [NoSlot EXCEPT !.key = k.key, !.step = k.step]]
       ELSE f[r]]
  /\ task' = IF task.kind = "decrypt" /\ task.pc = "ratchet" /\ task.h = h /\ task.idx = i
             THEN [task EXCEPT !.pc = "decrypt", !.n = @ + 1, !.seen = ring[h][i]]
             ELSE task

RatchetLooksAhead(h, i) ==
  /\ ratchets[h][i].pc = "ratchet" /\ ~ratchets[h][i].sets
  /\ Resolves(frame, h, i)
  /\ UNCHANGED <<options, left, page, queue, inbox, enabled, ring, current, raced, cryptors, pipe,
                 usable, sender, sent>>

RatchetDerives(h, i) ==
  /\ ratchets[h][i].pc = "ratchet" /\ ratchets[h][i].sets
  /\ ratchets' = [ratchets EXCEPT ![h][i].pc = "derive"]
  /\ UNCHANGED <<options, left, page, queue, inbox, task, enabled, ring, current, failures, raced,
                 media, sender, sent>>

\* KeyRatcheted: the handler of a shared key has no listener.
Reports(h, i, k) ==
  inbox' = IF h = SharedKey THEN inbox
           ELSE Append(inbox, [kind |-> "ratchetKey", h |-> h, idx |-> i,
                               slot |-> [key |-> k.key, step |-> k.step, nth |-> 0]])

\* The ratcheted key is set, whatever is in the slot by now.
RatchetSets(h, i) ==
  /\ ratchets[h][i].pc = "derive"
  /\ Fills(h, i, ratchets[h][i])
  /\ current' = [current EXCEPT ![h] = i]
  /\ Reports(h, i, ratchets[h][i])
  /\ Resolves(Excuses(frame, h, i), h, i)
  /\ UNCHANGED <<options, left, page, queue, enabled, raced, cryptors, pipe, usable, sender, sent>>

(* The worker: data packets. *)

Answers(id, how) == inbox' = Append(inbox, [kind |-> "answer", id |-> id, how |-> how])

\* Without a key the handler throws, and nothing is posted.
TakesEncryptData ==
  LET m == Head(queue)  h == Handler(Local) IN
  /\ Takes("encryptDataRequest")
  /\ task' = IF ring[h][current[h]].key = 0 THEN NoTask ELSE [kind |-> "encrypt", id |-> m.id]
  /\ UNCHANGED <<options, left, page, inbox, enabled, keys, media, sender, sent>>

DataEncrypted ==
  /\ task.kind = "encrypt" /\ task' = NoTask
  /\ Answers(task.id, "resolved")
  /\ UNCHANGED <<options, left, page, queue, enabled, keys, media, sender, sent>>

TakesDecryptData ==
  LET m == Head(queue)  h == Handler(m.who)  slot == ring[h][m.idx] IN
  /\ Takes("decryptDataRequest")
  /\ IF slot.key = 0
     THEN Answers(m.id, "rejected") /\ UNCHANGED task
     ELSE /\ task' = [kind |-> "decrypt", pc |-> "decrypt", id |-> m.id, h |-> h, idx |-> m.idx,
                      key |-> m.key, step |-> m.step, seen |-> slot, n |-> 0]
          /\ UNCHANGED inbox
  /\ UNCHANGED <<options, left, page, enabled, keys, media, sender, sent>>

\* Every attempt is made with what is in the slot; the ratcheted key is not used.
DataDecrypted ==
  LET slot == ring[task.h][task.idx] IN
  /\ task.kind = "decrypt" /\ task.pc = "decrypt"
  /\ CASE SameKey(task.seen, task) -> /\ Answers(task.id, "resolved")
                                      /\ task' = NoTask /\ UNCHANGED ratchets
       [] ~SameKey(task.seen, task) /\ task.n = Window ->
            /\ Answers(task.id, "rejected")
            /\ task' = NoTask /\ UNCHANGED ratchets
       [] ~SameKey(task.seen, task) /\ task.n < Window /\ task.seen # slot ->
            /\ task' = [task EXCEPT !.seen = slot, !.n = @ + 1]
            /\ UNCHANGED <<inbox, ratchets>>
       [] ~SameKey(task.seen, task) /\ task.n < Window /\ task.seen = slot
          /\ ratchets[task.h][task.idx].pc = "rejected" ->
            /\ Answers(task.id, "rejected")
            /\ task' = NoTask /\ UNCHANGED ratchets
       [] OTHER -> /\ Ratcheting(task.h, task.idx, FALSE, FALSE)
                   /\ task' = [task EXCEPT !.pc = "ratchet"] /\ UNCHANGED inbox
  /\ UNCHANGED <<options, left, page, queue, enabled, ring, current, failures, raced, media, sender, sent>>

-----------------------------------------------------------------------------
(* The worker: cryptors and their transforms. *)

Fresh(p) == [track |-> None, who |-> p, keys |-> Handler(p), live |-> FALSE, streams |-> None,
             watch |-> FALSE, report |-> FALSE]

Keyed(t) == {c \in DOMAIN cryptors : cryptors[c].track = t}

\* getTrackCryptor: the cryptor of the track, else the one of the track before on
\* the same receiver, else a new one.
TrackCryptor(t, previous) ==
  IF Keyed(t) # {} THEN LeastOf(Keyed(t))
  ELSE IF previous \notin {None, t} /\ Keyed(previous) # {} THEN LeastOf(Keyed(previous))
  ELSE Len(cryptors) + 1

\* ... assigned to the participant: one that is assigned to another is unset first.
Assigned(c, p, t, previous) ==
  LET old == IF c \in DOMAIN cryptors THEN cryptors[c] ELSE Fresh(p) IN
  [old EXCEPT !.track = IF Keyed(t) = {} /\ c \in DOMAIN cryptors THEN t ELSE @,
              !.watch = IF old.who \notin {None, p} THEN FALSE ELSE @,
              !.who = p,
              !.keys = IF old.who # p THEN Handler(p) ELSE @]

Stored(c, x) == IF c \in DOMAIN cryptors THEN [cryptors EXCEPT ![c] = x] ELSE Append(cryptors, x)

\* setupTransform.
SetUp(x, t, r) == [x EXCEPT !.track = t, !.streams = r, !.live = TRUE, !.watch = FALSE, !.report = FALSE]

ReassignExcuses(c, p) ==
  [r \in Receivers |-> IF frame[r].c = c /\ cryptors[c].who # p THEN [frame[r] EXCEPT !.due = FALSE]
                       ELSE frame[r]]

TakesDecode ==
  LET m == Head(queue)  c == TrackCryptor(m.track, None) IN
  /\ Takes("decode")
  /\ cryptors' = Stored(c, SetUp(Assigned(c, m.who, m.track, None), m.track, m.receiver))
  /\ pipe' = [pipe EXCEPT ![m.receiver] = c]
  /\ frame' = ReassignExcuses(c, m.who)
  /\ UNCHANGED <<options, left, page, inbox, task, enabled, keys, usable, sender, sent>>

\* The streams stay with the cryptor: a transform that ended is set up again.
TakesUpdateCodec ==
  LET m == Head(queue)
      c == TrackCryptor(m.track, m.previous)
      x == Assigned(c, m.who, m.track, m.previous)
      again == ~x.live /\ x.streams # None /\ x.track # None IN
  /\ Takes("updateCodec")
  /\ cryptors' = Stored(c, IF again THEN SetUp(x, x.track, x.streams) ELSE x)
  /\ pipe' = IF again THEN [pipe EXCEPT ![x.streams] = c] ELSE pipe
  /\ frame' = ReassignExcuses(c, m.who)
  /\ UNCHANGED <<options, left, page, inbox, task, enabled, keys, usable, sender, sent>>

\* unsetCryptorParticipant: the transform goes on, without a participant.
TakesRemoveTransform ==
  LET m == Head(queue)
      mine == {c \in Keyed(m.track) : cryptors[c].who = m.who} IN
  /\ Takes("removeTransform")
  /\ IF mine = {} THEN UNCHANGED <<cryptors, frame>>
     ELSE /\ cryptors' = [cryptors EXCEPT ![LeastOf(mine)].who = None, ![LeastOf(mine)].watch = FALSE]
          /\ frame' = ReassignExcuses(LeastOf(mine), None)
  /\ UNCHANGED <<options, left, page, inbox, task, enabled, keys, pipe, usable, sender, sent>>

\* Mutant of PipeEnds: the watchdog is not scheduled.
PipeEndsUnwatched(r, again) ==
  LET c == pipe[r] IN
  /\ c # 0
  /\ IF usable[r] THEN Uses("fault") ELSE UNCHANGED left
  /\ usable' = [usable EXCEPT ![r] = @ /\ again]
  /\ pipe' = [pipe EXCEPT ![r] = 0]
  /\ cryptors' = [cryptors EXCEPT ![c].live = @ /\ cryptors[c].streams # r]
  /\ UNCHANGED <<options, page, queue, inbox, task, enabled, keys, frame, sender, sent>>

\* A pipe ends: the destination is closed, for good or for the time being.
PipeEnds(r, again) ==
  LET c == pipe[r] IN
  /\ c # 0
  /\ IF usable[r] THEN Uses("fault") ELSE UNCHANGED left
  /\ usable' = [usable EXCEPT ![r] = @ /\ again]
  /\ pipe' = [pipe EXCEPT ![r] = 0]
  /\ cryptors' = [cryptors EXCEPT ![c].live = @ /\ cryptors[c].streams # r, ![c].watch = TRUE]
  /\ UNCHANGED <<options, page, queue, inbox, task, enabled, keys, frame, sender, sent>>

\* scheduleUndecryptedTrackWatchdog, after its two seconds.
WatchdogFires(c) ==
  /\ cryptors[c].watch
  /\ cryptors' = [cryptors EXCEPT ![c].watch = FALSE,
       ![c].report = @ \/ (~cryptors[c].live /\ cryptors[c].who # None /\ enabled[cryptors[c].who] = "yes")]
  /\ UNCHANGED <<options, left, page, queue, inbox, task, enabled, keys, pipe, usable, frame, sender, sent>>

-----------------------------------------------------------------------------
(* The worker: frames. *)

Invalid(h, i) == Tolerance >= 0 /\ failures[h][i] > Tolerance
DecryptionFailure(h, i) ==
  failures' = IF Tolerance < 0 THEN failures ELSE [failures EXCEPT ![h][i] = @ + 1]

\* decodeFunction up to its first await. A frame that ends there is dropped, or, of a
\* participant that does not encrypt, passed on.
FrameArrives(r, idx, key, step) ==
  LET c == pipe[r]  x == cryptors[c]  slot == ring[x.keys][idx] IN
  /\ Uses("frame") /\ c # 0 /\ frame[r].pc = "idle"
  /\ IF x.who = None \/ enabled[IF x.who = None THEN Local ELSE x.who] # "yes" \/ Invalid(x.keys, idx)
     THEN UNCHANGED <<frame, failures>>
     ELSE IF slot.key = 0 THEN DecryptionFailure(x.keys, idx) /\ UNCHANGED frame
     ELSE /\ frame' = [frame EXCEPT ![r] =
               [pc |-> "decrypt", c |-> c, h |-> x.keys, idx |-> idx, key |-> key, step |-> step,
                try |-> slot, base |-> slot, n |-> 0, hot |-> FALSE, missed |-> FALSE,
                due |-> slot.key = key /\ step \in slot.step..(slot.step + 1)
                        /\ ratchets[x.keys][idx].pc # "rejected"]]
          /\ UNCHANGED failures
  /\ UNCHANGED <<options, page, queue, inbox, task, enabled, ring, current, ratchets, raced, cryptors,
                 pipe, usable, sender, sent>>

\* The key ring of its cryptor has in the slot what it had there when the frame began.
Untouched(f) == LET h == cryptors[f.c].keys IN h = f.h /\ ring[h][f.idx] = f.base

\* Mutant of FrameDecrypted: the ratcheted key is set over whatever is in the slot.
FrameDecryptedOver(r) ==
  LET f == frame[r]  h == cryptors[f.c].keys  others == [frame EXCEPT ![r] = NoFrame] IN
  /\ f.pc = "decrypt" /\ SameKey(f.try, f)
  /\ failures' = [failures EXCEPT ![h][f.idx] = 0]
  /\ IF f.hot
     THEN /\ Fills(h, f.idx, f.try) /\ current' = [current EXCEPT ![h] = f.idx] /\ Reports(h, f.idx, f.try)
          /\ frame' = Passes(others, h, f.idx, f.try)
     ELSE frame' = others /\ UNCHANGED <<ring, current, inbox>>
  /\ UNCHANGED <<options, left, page, queue, task, enabled, ratchets, raced, cryptors, pipe, usable,
                 sender, sent>>

\* decryptFrame succeeds. A key that was ratcheted for the frame is set, unless the
\* slot has another one by now than the frame began with.
FrameDecrypted(r) ==
  LET f == frame[r]  h == cryptors[f.c].keys  others == [frame EXCEPT ![r] = NoFrame] IN
  /\ f.pc = "decrypt" /\ SameKey(f.try, f)
  /\ failures' = [failures EXCEPT ![h][f.idx] = 0]
  /\ IF f.hot /\ Untouched(f)
     THEN /\ Fills(h, f.idx, f.try) /\ current' = [current EXCEPT ![h] = f.idx] /\ Reports(h, f.idx, f.try)
          /\ frame' = Passes(others, h, f.idx, f.try)
     ELSE frame' = others /\ UNCHANGED <<ring, current, inbox>>
  /\ UNCHANGED <<options, left, page, queue, task, enabled, ratchets, raced, cryptors, pipe, usable,
                 sender, sent>>

\* It fails: ratchet, if the slot has still the key the frame began with, or else try the
\* key that is there. The ratchet that is under way may be one of an older key, see raced.
FrameNotDecrypted(r) ==
  LET f == frame[r]  h == cryptors[f.c].keys  slot == ring[h][f.idx]  rejected == ratchets[h][f.idx].pc = "rejected" IN
  /\ f.pc = "decrypt" /\ ~SameKey(f.try, f) /\ f.n < Window
  /\ \/ /\ Untouched(f) /\ ~rejected
        /\ Ratcheting(h, f.idx, FALSE, FALSE)
        /\ frame' = [frame EXCEPT ![r].pc = "ratchet"]
        /\ raced' = IF ratchets'[h][f.idx].key # slot.key THEN raced \union {<<h, f.idx>>} ELSE raced
     \/ /\ IF Untouched(f) THEN rejected ELSE slot.key = 0
        /\ frame' = [frame EXCEPT ![r] = NoFrame]
        /\ UNCHANGED <<ratchets, raced>>
     \/ /\ ~Untouched(f) /\ slot.key # 0
        /\ frame' = [frame EXCEPT ![r].n = @ + 1, ![r].try = slot, ![r].hot = FALSE]
        /\ UNCHANGED <<ratchets, raced>>
  /\ UNCHANGED <<options, left, page, queue, inbox, task, enabled, ring, current, failures,
                 cryptors, pipe, usable, sender, sent>>

\* It fails for good: the failure counts while the current key is held to be valid.
FrameGivenUp(r) ==
  LET f == frame[r]  h == cryptors[f.c].keys IN
  /\ f.pc = "decrypt" /\ ~SameKey(f.try, f) /\ f.n = Window
  /\ frame' = [frame EXCEPT ![r] = [NoFrame EXCEPT !.missed = f.due]]
  /\ IF Invalid(h, current[h]) THEN UNCHANGED failures ELSE DecryptionFailure(h, f.idx)
  /\ UNCHANGED <<options, left, page, queue, inbox, task, enabled, ring, current, ratchets, raced,
                 cryptors, pipe, usable, sender, sent>>

TakesEncode ==
  /\ Takes("encode") /\ sender' = TRUE
  /\ UNCHANGED <<options, left, page, inbox, task, enabled, keys, media, sent>>

\* encodeFunction: what it needs is read before its await.
FrameSent ==
  LET h == Handler(Local) IN
  /\ Uses("frame") /\ sender
  /\ sent' = IF enabled[Local] # "yes" THEN "plain"
             ELSE IF ring[h][current[h]].key = 0 THEN "dropped" ELSE "encrypted"
  /\ UNCHANGED <<options, page, queue, inbox, task, enabled, keys, media, sender>>

-----------------------------------------------------------------------------
Identities == IF shared THEN {None} ELSE options.people
\* The keys the application has set so far: frames of an older one may come late.
GivenKeys  == (left.key + 1)..options.keys
Steps      == 0..options.steps

AppActs ==
  \/ \E p \in Identities, i \in options.indices : RatchetKey(p, i) \/ \E g \in BOOLEAN : OnSetEncryptionKey(p, i, g)
  \/ \E t \in Tracks : TrackPublished(t) \/ TrackUnsubscribed(t) \/ \E r \in Receivers : HandleReceiver(t, r)
  \/ SignalConnected \/ HandleSender \/ Dispose
  \/ \E on \in BOOLEAN : SetE2EEEnabled(on)
  \/ \E id \in Requests :
       \/ EncryptData(id)
       \/ \E p \in Remotes \intersect options.people, i \in options.indices, k \in GivenKeys, n \in Steps : HandleEncryptedData(id, p, i, k, n)

PageHears == HearsEnable \/ HearsRatchet \/ HearsAnswer \/ HearsNothing

WorkerTakes ==
  \/ TakesEnable \/ TakesSetKey \/ TakesRatchetRequest \/ TakesEncryptData \/ TakesDecryptData
  \/ TakesDecode \/ TakesUpdateCodec \/ TakesRemoveTransform \/ TakesEncode

WorkerGoesOn ==
  \/ SetKey \/ DataEncrypted \/ DataDecrypted
  \/ \E h \in Handlers, i \in Indices : RatchetLooksAhead(h, i) \/ RatchetDerives(h, i) \/ RatchetSets(h, i)
  \/ \E r \in Receivers : FrameDecrypted(r) \/ FrameNotDecrypted(r) \/ FrameGivenUp(r)
  \/ \E c \in DOMAIN cryptors : WatchdogFires(c)

Environment ==
  \/ \E r \in Receivers : \E again \in BOOLEAN : PipeEnds(r, again)
  \/ \E r \in Receivers, i \in options.indices, k \in GivenKeys, n \in Steps : FrameArrives(r, i, k, n)
  \/ FrameSent

Next == AppActs \/ PageHears \/ WorkerTakes \/ WorkerGoesOn \/ Environment

Spec == Init /\ [][Next]_vars

\* The page and the worker go on with what they have; a pipe on streams that are of
\* no use ends.
FairSpec ==
  /\ Spec
  /\ WF_vars(PageHears) /\ WF_vars(WorkerTakes \/ WorkerGoesOn)
  /\ WF_vars(\E r \in Receivers : ~usable[r] /\ PipeEnds(r, FALSE))

-----------------------------------------------------------------------------
(* Properties. *)

Slots == [key : Nat, step : Nat, nth : Nat]
\* The state is well-formed: who serves what is a cryptor of the list, and a frame is
\* at most Window attempts old (worker/e2ee.worker.ts, worker/FrameCryptor.ts).
TypeOK ==
  /\ published \subseteq Tracks /\ subscribed \in [Tracks -> Receivers \union {None}]
  /\ trackOf \in [Receivers -> Tracks \union {None}]
  /\ home \in [Tracks -> Receivers \union {None, Moved}]
  /\ request \in [Requests -> {None, "pending", "resolved", "rejected"}]
  /\ enabled \in [Remotes \union {Local} -> {None, "yes", "no"}]
  /\ ring \in [Handlers -> [Indices -> Slots]] /\ current \in [Handlers -> Indices]
  /\ failures \in [Handlers -> [Indices -> Nat]]
  /\ raced \subseteq Handlers \X Indices
  /\ \A c \in DOMAIN cryptors :
       /\ cryptors[c].track \in Tracks \union {None} /\ cryptors[c].who \in Remotes \union {None}
       /\ cryptors[c].keys \in Handlers /\ cryptors[c].streams \in Receivers \union {None}
  /\ pipe \in [Receivers -> {0} \union DOMAIN cryptors]
  /\ \A r \in Receivers : /\ frame[r].pc \in {"idle", "decrypt", "ratchet"}
                          /\ frame[r].n \in 0..Window /\ frame[r].c \in {0} \union DOMAIN cryptors
  /\ task.kind \in {None, "setKey", "encrypt", "decrypt"}
  /\ sent \in {None, "plain", "dropped", "encrypted"}

\* Once everything is handled, the ring of each participant has the key that the
\* application set last: no frame that was ratcheting brings an older one back. A
\* requested ratchet that was running does (ParticipantKeyHandler.ts:149), and so does a
\* frame that joins a ratchet of an older key (:125, FrameCryptor.ts:864), see raced.
QuietKeysAreInstalled ==
  Idle /\ (\A h \in Handlers, i \in Indices : ratchets[h][i].pc \in {None, "rejected"}) =>
    \A j \in DOMAIN keyInfos :
      LET h == Handler(keyInfos[j].who)  i == keyInfos[j].idx IN
      ring[h][i].key = keyInfos[j].key \/ <<h, i>> \in raced

\* A frame of the key in its slot, or of the ratchet after it, is not given up while
\* only frames touch the slot: the frames of all tracks of a participant ratchet the
\* one key together (FrameCryptor.ts, decryptFrame). With a window of one step a frame
\* that finds a ratchet of another step under way has no second try.
RatchetIsFollowed == Window >= 2 => \A r \in Receivers : ~frame[r].missed

\* Once everything is handled, the key provider has heard of the ratchet that is in
\* the ring, from frames or requested, in the order they happened. Of a shared key it
\* hears nothing (e2ee.worker.ts, getSharedKeyHandler).
RatchetsAreReported ==
  Idle => \A h \in Handlers \ {SharedKey}, i \in Indices :
    ring[h][i].step > 0 /\ ~disposed => SameKey(told[h][i], ring[h][i])

\* Rings, frames and the key provider agree on the keys, however they were set and ratcheted.
KeysAreFollowed == TypeOK /\ QuietKeysAreInstalled /\ RatchetIsFollowed /\ RatchetsAreReported

ServedBy(t, c) == c # 0 /\ cryptors[c].who = Owner[t] /\ cryptors[c].keys = Handler(Owner[t])
\* Once everything is handled, the frames of a subscribed track run through a cryptor of
\* its participant; if their pipe ended that is reported, or about to be.
TrackIsServed(t) ==
  \/ ServedBy(t, pipe[subscribed[t]])
  \/ \E c \in DOMAIN cryptors : /\ cryptors[c].track = t /\ cryptors[c].who = Owner[t]
                                /\ ~cryptors[c].live /\ (cryptors[c].watch \/ cryptors[c].report)

\* So it is while every track stays on the receiver it was first on, whatever else that
\* receiver carried (E2eeManager.ts, handleReceiver; e2ee.worker.ts, getTrackCryptor).
QuietIsServed ==
  Idle /\ (\A t \in Tracks : home[t] # Moved) =>
    \A t \in Tracks : subscribed[t] # None => TrackIsServed(t)

\* Two frames of one participant do not hold each other up: with everything handled and
\* nothing running, no frame waits for a ratchet.
NobodyWaitsForever ==
  (\A h \in Handlers, i \in Indices : ratchets[h][i].pc \in {None, "rejected"}) =>
    /\ \A r \in Receivers : frame[r].pc # "ratchet"
    /\ task.kind = "decrypt" => task.pc = "decrypt"

\* Once everything is handled each track has its cryptor, and no frame is held up.
FramesAreServed == QuietIsServed /\ NobodyWaitsForever

Disables == \E q \in {queue, inbox} : \E i \in DOMAIN q : q[i] = EnableMessage(Local, FALSE)
\* No frame leaves in plain text once the manager counts as enabled, until it is asked
\* to disable or disposed of (E2eeManager.ts, 'enable'; FrameCryptor.ts, encodeFunction).
NoPlainOnceEnabled ==
  [][FrameSent /\ enabledHere /\ ~disposed /\ ~Disables => sent' # "plain"]_vars

Queued(id) == \E i \in DOMAIN queue : queue[i].kind \in {"encryptDataRequest", "decryptDataRequest"}
                                      /\ queue[i].id = id
HasKey(id) == \/ ring[Handler(Local)][current[Handler(Local)]].key # 0
              \/ \E i \in DOMAIN queue : queue[i].kind = "decryptDataRequest" /\ queue[i].id = id
\* A packet handed to the worker before the manager is disposed of comes back, or is
\* rejected: of those to encrypt, the ones for which there is a key (E2eeManager.ts).
PacketsComeBack ==
  \A id \in Requests :
    (request[id] = "pending" /\ ~disposed /\ Queued(id) /\ HasKey(id)) ~> (request[id] # "pending")

Stalled(c) == /\ c \in DOMAIN cryptors /\ cryptors[c].who # None /\ ~cryptors[c].live /\ cryptors[c].streams # None
              /\ enabled[cryptors[c].who] = "yes"
\* A cryptor that is assigned and has lost its transform is reported, unless it gets
\* another one or is unset: no track goes black in silence (FrameCryptor.ts, ensureTransform).
StallIsReported ==
  \A c \in 1..Cardinality(Tracks) :
    Stalled(c) ~> (Stalled(c) => cryptors[c].report)

\* Nothing goes wrong in silence: not in plain text, not lost in the worker, not black on the page.
NothingFailsSilently == NoPlainOnceEnabled /\ PacketsComeBack /\ StallIsReported
=============================================================================

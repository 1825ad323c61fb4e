--------------------------- MODULE Publishing_proofs ---------------------------
(***************************************************************************)
(* Proofs about Publishing: PublishingIsSound and FailedStaysFailed, for any     *)
(* number of calls, tracks and reconnects.                                     *)
(*                                                                         *)
(* PublishInv says who holds what the calls share. The promise of a publication *)
(* belongs to a call whose work on that track is in flight, that of a republish *)
(* to a call that awaits its tracks, and pendingPublishing is set exactly while *)
(* one call makes a camera (PendingIsHeld, RepublishIsHeld, MakerIsHeld): so    *)
(* nothing is left when all are over. A call that waits for a turn has begun no *)
(* work (NoWorkYet), each restart has a call of its own that was not used       *)
(* before (RoomCalls), and a request that is still waiting for its answer is    *)
(* not made again before a restart has thrown it away, unless its error came    *)
(* late in a restart (AsksAfresh).                                              *)
(*                                                                         *)
(* The steps are of three forms, each with a lemma: the work of a call on a     *)
(* track goes on (WorkMove), a call goes on (CallMove), or the session is cut   *)
(* off (CutOffStep). Every action is brought into its form.                     *)
(***************************************************************************)
EXTENDS Publishing, FiniteSetTheorems, TLAPS

-----------------------------------------------------------------------------
(* The types, in the parts that an action changes together.                 *)

TEngine == /\ conn \in {"initial", "up", "resuming", "restarting", "rejoined", "closed"}
           /\ restarts \in Nat /\ resumes \in Nat /\ restarts + resumes <= MaxReconnects
TCalls  == /\ kind \in [Calls -> Kinds \union {"none", "room"}]
           /\ target \in [Calls -> Tracks \union {0}]
           /\ top \in [Calls -> Tops] /\ turn \in [Calls -> Calls \union {0}]
TAt     == at \in [Calls -> [Tracks -> Places]]
TOn     == on \in [Calls -> [Tracks -> Calls \union {0}]]
Requests == [enc : BOOLEAN, muted : BOOLEAN, sent : BOOLEAN]
TReq    == req \in [Calls -> [Tracks -> Requests]]
TRetry  == retried \subseteq Calls \X Tracks /\ early \subseteq retried /\ refused \subseteq retried
TPublished == published \in [Tracks -> Nat] /\ encrypted \in [Tracks -> BOOLEAN]
TMuted  == muted \in [Tracks -> BOOLEAN] /\ made \in 1..MaxTracks
TPending == /\ pending \in [Tracks -> Calls \union {0}] /\ resolver \in [Tracks -> Calls \union {0}]
            /\ overtaken \subseteq Tracks
TFlags  == /\ republish \in Calls \union {0} /\ pendingPublishing \in BOOLEAN
           /\ encryption \in BOOLEAN
TServer == onServer \in [Tracks -> BOOLEAN] /\ mutedOnServer \in [Tracks -> BOOLEAN]

LEMMA TypeParts ==
  TypeOK <=> /\ TEngine /\ TCalls /\ TAt /\ TOn /\ TReq /\ TRetry /\ TPublished
             /\ TMuted /\ TPending /\ TFlags /\ TServer
  BY DEF TypeOK, TEngine, TCalls, TAt, TOn, TReq, Requests, TRetry, TPublished, TMuted,
         TPending, TFlags, TServer

-----------------------------------------------------------------------------
(* The inductive invariant, in the parts that an action disturbs together.  *)

\* Calls that have begun no work on a track yet.
Workless == {"idle", "gate", "poll", "join", "create", "flush", "turn"}
NoWorkYet == \A c \in Calls : top[c] \in Workless => \A t \in Tracks : at[c][t] = "none"

\* A call of the application that was not made yet.
Unused == \A c \in AppCalls : kind[c] = "none" => top[c] = "idle"

\* Each restart has a call of the room of its own, which republishes once.
RoomCalls ==
  /\ \A c \in Calls : c > MaxCalls + restarts => top[c] = "idle"
  /\ conn = "restarting" =>
       restarts > 0 /\ (MaxCalls + restarts \in Calls => top[MaxCalls + restarts] = "idle")

\* The shared promises belong to somebody who will settle them.
PendingIsHeld == \A t \in Tracks : pending[t] # 0 => at[pending[t]][t] \in InFlight
RepublishIsHeld == republish # 0 => top[republish] = "all"

Making == {"create", "publishing"}
MakerIsHeld ==
  /\ pendingPublishing <=> \E c \in Calls : top[c] \in Making
  /\ \A c, d \in Calls : top[c] \in Making /\ top[d] \in Making => c = d

\* Where the work on a track stands before its request is made.
BeforeAsking == {"none", "held", "removing", "reacquire", "reconnect", "republish", "pending",
                 "signal", "dims"}

\* A request is in nobody's way: its call does not ask again before a restart has thrown
\* the resolver away, unless its error came late in a restart.
AsksAfresh ==
  \A c \in Calls, t \in Tracks : resolver[t] = c /\ <<c, t>> \notin early =>
    /\ at[c][t] \notin BeforeAsking
    /\ at[c][t] = "next" => conn \notin {"restarting", "rejoined"}

PublishInv ==
  /\ TypeOK /\ NoWorkYet /\ Unused /\ RoomCalls
  /\ PendingIsHeld /\ RepublishIsHeld /\ MakerIsHeld
  /\ AsksAfresh /\ RetryIsNotRefused

\* A publication that has failed has failed.
FailsKept == \A c \in Calls, t \in Tracks : at[c][t] \in Failed => at'[c][t] \in Failed

-----------------------------------------------------------------------------
(* Functions of calls and tracks.                                           *)

LEMMA SetAt ==
  ASSUME NEW S, NEW f \in [Calls -> [Tracks -> S]], NEW c \in Calls, NEW t \in Tracks, NEW v \in S
  PROVE  /\ [f EXCEPT ![c][t] = v] \in [Calls -> [Tracks -> S]]
         /\ \A d \in Calls, u \in Tracks :
              [f EXCEPT ![c][t] = v][d][u] = IF d = c /\ u = t THEN v ELSE f[d][u]
  OBVIOUS

LEMMA SetRow ==
  ASSUME NEW S, NEW f \in [Calls -> [Tracks -> S]], NEW c \in Calls, NEW v \in [Tracks -> S]
  PROVE  /\ [f EXCEPT ![c] = v] \in [Calls -> [Tracks -> S]]
         /\ \A d \in Calls, u \in Tracks :
              [f EXCEPT ![c] = v][d][u] = IF d = c THEN v[u] ELSE f[d][u]
  OBVIOUS

LEMMA GoesTo ==
  ASSUME TAt, NEW c \in Calls, NEW t \in Tracks, NEW to \in Places, Goes(c, t, to)
  PROVE  /\ TAt'
         /\ \A d \in Calls, u \in Tracks :
              at'[d][u] = IF d = c /\ u = t THEN to ELSE at[d][u]
  BY SetAt DEF TAt, Goes

LEMMA AwaitsOf ==
  ASSUME TOn, NEW c \in Calls, NEW t \in Tracks, NEW d \in Calls \union {0}, Awaits(c, t, d)
  PROVE  TOn'
  BY SetAt DEF TOn, Awaits

LEMMA CallGoesTo ==
  ASSUME TCalls, NEW c \in Calls, NEW to \in Tops, CallGoes(c, to)
  PROVE  /\ top' \in [Calls -> Tops]
         /\ \A d \in Calls : top'[d] = IF d = c THEN to ELSE top[d]
  BY DEF TCalls, CallGoes

-----------------------------------------------------------------------------
\* The work of one call on one track goes on. It leaves InFlight only together with its
\* promise, and comes back to an earlier place only where nothing is in the way.
LEMMA WorkMove ==
  ASSUME PublishInv, TypeOK', RetryIsNotRefused',
         NEW c \in Calls, NEW t \in Tracks, NEW to \in Places, Goes(c, t, to),
         at[c][t] # "none",
         UNCHANGED <<conn, restarts, kind, top, republish, pendingPublishing>>,
         \A u \in Tracks : u # t => pending'[u] = pending[u] /\ resolver'[u] = resolver[u],
         \/ pending'[t] = 0
         \/ pending'[t] = pending[t] /\ (at[c][t] \in InFlight => to \in InFlight)
         \/ pending'[t] = c /\ to \in InFlight,
         \/ resolver'[t] = 0
         \/ resolver'[t] = resolver[t]
         \/ resolver'[t] = c /\ to \notin BeforeAsking \union {"next"},
         early \subseteq early',
         to \in BeforeAsking => at[c][t] \in BeforeAsking,
         to = "next" => <<c, t>> \in early' \/ conn \notin {"restarting", "rejoined"},
         at[c][t] \in Failed => to \in Failed
  PROVE  PublishInv' /\ FailsKept
  <1>1. TAt /\ TPending /\ TPending'
    BY TypeParts DEF PublishInv, TypeOK, TAt, TPending
  <1>2. \A d \in Calls, u \in Tracks : at'[d][u] = IF d = c /\ u = t THEN to ELSE at[d][u]
    BY <1>1, GoesTo
  <1>3. Unused' /\ RoomCalls' /\ RepublishIsHeld' /\ MakerIsHeld'
    BY DEF PublishInv, Unused, RoomCalls, RepublishIsHeld, MakerIsHeld
  <1>4. PendingIsHeld'
    <2>1. ASSUME NEW u \in Tracks, pending'[u] # 0
          PROVE  at'[pending'[u]][u] \in InFlight
      BY <1>1, <2>1, <1>2 DEF TPending, PublishInv, PendingIsHeld
    <2> QED
      BY <2>1 DEF PendingIsHeld
  <1>5. AsksAfresh'
    <2>1. ASSUME NEW d \in Calls, NEW u \in Tracks, resolver'[u] = d, <<d, u>> \notin early'
          PROVE  /\ at'[d][u] \notin BeforeAsking
                 /\ at'[d][u] = "next" => conn' \notin {"restarting", "rejoined"}
      <3>1. <<d, u>> \notin early /\ d # 0
        BY <2>1 DEF Calls
      <3>2. CASE resolver[u] = d
        BY <3>1, <3>2, <1>2, <2>1 DEF PublishInv, AsksAfresh
      <3>3. CASE resolver[u] # d
        BY <2>1, <3>1, <3>3, <1>2
      <3> QED
        BY <3>2, <3>3
    <2> QED
      BY <2>1 DEF AsksAfresh
  <1>6. FailsKept
    BY <1>2 DEF FailsKept
  <1> QED
    BY <1>3, <1>4, <1>5, <1>6, <1>2 DEF PublishInv, NoWorkYet

\* Calls that start or go on by themselves; a call may begin its work on the way.
Starts(c) ==
  \/ c \in AppCalls
  \/ top[c] # "idle"
  \/ c = MaxCalls + restarts /\ conn = "restarting" /\ conn' = "rejoined"

\* It is the call that the application makes now, or one it has made.
KindMoves(c) ==
  \/ kind' = kind /\ (c \in AppCalls => top[c] # "idle")
  \/ \E k \in Kinds : c \in AppCalls /\ kind' = [kind EXCEPT ![c] = k]

\* A step of a call itself. The work it begins had not begun, what it held of the shared
\* promises it hands on or lets go.
LEMMA CallMove ==
  ASSUME PublishInv, TypeOK', NEW c \in Calls, NEW to \in Tops, CallGoes(c, to), Starts(c),
         conn' = conn \/ (conn = "restarting" /\ conn' = "rejoined"),
         UNCHANGED <<restarts, pending, resolver, early, refused>>, KindMoves(c),
         \A d \in Calls, u \in Tracks : at'[d][u] = at[d][u] \/ (d = c /\ at[c][u] = "none"),
         to \in Workless => \A u \in Tracks : at'[c][u] = "none",
         \/ republish' = 0
         \/ republish' = republish /\ top[c] # "all"
         \/ republish' = c /\ to = "all",
         \/ pendingPublishing' = pendingPublishing /\ (top[c] \in Making <=> to \in Making)
         \/ ~pendingPublishing /\ pendingPublishing' /\ to \in Making
         \/ top[c] \in Making /\ to \notin Making /\ ~pendingPublishing'
  PROVE  PublishInv' /\ FailsKept
  <1>1. /\ TCalls /\ TPending /\ MaxCalls \in Nat /\ restarts \in Nat
    BY TypeParts, BoundsAssumption DEF PublishInv, TypeOK, TCalls, TPending, BoundsAssumption
  <1>2. \A d \in Calls : top'[d] = IF d = c THEN to ELSE top[d]
    BY <1>1, CallGoesTo
  <1>3. RoomCalls'
    <2>1. ~(c > MaxCalls + restarts)
      BY <1>1 DEF AppCalls, Starts, Calls, PublishInv, RoomCalls
    <2>2. ASSUME conn' = "restarting"
          PROVE  /\ restarts > 0
                 /\ MaxCalls + restarts \in Calls => top'[MaxCalls + restarts] = "idle"
      BY <2>2, <1>1, <1>2 DEF PublishInv, RoomCalls, AppCalls, Starts
    <2> QED
      BY <2>2, <1>2, <2>1 DEF RoomCalls, PublishInv
  <1>4. PendingIsHeld'
    BY <1>1 DEF TPending, PublishInv, PendingIsHeld, InFlight
  <1>5. RepublishIsHeld'
    BY <1>2 DEF TypeOK, PublishInv, RepublishIsHeld
  <1>6. MakerIsHeld'
    BY <1>2 DEF PublishInv, MakerIsHeld
  <1>7. AsksAfresh'
    BY DEF PublishInv, AsksAfresh, BeforeAsking
  <1>8. FailsKept
    BY DEF FailsKept, Failed
  <1>9. RetryIsNotRefused'
    BY DEF PublishInv, RetryIsNotRefused
  <1>10. Unused'
    <2>1. ASSUME NEW d \in AppCalls, kind'[d] = "none"
          PROVE  top'[d] = "idle"
      <3>1. d \in Calls
        BY BoundsAssumption DEF AppCalls, Calls, BoundsAssumption
      <3>2. CASE d # c
        BY <1>1, <3>1, <3>2, <1>2, <2>1 DEF KindMoves, TCalls, PublishInv, Unused
      <3>3. CASE d = c
        BY BoundsAssumption, <1>1, <2>1, <3>3 DEF BoundsAssumption, TCalls, KindMoves, PublishInv, Unused
      <3> QED
        BY <3>2, <3>3
    <2> QED
      BY <2>1 DEF Unused
  <1> QED
    BY <1>3, <1>4, <1>5, <1>6, <1>7, <1>8, <1>9, <1>10, <1>2 DEF PublishInv, NoWorkYet

\* A step of the engine that tears nothing down.
LEMMA EngineMove ==
  ASSUME PublishInv, TypeOK', conn' \in {"up", "resuming"},
         UNCHANGED <<restarts, kind, top, at, republish, pendingPublishing, pending, resolver,
                     early, refused>>
  PROVE  PublishInv' /\ FailsKept
  <1>1. Unused' /\ RoomCalls' /\ AsksAfresh' /\ RetryIsNotRefused' /\ FailsKept
    BY DEF PublishInv, Unused, RoomCalls, AsksAfresh, RetryIsNotRefused, FailsKept
  <1> QED
    BY <1>1 DEF PublishInv, NoWorkYet, PendingIsHeld, RepublishIsHeld, MakerIsHeld

\* A step that leaves all work where it is. A resolver may go.
LEMMA StillMove ==
  ASSUME PublishInv, TypeOK',
         UNCHANGED <<conn, restarts, kind, top, at, republish, pendingPublishing, pending, early,
                     refused>>,
         \A t \in Tracks : resolver'[t] \in {resolver[t], 0}
  PROVE  PublishInv' /\ FailsKept
  <1>1. AsksAfresh'
    BY DEF Calls, PublishInv, AsksAfresh
  <1> QED
    BY <1>1
      DEF PublishInv, NoWorkYet, PendingIsHeld, RepublishIsHeld, MakerIsHeld, Unused, RoomCalls,
          RetryIsNotRefused, FailsKept


-----------------------------------------------------------------------------
(* The work on a track. Each step has its lemma.                            *)

LEMMA JoinTypes ==
  ASSUME TEngine', TCalls', TAt', TOn', TReq', TRetry', TPublished', TMuted', TPending',
         TFlags', TServer'
  PROVE  TypeOK'
  BY DEF TypeOK, TEngine, TCalls, TAt, TOn, TReq, Requests, TRetry, TPublished, TMuted,
         TPending, TFlags, TServer

\* What the work on a track leaves to the calls and to the engine.
WorkFrame ==
  UNCHANGED <<engineVars, callVars, muted, made, republish, pendingPublishing, encryption>>

LEMMA WorkTypes ==
  ASSUME TypeOK, WorkFrame, TAt', TOn', TReq', TRetry', TPublished', TPending', TServer'
  PROVE  TypeOK'
  BY TypeParts, JoinTypes DEF WorkFrame, engineVars, callVars, TEngine, TCalls, TMuted, TFlags

\* The pending promise of the track: given up, kept as far as its owner is in flight, or
\* taken over by the call.
PendingMoves(c, t, to) ==
  /\ pending' \in [Tracks -> Calls \union {0}] /\ overtaken' \subseteq Tracks
  /\ \A u \in Tracks : u # t => pending'[u] = pending[u]
  /\ \/ pending'[t] = 0
     \/ pending'[t] = pending[t] /\ (at[c][t] \in InFlight => to \in InFlight)
     \/ pending'[t] = c /\ to \in InFlight

LEMMA ForgetsMoves ==
  ASSUME TPending, NEW c \in Calls, NEW t \in Tracks, NEW to, Forgets(c, t)
  PROVE  PendingMoves(c, t, to)
  BY DEF TPending, Forgets, PendingMoves

LEMMA KeepsMoves ==
  ASSUME TPending, NEW c \in Calls, NEW t \in Tracks, NEW to, UNCHANGED <<pending, overtaken>>,
         at[c][t] \in InFlight => to \in InFlight
  PROVE  PendingMoves(c, t, to)
  BY DEF TPending, PendingMoves

LEMMA TakesMoves ==
  ASSUME TPending, NEW c \in Calls, NEW t \in Tracks, NEW to \in InFlight, Stores(c, t)
  PROVE  PendingMoves(c, t, to)
  BY DEF TPending, PendingMoves, Stores

LEMMA LeavesMoves ==
  ASSUME TPending, NEW c \in Calls, NEW t \in Tracks, NEW to, Leaves(c, t),
         at[c][t] \notin InFlight
  PROVE  PendingMoves(c, t, to)
  BY ForgetsMoves, KeepsMoves DEF Leaves

LEMMA RequestTypes ==
  ASSUME TReq, TMuted, TFlags, NEW c \in Calls, NEW t \in Tracks
  PROVE  /\ NoRequest \in Requests /\ req[c][t] \in Requests
         /\ [req[c][t] EXCEPT !.enc = encryption, !.muted = muted[t]] \in Requests
         /\ \A b \in BOOLEAN : [req[c][t] EXCEPT !.sent = b] \in Requests
  <1>1. req[c][t] \in Requests /\ muted[t] \in BOOLEAN /\ encryption \in BOOLEAN
    BY DEF TReq, TMuted, TFlags
  <1> QED
    BY <1>1 DEF Requests, NoRequest

LEMMA SetsRequest ==
  ASSUME TReq, NEW c \in Calls, NEW t \in Tracks, NEW r \in Requests,
         req' = [req EXCEPT ![c][t] = r]
  PROVE  TReq'
  BY SetAt DEF TReq

LEMMA DropsTypes ==
  ASSUME TReq, TMuted, TFlags, NEW c \in Calls, NEW t \in Tracks, Drops(c, t)
  PROVE  TReq'
  BY RequestTypes, SetsRequest DEF TReq, Drops

LEMMA PublishesMoves ==
  ASSUME TypeOK, NEW c \in Calls, NEW t \in Tracks, Publishes(c, t)
  PROVE  /\ TReq'
         /\ \E to \in {"dims", "failed"} : Goes(c, t, to) /\ PendingMoves(c, t, to)
  <1>1. TReq /\ TMuted /\ TFlags /\ TPending
    BY TypeParts
  <1>2. CASE /\ Goes(c, t, "dims")
             /\ IF at[c][t] = "signal" THEN UNCHANGED <<pending, overtaken>> ELSE Stores(c, t)
             /\ req' = [req EXCEPT ![c][t] = [@ EXCEPT !.enc = encryption, !.muted = muted[t]]]
    BY <1>1, <1>2, RequestTypes, SetsRequest, TakesMoves, KeepsMoves DEF TReq, InFlight
  <1>3. CASE Goes(c, t, "failed") /\ Forgets(c, t) /\ UNCHANGED req
    BY <1>1, <1>3, ForgetsMoves DEF TReq
  <1> QED
    BY <1>2, <1>3 DEF Publishes

LEMMA BeginsMoves ==
  ASSUME TypeOK, NEW c \in Calls, NEW t \in Tracks, Begins(c, t), at[c][t] \notin InFlight
  PROVE  /\ TReq'
         /\ \E to \in {"done", "dims", "failed", "signal"} :
              Goes(c, t, to) /\ PendingMoves(c, t, to)
  BY TypeParts, PublishesMoves, TakesMoves, LeavesMoves DEF InFlight, TReq, Begins

Awaitable == {"done", "dims", "failed", "signal", "pending", "republish"}

LEMMA AwaitsPendingMoves ==
  ASSUME TypeOK, NEW c \in Calls, NEW t \in Tracks, AwaitsPending(c, t), at[c][t] \notin InFlight
  PROVE  /\ TReq' /\ TOn'
         /\ \E to \in Awaitable : Goes(c, t, to) /\ PendingMoves(c, t, to)
  BY TypeParts, AwaitsOf, KeepsMoves, BeginsMoves DEF TPending, TReq, Awaitable, AwaitsPending

LEMMA WakesMoves ==
  ASSUME TypeOK, NEW c \in Calls, NEW t \in Tracks, WorkWakes(c, t)
  PROVE  /\ TReq' /\ TOn' /\ at[c][t] \in BeforeAsking \ {"none"}
         /\ \E to \in Awaitable : Goes(c, t, to) /\ PendingMoves(c, t, to)
  <1>1. TReq /\ TPending /\ TOn /\ TFlags
    BY TypeParts
  <1>2. CASE at[c][t] \in {"reconnect", "republish"} /\ AwaitsPending(c, t)
    BY <1>2, AwaitsPendingMoves DEF InFlight, BeforeAsking
  <1>3. CASE /\ at[c][t] = "reconnect" /\ Goes(c, t, "republish") /\ Awaits(c, t, republish)
             /\ UNCHANGED <<req, pending, overtaken>>
    BY <1>3, <1>1, AwaitsOf, KeepsMoves DEF InFlight, BeforeAsking, TFlags, TReq, Awaitable
  <1>4. CASE at[c][t] = "pending" /\ Begins(c, t) /\ Awaits(c, t, 0)
    BY <1>4, <1>1, BeginsMoves, AwaitsOf DEF InFlight, BeforeAsking, Awaitable
  <1>5. CASE /\ at[c][t] \in {"republish", "held", "pending"}
             /\ Goes(c, t, "failed") /\ Awaits(c, t, 0) /\ Leaves(c, t) /\ UNCHANGED req
    BY <1>5, <1>1, AwaitsOf, LeavesMoves DEF InFlight, BeforeAsking, TReq, Awaitable
  <1>6. CASE at[c][t] = "signal" /\ Publishes(c, t) /\ UNCHANGED on
    BY <1>6, <1>1, PublishesMoves DEF BeforeAsking, Awaitable, TOn
  <1> QED
    BY <1>2, <1>3, <1>4, <1>5, <1>6 DEF WorkWakes

LEMMA WorkWakesStep ==
  ASSUME PublishInv, NEW c \in Calls, NEW t \in Tracks, WorkWakes(c, t)
  PROVE  PublishInv' /\ FailsKept
  <1>1. /\ WorkFrame
        /\ UNCHANGED <<resolver, retried, early, refused, published, encrypted, onServer,
                       mutedOnServer>>
    BY DEF WorkWakes, WorkFrame, engineVars, callVars, trackVars, server
  <1>2. TypeOK /\ TAt /\ TRetry /\ TPublished /\ TPending /\ TServer
    BY TypeParts DEF PublishInv
  <1>3. PICK to \in Awaitable : Goes(c, t, to) /\ PendingMoves(c, t, to)
    BY <1>2, WakesMoves
  <1>4. TReq' /\ TOn' /\ at[c][t] \in BeforeAsking \ {"none"}
    BY <1>2, WakesMoves
  <1>5. to \in Places /\ to # "next"
    BY DEF Awaitable, Places, InFlight, Over, Failed
  <1>6. TypeOK'
    BY <1>2, <1>3, <1>5, GoesTo, <1>1, <1>4, WorkTypes DEF TRetry, TPublished, TPending, TServer, PendingMoves
  <1>7. UNCHANGED <<conn, restarts, kind, top, republish, pendingPublishing>>
    BY <1>1 DEF WorkFrame, engineVars, callVars
  <1> QED
    BY <1>1, <1>3, <1>4, <1>5, <1>6, <1>7, WorkMove
      DEF PendingMoves, PublishInv, RetryIsNotRefused, BeforeAsking, Failed

\* The resolver of the track: gone, kept, or the call's own.
ResolverMoves(c, t, to) ==
  /\ resolver' \in [Tracks -> Calls \union {0}]
  /\ \A u \in Tracks : u # t => resolver'[u] = resolver[u]
  /\ \/ resolver'[t] = 0
     \/ resolver'[t] = resolver[t]
     \/ resolver'[t] = c /\ to \notin BeforeAsking \union {"next"}

RetryKept ==
  TRetry' /\ RetryIsNotRefused' /\ early \subseteq early'

LEMMA WorkStep ==
  ASSUME PublishInv, NEW c \in Calls, NEW t \in Tracks, NEW to \in Places, Goes(c, t, to),
         at[c][t] # "none", WorkFrame, TReq', TOn', TPublished', TServer', RetryKept,
         PendingMoves(c, t, to), ResolverMoves(c, t, to),
         to \in BeforeAsking => at[c][t] \in BeforeAsking,
         to = "next" => <<c, t>> \in early' \/ conn \notin {"restarting", "rejoined"},
         at[c][t] \in Failed => to \in Failed
  PROVE  PublishInv' /\ FailsKept
  BY TypeParts, GoesTo, WorkTypes, WorkMove
    DEF PublishInv, TPending, PendingMoves, ResolverMoves, RetryKept, WorkFrame, engineVars, callVars

LEMMA RetryStays ==
  ASSUME PublishInv, UNCHANGED <<retried, early, refused>>
  PROVE  RetryKept
  BY TypeParts DEF PublishInv, RetryKept, TRetry, RetryIsNotRefused

LEMMA ResolverStays ==
  ASSUME TPending, NEW c \in Calls, NEW t \in Tracks, NEW to, UNCHANGED resolver
  PROVE  ResolverMoves(c, t, to)
  BY DEF TPending, ResolverMoves

LEMMA ResolverGone ==
  ASSUME TPending, NEW c \in Calls, NEW t \in Tracks, NEW to,
         resolver' = [resolver EXCEPT ![t] = 0]
  PROVE  ResolverMoves(c, t, to)
  BY DEF TPending, ResolverMoves

\* What is in the map and on the server stays, or is taken away.
LEMMA RemovedTypes ==
  ASSUME TypeOK, UNCHANGED removed
  PROVE  TPublished' /\ TServer'
  BY TypeParts DEF TPublished, TServer, removed

LEMMA RemovesTypes ==
  ASSUME TypeOK, NEW ts \in SUBSET {t \in Tracks : published[t] > 0}, Removes(ts)
  PROVE  TPublished' /\ TServer'
  BY TypeParts DEF TPublished, TServer, Removes

\* A step that does no more than go on to another place.
LEMMA JustGoes ==
  ASSUME PublishInv, NEW c \in Calls, NEW t \in Tracks, NEW to \in Places, Goes(c, t, to),
         at[c][t] # "none", to # "next", WorkFrame,
         UNCHANGED <<on, req, retried, early, refused, resolver>>,
         TPublished', TServer', PendingMoves(c, t, to),
         to \in BeforeAsking => at[c][t] \in BeforeAsking,
         at[c][t] \in Failed => to \in Failed
  PROVE  PublishInv' /\ FailsKept
  BY TypeParts, RetryStays, ResolverStays, WorkStep DEF PublishInv, TOn, TReq

LEMMA AfterRemovalIs ==
  ASSUME NEW c, NEW t
  PROVE  AfterRemoval(c, t) \in {"done", "reacquire", "reconnect"}
  BY DEF AfterRemoval

LEMMA LateWakesStep ==
  ASSUME PublishInv, NEW c \in Calls, NEW t \in Tracks, LateWakes(c, t)
  PROVE  PublishInv' /\ FailsKept
  <1>1. /\ WorkFrame
        /\ UNCHANGED <<on, req, retried, early, refused, resolver, pending, overtaken>> /\ UNCHANGED removed
    BY DEF LateWakes, WorkFrame, engineVars, callVars, trackVars, server, shared, removed
  <1>2. at[c][t] = "late" /\ Goes(c, t, "failed")
    BY DEF LateWakes
  <1> QED
    BY <1>1, <1>2, RemovedTypes, JustGoes, KeepsMoves, TypeParts
      DEF Places, Over, Failed, BeforeAsking, InFlight, PublishInv

LEMMA SignalTimesOutStep ==
  ASSUME PublishInv, NEW c \in Calls, NEW t \in Tracks, SignalTimesOut(c, t)
  PROVE  PublishInv' /\ FailsKept
  <1>1. /\ WorkFrame
        /\ UNCHANGED <<on, req, retried, early, refused, resolver>> /\ UNCHANGED removed
    BY DEF SignalTimesOut, WorkFrame, engineVars, callVars, trackVars, server, removed
  <1>2. at[c][t] = "signal" /\ Goes(c, t, "late") /\ Forgets(c, t)
    BY DEF SignalTimesOut
  <1> QED
    BY <1>1, <1>2, RemovedTypes, JustGoes, ForgetsMoves, TypeParts
      DEF Places, Over, Failed, BeforeAsking, PublishInv

LEMMA RestartTimesOutStep ==
  ASSUME PublishInv, NEW c \in Calls, NEW t \in Tracks, RestartTimesOut(c, t)
  PROVE  PublishInv' /\ FailsKept
  <1>1. /\ WorkFrame
        /\ UNCHANGED <<on, req, retried, early, refused, resolver>> /\ UNCHANGED removed
    BY DEF RestartTimesOut, WorkFrame, engineVars, callVars, trackVars, server, removed
  <1>2. at[c][t] = "next" /\ Goes(c, t, "failed") /\ Leaves(c, t)
    BY DEF RestartTimesOut
  <1> QED
    BY <1>1, <1>2, RemovedTypes, JustGoes, LeavesMoves, TypeParts
      DEF Places, Over, Failed, BeforeAsking, InFlight, PublishInv

LEMMA RemovalWakesStep ==
  ASSUME PublishInv, NEW c \in Calls, NEW t \in Tracks, RemovalWakes(c, t)
  PROVE  PublishInv' /\ FailsKept
  <1>1. TypeOK /\ TPending
    BY TypeParts DEF PublishInv
  <1>2. /\ WorkFrame
        /\ UNCHANGED <<on, req, retried, early, refused, resolver, pending, overtaken>>
    BY DEF RemovalWakes, WorkFrame, engineVars, callVars, shared
  <1>3. at[c][t] = "held"
    BY DEF RemovalWakes
  <1>4. \A to : PendingMoves(c, t, to)
    BY <1>1, <1>2, <1>3, KeepsMoves DEF InFlight
  <1>5. CASE Goes(c, t, AfterRemoval(c, t)) /\ UNCHANGED removed
    BY <1>1, <1>5, RemovedTypes, AfterRemovalIs, <1>2, <1>3, <1>4, JustGoes
      DEF Places, Over, Failed, BeforeAsking
  <1> QED
    BY <1>5, <1>1, RemovesTypes, <1>2, <1>3, <1>4, JustGoes DEF RemovalWakes, Places, Failed, BeforeAsking

LEMMA RemovedStep ==
  ASSUME PublishInv, NEW c \in Calls, NEW t \in Tracks, Removed(c, t) \/ Reacquired(c, t)
  PROVE  PublishInv' /\ FailsKept
  <1>1. /\ WorkFrame
        /\ UNCHANGED <<on, req, retried, early, refused, resolver, pending, overtaken>> /\ UNCHANGED removed
    BY DEF Removed, Reacquired, WorkFrame, engineVars, callVars, trackVars, server, shared, removed
  <1>2. at[c][t] \in {"removing", "reacquire"}
    BY DEF Removed, Reacquired
  <1>3. PICK to \in {"done", "reacquire", "reconnect", "failed"} : Goes(c, t, to)
    BY AfterRemovalIs DEF Removed, Reacquired
  <1>4. to \in Places
    BY DEF Places, Over, Failed
  <1> QED
    BY <1>1, <1>2, <1>3, <1>4, RemovedTypes, JustGoes, KeepsMoves, TypeParts
      DEF Failed, BeforeAsking, InFlight, PublishInv

LEMMA AsksStep ==
  ASSUME PublishInv, NEW c \in Calls, NEW t \in Tracks, Asks(c, t)
  PROVE  PublishInv' /\ FailsKept
  <1>1. TypeOK /\ TPending /\ TReq /\ TOn /\ TMuted /\ TFlags
    BY TypeParts DEF PublishInv
  <1>2. WorkFrame /\ UNCHANGED <<on, retried, early>> /\ UNCHANGED removed
    BY DEF Asks, WorkFrame, engineVars, callVars, trackVars, server, removed
  <1>3. at[c][t] = "dims" /\ TOn' /\ TPublished' /\ TServer'
    BY <1>1, <1>2, RemovedTypes DEF Asks, TOn
  <1>4. {"failed", "both", "answer"} \subseteq Places
    BY DEF Places, InFlight, Over, Failed
  <1>5. CASE /\ Goes(c, t, "failed") /\ Forgets(c, t) /\ Drops(c, t) /\ UNCHANGED resolver
             /\ refused' = IF conn # "closed" /\ resolver[t] = c
                           THEN refused \union {<<c, t>>} ELSE refused
    <2>1. TReq' /\ PendingMoves(c, t, "failed") /\ ResolverMoves(c, t, "failed")
      BY <1>1, <1>5, DropsTypes, ForgetsMoves, ResolverStays
    <2> QED
      BY <1>2, <1>3, <1>4, <1>5, <2>1, WorkStep, TypeParts
        DEF BeforeAsking, Failed, PublishInv, AsksAfresh, RetryIsNotRefused, RetryKept, TRetry
  <1>6. ASSUME resolver' = [resolver EXCEPT ![t] = c], UNCHANGED refused,
               req' = [req EXCEPT ![c][t].sent = conn # "restarting"],
               NEW to \in {"failed", "both", "answer"}, Goes(c, t, to),
               (to = "failed" /\ Forgets(c, t)) \/ (to # "failed" /\ UNCHANGED <<pending, overtaken>>)
        PROVE  PublishInv' /\ FailsKept
    <2>1. PendingMoves(c, t, to)
      BY <1>6, <1>1, KeepsMoves, ForgetsMoves DEF InFlight
    <2>2. TReq'
      BY <1>1, <1>6, RequestTypes, SetsRequest DEF TReq
    <2> QED
      BY <1>2, <1>3, <1>4, <1>6, <2>1, <2>2, WorkStep, <1>1, RetryStays
        DEF BeforeAsking, Failed, TPending, ResolverMoves
  <1>7. CASE /\ resolver' = [resolver EXCEPT ![t] = c] /\ UNCHANGED refused
             /\ req' = [req EXCEPT ![c][t].sent = conn # "restarting"]
             /\ \/ Goes(c, t, "failed") /\ Forgets(c, t)
                \/ Goes(c, t, "both") /\ UNCHANGED <<pending, overtaken>>
                \/ Goes(c, t, "answer") /\ UNCHANGED <<pending, overtaken>>
    BY <1>7, <1>6
  <1> QED
    BY <1>5, <1>7 DEF Asks

LEMMA AddsTypes ==
  ASSUME TypeOK, NEW c \in Calls, NEW t \in Tracks, Adds(c, t)
  PROVE  TPublished'
  BY TypeParts DEF TPublished, TReq, Requests, Adds

LEMMA AnswerTypes ==
  ASSUME TypeOK, NEW c \in Calls, NEW t \in Tracks, ServerAnswers(c, t)
  PROVE  TServer' /\ TReq'
  <1>1. TServer /\ TReq /\ TMuted /\ TFlags
    BY TypeParts
  <1>2. TReq'
    <2>1. PICK r \in Requests : req' = [req EXCEPT ![c][t] = r]
      BY <1>1, RequestTypes DEF ServerAnswers, TReq
    <2> QED
      BY <1>1, <2>1, SetsRequest
  <1> QED
    BY <1>2, <1>1 DEF TServer, ServerAnswers, TReq, Requests

LEMMA ServerAnswersStep ==
  ASSUME PublishInv, NEW c \in Calls, NEW t \in Tracks, ServerAnswers(c, t)
  PROVE  PublishInv' /\ FailsKept
  <1> DEFINE d == resolver[t]
  <1>1. TypeOK /\ TPending /\ TPublished /\ TOn /\ TAt
    BY TypeParts DEF PublishInv
  <1>2. WorkFrame /\ UNCHANGED <<on, retried, early, refused>>
    BY DEF ServerAnswers, WorkFrame, engineVars, callVars
  <1>3. TServer' /\ TReq' /\ TOn' /\ RetryKept
    BY <1>1, <1>2, AnswerTypes, RetryStays DEF TOn
  <1>4. resolver' = [resolver EXCEPT ![t] = 0] /\ d \in Calls \union {0}
    BY <1>1 DEF ServerAnswers, TPending
  <1>5. CASE /\ d # 0 /\ at[d][t] \in {"both", "answer"}
             /\ Goes(d, t, "negotiate") /\ UNCHANGED <<published, encrypted, pending, overtaken>>
    <2>1. d \in Calls /\ "negotiate" \in InFlight /\ "negotiate" \in Places
      BY <1>4, <1>5 DEF InFlight, Places
    <2>2. PendingMoves(d, t, "negotiate") /\ ResolverMoves(d, t, "negotiate")
      BY <1>1, <1>4, <1>5, <2>1, KeepsMoves, ResolverGone
    <2> HIDE DEF d
    <2> QED
      BY <1>2, <1>3, <1>5, <2>1, <2>2, WorkStep, <1>1 DEF BeforeAsking, Failed, TPublished
  <1>6. CASE d # 0 /\ at[d][t] = "answer" /\ Goes(d, t, "done") /\ Adds(d, t) /\ Forgets(d, t)
    <2>1. d \in Calls /\ "done" \in Places
      BY <1>4, <1>6 DEF Over, Places
    <2>2. PendingMoves(d, t, "done") /\ ResolverMoves(d, t, "done")
      BY <1>1, <1>4, <1>6, <2>1, ForgetsMoves, ResolverGone
    <2> HIDE DEF d
    <2> QED
      BY <1>2, <1>3, <1>6, <2>1, <2>2, WorkStep, <1>1, AddsTypes DEF BeforeAsking, Failed
  <1> QED
    BY <1>5, <1>6, <1>1, <1>3, <1>4, <1>2, WorkTypes, StillMove
      DEF ServerAnswers, TPublished, TAt, TPending, RetryKept, WorkFrame, engineVars, callVars

LEMMA ResolverTimesOutStep ==
  ASSUME PublishInv, NEW t \in Tracks, ResolverTimesOut(t)
  PROVE  PublishInv' /\ FailsKept
  <1> DEFINE c == resolver[t]
  <1>1. TypeOK /\ TPending /\ TReq /\ TOn /\ TAt
    BY TypeParts DEF PublishInv
  <1>2. /\ WorkFrame /\ UNCHANGED <<on, req, retried, early, refused, pending, overtaken>> /\ UNCHANGED removed
    BY DEF ResolverTimesOut, WorkFrame, engineVars, callVars, trackVars, server, removed
  <1>3. TServer' /\ TPublished' /\ TReq' /\ TOn' /\ RetryKept
    BY <1>1, <1>2, RemovedTypes, RetryStays DEF TOn, TReq
  <1>4. resolver' = [resolver EXCEPT ![t] = 0] /\ c \in Calls
    BY <1>1 DEF ResolverTimesOut, TPending
  <1>5. CASE at[c][t] \in {"both", "answer"} /\ Goes(c, t, "undo")
    <2> HIDE DEF c
    <2> QED
      BY <1>2, <1>3, <1>4, <1>5, WorkStep, <1>1, KeepsMoves, ResolverGone
        DEF BeforeAsking, Failed, InFlight, Places
  <1> QED
    BY <1>5, <1>1, <1>2, <1>3, <1>4, WorkTypes, StillMove
      DEF ResolverTimesOut, TAt, TPending, RetryKept, WorkFrame, engineVars, callVars

LEMMA NegotiatedStep ==
  ASSUME PublishInv, NEW c \in Calls, NEW t \in Tracks, Negotiated(c, t)
  PROVE  PublishInv' /\ FailsKept
  <1>1. TypeOK /\ TPending /\ TReq /\ TOn /\ TPublished /\ TServer /\ TMuted /\ TFlags
    BY TypeParts DEF PublishInv
  <1>2. WorkFrame /\ UNCHANGED <<on, retried, early, refused, resolver>> /\ UNCHANGED server
    BY DEF Negotiated, WorkFrame, engineVars, callVars
  <1>3. TServer' /\ TOn' /\ RetryKept /\ \A to : ResolverMoves(c, t, to)
    BY <1>1, <1>2, RetryStays, ResolverStays DEF TOn, TServer, server
  <1>4. CASE /\ at[c][t] = "negotiate"
             /\ Goes(c, t, "done") /\ Adds(c, t) /\ Forgets(c, t) /\ Drops(c, t)
    BY <1>1, <1>4, ForgetsMoves, AddsTypes, DropsTypes, <1>2, <1>3, WorkStep
      DEF Places, Over, BeforeAsking, Failed
  <1>5. CASE /\ at[c][t] = "undo"
             /\ Goes(c, t, "failed") /\ Forgets(c, t) /\ Drops(c, t) /\ UNCHANGED <<published, encrypted>>
    BY <1>1, <1>5, ForgetsMoves, DropsTypes, <1>2, <1>3, WorkStep
      DEF Places, Over, Failed, TPublished, BeforeAsking
  <1> QED
    BY <1>4, <1>5, <1>1, KeepsMoves, <1>2, <1>3, WorkStep
      DEF Negotiated, InFlight, Places, TPublished, TReq, BeforeAsking, Failed

LEMMA NegotiationFailsStep ==
  ASSUME PublishInv, NEW c \in Calls, NEW t \in Tracks, NegotiationFails(c, t)
  PROVE  PublishInv' /\ FailsKept
  <1>1. WorkFrame /\ UNCHANGED <<on, refused, resolver>> /\ UNCHANGED removed
    BY DEF NegotiationFails, WorkFrame, engineVars, callVars, trackVars, server, removed
  <1>2. /\ at[c][t] \in {"both", "negotiate"} /\ Signalling /\ Forgets(c, t) /\ Drops(c, t)
    BY DEF NegotiationFails
  <1>3. /\ TServer' /\ TPublished' /\ TOn' /\ TReq'
        /\ \A to : ResolverMoves(c, t, to) /\ PendingMoves(c, t, to)
    BY <1>1, <1>2, RemovedTypes, ResolverStays, ForgetsMoves, DropsTypes, TypeParts DEF TOn, PublishInv
  <1>4. CASE /\ Goes(c, t, "next") /\ retried' = retried \union {<<c, t>>}
             /\ early' = IF conn = "rejoined" THEN early \union {<<c, t>>} ELSE early
    <2>1. RetryKept /\ "next" \in Places
      BY TypeParts, <1>1, <1>4 DEF PublishInv, Places, RetryKept, TRetry, RetryIsNotRefused
    <2>2. <<c, t>> \in early' \/ conn \notin {"restarting", "rejoined"}
      BY <1>2, <1>4 DEF Signalling
    <2> QED
      BY <1>1, <1>2, <1>3, <1>4, <2>1, <2>2, WorkStep DEF BeforeAsking, Failed
  <1> QED
    BY <1>4, <1>1, RetryStays, <1>2, <1>3, WorkStep DEF NegotiationFails, Places, Over, Failed, BeforeAsking

-----------------------------------------------------------------------------
(* The calls. Each step has its lemma.                                      *)

LEMMA KeptParts ==
  ASSUME TypeOK
  PROVE  /\ (UNCHANGED engineVars) => TEngine'
         /\ (UNCHANGED at) => TAt'
         /\ (UNCHANGED on) => TOn'
         /\ (UNCHANGED req) => TReq'
         /\ (UNCHANGED <<retried, early, refused>>) => TRetry'
         /\ (UNCHANGED <<published, encrypted>>) => TPublished'
         /\ (UNCHANGED <<muted, made>>) => TMuted'
         /\ (UNCHANGED <<pending, resolver, overtaken>>) => TPending'
         /\ (UNCHANGED <<republish, pendingPublishing, encryption>>) => TFlags'
         /\ (UNCHANGED server) => TServer'
  BY TypeParts DEF TEngine, TAt, TOn, TReq, TRetry, TPublished, TMuted, TPending, TFlags,
                   TServer, engineVars, server

\* The work that a step of the call begins, which had not begun.
StaysPut(c) == \A d \in Calls, u \in Tracks : at'[d][u] = at[d][u] \/ (d = c /\ at[c][u] = "none")

\* What the call takes and gives back of the shared flags.
FlagsMove(c, to) ==
  /\ \/ republish' = 0
     \/ republish' = republish /\ top[c] # "all"
     \/ republish' = c /\ to = "all"
  /\ \/ pendingPublishing' = pendingPublishing /\ (top[c] \in Making <=> to \in Making)
     \/ ~pendingPublishing /\ pendingPublishing' /\ to \in Making
     \/ top[c] \in Making /\ to \notin Making /\ ~pendingPublishing'

Settings(c) ==
  /\ target' \in [Calls -> Tracks \union {0}]
  /\ turn' \in [Calls -> Calls \union {0}]

LEMMA CallStep ==
  ASSUME PublishInv, NEW c \in Calls, NEW to \in Tops, CallGoes(c, to), KindMoves(c), Settings(c),
         Starts(c), UNCHANGED <<engineVars, req, retried, early, refused, overtaken, pending, resolver>>,
         TAt', TOn', TPublished', TMuted', TFlags', TServer', StaysPut(c), FlagsMove(c, to),
         to \in Workless => \A u \in Tracks : at'[c][u] = "none"
  PROVE  PublishInv' /\ FailsKept
  BY TypeParts, CallGoesTo, KeptParts, JoinTypes, CallMove
    DEF PublishInv, KindMoves, TCalls, Settings, StaysPut, FlagsMove, engineVars

\* A call that is made now.
LEMMA IsNextGives ==
  ASSUME PublishInv, NEW c \in Calls, NEW k, IsNext(c, k)
  PROVE  /\ KindMoves(c) /\ Starts(c) /\ top[c] = "idle"
         /\ \A u \in Tracks : at[c][u] = "none"
  BY DEF IsNext, PublishInv, Unused, KindMoves, Starts, NoWorkYet, Workless

\* A call that goes on.
LEMMA GoesOnGives ==
  ASSUME PublishInv, NEW c \in Calls, top[c] # "idle", UNCHANGED kind
  PROVE  KindMoves(c) /\ Starts(c)
  BY DEF KindMoves, Starts

LEMMA SettingsStay ==
  ASSUME TypeOK, NEW c \in Calls
  PROVE  /\ (UNCHANGED <<target, turn>>) => Settings(c)
         /\ \A t \in Tracks : target' = [target EXCEPT ![c] = t] /\ turn' = turn => Settings(c)
         /\ \A d \in Calls \union {0} : target' = target /\ turn' = [turn EXCEPT ![c] = d] => Settings(c)
  BY TypeParts DEF TCalls, Settings

LEMMA StaysPutAt ==
  ASSUME TAt, NEW c \in Calls
  PROVE  /\ (UNCHANGED at) => StaysPut(c)
         /\ \A t \in Tracks : at[c][t] = "none" =>
              \A to \in Places : Goes(c, t, to) => StaysPut(c) /\ TAt'
  BY GoesTo DEF StaysPut

LEMMA RemovalBeginsAt ==
  ASSUME NEW t
  PROVE  RemovalBegins(t) \in {"held", "removing", "done"}
  BY DEF RemovalBegins

LEMMA PublishStep ==
  ASSUME PublishInv, NEW c \in Calls, NEW t \in Tracks, Publish(c, t)
  PROVE  PublishInv' /\ FailsKept
  BY TypeParts, IsNextGives, SettingsStay, StaysPutAt, KeptParts, CallStep
    DEF PublishInv, Publish, trackVars, shared, Places, FlagsMove, Making, Tops, Workless

LEMMA UnpublishStep ==
  ASSUME PublishInv, NEW c \in Calls, NEW t \in Tracks, Unpublish(c, t)
  PROVE  PublishInv' /\ FailsKept
  <1>1. TypeOK /\ TAt /\ TOn /\ TPending
    BY TypeParts DEF PublishInv
  <1>2. /\ CallGoes(c, "work") /\ Goes(c, t, RemovalBegins(t)) /\ target' = [target EXCEPT ![c] = t]
        /\ Awaits(c, t, pending[t])
        /\ Removes({t} \intersect {u \in Tracks : published[u] > 0 /\ pending[u] = 0})
    BY DEF Unpublish
  <1>3. /\ UNCHANGED <<engineVars, req, retried, early, refused, overtaken, pending, resolver>>
        /\ UNCHANGED <<turn, muted, made, republish, pendingPublishing, encryption>>
    BY DEF Unpublish, shared
  <1>4. KindMoves(c) /\ Starts(c) /\ top[c] = "idle" /\ \A u \in Tracks : at[c][u] = "none"
    BY IsNextGives DEF Unpublish
  <1>5. TOn' /\ TPublished' /\ TMuted' /\ TFlags' /\ TServer'
    BY <1>1, <1>2, AwaitsOf, <1>3, RemovesTypes, KeptParts DEF TPending
  <1> QED
    BY <1>2, <1>3, <1>4, <1>5, CallStep, RemovalBeginsAt, <1>1, SettingsStay, StaysPutAt
      DEF FlagsMove, Making, Tops, Workless, Places, Over

LEMMA EnableStep ==
  ASSUME PublishInv, NEW c \in Calls, NEW k, Enable(c, k)
  PROVE  PublishInv' /\ FailsKept
  BY TypeParts, IsNextGives, SettingsStay, StaysPutAt, KeptParts, CallStep
    DEF PublishInv, Enable, workVars, trackVars, shared, TFlags, FlagsMove, Making, Tops

LEMMA EnableBothStep ==
  ASSUME PublishInv, NEW c \in Calls, EnableBoth(c)
  PROVE  PublishInv' /\ FailsKept
  BY TypeParts, IsNextGives, SettingsStay, StaysPutAt, CallStep, KeptParts
    DEF PublishInv, EnableBoth, workVars, trackVars, Tops, TFlags, FlagsMove, Making

LEMMA SetMutedTypes ==
  ASSUME TypeOK, NEW t, NEW m \in BOOLEAN, SetMuted(t, m),
         UNCHANGED <<published, encrypted, made, onServer>>
  PROVE  TPublished' /\ TMuted' /\ TServer'
  BY TypeParts DEF TPublished, TMuted, TServer, SetMuted

LEMMA MuteStep ==
  ASSUME PublishInv, NEW c \in Calls, NEW t \in Tracks, Mute(c, t)
  PROVE  PublishInv' /\ FailsKept
  BY TypeParts, IsNextGives, SettingsStay, StaysPutAt, SetMutedTypes, CallStep, KeptParts
    DEF PublishInv, Mute, workVars, shared, FlagsMove, Making, Tops, Workless

LEMMA GateOpensStep ==
  ASSUME PublishInv, NEW c \in Calls, GateOpens(c)
  PROVE  PublishInv' /\ FailsKept
  <1>1. TypeOK /\ TAt /\ TFlags /\ TMuted
    BY TypeParts DEF PublishInv
  <1>2. top[c] = "gate" /\ turn' = [turn EXCEPT ![c] = 0]
    BY DEF GateOpens
  <1>3. /\ UNCHANGED <<engineVars, req, retried, early, refused, overtaken, pending, resolver>>
        /\ UNCHANGED <<kind, target, at, on, published, encrypted, made, republish, encryption,
                       onServer>>
    BY DEF GateOpens, workVars
  <1>4. KindMoves(c) /\ Starts(c) /\ \A u \in Tracks : at[c][u] = "none"
    BY <1>2, <1>3, GoesOnGives DEF PublishInv, NoWorkYet, Workless
  <1>5. Settings(c) /\ StaysPut(c)
    BY <1>1, <1>2, <1>3, SettingsStay, StaysPutAt
  <1>6. TAt' /\ TOn'
    BY <1>1, <1>3, KeptParts
  <1>7. PICK to \in {"failed", "done", "poll", "create"} :
          /\ CallGoes(c, to)
          /\ \/ to \in {"failed", "poll", "done"} /\ UNCHANGED pendingPublishing
             \/ to = "create" /\ ~pendingPublishing /\ pendingPublishing' = TRUE
    <2>1. CASE CallGoes(c, "poll") /\ UNCHANGED pendingPublishing
      BY <2>1
    <2>2. CASE /\ ~pendingPublishing
               /\ CallGoes(c, IF kind[c] = "enable" THEN "create" ELSE "done")
               /\ pendingPublishing' = (kind[c] = "enable")
      BY <2>2, <1>1 DEF TFlags
    <2> QED
      BY <2>1, <2>2 DEF GateOpens
  <1>8. TPublished' /\ TMuted' /\ TServer'
    BY <1>1, <1>3, SetMutedTypes, KeptParts DEF GateOpens, server
  <1>9. FlagsMove(c, to) /\ to \in Tops
    BY <1>2, <1>3, <1>7 DEF FlagsMove, Making, Tops
  <1> QED
    BY <1>3, <1>4, <1>5, <1>6, <1>7, <1>8, <1>9, CallStep, <1>1 DEF TFlags

LEMMA PollsStep ==
  ASSUME PublishInv, NEW c \in Calls, Polls(c)
  PROVE  PublishInv' /\ FailsKept
  <1>1. TypeOK /\ TAt /\ TFlags /\ TMuted /\ TOn /\ TPending
    BY TypeParts DEF PublishInv
  <1>2. top[c] = "poll"
    BY DEF Polls
  <1>3. /\ UNCHANGED <<engineVars, req, retried, early, refused, overtaken, pending, resolver>>
        /\ UNCHANGED <<kind, turn, at, published, encrypted, muted, made, republish,
                       pendingPublishing, encryption, server>>
    BY DEF Polls, trackVars, shared
  <1>4. KindMoves(c) /\ Starts(c) /\ \A u \in Tracks : at[c][u] = "none"
    BY <1>2, <1>3, GoesOnGives DEF PublishInv, NoWorkYet, Workless
  <1>5. PICK to \in {"join", "done"} : CallGoes(c, to)
    BY DEF Polls
  <1>6. Settings(c) /\ TOn'
    BY <1>1, <1>3, SettingsStay, AwaitsOf DEF TPending, Polls, TOn
  <1>7. TAt' /\ TPublished' /\ TMuted' /\ TFlags' /\ TServer' /\ StaysPut(c)
    BY <1>1, <1>3, KeptParts, StaysPutAt
  <1> QED
    BY <1>3, <1>4, <1>5, <1>6, <1>7, CallStep, <1>2 DEF FlagsMove, Making, Tops

LEMMA JoinsStep ==
  ASSUME PublishInv, NEW c \in Calls, Joins(c)
  PROVE  PublishInv' /\ FailsKept
  <1> DEFINE t == target[c]
  <1>1. TypeOK /\ TAt /\ TFlags /\ TMuted /\ TOn /\ TCalls
    BY TypeParts DEF PublishInv
  <1>2. top[c] = "join"
    BY DEF Joins
  <1>3. /\ UNCHANGED <<engineVars, req, retried, early, refused, overtaken, pending, resolver>>
        /\ UNCHANGED <<kind, target, turn, at, published, encrypted, made, republish,
                       pendingPublishing, encryption, onServer>>
    BY DEF Joins, shared
  <1>4. PICK to \in {"failed", "done"} : CallGoes(c, to)
    BY DEF Joins
  <1>5. TPublished' /\ TMuted' /\ TServer'
    BY <1>1, <1>3, SetMutedTypes, KeptParts DEF Joins, server
  <1>6. Settings(c) /\ StaysPut(c) /\ TAt' /\ TFlags'
    BY <1>1, <1>3, KeptParts, SettingsStay, StaysPutAt
  <1>7. FlagsMove(c, to) /\ to \in Tops /\ to \notin Workless
    BY <1>2, <1>3 DEF FlagsMove, Making, Tops, Workless
  <1> QED
    BY <1>3, <1>4, <1>5, <1>6, <1>7, CallStep, <1>2, GoesOnGives, <1>1 DEF Joins, Awaits, TOn

LEMMA CreatesStep ==
  ASSUME PublishInv, NEW c \in Calls, Creates(c)
  PROVE  PublishInv' /\ FailsKept
  <1>1. TypeOK /\ TAt /\ TFlags /\ TMuted
    BY TypeParts DEF PublishInv
  <1>2. top[c] = "create"
    BY DEF Creates
  <1>3. /\ UNCHANGED <<engineVars, req, retried, early, refused, overtaken, pending, resolver>>
        /\ UNCHANGED <<kind, turn, on, published, encrypted, muted, republish, encryption, server>>
    BY DEF Creates
  <1>4. KindMoves(c) /\ Starts(c) /\ \A u \in Tracks : at[c][u] = "none"
    BY <1>2, <1>3, GoesOnGives DEF PublishInv, NoWorkYet, Workless
  <1>5. TOn' /\ TPublished' /\ TServer'
    BY <1>1, <1>3, KeptParts
  <1>6. CASE /\ made < MaxTracks /\ made' = made + 1 /\ target' = [target EXCEPT ![c] = made']
             /\ CallGoes(c, "publishing") /\ Goes(c, made', "reconnect")
             /\ UNCHANGED pendingPublishing
    <2>1. made' \in Tracks /\ TMuted'
      BY <1>1, <1>3, <1>6, BoundsAssumption DEF TMuted, Tracks, BoundsAssumption
    <2>2. Settings(c) /\ StaysPut(c) /\ TAt'
      BY <1>1, <1>3, <1>4, <1>6, <2>1, SettingsStay, StaysPutAt DEF Places
    <2>3. TFlags'
      BY <1>1, <1>3, <1>6, KeptParts
    <2> QED
      BY <1>3, <1>4, <1>5, <1>6, <2>1, <2>2, <2>3, CallStep, <1>2 DEF FlagsMove, Making, Tops, Workless
  <1>7. CASE CallGoes(c, "failed") /\ pendingPublishing' = FALSE /\ UNCHANGED <<made, target, at>>
    <2>1. Settings(c) /\ StaysPut(c) /\ TAt' /\ TMuted'
      BY <1>1, <1>3, <1>7, SettingsStay, StaysPutAt, KeptParts
    <2> QED
      BY <1>3, <1>4, <1>5, <1>7, <2>1, CallStep, <1>2, <1>1 DEF FlagsMove, Making, Tops, Workless, TFlags
  <1> QED
    BY <1>6, <1>7 DEF Creates

LEMMA EnableEndsStep ==
  ASSUME PublishInv, NEW c \in Calls, EnableEnds(c)
  PROVE  PublishInv' /\ FailsKept
  BY TypeParts, GoesOnGives, KeptParts, SettingsStay, StaysPutAt, CallStep
    DEF PublishInv, EnableEnds, workVars, trackVars, TFlags, FlagsMove, Making, Tops, Workless

LEMMA EncryptStep ==
  ASSUME PublishInv, NEW c \in Calls, Encrypt(c)
  PROVE  PublishInv' /\ FailsKept
  BY TypeParts, IsNextGives, KeptParts, SettingsStay, StaysPutAt, SetRow, CallStep
    DEF PublishInv, Encrypt, trackVars, TOn, TPending, TFlags, FlagsMove, Making, Tops

-----------------------------------------------------------------------------
(* republishAllTracks                                                       *)

LEMMA RepublishMoves ==
  ASSUME TypeOK, NEW c \in Calls, \A u \in Tracks : at[c][u] = "none", Republish(c)
  PROVE  TAt' /\ TOn' /\ TPublished' /\ TServer' /\ StaysPut(c)
  <1> DEFINE ts   == {t \in Tracks : published[t] > 0}
             row  == [t \in Tracks |-> IF t \in ts THEN RemovalBegins(t) ELSE "none"]
             wait == [t \in Tracks |-> IF t \in ts THEN pending[t] ELSE 0]
  <1>1. TAt /\ TOn /\ TPending
    BY TypeParts
  <1>2. /\ at' = [at EXCEPT ![c] = row] /\ on' = [on EXCEPT ![c] = wait]
        /\ Removes({t \in ts : pending[t] = 0})
    BY DEF Republish
  <1>3. wait \in [Tracks -> Calls \union {0}]
    BY <1>1 DEF TPending
  <1>4. row \in [Tracks -> Places]
    BY RemovalBeginsAt DEF Places, Over
  <1> HIDE DEF ts, row, wait
  <1>5. TOn'
    BY <1>1, <1>2, <1>3, SetRow DEF TOn
  <1>6. TPublished' /\ TServer'
    BY <1>2, RemovesTypes DEF ts
  <1> QED
    BY <1>5, <1>6, <1>1, <1>2, <1>4, SetRow DEF StaysPut, TAt

\* A step that may republish: the call waits for its turn, or it is the one that republishes.
LEMMA RepublishAllMoves ==
  ASSUME TypeOK, NEW c \in Calls, \A u \in Tracks : at[c][u] = "none", RepublishAll(c)
  PROVE  /\ TAt' /\ TOn' /\ TPublished' /\ TServer' /\ StaysPut(c)
         /\ turn' \in [Calls -> Calls \union {0}]
         /\ \E to \in {"turn", "all"} :
              /\ CallGoes(c, to)
              /\ \/ to = "turn" /\ UNCHANGED <<at, republish>>
                 \/ to = "all" /\ republish' = c
  <1>1. TAt /\ TOn /\ TFlags /\ TCalls
    BY TypeParts
  <1>2. CASE /\ republish # 0 /\ CallGoes(c, "turn") /\ turn' = [turn EXCEPT ![c] = republish]
             /\ on' = [on EXCEPT ![c] = NoOwners] /\ UNCHANGED <<at, removed, republish>>
    BY <1>1, <1>2, SetRow, RemovedTypes DEF NoOwners, TOn, TFlags, TCalls, TAt, StaysPut
  <1>3. CASE republish = 0 /\ Republish(c) /\ UNCHANGED turn
    BY <1>3, RepublishMoves, <1>1 DEF Republish, TCalls
  <1> QED
    BY <1>2, <1>3 DEF RepublishAll

LEMMA TurnComesStep ==
  ASSUME PublishInv, NEW c \in Calls, TurnComes(c)
  PROVE  PublishInv' /\ FailsKept
  <1>1. TypeOK /\ TAt /\ TFlags
    BY TypeParts DEF PublishInv
  <1>2. top[c] = "turn" /\ turn' = [turn EXCEPT ![c] = 0]
    BY DEF TurnComes
  <1>3. /\ UNCHANGED <<engineVars, req, retried, early, refused, overtaken, pending, resolver>>
        /\ UNCHANGED <<kind, target, muted, made, pendingPublishing, encryption>>
    BY DEF TurnComes
  <1>4. KindMoves(c) /\ Starts(c) /\ \A u \in Tracks : at[c][u] = "none"
    BY <1>2, <1>3, GoesOnGives DEF PublishInv, NoWorkYet, Workless
  <1>5. Settings(c) /\ TMuted'
    BY <1>1, <1>2, <1>3, SettingsStay, KeptParts
  <1>6. CASE CallGoes(c, "failed") /\ UNCHANGED <<at, on, removed, republish>>
    <2>1. TAt' /\ TOn' /\ StaysPut(c) /\ TFlags'
      BY <1>1, <1>3, <1>6, KeptParts, StaysPutAt
    <2> QED
      BY <1>3, <1>4, <1>5, <1>6, <2>1, CallStep, <1>1, RemovedTypes, <1>2 DEF FlagsMove, Making, Tops, Workless
  <1> QED
    BY <1>6, <1>1, <1>4, RepublishMoves, <1>2, <1>3, <1>5, CallStep
      DEF TurnComes, Republish, FlagsMove, Making, Tops, Workless, TFlags

LEMMA FlushedStep ==
  ASSUME PublishInv, NEW c \in Calls, Flushed(c)
  PROVE  PublishInv' /\ FailsKept
  <1>1. TypeOK /\ TAt /\ TFlags /\ TOn /\ TCalls
    BY TypeParts DEF PublishInv
  <1>2. top[c] = "flush"
    BY DEF Flushed
  <1>3. /\ UNCHANGED <<engineVars, req, retried, early, refused, overtaken, pending, resolver>>
        /\ UNCHANGED <<kind, target, muted, made, pendingPublishing, encryption>>
    BY DEF Flushed
  <1>4. KindMoves(c) /\ Starts(c) /\ \A u \in Tracks : at[c][u] = "none"
    BY <1>2, <1>3, GoesOnGives DEF PublishInv, NoWorkYet, Workless
  <1>5. TMuted'
    BY <1>1, <1>3, KeptParts
  <1>6. ASSUME NEW to \in {"failed", "done"}, CallGoes(c, to), on' = [on EXCEPT ![c] = NoOwners],
               UNCHANGED <<turn, at, removed, republish>>
        PROVE  PublishInv' /\ FailsKept
    <2>1. TPublished' /\ TServer'
      BY <1>1, <1>6, RemovedTypes
    <2>2. TAt' /\ StaysPut(c) /\ TFlags' /\ Settings(c)
      BY <1>1, <1>3, <1>6, KeptParts, StaysPutAt, SettingsStay
    <2>3. TOn'
      BY <1>1, <1>6, SetRow DEF NoOwners, TOn
    <2> QED
      BY <1>3, <1>4, <1>5, <1>6, <2>1, <2>2, <2>3, CallStep, <1>2 DEF FlagsMove, Making, Tops, Workless
  <1> QED
    BY <1>6, <1>1, <1>4, RepublishAllMoves, <1>2, <1>3, <1>5, CallStep
      DEF Flushed, FlagsMove, Making, Tops, TFlags, Settings, TCalls, Workless

LEMMA RepublishedStep ==
  ASSUME PublishInv, NEW c \in Calls, Republished(c)
  PROVE  PublishInv' /\ FailsKept
  BY TypeParts, GoesOnGives, KeptParts, SettingsStay, StaysPutAt, CallStep
    DEF PublishInv, Republished, workVars, trackVars, TFlags, FlagsMove, Making, Tops, Workless

LEMMA SignalRestartedStep ==
  ASSUME PublishInv, SignalRestarted
  PROVE  PublishInv' /\ FailsKept
  <1> DEFINE c == MaxCalls + restarts
  <1>1. TypeOK /\ TAt /\ TFlags /\ TEngine /\ TCalls
    BY TypeParts DEF PublishInv
  <1>2. conn = "restarting" /\ conn' = "rejoined" /\ RepublishAll(c)
    BY DEF SignalRestarted
  <1>3. UNCHANGED <<restarts, resumes, kind, target, req, retried, early, refused, overtaken, muted, made,
                    pending, resolver, pendingPublishing, encryption>>
    BY DEF SignalRestarted
  <1>4. c \in Calls /\ c \notin AppCalls /\ top[c] = "idle"
    BY <1>2, <1>1, BoundsAssumption DEF PublishInv, RoomCalls, TEngine, BoundsAssumption, Calls, AppCalls
  <1>5. \A u \in Tracks : at[c][u] = "none"
    BY <1>4 DEF PublishInv, NoWorkYet, Workless
  <1>6. TAt' /\ TOn' /\ TPublished' /\ TServer' /\ StaysPut(c)
    BY <1>1, <1>2, <1>4, <1>5, RepublishAllMoves
  <1>7. PICK to \in {"turn", "all"} :
          /\ CallGoes(c, to)
          /\ \/ to = "turn" /\ UNCHANGED <<at, republish>>
             \/ to = "all" /\ republish' = c
    BY <1>1, <1>2, <1>4, <1>5, RepublishAllMoves
  <1>8. to \in Tops /\ (to \in Workless => \A u \in Tracks : at'[c][u] = "none")
    BY <1>5, <1>7 DEF Workless, Tops
  <1>9. KindMoves(c) /\ Starts(c)
    BY <1>2, <1>3, <1>4 DEF KindMoves, Starts
  <1>10. TypeOK'
    <2>1. TCalls'
      BY <1>1, <1>4, <1>7, <1>8, CallGoesTo, <1>3, <1>2, <1>5, RepublishAllMoves DEF TCalls
    <2> QED
      BY <1>6, <2>1, JoinTypes, <1>1, <1>2, <1>3, KeptParts, <1>4, <1>7 DEF TEngine, TFlags
  <1>11. \A d \in Calls, u \in Tracks : at'[d][u] = at[d][u] \/ (d = c /\ at[c][u] = "none")
    BY <1>6 DEF StaysPut
  <1> HIDE DEF c
  <1> QED
    BY <1>2, <1>3, <1>4, <1>7, <1>8, <1>9, <1>10, <1>11, CallMove DEF Making

-----------------------------------------------------------------------------
(* The engine and the server.                                               *)

LEMMA RestartedStep ==
  ASSUME PublishInv, Restarted
  PROVE  PublishInv' /\ FailsKept
  <1>1. TypeOK /\ TAt /\ TEngine /\ TCalls
    BY TypeParts DEF PublishInv
  <1>2. conn = "rejoined" /\ conn' = "up"
    BY DEF Restarted
  <1>3. /\ UNCHANGED <<restarts, resumes, kind, target, top, turn, on, req, retried, early, refused,
                       published, encrypted, muted, made>>
        /\ UNCHANGED <<pending, resolver, republish, pendingPublishing, encryption, server>>
    BY DEF Restarted, callVars, trackVars, shared
  <1>4. \A c \in Calls, t \in Tracks :
          at'[c][t] = IF at[c][t] = "next" THEN "reconnect" ELSE at[c][t]
    BY DEF Restarted
  <1>5. TypeOK'
    BY <1>1, <1>2, <1>3, KeptParts, JoinTypes DEF TAt, Places, Restarted, TEngine, TCalls
  <1>6. PendingIsHeld'
    BY TypeParts, <1>3, <1>4 DEF PublishInv, TPending, InFlight, PendingIsHeld
  <1>7. AsksAfresh'
    BY <1>2, <1>4, <1>3 DEF PublishInv, AsksAfresh
  <1>8. FailsKept
    BY <1>4 DEF FailsKept, Failed
  <1> QED
    BY <1>5, <1>6, <1>7, <1>8, <1>2, <1>3, <1>4
      DEF PublishInv, NoWorkYet, Unused, RoomCalls, RepublishIsHeld, MakerIsHeld, RetryIsNotRefused

Ends(t) == {c \in Calls : at[c][t] = "negotiate"}

LEMMA EndsAreCounted ==
  ASSUME NEW t
  PROVE  Cardinality(Ends(t)) \in Nat
  <1>1. IsFiniteSet(Calls)
    BY BoundsAssumption, FS_Interval DEF BoundsAssumption, Calls
  <1>2. Ends(t) \subseteq Calls
    BY DEF Ends
  <1>3. IsFiniteSet(Ends(t))
    BY <1>1, <1>2, FS_Subset
  <1> QED
    BY <1>3, FS_CardinalityType

Gone == {"next", "reconnect", "signal", "late"}

\* Whose work ends with the session, and whose fails.
LEMMA CutOffMoves ==
  ASSUME TypeOK, PendingIsHeld, NEW gone \in SUBSET Gone, NEW adds, CutOff(gone, adds),
         \A t \in Tracks : adds[t] + Cardinality(Ends(t)) \in Nat,
         resolver' = [t \in Tracks |-> 0]
  PROVE  /\ TAt' /\ TOn' /\ TReq' /\ TPublished' /\ TMuted' /\ TPending' /\ TFlags' /\ TServer'
         /\ TRetry' /\ TCalls'
         /\ \A t \in Tracks : pending'[t] # 0 =>
              /\ pending'[t] = pending[t]
              /\ at'[pending[t]][t] = at[pending[t]][t]
         /\ \A c \in Calls, t \in Tracks :
              \/ at'[c][t] = at[c][t]
              \/ at[c][t] = "negotiate" /\ at'[c][t] = "done"
              \/ at[c][t] \in Gone \union {"both", "answer", "undo"} /\ at'[c][t] = "failed"
  <1> DEFINE Dead(c, t) == at[c][t] \in gone \union {"both", "answer", "undo"}
             Forgot(c, t) == at[c][t] = "negotiate" \/ (Dead(c, t) /\ at[c][t] # "late"
                               /\ (at[c][t] \in InFlight \/ <<c, t>> \in retried))
  <1>1. TAt /\ TOn /\ TReq /\ TPublished /\ TMuted /\ TPending /\ TFlags /\ TServer /\ TRetry /\ TCalls
    BY TypeParts
  <1>2. at' = [c \in Calls |-> [t \in Tracks |->
                 IF at[c][t] = "negotiate" THEN "done"
                 ELSE IF Dead(c, t) THEN "failed" ELSE at[c][t]]]
    BY DEF CutOff
  <1>3. \A c \in Calls, t \in Tracks :
          at'[c][t] = IF at[c][t] = "negotiate" THEN "done"
                      ELSE IF Dead(c, t) THEN "failed" ELSE at[c][t]
    BY <1>2
  <1>4. TAt'
    <2> HIDE DEF Dead
    <2> QED
      BY <1>2, <1>1 DEF TAt, Places, Over, Failed
  <1>5. pending' = [t \in Tracks |->
                      IF \E c \in Calls : Forgot(c, t) THEN 0 ELSE pending[t]]
        /\ overtaken' \subseteq overtaken \union Tracks
    BY DEF CutOff
  <1>6. TPending'
    <2> HIDE DEF Dead, Forgot
    <2> QED
      BY <1>5, <1>1 DEF TPending
  <1>7. \A t \in Tracks : pending'[t] # 0 =>
          /\ pending'[t] = pending[t]
          /\ at'[pending[t]][t] = at[pending[t]][t]
    <2>1. ASSUME NEW t \in Tracks, pending'[t] # 0
          PROVE  /\ pending'[t] = pending[t]
                 /\ at'[pending[t]][t] = at[pending[t]][t]
      <3>1. /\ pending'[t] = pending[t] /\ pending[t] \in Calls
            /\ \A c \in Calls : ~Forgot(c, t)
        <4> HIDE DEF Forgot
        <4> QED
          BY <1>1, <1>5, <2>1 DEF TPending
      <3>2. at[pending[t]][t] \in InFlight
        BY <3>1, <2>1 DEF PendingIsHeld
      <3>3. at[pending[t]][t] # "negotiate" /\ ~Dead(pending[t], t)
        BY <3>1, <3>2 DEF InFlight
      <3> HIDE DEF Dead
      <3> QED
        BY <1>3, <3>1, <3>3
    <2> QED
      BY <2>1
  <1>8. TPublished'
    BY DEF CutOff, Ends, TPublished
  <1>9. TReq'
    BY <1>1, RequestTypes DEF TReq, CutOff
  <1>10. TServer'
    BY DEF CutOff, TServer
  <1>11. UNCHANGED <<kind, target, top, turn, on, muted, made, republish, pendingPublishing,
                     encryption, refused, early, retried>>
    BY DEF CutOff, callVars
  <1>12. TCalls'
    BY <1>1, <1>11 DEF TCalls
  <1>13. TOn' /\ TMuted' /\ TFlags' /\ TRetry'
    BY <1>11, KeptParts
  <1>14. \A c \in Calls, t \in Tracks :
           \/ at'[c][t] = at[c][t]
           \/ at[c][t] = "negotiate" /\ at'[c][t] = "done"
           \/ at[c][t] \in Gone \union {"both", "answer", "undo"} /\ at'[c][t] = "failed"
    BY <1>3
  <1> HIDE DEF Dead, Forgot
  <1> QED
    BY <1>4, <1>6, <1>7, <1>8, <1>9, <1>10, <1>12, <1>13, <1>14

\* A step that cuts the session off. The room's calls are counted on.
LEMMA CutOffStep ==
  ASSUME PublishInv, NEW gone \in SUBSET Gone, NEW adds, CutOff(gone, adds),
         \A t \in Tracks : adds[t] + Cardinality(Ends(t)) \in Nat,
         resolver' = [t \in Tracks |-> 0],
         TEngine', RoomCalls'
  PROVE  PublishInv' /\ FailsKept
  <1>1. TypeOK
    BY DEF PublishInv
  <1>2. \A c \in Calls, t \in Tracks :
          \/ at'[c][t] = at[c][t]
          \/ at[c][t] = "negotiate" /\ at'[c][t] = "done"
          \/ at[c][t] \in Gone \union {"both", "answer", "undo"} /\ at'[c][t] = "failed"
    BY <1>1, CutOffMoves DEF PublishInv
  <1>3. UNCHANGED <<kind, top, republish, pendingPublishing, refused, early>>
    BY DEF CutOff, callVars
  <1>4. NoWorkYet'
    BY <1>2, <1>3 DEF Gone, PublishInv, NoWorkYet
  <1>5. PendingIsHeld'
    BY <1>1, CutOffMoves DEF PublishInv, PendingIsHeld
  <1>6. Unused' /\ RepublishIsHeld' /\ MakerIsHeld' /\ RetryIsNotRefused'
    BY <1>3 DEF PublishInv, Unused, RepublishIsHeld, MakerIsHeld, RetryIsNotRefused
  <1>7. AsksAfresh'
    BY DEF Calls, AsksAfresh
  <1>8. FailsKept
    BY <1>2 DEF Failed, FailsKept
  <1> QED
    BY <1>4, <1>5, <1>6, <1>7, <1>8, JoinTypes, <1>1, CutOffMoves DEF PublishInv

LEMMA RestartingStep ==
  ASSUME PublishInv, Restarting
  PROVE  PublishInv' /\ FailsKept
  <1>1. TypeOK /\ TEngine /\ TPublished /\ MaxCalls \in Nat /\ MaxReconnects \in Nat
    BY TypeParts, BoundsAssumption DEF PublishInv, BoundsAssumption
  <1>2. /\ conn' = "restarting" /\ restarts' = restarts + 1 /\ resumes' = resumes
        /\ restarts + resumes < MaxReconnects /\ CutOff({}, published)
        /\ resolver' = [t \in Tracks |-> 0]
    BY DEF Restarting
  <1>3. RoomCalls'
    BY <1>1, <1>2 DEF CutOff, callVars, TEngine, Calls, PublishInv, RoomCalls
  <1>4. \A t \in Tracks : published[t] + Cardinality(Ends(t)) \in Nat
    BY <1>1, EndsAreCounted DEF TPublished
  <1>5. {} \in SUBSET Gone
    OBVIOUS
  <1> QED
    BY <1>2, <1>3, <1>4, <1>5, CutOffStep, <1>1 DEF TEngine

LEMMA ClosesStep ==
  ASSUME PublishInv, Closes
  PROVE  PublishInv' /\ FailsKept
  <1>1. conn' = "closed" /\ UNCHANGED <<restarts, resumes>> /\ resolver' = [t \in Tracks |-> 0]
    BY DEF Closes
  <1>2. ASSUME NEW gone \in SUBSET Gone, NEW adds, CutOff(gone, adds),
               \A t \in Tracks : adds[t] + Cardinality(Ends(t)) \in Nat
        PROVE  PublishInv' /\ FailsKept
    BY <1>1, <1>2, CutOffStep, TypeParts DEF CutOff, callVars, PublishInv, RoomCalls, TEngine
  <1> DEFINE gone == {"next"} \union (IF Reconnecting THEN {"reconnect"} ELSE {})
                              \union (IF conn = "initial" THEN {"signal", "late"} ELSE {})
             none == [t \in Tracks |-> 0]
             less == [t \in Tracks |-> -Cardinality(Ends(t))]
  <1>3. gone \in SUBSET Gone
    BY DEF Gone
  <1>4. CutOff(gone, none) \/ CutOff(gone, less)
    BY DEF Closes, Ends
  <1>5. \A t \in Tracks : none[t] + Cardinality(Ends(t)) \in Nat
    <2>1. \A t \in Tracks : none[t] = 0
      OBVIOUS
    <2> HIDE DEF none
    <2> QED
      BY <2>1, EndsAreCounted
  <1>6. \A t \in Tracks : less[t] + Cardinality(Ends(t)) \in Nat
    <2>1. \A t \in Tracks : less[t] = -Cardinality(Ends(t))
      OBVIOUS
    <2> HIDE DEF less
    <2> QED
      BY <2>1, EndsAreCounted
  <1> HIDE DEF gone, none, less
  <1> QED
    BY <1>2, <1>3, <1>4, <1>5, <1>6

LEMMA EngineStep ==
  ASSUME PublishInv, Joined \/ Resuming \/ Resumed
  PROVE  PublishInv' /\ FailsKept
  <1>1. TypeOK /\ TEngine /\ TCalls
    BY TypeParts DEF PublishInv
  <1>2. UNCHANGED callVars /\ UNCHANGED workVars /\ UNCHANGED trackVars /\ UNCHANGED shared
        /\ UNCHANGED server /\ restarts' = restarts /\ conn' \in {"up", "resuming"}
    BY DEF Joined, Resuming, Resumed
  <1>3. UNCHANGED <<kind, target, top, turn>>
    BY <1>2 DEF callVars
  <1>4. UNCHANGED <<at, on, req, retried, early, refused, overtaken, published, encrypted, muted, made, pending,
                    resolver, republish, pendingPublishing, encryption>>
    BY <1>2 DEF workVars, trackVars, shared
  <1>5. TypeOK'
    BY <1>1, <1>2, <1>4, KeptParts, JoinTypes, BoundsAssumption, <1>3
      DEF TEngine, Joined, Resuming, Resumed, BoundsAssumption, TCalls
  <1> QED
    BY <1>2, <1>3, <1>4, <1>5, EngineMove

LEMMA OwnUpdateStep ==
  ASSUME PublishInv, OwnUpdate
  PROVE  PublishInv' /\ FailsKept
  <1>1. TypeOK /\ TEngine /\ TCalls /\ TServer /\ TMuted /\ TPending
    BY TypeParts DEF PublishInv
  <1>2. UNCHANGED engineVars /\ UNCHANGED callVars /\ UNCHANGED workVars /\ UNCHANGED trackVars
        /\ UNCHANGED shared /\ UNCHANGED onServer
    BY DEF OwnUpdate
  <1>3. UNCHANGED <<conn, restarts, kind, target, top, turn>>
    BY <1>2 DEF callVars, engineVars
  <1>4. UNCHANGED <<at, on, req, retried, early, refused, overtaken, published, encrypted, muted, made, pending,
                    resolver, republish, pendingPublishing, encryption>>
    BY <1>2 DEF workVars, trackVars, shared
  <1>5. TCalls'
    BY <1>1, <1>3 DEF TCalls
  <1>6. TypeOK'
    BY <1>1, <1>2, <1>4, <1>5, KeptParts, JoinTypes DEF OwnUpdate, TServer, TMuted
  <1> QED
    BY <1>3, <1>4, <1>6, StillMove

-----------------------------------------------------------------------------
(* The theorems.                                                            *)

LEMMA InitInv == Init => PublishInv
  <1> SUFFICES ASSUME Init PROVE PublishInv
    OBVIOUS
  <1>1. /\ MaxCalls \in Nat /\ MaxReconnects \in Nat /\ MaxTracks \in Nat \ {0}
    BY BoundsAssumption DEF BoundsAssumption
  <1>2. \A c \in Calls : top[c] = "idle" /\ \A t \in Tracks : at[c][t] = "none"
    BY DEF Init
  <1>3. TypeOK
    <2>1. TAt /\ TOn /\ TPublished /\ TPending /\ TServer /\ TFlags /\ TRetry
      BY DEF Init, TAt, TOn, TPublished, TPending, TServer, TFlags, TRetry, Places, Over
    <2>2. TMuted /\ TReq
      BY <1>1 DEF Init, TMuted, TReq, Requests, NoRequest
    <2> QED
      BY <2>1, <2>2, TypeParts, <1>1 DEF Init, TEngine, TCalls, Tops
  <1>4. PendingIsHeld /\ RepublishIsHeld /\ RetryIsNotRefused
    BY DEF Init, PendingIsHeld, RepublishIsHeld, RetryIsNotRefused
  <1>5. AsksAfresh
    BY DEF Init, AsksAfresh, Calls
  <1> QED
    BY <1>3, <1>4, <1>5, <1>2, <1>1
      DEF PublishInv, Init, NoWorkYet, RoomCalls, MakerIsHeld, Making, Unused, AppCalls, Calls

LEMMA CallNextStep ==
  ASSUME PublishInv, NEW c \in Calls, CallNext(c)
  PROVE  PublishInv' /\ FailsKept
  <1>1. CASE EnableBoth(c) \/ Encrypt(c) \/ GateOpens(c) \/ Polls(c) \/ Joins(c)
    BY <1>1, EnableBothStep, EncryptStep, GateOpensStep, PollsStep, JoinsStep
  <1>2. CASE Creates(c) \/ EnableEnds(c) \/ Flushed(c) \/ TurnComes(c) \/ Republished(c)
    BY <1>2, CreatesStep, EnableEndsStep, FlushedStep, TurnComesStep, RepublishedStep
  <1> QED
    BY <1>1, <1>2, PublishStep, UnpublishStep, MuteStep, EnableStep DEF CallNext

LEMMA WorkNextStep ==
  ASSUME PublishInv, NEW c \in Calls, NEW t \in Tracks, WorkNext(c, t)
  PROVE  PublishInv' /\ FailsKept
  <1>1. CASE RestartTimesOut(c, t) \/ Removed(c, t) \/ Reacquired(c, t)
    BY <1>1, RestartTimesOutStep, RemovedStep
  <1> QED
    BY <1>1, WorkWakesStep, LateWakesStep, RemovalWakesStep, SignalTimesOutStep, AsksStep,
       ServerAnswersStep, NegotiatedStep, NegotiationFailsStep DEF WorkNext

LEMMA NextStep ==
  ASSUME PublishInv, [Next]_vars
  PROVE  PublishInv' /\ [FailsKept]_vars
  <1>1. ASSUME NEW t \in Tracks, ResolverTimesOut(t)
        PROVE  PublishInv' /\ FailsKept
    BY <1>1, ResolverTimesOutStep
  <1>2. CASE Joined \/ Resuming \/ Resumed \/ OwnUpdate
    BY <1>2, EngineStep, OwnUpdateStep
  <1>3. CASE Restarting \/ SignalRestarted \/ Restarted \/ Closes
    BY <1>3, RestartingStep, SignalRestartedStep, RestartedStep, ClosesStep
  <1>4. CASE UNCHANGED vars
    BY <1>4, TypeParts, KeptParts, JoinTypes, StillMove
      DEF PublishInv, vars, callVars, workVars, trackVars, shared, TCalls, engineVars
  <1> QED
    BY <1>1, <1>2, <1>3, <1>4, CallNextStep, WorkNextStep DEF Next

\* What PublishInv says to the calls and to their callers.
LEMMA InvIsSound == PublishInv => PublishingIsSound
  <1> SUFFICES ASSUME PublishInv PROVE PublishingIsSound
    OBVIOUS
  <1>1. QuietIsClean
    <2> SUFFICES ASSUME Quiet
                 PROVE  pending = [t \in Tracks |-> 0] /\ republish = 0 /\ ~pendingPublishing
      BY DEF QuietIsClean
    <2>1. TPending /\ TFlags
      BY TypeParts DEF PublishInv
    <2>2. \A c \in Calls : top[c] \notin Making \union {"all"}
      BY DEF Quiet, CallOver, Making
    <2>3. republish = 0
      BY <2>1, <2>2 DEF TFlags, PublishInv, RepublishIsHeld
    <2>4. ~pendingPublishing
      BY <2>2 DEF PublishInv, MakerIsHeld
    <2> QED
      BY <2>3, <2>4, <2>1 DEF TPending, PublishInv, PendingIsHeld, Quiet, Over, Failed, InFlight
  <1> QED
    BY <1>1, BoundsAssumption
      DEF PublishInv, PublishingIsSound, AppCalls, Calls, BoundsAssumption, MakerIsHeld, OneMaker, Making

\* Whatever calls overlap, whatever fails and however often the engine restarts, a publication
\* that is begun again does not meet its own first request, one camera is made at a time, and
\* when all is over no promise of a publication or a republish and no flag is left behind
\* (publishOrRepublishTrack, republishAllTracks, setTrackEnabled).
THEOREM PublishingHolds == Spec => []PublishingIsSound
  <1>1. Init => PublishInv
    BY InitInv
  <1>2. PublishInv /\ [Next]_vars => PublishInv'
    BY NextStep
  <1>3. PublishInv => PublishingIsSound
    BY InvIsSound
  <1> QED
    BY <1>1, <1>2, <1>3, PTL DEF Spec

\* A publication whose caller was told that it failed is not made after all, not even by the
\* signal connection for which it waited in vain (publicationTimedOut).
THEOREM FailureIsFinal == Spec => FailedStaysFailed
  <1>1. Init => PublishInv
    BY InitInv
  <1>2. PublishInv /\ [Next]_vars => PublishInv'
    BY NextStep
  <1>3. PublishInv /\ [Next]_vars =>
          [\A c \in Calls, t \in Tracks : at[c][t] \in Failed => at'[c][t] \in Failed]_vars
    BY NextStep DEF FailsKept
  <1> QED
    BY <1>1, <1>2, <1>3, PTL DEF Spec, FailedStaysFailed
=============================================================================

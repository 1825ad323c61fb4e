----------------------- MODULE DataTrackSubscriptions -----------------------
(***************************************************************************)
(* Subscriptions to remote data tracks, as IncomingDataTrackManager keeps  *)
(* them.                                                                   *)
(*                                                                         *)
(* The manager has one descriptor per published track.  The SFU knows the  *)
(* track by its SID, which changes when the publisher reconnects, and      *)
(* marks its packets with a handle it assigns when it grants the           *)
(* subscription.  The application opens any number of streams on a track:  *)
(* the first one asks the SFU for the subscription and arms a timeout, the *)
(* ones that come before the handle wait with it, and the last one to end  *)
(* gives the subscription back.  In between the track can be unpublished,  *)
(* its SID replaced, its publisher can leave, and the client itself can go *)
(* through a full reconnect, after which the SFU has forgotten everything. *)
(*                                                                         *)
(* A track stands for one descriptor object: one that is published again   *)
(* after it was unpublished is another track.  Tracks, streams and SIDs    *)
(* are numbered in the order they come into being.                         *)
(***************************************************************************)
EXTENDS Integers

CONSTANTS MaxTracks,                \* descriptors
          Publishers, PublisherOf,  \* who publishes them
          MaxStreams,               \* calls of openSubscriptionStream
          MaxSids,                  \* SIDs the SFU issues
          Handles, NoHandle

ASSUME BoundsAssumption == MaxTracks \in Nat /\ MaxStreams \in Nat /\ MaxSids \in Nat
ASSUME OwnersAssumption == PublisherOf \in [1..MaxTracks -> Publishers]
ASSUME AbsentAssumption == NoHandle \notin Handles

Tracks  == 1..MaxTracks
Streams == 1..MaxStreams
None == 0    \* no SID, no track, no stream

VARIABLES
  descriptors,  \* the tracks in the map of that name
  sid,          \* descriptor.info.sid, None for a track never published
  sub,          \* descriptor.subscription.type
  handle,       \* subcriptionHandle of an active subscription
  index,        \* subscriptionHandles: from handles to SIDs
  requests,     \* pendingRequestCount of a pending subscription
  rejected,     \* the pending subscriptions whose completionFuture was rejected
  creator,      \* the stream whose request made the pending subscription
  controllers,  \* streamControllers of an active subscription
  trackOf,      \* the track a stream was opened on
  call,         \* how far the stream's subscribeRequest is
  stream,       \* the state of the ReadableStream
  aborted,      \* the streams whose abort signal has fired
  watching,     \* the calls whose listener for abort and timeout is attached
  timers,       \* the calls whose subscribe timeout is armed
  link,         \* this client's own session with the SFU
  issued,       \* the SIDs issued so far
  told,         \* the SIDs the SFU was last told to subscribe this client to
  strays        \* history: tracks whose subscription outlived a call that ended
                \* before the subscription was handed to it

trackVars  == <<descriptors, sid, sub, handle, index, controllers>>
futureVars == <<requests, rejected, creator>>
callVars   == <<trackOf, call, watching, timers>>
appVars    == <<stream, aborted>>
sfuVars    == <<link, issued, told>>
vars == <<trackVars, futureVars, callVars, appVars, sfuVars, strays>>

Init ==
  /\ descriptors = {} /\ sid = [t \in Tracks |-> None]
  /\ sub = [t \in Tracks |-> "none"] /\ handle = [t \in Tracks |-> NoHandle]
  /\ index = [h \in Handles |-> None]
  /\ controllers = [t \in Tracks |-> {}]
  /\ requests = [t \in Tracks |-> 0] /\ rejected = {}
  /\ creator = [t \in Tracks |-> None]
  /\ trackOf = [s \in Streams |-> None]
  /\ call = [s \in Streams |-> "idle"] /\ watching = {} /\ timers = {}
  /\ stream = [s \in Streams |-> "readable"] /\ aborted = {}
  /\ link = "up" /\ issued = 0 /\ told = {} /\ strays = {}

-----------------------------------------------------------------------------
(* What the handlers share                                                 *)

\* Promise continuations run before the next message, timer or other event.
Drained == \A s \in Streams : call[s] \notin {"resolved", "failed"}

Waiting(t) == {s \in Streams : trackOf[s] = t /\ call[s] = "waiting"}

\* Requests the client sends while its session is gone are dropped.
Tell(off, on) ==
  told' = IF link = "down" THEN told ELSE (told \ off) \cup on

\* A stream that has already ended is left as it is.
Ended(S, how) ==
  [s \in Streams |-> IF s \in S /\ stream[s] = "readable" THEN how ELSE stream[s]]

\* The completion future of each track in T is rejected.
Rejecting(T) ==
  [s \in Streams |-> IF \E t \in T : s \in Waiting(t) THEN "failed" ELSE call[s]]

\* The routes of the tracks in T are dropped from the index.
Unrouted(T) ==
  [h \in Handles |-> IF \E t \in T : handle[t] = h THEN None ELSE index[h]]

\* The streams fed by the tracks in T.
FedBy(T) == UNION {controllers[t] : t \in T}

\* unSubscribeRequest for the active tracks in T
Unsubscribe(T) ==
  /\ sub' = [t \in Tracks |-> IF t \in T THEN "none" ELSE sub[t]]
  /\ controllers' = [t \in Tracks |-> IF t \in T THEN {} ELSE controllers[t]]
  /\ handle' = [t \in Tracks |-> IF t \in T THEN NoHandle ELSE handle[t]]
  /\ index' = Unrouted(T)

\* Mutant: the last stream to end does not give the subscription back.
CleanupKeeps(s, how) ==
  LET t == trackOf[s] IN
  /\ stream' = Ended({s}, how)
  /\ IF t \in descriptors /\ sub[t] = "active"
     THEN controllers' = [controllers EXCEPT ![t] = @ \ {s}] ELSE UNCHANGED controllers
  /\ UNCHANGED <<descriptors, sid, sub, handle, index, told>>

\* The stream s, which is ending, lets go of its track; the last one to do so
\* gives the subscription back.
Cleanup(s, how) ==
  LET t == trackOf[s] IN
  /\ stream' = Ended({s}, how)
  /\ IF t \notin descriptors \/ sub[t] # "active"
     THEN UNCHANGED <<trackVars, told>>
     ELSE IF controllers[t] \subseteq {s}
     THEN Unsubscribe({t}) /\ Tell({sid[t]}, {}) /\ UNCHANGED <<descriptors, sid>>
     ELSE /\ controllers' = [controllers EXCEPT ![t] = @ \ {s}]
          /\ UNCHANGED <<descriptors, sid, sub, handle, index, told>>

\* cancel() of a pending subscription.
CancelPending(t) ==
  /\ sub' = [sub EXCEPT ![t] = "none"]
  /\ requests' = [requests EXCEPT ![t] = 0]
  /\ creator' = [creator EXCEPT ![t] = None]
  /\ rejected' = rejected \ {t}
  /\ call' = Rejecting({t})
  /\ Tell({sid[t]}, {})
-----------------------------------------------------------------------------
(* The application opens streams                                           *)

Opens(s, t) ==
  /\ call[s] = "idle" /\ \A r \in 1..s-1 : call[r] # "idle"
  /\ sid[t] # None
  /\ trackOf' = [trackOf EXCEPT ![s] = t]

\* The track is no longer published: the request throws.
SubscribeUnknown(s, t) ==
  /\ Opens(s, t) /\ t \notin descriptors
  /\ call' = [call EXCEPT ![s] = "failed"]
  /\ UNCHANGED <<trackVars, futureVars, watching, timers, appVars, sfuVars, strays>>

\* The first request asks the SFU and arms the timeout.
SubscribeFirst(s, t) ==
  /\ Opens(s, t) /\ t \in descriptors /\ sub[t] = "none"
  /\ call' = [call EXCEPT ![s] = "waiting"]
  /\ watching' = watching \cup {s} /\ timers' = timers \cup {s}
  /\ sub' = [sub EXCEPT ![t] = "pending"]
  /\ requests' = [requests EXCEPT ![t] = 1]
  /\ creator' = [creator EXCEPT ![t] = s]
  /\ Tell({}, {sid[t]})
  /\ UNCHANGED <<descriptors, sid, handle, index, controllers, rejected, appVars, link, issued, strays>>

\* A later one waits on the same future, which may have been rejected already.
SubscribeJoining(s, t) ==
  /\ Opens(s, t) /\ t \in descriptors /\ sub[t] = "pending"
  /\ call' = [call EXCEPT ![s] = IF t \in rejected THEN "failed" ELSE "waiting"]
  /\ watching' = watching \cup {s}
  /\ requests' = [requests EXCEPT ![t] = @ + 1]
  /\ UNCHANGED <<trackVars, rejected, creator, timers, appVars, sfuVars, strays>>

SubscribeActive(s, t) ==
  /\ Opens(s, t) /\ t \in descriptors /\ sub[t] = "active"
  /\ call' = [call EXCEPT ![s] = "resolved"]
  /\ UNCHANGED <<trackVars, futureVars, watching, timers, appVars, sfuVars, strays>>

\* Mutant: the stream is attached without another look at the subscription.
OpenedUnchecked(s) ==
  /\ call[s] = "resolved"
  /\ call' = [call EXCEPT ![s] = "settled"]
  /\ watching' = watching \ {s} /\ timers' = timers \ {s}
  /\ controllers' = [controllers EXCEPT ![trackOf[s]] = @ \cup {s}]
  /\ UNCHANGED <<descriptors, sid, sub, handle, index, stream, told>>
  /\ UNCHANGED <<futureVars, trackOf, aborted, link, issued, strays>>

\* The continuation of a request that resolved: the stream joins the ones the
\* frames are handed to, unless the subscription ended or its signal fired
\* in between.
Opened(s) ==
  LET t == trackOf[s] IN
  /\ call[s] = "resolved"
  /\ call' = [call EXCEPT ![s] = "settled"]
  /\ watching' = watching \ {s} /\ timers' = timers \ {s}
  /\ \/ /\ t \notin descriptors \/ sub[t] # "active"
        /\ stream' = Ended({s}, "errored")
        /\ UNCHANGED <<trackVars, told>>
     \/ /\ t \in descriptors /\ sub[t] = "active" /\ s \in aborted
        /\ Cleanup(s, "errored")
     \/ /\ t \in descriptors /\ sub[t] = "active" /\ s \notin aborted
        /\ controllers' = [controllers EXCEPT ![t] = @ \cup {s}]
        /\ UNCHANGED <<descriptors, sid, sub, handle, index, stream, told>>
  /\ UNCHANGED <<futureVars, trackOf, aborted, link, issued, strays>>

\* The continuation of a request that was rejected.  Its listener stays.
Failed(s) ==
  /\ call[s] = "failed"
  /\ call' = [call EXCEPT ![s] = "settled"]
  /\ stream' = Ended({s}, "errored")
  /\ UNCHANGED <<trackVars, futureVars, trackOf, watching, timers, aborted, sfuVars, strays>>
-----------------------------------------------------------------------------
(* Abort, cancel and timeout                                               *)

\* Mutant: the timeout withdraws one request, like an abort.
WithdrawsOne(s, timedOut) ==
  LET t == trackOf[s] IN
  /\ s \in watching
  /\ watching' = watching \ {s} /\ timers' = timers \ {s}
  /\ \/ /\ sub[t] # "pending"
        /\ UNCHANGED <<sub, futureVars, call, told>>
     \/ /\ sub[t] = "pending" /\ requests[t] <= 1
        /\ CancelPending(t)
     \/ /\ sub[t] = "pending" /\ requests[t] > 1
        /\ requests' = [requests EXCEPT ![t] = @ - 1]
        /\ call' = [call EXCEPT ![s] = IF @ = "waiting" THEN "failed" ELSE @]
        /\ UNCHANGED <<sub, creator, rejected, told>>
  /\ UNCHANGED <<descriptors, sid, handle, index, controllers, trackOf, stream, link, issued, strays>>

\* The listener of s withdraws one request from whatever subscription is
\* pending on the track by now.  The last one to withdraw cancels it.
Withdraws(s, timedOut) ==
  LET t == trackOf[s] IN
  /\ s \in watching
  /\ watching' = watching \ {s} /\ timers' = timers \ {s}
  /\ \/ /\ sub[t] # "pending"
        /\ UNCHANGED <<sub, futureVars, call, told>>
     \/ /\ sub[t] = "pending" /\ (timedOut \/ requests[t] <= 1)
        /\ CancelPending(t)
     \/ /\ sub[t] = "pending" /\ ~timedOut /\ requests[t] > 1
        /\ requests' = [requests EXCEPT ![t] = @ - 1]
        /\ call' = [call EXCEPT ![s] = IF @ = "waiting" THEN "failed" ELSE @]
        /\ UNCHANGED <<sub, creator, rejected, told>>
  /\ UNCHANGED <<descriptors, sid, handle, index, controllers, trackOf, stream, link, issued, strays>>

\* The application fires the signal it gave the stream.
Fires(s) == call[s] # "idle" /\ s \notin aborted /\ aborted' = aborted \cup {s}

AbortWaiting(s) == Fires(s) /\ Withdraws(s, FALSE)

AbortOpen(s) ==
  /\ Fires(s) /\ s \notin watching
  /\ s \in controllers[trackOf[s]]
  /\ Cleanup(s, "errored")
  /\ UNCHANGED <<futureVars, callVars, link, issued, strays>>

AbortUnheard(s) ==
  /\ Fires(s) /\ s \notin watching
  /\ s \notin controllers[trackOf[s]]
  /\ UNCHANGED <<trackVars, futureVars, callVars, stream, sfuVars, strays>>

\* The application cancels the reader.  Nothing withdraws a request that is
\* still on its way.
Cancel(s) ==
  /\ call[s] # "idle" /\ stream[s] = "readable"
  /\ Cleanup(s, "closed")
  /\ strays' = IF call[s] \in {"waiting", "resolved"}
               THEN strays \cup {trackOf[s]} ELSE strays
  /\ UNCHANGED <<futureVars, callVars, aborted, link, issued>>

\* SUBSCRIBE_TIMEOUT_MILLISECONDS have passed since the request of s.
SubscribeTimeout(s) ==
  /\ Drained /\ s \in timers
  /\ Withdraws(s, TRUE)
  /\ UNCHANGED aborted
-----------------------------------------------------------------------------
(* Messages of the SFU                                                     *)

\* Assumption: the SFU gives a handle to another track only after the client
\* has let go of it.
Assignable(h, t) == \A u \in descriptors \ {t} : sub[u] = "active" => handle[u] # h

\* registerSubscriberHandle for a track the manager knows.
HandleActivates(h, t) ==
  /\ sub[t] = "pending"
  /\ sub' = [sub EXCEPT ![t] = "active"]
  /\ controllers' = [controllers EXCEPT ![t] = {}]
  /\ handle' = [handle EXCEPT ![t] = h]
  /\ index' = [index EXCEPT ![h] = sid[t]]
  /\ call' = [s \in Streams |-> IF s \in Waiting(t) THEN "resolved" ELSE call[s]]
  /\ requests' = [requests EXCEPT ![t] = 0]
  /\ creator' = [creator EXCEPT ![t] = None]
  /\ rejected' = rejected \ {t}

HandleReplaced(h, t) ==
  /\ sub[t] = "active"
  /\ handle' = [handle EXCEPT ![t] = h]
  /\ index' = [Unrouted({t}) EXCEPT ![h] = sid[t]]
  /\ UNCHANGED <<sub, controllers, call, futureVars>>

SubscriberHandle(h, t) ==
  /\ Drained /\ link # "down"
  /\ t \in descriptors /\ Assignable(h, t)
  /\ HandleActivates(h, t) \/ HandleReplaced(h, t)
  /\ UNCHANGED <<descriptors, sid, trackOf, watching, timers, appVars, sfuVars, strays>>

\* Tracks leave the map with their streams closed; what was pending on them
\* goes on waiting.
Unpublish(T) ==
  LET active == {t \in T : sub[t] = "active"} IN
  /\ stream' = Ended(FedBy(active), "closed")
  /\ controllers' = [t \in Tracks |-> IF t \in active THEN {} ELSE controllers[t]]

\* receiveSfuPublicationUpdates.  An update lists all the tracks of a publisher
\* and changes of them what these three do; the changes of one update are
\* independent, so an update of several is one of each after the other.
NextSid == issued < MaxSids /\ issued' = issued + 1

TrackPublished(t) ==
  /\ Drained /\ link # "down" /\ NextSid
  /\ sid[t] = None /\ \A u \in 1..t-1 : sid[u] # None
  /\ descriptors' = descriptors \cup {t}
  /\ sid' = [sid EXCEPT ![t] = issued + 1]
  /\ UNCHANGED <<sub, handle, index, controllers, futureVars, callVars, appVars, link, told, strays>>

\* The publisher went through a full reconnect: its track has another SID, and
\* what was asked for under the old one is asked for again.
SidReassigned(t) ==
  /\ Drained /\ link # "down" /\ NextSid
  /\ t \in descriptors
  /\ sid' = [sid EXCEPT ![t] = issued + 1]
  /\ Tell({}, IF sub[t] # "none" THEN {issued + 1} ELSE {})
  /\ index' = IF sub[t] = "active" THEN [index EXCEPT ![handle[t]] = issued + 1] ELSE index
  /\ UNCHANGED <<descriptors, sub, handle, controllers, futureVars, callVars, appVars, link, strays>>

TrackUnpublished(t) ==
  /\ Drained /\ link # "down"
  /\ t \in descriptors /\ descriptors' = descriptors \ {t}
  /\ Unpublish({t})
  /\ index' = IF sub[t] = "active" THEN Unrouted({t}) ELSE index
  /\ UNCHANGED <<sid, sub, handle, futureVars, callVars, aborted, sfuVars, strays>>

\* handleRemoteParticipantDisconnected for the publishers in P: active
\* subscriptions are given back; pending ones have their future rejected and
\* stay pending.
PublishersLeft(P) ==
  LET theirs == {t \in descriptors : PublisherOf[t] \in P}
      active == {t \in theirs : sub[t] = "active"}
      pending == {t \in theirs : sub[t] = "pending"}
  IN
  /\ Unsubscribe(active) /\ stream' = Ended(FedBy(active), "closed")
  /\ rejected' = rejected \cup pending
  /\ call' = Rejecting(pending)
  /\ strays' = strays \cup pending

\* A publisher leaves.  The update that says so can still list its tracks; if
\* it does not, they are unpublished next.
ParticipantDisconnected(p) ==
  /\ Drained /\ link # "down"
  /\ PublishersLeft({p})
  /\ Tell({sid[t] : t \in {u \in descriptors : PublisherOf[u] = p /\ sub[u] = "active"}}, {})
  /\ UNCHANGED <<descriptors, sid, requests, creator, trackOf, watching, timers, aborted, link, issued>>
-----------------------------------------------------------------------------
(* This client's own session                                               *)

\* Room.handleRestarting: every participant is unwound and the old session,
\* with all that the SFU was told in it, is gone.
Restarting ==
  /\ Drained
  /\ PublishersLeft(Publishers)
  /\ link' = "down" /\ told' = {}
  /\ UNCHANGED <<descriptors, sid, requests, creator, trackOf, watching, timers, aborted, issued>>

SignalRestarted ==
  /\ Drained /\ link = "down" /\ link' = "joined"
  /\ UNCHANGED <<trackVars, futureVars, callVars, appVars, issued, told, strays>>

\* resendSubscriptionUpdates
Restarted ==
  /\ Drained /\ link = "joined" /\ link' = "up"
  /\ told' = told \cup {sid[t] : t \in {u \in descriptors : sub[u] # "none"}}
  /\ UNCHANGED <<trackVars, futureVars, callVars, appVars, issued, strays>>

\* The room is disconnected: reset().  The next connect is a new session.
Reset ==
  /\ Drained /\ descriptors # {}
  /\ descriptors' = {} /\ index' = [h \in Handles |-> None]
  /\ Unpublish(descriptors)
  /\ rejected' = rejected \cup {t \in descriptors : sub[t] = "pending"}
  /\ call' = Rejecting({t \in descriptors : sub[t] = "pending"})
  /\ link' = "up" /\ told' = {}
  /\ UNCHANGED <<sid, sub, handle, requests, creator, trackOf, watching, timers, aborted, issued, strays>>
-----------------------------------------------------------------------------
Application ==
  \E s \in Streams :
    \/ \E t \in Tracks : \/ SubscribeUnknown(s, t) \/ SubscribeFirst(s, t)
                         \/ SubscribeJoining(s, t) \/ SubscribeActive(s, t)
    \/ AbortWaiting(s) \/ AbortOpen(s) \/ AbortUnheard(s)
    \/ Cancel(s)

Continuation == \E s \in Streams : Opened(s) \/ Failed(s)

Server ==
  \/ \E h \in Handles, t \in Tracks : SubscriberHandle(h, t)
  \/ \E t \in Tracks : TrackPublished(t) \/ SidReassigned(t) \/ TrackUnpublished(t)
  \/ \E p \in Publishers : ParticipantDisconnected(p)

Session == Restarting \/ SignalRestarted \/ Restarted \/ Reset

Next ==
  \/ Application
  \/ Continuation
  \/ \E s \in Streams : SubscribeTimeout(s)
  \/ Server
  \/ Session

Spec == Init /\ [][Next]_vars

\* Promises settle and timers fire.  The SFU owes the client nothing.
Fairness ==
  /\ \A s \in Streams : WF_vars(Opened(s) \/ Failed(s))
  /\ \A s \in Streams : WF_vars(SubscribeTimeout(s))

FairSpec == Spec /\ Fairness
-----------------------------------------------------------------------------
TrackTypes ==
  /\ descriptors \subseteq Tracks
  /\ sid \in [Tracks -> 0..MaxSids]
  /\ sub \in [Tracks -> {"none", "pending", "active"}]
  /\ handle \in [Tracks -> Handles \cup {NoHandle}]
  /\ index \in [Handles -> 0..MaxSids]
  /\ controllers \in [Tracks -> SUBSET Streams]
  /\ requests \in [Tracks -> Nat]
  /\ creator \in [Tracks -> Streams \cup {None}]

SfuTypes ==
  /\ issued \in 0..MaxSids /\ told \subseteq 1..issued
  /\ link \in {"up", "down", "joined"}

StreamTypes ==
  /\ trackOf \in [Streams -> Tracks \cup {None}]
  /\ call \in [Streams -> {"idle", "waiting", "resolved", "failed", "settled"}]
  /\ watching \subseteq Streams /\ timers \subseteq watching
  /\ stream \in [Streams -> {"readable", "closed", "errored"}]
  /\ aborted \subseteq Streams /\ strays \subseteq Tracks

\* What belongs to a pending subscription is there exactly while one is
\* pending, a handle and streams only while one is active.
SubscriptionState ==
  /\ rejected \subseteq {t \in Tracks : sub[t] = "pending"}
  /\ \A t \in Tracks :
       /\ sub[t] = "pending" <=> creator[t] # None
       /\ sub[t] = "pending" <=> requests[t] > 0
       /\ sub[t] = "active" <=> handle[t] # NoHandle
       /\ controllers[t] # {} => sub[t] = "active" /\ t \in descriptors

\* The manager's state keeps its types, those of the union SubscriptionState
\* included.
TypeOK == TrackTypes /\ SfuTypes /\ StreamTypes /\ SubscriptionState

\* A packet finds its subscription: the handle of every active subscription is
\* routed to the track's present SID, and no other handle is routed anywhere
\* (the two indices of the manager through reassignment, unpublish and reset).
RoutesAreExact ==
  \A h \in Handles, x \in 1..MaxSids :
    index[h] = x <=> \E t \in descriptors : sub[t] = "active" /\ handle[t] = h /\ sid[t] = x

\* A stream the application can still read from is handed the frames of a
\* subscription that is active: no reader waits for a stream that nobody feeds
\* and nobody will close (openSubscriptionStream against every teardown).
OpenIsServed ==
  \A s \in Streams : call[s] = "settled" /\ stream[s] = "readable" =>
    /\ trackOf[s] \in descriptors /\ sub[trackOf[s]] = "active"
    /\ s \in controllers[trackOf[s]]

\* The SFU was last told of each published track what the manager believes:
\* through cancels, reassigned SIDs and a full reconnect that forgets it all.
SfuAgrees ==
  \A t \in descriptors :
    /\ sid[t] \in told => sub[t] # "none"
    /\ link = "up" /\ sub[t] # "none" => sid[t] \in told

\* Packets, readers and the SFU: the manager's state is sound towards each of them.
SubscriptionsAreSound == TypeOK /\ RoutesAreExact /\ OpenIsServed /\ SfuAgrees

\* An active subscription is somebody's: a readable stream is attached to it or
\* about to be.  The tracks in strays are the holes: cancelling a stream whose
\* request is on its way, and a publisher that leaves while one is pending.
ActiveIsWanted ==
  \A t \in descriptors \ strays : sub[t] = "active" =>
    \E s \in Streams : /\ trackOf[s] = t /\ stream[s] = "readable"
                      /\ (s \in controllers[t] \/ call[s] = "resolved")

\* A request is answered although the SFU stays silent, unless the one that
\* made the subscription, and holds its timeout, was aborted by itself.
SubscribeSettles ==
  \A s \in Streams :
    call[s] = "waiting" ~> call[s] # "waiting" \/ creator[trackOf[s]] \in aborted
=============================================================================

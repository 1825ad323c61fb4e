------------------------------- MODULE DataTracks_proofs -------------------------------
(***************************************************************************)
(* Proofs about the data tracks of both directions, for any number of tracks, *)
(* publications, streams, SIDs, handles and packets and for every workload.  *)
(*                                                                         *)
(* DataTrackSubscriptions: the routing index is exact, every readable stream *)
(* is attached to an active subscription, the SFU and the manager agree on   *)
(* what is subscribed to, and every active subscription is somebody's.       *)
(*                                                                         *)
(* OutgoingDataTracks, below: the page and the server agree on the tracks    *)
(* published (PublicationsAgree). What is on the way makes up for what the   *)
(* two do not have in common: that is Meets, the part that makes the         *)
(* agreement inductive. It rests on the order of the messages about a handle *)
(* (InOrder), which holds because a session gives a handle out once (Fresh), *)
(* and on who waits for which descriptor (Owned).                           *)
(***************************************************************************)

EXTENDS DataTrackSubscriptions, OutgoingDataTracks, SequenceTheorems, FiniteSetTheorems, WellFoundedInduction, TLAPS

\* No two tracks share a SID, and a track that was never published has no
\* subscription.
SidsAreNames ==
  /\ \A t, u \in Tracks : sid[t] # None /\ sid[t] = sid[u] => t = u
  /\ \A t \in Tracks : /\ sid[t] <= issued
                       /\ t \in descriptors => sid[t] # None
                       /\ sid[t] = None => sub[t] = "none"

\* A stream was opened on a track, and is attached to that track only, once its
\* request is settled.
AttachedToOwn ==
  /\ \A s \in Streams : call[s] # "idle" \/ s \in watching => trackOf[s] \in Tracks
  /\ \A s \in Streams, t \in Tracks :
       s \in controllers[t] => trackOf[s] = t /\ call[s] = "settled"

\* An SFU session that is gone has been told nothing.
DownIsForgotten == link = "down" => told = {}

IInv ==
  /\ TypeOK /\ SidsAreNames /\ AttachedToOwn /\ DownIsForgotten
  /\ RoutesAreExact /\ OpenIsServed /\ SfuAgrees
-----------------------------------------------------------------------------
\* All that the proofs need to know of the numbering.
LEMMA Numbers == /\ None \notin Tracks /\ None \notin Streams
                 /\ None \in 0..MaxSids /\ None = 0
                 /\ MaxSids \in Nat
                 /\ NoHandle \notin Handles
  BY BoundsAssumption, AbsentAssumption DEF Tracks, Streams, None

\* The manager starts in the invariant: nothing published, nothing told.
LEMMA InitInv == Init => IInv
  <1> SUFFICES ASSUME Init PROVE IInv
    OBVIOUS
  <1> USE Numbers DEF Init
  <1>1. RoutesAreExact /\ OpenIsServed /\ SfuAgrees
    BY DEF RoutesAreExact, OpenIsServed, SfuAgrees
  <1> QED
    BY <1>1
      DEF IInv, TypeOK, TrackTypes, SfuTypes, StreamTypes, SubscriptionState, SidsAreNames, AttachedToOwn,
          DownIsForgotten

\* The fields of the descriptors and the index keep their types.
LEMMA TrackTypesStep == IInv /\ [Next]_vars => TrackTypes'
  <1> SUFFICES ASSUME IInv, [Next]_vars PROVE TrackTypes'
    OBVIOUS
  <1> USE Numbers DEF IInv, TypeOK, TrackTypes, SfuTypes, StreamTypes, AttachedToOwn,
          trackVars, futureVars, callVars, appVars, sfuVars
  <1>1. ASSUME NEW s \in Streams, NEW t \in Tracks, SubscribeUnknown(s, t) PROVE TrackTypes'
    BY <1>1 DEF SubscribeUnknown
  <1>2. ASSUME NEW s \in Streams, NEW t \in Tracks, SubscribeFirst(s, t) PROVE TrackTypes'
    BY <1>2 DEF SubscribeFirst
  <1>3. ASSUME NEW s \in Streams, NEW t \in Tracks, SubscribeJoining(s, t) PROVE TrackTypes'
    BY <1>3 DEF SubscribeJoining
  <1>4. ASSUME NEW s \in Streams, NEW t \in Tracks, SubscribeActive(s, t) PROVE TrackTypes'
    BY <1>4 DEF SubscribeActive
  <1>5. ASSUME NEW s \in Streams, Opened(s) PROVE TrackTypes'
    BY <1>5 DEF Opened, Cleanup, Unsubscribe, Unrouted
  <1>6. ASSUME NEW s \in Streams, Failed(s) PROVE TrackTypes'
    BY <1>6 DEF Failed
  <1>7. ASSUME NEW s \in Streams, AbortWaiting(s) PROVE TrackTypes'
    BY <1>7 DEF AbortWaiting, Withdraws, CancelPending
  <1>8. ASSUME NEW s \in Streams, AbortOpen(s) PROVE TrackTypes'
    BY <1>8 DEF AbortOpen, Cleanup, Unsubscribe, Unrouted
  <1>9. ASSUME NEW s \in Streams, AbortUnheard(s) PROVE TrackTypes'
    BY <1>9 DEF AbortUnheard
  <1>10. ASSUME NEW s \in Streams, Cancel(s) PROVE TrackTypes'
    BY <1>10 DEF Cancel, Cleanup, Unsubscribe, Unrouted
  <1>11. ASSUME NEW s \in Streams, SubscribeTimeout(s) PROVE TrackTypes'
    BY <1>11 DEF SubscribeTimeout, Withdraws, CancelPending
  <1>12. ASSUME NEW h \in Handles, NEW t \in Tracks, SubscriberHandle(h, t) PROVE TrackTypes'
    <2> USE <1>12 DEF SubscriberHandle, HandleActivates, HandleReplaced
    <2>1. index' \in [Handles -> 0..MaxSids]
      <3> DEFINE R == Unrouted({t})
      <3>1. R \in [Handles -> 0..MaxSids]
        BY DEF Unrouted
      <3>2. index' = [index EXCEPT ![h] = sid[t]] \/ index' = [R EXCEPT ![h] = sid[t]]
        OBVIOUS
      <3> HIDE DEF R
      <3> QED
        BY <3>1, <3>2
    <2>2. controllers' \in [Tracks -> SUBSET Streams]
      OBVIOUS
    <2>3. requests' \in [Tracks -> Nat] /\ creator' \in [Tracks -> Streams \cup {None}]
      OBVIOUS
    <2> QED
      BY <2>1, <2>2, <2>3
  <1>13. ASSUME NEW t \in Tracks, TrackPublished(t) PROVE TrackTypes'
    BY <1>13 DEF TrackPublished, NextSid
  <1>14. ASSUME NEW t \in Tracks, SidReassigned(t) PROVE TrackTypes'
    BY <1>14 DEF SidReassigned, NextSid, SubscriptionState
  <1>15. ASSUME NEW t \in Tracks, TrackUnpublished(t) PROVE TrackTypes'
    BY <1>15 DEF TrackUnpublished, Unpublish, Unrouted
  <1>16. ASSUME NEW p \in Publishers, ParticipantDisconnected(p) PROVE TrackTypes'
    BY <1>16 DEF ParticipantDisconnected, PublishersLeft, Unsubscribe, Unrouted
  <1>17. ASSUME Restarting PROVE TrackTypes'
    BY <1>17 DEF Restarting, PublishersLeft, Unsubscribe, Unrouted
  <1>18. ASSUME SignalRestarted PROVE TrackTypes'
    BY <1>18 DEF SignalRestarted
  <1>19. ASSUME Restarted PROVE TrackTypes'
    BY <1>19 DEF Restarted
  <1>20. ASSUME Reset PROVE TrackTypes'
    BY <1>20 DEF Reset, Unpublish
  <1>21. ASSUME UNCHANGED vars PROVE TrackTypes'
    BY <1>21 DEF vars
  <1> QED
    BY <1>1, <1>2, <1>3, <1>4, <1>5, <1>6, <1>7, <1>8, <1>9, <1>10, <1>11, <1>12, <1>13,
       <1>14, <1>15, <1>16, <1>17, <1>18, <1>19, <1>20, <1>21
       DEF Next, Application, Continuation, Server, Session

\* So does the view of the SFU.
LEMMA SfuTypesStep == IInv /\ [Next]_vars => SfuTypes'
  <1> SUFFICES ASSUME IInv, [Next]_vars PROVE SfuTypes'
    OBVIOUS
  <1> USE Numbers DEF IInv, TypeOK, TrackTypes, SfuTypes, StreamTypes, AttachedToOwn, SidsAreNames,
          trackVars, futureVars, callVars, appVars, sfuVars
  <1>1. \A t \in Tracks : sid[t] # None => sid[t] \in 1..issued
    BY DEF SidsAreNames
  <1>2. ASSUME NEW s \in Streams, NEW t \in Tracks, SubscribeUnknown(s, t) PROVE SfuTypes'
    BY <1>2 DEF SubscribeUnknown
  <1>3. ASSUME NEW s \in Streams, NEW t \in Tracks, SubscribeFirst(s, t) PROVE SfuTypes'
    <2>1. told' \subseteq told \cup {sid[t]} /\ UNCHANGED <<link, issued>>
      BY <1>3 DEF SubscribeFirst, Tell
    <2> QED
      BY <2>1, <1>1, <1>3 DEF SubscribeFirst, Opens
  <1>4. ASSUME NEW s \in Streams, NEW t \in Tracks, SubscribeJoining(s, t) PROVE SfuTypes'
    BY <1>4 DEF SubscribeJoining
  <1>5. ASSUME NEW s \in Streams, NEW t \in Tracks, SubscribeActive(s, t) PROVE SfuTypes'
    BY <1>5 DEF SubscribeActive
  <1>6. ASSUME NEW s \in Streams, Opened(s) PROVE SfuTypes'
    <2>1. told' \subseteq told /\ UNCHANGED <<link, issued>>
      BY <1>6 DEF Opened, Cleanup, Tell
    <2> QED
      BY <2>1
  <1>7. ASSUME NEW s \in Streams, Failed(s) PROVE SfuTypes'
    BY <1>7 DEF Failed
  <1>8. ASSUME NEW s \in Streams, AbortWaiting(s) PROVE SfuTypes'
    BY <1>8 DEF AbortWaiting, Withdraws, CancelPending, Tell
  <1>9. ASSUME NEW s \in Streams, AbortOpen(s) PROVE SfuTypes'
    <2>1. told' \subseteq told /\ UNCHANGED <<link, issued>>
      BY <1>9 DEF AbortOpen, Fires, Cleanup, Tell
    <2> QED
      BY <2>1
  <1>10. ASSUME NEW s \in Streams, AbortUnheard(s) PROVE SfuTypes'
    BY <1>10 DEF AbortUnheard
  <1>11. ASSUME NEW s \in Streams, Cancel(s) PROVE SfuTypes'
    <2>1. told' \subseteq told /\ UNCHANGED <<link, issued>>
      BY <1>11 DEF Cancel, Cleanup, Tell
    <2> QED
      BY <2>1
  <1>12. ASSUME NEW s \in Streams, SubscribeTimeout(s) PROVE SfuTypes'
    BY <1>12 DEF SubscribeTimeout, Withdraws, CancelPending, Tell
  <1>13. ASSUME NEW h \in Handles, NEW t \in Tracks, SubscriberHandle(h, t) PROVE SfuTypes'
    BY <1>13 DEF SubscriberHandle
  <1>14. ASSUME NEW t \in Tracks, TrackPublished(t) PROVE SfuTypes'
    BY <1>14 DEF TrackPublished, NextSid
  <1>15. ASSUME NEW t \in Tracks, SidReassigned(t) PROVE SfuTypes'
    BY <1>15 DEF SidReassigned, NextSid, Tell
  <1>16. ASSUME NEW t \in Tracks, TrackUnpublished(t) PROVE SfuTypes'
    BY <1>16 DEF TrackUnpublished
  <1>17. ASSUME NEW p \in Publishers, ParticipantDisconnected(p) PROVE SfuTypes'
    BY <1>17 DEF ParticipantDisconnected, Tell
  <1>18. ASSUME Restarting PROVE SfuTypes'
    BY <1>18 DEF Restarting
  <1>19. ASSUME SignalRestarted PROVE SfuTypes'
    BY <1>19 DEF SignalRestarted
  <1>20. ASSUME Restarted PROVE SfuTypes'
    <2>1. \A t \in descriptors : sid[t] \in 1..issued
      BY <1>1 DEF SidsAreNames
    <2>2. told' = told \cup {sid[t] : t \in {u \in descriptors : sub[u] # "none"}}
      BY <1>20 DEF Restarted
    <2>3. ASSUME NEW x \in told' PROVE x \in 1..issued
      BY <2>2, <2>1
    <2> QED
      BY <1>20, <2>3 DEF Restarted
  <1>21. ASSUME Reset PROVE SfuTypes'
    BY <1>21 DEF Reset
  <1>22. ASSUME UNCHANGED vars PROVE SfuTypes'
    BY <1>22 DEF vars
  <1> QED
    BY <1>2, <1>3, <1>4, <1>5, <1>6, <1>7, <1>8, <1>9, <1>10, <1>11, <1>12, <1>13, <1>14,
       <1>15, <1>16, <1>17, <1>18, <1>19, <1>20, <1>21, <1>22
       DEF Next, Application, Continuation, Server, Session

\* And the application's streams.
LEMMA StreamTypesStep == IInv /\ [Next]_vars => StreamTypes'
  <1> SUFFICES ASSUME IInv, [Next]_vars PROVE StreamTypes'
    OBVIOUS
  <1> USE Numbers DEF IInv, TypeOK, TrackTypes, StreamTypes, AttachedToOwn,
          trackVars, futureVars, callVars, appVars, sfuVars
  <1>1. ASSUME NEW s \in Streams, NEW t \in Tracks, SubscribeUnknown(s, t) PROVE StreamTypes'
    BY <1>1 DEF SubscribeUnknown, Opens
  <1>2. ASSUME NEW s \in Streams, NEW t \in Tracks, SubscribeFirst(s, t) PROVE StreamTypes'
    BY <1>2 DEF SubscribeFirst, Opens
  <1>3. ASSUME NEW s \in Streams, NEW t \in Tracks, SubscribeJoining(s, t) PROVE StreamTypes'
    BY <1>3 DEF SubscribeJoining, Opens
  <1>4. ASSUME NEW s \in Streams, NEW t \in Tracks, SubscribeActive(s, t) PROVE StreamTypes'
    BY <1>4 DEF SubscribeActive, Opens
  <1>5. ASSUME NEW s \in Streams, Opened(s) PROVE StreamTypes'
    BY <1>5 DEF Opened, Cleanup, Ended
  <1>6. ASSUME NEW s \in Streams, Failed(s) PROVE StreamTypes'
    BY <1>6 DEF Failed, Ended
  <1>7. ASSUME NEW s \in Streams, AbortWaiting(s) PROVE StreamTypes'
    BY <1>7 DEF AbortWaiting, Fires, Withdraws, CancelPending, Rejecting
  <1>8. ASSUME NEW s \in Streams, AbortOpen(s) PROVE StreamTypes'
    BY <1>8 DEF AbortOpen, Fires, Cleanup, Ended
  <1>9. ASSUME NEW s \in Streams, AbortUnheard(s) PROVE StreamTypes'
    BY <1>9 DEF AbortUnheard, Fires
  <1>10. ASSUME NEW s \in Streams, Cancel(s) PROVE StreamTypes'
    BY <1>10 DEF Cancel, Cleanup, Ended
  <1>11. ASSUME NEW s \in Streams, SubscribeTimeout(s) PROVE StreamTypes'
    BY <1>11 DEF SubscribeTimeout, Withdraws, CancelPending, Rejecting
  <1>12. ASSUME NEW h \in Handles, NEW t \in Tracks, SubscriberHandle(h, t) PROVE StreamTypes'
    BY <1>12 DEF SubscriberHandle, HandleActivates, HandleReplaced
  <1>13. ASSUME NEW t \in Tracks, TrackPublished(t) PROVE StreamTypes'
    BY <1>13 DEF TrackPublished
  <1>14. ASSUME NEW t \in Tracks, SidReassigned(t) PROVE StreamTypes'
    BY <1>14 DEF SidReassigned
  <1>15. ASSUME NEW t \in Tracks, TrackUnpublished(t) PROVE StreamTypes'
    BY <1>15 DEF TrackUnpublished, Unpublish, Ended
  <1>16. ASSUME NEW p \in Publishers, ParticipantDisconnected(p) PROVE StreamTypes'
    BY <1>16 DEF ParticipantDisconnected, PublishersLeft, Ended, Rejecting
  <1>17. ASSUME Restarting PROVE StreamTypes'
    BY <1>17 DEF Restarting, PublishersLeft, Ended, Rejecting
  <1>18. ASSUME SignalRestarted PROVE StreamTypes'
    BY <1>18 DEF SignalRestarted
  <1>19. ASSUME Restarted PROVE StreamTypes'
    BY <1>19 DEF Restarted
  <1>20. ASSUME Reset PROVE StreamTypes'
    BY <1>20 DEF Reset, Unpublish, Ended, Rejecting
  <1>21. ASSUME UNCHANGED vars PROVE StreamTypes'
    BY <1>21 DEF vars
  <1> QED
    BY <1>1, <1>2, <1>3, <1>4, <1>5, <1>6, <1>7, <1>8, <1>9, <1>10, <1>11, <1>12, <1>13,
       <1>14, <1>15, <1>16, <1>17, <1>18, <1>19, <1>20, <1>21
       DEF Next, Application, Continuation, Server, Session

\* The fields of a pending and of an active subscription come and go with it.
LEMMA SubscriptionStateStep == IInv /\ [Next]_vars => SubscriptionState'
  <1> SUFFICES ASSUME IInv, [Next]_vars PROVE SubscriptionState'
    OBVIOUS
  <1> USE Numbers DEF IInv, TypeOK, TrackTypes, StreamTypes, SubscriptionState, AttachedToOwn, SidsAreNames,
          trackVars, futureVars, callVars, appVars, sfuVars
  <1>1. ASSUME NEW s \in Streams, NEW t \in Tracks, SubscribeUnknown(s, t) PROVE SubscriptionState'
    BY <1>1 DEF SubscribeUnknown
  <1>2. ASSUME NEW s \in Streams, NEW t \in Tracks, SubscribeFirst(s, t) PROVE SubscriptionState'
    BY <1>2 DEF SubscribeFirst
  <1>3. ASSUME NEW s \in Streams, NEW t \in Tracks, SubscribeJoining(s, t) PROVE SubscriptionState'
    BY <1>3 DEF SubscribeJoining
  <1>4. ASSUME NEW s \in Streams, NEW t \in Tracks, SubscribeActive(s, t) PROVE SubscriptionState'
    BY <1>4 DEF SubscribeActive
  <1>5. ASSUME NEW s \in Streams, Opened(s) PROVE SubscriptionState'
    BY <1>5 DEF Opened, Cleanup, Unsubscribe
  <1>6. ASSUME NEW s \in Streams, Failed(s) PROVE SubscriptionState'
    BY <1>6 DEF Failed
  <1>7. ASSUME NEW s \in Streams, AbortWaiting(s) PROVE SubscriptionState'
    BY <1>7 DEF AbortWaiting, Withdraws, CancelPending
  <1>8. ASSUME NEW s \in Streams, AbortOpen(s) PROVE SubscriptionState'
    BY <1>8 DEF AbortOpen, Cleanup, Unsubscribe
  <1>9. ASSUME NEW s \in Streams, AbortUnheard(s) PROVE SubscriptionState'
    BY <1>9 DEF AbortUnheard
  <1>10. ASSUME NEW s \in Streams, Cancel(s) PROVE SubscriptionState'
    BY <1>10 DEF Cancel, Cleanup, Unsubscribe
  <1>11. ASSUME NEW s \in Streams, SubscribeTimeout(s) PROVE SubscriptionState'
    BY <1>11 DEF SubscribeTimeout, Withdraws, CancelPending
  <1>12. ASSUME NEW h \in Handles, NEW t \in Tracks, SubscriberHandle(h, t) PROVE SubscriptionState'
    BY <1>12 DEF SubscriberHandle, HandleActivates, HandleReplaced
  <1>13. ASSUME NEW t \in Tracks, TrackPublished(t) PROVE SubscriptionState'
    BY <1>13 DEF TrackPublished
  <1>14. ASSUME NEW t \in Tracks, SidReassigned(t) PROVE SubscriptionState'
    BY <1>14 DEF SidReassigned
  <1>15. ASSUME NEW t \in Tracks, TrackUnpublished(t) PROVE SubscriptionState'
    BY <1>15 DEF TrackUnpublished, Unpublish
  <1>16. ASSUME NEW p \in Publishers, ParticipantDisconnected(p) PROVE SubscriptionState'
    BY <1>16 DEF ParticipantDisconnected, PublishersLeft, Unsubscribe
  <1>17. ASSUME Restarting PROVE SubscriptionState'
    BY <1>17 DEF Restarting, PublishersLeft, Unsubscribe
  <1>18. ASSUME SignalRestarted PROVE SubscriptionState'
    BY <1>18 DEF SignalRestarted
  <1>19. ASSUME Restarted PROVE SubscriptionState'
    BY <1>19 DEF Restarted
  <1>20. ASSUME Reset PROVE SubscriptionState'
    BY <1>20 DEF Reset, Unpublish
  <1>21. ASSUME UNCHANGED vars PROVE SubscriptionState'
    BY <1>21 DEF vars
  <1> QED
    BY <1>1, <1>2, <1>3, <1>4, <1>5, <1>6, <1>7, <1>8, <1>9, <1>10, <1>11, <1>12, <1>13,
       <1>14, <1>15, <1>16, <1>17, <1>18, <1>19, <1>20, <1>21
       DEF Next, Application, Continuation, Server, Session

\* SIDs stay names.
LEMMA SidsAreNamesStep == IInv /\ [Next]_vars => SidsAreNames'
  <1> SUFFICES ASSUME IInv, [Next]_vars PROVE SidsAreNames'
    OBVIOUS
  <1> USE Numbers DEF IInv, TypeOK, TrackTypes, SfuTypes, StreamTypes, SubscriptionState, SidsAreNames,
          trackVars, futureVars, callVars, appVars, sfuVars
  <1>1. ASSUME NEW s \in Streams, NEW t \in Tracks, SubscribeUnknown(s, t) PROVE SidsAreNames'
    BY <1>1 DEF SubscribeUnknown
  <1>2. ASSUME NEW s \in Streams, NEW t \in Tracks, SubscribeFirst(s, t) PROVE SidsAreNames'
    BY <1>2 DEF SubscribeFirst
  <1>3. ASSUME NEW s \in Streams, NEW t \in Tracks, SubscribeJoining(s, t) PROVE SidsAreNames'
    BY <1>3 DEF SubscribeJoining
  <1>4. ASSUME NEW s \in Streams, NEW t \in Tracks, SubscribeActive(s, t) PROVE SidsAreNames'
    BY <1>4 DEF SubscribeActive
  <1>5. ASSUME NEW s \in Streams, Opened(s) PROVE SidsAreNames'
    BY <1>5 DEF Opened, Cleanup, Unsubscribe
  <1>6. ASSUME NEW s \in Streams, Failed(s) PROVE SidsAreNames'
    BY <1>6 DEF Failed
  <1>7. ASSUME NEW s \in Streams, AbortWaiting(s) PROVE SidsAreNames'
    BY <1>7 DEF AbortWaiting, Withdraws, CancelPending
  <1>8. ASSUME NEW s \in Streams, AbortOpen(s) PROVE SidsAreNames'
    BY <1>8 DEF AbortOpen, Cleanup, Unsubscribe
  <1>9. ASSUME NEW s \in Streams, AbortUnheard(s) PROVE SidsAreNames'
    BY <1>9 DEF AbortUnheard
  <1>10. ASSUME NEW s \in Streams, Cancel(s) PROVE SidsAreNames'
    BY <1>10 DEF Cancel, Cleanup, Unsubscribe
  <1>11. ASSUME NEW s \in Streams, SubscribeTimeout(s) PROVE SidsAreNames'
    BY <1>11 DEF SubscribeTimeout, Withdraws, CancelPending
  <1>12. ASSUME NEW h \in Handles, NEW t \in Tracks, SubscriberHandle(h, t) PROVE SidsAreNames'
    BY <1>12 DEF SubscriberHandle, HandleActivates, HandleReplaced
  <1>13. ASSUME NEW t \in Tracks, TrackPublished(t) PROVE SidsAreNames'
    BY <1>13 DEF TrackPublished, NextSid
  <1>14. ASSUME NEW t \in Tracks, SidReassigned(t) PROVE SidsAreNames'
    BY <1>14 DEF SidReassigned, NextSid
  <1>15. ASSUME NEW t \in Tracks, TrackUnpublished(t) PROVE SidsAreNames'
    BY <1>15 DEF TrackUnpublished
  <1>16. ASSUME NEW p \in Publishers, ParticipantDisconnected(p) PROVE SidsAreNames'
    BY <1>16 DEF ParticipantDisconnected, PublishersLeft, Unsubscribe
  <1>17. ASSUME Restarting PROVE SidsAreNames'
    BY <1>17 DEF Restarting, PublishersLeft, Unsubscribe
  <1>18. ASSUME SignalRestarted PROVE SidsAreNames'
    BY <1>18 DEF SignalRestarted
  <1>19. ASSUME Restarted PROVE SidsAreNames'
    BY <1>19 DEF Restarted
  <1>20. ASSUME Reset PROVE SidsAreNames'
    BY <1>20 DEF Reset
  <1>21. ASSUME UNCHANGED vars PROVE SidsAreNames'
    BY <1>21 DEF vars
  <1> QED
    BY <1>1, <1>2, <1>3, <1>4, <1>5, <1>6, <1>7, <1>8, <1>9, <1>10, <1>11, <1>12, <1>13,
       <1>14, <1>15, <1>16, <1>17, <1>18, <1>19, <1>20, <1>21
       DEF Next, Application, Continuation, Server, Session

\* Streams stay with their track.
LEMMA AttachedToOwnStep == IInv /\ [Next]_vars => AttachedToOwn'
  <1> SUFFICES ASSUME IInv, [Next]_vars PROVE AttachedToOwn'
    OBVIOUS
  <1> USE Numbers DEF IInv, TypeOK, TrackTypes, SfuTypes, StreamTypes, SubscriptionState, AttachedToOwn,
          trackVars, futureVars, callVars, appVars, sfuVars
  <1>1. ASSUME NEW s \in Streams, NEW t \in Tracks, SubscribeUnknown(s, t) PROVE AttachedToOwn'
    BY <1>1 DEF SubscribeUnknown, Opens
  <1>2. ASSUME NEW s \in Streams, NEW t \in Tracks, SubscribeFirst(s, t) PROVE AttachedToOwn'
    BY <1>2 DEF SubscribeFirst, Opens
  <1>3. ASSUME NEW s \in Streams, NEW t \in Tracks, SubscribeJoining(s, t) PROVE AttachedToOwn'
    BY <1>3 DEF SubscribeJoining, Opens
  <1>4. ASSUME NEW s \in Streams, NEW t \in Tracks, SubscribeActive(s, t) PROVE AttachedToOwn'
    BY <1>4 DEF SubscribeActive, Opens
  <1>5. ASSUME NEW s \in Streams, Opened(s) PROVE AttachedToOwn'
    BY <1>5 DEF Opened, Cleanup, Unsubscribe
  <1>6. ASSUME NEW s \in Streams, Failed(s) PROVE AttachedToOwn'
    BY <1>6 DEF Failed
  <1>7. ASSUME NEW s \in Streams, AbortWaiting(s) PROVE AttachedToOwn'
    BY <1>7 DEF AbortWaiting, Withdraws, CancelPending, Rejecting, Waiting
  <1>8. ASSUME NEW s \in Streams, AbortOpen(s) PROVE AttachedToOwn'
    BY <1>8 DEF AbortOpen, Cleanup, Unsubscribe
  <1>9. ASSUME NEW s \in Streams, AbortUnheard(s) PROVE AttachedToOwn'
    BY <1>9 DEF AbortUnheard
  <1>10. ASSUME NEW s \in Streams, Cancel(s) PROVE AttachedToOwn'
    BY <1>10 DEF Cancel, Cleanup, Unsubscribe
  <1>11. ASSUME NEW s \in Streams, SubscribeTimeout(s) PROVE AttachedToOwn'
    BY <1>11 DEF SubscribeTimeout, Withdraws, CancelPending, Rejecting, Waiting
  <1>12. ASSUME NEW h \in Handles, NEW t \in Tracks, SubscriberHandle(h, t) PROVE AttachedToOwn'
    BY <1>12 DEF SubscriberHandle, HandleActivates, HandleReplaced, Waiting
  <1>13. ASSUME NEW t \in Tracks, TrackPublished(t) PROVE AttachedToOwn'
    BY <1>13 DEF TrackPublished
  <1>14. ASSUME NEW t \in Tracks, SidReassigned(t) PROVE AttachedToOwn'
    BY <1>14 DEF SidReassigned
  <1>15. ASSUME NEW t \in Tracks, TrackUnpublished(t) PROVE AttachedToOwn'
    BY <1>15 DEF TrackUnpublished, Unpublish
  <1>16. ASSUME NEW p \in Publishers, ParticipantDisconnected(p) PROVE AttachedToOwn'
    BY <1>16 DEF ParticipantDisconnected, PublishersLeft, Unsubscribe, Rejecting, Waiting
  <1>17. ASSUME Restarting PROVE AttachedToOwn'
    BY <1>17 DEF Restarting, PublishersLeft, Unsubscribe, Rejecting, Waiting
  <1>18. ASSUME SignalRestarted PROVE AttachedToOwn'
    BY <1>18 DEF SignalRestarted
  <1>19. ASSUME Restarted PROVE AttachedToOwn'
    BY <1>19 DEF Restarted
  <1>20. ASSUME Reset PROVE AttachedToOwn'
    BY <1>20 DEF Reset, Unpublish, Rejecting, Waiting
  <1>21. ASSUME UNCHANGED vars PROVE AttachedToOwn'
    BY <1>21 DEF vars
  <1> QED
    BY <1>1, <1>2, <1>3, <1>4, <1>5, <1>6, <1>7, <1>8, <1>9, <1>10, <1>11, <1>12, <1>13,
       <1>14, <1>15, <1>16, <1>17, <1>18, <1>19, <1>20, <1>21
       DEF Next, Application, Continuation, Server, Session

\* Nothing is told while the session is gone.
LEMMA DownIsForgottenStep == IInv /\ [Next]_vars => DownIsForgotten'
  <1> SUFFICES ASSUME IInv, [Next]_vars PROVE DownIsForgotten'
    OBVIOUS
  <1> USE Numbers DEF IInv, TypeOK, TrackTypes, SfuTypes, StreamTypes, SubscriptionState, DownIsForgotten,
          trackVars, futureVars, callVars, appVars, sfuVars
  <1>1. ASSUME NEW s \in Streams, NEW t \in Tracks, SubscribeUnknown(s, t) PROVE DownIsForgotten'
    BY <1>1 DEF SubscribeUnknown
  <1>2. ASSUME NEW s \in Streams, NEW t \in Tracks, SubscribeFirst(s, t) PROVE DownIsForgotten'
    BY <1>2 DEF SubscribeFirst, Tell
  <1>3. ASSUME NEW s \in Streams, NEW t \in Tracks, SubscribeJoining(s, t) PROVE DownIsForgotten'
    BY <1>3 DEF SubscribeJoining
  <1>4. ASSUME NEW s \in Streams, NEW t \in Tracks, SubscribeActive(s, t) PROVE DownIsForgotten'
    BY <1>4 DEF SubscribeActive
  <1>5. ASSUME NEW s \in Streams, Opened(s) PROVE DownIsForgotten'
    BY <1>5 DEF Opened, Cleanup, Tell
  <1>6. ASSUME NEW s \in Streams, Failed(s) PROVE DownIsForgotten'
    BY <1>6 DEF Failed
  <1>7. ASSUME NEW s \in Streams, AbortWaiting(s) PROVE DownIsForgotten'
    BY <1>7 DEF AbortWaiting, Withdraws, CancelPending, Tell
  <1>8. ASSUME NEW s \in Streams, AbortOpen(s) PROVE DownIsForgotten'
    BY <1>8 DEF AbortOpen, Cleanup, Tell
  <1>9. ASSUME NEW s \in Streams, AbortUnheard(s) PROVE DownIsForgotten'
    BY <1>9 DEF AbortUnheard
  <1>10. ASSUME NEW s \in Streams, Cancel(s) PROVE DownIsForgotten'
    BY <1>10 DEF Cancel, Cleanup, Tell
  <1>11. ASSUME NEW s \in Streams, SubscribeTimeout(s) PROVE DownIsForgotten'
    BY <1>11 DEF SubscribeTimeout, Withdraws, CancelPending, Tell
  <1>12. ASSUME NEW h \in Handles, NEW t \in Tracks, SubscriberHandle(h, t) PROVE DownIsForgotten'
    BY <1>12 DEF SubscriberHandle
  <1>13. ASSUME NEW t \in Tracks, TrackPublished(t) PROVE DownIsForgotten'
    BY <1>13 DEF TrackPublished
  <1>14. ASSUME NEW t \in Tracks, SidReassigned(t) PROVE DownIsForgotten'
    BY <1>14 DEF SidReassigned
  <1>15. ASSUME NEW t \in Tracks, TrackUnpublished(t) PROVE DownIsForgotten'
    BY <1>15 DEF TrackUnpublished
  <1>16. ASSUME NEW p \in Publishers, ParticipantDisconnected(p) PROVE DownIsForgotten'
    BY <1>16 DEF ParticipantDisconnected
  <1>17. ASSUME Restarting PROVE DownIsForgotten'
    BY <1>17 DEF Restarting
  <1>18. ASSUME SignalRestarted PROVE DownIsForgotten'
    BY <1>18 DEF SignalRestarted
  <1>19. ASSUME Restarted PROVE DownIsForgotten'
    BY <1>19 DEF Restarted
  <1>20. ASSUME Reset PROVE DownIsForgotten'
    BY <1>20 DEF Reset
  <1>21. ASSUME UNCHANGED vars PROVE DownIsForgotten'
    BY <1>21 DEF vars
  <1> QED
    BY <1>1, <1>2, <1>3, <1>4, <1>5, <1>6, <1>7, <1>8, <1>9, <1>10, <1>11, <1>12, <1>13,
       <1>14, <1>15, <1>16, <1>17, <1>18, <1>19, <1>20, <1>21
       DEF Next, Application, Continuation, Server, Session

\* Giving subscriptions back removes their routes and no others.
LEMMA UnsubscribeKeepsRoutes ==
  ASSUME IInv, NEW T \in SUBSET {t \in descriptors : sub[t] = "active"},
         Unsubscribe(T), UNCHANGED <<descriptors, sid>>
  PROVE  RoutesAreExact'
  <1> USE Numbers DEF IInv, TypeOK, TrackTypes
  <1> SUFFICES ASSUME NEW h \in Handles, NEW x \in 1..MaxSids
               PROVE  index'[h] = x <=>
                        \E t \in descriptors : sub'[t] = "active" /\ handle'[t] = h /\ sid[t] = x
    BY DEF RoutesAreExact
  <1>1. /\ index'[h] = IF \E t \in T : handle[t] = h THEN None ELSE index[h]
        /\ \A t \in Tracks : /\ sub'[t] = IF t \in T THEN "none" ELSE sub[t]
                             /\ handle'[t] = IF t \in T THEN NoHandle ELSE handle[t]
    BY DEF Unsubscribe, Unrouted
  <1>2. index[h] = x <=> \E t \in descriptors : sub[t] = "active" /\ handle[t] = h /\ sid[t] = x
    BY DEF RoutesAreExact
  <1>3. ASSUME NEW t \in T, handle[t] = h PROVE index[h] = sid[t] /\ sid[t] \in 1..MaxSids
    BY <1>3 DEF RoutesAreExact, SidsAreNames
  <1>4. ASSUME NEW t \in descriptors, sub'[t] = "active", handle'[t] = h, sid[t] = x
        PROVE  index'[h] = x
    BY <1>1, <1>4, <1>2, <1>3 DEF SidsAreNames
  <1> QED
    BY <1>4, <1>1, <1>2

\* Ending the streams of some tracks leaves the streams of the others readable.
LEMMA EndedOthers ==
  ASSUME StreamTypes, AttachedToOwn, NEW T \in SUBSET Tracks, stream' = Ended(FedBy(T), "closed")
  PROVE  \A s \in Streams : stream'[s] = "readable" =>
           stream[s] = "readable" /\ \A t \in T : s \notin controllers[t]
  BY DEF StreamTypes, Ended, FedBy

\* A stream that ends takes at most its own track's route away.
LEMMA CleanupKeepsRoutes ==
  ASSUME IInv, NEW s \in Streams, NEW how, Cleanup(s, how)
  PROVE  RoutesAreExact'
  BY UnsubscribeKeepsRoutes DEF IInv, RoutesAreExact, Cleanup, trackVars

\* The index stays exact.
LEMMA RoutesAreExactStep == IInv /\ [Next]_vars => RoutesAreExact'
  <1> SUFFICES ASSUME IInv, [Next]_vars PROVE RoutesAreExact'
    OBVIOUS
  <1> USE Numbers DEF IInv, TypeOK, TrackTypes, SfuTypes, StreamTypes, SubscriptionState, SidsAreNames, RoutesAreExact,
          trackVars, futureVars, callVars, appVars, sfuVars
  <1>1. ASSUME NEW s \in Streams, NEW t \in Tracks, SubscribeUnknown(s, t) PROVE RoutesAreExact'
    BY <1>1 DEF SubscribeUnknown
  <1>2. ASSUME NEW s \in Streams, NEW t \in Tracks, SubscribeFirst(s, t) PROVE RoutesAreExact'
    BY <1>2 DEF SubscribeFirst
  <1>3. ASSUME NEW s \in Streams, NEW t \in Tracks, SubscribeJoining(s, t) PROVE RoutesAreExact'
    BY <1>3 DEF SubscribeJoining
  <1>4. ASSUME NEW s \in Streams, NEW t \in Tracks, SubscribeActive(s, t) PROVE RoutesAreExact'
    BY <1>4 DEF SubscribeActive
  <1>5. ASSUME NEW s \in Streams, Opened(s) PROVE RoutesAreExact'
    <2>1. CASE ~UNCHANGED <<descriptors, sid, sub, handle, index>>
      <3>1. /\ Unsubscribe({trackOf[s]}) /\ UNCHANGED <<descriptors, sid>>
            /\ trackOf[s] \in descriptors /\ sub[trackOf[s]] = "active"
        BY <1>5, <2>1 DEF Opened, Cleanup
      <3> QED
        BY <3>1, UnsubscribeKeepsRoutes
    <2> QED
      BY <2>1
  <1>6. ASSUME NEW s \in Streams, Failed(s) PROVE RoutesAreExact'
    BY <1>6 DEF Failed
  <1>7. ASSUME NEW s \in Streams, AbortWaiting(s) PROVE RoutesAreExact'
    BY <1>7 DEF AbortWaiting, Withdraws, CancelPending
  <1>8. ASSUME NEW s \in Streams, AbortOpen(s) PROVE RoutesAreExact'
    BY <1>8, CleanupKeepsRoutes DEF AbortOpen
  <1>9. ASSUME NEW s \in Streams, AbortUnheard(s) PROVE RoutesAreExact'
    BY <1>9 DEF AbortUnheard
  <1>10. ASSUME NEW s \in Streams, Cancel(s) PROVE RoutesAreExact'
    BY <1>10, CleanupKeepsRoutes DEF Cancel
  <1>11. ASSUME NEW s \in Streams, SubscribeTimeout(s) PROVE RoutesAreExact'
    BY <1>11 DEF SubscribeTimeout, Withdraws, CancelPending
  <1>12. ASSUME NEW h \in Handles, NEW t \in Tracks, SubscriberHandle(h, t) PROVE RoutesAreExact'
    <2>1. t \in descriptors /\ sid[t] \in 1..MaxSids /\ UNCHANGED <<descriptors, sid>>
      BY <1>12 DEF SubscriberHandle, SidsAreNames
    <2>2. /\ sub'[t] = "active" /\ handle'[t] = h
          /\ \A u \in Tracks \ {t} : sub'[u] = sub[u] /\ handle'[u] = handle[u]
      BY <1>12 DEF SubscriberHandle, HandleActivates, HandleReplaced
    <2>3. index'[h] = sid[t]
      BY <1>12 DEF SubscriberHandle, HandleActivates, HandleReplaced, Unrouted
    <2>4. \A g \in Handles \ {h} :
            index'[g] = IF sub[t] = "active" /\ handle[t] = g THEN None ELSE index[g]
      <3>1. CASE HandleReplaced(h, t)
        BY <3>1 DEF Unrouted, HandleReplaced
      <3> QED
        BY <1>12, <3>1 DEF SubscriberHandle, HandleActivates
    <2>5. SUFFICES ASSUME NEW g \in Handles, NEW x \in 1..MaxSids
                   PROVE  index'[g] = x <=> \E u \in descriptors :
                            sub'[u] = "active" /\ handle'[u] = g /\ sid[u] = x
      BY <2>1 DEF RoutesAreExact
    <2>6. index[g] = x <=> \E u \in descriptors : sub[u] = "active" /\ handle[u] = g /\ sid[u] = x
      BY DEF RoutesAreExact
    <2>7. CASE g = h
      BY <2>1, <2>2, <2>3, <2>7, <1>12 DEF SubscriberHandle, Assignable
    <2>8. CASE g # h /\ sub[t] = "active" /\ handle[t] = g
      <3>1. \A u \in descriptors \ {t} : sub[u] = "active" => handle[u] # g
        BY <2>1, <2>8 DEF RoutesAreExact, SidsAreNames
      <3>2. \A u \in descriptors : sub'[u] = "active" => handle'[u] # g
        BY <2>2, <2>8, <3>1
      <3> QED
        BY <2>1, <3>2, <2>4, <2>8
    <2> QED
      BY <2>7, <2>8, <2>1, <2>2, <2>4, <2>6
  <1>13. ASSUME NEW t \in Tracks, TrackPublished(t) PROVE RoutesAreExact'
    BY <1>13 DEF TrackPublished
  <1>14. ASSUME NEW t \in Tracks, SidReassigned(t) PROVE RoutesAreExact'
    BY <1>14 DEF SidReassigned
  <1>15. ASSUME NEW t \in Tracks, TrackUnpublished(t) PROVE RoutesAreExact'
    BY <1>15 DEF TrackUnpublished, Unrouted
  <1>16. ASSUME NEW p \in Publishers, ParticipantDisconnected(p) PROVE RoutesAreExact'
    <2> DEFINE A == {t \in descriptors : PublisherOf[t] \in {p} /\ sub[t] = "active"}
    <2>1. Unsubscribe(A) /\ UNCHANGED <<descriptors, sid>>
      <3>1. A = {t \in {u \in descriptors : PublisherOf[u] \in {p}} : sub[t] = "active"}
        OBVIOUS
      <3> HIDE DEF A
      <3> QED
        BY <1>16, <3>1 DEF ParticipantDisconnected, PublishersLeft
    <2>2. A \in SUBSET {t \in descriptors : sub[t] = "active"}
      OBVIOUS
    <2> HIDE DEF A
    <2> QED
      BY <2>1, <2>2, UnsubscribeKeepsRoutes
  <1>17. ASSUME Restarting PROVE RoutesAreExact'
    <2> DEFINE A == {t \in descriptors : PublisherOf[t] \in Publishers /\ sub[t] = "active"}
    <2>1. Unsubscribe(A) /\ UNCHANGED <<descriptors, sid>>
      <3>1. A = {t \in {u \in descriptors : PublisherOf[u] \in Publishers} : sub[t] = "active"}
        OBVIOUS
      <3> HIDE DEF A
      <3> QED
        BY <1>17, <3>1 DEF Restarting, PublishersLeft
    <2>2. A \in SUBSET {t \in descriptors : sub[t] = "active"}
      OBVIOUS
    <2> HIDE DEF A
    <2> QED
      BY <2>1, <2>2, UnsubscribeKeepsRoutes
  <1>18. ASSUME SignalRestarted PROVE RoutesAreExact'
    BY <1>18 DEF SignalRestarted
  <1>19. ASSUME Restarted PROVE RoutesAreExact'
    BY <1>19 DEF Restarted
  <1>20. ASSUME Reset PROVE RoutesAreExact'
    BY <1>20 DEF Reset
  <1>21. ASSUME UNCHANGED vars PROVE RoutesAreExact'
    BY <1>21 DEF vars
  <1> QED
    BY <1>1, <1>2, <1>3, <1>4, <1>5, <1>6, <1>7, <1>8, <1>9, <1>10, <1>11, <1>12, <1>13,
       <1>14, <1>15, <1>16, <1>17, <1>18, <1>19, <1>20, <1>21
       DEF Next, Application, Continuation, Server, Session

\* Readable streams stay attached.
LEMMA OpenIsServedStep == IInv /\ [Next]_vars => OpenIsServed'
  <1> SUFFICES ASSUME IInv, [Next]_vars PROVE OpenIsServed'
    OBVIOUS
  <1> USE Numbers DEF IInv, TypeOK, TrackTypes, SfuTypes, StreamTypes, SubscriptionState, AttachedToOwn, OpenIsServed,
          trackVars, futureVars, callVars, appVars, sfuVars
  <1>1. ASSUME NEW s \in Streams, NEW t \in Tracks, SubscribeUnknown(s, t) PROVE OpenIsServed'
    BY <1>1 DEF SubscribeUnknown, Opens
  <1>2. ASSUME NEW s \in Streams, NEW t \in Tracks, SubscribeFirst(s, t) PROVE OpenIsServed'
    BY <1>2 DEF SubscribeFirst, Opens
  <1>3. ASSUME NEW s \in Streams, NEW t \in Tracks, SubscribeJoining(s, t) PROVE OpenIsServed'
    BY <1>3 DEF SubscribeJoining, Opens
  <1>4. ASSUME NEW s \in Streams, NEW t \in Tracks, SubscribeActive(s, t) PROVE OpenIsServed'
    BY <1>4 DEF SubscribeActive, Opens
  <1>5. ASSUME NEW s \in Streams, Opened(s) PROVE OpenIsServed'
    BY <1>5 DEF Opened, Cleanup, Unsubscribe, Ended
  <1>6. ASSUME NEW s \in Streams, Failed(s) PROVE OpenIsServed'
    BY <1>6 DEF Failed, Ended
  <1>7. ASSUME NEW s \in Streams, AbortWaiting(s) PROVE OpenIsServed'
    BY <1>7 DEF AbortWaiting, Withdraws, CancelPending, Rejecting
  <1>8. ASSUME NEW s \in Streams, AbortOpen(s) PROVE OpenIsServed'
    BY <1>8 DEF AbortOpen, Cleanup, Unsubscribe, Ended
  <1>9. ASSUME NEW s \in Streams, AbortUnheard(s) PROVE OpenIsServed'
    BY <1>9 DEF AbortUnheard
  <1>10. ASSUME NEW s \in Streams, Cancel(s) PROVE OpenIsServed'
    BY <1>10 DEF Cancel, Cleanup, Unsubscribe, Ended
  <1>11. ASSUME NEW s \in Streams, SubscribeTimeout(s) PROVE OpenIsServed'
    BY <1>11 DEF SubscribeTimeout, Withdraws, CancelPending, Rejecting
  <1>12. ASSUME NEW h \in Handles, NEW t \in Tracks, SubscriberHandle(h, t) PROVE OpenIsServed'
    BY <1>12 DEF SubscriberHandle, HandleActivates, HandleReplaced
  <1>13. ASSUME NEW t \in Tracks, TrackPublished(t) PROVE OpenIsServed'
    BY <1>13 DEF TrackPublished
  <1>14. ASSUME NEW t \in Tracks, SidReassigned(t) PROVE OpenIsServed'
    BY <1>14 DEF SidReassigned
  <1>15. ASSUME NEW t \in Tracks, TrackUnpublished(t) PROVE OpenIsServed'
    <2> DEFINE A == {u \in {t} : sub[u] = "active"}
    <2>1. stream' = Ended(FedBy(A), "closed")
      BY <1>15 DEF TrackUnpublished, Unpublish
    <2>2. \A s \in Streams : stream'[s] = "readable" =>
            stream[s] = "readable" /\ \A u \in A : s \notin controllers[u]
      <3>1. A \in SUBSET Tracks
        OBVIOUS
      <3> HIDE DEF A
      <3> QED
        BY <2>1, <3>1, EndedOthers
    <2>3. SUFFICES ASSUME NEW s \in Streams, call'[s] = "settled", stream'[s] = "readable"
                   PROVE  /\ trackOf'[s] \in descriptors' /\ sub'[trackOf'[s]] = "active"
                          /\ s \in controllers'[trackOf'[s]]
      BY DEF OpenIsServed
    <2> QED
      BY <1>15, <2>2, <2>3 DEF TrackUnpublished, Unpublish, OpenIsServed, Rejecting
  <1>16. ASSUME NEW p \in Publishers, ParticipantDisconnected(p) PROVE OpenIsServed'
    <2> DEFINE A == {u \in {t \in descriptors : PublisherOf[t] \in {p}} : sub[u] = "active"}
    <2>1. stream' = Ended(FedBy(A), "closed")
      BY <1>16 DEF ParticipantDisconnected, PublishersLeft, Unsubscribe
    <2>2. \A s \in Streams : stream'[s] = "readable" =>
            stream[s] = "readable" /\ \A u \in A : s \notin controllers[u]
      <3>1. A \in SUBSET Tracks
        OBVIOUS
      <3> HIDE DEF A
      <3> QED
        BY <2>1, <3>1, EndedOthers
    <2>3. SUFFICES ASSUME NEW s \in Streams, call'[s] = "settled", stream'[s] = "readable"
                   PROVE  /\ trackOf'[s] \in descriptors' /\ sub'[trackOf'[s]] = "active"
                          /\ s \in controllers'[trackOf'[s]]
      BY DEF OpenIsServed
    <2> QED
      BY <1>16, <2>2, <2>3 DEF ParticipantDisconnected, PublishersLeft, Unsubscribe, OpenIsServed, Rejecting
  <1>17. ASSUME Restarting PROVE OpenIsServed'
    <2> DEFINE A == {u \in {t \in descriptors : PublisherOf[t] \in Publishers} : sub[u] = "active"}
    <2>1. stream' = Ended(FedBy(A), "closed")
      BY <1>17 DEF Restarting, PublishersLeft, Unsubscribe
    <2>2. \A s \in Streams : stream'[s] = "readable" =>
            stream[s] = "readable" /\ \A u \in A : s \notin controllers[u]
      <3>1. A \in SUBSET Tracks
        OBVIOUS
      <3> HIDE DEF A
      <3> QED
        BY <2>1, <3>1, EndedOthers
    <2>3. SUFFICES ASSUME NEW s \in Streams, call'[s] = "settled", stream'[s] = "readable"
                   PROVE  /\ trackOf'[s] \in descriptors' /\ sub'[trackOf'[s]] = "active"
                          /\ s \in controllers'[trackOf'[s]]
      BY DEF OpenIsServed
    <2> QED
      BY <1>17, <2>2, <2>3 DEF Restarting, PublishersLeft, Unsubscribe, OpenIsServed, Rejecting
  <1>18. ASSUME SignalRestarted PROVE OpenIsServed'
    BY <1>18 DEF SignalRestarted
  <1>19. ASSUME Restarted PROVE OpenIsServed'
    BY <1>19 DEF Restarted
  <1>20. ASSUME Reset PROVE OpenIsServed'
    <2> DEFINE A == {u \in descriptors : sub[u] = "active"}
    <2>1. \A s \in Streams : stream'[s] = "readable" =>
            stream[s] = "readable" /\ \A u \in A : s \notin controllers[u]
      <3>1. A \in SUBSET Tracks
        OBVIOUS
      <3> HIDE DEF A
      <3> QED
        BY <3>1, EndedOthers, <1>20 DEF Reset, Unpublish
    <2>2. SUFFICES ASSUME NEW s \in Streams, call'[s] = "settled", stream'[s] = "readable"
                   PROVE  /\ trackOf'[s] \in descriptors' /\ sub'[trackOf'[s]] = "active"
                          /\ s \in controllers'[trackOf'[s]]
      BY DEF OpenIsServed
    <2> QED
      BY <1>20, <2>1, <2>2 DEF Reset, Unpublish, OpenIsServed, Rejecting
  <1>21. ASSUME UNCHANGED vars PROVE OpenIsServed'
    BY <1>21 DEF vars
  <1> QED
    BY <1>1, <1>2, <1>3, <1>4, <1>5, <1>6, <1>7, <1>8, <1>9, <1>10, <1>11, <1>12, <1>13,
       <1>14, <1>15, <1>16, <1>17, <1>18, <1>19, <1>20, <1>21
       DEF Next, Application, Continuation, Server, Session

\* The SFU and the manager stay agreed.
LEMMA SfuAgreesStep == IInv /\ [Next]_vars => SfuAgrees'
  <1> SUFFICES ASSUME IInv, [Next]_vars PROVE SfuAgrees'
    OBVIOUS
  <1> USE Numbers DEF IInv, TypeOK, TrackTypes, SfuTypes, StreamTypes, SubscriptionState, SidsAreNames, DownIsForgotten, SfuAgrees,
          trackVars, futureVars, callVars, appVars, sfuVars
  <1>1. ASSUME NEW s \in Streams, NEW t \in Tracks, SubscribeUnknown(s, t) PROVE SfuAgrees'
    BY <1>1 DEF SubscribeUnknown
  <1>2. ASSUME NEW s \in Streams, NEW t \in Tracks, SubscribeFirst(s, t) PROVE SfuAgrees'
    BY <1>2 DEF SubscribeFirst, Tell
  <1>3. ASSUME NEW s \in Streams, NEW t \in Tracks, SubscribeJoining(s, t) PROVE SfuAgrees'
    BY <1>3 DEF SubscribeJoining
  <1>4. ASSUME NEW s \in Streams, NEW t \in Tracks, SubscribeActive(s, t) PROVE SfuAgrees'
    BY <1>4 DEF SubscribeActive
  <1>5. ASSUME NEW s \in Streams, Opened(s) PROVE SfuAgrees'
    BY <1>5 DEF Opened, Cleanup, Unsubscribe, Tell
  <1>6. ASSUME NEW s \in Streams, Failed(s) PROVE SfuAgrees'
    BY <1>6 DEF Failed
  <1>7. ASSUME NEW s \in Streams, AbortWaiting(s) PROVE SfuAgrees'
    BY <1>7 DEF AbortWaiting, Fires, Withdraws, CancelPending, AttachedToOwn, Tell
  <1>8. ASSUME NEW s \in Streams, AbortOpen(s) PROVE SfuAgrees'
    BY <1>8 DEF AbortOpen, Cleanup, Unsubscribe, Tell
  <1>9. ASSUME NEW s \in Streams, AbortUnheard(s) PROVE SfuAgrees'
    BY <1>9 DEF AbortUnheard
  <1>10. ASSUME NEW s \in Streams, Cancel(s) PROVE SfuAgrees'
    BY <1>10 DEF Cancel, Cleanup, Unsubscribe, Tell
  <1>11. ASSUME NEW s \in Streams, SubscribeTimeout(s) PROVE SfuAgrees'
    BY <1>11 DEF SubscribeTimeout, Withdraws, CancelPending, AttachedToOwn, Tell
  <1>12. ASSUME NEW h \in Handles, NEW t \in Tracks, SubscriberHandle(h, t) PROVE SfuAgrees'
    BY <1>12 DEF SubscriberHandle, HandleActivates, HandleReplaced
  <1>13. ASSUME NEW t \in Tracks, TrackPublished(t) PROVE SfuAgrees'
    BY <1>13 DEF TrackPublished
  <1>14. ASSUME NEW t \in Tracks, SidReassigned(t) PROVE SfuAgrees'
    BY <1>14 DEF SidReassigned, Tell
  <1>15. ASSUME NEW t \in Tracks, TrackUnpublished(t) PROVE SfuAgrees'
    BY <1>15 DEF TrackUnpublished
  <1>16. ASSUME NEW p \in Publishers, ParticipantDisconnected(p) PROVE SfuAgrees'
    BY <1>16 DEF ParticipantDisconnected, PublishersLeft, Unsubscribe, Tell
  <1>17. ASSUME Restarting PROVE SfuAgrees'
    BY <1>17 DEF Restarting
  <1>18. ASSUME SignalRestarted PROVE SfuAgrees'
    BY <1>18 DEF SignalRestarted
  <1>19. ASSUME Restarted PROVE SfuAgrees'
    BY <1>19 DEF Restarted
  <1>20. ASSUME Reset PROVE SfuAgrees'
    BY <1>20 DEF Reset
  <1>21. ASSUME UNCHANGED vars PROVE SfuAgrees'
    BY <1>21 DEF vars
  <1> QED
    BY <1>1, <1>2, <1>3, <1>4, <1>5, <1>6, <1>7, <1>8, <1>9, <1>10, <1>11, <1>12, <1>13,
       <1>14, <1>15, <1>16, <1>17, <1>18, <1>19, <1>20, <1>21
       DEF Next, Application, Continuation, Server, Session
-----------------------------------------------------------------------------
(* Whose the active subscriptions are. *)

\* A future that was rejected belongs to a track that is gone or is a stray.
RejectedIsStray == \A t \in descriptors : t \in rejected => t \in strays

\* Each request that counts is one that waits. (A listener that stayed behind withdraws
\* a request that is not its own: then more wait than are counted.)
RequestsWait ==
  \A t \in descriptors \ strays : sub[t] = "pending" => requests[t] <= Cardinality(Waiting(t))

\* A stream whose request is on its way is readable.
UnendedIsReadable ==
  \A s \in Streams :
    /\ call[s] = "idle" => stream[s] = "readable"
    /\ call[s] \in {"waiting", "resolved"} /\ trackOf[s] \notin strays => stream[s] = "readable"

FedIsReadable == \A t \in Tracks \ strays : \A s \in controllers[t] : stream[s] = "readable"

WInv ==
  /\ RejectedIsStray /\ RequestsWait /\ UnendedIsReadable /\ FedIsReadable
  /\ ActiveIsWanted

\* What is rejected is given up.
LEMMA RejectedIsStrayStep ==
  ASSUME IInv, RejectedIsStray, [Next]_vars
  PROVE  RejectedIsStray'
  <1> USE Numbers DEF IInv, TypeOK, TrackTypes, StreamTypes, SubscriptionState, SidsAreNames, AttachedToOwn,
          trackVars, futureVars, callVars, appVars, sfuVars, RejectedIsStray
  <1>1. ASSUME NEW s \in Streams, NEW t \in Tracks, SubscribeUnknown(s, t) PROVE RejectedIsStray'
    BY <1>1 DEF SubscribeUnknown, Opens
  <1>2. ASSUME NEW s \in Streams, NEW t \in Tracks, SubscribeFirst(s, t) PROVE RejectedIsStray'
    BY <1>2 DEF SubscribeFirst, Opens
  <1>3. ASSUME NEW s \in Streams, NEW t \in Tracks, SubscribeJoining(s, t) PROVE RejectedIsStray'
    BY <1>3 DEF SubscribeJoining, Opens
  <1>4. ASSUME NEW s \in Streams, NEW t \in Tracks, SubscribeActive(s, t) PROVE RejectedIsStray'
    BY <1>4 DEF SubscribeActive, Opens
  <1>5. ASSUME NEW s \in Streams, Opened(s) PROVE RejectedIsStray'
    BY <1>5 DEF Opened, Cleanup, Unsubscribe, Ended
  <1>6. ASSUME NEW s \in Streams, Failed(s) PROVE RejectedIsStray'
    BY <1>6 DEF Failed, Ended
  <1>7. ASSUME NEW s \in Streams, AbortWaiting(s) PROVE RejectedIsStray'
    BY <1>7 DEF AbortWaiting, Withdraws, CancelPending, Rejecting, Waiting
  <1>8. ASSUME NEW s \in Streams, AbortOpen(s) PROVE RejectedIsStray'
    BY <1>8 DEF AbortOpen, Cleanup, Unsubscribe, Ended
  <1>9. ASSUME NEW s \in Streams, AbortUnheard(s) PROVE RejectedIsStray'
    BY <1>9 DEF AbortUnheard
  <1>10. ASSUME NEW s \in Streams, Cancel(s) PROVE RejectedIsStray'
    BY <1>10 DEF Cancel, Cleanup, Unsubscribe, Ended
  <1>11. ASSUME NEW s \in Streams, SubscribeTimeout(s) PROVE RejectedIsStray'
    BY <1>11 DEF SubscribeTimeout, Withdraws, CancelPending, Rejecting, Waiting
  <1>12. ASSUME NEW h \in Handles, NEW t \in Tracks, SubscriberHandle(h, t) PROVE RejectedIsStray'
    BY <1>12 DEF SubscriberHandle, HandleActivates, HandleReplaced, Waiting
  <1>13. ASSUME NEW t \in Tracks, TrackPublished(t) PROVE RejectedIsStray'
    BY <1>13 DEF TrackPublished
  <1>14. ASSUME NEW t \in Tracks, SidReassigned(t) PROVE RejectedIsStray'
    BY <1>14 DEF SidReassigned
  <1>15. ASSUME NEW t \in Tracks, TrackUnpublished(t) PROVE RejectedIsStray'
    BY <1>15 DEF TrackUnpublished, Unpublish
  <1>16. ASSUME NEW p \in Publishers, ParticipantDisconnected(p) PROVE RejectedIsStray'
    BY <1>16 DEF ParticipantDisconnected, PublishersLeft, Unsubscribe, Rejecting, Waiting
  <1>17. ASSUME Restarting PROVE RejectedIsStray'
    BY <1>17 DEF Restarting, PublishersLeft, Unsubscribe, Rejecting, Waiting
  <1>18. ASSUME SignalRestarted PROVE RejectedIsStray'
    BY <1>18 DEF SignalRestarted
  <1>19. ASSUME Restarted PROVE RejectedIsStray'
    BY <1>19 DEF Restarted
  <1>20. ASSUME Reset PROVE RejectedIsStray'
    BY <1>20 DEF Reset, Unpublish, Rejecting, Waiting
  <1>21. ASSUME UNCHANGED vars PROVE RejectedIsStray'
    BY <1>21 DEF vars
  <1> QED
    BY <1>1, <1>2, <1>3, <1>4, <1>5, <1>6, <1>7, <1>8, <1>9, <1>10, <1>11, <1>12, <1>13,
       <1>14, <1>15, <1>16, <1>17, <1>18, <1>19, <1>20, <1>21
       DEF Next, Application, Continuation, Server, Session

\* Streams that end because a track lets go of them are settled.
LEMMA FedAreSettled ==
  ASSUME StreamTypes, AttachedToOwn, NEW T \in SUBSET Tracks, stream' = Ended(FedBy(T), "closed")
  PROVE  \A s \in Streams :
           stream'[s] = stream[s] \/ (call[s] = "settled" /\ \E t \in T : s \in controllers[t])
  BY DEF StreamTypes, AttachedToOwn, Ended, FedBy

\* Streams on their way stay readable, or their track is a stray.
LEMMA UnendedStep ==
  ASSUME IInv, UnendedIsReadable, [Next]_vars
  PROVE  UnendedIsReadable'
  <1> USE Numbers DEF IInv, TypeOK, TrackTypes, StreamTypes, SubscriptionState, SidsAreNames, AttachedToOwn,
          trackVars, futureVars, callVars, appVars, sfuVars, UnendedIsReadable
  <1>1. ASSUME NEW s \in Streams, NEW t \in Tracks, SubscribeUnknown(s, t) PROVE UnendedIsReadable'
    BY <1>1 DEF SubscribeUnknown, Opens
  <1>2. ASSUME NEW s \in Streams, NEW t \in Tracks, SubscribeFirst(s, t) PROVE UnendedIsReadable'
    BY <1>2 DEF SubscribeFirst, Opens
  <1>3. ASSUME NEW s \in Streams, NEW t \in Tracks, SubscribeJoining(s, t) PROVE UnendedIsReadable'
    BY <1>3 DEF SubscribeJoining, Opens
  <1>4. ASSUME NEW s \in Streams, NEW t \in Tracks, SubscribeActive(s, t) PROVE UnendedIsReadable'
    BY <1>4 DEF SubscribeActive, Opens
  <1>5. ASSUME NEW s \in Streams, Opened(s) PROVE UnendedIsReadable'
    BY <1>5 DEF Opened, Cleanup, Unsubscribe, Ended
  <1>6. ASSUME NEW s \in Streams, Failed(s) PROVE UnendedIsReadable'
    BY <1>6 DEF Failed, Ended
  <1>7. ASSUME NEW s \in Streams, AbortWaiting(s) PROVE UnendedIsReadable'
    BY <1>7 DEF AbortWaiting, Withdraws, CancelPending, Rejecting, Waiting
  <1>8. ASSUME NEW s \in Streams, AbortOpen(s) PROVE UnendedIsReadable'
    BY <1>8 DEF AbortOpen, Fires, Cleanup, Ended
  <1>9. ASSUME NEW s \in Streams, AbortUnheard(s) PROVE UnendedIsReadable'
    BY <1>9 DEF AbortUnheard
  <1>10. ASSUME NEW s \in Streams, Cancel(s) PROVE UnendedIsReadable'
    BY <1>10 DEF Cancel, Cleanup, Unsubscribe, Ended
  <1>11. ASSUME NEW s \in Streams, SubscribeTimeout(s) PROVE UnendedIsReadable'
    BY <1>11 DEF SubscribeTimeout, Withdraws, CancelPending, Rejecting, Waiting
  <1>12. ASSUME NEW h \in Handles, NEW t \in Tracks, SubscriberHandle(h, t) PROVE UnendedIsReadable'
    BY <1>12 DEF SubscriberHandle, HandleActivates, HandleReplaced, Waiting
  <1>13. ASSUME NEW t \in Tracks, TrackPublished(t) PROVE UnendedIsReadable'
    BY <1>13 DEF TrackPublished
  <1>14. ASSUME NEW t \in Tracks, SidReassigned(t) PROVE UnendedIsReadable'
    BY <1>14 DEF SidReassigned
  <1>15. ASSUME NEW t \in Tracks, TrackUnpublished(t) PROVE UnendedIsReadable'
    <2> DEFINE A == {u \in {t} : sub[u] = "active"}
    <2>1. stream' = Ended(FedBy(A), "closed") /\ UNCHANGED trackOf
      BY <1>15 DEF TrackUnpublished, Unpublish
    <2>2. \A s \in Streams :
            stream'[s] = stream[s] \/ (call[s] = "settled" /\ \E u \in A : s \in controllers[u])
      <3>1. A \in SUBSET Tracks
        OBVIOUS
      <3> HIDE DEF A
      <3> QED
        BY <2>1, <3>1, FedAreSettled
    <2> HIDE DEF A
    <2> QED
      BY <2>1, <2>2, <1>15 DEF TrackUnpublished, Unpublish, Rejecting, Waiting
  <1>16. ASSUME NEW p \in Publishers, ParticipantDisconnected(p) PROVE UnendedIsReadable'
    <2> DEFINE A == {u \in {t \in descriptors : PublisherOf[t] \in {p}} : sub[u] = "active"}
    <2>1. stream' = Ended(FedBy(A), "closed") /\ UNCHANGED trackOf
      BY <1>16 DEF ParticipantDisconnected, PublishersLeft, Unsubscribe
    <2>2. \A s \in Streams :
            stream'[s] = stream[s] \/ (call[s] = "settled" /\ \E u \in A : s \in controllers[u])
      <3>1. A \in SUBSET Tracks
        OBVIOUS
      <3> HIDE DEF A
      <3> QED
        BY <2>1, <3>1, FedAreSettled
    <2> HIDE DEF A
    <2> QED
      BY <2>1, <2>2, <1>16 DEF ParticipantDisconnected, PublishersLeft, Unsubscribe, Rejecting, Waiting
  <1>17. ASSUME Restarting PROVE UnendedIsReadable'
    <2> DEFINE A == {u \in {t \in descriptors : PublisherOf[t] \in Publishers} : sub[u] = "active"}
    <2>1. stream' = Ended(FedBy(A), "closed") /\ UNCHANGED trackOf
      BY <1>17 DEF Restarting, PublishersLeft, Unsubscribe
    <2>2. \A s \in Streams :
            stream'[s] = stream[s] \/ (call[s] = "settled" /\ \E u \in A : s \in controllers[u])
      <3>1. A \in SUBSET Tracks
        OBVIOUS
      <3> HIDE DEF A
      <3> QED
        BY <2>1, <3>1, FedAreSettled
    <2> HIDE DEF A
    <2> QED
      BY <2>1, <2>2, <1>17 DEF Restarting, PublishersLeft, Unsubscribe, Rejecting, Waiting
  <1>18. ASSUME SignalRestarted PROVE UnendedIsReadable'
    BY <1>18 DEF SignalRestarted
  <1>19. ASSUME Restarted PROVE UnendedIsReadable'
    BY <1>19 DEF Restarted
  <1>20. ASSUME Reset PROVE UnendedIsReadable'
    <2> DEFINE A == {u \in descriptors : sub[u] = "active"}
    <2>1. stream' = Ended(FedBy(A), "closed") /\ UNCHANGED trackOf
      BY <1>20 DEF Reset, Unpublish
    <2>2. \A s \in Streams :
            stream'[s] = stream[s] \/ (call[s] = "settled" /\ \E u \in A : s \in controllers[u])
      <3>1. A \in SUBSET Tracks
        OBVIOUS
      <3> HIDE DEF A
      <3> QED
        BY <2>1, <3>1, FedAreSettled
    <2> HIDE DEF A
    <2> QED
      BY <2>1, <2>2, <1>20 DEF Reset, Unpublish, Rejecting, Waiting
  <1>21. ASSUME UNCHANGED vars PROVE UnendedIsReadable'
    BY <1>21 DEF vars
  <1> QED
    BY <1>1, <1>2, <1>3, <1>4, <1>5, <1>6, <1>7, <1>8, <1>9, <1>10, <1>11, <1>12, <1>13,
       <1>14, <1>15, <1>16, <1>17, <1>18, <1>19, <1>20, <1>21
       DEF Next, Application, Continuation, Server, Session

\* The streams a track feeds stay readable, or it is a stray.
LEMMA FedStep ==
  ASSUME IInv, UnendedIsReadable, FedIsReadable, [Next]_vars
  PROVE  FedIsReadable'
  <1> USE Numbers DEF IInv, TypeOK, TrackTypes, StreamTypes, SubscriptionState, SidsAreNames, AttachedToOwn,
          trackVars, futureVars, callVars, appVars, sfuVars, UnendedIsReadable, FedIsReadable
  <1>1. ASSUME NEW s \in Streams, NEW t \in Tracks, SubscribeUnknown(s, t) PROVE FedIsReadable'
    BY <1>1 DEF SubscribeUnknown, Opens
  <1>2. ASSUME NEW s \in Streams, NEW t \in Tracks, SubscribeFirst(s, t) PROVE FedIsReadable'
    BY <1>2 DEF SubscribeFirst, Opens
  <1>3. ASSUME NEW s \in Streams, NEW t \in Tracks, SubscribeJoining(s, t) PROVE FedIsReadable'
    BY <1>3 DEF SubscribeJoining, Opens
  <1>4. ASSUME NEW s \in Streams, NEW t \in Tracks, SubscribeActive(s, t) PROVE FedIsReadable'
    BY <1>4 DEF SubscribeActive, Opens
  <1>5. ASSUME NEW s \in Streams, Opened(s) PROVE FedIsReadable'
    BY <1>5 DEF Opened, Cleanup, Unsubscribe, Ended
  <1>6. ASSUME NEW s \in Streams, Failed(s) PROVE FedIsReadable'
    BY <1>6 DEF Failed, Ended
  <1>7. ASSUME NEW s \in Streams, AbortWaiting(s) PROVE FedIsReadable'
    BY <1>7 DEF AbortWaiting, Withdraws, CancelPending, Rejecting, Waiting
  <1>8. ASSUME NEW s \in Streams, AbortOpen(s) PROVE FedIsReadable'
    BY <1>8 DEF AbortOpen, Cleanup, Unsubscribe, Ended
  <1>9. ASSUME NEW s \in Streams, AbortUnheard(s) PROVE FedIsReadable'
    BY <1>9 DEF AbortUnheard
  <1>10. ASSUME NEW s \in Streams, Cancel(s) PROVE FedIsReadable'
    BY <1>10 DEF Cancel, Cleanup, Unsubscribe, Ended
  <1>11. ASSUME NEW s \in Streams, SubscribeTimeout(s) PROVE FedIsReadable'
    BY <1>11 DEF SubscribeTimeout, Withdraws, CancelPending, Rejecting, Waiting
  <1>12. ASSUME NEW h \in Handles, NEW t \in Tracks, SubscriberHandle(h, t) PROVE FedIsReadable'
    BY <1>12 DEF SubscriberHandle, HandleActivates, HandleReplaced, Waiting
  <1>13. ASSUME NEW t \in Tracks, TrackPublished(t) PROVE FedIsReadable'
    BY <1>13 DEF TrackPublished
  <1>14. ASSUME NEW t \in Tracks, SidReassigned(t) PROVE FedIsReadable'
    BY <1>14 DEF SidReassigned
  <1>15. ASSUME NEW t \in Tracks, TrackUnpublished(t) PROVE FedIsReadable'
    <2> DEFINE A == {u \in {t} : sub[u] = "active"}
    <2>1. stream' = Ended(FedBy(A), "closed") /\ UNCHANGED trackOf
      BY <1>15 DEF TrackUnpublished, Unpublish
    <2>2. \A s \in Streams :
            stream'[s] = stream[s] \/ (call[s] = "settled" /\ \E u \in A : s \in controllers[u])
      <3>1. A \in SUBSET Tracks
        OBVIOUS
      <3> HIDE DEF A
      <3> QED
        BY <2>1, <3>1, FedAreSettled
    <2>3. \A u \in Tracks \ A : controllers'[u] = controllers[u]
      BY <1>15 DEF TrackUnpublished, Unpublish
    <2>4. \A u \in A : controllers'[u] = {}
      BY <1>15 DEF TrackUnpublished, Unpublish
    <2>5. strays \subseteq strays'
      BY <1>15 DEF TrackUnpublished, Unpublish
    <2>6. A \subseteq Tracks
      OBVIOUS
    <2> HIDE DEF A
    <2>7. ASSUME NEW u \in Tracks \ strays', NEW r \in controllers'[u] PROVE stream'[r] = "readable"
      BY <2>3, <2>4, <2>5, <2>7, <2>6, <2>2
    <2> QED
      BY <2>7
  <1>16. ASSUME NEW p \in Publishers, ParticipantDisconnected(p) PROVE FedIsReadable'
    <2> DEFINE A == {u \in {t \in descriptors : PublisherOf[t] \in {p}} : sub[u] = "active"}
    <2>1. stream' = Ended(FedBy(A), "closed") /\ UNCHANGED trackOf
      BY <1>16 DEF ParticipantDisconnected, PublishersLeft, Unsubscribe
    <2>2. \A s \in Streams :
            stream'[s] = stream[s] \/ (call[s] = "settled" /\ \E u \in A : s \in controllers[u])
      <3>1. A \in SUBSET Tracks
        OBVIOUS
      <3> HIDE DEF A
      <3> QED
        BY <2>1, <3>1, FedAreSettled
    <2>3. \A u \in Tracks \ A : controllers'[u] = controllers[u]
      BY <1>16 DEF ParticipantDisconnected, PublishersLeft, Unsubscribe
    <2>4. \A u \in A : controllers'[u] = {}
      BY <1>16 DEF ParticipantDisconnected, PublishersLeft, Unsubscribe
    <2>5. strays \subseteq strays'
      BY <1>16 DEF ParticipantDisconnected, PublishersLeft, Unsubscribe
    <2>6. A \subseteq Tracks
      OBVIOUS
    <2> HIDE DEF A
    <2>7. ASSUME NEW u \in Tracks \ strays', NEW r \in controllers'[u] PROVE stream'[r] = "readable"
      BY <2>3, <2>4, <2>5, <2>7, <2>6, <2>2
    <2> QED
      BY <2>7
  <1>17. ASSUME Restarting PROVE FedIsReadable'
    <2> DEFINE A == {u \in {t \in descriptors : PublisherOf[t] \in Publishers} : sub[u] = "active"}
    <2>1. stream' = Ended(FedBy(A), "closed") /\ UNCHANGED trackOf
      BY <1>17 DEF Restarting, PublishersLeft, Unsubscribe
    <2>2. \A s \in Streams :
            stream'[s] = stream[s] \/ (call[s] = "settled" /\ \E u \in A : s \in controllers[u])
      <3>1. A \in SUBSET Tracks
        OBVIOUS
      <3> HIDE DEF A
      <3> QED
        BY <2>1, <3>1, FedAreSettled
    <2>3. \A u \in Tracks \ A : controllers'[u] = controllers[u]
      BY <1>17 DEF Restarting, PublishersLeft, Unsubscribe
    <2>4. \A u \in A : controllers'[u] = {}
      BY <1>17 DEF Restarting, PublishersLeft, Unsubscribe
    <2>5. strays \subseteq strays'
      BY <1>17 DEF Restarting, PublishersLeft, Unsubscribe
    <2>6. A \subseteq Tracks
      OBVIOUS
    <2> HIDE DEF A
    <2>7. ASSUME NEW u \in Tracks \ strays', NEW r \in controllers'[u] PROVE stream'[r] = "readable"
      BY <2>3, <2>4, <2>5, <2>7, <2>6, <2>2
    <2> QED
      BY <2>7
  <1>18. ASSUME SignalRestarted PROVE FedIsReadable'
    BY <1>18 DEF SignalRestarted
  <1>19. ASSUME Restarted PROVE FedIsReadable'
    BY <1>19 DEF Restarted
  <1>20. ASSUME Reset PROVE FedIsReadable'
    <2> DEFINE A == {u \in descriptors : sub[u] = "active"}
    <2>1. stream' = Ended(FedBy(A), "closed") /\ UNCHANGED trackOf
      BY <1>20 DEF Reset, Unpublish
    <2>2. \A s \in Streams :
            stream'[s] = stream[s] \/ (call[s] = "settled" /\ \E u \in A : s \in controllers[u])
      <3>1. A \in SUBSET Tracks
        OBVIOUS
      <3> HIDE DEF A
      <3> QED
        BY <2>1, <3>1, FedAreSettled
    <2>3. \A u \in A : controllers'[u] = {}
      BY <1>20 DEF Reset, Unpublish
    <2>4. strays \subseteq strays'
      BY <1>20 DEF Reset, Unpublish
    <2>5. A \subseteq Tracks
      OBVIOUS
    <2> HIDE DEF A
    <2>6. ASSUME NEW u \in Tracks \ strays', NEW r \in controllers'[u] PROVE stream'[r] = "readable"
      BY <2>3, <2>4, <2>6, <2>5, <2>2, <1>20 DEF Reset, Unpublish
    <2> QED
      BY <2>6
  <1>21. ASSUME UNCHANGED vars PROVE FedIsReadable'
    BY <1>21 DEF vars
  <1> QED
    BY <1>1, <1>2, <1>3, <1>4, <1>5, <1>6, <1>7, <1>8, <1>9, <1>10, <1>11, <1>12, <1>13,
       <1>14, <1>15, <1>16, <1>17, <1>18, <1>19, <1>20, <1>21
       DEF Next, Application, Continuation, Server, Session

\* The requests of a track, counted.
LEMMA WaitingIsFinite ==
  \A t \in Tracks : IsFiniteSet(Waiting(t)) /\ Cardinality(Waiting(t)) \in Nat
  <1>1. IsFiniteSet(Streams)
    BY FS_Interval, BoundsAssumption DEF Streams
  <1>2. \A t \in Tracks : Waiting(t) \in SUBSET Streams
    BY DEF Waiting
  <1>3. \A t \in Tracks : IsFiniteSet(Waiting(t))
    BY <1>1, <1>2, FS_Subset
  <1> QED
    BY <1>3, FS_CardinalityType

LEMMA WaitingFinitePrimed ==
  \A t \in Tracks : IsFiniteSet(Waiting(t)') /\ Cardinality(Waiting(t)') \in Nat
  <1>1. IsFiniteSet(Streams)
    BY FS_Interval, BoundsAssumption DEF Streams
  <1>2. \A t \in Tracks : Waiting(t)' \in SUBSET Streams
    BY DEF Waiting
  <1>3. \A t \in Tracks : IsFiniteSet(Waiting(t)')
    BY <1>1, <1>2, FS_Subset
  <1> QED
    BY <1>3, FS_CardinalityType

\* Nobody who waited stops to, and no request is added.
LEMMA RequestsKept ==
  ASSUME IInv, RequestsWait, StreamTypes', TrackTypes',
         \A t \in descriptors' \ strays' : sub'[t] = "pending" =>
           /\ t \in descriptors \ strays /\ sub[t] = "pending" /\ requests'[t] <= requests[t]
           /\ \A s \in Streams : trackOf[s] = t /\ call[s] = "waiting" =>
                 trackOf'[s] = t /\ call'[s] = "waiting"
  PROVE  RequestsWait'
  <1> SUFFICES ASSUME NEW t \in descriptors' \ strays', sub'[t] = "pending"
               PROVE  requests'[t] <= Cardinality(Waiting(t)')
    BY DEF RequestsWait
  <1>1. /\ t \in descriptors \ strays /\ sub[t] = "pending" /\ requests'[t] <= requests[t]
        /\ t \in Tracks /\ requests[t] \in Nat /\ requests'[t] \in Nat
    BY DEF IInv, TypeOK, TrackTypes
  <1>2. /\ IsFiniteSet(Waiting(t)') /\ Cardinality(Waiting(t)') \in Nat
        /\ Cardinality(Waiting(t)) \in Nat
    BY <1>1, WaitingIsFinite, WaitingFinitePrimed
  <1>3. Cardinality(Waiting(t)) <= Cardinality(Waiting(t)')
    BY <1>2, FS_Subset DEF Waiting
  <1> QED
    BY <1>1, <1>2, <1>3 DEF RequestsWait

\* A listener withdraws one request, its own or one that is not.
LEMMA WithdrawsRequests ==
  ASSUME IInv, RequestsWait, StreamTypes', TrackTypes', NEW s \in Streams, NEW timedOut \in BOOLEAN,
         Withdraws(s, timedOut), strays' = strays
  PROVE  RequestsWait'
  <1>1. PICK t \in Tracks : t = trackOf[s]
    BY DEF IInv, TypeOK, StreamTypes, AttachedToOwn, Withdraws
  <1>2. t \in Tracks /\ t = trackOf[s] /\ UNCHANGED <<descriptors, trackOf>>
    BY <1>1 DEF Withdraws
  <1>3. CASE CancelPending(t)
    BY <1>2, <1>3, RequestsKept DEF CancelPending, Rejecting, Waiting, IInv, TypeOK, TrackTypes, StreamTypes
  <1>4. CASE /\ requests[t] > 1 /\ sub' = sub
             /\ requests' = [requests EXCEPT ![t] = @ - 1]
             /\ call' = [call EXCEPT ![s] = IF @ = "waiting" THEN "failed" ELSE @]
    <2>1. ASSUME NEW u \in descriptors' \ strays', sub'[u] = "pending", u # t
          PROVE  requests'[u] <= Cardinality(Waiting(u)')
      BY <1>2, <1>4, <2>1 DEF RequestsWait, IInv, TypeOK, TrackTypes, Waiting, StreamTypes
    <2>2. ASSUME t \in descriptors \ strays, sub[t] = "pending"
          PROVE  requests'[t] <= Cardinality(Waiting(t)')
      <3>1. Cardinality(Waiting(t)') >= Cardinality(Waiting(t)) - 1
        <4> DEFINE W == Waiting(t)
        <4>1. IsFiniteSet(W) /\ Cardinality(W) \in Nat /\ Waiting(t)' = W \ {s}
          BY <1>2, WaitingIsFinite, <1>4 DEF Waiting, IInv, TypeOK, StreamTypes
        <4> HIDE DEF W
        <4>2. Cardinality(W \ {s}) = IF s \in W THEN Cardinality(W) - 1 ELSE Cardinality(W)
          BY <4>1, FS_RemoveElement
        <4> QED
          BY <4>1, <4>2 DEF W
      <3> QED
        BY <1>2, <3>1, WaitingIsFinite, WaitingFinitePrimed, <1>4, <2>2
          DEF RequestsWait, IInv, TypeOK, TrackTypes
    <2>3. descriptors' = descriptors /\ strays' = strays /\ sub' = sub
      BY <1>2, <1>4
    <2>4. ASSUME NEW u \in descriptors' \ strays', sub'[u] = "pending"
          PROVE  requests'[u] <= Cardinality(Waiting(u)')
      BY <2>2, <2>3, <2>4, <2>1
    <2> QED
      BY <2>4 DEF RequestsWait
  <1> QED
    BY <1>1, <1>3, <1>4, <1>2, RequestsKept DEF Withdraws, futureVars, IInv, TypeOK, TrackTypes

\* The requests that count wait.
LEMMA RequestsWaitStep ==
  ASSUME IInv, RejectedIsStray, RequestsWait, StreamTypes', TrackTypes', [Next]_vars
  PROVE  RequestsWait'
  <1> USE Numbers DEF IInv, TypeOK, TrackTypes, StreamTypes, SubscriptionState, SidsAreNames, AttachedToOwn,
          trackVars, futureVars, callVars, appVars, sfuVars
  <1>1. ASSUME NEW s \in Streams, NEW t \in Tracks, SubscribeUnknown(s, t) PROVE RequestsWait'
    BY <1>1, RequestsKept DEF SubscribeUnknown, Opens
  <1>2. ASSUME NEW s \in Streams, NEW t \in Tracks, SubscribeFirst(s, t) PROVE RequestsWait'
    <2>1. /\ t \in descriptors /\ sub' = [sub EXCEPT ![t] = "pending"]
          /\ requests' = [requests EXCEPT ![t] = 1] /\ call[s] = "idle"
          /\ call' = [call EXCEPT ![s] = "waiting"] /\ trackOf' = [trackOf EXCEPT ![s] = t]
          /\ UNCHANGED <<descriptors, strays>>
      BY <1>2 DEF SubscribeFirst, Opens
    <2>2. \A u \in Tracks : Waiting(u) \subseteq Waiting(u)'
      BY <2>1 DEF Waiting
    <2>3. 1 <= Cardinality(Waiting(t)')
      <3>1. s \in Waiting(t)'
        BY <2>1 DEF Waiting
      <3> QED
        BY <3>1, WaitingFinitePrimed, FS_EmptySet
    <2>4. ASSUME NEW u \in descriptors' \ strays', sub'[u] = "pending", u # t
          PROVE  requests'[u] <= Cardinality(Waiting(u)')
      BY <2>1, <2>4, <2>2, WaitingFinitePrimed, FS_Subset, WaitingIsFinite DEF RequestsWait
    <2> QED
      BY <2>1, <2>3, <2>4 DEF RequestsWait
  <1>3. ASSUME NEW s \in Streams, NEW t \in Tracks, SubscribeJoining(s, t) PROVE RequestsWait'
    <2>1. SubscribeJoining(s, t)
      BY <1>3
    <2>2. requests' = [requests EXCEPT ![t] = requests[t] + 1]
      BY <2>1 DEF SubscribeJoining
    <2>3. trackOf' = [trackOf EXCEPT ![s] = t] /\ call[s] = "idle"
      BY <2>1 DEF SubscribeJoining, Opens
    <2>4. /\ t \in descriptors /\ UNCHANGED <<sub, descriptors, strays>>
          /\ requests' = [requests EXCEPT ![t] = requests[t] + 1] /\ call[s] = "idle"
          /\ call' = [call EXCEPT ![s] = IF t \in rejected THEN "failed" ELSE "waiting"]
          /\ trackOf' = [trackOf EXCEPT ![s] = t] /\ sub[t] = "pending"
      BY <2>2, <2>3, <2>1 DEF SubscribeJoining
    <2>5. ASSUME t \notin strays, sub[t] = "pending" PROVE requests'[t] <= Cardinality(Waiting(t)')
      <3>1. t \notin rejected /\ requests[t] <= Cardinality(Waiting(t)) /\ requests'[t] = requests[t] + 1
        BY <2>2, <2>4, <2>5 DEF RejectedIsStray, RequestsWait
      <3>2. Cardinality(Waiting(t)') = Cardinality(Waiting(t)) + 1
        <4> DEFINE W == Waiting(t)
        <4>1. IsFiniteSet(W) /\ s \notin W /\ Waiting(t)' = W \cup {s}
          BY WaitingIsFinite, <2>4, <3>1 DEF Waiting
        <4> HIDE DEF W
        <4>2. Cardinality(W \cup {s}) = Cardinality(W) + 1
          BY <4>1, FS_AddElement
        <4> QED
          BY <4>1, <4>2 DEF W
      <3> QED
        BY <3>1, <3>2, WaitingIsFinite
    <2>6. ASSUME NEW u \in descriptors' \ strays', sub'[u] = "pending", u # t
          PROVE  requests'[u] <= Cardinality(Waiting(u)')
      BY <2>4, <2>6, WaitingFinitePrimed, FS_Subset, WaitingIsFinite DEF RequestsWait, Waiting
    <2> QED
      BY <2>4, <2>5, <2>6 DEF RequestsWait
  <1>4. ASSUME NEW s \in Streams, NEW t \in Tracks, SubscribeActive(s, t) PROVE RequestsWait'
    BY <1>4, RequestsKept DEF SubscribeActive, Opens
  <1>5. ASSUME NEW s \in Streams, Opened(s) PROVE RequestsWait'
    BY <1>5, RequestsKept DEF Opened, Cleanup, Unsubscribe, Ended
  <1>6. ASSUME NEW s \in Streams, Failed(s) PROVE RequestsWait'
    BY <1>6, RequestsKept DEF Failed, Ended
  <1>7. ASSUME NEW s \in Streams, AbortWaiting(s) PROVE RequestsWait'
    BY <1>7, WithdrawsRequests DEF AbortWaiting, Withdraws
  <1>8. ASSUME NEW s \in Streams, AbortOpen(s) PROVE RequestsWait'
    BY <1>8, RequestsKept DEF AbortOpen, Cleanup, Unsubscribe, Ended
  <1>9. ASSUME NEW s \in Streams, AbortUnheard(s) PROVE RequestsWait'
    BY <1>9, RequestsKept DEF AbortUnheard
  <1>10. ASSUME NEW s \in Streams, Cancel(s) PROVE RequestsWait'
    BY <1>10, RequestsKept DEF Cancel, Cleanup, Unsubscribe, Ended
  <1>11. ASSUME NEW s \in Streams, SubscribeTimeout(s) PROVE RequestsWait'
    BY <1>11, WithdrawsRequests DEF SubscribeTimeout, Withdraws
  <1>12. ASSUME NEW h \in Handles, NEW t \in Tracks, SubscriberHandle(h, t) PROVE RequestsWait'
    BY <1>12, RequestsKept DEF SubscriberHandle, HandleActivates, HandleReplaced, Waiting
  <1>13. ASSUME NEW t \in Tracks, TrackPublished(t) PROVE RequestsWait'
    BY <1>13, RequestsKept DEF TrackPublished
  <1>14. ASSUME NEW t \in Tracks, SidReassigned(t) PROVE RequestsWait'
    BY <1>14, RequestsKept DEF SidReassigned
  <1>15. ASSUME NEW t \in Tracks, TrackUnpublished(t) PROVE RequestsWait'
    <2>1. \A u \in descriptors' \ strays' : sub'[u] = "pending" =>
           /\ u \in descriptors \ strays /\ sub[u] = "pending" /\ requests'[u] <= requests[u]
           /\ \A r \in Streams : trackOf[r] = u /\ call[r] = "waiting" =>
                 trackOf'[r] = u /\ call'[r] = "waiting"
      BY <1>15 DEF TrackUnpublished, Unpublish
    <2> QED
      BY <2>1, RequestsKept
  <1>16. ASSUME NEW p \in Publishers, ParticipantDisconnected(p) PROVE RequestsWait'
    BY <1>16, RequestsKept DEF ParticipantDisconnected, PublishersLeft, Unsubscribe, Rejecting, Waiting
  <1>17. ASSUME Restarting PROVE RequestsWait'
    BY <1>17, RequestsKept DEF Restarting, PublishersLeft, Unsubscribe, Rejecting, Waiting
  <1>18. ASSUME SignalRestarted PROVE RequestsWait'
    BY <1>18, RequestsKept DEF SignalRestarted
  <1>19. ASSUME Restarted PROVE RequestsWait'
    BY <1>19, RequestsKept DEF Restarted
  <1>20. ASSUME Reset PROVE RequestsWait'
    BY <1>20, RequestsKept DEF Reset, Unpublish, Rejecting, Waiting
  <1>21. ASSUME UNCHANGED vars PROVE RequestsWait'
    BY <1>21, RequestsKept DEF vars
  <1> QED
    BY <1>1, <1>2, <1>3, <1>4, <1>5, <1>6, <1>7, <1>8, <1>9, <1>10, <1>11, <1>12, <1>13,
       <1>14, <1>15, <1>16, <1>17, <1>18, <1>19, <1>20, <1>21
       DEF Next, Application, Continuation, Server, Session

\* Whoever an active subscription belongs to keeps it.
LEMMA WantedKept ==
  ASSUME ActiveIsWanted,
         \A t \in descriptors' \ strays' : sub'[t] = "active" =>
           /\ t \in descriptors \ strays /\ sub[t] = "active"
           /\ \A s \in Streams :
                trackOf[s] = t /\ stream[s] = "readable" /\ (s \in controllers[t] \/ call[s] = "resolved")
                  => /\ trackOf'[s] = t /\ stream'[s] = "readable"
                     /\ s \in controllers'[t] \/ call'[s] = "resolved"
  PROVE  ActiveIsWanted'
  BY DEF ActiveIsWanted

\* A stream that ends leaves the subscription to another one, or nobody has it.
LEMMA CleanupLeavesWanted ==
  ASSUME IInv, WInv, NEW s \in Streams, NEW how, Cleanup(s, how), call[s] # "idle",
         strays \subseteq strays', descriptors' = descriptors, trackOf' = trackOf,
         \A r \in Streams \ {s} : call'[r] = call[r]
  PROVE  ActiveIsWanted'
  <1>1. PICK t \in Tracks : t = trackOf[s]
    BY DEF IInv, AttachedToOwn
  <1>2. TrackTypes /\ StreamTypes /\ AttachedToOwn
    BY DEF IInv, TypeOK
  <1>3. \A r \in Streams \ {s} : stream'[r] = stream[r]
    BY DEF Cleanup, Ended
  <1>4. \A u \in Tracks \ {t} : sub'[u] = sub[u] /\ controllers'[u] = controllers[u]
    BY <1>2, <1>1 DEF Cleanup, Unsubscribe, TrackTypes, trackVars
  <1>5. ASSUME t \in descriptors \ strays', sub'[t] = "active"
        PROVE  \E r \in Streams : trackOf[r] = t /\ stream'[r] = "readable" /\ r \in controllers'[t]
    <2>1. ~(controllers[t] \subseteq {s}) /\ controllers' = [controllers EXCEPT ![t] = @ \ {s}]
      BY <1>2, <1>1, <1>5 DEF Cleanup, Unsubscribe, TrackTypes, trackVars
    <2>2. PICK r \in controllers[t] : r # s
      BY <2>1
    <2>3. r \in controllers'[t]
      BY <1>2, <2>1, <2>2 DEF TrackTypes
    <2> QED
      BY <1>3, <2>2, <2>3, <1>2, <1>5 DEF WInv, FedIsReadable, TrackTypes, AttachedToOwn
  <1>6. ASSUME NEW u \in descriptors \ strays', sub'[u] = "active", u # t
        PROVE  \E r \in Streams : /\ trackOf[r] = u /\ stream'[r] = "readable"
                                  /\ r \in controllers'[u] \/ call'[r] = "resolved"
    BY <1>2, <1>4, <1>6, <1>1, <1>3 DEF TrackTypes, WInv, ActiveIsWanted
  <1> QED
    BY <1>5, <1>6 DEF ActiveIsWanted

\* A subscription that is granted belongs to those who wait for it.
LEMMA GrantedIsWanted ==
  ASSUME IInv, WInv, NEW h \in Handles, NEW t \in Tracks, SubscriberHandle(h, t), HandleActivates(h, t)
  PROVE  ActiveIsWanted'
  <1>1. TrackTypes /\ StreamTypes /\ SubscriptionState /\ WInv
    BY DEF IInv, TypeOK
  <1>2. /\ UNCHANGED <<descriptors, trackOf, stream, strays>> /\ t \in descriptors
        /\ sub[t] = "pending" /\ sub' = [sub EXCEPT ![t] = "active"]
        /\ controllers' = [controllers EXCEPT ![t] = {}]
        /\ call' = [s \in Streams |-> IF s \in Waiting(t) THEN "resolved" ELSE call[s]]
    BY DEF SubscriberHandle, HandleActivates, appVars
  <1>3. ASSUME NEW u \in descriptors' \ strays', sub'[u] = "active", u # t
        PROVE  \E r \in Streams : /\ trackOf[r] = u /\ stream[r] = "readable"
                                  /\ r \in controllers'[u] \/ call'[r] = "resolved"
    BY <1>1, <1>2, <1>3 DEF TrackTypes, WInv, ActiveIsWanted, Waiting
  <1> QED
    BY <1>2, <1>3, <1>1, WaitingIsFinite, FS_EmptySet
      DEF ActiveIsWanted, SubscriptionState, TrackTypes, WInv, RequestsWait, Waiting, UnendedIsReadable

\* An active subscription stays somebody's, or is given back.
LEMMA ActiveIsWantedStep ==
  ASSUME IInv, WInv, [Next]_vars
  PROVE  ActiveIsWanted'
  <1> USE Numbers DEF IInv, TypeOK, TrackTypes, StreamTypes, SubscriptionState, SidsAreNames, AttachedToOwn,
          trackVars, futureVars, callVars, appVars, sfuVars, WInv, UnendedIsReadable, ActiveIsWanted
  <1>1. ASSUME NEW s \in Streams, NEW t \in Tracks, SubscribeUnknown(s, t) PROVE ActiveIsWanted'
    BY <1>1, WantedKept DEF SubscribeUnknown, Opens
  <1>2. ASSUME NEW s \in Streams, NEW t \in Tracks, SubscribeFirst(s, t) PROVE ActiveIsWanted'
    BY <1>2, WantedKept DEF SubscribeFirst, Opens
  <1>3. ASSUME NEW s \in Streams, NEW t \in Tracks, SubscribeJoining(s, t) PROVE ActiveIsWanted'
    BY <1>3, WantedKept DEF SubscribeJoining, Opens
  <1>4. ASSUME NEW s \in Streams, NEW t \in Tracks, SubscribeActive(s, t) PROVE ActiveIsWanted'
    BY <1>4, WantedKept DEF SubscribeActive, Opens
  <1>5. ASSUME NEW s \in Streams, Opened(s) PROVE ActiveIsWanted'
    <2>1. call[s] = "resolved" /\ call' = [call EXCEPT ![s] = "settled"] /\ UNCHANGED <<trackOf, strays>>
      BY <1>5 DEF Opened
    <2>2. PICK t \in Tracks : t = trackOf[s]
      BY <2>1
    <2>3. CASE Cleanup(s, "errored")
      <3>1. \A r \in Streams \ {s} : call'[r] = call[r]
        BY <2>1
      <3> QED
        BY <2>1, <2>3, <3>1, CleanupLeavesWanted DEF Cleanup, Unsubscribe
    <2>4. CASE (t \notin descriptors \/ sub[t] # "active") /\ stream' = Ended({s}, "errored") /\ UNCHANGED trackVars
      <3>1. UNCHANGED <<descriptors, sub, controllers, trackOf, strays>>
        BY <2>1, <2>4
      <3>2. ASSUME NEW u \in descriptors \ strays, sub[u] = "active"
            PROVE  \E r \in Streams : /\ trackOf[r] = u /\ stream'[r] = "readable"
                                      /\ r \in controllers[u] \/ call'[r] = "resolved"
        <4>1. PICK r \in Streams : /\ trackOf[r] = u /\ stream[r] = "readable"
                                   /\ r \in controllers[u] \/ call[r] = "resolved"
          BY <3>2
        <4>2. r # s
          BY <2>2, <2>4, <3>2, <4>1
        <4> QED
          BY <4>1, <4>2, <2>1, <2>4 DEF Ended
      <3> QED
        BY <3>1, <3>2 DEF ActiveIsWanted
    <2> QED
      BY <1>5, <2>2, <2>3, <2>4, <2>1 DEF Opened, UnendedIsReadable, ActiveIsWanted
  <1>6. ASSUME NEW s \in Streams, Failed(s) PROVE ActiveIsWanted'
    BY <1>6, WantedKept DEF Failed, Ended
  <1>7. ASSUME NEW s \in Streams, AbortWaiting(s) PROVE ActiveIsWanted'
    BY <1>7, WantedKept DEF AbortWaiting, Withdraws, CancelPending, Rejecting, Waiting
  <1>8. ASSUME NEW s \in Streams, AbortOpen(s) PROVE ActiveIsWanted'
    BY <1>8, CleanupLeavesWanted DEF AbortOpen, Fires, Cleanup, Unsubscribe
  <1>9. ASSUME NEW s \in Streams, AbortUnheard(s) PROVE ActiveIsWanted'
    BY <1>9, WantedKept DEF AbortUnheard
  <1>10. ASSUME NEW s \in Streams, Cancel(s) PROVE ActiveIsWanted'
    BY <1>10, CleanupLeavesWanted DEF Cancel, Cleanup, Unsubscribe
  <1>11. ASSUME NEW s \in Streams, SubscribeTimeout(s) PROVE ActiveIsWanted'
    BY <1>11, WantedKept DEF SubscribeTimeout, Withdraws, CancelPending, Rejecting, Waiting
  <1>12. ASSUME NEW h \in Handles, NEW t \in Tracks, SubscriberHandle(h, t) PROVE ActiveIsWanted'
    <2>1. CASE HandleReplaced(h, t)
      BY <1>12, <2>1 DEF SubscriberHandle, HandleReplaced, ActiveIsWanted
    <2> QED
      BY <1>12, <2>1, GrantedIsWanted DEF SubscriberHandle
  <1>13. ASSUME NEW t \in Tracks, TrackPublished(t) PROVE ActiveIsWanted'
    BY <1>13, WantedKept DEF TrackPublished
  <1>14. ASSUME NEW t \in Tracks, SidReassigned(t) PROVE ActiveIsWanted'
    BY <1>14, WantedKept DEF SidReassigned
  <1>15. ASSUME NEW t \in Tracks, TrackUnpublished(t) PROVE ActiveIsWanted'
    <2> DEFINE A == {u \in {t} : sub[u] = "active"}
    <2>1. stream' = Ended(FedBy(A), "closed") /\ A \in SUBSET Tracks /\ A \subseteq {t}
      BY <1>15 DEF TrackUnpublished, Unpublish
    <2> HIDE DEF A
    <2>2. \A r \in Streams : stream'[r] = stream[r] \/ trackOf[r] = t
      BY <2>1, FedAreSettled
    <2>3. \A u \in Tracks \ {t} : controllers'[u] = controllers[u]
      BY <1>15 DEF TrackUnpublished, Unpublish
    <2> QED
      BY <2>2, <2>3, <1>15 DEF ActiveIsWanted, TrackUnpublished
  <1>16. ASSUME NEW p \in Publishers, ParticipantDisconnected(p) PROVE ActiveIsWanted'
    <2> DEFINE A == {u \in {t \in descriptors : PublisherOf[t] \in {p}} : sub[u] = "active"}
    <2>1. \A u \in A : sub'[u] # "active"
      BY <1>16 DEF ParticipantDisconnected, PublishersLeft, Unsubscribe
    <2>2. stream' = Ended(FedBy(A), "closed") /\ A \in SUBSET Tracks
      BY <1>16 DEF ParticipantDisconnected, PublishersLeft
    <2>3. UNCHANGED <<trackOf, descriptors>> /\ strays \subseteq strays'
      BY <1>16 DEF ParticipantDisconnected, PublishersLeft
    <2>4. \A u \in Tracks \ A : controllers'[u] = controllers[u] /\ sub'[u] = sub[u]
      BY <1>16 DEF ParticipantDisconnected, PublishersLeft, Unsubscribe
    <2>5. \A r \in Streams : call[r] = "resolved" => call'[r] = "resolved"
      BY <1>16 DEF ParticipantDisconnected, PublishersLeft, Rejecting, Waiting
    <2> HIDE DEF A
    <2>6. \A r \in Streams : stream'[r] = stream[r] \/ trackOf[r] \in A
      BY <2>2, FedAreSettled
    <2> QED
      BY <2>6, <2>3, <2>4, <2>5, <2>1 DEF ActiveIsWanted
  <1>17. ASSUME Restarting PROVE ActiveIsWanted'
    <2> DEFINE A == {u \in {t \in descriptors : PublisherOf[t] \in Publishers} : sub[u] = "active"}
    <2>1. \A u \in A : sub'[u] # "active"
      BY <1>17 DEF Restarting, PublishersLeft, Unsubscribe
    <2>2. stream' = Ended(FedBy(A), "closed") /\ A \in SUBSET Tracks
      BY <1>17 DEF Restarting, PublishersLeft
    <2>3. UNCHANGED <<trackOf, descriptors>> /\ strays \subseteq strays'
      BY <1>17 DEF Restarting, PublishersLeft
    <2>4. \A u \in Tracks \ A : controllers'[u] = controllers[u] /\ sub'[u] = sub[u]
      BY <1>17 DEF Restarting, PublishersLeft, Unsubscribe
    <2>5. \A r \in Streams : call[r] = "resolved" => call'[r] = "resolved"
      BY <1>17 DEF Restarting, PublishersLeft, Rejecting, Waiting
    <2> HIDE DEF A
    <2>6. \A r \in Streams : stream'[r] = stream[r] \/ trackOf[r] \in A
      BY <2>2, FedAreSettled
    <2> QED
      BY <2>6, <2>3, <2>4, <2>5, <2>1 DEF ActiveIsWanted
  <1>18. ASSUME SignalRestarted PROVE ActiveIsWanted'
    BY <1>18, WantedKept DEF SignalRestarted
  <1>19. ASSUME Restarted PROVE ActiveIsWanted'
    BY <1>19, WantedKept DEF Restarted
  <1>20. ASSUME Reset PROVE ActiveIsWanted'
    BY <1>20 DEF Reset
  <1>21. ASSUME UNCHANGED vars PROVE ActiveIsWanted'
    BY <1>21, WantedKept DEF vars
  <1> QED
    BY <1>1, <1>2, <1>3, <1>4, <1>5, <1>6, <1>7, <1>8, <1>9, <1>10, <1>11, <1>12, <1>13,
       <1>14, <1>15, <1>16, <1>17, <1>18, <1>19, <1>20, <1>21
       DEF Next, Application, Continuation, Server, Session

-----------------------------------------------------------------------------
\* The parts together are inductive.
LEMMA Invariance == Spec => []IInv
  <1>1. IInv /\ [Next]_vars => IInv'
    <2> SUFFICES ASSUME IInv, [Next]_vars PROVE IInv'
      OBVIOUS
    <2>1. RoutesAreExact' /\ OpenIsServed' /\ SfuAgrees'
      BY RoutesAreExactStep, OpenIsServedStep, SfuAgreesStep
    <2> QED
      BY <2>1, TrackTypesStep, SfuTypesStep, StreamTypesStep, SubscriptionStateStep, SidsAreNamesStep,
         AttachedToOwnStep, DownIsForgottenStep DEF IInv, TypeOK
  <1> QED
    BY InitInv, <1>1, PTL DEF Spec

\* The manager's state keeps its types, those of SubscriptionState included.
THEOREM ManagerTypes == Spec => []TypeOK
  BY Invariance, PTL DEF IInv

\* IncomingDataTrackManager's index routes the handle of every active
\* subscription to its track's present SID, and no other handle, as long as the
\* SFU gives no handle of an active track away.
THEOREM IndexIsExact == Spec => []RoutesAreExact
  BY Invariance, PTL DEF IInv

\* A stream that openSubscriptionStream returned and that can still be read is
\* attached to an active subscription of a published track.
THEOREM ReadersAreServed == Spec => []OpenIsServed
  BY Invariance, PTL DEF IInv

\* What the SFU was last told of a published track is what the manager believes.
THEOREM SubscriptionsAgree == Spec => []SfuAgrees
  BY Invariance, PTL DEF IInv

\* IncomingDataTrackManager: what is routed, read and asked of the SFU agrees with the
\* descriptors, for all sizes.
THEOREM SubscriptionsHold == Spec => []SubscriptionsAreSound
  <1>1. TypeOK /\ RoutesAreExact /\ OpenIsServed /\ SfuAgrees => SubscriptionsAreSound
    BY DEF SubscriptionsAreSound
  <1> QED
    BY <1>1, ManagerTypes, IndexIsExact, ReadersAreServed, SubscriptionsAgree, PTL

\* IncomingDataTrackManager: an active subscription belongs to a stream that can be read or
\* is about to be handed over; only a cancel or a publisher's leave while the request was on
\* its way leaves one to nobody.
THEOREM SubscriptionsAreWanted == Spec => []ActiveIsWanted
  <1>1. Init => WInv
    BY Numbers DEF Init, WInv, RejectedIsStray, RequestsWait, UnendedIsReadable, FedIsReadable,
                   ActiveIsWanted
  <1>2. IInv /\ IInv' /\ WInv /\ [Next]_vars => WInv'
    BY RejectedIsStrayStep, RequestsWaitStep, UnendedStep, FedStep, ActiveIsWantedStep DEF IInv, TypeOK, WInv
  <1>3. WInv => ActiveIsWanted
    BY DEF WInv
  <1> QED
    BY <1>1, <1>2, <1>3, Invariance, PTL DEF Spec

-----------------------------------------------------------------------------

AllHandles == 1..MaxHandle
AllNumbers == 0..(Modulus - 1)

Descriptor == [handle : AllHandles, pub : Pubs, type : {"pending", "active"}, state : {"published", "republishing"}]
Call == [at : {"none", "waiting", "published", "failed", "over", "stuck"}, handle : 0..MaxHandle, listening : BOOLEAN]
Request == [op : {"publish", "unpublish"}, handle : AllHandles]
Answer == [op : {"published", "refused", "unpublished"}, handle : AllHandles]
Signal == [requests : Seq(Request), held : Seq(Request), answers : Seq(Answer)]
Markers == {"single", "start", "inter", "final"}
Packet == [handle : AllHandles, frame : Nat \ {0}, number : AllNumbers, sequence : AllNumbers, marker : Markers, chunk : Nat]
Push == [pub : Pubs, handle : AllHandles, frame : Nat \ {0}, number : AllNumbers, next : 1..3]
Partial == [number : AllNumbers, start : AllNumbers, payloads : SUBSET [at : AllNumbers, chunk : [frame : Nat \ {0}, chunk : Nat]]]

\* The manager and the signal connection.
ControlTypes ==
  /\ allocated \in Nat /\ resetting \in Nat
  /\ descriptorMap \in Seq(Descriptor)
  /\ calls \in [Pubs -> Call] /\ unpublishing \in [Pubs -> BOOLEAN]
  /\ connection \in {"up", "resuming", "restarting", "gone"}
  /\ signal \in Signal
  /\ server \subseteq AllHandles /\ orphans \subseteq AllHandles

\* The way of a frame from tryPush to the subscriber.
FlowTypes ==
  /\ flush \in [Pubs -> [flushed : BOOLEAN, waits : BOOLEAN, attached : BOOLEAN]]
  /\ inFlight \in [AllHandles -> Nat]
  /\ packetizer \in [Pubs -> [sequence : AllNumbers, frame : AllNumbers]]
  /\ channel \in [buffered : Nat, waiting : Seq(Packet), first : {"checks", "parked", "woken"}]
  /\ net \in Seq(Packet) /\ pushes \in Seq(Push)
  /\ partials \in [AllHandles -> Seq(Partial)] /\ \A h \in AllHandles : Len(partials[h]) <= MaxPartials

\* Only frames that were made are on the way.
FrameTypes ==
  /\ frames = [made |-> frames.made, chunks |-> frames.chunks, delivered |-> frames.delivered, disturbed |-> frames.disturbed]
  /\ frames.made \in Nat /\ frames.chunks \in Seq(1..3) /\ Len(frames.chunks) = frames.made
  /\ \A i \in DOMAIN pushes : pushes[i].frame <= frames.made /\ pushes[i].next <= frames.chunks[pushes[i].frame]
  /\ \A i \in DOMAIN net : net[i].frame <= frames.made
  /\ \A i \in DOMAIN channel.waiting : channel.waiting[i].frame <= frames.made

DataTypes == left \in [Kinds -> Nat] /\ FlowTypes /\ FrameTypes

-----------------------------------------------------------------------------
\* Each descriptor is one call's, under the handle of that call alone. A call that waits has a pending
\* one, unless reset has rejected it, and one that succeeded has an active one or none.
HandlesDiffer == \A i, j \in DOMAIN descriptorMap : descriptorMap[i].handle = descriptorMap[j].handle => i = j

IsOwned(i) ==
  LET d == descriptorMap[i] c == calls[d.pub] IN
  /\ c.handle = d.handle
  /\ d.type = "pending" => c.at = (IF i < resetting THEN "failed" ELSE "waiting")
  /\ d.type = "active" => c.at = (IF connection = "gone" THEN "over" ELSE "published")
  /\ resetting = 0 => d.handle <= allocated
  /\ connection = "gone" /\ resetting = 0 => d.type = "pending"
DescriptorsAreOwned == \A i \in DOMAIN descriptorMap : IsOwned(i)

WaitingHaveDescriptors ==
  \A p \in Pubs : calls[p].at = "waiting" /\ calls[p].handle \notin orphans =>
    \E i \in DOMAIN descriptorMap : descriptorMap[i].type = "pending" /\ descriptorMap[i].pub = p

PublishedAreDistinct ==
  /\ \A p, q \in Pubs : calls[p].at = "published" /\ calls[q].at = "published" /\ calls[p].handle = calls[q].handle => p = q
  /\ \A p \in Pubs, i \in DOMAIN descriptorMap :
       calls[p].at = "published" /\ descriptorMap[i].type = "pending" => calls[p].handle # descriptorMap[i].handle
  /\ \A p \in Pubs : calls[p].at = "published" => connection # "gone" /\ calls[p].handle <= allocated
  /\ \A p \in Pubs : calls[p].at \in {"published", "over"} => ~calls[p].listening

\* Who waits for the end of a publication has a descriptor that an answer, or reset, will find.
UnpublishingIsOwned ==
  \A p \in Pubs : unpublishing[p] =>
    /\ calls[p].at \in {"published", "over", "stuck"}
    /\ calls[p].at # "stuck" /\ calls[p].handle \notin orphans =>
         /\ calls[p].at = "over" => connection = "gone"
         /\ \E i \in DOMAIN descriptorMap : descriptorMap[i].type = "active" /\ descriptorMap[i].pub = p /\ i >= resetting

\* Reset is past at most all of them.
ResetIsWithin == resetting <= Len(descriptorMap) + 1

Owned == ResetIsWithin /\ HandlesDiffer /\ DescriptorsAreOwned /\ WaitingHaveDescriptors /\ PublishedAreDistinct /\ UnpublishingIsOwned

-----------------------------------------------------------------------------
\* The connection decides what can be on the way at all.
WireIsConnected ==
  /\ connection # "gone" => resetting = 0
  /\ connection \in {"up", "gone"} => signal.held = <<>>
  /\ connection # "up" => signal.requests = <<>> /\ signal.answers = <<>>
  /\ connection \in {"restarting", "gone"} => server = {}

\* Nothing was said of a handle that was not given out.
Fresh ==
  /\ \A h \in server : h <= allocated
  /\ \A i \in DOMAIN signal.requests : signal.requests[i].handle <= allocated
  /\ \A i \in DOMAIN signal.held : signal.held[i].handle <= allocated
  /\ \A i \in DOMAIN signal.answers : signal.answers[i].handle <= allocated

\* What the page has asked of the server in this session, sent or held.
Line == IF connection = "resuming" THEN signal.held ELSE signal.requests

\* The messages about a handle: that ask for it, give it up, answer, and end it.
Those(s, h, ops) == {i \in DOMAIN s : s[i].handle = h /\ s[i].op \in ops}
Asks(L, h)   == Those(L, h, {"publish"})
Ends(L, h)   == Those(L, h, {"unpublish"})
Tells(A, h)  == Those(A, h, {"published", "refused"})
Closes(A, h) == Those(A, h, {"unpublished"})

\* A handle is asked for once, before it is given up, and is answered in that order.
InOrder(h, L, A, S) ==
  /\ \A i, j \in Asks(L, h) : i = j
  /\ \A i \in Asks(L, h), j \in Ends(L, h) : i < j
  /\ \A i, j \in Tells(A, h) : i = j
  /\ \A i \in Tells(A, h), j \in Closes(A, h) : i < j
  /\ Asks(L, h) # {} => h \notin S /\ Tells(A, h) = {} /\ Closes(A, h) = {}
  /\ Closes(A, h) # {} => h \notin S
  /\ \A i \in Tells(A, h) : A[i].op = "published" => h \in S \/ Closes(A, h) # {}
  /\ \A i \in Tells(A, h) : A[i].op # "published" => h \notin S

\* What is on the way makes up for what the page, with descriptors D of which those of U are being
\* unpublished, and the server do not have in common.
Holds(D, h) == \E i \in DOMAIN D : D[i].handle = h

Converges(h, L, A, S, D, U) ==
  /\ ~Holds(D, h) /\ (h \in S \/ Asks(L, h) # {}) => Ends(L, h) # {}
  /\ \A i \in DOMAIN D : D[i].handle = h =>
       /\ D[i].type = "pending" => Ends(L, h) = {} /\ (h \in S \/ Closes(A, h) # {} => Tells(A, h) # {})
       /\ D[i].type = "active" /\ D[i].state = "published" =>
            Asks(L, h) = {} /\ Tells(A, h) = {} /\ (h \in S \/ Closes(A, h) # {})
       /\ D[i].type = "active" /\ D[i].state = "republishing" => Asks(L, h) # {} \/ Tells(A, h) # {}
       /\ D[i].type = "active" /\ U[D[i].pub] => Ends(L, h) # {} \/ Closes(A, h) # {}

MeetsAt(h) ==
  /\ InOrder(h, Line, signal.answers, server)
  /\ Converges(h, Line, signal.answers, server, descriptorMap, unpublishing)

Meets == connection \in {"up", "resuming"} => \A h \in AllHandles \ orphans : MeetsAt(h)

\* What the agreement needs, and with the types of what is pushed the inductive invariant.
Agreed == ControlTypes /\ Owned /\ WireIsConnected /\ Fresh /\ Meets
OutgoingInv == DataTypes /\ Agreed
-----------------------------------------------------------------------------
(* Sequences. *)

\* What there is once the element at k is gone.
LEMMA Removed ==
  ASSUME NEW S, NEW s \in Seq(S), NEW k \in 1..Len(s)
  PROVE  /\ RemoveAt(s, k) \in Seq(S) /\ Len(RemoveAt(s, k)) = Len(s) - 1
         /\ DOMAIN RemoveAt(s, k) = 1..(Len(s) - 1)
         /\ \A i \in 1..(Len(s) - 1) : RemoveAt(s, k)[i] = IF i < k THEN s[i] ELSE s[i + 1]
  <1> DEFINE front == SubSeq(s, 1, k - 1)  back == SubSeq(s, k + 1, Len(s))
  <1>1. Len(s) \in Nat /\ k \in Int /\ DOMAIN s = 1..Len(s)
    BY LenProperties
  <1>2. front \in Seq(S) /\ Len(front) = k - 1 /\ \A i \in 1..(k - 1) : front[i] = s[i]
    BY <1>1, ElementOfSeq, SubSeqProperties
  <1>3. back \in Seq(S) /\ Len(back) = Len(s) - k /\ \A i \in 1..(Len(s) - k) : back[i] = s[k + i]
    <2>1. /\ back \in Seq(S) /\ Len(back) = (IF k + 1 <= Len(s) THEN Len(s) - (k + 1) + 1 ELSE 0)
          /\ \A i \in 1..(Len(s) - (k + 1) + 1) : back[i] = s[(k + 1) + i - 1]
      BY <1>1, SubSeqProperties, ElementOfSeq
    <2> HIDE DEF back
    <2>2. Len(back) = Len(s) - k
      <3>1. Len(back) = (IF k + 1 <= Len(s) THEN Len(s) - (k + 1) + 1 ELSE 0)
        BY <2>1
      <3>2. k <= Len(s) /\ k \in Nat
        BY <1>1
      <3>3. CASE k + 1 <= Len(s)
        BY <1>1, <3>1, <3>2, <3>3
      <3>4. CASE ~(k + 1 <= Len(s))
        <4>1. k \in Int /\ Len(s) \in Int
          BY <1>1
        <4>2. k = Len(s)
          BY <3>2, <3>4, <4>1
        <4> QED
          BY <1>1, <3>1, <3>4, <4>2
      <3> QED
        BY <3>3, <3>4
    <2>3. ASSUME NEW i \in 1..(Len(s) - k) PROVE back[i] = s[k + i]
      <3>1. i \in 1..(Len(s) - (k + 1) + 1) /\ (k + 1) + i - 1 = k + i
        BY <1>1
      <3> QED
        BY <2>1, <3>1
    <2> QED
      BY <2>1, <2>2, <2>3
  <1>4. RemoveAt(s, k) = front \o back
    BY DEF RemoveAt
  <1> HIDE DEF front, back
  <1>5. /\ front \o back \in Seq(S) /\ Len(front \o back) = Len(s) - 1
        /\ \A i \in 1..(Len(s) - 1) : (front \o back)[i] = IF i <= Len(front) THEN front[i] ELSE back[i - Len(front)]
    <2>1. /\ front \o back \in Seq(S) /\ Len(front \o back) = Len(front) + Len(back)
          /\ \A i \in 1..(Len(front) + Len(back)) : (front \o back)[i] = IF i <= Len(front) THEN front[i] ELSE back[i - Len(front)]
      BY <1>2, <1>3, ConcatProperties
    <2> QED
      BY <2>1, <1>1, <1>2, <1>3
  <1>6. ASSUME NEW i \in 1..(Len(s) - 1) PROVE (front \o back)[i] = IF i < k THEN s[i] ELSE s[i + 1]
    <2>1. CASE ~(i < k)
      BY <2>1, <1>1, <1>2, <1>3, <1>5
    <2> QED
      BY <2>1, <1>1, <1>2, <1>5
  <1> QED
    BY <1>4, <1>5, <1>6, LenProperties

\* The sequence with one more element.
LEMMA Appended ==
  ASSUME NEW S, NEW s \in Seq(S), NEW e \in S
  PROVE  /\ Append(s, e) \in Seq(S) /\ DOMAIN Append(s, e) = 1..(Len(s) + 1)
         /\ DOMAIN s = 1..Len(s) /\ Len(s) \in Nat /\ Len(Append(s, e)) = Len(s) + 1
         /\ Append(s, e)[Len(s) + 1] = e
         /\ \A i \in 1..Len(s) : Append(s, e)[i] = s[i]
  OBVIOUS

\* The sequence without its first element.
LEMMA Shifted ==
  ASSUME NEW S, NEW s \in Seq(S), s # <<>>
  PROVE  /\ Tail(s) \in Seq(S) /\ DOMAIN Tail(s) = 1..(Len(s) - 1)
         /\ DOMAIN s = 1..Len(s) /\ Len(s) \in Nat \ {0} /\ Len(Tail(s)) = Len(s) - 1
         /\ Head(s) = s[1] /\ Head(s) \in S /\ 1 \in DOMAIN s
         /\ \A i \in 1..(Len(s) - 1) : Tail(s)[i] = s[i + 1]
  OBVIOUS
-----------------------------------------------------------------------------
(* Messages on the way. *)

\* The messages about a handle, with one more at the end.
LEMMA ThoseAppended ==
  ASSUME NEW S, NEW s \in Seq(S), NEW e \in S, NEW h, NEW O
  PROVE  /\ Those(s, h, O) \subseteq 1..Len(s) /\ Len(s) \in Nat
         /\ e.handle = h /\ e.op \in O => Those(Append(s, e), h, O) = Those(s, h, O) \union {Len(s) + 1}
         /\ ~(e.handle = h /\ e.op \in O) => Those(Append(s, e), h, O) = Those(s, h, O)
         /\ \A i \in Those(s, h, O) : Append(s, e)[i] = s[i]
  BY Appended DEF Those

\* The messages about a handle, without the first.
LEMMA ThoseShifted ==
  ASSUME NEW S, NEW s \in Seq(S), s # <<>>, NEW h, NEW O
  PROVE  /\ Those(Tail(s), h, O) \subseteq Nat \ {0} /\ Those(s, h, O) \subseteq Nat \ {0}
         /\ 1 \in Those(s, h, O) <=> Head(s).handle = h /\ Head(s).op \in O
         /\ \A i \in Those(Tail(s), h, O) : i + 1 \in Those(s, h, O) /\ Tail(s)[i] = s[i + 1]
         /\ \A i \in Those(s, h, O) : i # 1 => i - 1 \in Those(Tail(s), h, O)
  BY Shifted DEF Those

\* A request about another handle changes nothing, one to publish is the first about its handle, and
\* one to unpublish comes last.
LEMMA OrderOfRequests ==
  ASSUME NEW L \in Seq(Request), NEW A \in Seq(Answer), NEW S, NEW h, NEW r \in Request
  PROVE  /\ r.handle # h =>
              /\ Asks(Append(L, r), h) = Asks(L, h) /\ Ends(Append(L, r), h) = Ends(L, h)
              /\ InOrder(h, L, A, S) => InOrder(h, Append(L, r), A, S)
         /\ r.handle = h /\ r.op = "publish" =>
              /\ Asks(Append(L, r), h) # {} /\ Ends(Append(L, r), h) = Ends(L, h)
              /\ Asks(L, h) = {} /\ Ends(L, h) = {} /\ Tells(A, h) = {} /\ Closes(A, h) = {} /\ h \notin S => InOrder(h, Append(L, r), A, S)
         /\ r.handle = h /\ r.op = "unpublish" =>
              /\ Asks(Append(L, r), h) = Asks(L, h) /\ Ends(Append(L, r), h) # {}
              /\ InOrder(h, L, A, S) => InOrder(h, Append(L, r), A, S)
  <1>1. /\ Asks(L, h) \subseteq 1..Len(L) /\ Len(L) \in Nat
        /\ r.handle = h /\ r.op = "publish" => Asks(Append(L, r), h) = Asks(L, h) \union {Len(L) + 1}
        /\ ~(r.handle = h /\ r.op = "publish") => Asks(Append(L, r), h) = Asks(L, h)
    <2> DEFINE O == {"publish"}
    <2>1. r.op \in O <=> r.op = "publish"
      OBVIOUS
    <2>2. Asks(L, h) = Those(L, h, O) /\ Asks(Append(L, r), h) = Those(Append(L, r), h, O)
      BY DEF Asks
    <2> HIDE DEF O
    <2>3. Those(L, h, O) \subseteq 1..Len(L) /\ Len(L) \in Nat
      BY ThoseAppended
    <2>4. r.handle = h /\ r.op \in O => Those(Append(L, r), h, O) = Those(L, h, O) \union {Len(L) + 1}
      BY ThoseAppended
    <2>5. ~(r.handle = h /\ r.op \in O) => Those(Append(L, r), h, O) = Those(L, h, O)
      BY ThoseAppended
    <2> QED
      BY <2>1, <2>2, <2>3, <2>4, <2>5
  <1>2. /\ Ends(L, h) \subseteq 1..Len(L)
        /\ r.handle = h /\ r.op = "unpublish" => Ends(Append(L, r), h) = Ends(L, h) \union {Len(L) + 1}
        /\ ~(r.handle = h /\ r.op = "unpublish") => Ends(Append(L, r), h) = Ends(L, h)
    <2> DEFINE O == {"unpublish"}
    <2>1. r.op \in O <=> r.op = "unpublish"
      OBVIOUS
    <2>2. Ends(L, h) = Those(L, h, O) /\ Ends(Append(L, r), h) = Those(Append(L, r), h, O)
      BY DEF Ends
    <2> HIDE DEF O
    <2>3. Those(L, h, O) \subseteq 1..Len(L) /\ Len(L) \in Nat
      BY ThoseAppended
    <2>4. r.handle = h /\ r.op \in O => Those(Append(L, r), h, O) = Those(L, h, O) \union {Len(L) + 1}
      BY ThoseAppended
    <2>5. ~(r.handle = h /\ r.op \in O) => Those(Append(L, r), h, O) = Those(L, h, O)
      BY ThoseAppended
    <2> QED
      BY <2>1, <2>2, <2>3, <2>4, <2>5
  <1>3. CASE r.handle = h /\ r.op = "unpublish"
    BY <1>1, <1>2, <1>3 DEF InOrder
  <1> QED
    BY <1>3, <1>1, <1>2 DEF Request, InOrder

\* An answer that is heard leaves the others in their order, and leaves nothing about its handle that it
\* should have come after.
LEMMA OrderOfHeard ==
  ASSUME NEW L \in Seq(Request), NEW A \in Seq(Answer), NEW S, NEW h, A # <<>>, InOrder(h, L, A, S)
  PROVE  /\ InOrder(h, L, Tail(A), S)
         /\ Head(A).handle # h => (Tells(Tail(A), h) = {} <=> Tells(A, h) = {}) /\ (Closes(Tail(A), h) = {} <=> Closes(A, h) = {})
         /\ Head(A).handle = h /\ Head(A).op # "unpublished" =>
              Tells(A, h) # {} /\ Tells(Tail(A), h) = {} /\ (Closes(Tail(A), h) = {} <=> Closes(A, h) = {})
         /\ Head(A).handle = h /\ Head(A).op = "published" => h \in S \/ Closes(A, h) # {}
         /\ Head(A).handle = h /\ Head(A).op = "refused" => h \notin S
         /\ Head(A).handle = h /\ Head(A).op = "unpublished" => Closes(A, h) # {} /\ Tells(A, h) = {} /\ Tells(Tail(A), h) = {}
  <1> DEFINE B == Tail(A)
  <1>1. Head(A) \in Answer /\ Head(A) = A[1]
    BY Shifted
  <1>2. /\ Tells(B, h) \subseteq Nat \ {0} /\ Tells(A, h) \subseteq Nat \ {0}
        /\ 1 \in Tells(A, h) <=> Head(A).handle = h /\ Head(A).op \in {"published", "refused"}
        /\ \A i \in Tells(B, h) : i + 1 \in Tells(A, h) /\ B[i] = A[i + 1]
        /\ \A i \in Tells(A, h) : i # 1 => i - 1 \in Tells(B, h)
    BY ThoseShifted DEF Tells
  <1>3. /\ Closes(B, h) \subseteq Nat \ {0} /\ Closes(A, h) \subseteq Nat \ {0}
        /\ 1 \in Closes(A, h) <=> Head(A).handle = h /\ Head(A).op = "unpublished"
        /\ \A i \in Closes(B, h) : i + 1 \in Closes(A, h)
        /\ \A i \in Closes(A, h) : i # 1 => i - 1 \in Closes(B, h)
    BY ThoseShifted DEF Closes
  <1> HIDE DEF B
  <1>4. 1 \in Tells(A, h) => Tells(B, h) = {}
    BY <1>2 DEF InOrder
  <1>5. \A i \in Tells(A, h) : Closes(B, h) = {} <=> Closes(A, h) = {}
    BY <1>3, <1>2 DEF InOrder
  <1>6. InOrder(h, L, B, S)
    BY <1>2, <1>3, <1>5 DEF InOrder
  <1>7. CASE Head(A).handle = h /\ Head(A).op # "unpublished"
    BY <1>1, <1>2, <1>7, <1>4, <1>5, <1>6 DEF Answer, InOrder, B
  <1>8. CASE Head(A).handle = h /\ Head(A).op = "unpublished"
    BY <1>3, <1>6, <1>8, <1>2 DEF B, InOrder
  <1> QED
    BY <1>7, <1>8, <1>2, <1>3, <1>6 DEF B
\* Requests after the first.
LEMMA RequestsShifted ==
  ASSUME NEW L \in Seq(Request), L # <<>>, NEW h
  PROVE  /\ Asks(Tail(L), h) \subseteq Nat \ {0} /\ Ends(Tail(L), h) \subseteq Nat \ {0}
         /\ Asks(L, h) \subseteq Nat \ {0} /\ Ends(L, h) \subseteq Nat \ {0}
         /\ 1 \in Asks(L, h) <=> Head(L).handle = h /\ Head(L).op = "publish"
         /\ 1 \in Ends(L, h) <=> Head(L).handle = h /\ Head(L).op = "unpublish"
         /\ \A i \in Asks(Tail(L), h) : i + 1 \in Asks(L, h)
         /\ \A i \in Ends(Tail(L), h) : i + 1 \in Ends(L, h)
         /\ \A i \in Asks(L, h) : i # 1 => i - 1 \in Asks(Tail(L), h)
         /\ \A i \in Ends(L, h) : i # 1 => i - 1 \in Ends(Tail(L), h)
  BY ThoseShifted DEF Asks, Ends

\* One answer more.
LEMMA AnswersAppended ==
  ASSUME NEW A \in Seq(Answer), NEW a \in Answer, NEW h
  PROVE  /\ Tells(A, h) \subseteq 1..Len(A) /\ Closes(A, h) \subseteq 1..Len(A) /\ Len(A) \in Nat
         /\ a.handle = h /\ a.op # "unpublished" =>
              Tells(Append(A, a), h) = Tells(A, h) \union {Len(A) + 1} /\ Closes(Append(A, a), h) = Closes(A, h)
         /\ a.handle = h /\ a.op = "unpublished" =>
              Tells(Append(A, a), h) = Tells(A, h) /\ Closes(Append(A, a), h) = Closes(A, h) \union {Len(A) + 1}
         /\ a.handle # h => Tells(Append(A, a), h) = Tells(A, h) /\ Closes(Append(A, a), h) = Closes(A, h)
         /\ Append(A, a)[Len(A) + 1] = a
         /\ \A i \in Tells(A, h) : Append(A, a)[i] = A[i]
  <1> DEFINE T == {"published", "refused"}  C == {"unpublished"}
  <1>1. /\ Tells(A, h) = Those(A, h, T) /\ Tells(Append(A, a), h) = Those(Append(A, a), h, T)
        /\ Closes(A, h) = Those(A, h, C) /\ Closes(Append(A, a), h) = Those(Append(A, a), h, C)
    BY DEF Tells, Closes
  <1>2. /\ a.op \in T <=> a.op # "unpublished"
        /\ a.op \in C <=> a.op = "unpublished"
    BY DEF Answer
  <1> HIDE DEF T, C
  <1> DEFINE Counted(O) ==
               /\ Those(A, h, O) \subseteq 1..Len(A) /\ Len(A) \in Nat
               /\ a.handle = h /\ a.op \in O => Those(Append(A, a), h, O) = Those(A, h, O) \union {Len(A) + 1}
               /\ ~(a.handle = h /\ a.op \in O) => Those(Append(A, a), h, O) = Those(A, h, O)
  <1>3. ASSUME NEW O PROVE Counted(O)
    BY ThoseAppended
  <1>4. Counted(T) /\ Counted(C)
    <2> HIDE DEF Counted
    <2> QED BY <1>3
  <1>5. Those(A, h, T) \subseteq 1..Len(A) /\ Those(A, h, C) \subseteq 1..Len(A) /\ Len(A) \in Nat
    BY <1>4
  <1>6. a.handle = h /\ a.op \in T => Those(Append(A, a), h, T) = Those(A, h, T) \union {Len(A) + 1}
    BY <1>4
  <1>7. ~(a.handle = h /\ a.op \in T) => Those(Append(A, a), h, T) = Those(A, h, T)
    BY <1>4
  <1>8. a.handle = h /\ a.op \in C => Those(Append(A, a), h, C) = Those(A, h, C) \union {Len(A) + 1}
    BY <1>4
  <1>9. ~(a.handle = h /\ a.op \in C) => Those(Append(A, a), h, C) = Those(A, h, C)
    BY <1>4
  <1> HIDE DEF Counted
  <1>10. Append(A, a)[Len(A) + 1] = a /\ \A i \in Those(A, h, T) : Append(A, a)[i] = A[i]
    BY <1>5, Appended
  <1> QED
    BY <1>1, <1>2, <1>5, <1>6, <1>7, <1>8, <1>9, <1>10

\* What becomes of the server's publications when it serves r and answers a.
ServedAs(r, a, S, T) ==
  /\ a.handle = r.handle
  /\ \/ r.op = "publish" /\ a.op = "published" /\ T = S \union {r.handle}
     \/ r.op = "publish" /\ a.op = "refused" /\ T = S
     \/ r.op = "unpublish" /\ a.op = "unpublished" /\ T = S \ {r.handle}

\* What serving r leaves about h: requests L become K, answers A become B, publications S become T.
AfterServing(h, r, L, A, S, K, B, T) ==
  /\ InOrder(h, K, B, T)
  /\ r.handle # h =>
       /\ h \in T <=> h \in S
       /\ Asks(K, h) = {} <=> Asks(L, h) = {}
       /\ Ends(K, h) = {} <=> Ends(L, h) = {}
       /\ Tells(B, h) = Tells(A, h) /\ Closes(B, h) = Closes(A, h)
  /\ r.handle = h /\ r.op = "publish" =>
       /\ Asks(L, h) # {} /\ Asks(K, h) = {}
       /\ Ends(K, h) = {} <=> Ends(L, h) = {}
       /\ Tells(B, h) # {}
  /\ r.handle = h /\ r.op = "unpublish" =>
       /\ Asks(K, h) = {} /\ Ends(L, h) # {} /\ h \notin T
       /\ Tells(B, h) = Tells(A, h) /\ Closes(B, h) # {}
       /\ Asks(L, h) = {}

\* A request that is served leaves everything in order: it is answered after what was answered before.
LEMMA OrderOfServed ==
  ASSUME NEW L \in Seq(Request), NEW A \in Seq(Answer), NEW S, NEW T, NEW h, NEW a \in Answer,
         L # <<>>, InOrder(h, L, A, S), ServedAs(Head(L), a, S, T)
  PROVE  AfterServing(h, Head(L), L, A, S, Tail(L), Append(A, a), T)
  <1> DEFINE K == Tail(L)  B == Append(A, a)
  <1>1. Head(L) \in Request
    BY Shifted
  <1>2. /\ Asks(K, h) \subseteq Nat \ {0} /\ Ends(K, h) \subseteq Nat \ {0}
        /\ Asks(L, h) \subseteq Nat \ {0} /\ Ends(L, h) \subseteq Nat \ {0}
        /\ 1 \in Asks(L, h) <=> Head(L).handle = h /\ Head(L).op = "publish"
        /\ 1 \in Ends(L, h) <=> Head(L).handle = h /\ Head(L).op = "unpublish"
        /\ \A i \in Asks(K, h) : i + 1 \in Asks(L, h)
        /\ \A i \in Ends(K, h) : i + 1 \in Ends(L, h)
        /\ \A i \in Asks(L, h) : i # 1 => i - 1 \in Asks(K, h)
        /\ \A i \in Ends(L, h) : i # 1 => i - 1 \in Ends(K, h)
    BY RequestsShifted
  <1>3. /\ Tells(A, h) \subseteq 1..Len(A) /\ Closes(A, h) \subseteq 1..Len(A) /\ Len(A) \in Nat
        /\ a.handle = h /\ a.op # "unpublished" => Tells(B, h) = Tells(A, h) \union {Len(A) + 1} /\ Closes(B, h) = Closes(A, h)
        /\ a.handle = h /\ a.op = "unpublished" => Tells(B, h) = Tells(A, h) /\ Closes(B, h) = Closes(A, h) \union {Len(A) + 1}
        /\ a.handle # h => Tells(B, h) = Tells(A, h) /\ Closes(B, h) = Closes(A, h)
        /\ B[Len(A) + 1] = a
        /\ \A i \in Tells(A, h) : B[i] = A[i]
    <2>1. a.handle = h /\ a.op # "unpublished" => Tells(B, h) = Tells(A, h) \union {Len(A) + 1} /\ Closes(B, h) = Closes(A, h)
      <3>1. a.handle = h /\ a.op # "unpublished" => Closes(B, h) = Closes(A, h)
        BY AnswersAppended
      <3> QED
        BY <3>1, AnswersAppended
    <2>2. a.handle = h /\ a.op = "unpublished" => Tells(B, h) = Tells(A, h) /\ Closes(B, h) = Closes(A, h) \union {Len(A) + 1}
      <3>1. a.handle = h /\ a.op = "unpublished" => Closes(B, h) = Closes(A, h) \union {Len(A) + 1}
        BY AnswersAppended
      <3> QED
        BY <3>1, AnswersAppended
    <2>3. B[Len(A) + 1] = a /\ \A i \in Tells(A, h) : B[i] = A[i]
      BY AnswersAppended
    <2> QED
      BY <2>1, <2>2, <2>3, AnswersAppended
  <1> HIDE DEF K, B
  <1>4. /\ \A i, j \in Asks(K, h) : i = j
        /\ \A i \in Asks(K, h), j \in Ends(K, h) : i < j
    BY <1>2 DEF InOrder
  <1>5. CASE Head(L).handle # h
    BY <1>5, <1>2, <1>3, <1>4 DEF ServedAs, InOrder, AfterServing, K, B
  <1>6. CASE Head(L).handle = h /\ Head(L).op = "publish"
    BY <1>2, <1>6, <1>3 DEF InOrder, ServedAs, AfterServing, K, B
  <1>7. CASE Head(L).handle = h /\ Head(L).op = "unpublish"
    BY <1>2, <1>7, <1>3 DEF ServedAs, InOrder, K, B, AfterServing
  <1> QED
    BY <1>1, <1>5, <1>6, <1>7 DEF Request

\* The messages about h once the server ends a publication itself and tells it with a.
AfterRevoking(h, a, L, A, B, S) ==
  /\ InOrder(h, L, B, S \ {a.handle})
  /\ a.handle # h => Tells(B, h) = Tells(A, h) /\ Closes(B, h) = Closes(A, h)
  /\ a.handle = h => Asks(L, h) = {} /\ Tells(B, h) = Tells(A, h) /\ Closes(B, h) # {}

\* So does the end of a publication that the server itself decides on.
LEMMA OrderOfRevoked ==
  ASSUME NEW L \in Seq(Request), NEW A \in Seq(Answer), NEW S, NEW h, NEW a \in Answer,
         InOrder(h, L, A, S), a.op = "unpublished", a.handle \in S
  PROVE  AfterRevoking(h, a, L, A, Append(A, a), S)
  <1> DEFINE B == Append(A, a)
  <1>1. /\ Tells(A, h) \subseteq 1..Len(A) /\ Closes(A, h) \subseteq 1..Len(A) /\ Len(A) \in Nat
        /\ a.handle = h /\ a.op = "unpublished" => Tells(B, h) = Tells(A, h) /\ Closes(B, h) = Closes(A, h) \union {Len(A) + 1}
        /\ a.handle # h => Tells(B, h) = Tells(A, h) /\ Closes(B, h) = Closes(A, h)
        /\ \A i \in Tells(A, h) : B[i] = A[i]
    <2>1. Tells(A, h) \subseteq 1..Len(A) /\ Closes(A, h) \subseteq 1..Len(A) /\ Len(A) \in Nat
      BY AnswersAppended
    <2>2. a.handle = h /\ a.op = "unpublished" => Tells(B, h) = Tells(A, h) /\ Closes(B, h) = Closes(A, h) \union {Len(A) + 1}
      <3>1. a.handle = h /\ a.op = "unpublished" => Tells(B, h) = Tells(A, h)
        BY AnswersAppended
      <3>2. a.handle = h /\ a.op = "unpublished" => Closes(B, h) = Closes(A, h) \union {Len(A) + 1}
        BY AnswersAppended
      <3> QED
        BY <3>1, <3>2
    <2>3. a.handle # h => Tells(B, h) = Tells(A, h) /\ Closes(B, h) = Closes(A, h)
      BY AnswersAppended
    <2>4. \A i \in Tells(A, h) : B[i] = A[i]
      BY AnswersAppended
    <2> QED
      BY <2>1, <2>2, <2>3, <2>4
  <1> HIDE DEF B
  <1>2. \A i \in Tells(A, h) : i < Len(A) + 1
    BY <1>1
  <1>3. CASE a.handle # h
    <2>1. InOrder(h, L, B, S \ {a.handle})
      BY <1>1, <1>3 DEF InOrder
    <2>20. AfterRevoking(h, a, L, A, B, S)
      BY <1>1, <1>3, <2>1 DEF AfterRevoking
    <2> QED
      BY <2>20 DEF B
  <1>4. CASE a.handle = h
    <2>1. Asks(L, h) = {} /\ Closes(A, h) = {}
      BY <1>4 DEF InOrder
    <2>2. Tells(B, h) = Tells(A, h) /\ Closes(B, h) = {Len(A) + 1}
      BY <1>1, <1>4, <2>1
    <2>3. \A i \in Tells(B, h), j \in Closes(B, h) : i < j
      BY <1>2, <2>2
    <2>4. \A i, j \in Tells(B, h) : i = j
      BY <2>2 DEF InOrder
    <2>5. \A i \in Tells(B, h) : B[i].op # "published" => FALSE
      BY <1>1, <1>4, <2>2 DEF InOrder
    <2>6. InOrder(h, L, B, S \ {a.handle})
      BY <1>4, <2>1, <2>2, <2>3, <2>4, <2>5 DEF InOrder
    <2>20. AfterRevoking(h, a, L, A, B, S)
      BY <1>4, <2>1, <2>2, <2>6 DEF AfterRevoking
    <2> QED
      BY <2>20 DEF B
  <1> QED
    BY <1>3, <1>4
-----------------------------------------------------------------------------
(* The descriptors. *)

\* Counting those that come before numbers the elements of a set one after the other.
LEMMA Ranks ==
  ASSUME NEW n \in Nat, NEW A \in SUBSET (1..n)
  PROVE  /\ Cardinality(A) \in Nat
         /\ \A i \in A : Cardinality({j \in A : j <= i}) \in 1..Cardinality(A)
         /\ \A i, k \in A : Cardinality({j \in A : j <= i}) = Cardinality({j \in A : j <= k}) => i = k
         /\ \A k \in 1..Cardinality(A) : \E i \in A : Cardinality({j \in A : j <= i}) = k
  <1> DEFINE upTo(i) == {j \in A : j <= i}
             rank == [i \in A |-> Cardinality(upTo(i))]
             C == Cardinality(A)
  <1>1. \A i \in A : i \in Int
    OBVIOUS
  <1>2. IsFiniteSet(A) /\ C \in Nat
    <2>1. IsFiniteSet(1..n)
      BY FS_Interval
    <2> QED
      BY <2>1, FS_Subset, FS_CardinalityType
  <1>3. ASSUME NEW i \in A PROVE IsFiniteSet(upTo(i)) /\ Cardinality(upTo(i)) \in 1..C
    <2>1. upTo(i) \in SUBSET A /\ i \in upTo(i)
      OBVIOUS
    <2>2. IsFiniteSet(upTo(i)) /\ Cardinality(upTo(i)) <= C
      BY <1>2, <2>1, FS_Subset
    <2> HIDE DEF upTo, C
    <2> QED
      BY <1>2, <2>2, <2>1, FS_CardinalityType, FS_EmptySet
  <1>4. ASSUME NEW i \in A, NEW k \in A, i < k PROVE Cardinality(upTo(i)) # Cardinality(upTo(k))
    <2>1. i \in Int /\ k \in Int /\ k <= k /\ ~(k <= i)
      BY <1>1, <1>4
    <2>2. ASSUME NEW j \in A, j <= i PROVE j <= k
      BY <1>1, <1>4, <2>1, <2>2
    <2>3. upTo(i) \in SUBSET upTo(k) /\ k \in upTo(k) /\ k \notin upTo(i)
      BY <2>1, <2>2
    <2> QED
      BY <2>3, <1>3, FS_Subset
  <1>5. \A i, k \in A : Cardinality(upTo(i)) = Cardinality(upTo(k)) => i = k
    BY <1>4
  <1>6. rank \in Injection(A, 1..C)
    BY <1>3, <1>5 DEF Injection, IsInjective
  <1>7. rank \in Surjection(A, 1..C)
    BY <1>2, <1>6, FS_Injection, FS_Interval
  <1> QED
    BY <1>2, <1>3, <1>5, <1>7 DEF Surjection

\* A handle has one descriptor at most, which At finds.
LEMMA AtFinds ==
  ASSUME HandlesDiffer, NEW h
  PROVE  /\ \A i \in Of(h) : At(h) = i
         /\ Known(h) => At(h) \in DOMAIN descriptorMap /\ descriptorMap[At(h)].handle = h
  BY DEF HandlesDiffer, Of, At, Known

\* What is left of the descriptors, and where it was, once that of a handle is deleted.
LEMMA WithoutOne ==
  ASSUME descriptorMap \in Seq(Descriptor), HandlesDiffer, NEW h, Known(h)
  PROVE  /\ Without(h) \in Seq(Descriptor) /\ DOMAIN Without(h) = 1..(Len(descriptorMap) - 1)
         /\ At(h) \in 1..Len(descriptorMap) /\ Len(descriptorMap) \in Nat /\ DOMAIN descriptorMap = 1..Len(descriptorMap)
         /\ descriptorMap[At(h)] \in Descriptor /\ descriptorMap[At(h)].handle = h
         /\ \A i \in DOMAIN Without(h) :
              \E j \in DOMAIN descriptorMap : j # At(h) /\ descriptorMap[j].handle # h /\ Without(h)[i] = descriptorMap[j] /\ i = (IF j < At(h) THEN j ELSE j - 1)
         /\ \A j \in DOMAIN descriptorMap : j # At(h) =>
              \E i \in DOMAIN Without(h) : Without(h)[i] = descriptorMap[j] /\ i = (IF j < At(h) THEN j ELSE j - 1)
  <1> DEFINE n == Len(descriptorMap)  k == At(h)
  <1>1. k \in 1..n /\ descriptorMap[k].handle = h /\ n \in Nat /\ DOMAIN descriptorMap = 1..n /\ descriptorMap[k] \in Descriptor
    BY AtFinds, LenProperties
  <1>2. /\ Without(h) \in Seq(Descriptor) /\ DOMAIN Without(h) = 1..(n - 1)
        /\ \A i \in 1..(n - 1) : Without(h)[i] = IF i < k THEN descriptorMap[i] ELSE descriptorMap[i + 1]
    BY <1>1, Removed DEF Without
  <1> HIDE DEF n, k
  <1>3. \A j \in DOMAIN descriptorMap : j # k => descriptorMap[j].handle # h
    BY <1>1 DEF HandlesDiffer
  <1>4. ASSUME NEW i \in 1..(n - 1)
        PROVE  \E j \in DOMAIN descriptorMap : j # k /\ descriptorMap[j].handle # h /\ Without(h)[i] = descriptorMap[j] /\ i = (IF j < k THEN j ELSE j - 1)
    <2>1. CASE i < k
      <3>1. i \in 1..n /\ i # k
        BY <1>1, <2>1
      <3> QED
        BY <1>1, <1>2, <1>3, <2>1, <3>1
    <2>2. CASE ~(i < k)
      <3>1. i + 1 \in 1..n /\ i + 1 # k /\ ~(i + 1 < k) /\ (i + 1) - 1 = i
        BY <1>1, <2>2
      <3> QED
        BY <1>1, <1>2, <1>3, <2>2, <3>1
    <2> QED
      BY <2>1, <2>2
  <1>5. ASSUME NEW j \in 1..n, j # k
        PROVE  \E i \in 1..(n - 1) : Without(h)[i] = descriptorMap[j] /\ i = (IF j < k THEN j ELSE j - 1)
    <2>1. CASE j < k
      <3>1. j \in 1..(n - 1)
        BY <1>1, <2>1
      <3> QED
        BY <1>2, <2>1, <3>1
    <2>2. CASE ~(j < k)
      <3>1. j - 1 \in 1..(n - 1) /\ ~(j - 1 < k) /\ (j - 1) + 1 = j
        BY <1>1, <1>5, <2>2
      <3> QED
        BY <1>2, <2>2, <3>1
    <2> QED
      BY <2>1, <2>2
  <1> QED
    BY <1>1, <1>2, <1>4, <1>5 DEF n, k
-----------------------------------------------------------------------------
(* Steps of the page and of the connection. *)

\* A request goes to the end of what is on the way, or nowhere.
LEMMA SentRequest ==
  ASSUME ControlTypes, WireIsConnected, NEW op \in {"publish", "unpublish"}, NEW h \in AllHandles, Sends(op, h), connection' = connection
  PROVE  /\ signal' \in Signal /\ signal'.answers = signal.answers
         /\ [op |-> op, handle |-> h] \in Request /\ Line \in Seq(Request)
         /\ connection \in {"up", "resuming"} => Line' = Append(Line, [op |-> op, handle |-> h])
         /\ connection # "up" => signal'.requests = signal.requests
         /\ connection \in {"up", "gone"} => signal'.held = signal.held
         /\ signal'.requests \in {signal.requests, Append(signal.requests, [op |-> op, handle |-> h])}
         /\ signal'.held \in {signal.held, Append(signal.held, [op |-> op, handle |-> h])}
  <1> DEFINE r == [op |-> op, handle |-> h]
  <1>1. r \in Request /\ r.handle = h
    BY DEF Request
  <1>2. /\ signal.requests \in Seq(Request) /\ signal.held \in Seq(Request) /\ signal.answers \in Seq(Answer)
        /\ signal = [requests |-> signal.requests, held |-> signal.held, answers |-> signal.answers]
    BY DEF ControlTypes, Signal
  <1>3. signal' = WithRequests(signal, <<r>>)
    BY DEF Sends
  <1> HIDE DEF r
  <1>4. \A s \in Seq(Request) : s \o <<r>> = Append(s, r) /\ Append(s, r) \in Seq(Request)
    BY <1>1
  <1>5. CASE ~(connection = "resuming" \/ signal.held # <<>>) /\ connection = "up"
    BY <1>2, <1>3, <1>4, <1>5, <1>1 DEF WithRequests, Signal, Line, r
  <1>6. CASE ~(connection = "resuming" \/ signal.held # <<>>) /\ connection # "up"
    BY <1>3, <1>6, <1>1, <1>2 DEF WithRequests, Line, r, Signal
  <1> QED
    BY <1>5, <1>6, <1>2, <1>3, <1>4, <1>1 DEF WithRequests, Signal, WireIsConnected, Line, r

\* What is on the way, as far as handles are concerned.
LEMMA FreshAppended ==
  ASSUME NEW L \in Seq(Request), NEW n \in Nat, NEW m \in Nat, n <= m, \A i \in DOMAIN L : L[i].handle <= n,
         NEW r \in Request, r.handle <= m
  PROVE  /\ \A i \in DOMAIN Append(L, r) : Append(L, r)[i].handle <= m
         /\ \A i \in DOMAIN L : L[i].handle <= m
  <1>1. DOMAIN Append(L, r) = 1..(Len(L) + 1) /\ DOMAIN L = 1..Len(L) /\ Len(L) \in Nat
    BY Appended
  <1>2. ASSUME NEW i \in 1..Len(L) PROVE Append(L, r)[i].handle <= m /\ L[i].handle <= m
    <2>1. L[i] \in Request /\ L[i].handle <= n
      BY <1>1, ElementOfSeq
    <2>2. L[i].handle \in Int /\ L[i].handle <= n
      BY <2>1 DEF Request, AllHandles
    <2> QED
      BY <2>2, <1>1, Appended
  <1>3. \A i \in 1..(Len(L) + 1) : i \in 1..Len(L) \/ i = Len(L) + 1
    BY <1>1
  <1> QED
    BY <1>1, <1>2, <1>3, Appended

\* A handle that was not given out was not spoken of.
LEMMA FreshIsQuiet ==
  ASSUME ControlTypes, WireIsConnected, Fresh, NEW h \in Nat, h > allocated
  PROVE  /\ Asks(Line, h) = {} /\ Ends(Line, h) = {} /\ h \notin server
         /\ Tells(signal.answers, h) = {} /\ Closes(signal.answers, h) = {}
  BY DEF Line, Fresh, ControlTypes, Asks, Ends, Tells, Closes, Those

\* More handles are given out.
LEMMA FreshGrows ==
  ASSUME ControlTypes, Fresh, allocated' \in Nat, allocated <= allocated', UNCHANGED <<signal, server>>
  PROVE  Fresh'
  <1>1. /\ signal.requests \in Seq(Request) /\ signal.held \in Seq(Request) /\ signal.answers \in Seq(Answer)
        /\ \A h \in server : h \in Nat
    BY OutgoingAssumption DEF ControlTypes, Signal, AllHandles
  <1>2. ASSUME NEW L \in Seq(Request), \A i \in DOMAIN L : L[i].handle <= allocated, NEW i \in DOMAIN L PROVE L[i].handle <= allocated'
    <2>1. L[i] \in Request
      BY ElementOfSeq, LenProperties
    <2> QED
      BY <1>2, <2>1, OutgoingAssumption DEF Request, AllHandles, ControlTypes
  <1>3. ASSUME NEW A \in Seq(Answer), \A i \in DOMAIN A : A[i].handle <= allocated, NEW i \in DOMAIN A PROVE A[i].handle <= allocated'
    <2>1. A[i] \in Answer
      BY ElementOfSeq, LenProperties
    <2> QED
      BY <1>3, <2>1, OutgoingAssumption DEF Answer, AllHandles, ControlTypes
  <1>4. \A h \in server : h <= allocated'
    BY <1>1 DEF Fresh, ControlTypes
  <1> QED
    BY <1>1, <1>2, <1>3, <1>4 DEF Fresh

\* A request was sent about a handle that was given out.
LEMMA FreshSent ==
  ASSUME ControlTypes, Fresh, NEW r \in Request, allocated' \in Nat, allocated <= allocated', r.handle <= allocated',
         signal'.requests \in {signal.requests, Append(signal.requests, r)},
         signal'.held \in {signal.held, Append(signal.held, r)},
         signal'.answers = signal.answers, UNCHANGED server
  PROVE  Fresh'
  <1>1. /\ signal.requests \in Seq(Request) /\ signal.held \in Seq(Request) /\ signal.answers \in Seq(Answer)
        /\ \A h \in server : h \in Nat
    BY OutgoingAssumption DEF ControlTypes, Signal, AllHandles
  <1>2. ASSUME NEW i \in DOMAIN signal.answers PROVE signal.answers[i].handle <= allocated'
    <2>1. signal.answers[i] \in Answer
      BY <1>1, ElementOfSeq, LenProperties
    <2> QED
      BY <2>1, OutgoingAssumption DEF Answer, AllHandles, ControlTypes, Fresh
  <1>3. \A h \in server : h <= allocated'
    BY <1>1 DEF Fresh, ControlTypes
  <1> QED
    BY <1>2, <1>3, <1>1, FreshAppended DEF Fresh, ControlTypes
\* The descriptor of a handle and what is on the way about it are as they were.
LEMMA ConvergesKept ==
  ASSUME NEW h, NEW L, NEW A, NEW S, NEW D, NEW U, NEW K, NEW B, NEW T, NEW E, NEW V, Converges(h, L, A, S, D, U),
         \A i \in DOMAIN E : E[i].handle = h => \E j \in DOMAIN D : D[j] = E[i] /\ (V[D[j].pub] => U[D[j].pub]),
         Holds(D, h) => Holds(E, h),
         h \in T <=> h \in S,
         Asks(K, h) = {} <=> Asks(L, h) = {}, Ends(K, h) = {} <=> Ends(L, h) = {},
         Tells(B, h) = {} <=> Tells(A, h) = {}, Closes(B, h) = {} <=> Closes(A, h) = {}
  PROVE  Converges(h, K, B, T, E, V)
  BY DEF Converges

\* A step that leaves everything as it is but for what the page counts, and may forget more.
LEMMA MeetsKept ==
  ASSUME Meets, UNCHANGED <<descriptorMap, unpublishing, server, signal, connection>>, orphans \subseteq orphans'
  PROVE  Meets'
  BY DEF Meets, MeetsAt, Line

\* Nothing of what Agreed is about changes.
LEMMA AgreedKept ==
  ASSUME Agreed, UNCHANGED <<allocated, descriptorMap, calls, unpublishing, resetting, connection, signal, server, orphans>>
  PROVE  Agreed'
  BY DEF Agreed, ControlTypes, Owned, HandlesDiffer, DescriptorsAreOwned, IsOwned, WaitingHaveDescriptors, PublishedAreDistinct,
         ResetIsWithin, UnpublishingIsOwned, WireIsConnected, Fresh, Meets, MeetsAt, Line

\* A publication is asked for under a new handle, about which nothing is on the way.
LEMMA PublishRequestAgreed ==
  ASSUME Agreed, NEW p \in Pubs, PublishRequest(p)
  PROVE  Agreed'
  <1> DEFINE h == allocated + 1
  <1> USE DEF Agreed
  <1>1. /\ calls[p].at = "none" /\ allocated' = h /\ allocated \in Nat /\ h \in Nat
        /\ UNCHANGED <<unpublishing, resetting, connection, server, orphans>>
    BY DEF PublishRequest, ControlTypes
  <1>2. /\ \A i \in DOMAIN descriptorMap : descriptorMap[i] \in Descriptor /\ descriptorMap[i].pub # p
        /\ unpublishing[p] = FALSE
    <2>1. \A i \in DOMAIN descriptorMap : descriptorMap[i] \in Descriptor
      BY ElementOfSeq, LenProperties DEF ControlTypes
    <2> QED
      BY <1>1, <2>1 DEF Owned, UnpublishingIsOwned, ControlTypes, DescriptorsAreOwned, IsOwned, Descriptor
  <1>3. CASE h > MaxHandle \/ Known(h)
    <2>1. calls' = [calls EXCEPT ![p].at = "failed"] /\ UNCHANGED <<descriptorMap, signal>>
      BY <1>3 DEF PublishRequest
    <2>2. /\ calls' \in [Pubs -> Call] /\ calls'[p].at = "failed"
          /\ \A q \in Pubs : q # p => calls'[q] = calls[q]
      BY <2>1 DEF ControlTypes, Call
    <2>3. ControlTypes'
      BY <1>1, <2>1, <2>2 DEF ControlTypes
    <2>4. HandlesDiffer' /\ ResetIsWithin'
      BY <1>1, <2>1 DEF Owned, HandlesDiffer, ResetIsWithin
    <2>5. DescriptorsAreOwned'
      BY <2>1, <1>2, <2>2, OutgoingAssumption, <1>1
        DEF DescriptorsAreOwned, Descriptor, Owned, AllHandles, IsOwned
    <2>6. WaitingHaveDescriptors'
      BY <1>1, <2>1, <2>2 DEF Owned, WaitingHaveDescriptors
    <2>7. PublishedAreDistinct'
      BY <2>2, OutgoingAssumption, <1>1, <2>1 DEF ControlTypes, Call, Owned, PublishedAreDistinct
    <2>8. UnpublishingIsOwned'
      BY <1>1, <1>2, <2>1, <2>2 DEF Owned, UnpublishingIsOwned
    <2>9. WireIsConnected'
      BY <1>1, <2>1 DEF WireIsConnected
    <2>10. Fresh'
      BY <1>1, <2>1, FreshGrows
    <2>11. Meets'
      BY <1>1, <2>1, MeetsKept
    <2> QED
      BY <2>3, <2>4, <2>5, <2>6, <2>7, <2>8, <2>9, <2>10, <2>11 DEF Owned
  <1>4. CASE ~(h > MaxHandle \/ Known(h))
    <2> DEFINE d == [handle |-> h, pub |-> p, type |-> "pending", state |-> "published"]
               n == Len(descriptorMap)
    <2>1. h \in AllHandles /\ ~Known(h)
      BY <1>1, <1>4, OutgoingAssumption DEF AllHandles
    <2>2. /\ calls' = [calls EXCEPT ![p] = [at |-> "waiting", handle |-> h, listening |-> TRUE]]
          /\ descriptorMap' = Append(descriptorMap, d)
          /\ Sends("publish", h)
      BY <1>4 DEF PublishRequest
    <2>3. /\ calls' \in [Pubs -> Call] /\ calls'[p] = [at |-> "waiting", handle |-> h, listening |-> TRUE]
          /\ \A q \in Pubs : q # p => calls'[q] = calls[q]
      BY <2>1, <2>2, OutgoingAssumption DEF ControlTypes, Call, AllHandles
    <2>4. d \in Descriptor /\ d.handle = h /\ d.pub = p /\ d.type = "pending"
      BY <2>1 DEF Descriptor
    <2> HIDE DEF d
    <2>5. /\ descriptorMap' \in Seq(Descriptor) /\ n \in Nat /\ DOMAIN descriptorMap = 1..n /\ DOMAIN descriptorMap' = 1..(n + 1)
          /\ descriptorMap'[n + 1] = d /\ \A i \in 1..n : descriptorMap'[i] = descriptorMap[i]
      BY <2>2, <2>4, Appended DEF ControlTypes
    <2>6. \A i \in 1..(n + 1) : i \in 1..n \/ i = n + 1
      BY <2>5
    <2>7. /\ signal' \in Signal /\ signal'.answers = signal.answers
          /\ [op |-> "publish", handle |-> h] \in Request /\ Line \in Seq(Request)
          /\ connection \in {"up", "resuming"} => Line' = Append(Line, [op |-> "publish", handle |-> h])
          /\ connection # "up" => signal'.requests = signal.requests
          /\ connection \in {"up", "gone"} => signal'.held = signal.held
          /\ signal'.requests \in {signal.requests, Append(signal.requests, [op |-> "publish", handle |-> h])}
          /\ signal'.held \in {signal.held, Append(signal.held, [op |-> "publish", handle |-> h])}
      BY <1>1, <2>1, <2>2, SentRequest
    <2>8. \A i \in 1..n : descriptorMap[i].handle # h
      BY <2>1, <2>5 DEF Known, Of
    <2>9. ControlTypes'
      BY <1>1, <2>3, <2>5, <2>7 DEF ControlTypes
    <2>10. ResetIsWithin'
      BY <2>5, LenProperties, <1>1 DEF Owned, ResetIsWithin, ControlTypes
    <2>11. HandlesDiffer'
      BY <2>4, <2>5, <2>6, <2>8 DEF Owned, HandlesDiffer
    <2>12. DescriptorsAreOwned'
      <3> SUFFICES ASSUME NEW i \in DOMAIN descriptorMap' PROVE IsOwned(i)'
        BY DEF DescriptorsAreOwned
      <3>1. CASE i \in 1..n
        <4>1. calls'[descriptorMap[i].pub] = calls[descriptorMap[i].pub] /\ IsOwned(i) /\ descriptorMap[i].handle \in Nat
          BY <1>2, <2>3, <2>5, <3>1, OutgoingAssumption DEF Descriptor, Owned, DescriptorsAreOwned, AllHandles
        <4> QED
          BY <1>1, <2>5, <3>1, <4>1 DEF IsOwned
      <3> QED
        BY <2>5, <2>6, <3>1, <1>1, <2>3, <2>4 DEF Owned, ResetIsWithin, ControlTypes, IsOwned
    <2>13. WaitingHaveDescriptors'
      BY <2>5, <1>1, <2>3, <2>4 DEF Owned, WaitingHaveDescriptors
    <2>14. PublishedAreDistinct'
      <3>1. \A q \in Pubs : calls'[q].at \in {"published", "over"} => q # p /\ calls'[q] = calls[q] /\ calls[q].handle \in Nat
        BY <2>3, OutgoingAssumption DEF ControlTypes, Call
      <3> QED
        BY <1>1, <2>4, <2>5, <2>6, <3>1 DEF Owned, PublishedAreDistinct
    <2>15. UnpublishingIsOwned'
      BY <2>5, <1>1, <1>2, <2>3 DEF Owned, UnpublishingIsOwned
    <2>16. WireIsConnected'
      BY <1>1, <2>7 DEF WireIsConnected
    <2>17. Fresh'
      BY <1>1, <2>1, <2>7, FreshSent
    <2>18. Meets'
      <3> SUFFICES ASSUME connection \in {"up", "resuming"}, NEW x \in AllHandles \ orphans PROVE MeetsAt(x)'
        BY <1>1 DEF Meets
      <3> DEFINE r == [op |-> "publish", handle |-> h]
      <3>1. MeetsAt(x) /\ Line' = Append(Line, r) /\ r \in Request /\ Line \in Seq(Request) /\ signal.answers \in Seq(Answer)
            /\ r.handle = h /\ r.op = "publish"
        BY <2>7 DEF Meets, ControlTypes, Signal
      <3> HIDE DEF r
      <3>2. CASE x # h
        <4>1. /\ Asks(Line', x) = Asks(Line, x) /\ Ends(Line', x) = Ends(Line, x)
              /\ InOrder(x, Line', signal.answers, server)
          BY <3>1, <3>2, OrderOfRequests DEF MeetsAt
        <4>2. /\ \A i \in DOMAIN descriptorMap' : descriptorMap'[i].handle = x =>
                   \E j \in DOMAIN descriptorMap : descriptorMap[j] = descriptorMap'[i]
              /\ Holds(descriptorMap, x) => Holds(descriptorMap', x)
          BY <2>5, <2>4, <2>6, <3>2 DEF Holds
        <4>3. Converges(x, Line', signal.answers, server, descriptorMap', unpublishing)
          BY <3>1, <4>1, <4>2, ConvergesKept DEF MeetsAt
        <4> QED
          BY <1>1, <2>7, <4>1, <4>3 DEF MeetsAt
      <3>3. CASE x = h
        <4>1. /\ Asks(Line, h) = {} /\ Ends(Line, h) = {} /\ h \notin server
              /\ Tells(signal.answers, h) = {} /\ Closes(signal.answers, h) = {}
          BY <1>1, FreshIsQuiet
        <4>2. Ends(Line', h) = {} /\ InOrder(h, Line', signal.answers, server)
          BY <3>1, <4>1, OrderOfRequests
        <4>3. Converges(h, Line', signal.answers, server, descriptorMap', unpublishing)
          BY <4>1, <4>2, <2>5, <2>4, <2>6, <2>8 DEF Converges, Holds
        <4> QED
          BY <1>1, <2>7, <3>3, <4>2, <4>3 DEF MeetsAt
      <3> QED
        BY <3>2, <3>3
    <2> QED
      BY <2>9, <2>10, <2>11, <2>12, <2>13, <2>14, <2>15, <2>16, <2>17, <2>18 DEF Owned
  <1> QED
    BY <1>3, <1>4
\* Reset keeps its place when a descriptor goes.
LEMMA PlaceIsKept ==
  ASSUME NEW k \in Nat \ {0}, NEW r \in Nat, NEW s, s = (IF k < r THEN r - 1 ELSE r)
  PROVE  /\ s \in Nat /\ (s = 0 <=> r = 0)
         /\ \A j \in Nat \ {0} : j # k => ((IF j < k THEN j ELSE j - 1) < s <=> j < r)
         /\ \A n \in Nat : k <= n /\ r <= n + 1 => s <= (n - 1) + 1
  OBVIOUS

\* The descriptors other than that of h, about which a request was sent, are on their way as before.
LEMMA OthersMeet ==
  ASSUME ControlTypes, Owned, Meets, connection \in {"up", "resuming"}, NEW h, Known(h), NEW x \in AllHandles \ orphans, x # h,
         NEW r \in Request, r.handle = h, Line' = Append(Line, r), descriptorMap' = Without(h),
         UNCHANGED <<connection, server, unpublishing>>, signal'.answers = signal.answers
  PROVE  MeetsAt(x)'
  <1>1. MeetsAt(x) /\ Line \in Seq(Request) /\ signal.answers \in Seq(Answer)
    BY DEF Meets, ControlTypes, Signal, Line
  <1>2. /\ Asks(Line', x) = Asks(Line, x) /\ Ends(Line', x) = Ends(Line, x)
        /\ InOrder(x, Line', signal.answers, server)
    BY <1>1, OrderOfRequests DEF MeetsAt
  <1>3. /\ \A i \in DOMAIN descriptorMap' : descriptorMap'[i].handle = x =>
             \E j \in DOMAIN descriptorMap : descriptorMap[j] = descriptorMap'[i]
        /\ Holds(descriptorMap, x) => Holds(descriptorMap', x)
    BY WithoutOne DEF ControlTypes, Owned, Holds
  <1>4. Converges(x, Line', signal.answers, server, descriptorMap', unpublishing)
    BY <1>1, <1>2, <1>3, ConvergesKept DEF MeetsAt
  <1> QED
    BY <1>2, <1>4 DEF MeetsAt

\* An abort takes away whatever has the handle by then. It is the call's own, which is pending, or the
\* handle is an orphan from then on.
LEMMA AbortAgreed ==
  ASSUME Agreed, NEW p \in Pubs, Abort(p)
  PROVE  Agreed'
  <1> DEFINE h == calls[p].handle  k == At(h)  d == descriptorMap[k]
  <1> USE DEF Agreed
  <1>1. /\ calls[p].listening /\ UNCHANGED <<allocated, unpublishing, connection, server>>
        /\ calls \in [Pubs -> Call] /\ allocated \in Nat /\ resetting \in Nat
    BY DEF Abort, ControlTypes
  <1>2. CASE ~Known(h)
    <2>1. calls' = [calls EXCEPT ![p].listening = FALSE] /\ UNCHANGED <<descriptorMap, resetting, signal, orphans>>
      BY <1>2 DEF Abort
    <2>2. /\ calls' \in [Pubs -> Call]
          /\ \A q \in Pubs : calls'[q].at = calls[q].at /\ calls'[q].handle = calls[q].handle /\ (calls'[q].listening => calls[q].listening)
      BY <1>1, <2>1 DEF Call
    <2>3. \A i \in DOMAIN descriptorMap : descriptorMap[i] \in Descriptor /\ descriptorMap[i].pub \in Pubs
      <3> SUFFICES ASSUME NEW i \in DOMAIN descriptorMap PROVE descriptorMap[i] \in Descriptor /\ descriptorMap[i].pub \in Pubs
        OBVIOUS
      <3>1. descriptorMap[i] \in Descriptor
        BY ElementOfSeq, LenProperties DEF ControlTypes
      <3> QED
        BY <3>1 DEF Descriptor
    <2>4. DescriptorsAreOwned'
      BY <2>1, <1>1, <2>2, <2>3 DEF DescriptorsAreOwned, Owned, IsOwned
    <2>5. WaitingHaveDescriptors'
      BY <2>1, <2>2 DEF Owned, WaitingHaveDescriptors
    <2>6. PublishedAreDistinct'
      BY <1>1, <2>1, <2>2 DEF Owned, PublishedAreDistinct
    <2>7. UnpublishingIsOwned'
      BY <1>1, <2>1, <2>2 DEF Owned, UnpublishingIsOwned
    <2>8. WireIsConnected' /\ Fresh'
      BY <1>1, <2>1 DEF WireIsConnected, Fresh
    <2>9. Meets'
      BY <1>1, <2>1, MeetsKept
    <2> QED
      BY <2>4, <2>5, <2>6, <2>7, <2>8, <2>9, <2>1, <1>1, <2>2
        DEF Owned, ResetIsWithin, HandlesDiffer, ControlTypes
  <1>3. CASE Known(h)
    <2> DEFINE n == Len(descriptorMap)
               D == Without(h)
               moved(j) == IF j < k THEN j ELSE j - 1
    <2>1. /\ D \in Seq(Descriptor) /\ DOMAIN D = 1..(n - 1)
          /\ k \in 1..n /\ n \in Nat /\ DOMAIN descriptorMap = 1..n
          /\ d \in Descriptor /\ d.handle = h
          /\ \A i \in DOMAIN D : \E j \in DOMAIN descriptorMap : j # k /\ descriptorMap[j].handle # h /\ D[i] = descriptorMap[j] /\ i = moved(j)
          /\ \A j \in DOMAIN descriptorMap : j # k => \E i \in DOMAIN D : D[i] = descriptorMap[j] /\ i = moved(j)
      BY <1>3, WithoutOne DEF ControlTypes, Owned
    <2>2. /\ descriptorMap' = D /\ Sends("unpublish", h)
          /\ resetting' = IF k < resetting THEN resetting - 1 ELSE resetting
          /\ calls' = [q \in Pubs |-> [calls[q] EXCEPT !.listening = @ /\ q # p,
                                         !.at = IF q = d.pub /\ d.type = "pending" THEN "failed" ELSE @]]
          /\ orphans' = IF d.pub # p THEN orphans \union {h} ELSE orphans
      BY <1>3 DEF Abort
    <2>3. /\ calls' \in [Pubs -> Call]
          /\ \A q \in Pubs : /\ calls'[q].at = (IF q = d.pub /\ d.type = "pending" THEN "failed" ELSE calls[q].at)
                             /\ calls'[q].handle = calls[q].handle /\ (calls'[q].listening => calls[q].listening)
      BY <1>1, <2>2 DEF Call
    <2>4. /\ d.pub \in Pubs /\ IsOwned(k) /\ calls[d.pub].handle = h /\ h \in AllHandles
          /\ d.type = "pending" => calls[d.pub].at \in {"waiting", "failed"}
          /\ d.type = "active" => calls[d.pub].at \in {"published", "over"}
      BY <2>1 DEF Owned, DescriptorsAreOwned, IsOwned, Descriptor
    <2>5. d.pub = p => d.type = "pending"
      BY <1>1, <2>1, <2>4 DEF Owned, PublishedAreDistinct, Descriptor
    <2>6. /\ resetting' \in Nat /\ (resetting' = 0 <=> resetting = 0)
          /\ \A j \in 1..n : j # k => (moved(j) < resetting' <=> j < resetting) /\ moved(j) \in Nat
          /\ resetting <= n + 1 => resetting' <= (n - 1) + 1
      <3>1. /\ resetting' \in Nat /\ (resetting' = 0 <=> resetting = 0)
            /\ \A j \in Nat \ {0} : j # k => (moved(j) < resetting' <=> j < resetting)
            /\ \A m \in Nat : k <= m /\ resetting <= m + 1 => resetting' <= (m - 1) + 1
        <4>1. resetting' = IF k < resetting THEN resetting - 1 ELSE resetting
          BY <2>2
        <4> HIDE DEF k, n
        <4> QED
          BY <1>1, <4>1, PlaceIsKept, <2>1
      <3> HIDE DEF n, k
      <3>2. \A j \in 1..n : j \in Nat \ {0} /\ moved(j) \in Nat
        BY <2>1
      <3> HIDE DEF moved
      <3> QED
        BY <2>1, <3>1, <3>2
    <2> HIDE DEF n, k, d, D, h, moved
    <2>7. /\ signal' \in Signal /\ signal'.answers = signal.answers
          /\ [op |-> "unpublish", handle |-> h] \in Request /\ Line \in Seq(Request)
          /\ connection \in {"up", "resuming"} => Line' = Append(Line, [op |-> "unpublish", handle |-> h])
          /\ connection # "up" => signal'.requests = signal.requests
          /\ connection \in {"up", "gone"} => signal'.held = signal.held
          /\ signal'.requests \in {signal.requests, Append(signal.requests, [op |-> "unpublish", handle |-> h])}
          /\ signal'.held \in {signal.held, Append(signal.held, [op |-> "unpublish", handle |-> h])}
      BY <1>1, <2>2, <2>4, SentRequest
    <2>8. ControlTypes'
      BY <1>1, <2>1, <2>2, <2>3, <2>4, <2>6, <2>7 DEF ControlTypes
    <2>9. ResetIsWithin' /\ HandlesDiffer'
      <3>1. Len(D) = n - 1
        BY <2>1, LenProperties
      <3>2. HandlesDiffer'
        <4> SUFFICES ASSUME NEW i \in DOMAIN D, NEW m \in DOMAIN D, D[i].handle = D[m].handle PROVE i = m
          BY <2>2 DEF HandlesDiffer
        <4>1. PICK j \in DOMAIN descriptorMap : D[i] = descriptorMap[j] /\ i = moved(j)
          BY <2>1
        <4>2. PICK l \in DOMAIN descriptorMap : D[m] = descriptorMap[l] /\ m = moved(l)
          BY <2>1
        <4> QED
          BY <4>1, <4>2 DEF Owned, HandlesDiffer
      <3> QED
        BY <3>2, <2>2, <2>6, <3>1 DEF Owned, ResetIsWithin, n
    <2>10. DescriptorsAreOwned'
      <3> SUFFICES ASSUME NEW i \in DOMAIN descriptorMap' PROVE IsOwned(i)'
        BY DEF DescriptorsAreOwned
      <3>1. PICK j \in 1..n : j # k /\ descriptorMap[j].handle # h /\ descriptorMap'[i] = descriptorMap[j] /\ i = moved(j)
        BY <2>1, <2>2
      <3>2. IsOwned(j) /\ (i < resetting' <=> j < resetting) /\ descriptorMap[j] \in Descriptor
        BY <2>1, <2>6, <3>1, ElementOfSeq DEF Owned, DescriptorsAreOwned, ControlTypes, n
      <3>3. /\ calls'[descriptorMap[j].pub].at = calls[descriptorMap[j].pub].at
            /\ calls'[descriptorMap[j].pub].handle = calls[descriptorMap[j].pub].handle
        BY <2>4, <3>1, <3>2, <2>3 DEF IsOwned, Descriptor
      <3> QED
        BY <1>1, <2>6, <3>1, <3>2, <3>3 DEF IsOwned
    <2>11. WaitingHaveDescriptors'
      <3> SUFFICES ASSUME NEW q \in Pubs, calls'[q].at = "waiting", calls'[q].handle \notin orphans'
                   PROVE  \E i \in DOMAIN descriptorMap' : descriptorMap'[i].type = "pending" /\ descriptorMap'[i].pub = q
        BY DEF WaitingHaveDescriptors
      <3>1. calls[q].at = "waiting" /\ calls[q].handle \notin orphans /\ ~(q = d.pub /\ d.type = "pending")
        <4>1. orphans \subseteq orphans'
          BY <2>2
        <4>2. calls[q].handle \notin orphans
          BY <2>3, <4>1
        <4> QED
          BY <2>3, <4>2
      <3>2. PICK j \in DOMAIN descriptorMap : descriptorMap[j].type = "pending" /\ descriptorMap[j].pub = q
        BY <3>1 DEF Owned, WaitingHaveDescriptors
      <3>3. j # k
        BY <3>1, <3>2 DEF d
      <3> QED
        BY <2>1, <2>2, <3>2, <3>3
    <2>12. PublishedAreDistinct'
      <3>1. \A i \in DOMAIN descriptorMap' : \E j \in DOMAIN descriptorMap : descriptorMap'[i] = descriptorMap[j]
        BY <2>1, <2>2
      <3> QED
        BY <1>1, <3>1, <2>3 DEF Owned, PublishedAreDistinct
    <2>13. UnpublishingIsOwned'
      <3> SUFFICES ASSUME NEW q \in Pubs, unpublishing[q]
                   PROVE  /\ calls'[q].at \in {"published", "over", "stuck"}
                          /\ calls'[q].at # "stuck" /\ calls'[q].handle \notin orphans' =>
                               /\ calls'[q].at = "over" => connection = "gone"
                               /\ \E i \in DOMAIN descriptorMap' : descriptorMap'[i].type = "active" /\ descriptorMap'[i].pub = q /\ i >= resetting'
        BY <1>1 DEF UnpublishingIsOwned
      <3>1. ASSUME calls[q].at # "stuck", calls[q].handle \notin orphans'
            PROVE  /\ calls[q].at = "over" => connection = "gone"
                   /\ \E i \in DOMAIN descriptorMap' : descriptorMap'[i].type = "active" /\ descriptorMap'[i].pub = q /\ i >= resetting'
        <4>1. calls[q].handle \notin orphans
          BY <2>2, <3>1
        <4>2. PICK j \in DOMAIN descriptorMap : descriptorMap[j].type = "active" /\ descriptorMap[j].pub = q /\ j >= resetting
          BY <3>1, <4>1 DEF Owned, UnpublishingIsOwned
        <4>3. j # k
          BY <4>2, <2>4, <2>5, <2>2, <3>1 DEF d
        <4>4. PICK i \in DOMAIN D : D[i] = descriptorMap[j] /\ i = moved(j)
          BY <2>1, <4>3
        <4>5. ~(i < resetting') /\ i \in Nat
          BY <2>6, <4>3, <4>4, <1>1, <2>1, <4>2
        <4>6. i >= resetting'
          BY <2>6, <4>5
        <4> QED
          BY <2>2, <3>1, <4>1, <4>2, <4>4, <4>6 DEF Owned, UnpublishingIsOwned
      <3> QED
        BY <3>1, <2>3, <2>4 DEF Owned, UnpublishingIsOwned
    <2>14. WireIsConnected'
      BY <1>1, <2>6, <2>7 DEF WireIsConnected
    <2>15. Fresh'
      <3>1. CASE connection = "gone"
        <4>1. signal' = signal
          <5>1. /\ signal' = [requests |-> signal'.requests, held |-> signal'.held, answers |-> signal'.answers]
                /\ signal = [requests |-> signal.requests, held |-> signal.held, answers |-> signal.answers]
            BY <2>7 DEF Signal, ControlTypes
          <5> QED
            BY <2>7, <3>1, <5>1
        <4> QED
          BY <1>1, <4>1 DEF Fresh
      <3> QED
        BY <3>1, <2>1, <2>4, <1>1, <2>7, FreshSent DEF WireIsConnected, IsOwned, d
    <2>16. Meets'
      <3> SUFFICES ASSUME connection \in {"up", "resuming"}, NEW x \in AllHandles \ orphans' PROVE MeetsAt(x)'
        BY <1>1 DEF Meets
      <3> DEFINE r == [op |-> "unpublish", handle |-> h]
      <3>1. Line' = Append(Line, r) /\ r \in Request /\ r.handle = h /\ r.op = "unpublish" /\ x \in AllHandles \ orphans
        BY <2>2, <2>7
      <3> HIDE DEF r
      <3>2. CASE x = h
        <4>1. Ends(Line', h) # {} /\ InOrder(h, Line', signal.answers, server)
          BY <2>7, <3>1, OrderOfRequests, <3>2 DEF MeetsAt, Meets, ControlTypes, Signal
        <4>2. Converges(h, Line', signal.answers, server, descriptorMap', unpublishing)
          BY <4>1, <2>1, <2>2 DEF Converges, Holds
        <4> QED
          BY <1>1, <2>7, <3>2, <4>1, <4>2 DEF MeetsAt
      <3> QED
        BY <3>2, <1>3, <2>2, <1>1, <2>7, <3>1, OthersMeet DEF h, D
    <2> QED
      BY <2>8, <2>9, <2>10, <2>11, <2>12, <2>13, <2>14, <2>15, <2>16 DEF Owned
  <1> QED
    BY <1>2, <1>3
\* Who has a published track asks for the end of the publication.
LEMMA UnpublishAgreed ==
  ASSUME Agreed, NEW p \in Pubs, UnpublishRequest(p)
  PROVE  Agreed'
  <1> DEFINE h == calls[p].handle  k == At(h)
  <1> USE DEF Agreed
  <1>1. /\ UNCHANGED <<allocated, descriptorMap, calls, resetting, connection, server, orphans>>
        /\ calls[p].at = "published" /\ Known(h) /\ descriptorMap[k].type = "active" /\ Sends("unpublish", h)
        /\ unpublishing' = [unpublishing EXCEPT ![p] = TRUE] /\ unpublishing \in [Pubs -> BOOLEAN]
    BY DEF UnpublishRequest, InSession, ControlTypes
  <1>2. k \in DOMAIN descriptorMap /\ descriptorMap[k].handle = h /\ descriptorMap[k] \in Descriptor
    BY <1>1, AtFinds, ElementOfSeq, LenProperties DEF ControlTypes, Owned
  <1>3. connection # "gone" /\ h <= allocated /\ h \in AllHandles /\ resetting = 0
    BY <1>1, <1>2 DEF Owned, PublishedAreDistinct, WireIsConnected, Descriptor
  <1>4. descriptorMap[k].pub = p
    BY <1>1, <1>2, <1>3 DEF Owned, DescriptorsAreOwned, IsOwned, PublishedAreDistinct, Descriptor
  <1>5. /\ unpublishing' \in [Pubs -> BOOLEAN] /\ unpublishing'[p]
        /\ \A q \in Pubs : q # p => unpublishing'[q] = unpublishing[q]
    BY <1>1
  <1> HIDE DEF h, k
  <1>6. /\ signal' \in Signal /\ signal'.answers = signal.answers
        /\ [op |-> "unpublish", handle |-> h] \in Request /\ Line \in Seq(Request)
        /\ connection \in {"up", "resuming"} => Line' = Append(Line, [op |-> "unpublish", handle |-> h])
        /\ connection # "up" => signal'.requests = signal.requests
        /\ connection \in {"up", "gone"} => signal'.held = signal.held
        /\ signal'.requests \in {signal.requests, Append(signal.requests, [op |-> "unpublish", handle |-> h])}
        /\ signal'.held \in {signal.held, Append(signal.held, [op |-> "unpublish", handle |-> h])}
    BY <1>1, <1>3, SentRequest
  <1>7. UnpublishingIsOwned'
    BY <1>1, <1>2, <1>3, LenProperties, <1>4, <1>5 DEF UnpublishingIsOwned, ControlTypes, Owned
  <1>8. WireIsConnected'
    BY <1>1, <1>6 DEF WireIsConnected
  <1>9. Fresh'
    BY <1>1, <1>3, <1>6, FreshSent DEF ControlTypes
  <1>10. Meets'
    <2> SUFFICES ASSUME connection \in {"up", "resuming"}, NEW x \in AllHandles \ orphans PROVE MeetsAt(x)'
      BY <1>1 DEF Meets
    <2> DEFINE r == [op |-> "unpublish", handle |-> h]
    <2>1. MeetsAt(x) /\ Line' = Append(Line, r) /\ r \in Request /\ Line \in Seq(Request) /\ signal.answers \in Seq(Answer)
          /\ r.handle = h /\ r.op = "unpublish"
      BY <1>6 DEF Meets, ControlTypes, Signal
    <2> HIDE DEF r
    <2>2. CASE x # h
      <3>1. /\ Asks(Line', x) = Asks(Line, x) /\ Ends(Line', x) = Ends(Line, x)
            /\ InOrder(x, Line', signal.answers, server)
        BY <2>1, <2>2, OrderOfRequests DEF MeetsAt
      <3>2. \A i \in DOMAIN descriptorMap : descriptorMap[i].handle = x => (unpublishing'[descriptorMap[i].pub] => unpublishing[descriptorMap[i].pub])
        <4> SUFFICES ASSUME NEW i \in DOMAIN descriptorMap, descriptorMap[i].handle = x PROVE unpublishing'[descriptorMap[i].pub] = unpublishing[descriptorMap[i].pub]
          OBVIOUS
        <4>1. descriptorMap[i] \in Descriptor /\ IsOwned(i)
          BY ElementOfSeq, LenProperties DEF ControlTypes, Owned, DescriptorsAreOwned
        <4>2. descriptorMap[i].pub \in Pubs /\ descriptorMap[i].pub # p
          BY <2>2, <4>1 DEF IsOwned, Descriptor, h
        <4> QED
          BY <1>5, <4>2
      <3>3. Converges(x, Line', signal.answers, server, descriptorMap, unpublishing')
        BY <2>1, <3>1, <3>2, ConvergesKept DEF MeetsAt
      <3> QED
        BY <1>1, <1>6, <3>1, <3>3 DEF MeetsAt
    <2>3. CASE x = h
      <3>1. Asks(Line', h) = Asks(Line, h) /\ Ends(Line', h) # {} /\ InOrder(h, Line', signal.answers, server)
        BY <2>1, <2>3, OrderOfRequests DEF MeetsAt
      <3>2. Holds(descriptorMap, h) /\ \A i \in DOMAIN descriptorMap : descriptorMap[i].handle = h => i = k
        BY <1>2 DEF Holds, Owned, HandlesDiffer
      <3>3. Converges(h, Line', signal.answers, server, descriptorMap, unpublishing')
        BY <2>1, <2>3, <1>1, <3>1, <3>2 DEF MeetsAt, Converges
      <3> QED
        BY <1>1, <1>6, <2>3, <3>1, <3>3 DEF MeetsAt
    <2> QED
      BY <2>2, <2>3
  <1> QED
    BY <1>7, <1>8, <1>9, <1>10, <1>1, <1>5, <1>6
      DEF Owned, ControlTypes, ResetIsWithin, HandlesDiffer, DescriptorsAreOwned, IsOwned,
          WaitingHaveDescriptors, PublishedAreDistinct
-----------------------------------------------------------------------------
(* Answers. *)

\* An answer is heard on a connection that is up.
LEMMA Heard ==
  ASSUME ControlTypes, WireIsConnected, Fresh, Hears, UNCHANGED <<allocated, connection, server, resetting>>
  PROVE  /\ connection = "up" /\ resetting = 0 /\ signal.answers # <<>>
         /\ signal' \in Signal /\ signal'.answers = Tail(signal.answers) /\ Line' = Line
         /\ Line \in Seq(Request) /\ signal.answers \in Seq(Answer) /\ Answered \in Answer /\ Answered = Head(signal.answers)
         /\ WireIsConnected' /\ Fresh'
  <1>1. signal.answers # <<>> /\ connection = "up" /\ resetting = 0
    BY DEF Hears, WireIsConnected
  <1>2. /\ signal.requests \in Seq(Request) /\ signal.held \in Seq(Request) /\ signal.answers \in Seq(Answer)
        /\ signal' = [requests |-> signal.requests, held |-> signal.held, answers |-> Tail(signal.answers)]
    BY DEF Hears, ControlTypes, Signal
  <1>3. Tail(signal.answers) \in Seq(Answer) /\ Head(signal.answers) \in Answer
    BY <1>1, <1>2, Shifted
  <1>4. WireIsConnected'
    BY <1>1, <1>2 DEF WireIsConnected
  <1>5. \A i \in DOMAIN Tail(signal.answers) : Tail(signal.answers)[i].handle <= allocated
    BY <1>1, <1>2, Shifted DEF Fresh
  <1>6. Fresh'
    BY <1>2, <1>5 DEF Fresh
  <1> QED
    BY <1>1, <1>2, <1>3, <1>4, <1>6 DEF Line, Answered, Signal

\* The descriptor of h is replaced or gone, and its call told.
LEMMA OwnedAfterAnswer ==
  ASSUME ControlTypes, Owned, connection # "gone", resetting = 0, UNCHANGED <<connection, resetting, allocated>>,
         NEW h, Known(h), NEW o \in Pubs, o = descriptorMap[At(h)].pub,
         descriptorMap' \in Seq(Descriptor), HandlesDiffer',
         \A i \in DOMAIN descriptorMap' : descriptorMap'[i].handle # h => \E j \in DOMAIN descriptorMap : descriptorMap[j] = descriptorMap'[i],
         \A j \in DOMAIN descriptorMap : descriptorMap[j].handle # h => \E i \in DOMAIN descriptorMap' : descriptorMap'[i] = descriptorMap[j],
         \A i \in DOMAIN descriptorMap' : descriptorMap'[i].handle = h => descriptorMap'[i].pub = o /\ descriptorMap'[i].type = "active",
         calls' \in [Pubs -> Call], calls'[o].handle = h, \A q \in Pubs : q # o => calls'[q] = calls[q],
         calls'[o].at \in {"failed", "waiting", "published"},
         Holds(descriptorMap', h) => calls'[o].at = "published",
         calls'[o].at = "published" => (Holds(descriptorMap', h) \/ descriptorMap[At(h)].type = "active") /\ ~calls'[o].listening,
         calls'[o].at = "waiting" => h \in orphans',
         \A q \in Pubs : q # o => unpublishing'[q] = unpublishing[q],
         unpublishing'[o] => calls'[o].at = "published" /\ (h \in orphans' \/ Holds(descriptorMap', h)),
         orphans \subseteq orphans'
  PROVE  Owned'
  <1> DEFINE k == At(h)
  <1>1. /\ \A i \in DOMAIN descriptorMap : descriptorMap[i] \in Descriptor /\ IsOwned(i) /\ i \in Nat
        /\ \A i \in DOMAIN descriptorMap' : descriptorMap'[i] \in Descriptor /\ i \in Nat
    BY ElementOfSeq, LenProperties DEF ControlTypes, Owned, DescriptorsAreOwned
  <1>2. /\ k \in DOMAIN descriptorMap /\ descriptorMap[k].handle = h /\ descriptorMap[k].pub = o /\ calls[o].handle = h
        /\ \A i \in DOMAIN descriptorMap : descriptorMap[i].handle = h => i = k
    BY <1>1, AtFinds DEF IsOwned, Owned, Of
  <1> HIDE DEF k
  <1>3. h <= allocated /\ \A q \in Pubs : calls[q].at = "published" /\ calls[q].handle = h => q = o
    BY <1>1, <1>2 DEF IsOwned, Owned, PublishedAreDistinct, Descriptor
  <1>4. \A i \in DOMAIN descriptorMap : descriptorMap[i].handle # h => descriptorMap[i].pub # o /\ descriptorMap[i].pub \in Pubs
    BY <1>1, <1>2 DEF IsOwned, Descriptor
  <1>5. DescriptorsAreOwned'
    <2> SUFFICES ASSUME NEW i \in DOMAIN descriptorMap' PROVE IsOwned(i)'
      BY DEF DescriptorsAreOwned
    <2>1. CASE descriptorMap'[i].handle # h
      <3>1. PICK j \in DOMAIN descriptorMap : descriptorMap[j] = descriptorMap'[i]
        BY <2>1
      <3>2. IsOwned(j) /\ calls'[descriptorMap[j].pub] = calls[descriptorMap[j].pub] /\ ~(j < 0)
        <4>1. descriptorMap[j].pub \in Pubs /\ descriptorMap[j].pub # o
          BY <1>4, <2>1, <3>1
        <4>2. IsOwned(j) /\ j \in Nat
          BY <1>1
        <4> QED
          BY <4>2, <4>1
      <3> QED
        BY <3>1, <3>2, <1>1 DEF IsOwned
    <2> QED
      BY <2>1, <1>3 DEF Holds, IsOwned
  <1>6. WaitingHaveDescriptors'
    <2> SUFFICES ASSUME NEW q \in Pubs, calls'[q].at = "waiting", calls'[q].handle \notin orphans'
                 PROVE  \E i \in DOMAIN descriptorMap' : descriptorMap'[i].type = "pending" /\ descriptorMap'[i].pub = q
      BY DEF WaitingHaveDescriptors
    <2>1. q # o /\ calls'[q] = calls[q]
      OBVIOUS
    <2>2. PICK j \in DOMAIN descriptorMap : descriptorMap[j].type = "pending" /\ descriptorMap[j].pub = q
      BY <2>1 DEF Owned, WaitingHaveDescriptors
    <2> QED
      BY <2>2, <1>2, <2>1
  <1>7. PublishedAreDistinct'
    BY <1>3 DEF Owned, PublishedAreDistinct
  <1>8. UnpublishingIsOwned'
    <2> SUFFICES ASSUME NEW q \in Pubs, unpublishing'[q]
                 PROVE  /\ calls'[q].at \in {"published", "over", "stuck"}
                        /\ calls'[q].at # "stuck" /\ calls'[q].handle \notin orphans' =>
                             /\ calls'[q].at = "over" => connection = "gone"
                             /\ \E i \in DOMAIN descriptorMap' : descriptorMap'[i].type = "active" /\ descriptorMap'[i].pub = q /\ i >= 0
      BY DEF UnpublishingIsOwned
    <2>1. CASE q # o
      <3>1. calls'[q] = calls[q] /\ unpublishing[q]
        BY <2>1
      <3>2. ASSUME calls[q].at # "stuck", calls[q].handle \notin orphans'
            PROVE  /\ calls[q].at = "over" => connection = "gone"
                   /\ \E i \in DOMAIN descriptorMap' : descriptorMap'[i].type = "active" /\ descriptorMap'[i].pub = q /\ i >= 0
        <4>1. calls[q].handle \notin orphans
          BY <3>2
        <4>2. PICK j \in DOMAIN descriptorMap : descriptorMap[j].type = "active" /\ descriptorMap[j].pub = q
          BY <3>1, <3>2, <4>1 DEF Owned, UnpublishingIsOwned
        <4>3. PICK i \in DOMAIN descriptorMap' : descriptorMap'[i] = descriptorMap[j]
          BY <1>2, <2>1, <4>2
        <4> QED
          BY <3>1, <3>2, <4>1, <4>2, <4>3, <1>1 DEF Owned, UnpublishingIsOwned
      <3> QED
        BY <3>1, <3>2 DEF Owned, UnpublishingIsOwned
    <2> QED
      BY <2>1, <1>1 DEF Holds
  <1> QED
    BY <1>5, <1>6, <1>7, <1>8, LenProperties DEF Owned, ResetIsWithin

\* A descriptor is deleted, and another one of its handle may come last.
LEMMA ReplacedOne ==
  ASSUME descriptorMap \in Seq(Descriptor), HandlesDiffer, NEW h, Known(h), NEW e \in Descriptor, e.handle = h,
         descriptorMap' \in {Without(h), Append(Without(h), e)}
  PROVE  /\ descriptorMap' \in Seq(Descriptor) /\ HandlesDiffer'
         /\ \A i \in DOMAIN descriptorMap' : descriptorMap'[i].handle # h => \E j \in DOMAIN descriptorMap : descriptorMap[j] = descriptorMap'[i]
         /\ \A j \in DOMAIN descriptorMap : descriptorMap[j].handle # h => \E i \in DOMAIN descriptorMap' : descriptorMap'[i] = descriptorMap[j]
         /\ descriptorMap' = Without(h) => ~Holds(descriptorMap', h)
         /\ descriptorMap' = Append(Without(h), e) =>
              Holds(descriptorMap', h) /\ \A i \in DOMAIN descriptorMap' : descriptorMap'[i].handle = h => descriptorMap'[i] = e
  <1> DEFINE D == Without(h)  n == Len(D)  E == Append(D, e)
             moved(j) == IF j < At(h) THEN j ELSE j - 1
  <1>1. /\ D \in Seq(Descriptor) /\ descriptorMap[At(h)].handle = h /\ At(h) \in DOMAIN descriptorMap
        /\ \A i \in DOMAIN D : \E j \in DOMAIN descriptorMap : descriptorMap[j].handle # h /\ D[i] = descriptorMap[j] /\ i = moved(j)
        /\ \A j \in DOMAIN descriptorMap : j # At(h) => \E i \in DOMAIN D : D[i] = descriptorMap[j]
    BY WithoutOne
  <1> HIDE DEF D, moved
  <1>2. /\ E \in Seq(Descriptor) /\ DOMAIN E = 1..(n + 1) /\ DOMAIN D = 1..n /\ n \in Nat
        /\ E[n + 1] = e /\ \A i \in 1..n : E[i] = D[i]
    BY <1>1, Appended
  <1> HIDE DEF n, E
  <1>3. \A i, m \in DOMAIN D : D[i].handle = D[m].handle => i = m
    BY <1>1 DEF HandlesDiffer
  <1>4. \A i \in 1..(n + 1) : i \in 1..n \/ i = n + 1
    BY <1>2
  <1>5. \A i \in 1..n : i \in 1..(n + 1) /\ n + 1 \in 1..(n + 1)
    BY <1>2
  <1>6. CASE descriptorMap' = D
    BY <1>1, <1>2, LenProperties, <1>3, <1>6 DEF Holds, HandlesDiffer, D, E
  <1>7. CASE descriptorMap' = E
    <2>1. HandlesDiffer'
      BY <1>7, <1>1, <1>2, <1>3, <1>4 DEF HandlesDiffer
    <2>2. ASSUME NEW j \in DOMAIN descriptorMap, descriptorMap[j].handle # h PROVE \E i \in DOMAIN E : E[i] = descriptorMap[j]
      BY <1>1, <2>2, <1>2, <1>5
    <2>3. Holds(E, h)
      BY <1>2 DEF Holds
    <2>4. ASSUME NEW i \in DOMAIN E, E[i].handle = h PROVE E[i] = e
      BY <1>1, <1>2, <1>4, <2>4
    <2>5. E # D
      BY <1>2, LenProperties
    <2> QED
      BY <1>2, <1>7, <2>1, <2>2, <2>3, <2>4, <2>5, <1>1, <1>4 DEF D, E
  <1> QED
    BY <1>6, <1>7 DEF D, E

\* What the answer is not about is on its way as before.
LEMMA OthersHear ==
  ASSUME ControlTypes, Meets, connection = "up", UNCHANGED <<connection, server>>, signal.answers # <<>>,
         signal'.answers = Tail(signal.answers), Line' = Line,
         NEW x \in AllHandles \ orphans, Head(signal.answers).handle # x,
         \A i \in DOMAIN descriptorMap' : descriptorMap'[i].handle = x =>
           \E j \in DOMAIN descriptorMap : descriptorMap[j] = descriptorMap'[i] /\ (unpublishing'[descriptorMap[j].pub] => unpublishing[descriptorMap[j].pub]),
         \A j \in DOMAIN descriptorMap : descriptorMap[j].handle = x => \E i \in DOMAIN descriptorMap' : descriptorMap'[i] = descriptorMap[j]
  PROVE  MeetsAt(x)'
  <1>1. MeetsAt(x) /\ Line \in Seq(Request) /\ signal.answers \in Seq(Answer)
    BY DEF Meets, ControlTypes, Signal, Line
  <1>2. /\ InOrder(x, Line, Tail(signal.answers), server)
        /\ (Tells(Tail(signal.answers), x) = {} <=> Tells(signal.answers, x) = {})
        /\ (Closes(Tail(signal.answers), x) = {} <=> Closes(signal.answers, x) = {})
    BY <1>1, OrderOfHeard DEF MeetsAt
  <1>3. Converges(x, Line, Tail(signal.answers), server, descriptorMap', unpublishing')
    BY <1>1, <1>2, ConvergesKept DEF MeetsAt, Holds
  <1> QED
    BY <1>2, <1>3 DEF MeetsAt

\* What is heard of a handle that the page does not know changes nothing.
LEMMA UnknownAgreed ==
  ASSUME Agreed, Hears, ~Known(Answered.handle),
         UNCHANGED <<allocated, descriptorMap, calls, unpublishing, resetting, connection, server, orphans>>
  PROVE  Agreed'
  <1> DEFINE h == Answered.handle
  <1> USE DEF Agreed
  <1>1. /\ connection = "up" /\ resetting = 0 /\ signal.answers # <<>>
        /\ signal' \in Signal /\ signal'.answers = Tail(signal.answers) /\ Line' = Line
        /\ Line \in Seq(Request) /\ signal.answers \in Seq(Answer) /\ Answered \in Answer /\ Answered = Head(signal.answers)
        /\ WireIsConnected' /\ Fresh'
    BY Heard
  <1>2. Meets'
    BY <1>1, OrderOfHeard, OthersHear DEF Meets, MeetsAt, Known, Of, Converges, Holds
  <1> QED
    BY <1>1, <1>2
      DEF ControlTypes, Owned, ResetIsWithin, HandlesDiffer, DescriptorsAreOwned, IsOwned,
          WaitingHaveDescriptors, PublishedAreDistinct, UnpublishingIsOwned

\* The answer to a publish request settles the call of the descriptor, or the server has the track and
\* the page has not.
LEMMA PublishAnsweredAgreed ==
  ASSUME Agreed, PublishAnswered
  PROVE  Agreed'
  <1> DEFINE h == Answered.handle  d == descriptorMap[At(h)]  o == d.pub
             good == Answered.op = "published" /\ (d.type = "pending" \/ d.state = "republishing")
             e == [d EXCEPT !.type = "active", !.state = "published"]
  <1> USE DEF Agreed
  <1>1. /\ Hears /\ Answered.op \in {"published", "refused"}
        /\ UNCHANGED <<allocated, unpublishing, resetting, connection, server>>
    BY DEF PublishAnswered
  <1>2. /\ connection = "up" /\ resetting = 0 /\ signal.answers # <<>>
        /\ signal' \in Signal /\ signal'.answers = Tail(signal.answers) /\ Line' = Line
        /\ Line \in Seq(Request) /\ signal.answers \in Seq(Answer) /\ Answered \in Answer /\ Answered = Head(signal.answers)
        /\ WireIsConnected' /\ Fresh'
    BY <1>1, Heard
  <1>3. CASE Known(h)
    <2>1. /\ descriptorMap' = IF good THEN Append(Without(h), e) ELSE Without(h)
          /\ calls' = IF d.type # "pending" THEN calls
                      ELSE [calls EXCEPT ![o].at = IF good THEN "published" ELSE "failed", ![o].listening = @ /\ ~good]
          /\ orphans' = IF d.type = "active" /\ ~good THEN orphans \union {h} ELSE orphans
      BY <1>3 DEF PublishAnswered
    <2>2. /\ d \in Descriptor /\ d.handle = h /\ o \in Pubs /\ At(h) \in DOMAIN descriptorMap /\ h \in AllHandles
          /\ e \in Descriptor /\ e.handle = h /\ e.pub = o /\ e.type = "active" /\ e.state = "published"
      <3>1. d \in Descriptor /\ d.handle = h /\ At(h) \in DOMAIN descriptorMap
        BY <1>3, AtFinds, ElementOfSeq, LenProperties DEF ControlTypes, Owned
      <3> QED
        BY <1>2, <3>1 DEF Descriptor, Answer
    <2>3. /\ calls[o].handle = h
          /\ d.type = "pending" => calls[o].at = "waiting"
          /\ d.type = "active" => calls[o].at = "published" /\ ~calls[o].listening
      BY <2>2, LenProperties, <1>2 DEF Owned, DescriptorsAreOwned, ControlTypes, IsOwned, PublishedAreDistinct
    <2>4. d.type = "pending" => ~unpublishing[o]
      BY <2>2, <2>3 DEF Owned, UnpublishingIsOwned
    <2>5. d.type = "pending" \/ d.type = "active"
      BY <2>2 DEF Descriptor
    <2>6. /\ orphans \subseteq orphans' /\ orphans' \subseteq AllHandles
          /\ d.type = "active" /\ ~good => h \in orphans'
      BY <2>1, <2>2 DEF ControlTypes
    <2> HIDE DEF h, d, o, good, e
    <2>7. /\ calls' \in [Pubs -> Call] /\ calls'[o].handle = h /\ \A q \in Pubs : q # o => calls'[q] = calls[q]
          /\ d.type = "pending" => calls'[o].at = (IF good THEN "published" ELSE "failed") /\ (good => ~calls'[o].listening)
          /\ d.type = "active" => calls' = calls
      <3>1. calls \in [Pubs -> Call]
        BY DEF ControlTypes
      <3>2. CASE d.type = "pending"
        <4>1. calls' = [calls EXCEPT ![o].at = IF good THEN "published" ELSE "failed", ![o].listening = @ /\ ~good]
          BY <2>1, <3>2
        <4>2. calls' \in [Pubs -> Call]
          <5> DEFINE c == [calls[o] EXCEPT !.at = IF good THEN "published" ELSE "failed", !.listening = @ /\ ~good]
          <5>1. c \in Call
            BY <2>2, <3>1 DEF Call, good
          <5> QED
            BY <2>2, <3>1, <5>1, <4>1
        <4> QED
          BY <3>2, <4>2, <3>1, <4>1, <2>2, <2>3 DEF Call
      <3> QED
        BY <2>5, <3>2, <2>1, <2>2, <2>3, <3>1
    <2>8. /\ descriptorMap' \in Seq(Descriptor) /\ HandlesDiffer'
          /\ \A i \in DOMAIN descriptorMap' : descriptorMap'[i].handle # h => \E j \in DOMAIN descriptorMap : descriptorMap[j] = descriptorMap'[i]
          /\ \A j \in DOMAIN descriptorMap : descriptorMap[j].handle # h => \E i \in DOMAIN descriptorMap' : descriptorMap'[i] = descriptorMap[j]
          /\ descriptorMap' = Without(h) => ~Holds(descriptorMap', h)
          /\ descriptorMap' = Append(Without(h), e) =>
               Holds(descriptorMap', h) /\ \A i \in DOMAIN descriptorMap' : descriptorMap'[i].handle = h => descriptorMap'[i] = e
      <3>1. descriptorMap \in Seq(Descriptor) /\ HandlesDiffer /\ Known(h) /\ descriptorMap' \in {Without(h), Append(Without(h), e)}
        BY <1>3, <2>1 DEF ControlTypes, Owned, h
      <3> QED
        BY <2>2, <3>1, ReplacedOne
    <2>9. /\ ~good => ~Holds(descriptorMap', h)
          /\ good => Holds(descriptorMap', h) /\ \A i \in DOMAIN descriptorMap' : descriptorMap'[i].handle = h => descriptorMap'[i] = e
      BY <2>1, <2>8
    <2>10. \A i \in DOMAIN descriptorMap' : descriptorMap'[i].handle = h => descriptorMap'[i].pub = o /\ descriptorMap'[i].type = "active"
      BY <2>2, <2>9 DEF Holds
    <2>11. Owned'
      <3>1. Known(h) /\ o = descriptorMap[At(h)].pub
        BY <1>3 DEF h, o, d
      <3>2. /\ calls'[o].at \in {"failed", "waiting", "published"}
            /\ Holds(descriptorMap', h) => calls'[o].at = "published"
            /\ calls'[o].at = "published" => (Holds(descriptorMap', h) \/ d.type = "active") /\ ~calls'[o].listening
            /\ calls'[o].at = "waiting" => h \in orphans'
        BY <2>3, <2>5, <2>7, <2>9
      <3>3. unpublishing'[o] => calls'[o].at = "published" /\ (h \in orphans' \/ Holds(descriptorMap', h))
        BY <1>1, <2>3, <2>4, <2>5, <2>6, <2>7, <2>9
      <3>4. connection # "gone" /\ d = descriptorMap[At(h)]
        BY <1>2 DEF d
      <3> QED
        BY <1>1, <1>2, <2>2, <2>6, <2>7, <2>8, <2>10, <3>1, <3>2, <3>3, <3>4, OwnedAfterAnswer
    <2>12. Meets'
      <3> SUFFICES ASSUME NEW x \in AllHandles \ orphans' PROVE MeetsAt(x)'
        BY DEF Meets
      <3>1. x \in AllHandles \ orphans /\ MeetsAt(x)
        BY <1>2, <2>6 DEF Meets
      <3>2. CASE x = h
        <4> DEFINE A == signal.answers  B == Tail(signal.answers)
        <4>1. /\ InOrder(h, Line, B, server)
              /\ Tells(A, h) # {} /\ Tells(B, h) = {} /\ (Closes(B, h) = {} <=> Closes(A, h) = {})
          BY <1>1, <1>2, <3>1, <3>2, OrderOfHeard DEF MeetsAt, h
        <4>2. /\ Answered.op = "published" => h \in server \/ Closes(A, h) # {}
              /\ Answered.op = "refused" => h \notin server
          BY <1>1, <1>2, <3>1, <3>2, OrderOfHeard DEF MeetsAt, h
        <4>3. Asks(Line, h) = {}
          BY <3>1, <3>2, <4>1 DEF MeetsAt, InOrder
        <4>4. Converges(h, Line, A, server, descriptorMap, unpublishing)
          BY <3>1, <3>2 DEF MeetsAt
        <4> HIDE DEF A, B
        <4>5. Converges(h, Line, B, server, descriptorMap', unpublishing)
          <5>1. CASE ~good
            BY <2>5, <2>6, <3>2, <5>1, <1>1, <4>2, <2>9, <4>3 DEF good, Converges, Holds
          <5> QED
            BY <5>1, <4>1, <4>2, <2>2, <2>4, <2>5, <4>4, <2>9, <4>3 DEF good, Converges, d, o
        <4> QED
          BY <1>1, <1>2, <3>2, <4>1, <4>5 DEF MeetsAt, B
      <3> QED
        BY <3>2, <1>2, <1>1, <2>8, <3>1, OthersHear DEF h
    <2> QED
      BY <1>2, <2>11, <2>12, <1>1, <2>6, <2>7, <2>8 DEF ControlTypes
  <1> QED
    BY <1>3, <1>1, UnknownAgreed DEF PublishAnswered

\* Nothing is left of a publication whose end was heard.
LEMMA UnpublishAnsweredAgreed ==
  ASSUME Agreed, UnpublishAnswered
  PROVE  Agreed'
  <1> DEFINE h == Answered.handle  d == descriptorMap[At(h)]  o == d.pub
  <1> USE DEF Agreed
  <1>1. /\ Hears /\ Answered.op = "unpublished"
        /\ UNCHANGED <<allocated, calls, resetting, connection, server, orphans>>
    BY DEF UnpublishAnswered
  <1>2. /\ connection = "up" /\ resetting = 0 /\ signal.answers # <<>>
        /\ signal' \in Signal /\ signal'.answers = Tail(signal.answers) /\ Line' = Line
        /\ Line \in Seq(Request) /\ signal.answers \in Seq(Answer) /\ Answered \in Answer /\ Answered = Head(signal.answers)
        /\ WireIsConnected' /\ Fresh'
    BY <1>1, Heard
  <1>3. CASE Known(h)
    <2>1. descriptorMap' = Without(h) /\ unpublishing' = [unpublishing EXCEPT ![o] = FALSE]
      BY <1>3 DEF UnpublishAnswered, Unpublished
    <2>2. d \in Descriptor /\ d.handle = h /\ o \in Pubs /\ At(h) \in DOMAIN descriptorMap /\ h \in AllHandles
      <3>1. d \in Descriptor /\ d.handle = h /\ At(h) \in DOMAIN descriptorMap
        BY <1>3, AtFinds, ElementOfSeq, LenProperties DEF ControlTypes, Owned
      <3> QED
        BY <1>2, <3>1 DEF Descriptor, Answer
    <2>3. /\ calls[o].handle = h
          /\ d.type = "pending" => calls[o].at = "waiting"
          /\ d.type = "active" => calls[o].at = "published" /\ ~calls[o].listening
      BY <2>2, LenProperties, <1>2 DEF Owned, DescriptorsAreOwned, ControlTypes, IsOwned, PublishedAreDistinct
    <2>4. d.type = "pending" \/ d.type = "active"
      BY <2>2 DEF Descriptor
    <2> HIDE DEF h, d, o
    <2>5. /\ unpublishing' \in [Pubs -> BOOLEAN] /\ ~unpublishing'[o]
          /\ \A q \in Pubs : unpublishing'[q] => unpublishing[q]
          /\ \A q \in Pubs : q # o => unpublishing'[q] = unpublishing[q]
      BY <2>1, <2>2 DEF ControlTypes
    <2>6. /\ descriptorMap' \in Seq(Descriptor) /\ HandlesDiffer'
          /\ \A i \in DOMAIN descriptorMap' : descriptorMap'[i].handle # h => \E j \in DOMAIN descriptorMap : descriptorMap[j] = descriptorMap'[i]
          /\ \A j \in DOMAIN descriptorMap : descriptorMap[j].handle # h => \E i \in DOMAIN descriptorMap' : descriptorMap'[i] = descriptorMap[j]
          /\ ~Holds(descriptorMap', h)
      BY <1>3, <2>1, <2>2, ReplacedOne DEF ControlTypes, Owned, h
    <2>7. MeetsAt(h) => Closes(signal.answers, h) # {} /\ Tells(signal.answers, h) = {} /\ InOrder(h, Line, Tail(signal.answers), server)
      BY <1>1, <1>2, OrderOfHeard DEF MeetsAt, h
    <2>8. h \notin orphans => MeetsAt(h)
      BY <1>2, <2>2 DEF Meets
    <2>9. h \notin orphans => d.type = "active"
      BY <2>2, <2>4, <2>7, <2>8 DEF MeetsAt, Converges, d
    <2>10. Owned'
      <3>1. Known(h) /\ o = descriptorMap[At(h)].pub /\ d = descriptorMap[At(h)] /\ connection # "gone"
        BY <1>2, <1>3 DEF h, o, d
      <3>2. /\ calls'[o].at \in {"failed", "waiting", "published"} /\ calls'[o].handle = h
            /\ calls'[o].at = "published" => d.type = "active" /\ ~calls'[o].listening
            /\ calls'[o].at = "waiting" => h \in orphans'
        BY <1>1, <2>3, <2>4, <2>9
      <3>3. calls' \in [Pubs -> Call] /\ (\A q \in Pubs : q # o => calls'[q] = calls[q]) /\ orphans \subseteq orphans'
        BY <1>1 DEF ControlTypes
      <3> QED
        BY <1>1, <1>2, <2>2, <2>5, <2>6, <3>1, <3>2, <3>3, OwnedAfterAnswer DEF Holds
    <2>11. Meets'
      <3> SUFFICES ASSUME NEW x \in AllHandles \ orphans PROVE MeetsAt(x)'
        BY <1>1 DEF Meets
      <3>1. CASE x # h
        <4>1. ASSUME NEW i \in DOMAIN descriptorMap', descriptorMap'[i].handle = x
              PROVE  \E j \in DOMAIN descriptorMap : descriptorMap[j] = descriptorMap'[i] /\ (unpublishing'[descriptorMap[j].pub] => unpublishing[descriptorMap[j].pub])
          <5>1. PICK j \in DOMAIN descriptorMap : descriptorMap[j] = descriptorMap'[i]
            BY <2>6, <3>1, <4>1
          <5>2. descriptorMap[j].pub \in Pubs
            <6>1. descriptorMap[j] \in Descriptor
              BY ElementOfSeq, LenProperties DEF ControlTypes
            <6> QED
              BY <6>1 DEF Descriptor
          <5> QED
            BY <2>5, <5>1, <5>2
        <4> QED
          BY <1>1, <1>2, <4>1, OthersHear, <3>1, <2>6 DEF h
      <3> QED
        BY <3>1, <2>7, <2>8, <2>6, <1>1, <1>2 DEF MeetsAt, InOrder, Converges, Holds
    <2> QED
      BY <1>2, <2>10, <2>11, <1>1, <2>5, <2>6 DEF ControlTypes
  <1> QED
    BY <1>3, <1>1, UnknownAgreed DEF UnpublishAnswered
-----------------------------------------------------------------------------
(* The session. *)

\* Whose the descriptors are does not depend on the wire.
LEMMA OwnedKept ==
  ASSUME Owned, UNCHANGED <<allocated, descriptorMap, calls, unpublishing, resetting>>, orphans \subseteq orphans',
         connection = "gone" <=> connection' = "gone"
  PROVE  Owned'
  BY DEF Owned, ResetIsWithin, HandlesDiffer, WaitingHaveDescriptors, DescriptorsAreOwned, IsOwned,
         PublishedAreDistinct, UnpublishingIsOwned

\* Nothing of a handle that is no orphan was on the way when the connection was lost.
LEMMA LoseAgreed ==
  ASSUME Agreed, Lose
  PROVE  Agreed'
  <1> USE DEF Agreed
  <1>1. /\ connection = "up" /\ connection' = "resuming" /\ UNCHANGED <<allocated, descriptorMap, calls, unpublishing, resetting, server>>
        /\ orphans' = orphans \union {r.handle : r \in ToSet(signal.requests) \union ToSet(signal.answers)}
    BY DEF Lose, manager
  <1>2. /\ signal.requests \in Seq(Request) /\ signal.held \in Seq(Request) /\ signal.answers \in Seq(Answer)
        /\ signal' = [requests |-> <<>>, held |-> signal.held, answers |-> <<>>] /\ signal.held = <<>>
    BY <1>1 DEF Lose, ControlTypes, Signal, WireIsConnected
  <1>3. /\ \A i \in DOMAIN signal.requests : signal.requests[i] \in Request /\ signal.requests[i].handle \in orphans'
        /\ \A i \in DOMAIN signal.answers : signal.answers[i] \in Answer /\ signal.answers[i].handle \in orphans'
    BY <1>1, <1>2, ElementOfSeq, LenProperties DEF ToSet
  <1>4. orphans \subseteq orphans' /\ orphans' \subseteq AllHandles
    BY <1>3, <1>1 DEF ToSet, Request, Answer, ControlTypes
  <1>5. WireIsConnected' /\ Fresh'
    BY <1>1, <1>2 DEF WireIsConnected, Fresh
  <1>6. Meets'
    <2> SUFFICES ASSUME NEW x \in AllHandles \ orphans' PROVE MeetsAt(x)'
      BY DEF Meets
    <2>1. MeetsAt(x) /\ Line = signal.requests /\ Line' = <<>> /\ signal'.answers = <<>>
      BY <1>1, <1>2, <1>4 DEF Meets, Line
    <2>2. Asks(<<>>, x) = {} /\ Ends(<<>>, x) = {} /\ Tells(<<>>, x) = {} /\ Closes(<<>>, x) = {}
      BY DEF Asks, Ends, Tells, Closes, Those
    <2>3. Converges(x, <<>>, <<>>, server, descriptorMap, unpublishing)
      BY <2>1, <2>2, ConvergesKept, <1>3 DEF MeetsAt, Asks, Ends, Tells, Closes, Those
    <2> QED
      BY <1>1, <2>1, <2>3, <2>2 DEF MeetsAt, InOrder
  <1> QED
    BY <1>5, <1>6, <1>1, <1>2, <1>4, OwnedKept DEF ControlTypes, Signal

\* What was held is on its way then.
LEMMA ResumedAgreed ==
  ASSUME Agreed, Resumed
  PROVE  Agreed'
  <1> USE DEF Agreed
  <1>1. /\ connection = "resuming" /\ connection' = "up" /\ UNCHANGED <<allocated, descriptorMap, calls, unpublishing, resetting, server, orphans>>
    BY DEF Resumed, manager
  <1>2. /\ signal.held \in Seq(Request) /\ signal.answers \in Seq(Answer)
        /\ signal' = [requests |-> signal.held, held |-> <<>>, answers |-> signal.answers]
    BY <1>1 DEF Resumed, ControlTypes, Signal
  <1>3. WireIsConnected' /\ Fresh'
    BY <1>1, <1>2 DEF WireIsConnected, Fresh
  <1>4. Meets'
    BY <1>1, <1>2 DEF Line, Meets, MeetsAt
  <1> QED
    BY <1>3, <1>4, <1>1, <1>2, OwnedKept DEF ControlTypes, Signal

\* The publications end with the server's side of the session, about which nothing is said meanwhile.
LEMMA RestartingAgreed ==
  ASSUME Agreed, InvalidateWaiters
  PROVE  Agreed'
  BY OwnedKept DEF Agreed, InvalidateWaiters, manager, ControlTypes, WireIsConnected, Fresh, Meets

\* A call that is made before the next session is in it.
LEMMA ConnectsAgreed ==
  ASSUME Agreed, Connects
  PROVE  Agreed'
  <1> USE DEF Agreed
  <1>1. /\ connection = "gone" /\ resetting = 0 /\ connection' = "up"
        /\ UNCHANGED <<allocated, descriptorMap, calls, unpublishing, resetting, signal, server, orphans>>
    BY DEF Connects, manager
  <1>2. \A i \in DOMAIN descriptorMap : IsOwned(i) /\ descriptorMap[i].type = "pending"
    BY <1>1 DEF Owned, DescriptorsAreOwned, IsOwned
  <1>3. /\ WireIsConnected' /\ signal.requests = <<>> /\ signal.answers = <<>> /\ server = {} /\ Line' = <<>>
        /\ signal'.answers = <<>> /\ server' = {}
    BY <1>1 DEF WireIsConnected, Line
  <1>4. Fresh'
    BY <1>1 DEF Fresh
  <1>5. Meets'
    BY <1>1, <1>2, <1>3 DEF Meets, Asks, Ends, Tells, Closes, Those, InOrder, Converges, MeetsAt
  <1> QED
    BY <1>3, <1>4, <1>5, <1>1, <1>2
      DEF ControlTypes, Owned, ResetIsWithin, HandlesDiffer, WaitingHaveDescriptors, DescriptorsAreOwned,
          IsOwned, PublishedAreDistinct, UnpublishingIsOwned

-----------------------------------------------------------------------------
(* The server. *)

\* The server says of a handle what the page has asked for.
LEMMA ServedAgreed ==
  ASSUME Agreed, Served
  PROVE  Agreed'
  <1> DEFINE r == Head(signal.requests)  L == signal.requests  A == signal.answers
  <1> USE DEF Agreed
  <1>1. /\ L # <<>> /\ UNCHANGED <<allocated, descriptorMap, calls, unpublishing, resetting, connection, orphans>>
        /\ L \in Seq(Request) /\ A \in Seq(Answer) /\ signal.held \in Seq(Request)
        /\ signal = [requests |-> signal.requests, held |-> signal.held, answers |-> signal.answers]
    BY DEF Served, manager, ControlTypes, Signal
  <1>2. connection = "up" /\ r \in Request /\ r.handle \in AllHandles /\ r.op \in {"publish", "unpublish"} /\ r.handle <= allocated
    <2>1. r \in Request /\ r = L[1] /\ 1 \in DOMAIN L
      BY <1>1, Shifted
    <2> QED
      BY <1>1, <2>1 DEF WireIsConnected, Request, Fresh
  <1>3. PICK a \in Answer : ServedAs(r, a, server, server') /\ signal' = [signal EXCEPT !.requests = Tail(@), !.answers = Append(@, a)]
    <2>1. PICK good \in {TRUE, r.op = "unpublish"} :
            /\ server' = IF r.op = "unpublish" THEN server \ {r.handle} ELSE IF good THEN server \union {r.handle} ELSE server
            /\ signal' = [signal EXCEPT !.requests = Tail(@), !.answers = Append(@, [op |->
                 IF r.op = "unpublish" THEN "unpublished" ELSE IF good THEN "published" ELSE "refused", handle |-> r.handle])]
      BY DEF Served
    <2> DEFINE a == [op |-> IF r.op = "unpublish" THEN "unpublished" ELSE IF good THEN "published" ELSE "refused", handle |-> r.handle]
    <2> QED
      BY <2>1, <1>2 DEF Answer, ServedAs
  <1> HIDE DEF r, L, A
  <1>4. /\ Tail(L) \in Seq(Request) /\ Append(A, a) \in Seq(Answer)
        /\ signal' = [requests |-> Tail(L), held |-> signal.held, answers |-> Append(A, a)]
        /\ signal'.requests = Tail(L) /\ signal'.held = signal.held /\ signal'.answers = Append(A, a)
        /\ Line = L /\ Line' = Tail(L)
    BY <1>1, Shifted, Appended, <1>3, <1>2 DEF L, A, Line
  <1>5. a.handle = r.handle /\ server' \subseteq server \union {r.handle}
    BY <1>3 DEF ServedAs
  <1>6. WireIsConnected'
    BY <1>1, <1>2, <1>4 DEF WireIsConnected
  <1>7. Fresh'
    BY <1>1, Shifted, Appended, <1>2, <1>5, <1>4 DEF Fresh, L, A
  <1>8. Meets'
    <2> SUFFICES ASSUME NEW x \in AllHandles \ orphans PROVE MeetsAt(x)'
      BY <1>1 DEF Meets
    <2>1. Converges(x, L, A, server, descriptorMap, unpublishing) /\ InOrder(x, L, A, server) /\ Head(L) = r
      BY <1>2, <1>4 DEF Meets, MeetsAt, A, r, L
    <2> DEFINE K == Tail(L)  B == Append(A, a)
    <2>2. K = Tail(L) /\ B = Append(A, a)
      OBVIOUS
    <2> HIDE DEF K, B
    <2>3. AfterServing(x, r, L, A, server, K, B, server')
      BY <2>1, <2>2, OrderOfServed, <1>1, <1>3
    <2>4. InOrder(x, K, B, server')
      BY <2>3 DEF AfterServing
    <2>5. CASE r.handle # x
      <3>1. Converges(x, K, B, server', descriptorMap, unpublishing)
        BY <2>1, ConvergesKept, <2>3, <2>5 DEF AfterServing
      <3> QED
        BY <1>1, <1>4, <2>2, <2>4, <3>1 DEF MeetsAt
    <2>6. CASE r.handle = x /\ r.op = "publish"
      <3>1. /\ Asks(L, x) # {} /\ Asks(K, x) = {}
            /\ Ends(K, x) = {} <=> Ends(L, x) = {}
            /\ Tells(B, x) # {}
        BY <2>3, <2>6 DEF AfterServing
      <3>2. Closes(A, x) = {}
        BY <2>1, <3>1 DEF InOrder
      <3>3. Converges(x, K, B, server', descriptorMap, unpublishing)
        BY <2>1, <3>1, <3>2 DEF Converges, K
      <3> QED
        BY <1>1, <1>4, <2>2, <2>4, <3>3 DEF MeetsAt
    <2>7. CASE r.handle = x /\ r.op = "unpublish"
      BY <2>3, <2>7, <2>1, <1>1, <1>4, <2>2, <2>4 DEF AfterServing, Converges, MeetsAt
    <2> QED
      BY <1>2, <2>5, <2>6, <2>7
  <1> QED
    BY <1>6, <1>7, <1>8, <1>1, <1>2, <1>4, <1>5, OwnedKept DEF ControlTypes, Signal

\* The server tells the page of what it ends.
LEMMA ServerUnpublishesAgreed ==
  ASSUME Agreed, NEW h \in AllHandles, ServerUnpublishes(h)
  PROVE  Agreed'
  <1> DEFINE a == [op |-> "unpublished", handle |-> h]  A == signal.answers
  <1> USE DEF Agreed
  <1>1. /\ connection = "up" /\ h \in server /\ server' = server \ {h}
        /\ UNCHANGED <<allocated, descriptorMap, calls, unpublishing, resetting, connection, orphans>>
        /\ signal.requests \in Seq(Request) /\ signal.held \in Seq(Request) /\ A \in Seq(Answer)
        /\ signal' = [requests |-> signal.requests, held |-> signal.held, answers |-> Append(A, a)]
    BY DEF ServerUnpublishes, manager, ControlTypes, Signal
  <1>2. a \in Answer /\ a.handle = h /\ a.op = "unpublished"
    BY DEF Answer
  <1> HIDE DEF a, A
  <1>3. /\ Append(A, a) \in Seq(Answer) /\ Line' = Line /\ Line \in Seq(Request)
        /\ signal'.requests = signal.requests /\ signal'.held = signal.held /\ signal'.answers = Append(A, a)
    BY <1>1, <1>2, Appended DEF Line
  <1>4. WireIsConnected'
    BY <1>1, <1>3 DEF WireIsConnected
  <1>5. Fresh'
    BY <1>1, <1>2, Appended, <1>3 DEF Fresh, A
  <1>6. Meets'
    <2> SUFFICES ASSUME NEW x \in AllHandles \ orphans PROVE MeetsAt(x)'
      BY <1>1 DEF Meets
    <2>1. InOrder(x, Line, A, server) /\ Converges(x, Line, A, server, descriptorMap, unpublishing)
      BY <1>1 DEF Meets, MeetsAt, A
    <2> DEFINE B == Append(A, a)
    <2>2. B = Append(A, a)
      OBVIOUS
    <2> HIDE DEF B
    <2>3. AfterRevoking(x, a, Line, A, B, server)
      BY <2>2, OrderOfRevoked, <1>1, <1>2, <1>3, <2>1
    <2>4. InOrder(x, Line, B, server \ {h})
      BY <1>2, <2>3 DEF AfterRevoking
    <2>5. CASE x # h
      <3>1. Converges(x, Line, B, server', descriptorMap, unpublishing)
        BY <1>1, <2>1, <2>5, ConvergesKept, <1>2, <2>3 DEF AfterRevoking
      <3> QED
        BY <1>1, <1>3, <2>2, <2>4, <3>1 DEF MeetsAt
    <2> QED
      BY <2>5, <1>2, <2>3, <1>1, <2>1, <1>3, <2>2, <2>4 DEF AfterRevoking, Converges, MeetsAt
  <1> QED
    BY <1>4, <1>5, <1>6, <1>1, <1>3, OwnedKept DEF ControlTypes, Signal
-----------------------------------------------------------------------------
(* A restart of the session. *)

\* Where the elements of A are, in order.
LEMMA Places ==
  ASSUME NEW n \in Nat, NEW A \in SUBSET (1..n),
         NEW P, P = [k \in 1..Cardinality(A) |-> CHOOSE i \in A : Cardinality({j \in A : j <= i}) = k]
  PROVE  /\ Cardinality(A) \in Nat /\ \A k \in 1..Cardinality(A) : P[k] \in A
         /\ \A k, l \in 1..Cardinality(A) : P[k] = P[l] => k = l
  <1> DEFINE rank(i) == Cardinality({j \in A : j <= i})  C == Cardinality(A)
  <1>1. \A k \in 1..C : \E i \in A : rank(i) = k
    BY Ranks
  <1>2. \A k \in 1..C : P[k] = CHOOSE i \in A : rank(i) = k
    OBVIOUS
  <1> HIDE DEF rank, C
  <1>3. \A k \in 1..C : P[k] \in A /\ rank(P[k]) = k
    BY <1>1, <1>2
  <1> QED
    BY <1>3, Ranks DEF C

\* E are the descriptors at the C places P as they stay, and Q the requests for them.
Republishes(C, P, E, Q) ==
  /\ C \in Nat
  /\ \A k \in 1..C : P[k] \in DOMAIN descriptorMap
  /\ \A k, l \in 1..C : P[k] = P[l] => k = l
  /\ E = [k \in 1..C |-> E[k]] /\ \A k \in 1..C : E[k] = [descriptorMap[P[k]] EXCEPT !.state = "republishing"]
  /\ Q = [k \in 1..C |-> Q[k]] /\ \A k \in 1..C : Q[k] = [op |-> "publish", handle |-> descriptorMap[P[k]].handle]

\* The descriptors that stay, one by one, and the request for each.
AreRepublished(C, P, E, Q) ==
  /\ E \in Seq(Descriptor) /\ Q \in Seq(Request) /\ DOMAIN E = 1..C /\ DOMAIN Q = 1..C
  /\ \A k \in 1..C : /\ E[k].handle = descriptorMap[P[k]].handle /\ E[k].pub = descriptorMap[P[k]].pub
                      /\ E[k].type = descriptorMap[P[k]].type /\ E[k].state = "republishing" /\ E[k] \in Descriptor
  /\ \A k, l \in 1..C : E[k].handle = E[l].handle => k = l
  /\ \A k \in 1..C : Q[k].op = "publish" /\ Q[k].handle = E[k].handle

\* The requests that a restart sends ask for the descriptors that stay.
LEMMA Republished ==
  ASSUME ControlTypes, HandlesDiffer, NEW C, NEW P, NEW E, NEW Q, Republishes(C, P, E, Q)
  PROVE  AreRepublished(C, P, E, Q)
  <1>1. /\ C \in Nat
        /\ \A k \in 1..C : P[k] \in DOMAIN descriptorMap
        /\ \A k, l \in 1..C : P[k] = P[l] => k = l
        /\ E = [k \in 1..C |-> E[k]] /\ \A k \in 1..C : E[k] = [descriptorMap[P[k]] EXCEPT !.state = "republishing"]
        /\ Q = [k \in 1..C |-> Q[k]] /\ \A k \in 1..C : Q[k] = [op |-> "publish", handle |-> descriptorMap[P[k]].handle]
    BY DEF Republishes
  <1>2. ASSUME NEW k \in 1..C
        PROVE  /\ E[k].handle = descriptorMap[P[k]].handle /\ E[k].pub = descriptorMap[P[k]].pub
               /\ E[k].type = descriptorMap[P[k]].type /\ E[k].state = "republishing" /\ E[k] \in Descriptor
               /\ Q[k] \in Request /\ Q[k].op = "publish" /\ Q[k].handle = descriptorMap[P[k]].handle
    <2> DEFINE d == descriptorMap[P[k]]
    <2>1. d \in Descriptor /\ E[k] = [d EXCEPT !.state = "republishing"] /\ Q[k] = [op |-> "publish", handle |-> d.handle]
      BY <1>1, ElementOfSeq, LenProperties DEF ControlTypes
    <2> HIDE DEF d
    <2> QED
      BY <2>1 DEF d, Descriptor, Request
  <1>3. E \in [1..C -> Descriptor] /\ Q \in [1..C -> Request]
    BY <1>1, <1>2
  <1>4. E \in Seq(Descriptor) /\ Q \in Seq(Request) /\ DOMAIN E = 1..C /\ DOMAIN Q = 1..C
    <2>1. Q \in Seq(Request)
      BY <1>1, <1>3
    <2> QED
      BY <1>3, <2>1, <1>1
  <1> QED
    BY <1>2, <1>4, <1>1 DEF AreRepublished, HandlesDiffer

\* Of h nothing is given up in M, and it is asked for, once, if Q does.
AskedAre(M, Q, h) ==
  /\ Ends(M, h) = {} /\ \A i, j \in Asks(M, h) : i = j
  /\ Asks(M, h) = {} <=> \A i \in DOMAIN Q : Q[i].handle # h

\* Of what is held and what is asked for after it, the latter only is about a handle that is no orphan.
LEMMA AskedAfter ==
  ASSUME NEW L \in Seq(Request), NEW Q \in Seq(Request), NEW h,
         \A i \in DOMAIN L : L[i].handle # h, \A i \in DOMAIN Q : Q[i].op = "publish",
         \A i, j \in DOMAIN Q : Q[i].handle = h /\ Q[j].handle = h => i = j
  PROVE  AskedAre(L \o Q, Q, h)
  <1> DEFINE M == L \o Q  l == Len(L)  n == Len(Q)
  <1>1. /\ l \in Nat /\ n \in Nat /\ DOMAIN L = 1..l /\ DOMAIN Q = 1..n
        /\ M \in Seq(Request) /\ Len(M) = l + n
        /\ \A i \in 1..(l + n) : M[i] = IF i <= l THEN L[i] ELSE Q[i - l]
    BY LenProperties, ConcatProperties
  <1>2. DOMAIN M = 1..(l + n)
    BY <1>1, LenProperties
  <1> HIDE DEF M, l, n
  <1>3. ASSUME NEW i \in DOMAIN M, M[i].handle = h
        PROVE  i \in Nat /\ l \in Nat /\ i > l /\ i - l \in DOMAIN Q /\ M[i] = Q[i - l] /\ Q[i - l].handle = h /\ M[i].op = "publish"
    <2>1. ~(i <= l)
      BY <1>1, <1>2, <1>3
    <2>2. M[i] = Q[i - l]
      BY <1>1, <1>2, <2>1
    <2> QED
      BY <1>1, <1>3, <2>2, <1>2, <2>1
  <1>4. ASSUME NEW j \in DOMAIN Q PROVE l + j \in DOMAIN M /\ M[l + j] = Q[j]
    <2>1. l + j \in 1..(l + n) /\ ~(l + j <= l) /\ (l + j) - l = j
      BY <1>1
    <2> QED
      BY <1>1, <1>2, <2>1
  <1>5. Asks(M, h) = {} <=> \A i \in DOMAIN Q : Q[i].handle # h
    BY <1>3, <1>4 DEF Asks, Those
  <1>6. AskedAre(M, Q, h)
    BY <1>5, <1>3 DEF AskedAre, Ends, Those, Asks
  <1> QED
    BY <1>6 DEF M

\* A restart asks for the publications again, under the same handles.
LEMMA RestartedAgreed ==
  ASSUME Agreed, SfuWillRepublishTracks
  PROVE  Agreed'
  <1> DEFINE A == {i \in DOMAIN descriptorMap : descriptorMap[i].type = "active"}
             C == Cardinality(A)
             P == [k \in 1..C |-> CHOOSE i \in A : Cardinality({j \in A : j <= i}) = k]
             F == [k \in 1..C |-> descriptorMap[CHOOSE i \in A : Cardinality({j \in A : j <= i}) = k]]
             E == [i \in DOMAIN F |-> [F[i] EXCEPT !.state = "republishing"]]
             Q == [i \in DOMAIN F |-> [op |-> "publish", handle |-> F[i].handle]]
  <1> USE DEF Agreed
  <1>0. /\ connection = "restarting" /\ connection' = "up" /\ UNCHANGED <<allocated, unpublishing, resetting, server>>
        /\ signal' = [signal EXCEPT !.requests = signal.held \o Q, !.held = <<>>]
        /\ descriptorMap' = E
        /\ calls' = [p \in Pubs |-> IF calls[p].at = "waiting" /\ Has(p) THEN [calls[p] EXCEPT !.at = "failed"] ELSE calls[p]]
        /\ orphans' = orphans \union {r.handle : r \in ToSet(signal.held)} \union {calls[p].handle : p \in {q \in Pubs : InSession(q) /\ unpublishing[q]}}
    BY DEF SfuWillRepublishTracks
  <1>1. /\ descriptorMap \in Seq(Descriptor) /\ Len(descriptorMap) \in Nat /\ DOMAIN descriptorMap = 1..Len(descriptorMap)
        /\ A \in SUBSET (1..Len(descriptorMap))
    BY LenProperties DEF ControlTypes
  <1>2. C \in Nat /\ (\A k \in 1..C : P[k] \in A) /\ (\A k, l \in 1..C : P[k] = P[l] => k = l)
    <2> DEFINE n == Len(descriptorMap)
    <2>1. n \in Nat /\ A \in SUBSET (1..n)
      BY <1>1
    <2> HIDE DEF n, A
    <2>2. C \in Nat
      BY <2>1, Places
    <2>3. \A k \in 1..C : P[k] \in A
      BY <2>1, Places
    <2>4. \A k, l \in 1..C : P[k] = P[l] => k = l
      BY <2>1, Places
    <2> QED
      BY <2>2, <2>3, <2>4
  <1>3. DOMAIN F = 1..C /\ \A k \in 1..C : F[k] = descriptorMap[P[k]]
    OBVIOUS
  <1> HIDE DEF F, C, P
  <1>4. /\ E = [k \in 1..C |-> E[k]] /\ \A k \in 1..C : E[k] = [descriptorMap[P[k]] EXCEPT !.state = "republishing"]
        /\ Q = [k \in 1..C |-> Q[k]] /\ \A k \in 1..C : Q[k] = [op |-> "publish", handle |-> descriptorMap[P[k]].handle]
    BY <1>3
  <1>5. \A k \in 1..C : P[k] \in DOMAIN descriptorMap /\ descriptorMap[P[k]].type = "active"
    BY <1>2
  <1> HIDE DEF A, E, Q
  <1>6. /\ E \in Seq(Descriptor) /\ Q \in Seq(Request) /\ DOMAIN E = 1..C /\ DOMAIN Q = 1..C
        /\ \A k \in 1..C : /\ E[k].handle = descriptorMap[P[k]].handle /\ E[k].pub = descriptorMap[P[k]].pub
                           /\ E[k].type = descriptorMap[P[k]].type /\ E[k].state = "republishing" /\ E[k] \in Descriptor
        /\ \A k, l \in 1..C : E[k].handle = E[l].handle => k = l
        /\ \A k \in 1..C : Q[k].op = "publish" /\ Q[k].handle = E[k].handle
    <2>1. Republishes(C, P, E, Q)
      BY <1>2, <1>4, <1>5 DEF Republishes
    <2>2. AreRepublished(C, P, E, Q)
      BY <2>1, Republished DEF Owned
    <2> QED
      BY <2>2 DEF AreRepublished
  <1>7. ASSUME NEW k \in 1..C
        PROVE  /\ E[k].type = "active" /\ E[k].pub \in Pubs /\ calls[E[k].pub].handle = E[k].handle
               /\ calls[E[k].pub].at = "published" /\ E[k].handle <= allocated
    <2>1. IsOwned(P[k]) /\ descriptorMap[P[k]].type = "active" /\ resetting = 0 /\ connection # "gone"
      BY <1>0, <1>5 DEF Owned, DescriptorsAreOwned, WireIsConnected
    <2> QED
      BY <1>6, <2>1 DEF IsOwned, Descriptor
  <1>8. /\ resetting = 0 /\ server = {} /\ signal.requests = <<>> /\ signal.answers = <<>> /\ signal.held \in Seq(Request)
        /\ signal' = [requests |-> signal.held \o Q, held |-> <<>>, answers |-> <<>>]
        /\ calls \in [Pubs -> Call]
    BY <1>0 DEF WireIsConnected, ControlTypes, Signal
  <1>9. /\ calls' \in [Pubs -> Call]
        /\ \A p \in Pubs : /\ calls[p].at = "waiting" /\ Has(p) => calls'[p].at = "failed"
                           /\ ~(calls[p].at = "waiting" /\ Has(p)) => calls'[p] = calls[p]
                           /\ calls'[p].handle = calls[p].handle /\ (calls'[p].listening => calls[p].listening)
    <2>1. ASSUME NEW p \in Pubs, NEW f \in Call PROVE [f EXCEPT !.at = "failed"] \in Call
      BY DEF Call
    <2>2. calls' \in [Pubs -> Call]
      BY <1>0, <1>8, <2>1
    <2>3. ASSUME NEW p \in Pubs
          PROVE  /\ calls[p].at = "waiting" /\ Has(p) => calls'[p].at = "failed"
                 /\ ~(calls[p].at = "waiting" /\ Has(p)) => calls'[p] = calls[p]
                 /\ calls'[p].handle = calls[p].handle /\ (calls'[p].listening => calls[p].listening)
      <3>1. calls[p] \in Call /\ calls'[p] = IF calls[p].at = "waiting" /\ Has(p) THEN [calls[p] EXCEPT !.at = "failed"] ELSE calls[p]
        BY <1>0, <1>8
      <3> QED
        BY <3>1 DEF Call
    <2> QED
      BY <2>2, <2>3
  <1>10. /\ orphans \subseteq orphans' /\ orphans' \subseteq AllHandles
         /\ \A i \in DOMAIN signal.held : signal.held[i] \in Request /\ signal.held[i].handle \in orphans'
         /\ \A p \in Pubs : unpublishing[p] /\ calls[p].at = "published" => calls[p].handle \in orphans'
    <2>1. \A i \in DOMAIN signal.held : signal.held[i] \in Request /\ signal.held[i].handle \in orphans'
      BY <1>0, <1>8, ElementOfSeq, LenProperties DEF ToSet
    <2>2. \A r \in ToSet(signal.held) : r.handle \in AllHandles
      <3>1. \A r \in ToSet(signal.held) : r \in Request
        BY <2>1 DEF ToSet
      <3> QED
        BY <3>1 DEF Request
    <2>3. ASSUME NEW p \in Pubs, unpublishing[p], calls[p].at = "published" PROVE calls[p].handle \in AllHandles
      <3>1. CASE calls[p].handle \in orphans
        BY <3>1 DEF ControlTypes
      <3>2. CASE calls[p].handle \notin orphans
        <4>1. PICK i \in DOMAIN descriptorMap : descriptorMap[i].pub = p
          BY <2>3, <3>2 DEF Owned, UnpublishingIsOwned
        <4>2. descriptorMap[i] \in Descriptor /\ IsOwned(i)
          BY <1>1, ElementOfSeq DEF Owned, DescriptorsAreOwned
        <4> QED
          BY <4>1, <4>2 DEF IsOwned, Descriptor
      <3> QED
        BY <3>1, <3>2
    <2>4. \A p \in Pubs : unpublishing[p] /\ calls[p].at = "published" => calls[p].handle \in orphans'
      BY <1>0 DEF InSession
    <2>5. orphans' \subseteq AllHandles
      BY <1>0, <2>2, <2>3 DEF ControlTypes, InSession
    <2> QED
      BY <1>0, <2>1, <2>4, <2>5
  <1>11. ControlTypes'
    <2>1. signal.held \o Q \in Seq(Request)
      BY <1>6, <1>8, ConcatProperties
    <2>2. signal' \in Signal
      BY <1>8, <2>1 DEF Signal
    <2> QED
      BY <1>0, <1>6, <1>8, <1>9, <1>10, <2>2 DEF ControlTypes
  <1>12. ResetIsWithin' /\ HandlesDiffer'
    BY <1>0, <1>6, <1>8, LenProperties DEF ResetIsWithin, HandlesDiffer
  <1>13. DescriptorsAreOwned'
    <2> SUFFICES ASSUME NEW k \in 1..C PROVE IsOwned(k)'
      BY <1>0, <1>6 DEF DescriptorsAreOwned
    <2>1. calls'[E[k].pub] = calls[E[k].pub]
      BY <1>7, <1>9
    <2> QED
      BY <1>0, <1>7, <1>8, <2>1 DEF IsOwned
  <1>14. WaitingHaveDescriptors'
    <2> SUFFICES ASSUME NEW p \in Pubs, calls'[p].at = "waiting", calls'[p].handle \notin orphans' PROVE FALSE
      BY DEF WaitingHaveDescriptors
    <2>1. calls[p].at = "waiting" /\ ~Has(p) /\ calls[p].handle \notin orphans
      BY <1>9, <1>10
    <2> QED
      BY <2>1 DEF Owned, WaitingHaveDescriptors, Has
  <1>15. PublishedAreDistinct'
    <2>1. \A p \in Pubs : calls'[p].at \in {"published", "over"} => calls'[p] = calls[p]
      BY <1>9
    <2>2. \A k \in DOMAIN descriptorMap' : descriptorMap'[k].type # "pending"
      BY <1>0, <1>6, <1>7
    <2> QED
      BY <1>0, <2>1, <2>2 DEF Owned, PublishedAreDistinct
  <1>16. UnpublishingIsOwned'
    <2> SUFFICES ASSUME NEW p \in Pubs, unpublishing[p]
                 PROVE  calls'[p].at \in {"published", "over", "stuck"} /\ (calls'[p].at = "stuck" \/ calls'[p].handle \in orphans')
      BY <1>0 DEF UnpublishingIsOwned
    <2>1. calls[p].at \in {"published", "over", "stuck"} /\ calls'[p] = calls[p]
      BY <1>9 DEF Owned, UnpublishingIsOwned
    <2>2. CASE calls[p].at = "published"
      BY <1>10, <2>1, <2>2
    <2>3. CASE calls[p].at = "over"
      <3>1. calls[p].handle \in orphans
        BY <1>0, <2>3 DEF Owned, UnpublishingIsOwned
      <3> QED
        BY <1>10, <2>1, <3>1
    <2> QED
      BY <2>1, <2>2, <2>3
  <1>17. WireIsConnected'
    BY <1>0, <1>8 DEF WireIsConnected
  <1>18. Fresh'
    <2> DEFINE M == signal.held \o Q
    <2>1. \A i \in DOMAIN M : M[i].handle <= allocated
      <3> DEFINE l == Len(signal.held)  n == Len(Q)
      <3>1. /\ l \in Nat /\ n \in Nat /\ DOMAIN signal.held = 1..l /\ DOMAIN Q = 1..n /\ DOMAIN M = 1..(l + n)
            /\ \A i \in 1..(l + n) : M[i] = IF i <= l THEN signal.held[i] ELSE Q[i - l]
        BY <1>6, <1>8, LenProperties, ConcatProperties
      <3> HIDE DEF M, l, n
      <3> SUFFICES ASSUME NEW i \in 1..(l + n) PROVE M[i].handle <= allocated
        BY <3>1
      <3>2. CASE i <= l
        <4>1. i \in DOMAIN signal.held
          BY <3>1, <3>2
        <4> QED
          BY <3>1, <3>2, <4>1 DEF Fresh
      <3>3. CASE ~(i <= l)
        <4>1. i - l \in DOMAIN Q
          BY <3>1, <3>3
        <4>2. i - l \in 1..C /\ M[i] = Q[i - l]
          BY <1>6, <3>1, <3>3, <4>1
        <4> QED
          BY <1>6, <1>7, <4>2
      <3> QED
        BY <3>2, <3>3
    <2> HIDE DEF M
    <2>2. signal'.requests = M /\ signal'.held = <<>> /\ signal'.answers = <<>> /\ server' = {}
      BY <1>0, <1>8 DEF M
    <2> QED
      BY <1>0, <2>1, <2>2 DEF Fresh
  <1>19. Meets'
    <2> SUFFICES ASSUME NEW x \in AllHandles \ orphans' PROVE MeetsAt(x)'
      BY DEF Meets
    <2> DEFINE M == signal.held \o Q
    <2>1. Ends(M, x) = {} /\ (\A i, j \in Asks(M, x) : i = j) /\ (Asks(M, x) = {} <=> \A i \in DOMAIN Q : Q[i].handle # x)
      <3>1. /\ \A i \in DOMAIN signal.held : signal.held[i].handle # x
            /\ \A i \in DOMAIN Q : Q[i].op = "publish"
            /\ \A i, j \in DOMAIN Q : Q[i].handle = x /\ Q[j].handle = x => i = j
        BY <1>6, <1>10
      <3>2. AskedAre(M, Q, x)
        BY <1>6, <1>8, <3>1, AskedAfter
      <3> HIDE DEF M
      <3> QED
        BY <3>2 DEF AskedAre
    <2> HIDE DEF M
    <2>2. Tells(<<>>, x) = {} /\ Closes(<<>>, x) = {}
      BY DEF Tells, Closes, Those
    <2>3. Line' = M /\ signal'.answers = <<>> /\ server' = {}
      BY <1>0, <1>8 DEF Line, M
    <2>4. InOrder(x, M, <<>>, {})
      BY <2>1, <2>2 DEF InOrder
    <2>5. Converges(x, M, <<>>, {}, E, unpublishing)
      <3>1. ~Holds(E, x) => Asks(M, x) = {}
        BY <1>6, <2>1 DEF Holds
      <3>2. ASSUME NEW k \in DOMAIN E, E[k].handle = x
            PROVE  /\ E[k].type = "active" /\ E[k].state = "republishing" /\ Asks(M, x) # {} /\ ~unpublishing[E[k].pub]
        BY <1>6, <1>7, <1>10, <2>1, <3>2
      <3> QED
        BY <2>1, <3>1, <3>2 DEF Converges
    <2> QED
      BY <1>0, <2>3, <2>4, <2>5 DEF MeetsAt
  <1> QED
    BY <1>11, <1>12, <1>13, <1>14, <1>15, <1>16, <1>17, <1>18, <1>19 DEF Owned

-----------------------------------------------------------------------------
(* The end of the session. *)

\* A set of numbers has a least one.
LEMMA LeastOf ==
  ASSUME NEW A \in SUBSET Nat, A # {}
  PROVE  \E i \in A : \A k \in A : i <= k
  <1>1. PICK i \in A : \A k \in A : ~(<<k, i>> \in OpToRel(<, Nat))
    BY NatLessThanWellFounded, WFMin
  <1>2. \A k \in A : ~(k < i)
    BY <1>1 DEF OpToRel
  <1> QED
    BY <1>2

\* A call has one descriptor.
LEMMA PubsDiffer ==
  ASSUME Owned, NEW i \in DOMAIN descriptorMap, NEW j \in DOMAIN descriptorMap, descriptorMap[i].pub = descriptorMap[j].pub
  PROVE  i = j
  BY DEF Owned, DescriptorsAreOwned, IsOwned, HandlesDiffer

\* The page has no track of the session then, and reset begins.
LEMMA DisconnectedAgreed ==
  ASSUME Agreed, Disconnected
  PROVE  Agreed'
  <1> USE DEF Agreed
  <1>1. /\ connection # "gone" /\ connection' = "gone" /\ server' = {} /\ orphans' = {}
        /\ signal' = [requests |-> <<>>, held |-> <<>>, answers |-> <<>>]
        /\ allocated' = 0 /\ resetting' = 1 /\ UNCHANGED <<descriptorMap, unpublishing>>
        /\ calls \in [Pubs -> Call] /\ resetting = 0
    BY DEF Disconnected, ControlTypes, WireIsConnected
  <1>2. /\ calls' \in [Pubs -> Call]
        /\ \A p \in Pubs :
             LET stuck == calls[p].handle \in orphans /\ ~Has(p) /\ (calls[p].at = "waiting" \/ unpublishing[p]) IN
             /\ calls'[p].at = (IF stuck THEN "stuck" ELSE IF calls[p].at = "published" THEN "over" ELSE calls[p].at)
             /\ calls'[p].handle = calls[p].handle /\ calls'[p].listening = calls[p].listening
    <2> DEFINE stuck(p) == calls[p].handle \in orphans /\ ~Has(p) /\ (calls[p].at = "waiting" \/ unpublishing[p])
    <2>1. calls' = [p \in Pubs |-> IF stuck(p) THEN [calls[p] EXCEPT !.at = "stuck"]
                                   ELSE IF calls[p].at = "published" THEN [calls[p] EXCEPT !.at = "over"] ELSE calls[p]]
      BY DEF Disconnected
    <2> HIDE DEF stuck
    <2>2. ASSUME NEW p \in Pubs
          PROVE  /\ calls'[p] \in Call
                 /\ calls'[p].at = (IF stuck(p) THEN "stuck" ELSE IF calls[p].at = "published" THEN "over" ELSE calls[p].at)
                 /\ calls'[p].handle = calls[p].handle /\ calls'[p].listening = calls[p].listening
      BY <1>1, <2>1 DEF Call
    <2> QED
      BY <2>2, <2>1 DEF stuck
  <1>3. /\ \A i \in DOMAIN descriptorMap : descriptorMap[i] \in Descriptor /\ IsOwned(i) /\ Has(descriptorMap[i].pub) /\ i >= 1 /\ ~(i < 1) /\ ~(i < 0)
        /\ Len(descriptorMap) \in Nat
    BY ElementOfSeq, LenProperties DEF ControlTypes, Owned, DescriptorsAreOwned, Has
  <1>4. ResetIsWithin' /\ HandlesDiffer'
    BY <1>1, <1>3 DEF Owned, ResetIsWithin, HandlesDiffer
  <1>5. DescriptorsAreOwned'
    BY <1>1, <1>3, <1>2 DEF DescriptorsAreOwned, Descriptor, IsOwned
  <1>6. WaitingHaveDescriptors'
    BY <1>1, <1>2, <1>3 DEF WaitingHaveDescriptors, Has, IsOwned, Descriptor, Owned
  <1>7. PublishedAreDistinct'
    BY <1>2 DEF Owned, PublishedAreDistinct
  <1>8. UnpublishingIsOwned'
    <2> SUFFICES ASSUME NEW p \in Pubs, unpublishing[p]
                 PROVE  /\ calls'[p].at \in {"over", "stuck"}
                        /\ calls'[p].at # "stuck" => \E i \in DOMAIN descriptorMap : descriptorMap[i].type = "active" /\ descriptorMap[i].pub = p /\ i >= 1
      BY <1>1 DEF UnpublishingIsOwned
    <2>1. calls[p].at \in {"published", "over", "stuck"}
      BY DEF Owned, UnpublishingIsOwned
    <2>2. ASSUME calls'[p].at # "stuck"
          PROVE  \E i \in DOMAIN descriptorMap : descriptorMap[i].type = "active" /\ descriptorMap[i].pub = p /\ i >= 1
      BY <1>2, <2>2, <1>1, <1>3, <2>1 DEF Has, IsOwned, Descriptor, Owned, UnpublishingIsOwned
    <2> QED
      BY <2>2, <1>2, <2>1
  <1>9. WireIsConnected' /\ Fresh' /\ Meets'
    BY <1>1 DEF WireIsConnected, Fresh, Meets
  <1> QED
    BY <1>4, <1>5, <1>6, <1>7, <1>8, <1>9, <1>1, <1>2 DEF Owned, Signal, ControlTypes

\* Reset fails the calls of the pending descriptors it comes to, and waits for no answer to an unpublish.
LEMMA ResetsAgreed ==
  ASSUME Agreed, Resets
  PROVE  Agreed'
  <1> DEFINE rest == {i \in DOMAIN descriptorMap : i >= resetting}
             actives == {i \in rest : descriptorMap[i].type = "active"}
             m == CHOOSE j \in actives : \A k \in actives : j <= k
             done == {j \in rest : actives # {} => j <= m}
             isDone(p) == \E j \in done : descriptorMap[j].pub = p /\ descriptorMap[j].type = "pending"
  <1> USE DEF Agreed
  <1>1. /\ resetting > 0 /\ UNCHANGED <<allocated, connection, signal, server, orphans>>
        /\ calls' = [p \in Pubs |-> IF isDone(p) THEN [calls[p] EXCEPT !.at = "failed"] ELSE calls[p]]
        /\ calls \in [Pubs -> Call] /\ resetting \in Nat
    BY DEF Resets, wire, ControlTypes
  <1>2. connection = "gone"
    BY <1>1 DEF WireIsConnected
  <1>3. /\ \A i \in DOMAIN descriptorMap : descriptorMap[i] \in Descriptor /\ descriptorMap[i].pub \in Pubs /\ IsOwned(i) /\ i \in Nat \ {0}
        /\ Len(descriptorMap) \in Nat /\ DOMAIN descriptorMap = 1..Len(descriptorMap)
    <2>1. /\ \A i \in DOMAIN descriptorMap : descriptorMap[i] \in Descriptor /\ IsOwned(i) /\ i \in Nat \ {0}
          /\ Len(descriptorMap) \in Nat /\ DOMAIN descriptorMap = 1..Len(descriptorMap)
      BY ElementOfSeq, LenProperties DEF ControlTypes, Owned, DescriptorsAreOwned
    <2> QED
      BY <2>1 DEF Descriptor
  <1>4. /\ calls' \in [Pubs -> Call]
        /\ \A p \in Pubs : /\ isDone(p) => calls'[p].at = "failed"
                           /\ ~isDone(p) => calls'[p] = calls[p]
                           /\ calls'[p].handle = calls[p].handle /\ calls'[p].listening = calls[p].listening
    <2> HIDE DEF isDone
    <2>1. ASSUME NEW p \in Pubs
          PROVE  /\ calls'[p] \in Call
                 /\ isDone(p) => calls'[p].at = "failed"
                 /\ ~isDone(p) => calls'[p] = calls[p]
                 /\ calls'[p].handle = calls[p].handle /\ calls'[p].listening = calls[p].listening
      BY <1>1 DEF Call
    <2> QED
      BY <2>1, <1>1
  <1>5. \A p \in Pubs : isDone(p) => calls[p].at = "waiting"
    BY <1>1, <1>3 DEF IsOwned
  <1> HIDE DEF isDone
  <1>6. PublishedAreDistinct'
    BY <1>4, <1>2 DEF Owned, PublishedAreDistinct
  <1>7. WireIsConnected' /\ Fresh' /\ Meets'
    BY <1>1, <1>2 DEF WireIsConnected, Fresh, Meets
  <1>8. CASE actives # {}
    <2>1. /\ resetting' = m + 1 /\ unpublishing' = [unpublishing EXCEPT ![descriptorMap[m].pub] = FALSE] /\ UNCHANGED descriptorMap
      BY <1>8 DEF Resets, Unpublished
    <2>2. m \in actives /\ \A k \in actives : m <= k
      <3>1. actives \in SUBSET Nat
        BY <1>3
      <3> HIDE DEF actives
      <3> QED
        BY <1>8, <3>1, LeastOf
    <2>3. /\ m \in DOMAIN descriptorMap /\ m >= resetting /\ descriptorMap[m].type = "active"
          /\ \A j \in DOMAIN descriptorMap : descriptorMap[j].type = "active" /\ j >= resetting => m <= j
      BY <2>2
    <2>4. \A p \in Pubs : isDone(p) <=> \E j \in DOMAIN descriptorMap : j >= resetting /\ j <= m /\ descriptorMap[j].pub = p /\ descriptorMap[j].type = "pending"
      BY <1>8 DEF isDone
    <2> HIDE DEF m, actives, rest, done
    <2>5. /\ unpublishing' \in [Pubs -> BOOLEAN] /\ ~unpublishing'[descriptorMap[m].pub]
          /\ \A q \in Pubs : unpublishing'[q] => unpublishing[q]
      BY <1>3, <2>1, <2>3 DEF ControlTypes
    <2>6. ControlTypes'
      BY <1>1, <1>3, <1>4, <2>1, <2>3, <2>5 DEF ControlTypes
    <2>7. DescriptorsAreOwned'
      <3> SUFFICES ASSUME NEW i \in DOMAIN descriptorMap PROVE IsOwned(i)'
        BY <2>1 DEF DescriptorsAreOwned
      <3>1. resetting' # 0 /\ resetting # 0
        BY <1>1, <1>3, <2>1, <2>3
      <3>2. isDone(descriptorMap[i].pub) <=> i >= resetting /\ i <= m /\ descriptorMap[i].type = "pending"
        BY PubsDiffer, <1>3, <2>4
      <3>3. calls'[descriptorMap[i].pub].handle = descriptorMap[i].handle
        BY <1>3, <1>4 DEF IsOwned
      <3>4. CASE descriptorMap[i].type = "pending"
        <4>1. i < resetting' <=> i <= m
          BY <1>3, <2>1, <2>3
        <4>2. CASE i >= resetting /\ i <= m
          BY <1>3, <1>4, <3>2, <3>4, <4>2, <2>1, <3>1, <3>3, <4>1 DEF IsOwned
        <4>3. CASE ~(i >= resetting)
          <5>1. i < resetting /\ i <= m
            BY <1>1, <1>3, <2>3, <4>3
          <5>2. calls'[descriptorMap[i].pub].at = "failed"
            BY <1>3, <1>4, <3>2, <3>4, <4>3, <5>1 DEF IsOwned
          <5> QED
            BY <2>1, <3>1, <3>3, <3>4, <4>1, <5>1, <5>2 DEF IsOwned
        <4>4. CASE ~(i <= m)
          <5>1. calls'[descriptorMap[i].pub].at = "waiting"
            BY <1>3, <1>4, <3>2, <3>4, <4>4, <1>1, <2>3 DEF IsOwned
          <5> QED
            BY <2>1, <3>1, <3>3, <3>4, <4>1, <4>4, <5>1 DEF IsOwned
        <4> QED
          BY <4>2, <4>3, <4>4
      <3> QED
        BY <1>3, <3>4, <1>4, <3>2, <1>1, <2>1, <3>1, <3>3 DEF Descriptor, IsOwned
    <2>8. WaitingHaveDescriptors'
      BY <1>1, <1>4, <2>1 DEF Owned, WaitingHaveDescriptors
    <2>9. UnpublishingIsOwned'
      BY <1>1, <1>2, <2>1, <2>5, <2>3, <1>3, <1>4, <1>5 DEF UnpublishingIsOwned, Owned
    <2> QED
      BY <1>6, <1>7, <2>6, <2>7, <2>8, <2>9, <1>3, <2>1, <2>3 DEF Owned, ResetIsWithin, HandlesDiffer
  <1>9. CASE actives = {}
    <2>1. resetting' = 0 /\ descriptorMap' = <<>> /\ UNCHANGED unpublishing
      BY <1>9 DEF Resets
    <2>2. \A p \in Pubs : isDone(p) <=> \E j \in DOMAIN descriptorMap : j >= resetting /\ descriptorMap[j].pub = p /\ descriptorMap[j].type = "pending"
      BY <1>9 DEF isDone
    <2>3. \A j \in DOMAIN descriptorMap : j >= resetting => descriptorMap[j].type # "active"
      BY <1>9
    <2> HIDE DEF m, actives, rest, done
    <2>4. WaitingHaveDescriptors'
      BY <1>1, <1>4, <1>3, <2>2 DEF WaitingHaveDescriptors, Owned, IsOwned
    <2>5. UnpublishingIsOwned'
      BY <1>1, <2>1, <1>4, <1>5, <2>3 DEF UnpublishingIsOwned, Owned
    <2> QED
      BY <1>6, <1>7, <2>4, <2>5, <1>1, <1>4, <2>1
        DEF Owned, ControlTypes, ResetIsWithin, HandlesDiffer, DescriptorsAreOwned
  <1> QED
    BY <1>8, <1>9

-----------------------------------------------------------------------------
(* The packets on their way. *)

\* At the start the server publishes what the page has descriptors of, and nothing is on the way.
LEMMA StartAgreed ==
  ASSUME OutInit
  PROVE  OutgoingInv
  <1>1. PICK w \in Workloads :
          /\ left = w.left
          /\ allocated = Len(w.published)
          /\ descriptorMap = [i \in DOMAIN w.published |-> [handle |-> i, pub |-> w.published[i], type |-> "active", state |-> "published"]]
          /\ calls = [p \in Pubs |-> IF p \in ToSet(w.published)
                                       THEN [at |-> "published", handle |-> CHOOSE i \in DOMAIN w.published : w.published[i] = p, listening |-> FALSE]
                                       ELSE NoCall]
          /\ unpublishing = [p \in Pubs |-> FALSE]
          /\ flush = [p \in Pubs |-> [NoFlush EXCEPT !.attached = p \in ToSet(w.published)]]
          /\ inFlight = [h \in 1..MaxHandle |-> 0] /\ resetting = 0
          /\ connection = "up" /\ signal = [requests |-> <<>>, held |-> <<>>, answers |-> <<>>]
          /\ server = DOMAIN w.published /\ orphans = {}
          /\ pushes = <<>> /\ \E n \in {0, Modulus - 1} : packetizer = [p \in Pubs |-> [sequence |-> n, frame |-> 0]]
          /\ channel = [buffered |-> 0, waiting |-> <<>>, first |-> "checks"]
          /\ net = <<>> /\ partials = [h \in 1..MaxHandle |-> <<>>]
          /\ frames = [made |-> 0, chunks |-> <<>>, delivered |-> <<>>, disturbed |-> {}]
    BY DEF OutInit
  <1> DEFINE s == w.published
  <1>2. s \in Seq(Pubs) /\ Len(s) \in Nat /\ Len(s) <= MaxHandle /\ DOMAIN s = 1..Len(s) /\ w.left \in [Kinds -> Nat]
        /\ \A i, j \in DOMAIN s : s[i] = s[j] => i = j
    BY WorkloadsAssumption
  <1>3. DOMAIN s \subseteq AllHandles /\ \A i \in DOMAIN s : s[i] \in Pubs
    BY <1>2, OutgoingAssumption DEF AllHandles
  <1>4. \A p \in Pubs : p \in ToSet(s) <=> \E i \in DOMAIN s : s[i] = p
    BY DEF ToSet
  <1>5. ASSUME NEW i \in DOMAIN s
        PROVE  calls[s[i]] \in Call /\ calls[s[i]].at = "published" /\ calls[s[i]].handle = i /\ calls[s[i]].listening = FALSE
    BY <1>1, <1>2, <1>3, <1>4, <1>5, OutgoingAssumption DEF AllHandles, Call
  <1>6. ASSUME NEW p \in Pubs, p \notin ToSet(s) PROVE calls[p] \in Call /\ calls[p].at = "none"
    BY <1>1, <1>6, OutgoingAssumption DEF NoCall, Call
  <1>7. /\ DOMAIN descriptorMap = DOMAIN s
        /\ \A i \in DOMAIN s : descriptorMap[i] = [handle |-> i, pub |-> s[i], type |-> "active", state |-> "published"]
    BY <1>1
  <1>8. /\ descriptorMap = [i \in DOMAIN s |-> descriptorMap[i]] /\ calls = [p \in Pubs |-> calls[p]]
        /\ server = DOMAIN s /\ allocated = Len(s)
        /\ flush = [p \in Pubs |-> [NoFlush EXCEPT !.attached = p \in ToSet(s)]]
    BY <1>1
  <1> HIDE DEF s
  <1>9. ASSUME NEW i \in DOMAIN s
        PROVE  /\ descriptorMap[i] \in Descriptor /\ descriptorMap[i].handle = i /\ descriptorMap[i].pub = s[i]
               /\ descriptorMap[i].type = "active" /\ descriptorMap[i].state = "published"
    BY <1>3, <1>7 DEF Descriptor
  <1>10. DataTypes
    <2>1. FlowTypes
      <3>1. flush \in [Pubs -> [flushed : BOOLEAN, waits : BOOLEAN, attached : BOOLEAN]]
        <4>1. \A p \in Pubs : (p \in ToSet(s)) \in BOOLEAN
          OBVIOUS
        <4> QED
          BY <1>8, <4>1 DEF NoFlush
      <3>2. partials \in [AllHandles -> Seq(Partial)] /\ \A h \in AllHandles : Len(partials[h]) <= MaxPartials
        BY OutgoingAssumption, <1>1 DEF AllHandles
      <3>3. channel \in [buffered : Nat, waiting : Seq(Packet), first : {"checks", "parked", "woken"}]
        BY <1>1
      <3>4. net \in Seq(Packet) /\ pushes \in Seq(Push) /\ inFlight \in [AllHandles -> Nat]
        BY <1>1 DEF AllHandles
      <3> QED
        BY <3>1, <3>2, <3>3, <3>4, OutgoingAssumption, <1>1 DEF FlowTypes, AllNumbers
    <2> QED
      BY <1>1, <1>2, <2>1 DEF DataTypes, FrameTypes
  <1>11. ControlTypes
    <2>1. calls \in [Pubs -> Call]
      <3>1. ASSUME NEW p \in Pubs PROVE calls[p] \in Call
        BY <1>4, <1>5, <1>6
      <3> QED
        BY <1>8, <3>1
    <2>2. signal \in Signal
      BY <1>1 DEF Signal
    <2> QED
      BY <1>1, <1>2, <1>3, <1>8, <2>1, <2>2, <1>9 DEF ControlTypes
  <1>12. Owned
    <2>1. \A i \in DOMAIN s : i \in Nat /\ i <= Len(s)
      BY <1>2
    <2>2. HandlesDiffer
      BY <1>7, <1>9 DEF HandlesDiffer
    <2>3. DescriptorsAreOwned
      <3>1. ASSUME NEW i \in DOMAIN s PROVE IsOwned(i)
        <4>1. calls[descriptorMap[i].pub].handle = i /\ calls[descriptorMap[i].pub].at = "published"
          <5>1. descriptorMap[i].pub = s[i]
            BY <1>9
          <5> QED
            BY <5>1, <1>5
        <4> QED
          BY <4>1, <1>1, <1>8, <1>9, <2>1 DEF IsOwned
      <3> QED
        BY <1>7, <3>1 DEF DescriptorsAreOwned
    <2>4. WaitingHaveDescriptors
      BY <1>4, <1>5, <1>6 DEF WaitingHaveDescriptors
    <2>5. PublishedAreDistinct
      <3>1. ASSUME NEW p \in Pubs, calls[p].at \in {"published", "over"}
            PROVE  \E i \in DOMAIN s : s[i] = p /\ calls[p].handle = i /\ ~calls[p].listening
        <4>1. PICK i \in DOMAIN s : s[i] = p
          BY <1>4, <1>6, <3>1
        <4> QED
          BY <1>5, <4>1
      <3> QED
        <4>1. \A p \in Pubs, i \in DOMAIN descriptorMap :
                calls[p].at = "published" /\ descriptorMap[i].type = "pending" => calls[p].handle # descriptorMap[i].handle
          BY <1>7, <1>9
        <4>2. \A p \in Pubs : calls[p].at = "published" => connection # "gone" /\ calls[p].handle <= allocated
          BY <1>1, <1>8, <2>1, <3>1
        <4>3. \A p \in Pubs : calls[p].at \in {"published", "over"} => ~calls[p].listening
          BY <3>1
        <4> QED
          BY <4>1, <4>2, <4>3, <3>1 DEF PublishedAreDistinct
    <2>6. UnpublishingIsOwned
      BY <1>1 DEF UnpublishingIsOwned
    <2> QED
      BY <2>2, <2>3, <2>4, <2>5, <2>6, <1>11, <1>1 DEF Owned, ControlTypes, ResetIsWithin
  <1>13. Meets
    <2>1. ASSUME NEW h \in AllHandles PROVE MeetsAt(h)
      <3>1. /\ Asks(Line, h) = {} /\ Ends(Line, h) = {}
            /\ Tells(signal.answers, h) = {} /\ Closes(signal.answers, h) = {}
        BY <1>1 DEF Asks, Ends, Tells, Closes, Those, Line
      <3>2. \A i \in DOMAIN descriptorMap : descriptorMap[i].type = "active" /\ descriptorMap[i].state = "published" /\ ~unpublishing[descriptorMap[i].pub]
        BY <1>1, <1>3, <1>7, <1>9
      <3>3. Converges(h, Line, signal.answers, server, descriptorMap, unpublishing)
        BY <3>1, <3>2, <1>7, <1>8, <1>9 DEF Converges, Holds
      <3> QED
        BY <3>3, <3>1 DEF MeetsAt, InOrder
    <2> QED
      BY <2>1 DEF Meets
  <1> QED
    BY <1>10, <1>11, <1>12, <1>13, <1>1, <1>2, <1>8 DEF OutgoingInv, Agreed, WireIsConnected, Fresh

\* What a LocalDataTrack knows of its packets.
Flags == [flushed : BOOLEAN, waits : BOOLEAN, attached : BOOLEAN]

\* What is spent of a kind that is left leaves the bounds what they are.
LEMMA Spent ==
  ASSUME left \in [Kinds -> Nat], NEW what \in Kinds, Spends(what)
  PROVE  left' \in [Kinds -> Nat]
  BY DEF Spends

\* Nothing that is pushed takes part in the step.
LEMMA DataKept ==
  ASSUME DataTypes, left' \in [Kinds -> Nat], UNCHANGED <<flow, sent, arrived, frames>>
  PROVE  DataTypes'
  BY DEF DataTypes, FlowTypes, flow, sent, arrived, FrameTypes

\* Only flush and inFlight do.
LEMMA CountsKept ==
  ASSUME DataTypes, left' \in [Kinds -> Nat], UNCHANGED <<sent, arrived, frames>>, flush' \in [Pubs -> Flags], inFlight' \in [AllHandles -> Nat]
  PROVE  DataTypes'
  BY DEF DataTypes, FlowTypes, sent, arrived, Flags, FrameTypes

\* The tracks that are attached hear that packets are on the way, or that none is any more.
LEMMA FlushedChanged ==
  ASSUME flush \in [Pubs -> Flags], NEW b \in BOOLEAN, FlushedChange(b)
  PROVE  flush' \in [Pubs -> Flags]
  <1>1. ASSUME NEW f \in Flags PROVE [f EXCEPT !.flushed = b, !.waits = @ /\ ~b] \in Flags
    <2> DEFINE w == f.waits /\ ~b
    <2> HIDE DEF w
    <2> QED
      BY DEF w, Flags
  <1> DEFINE new(f) == [f EXCEPT !.flushed = b, !.waits = @ /\ ~b]
  <1>2. flush' = [p \in Pubs |-> IF ~flush[p].attached THEN flush[p] ELSE new(flush[p])]
    BY DEF FlushedChange
  <1>3. \A f \in Flags : new(f) \in Flags
    BY <1>1
  <1> HIDE DEF new
  <1> QED
    BY <1>2, <1>3

\* A packet that is done is no longer counted.
LEMMA Completed ==
  ASSUME flush \in [Pubs -> Flags], NEW counts \in [AllHandles -> Nat], NEW h \in AllHandles, Completes(counts, h)
  PROVE  flush' \in [Pubs -> Flags] /\ inFlight' \in [AllHandles -> Nat]
  <1> DEFINE n == IF counts[h] > 0 THEN counts[h] - 1 ELSE 0
  <1>1. n \in Nat
    OBVIOUS
  <1>2. inFlight' = [counts EXCEPT ![h] = n] /\ (FlushedChange(TRUE) \/ flush' = flush)
    BY DEF Completes
  <1> HIDE DEF n
  <1> QED
    BY <1>1, <1>2, FlushedChanged

\* No frame is made or forgotten in the step.
FramesKept ==
  frames' = [made |-> frames.made, chunks |-> frames.chunks, delivered |-> frames'.delivered, disturbed |-> frames'.disturbed]

\* A packet that disturbs a frame forgets none.
LEMMA Disturbs ==
  ASSUME FrameTypes, NEW D, frames' = [frames EXCEPT !.disturbed = D] \/ frames' = frames
  PROVE  FramesKept
  BY DEF FrameTypes, FramesKept

\* Neither does the delivery of one.
LEMMA Delivered ==
  ASSUME FrameTypes, NEW payload, frames' = Delivers(payload) \/ frames' = frames
  PROVE  FramesKept
  <1> DEFINE D == Append(frames.delivered, payload)
  <1>1. CASE frames' = Delivers(payload)
    <2>1. frames' = [frames EXCEPT !.delivered = D]
      BY <1>1 DEF Delivers
    <2> HIDE DEF D
    <2> QED
      BY <2>1 DEF FramesKept, FrameTypes
  <1> QED
    BY <1>1 DEF FrameTypes, FramesKept

\* The packets on the way are of frames that were made.
Made(s) == \A i \in DOMAIN s : s[i].frame <= frames.made

\* As long as no frame is forgotten, what is on the way is of frames that were made.
LEMMA FrameTypesKept ==
  ASSUME FrameTypes, FramesKept, Made(net'), Made(channel'.waiting),
         \A i \in DOMAIN pushes' : pushes'[i].frame <= frames.made /\ pushes'[i].next <= frames.chunks[pushes'[i].frame]
  PROVE  FrameTypes'
  BY DEF FramesKept, FrameTypes, Made

\* One packet more is of such a frame.
LEMMA MadeAppended ==
  ASSUME NEW s \in Seq(Packet), NEW k \in Packet, Made(s), k.frame <= frames.made
  PROVE  Append(s, k) \in Seq(Packet) /\ Made(Append(s, k))
  BY Appended DEF Made

\* One packet less leaves the others.
LEMMA MadeShifted ==
  ASSUME NEW s \in Seq(Packet), s # <<>>, Made(s)
  PROVE  Tail(s) \in Seq(Packet) /\ Made(Tail(s)) /\ Head(s) \in Packet /\ Head(s).frame <= frames.made
  BY Shifted DEF Made

\* What is sent goes to the end of what is on the way, or nowhere.
LEMMA Transmitted ==
  ASSUME DataTypes, NEW packet \in Packet, packet.frame <= frames.made, Transmits(packet)
  PROVE  net' \in Seq(Packet) /\ Made(net') /\ FramesKept
  <1> DEFINE overtaken == {channel.waiting[j].frame : j \in {k \in DOMAIN channel.waiting : channel.waiting[k].frame # packet.frame \/ channel.waiting[k].chunk < packet.chunk}}
             D == frames.disturbed \union overtaken \union {packet.frame}
             E == frames.disturbed \union {packet.frame}
  <1> HIDE DEF D, E
  <1>1. FramesKept
    BY Disturbs DEF DataTypes, Transmits
  <1>2. net \in Seq(Packet) /\ Made(net)
    BY DEF DataTypes, FlowTypes, FrameTypes, Made
  <1>3. CASE net' = Append(net, packet)
    BY <1>1, <1>2, <1>3, MadeAppended
  <1> QED
    BY <1>3, <1>1, <1>2 DEF Transmits

\* The channel and what was on the way are gone.
LEMMA TornDownTypes ==
  ASSUME DataTypes, left' \in [Kinds -> Nat], TornDown
  PROVE  DataTypes'
  <1> DEFINE n(h) == Cardinality({j \in DOMAIN channel.waiting : channel.waiting[j].handle = h})
             counts == [h \in DOMAIN inFlight |-> IF n(h) > inFlight[h] THEN 0 ELSE inFlight[h] - n(h)]
             D == frames.disturbed \union {k.frame : k \in ToSet(net) \union ToSet(channel.waiting)}
                    \union {c.chunk.frame : c \in UNION {q.payloads : q \in UNION {ToSet(partials[h]) : h \in DOMAIN partials}}}
  <1>1. FlowTypes /\ FrameTypes /\ flush \in [Pubs -> Flags]
    BY DEF DataTypes, FlowTypes, Flags
  <1>2. ASSUME NEW h PROVE n(h) \in Nat
    <2>1. DOMAIN channel.waiting = 1..Len(channel.waiting) /\ Len(channel.waiting) \in Nat
      BY <1>1 DEF FlowTypes
    <2>2. IsFiniteSet(1..Len(channel.waiting))
      BY <2>1, FS_Interval
    <2>3. IsFiniteSet({j \in DOMAIN channel.waiting : channel.waiting[j].handle = h})
      BY <2>1, <2>2, FS_Subset
    <2> QED
      BY <2>3, FS_CardinalityType
  <1>3. inFlight' = counts /\ (FlushedChange(TRUE) \/ flush' = flush) /\ frames' = [frames EXCEPT !.disturbed = D]
    BY DEF TornDown
  <1>4. net' = <<>> /\ partials' = [h \in DOMAIN partials |-> <<>>] /\ UNCHANGED <<pushes, packetizer>>
    BY DEF TornDown
  <1> HIDE DEF n, D
  <1>5. inFlight' \in [AllHandles -> Nat]
    BY <1>1, <1>2, <1>3 DEF FlowTypes
  <1>6. partials' \in [AllHandles -> Seq(Partial)] /\ \A h \in AllHandles : Len(partials'[h]) <= MaxPartials
    BY OutgoingAssumption, <1>1, <1>4 DEF FlowTypes
  <1>7. channel' \in [buffered : Nat, waiting : Seq(Packet), first : {"checks", "parked", "woken"}] /\ channel'.waiting = <<>>
    BY DEF TornDown
  <1>8. FlowTypes'
    BY <1>1, <1>4, <1>5, <1>6, <1>7, <1>3, FlushedChanged DEF FlowTypes, Flags
  <1>9. FrameTypes'
    BY <1>1, <1>4, <1>7, FrameTypesKept, <1>3, Disturbs DEF FrameTypes, Made
  <1> QED
    BY <1>8, <1>9 DEF DataTypes

\* The steps of the page and of the connection, as far as what is pushed is concerned.
LEMMA ControlKeepsTypes ==
  ASSUME DataTypes,
         \/ \E p \in Pubs : PublishRequest(p) \/ UnpublishRequest(p) \/ Abort(p)
         \/ Connects \/ Lose \/ Resumed \/ SfuWillRepublishTracks \/ Served \/ \E h \in 1..MaxHandle : ServerUnpublishes(h)
  PROVE  DataTypes'
  <1>1. left \in [Kinds -> Nat]
    BY DEF DataTypes
  <1>2. ASSUME NEW p \in Pubs, PublishRequest(p) PROVE DataTypes'
    BY <1>1, <1>2, Spent, DataKept DEF PublishRequest, Kinds
  <1>3. ASSUME NEW p \in Pubs, UnpublishRequest(p) PROVE DataTypes'
    BY <1>1, <1>3, Spent, DataKept DEF UnpublishRequest, Kinds
  <1>4. ASSUME NEW p \in Pubs, Abort(p) PROVE DataTypes'
    BY <1>1, <1>4, DataKept DEF Abort
  <1>5. ASSUME Connects PROVE DataTypes'
    BY <1>1, <1>5, Spent, DataKept DEF Connects, Kinds
  <1>6. ASSUME Lose PROVE DataTypes'
    BY <1>1, <1>6, Spent, DataKept DEF Lose, Kinds
  <1>7. ASSUME Resumed PROVE DataTypes'
    BY <1>1, <1>7, DataKept DEF Resumed
  <1>8. ASSUME SfuWillRepublishTracks PROVE DataTypes'
    BY <1>1, <1>8, DataKept DEF SfuWillRepublishTracks
  <1>9. ASSUME Served PROVE DataTypes'
    BY <1>9, <1>1, Spent, DataKept DEF Served, Kinds
  <1>10. ASSUME NEW h \in 1..MaxHandle, ServerUnpublishes(h) PROVE DataTypes'
    BY <1>1, <1>10, Spent, DataKept DEF ServerUnpublishes, Kinds
  <1> QED
    BY <1>2, <1>3, <1>4, <1>5, <1>6, <1>7, <1>8, <1>9, <1>10

\* The answers that tell a track to listen, and that stop the count of what is on the way.
LEMMA AnswersKeepTypes ==
  ASSUME DataTypes, PublishAnswered \/ UnpublishAnswered
  PROVE  DataTypes'
  <1>1. left \in [Kinds -> Nat] /\ flush \in [Pubs -> Flags] /\ inFlight \in [AllHandles -> Nat]
    BY DEF DataTypes, FlowTypes, Flags
  <1>2. ASSUME PublishAnswered PROVE DataTypes'
    <2> DEFINE q == descriptorMap[At(Answered.handle)].pub
    <2>1. flush' = flush \/ flush' = [flush EXCEPT ![q].attached = TRUE]
      BY <1>2 DEF PublishAnswered
    <2> HIDE DEF q
    <2>2. \A f \in Flags : [f EXCEPT !.attached = TRUE] \in Flags
      BY DEF Flags
    <2>3. flush' \in [Pubs -> Flags]
      BY <1>1, <2>2, <2>1
    <2> QED
      BY <1>1, <2>3, CountsKept, <1>2 DEF PublishAnswered
  <1>3. ASSUME UnpublishAnswered PROVE DataTypes'
    <2> DEFINE h == Answered.handle
    <2> QED
      BY <1>1, CountsKept, <1>3 DEF UnpublishAnswered
  <1> QED
    BY <1>2, <1>3

\* A step of reset stops the count of a publication, or everything.
LEMMA ResetKeepsTypes ==
  ASSUME DataTypes, Resets
  PROVE  DataTypes'
  <1>1. left \in [Kinds -> Nat] /\ flush \in [Pubs -> Flags] /\ inFlight \in [AllHandles -> Nat]
    BY DEF DataTypes, FlowTypes, Flags
  <1> DEFINE rest == {i \in DOMAIN descriptorMap : i >= resetting}
             actives == {i \in rest : descriptorMap[i].type = "active"}
             i == CHOOSE j \in actives : \A k \in actives : j <= k
             h == descriptorMap[i].handle
  <1>2. \/ inFlight' = [inFlight EXCEPT ![h] = 0] /\ flush' = flush
        \/ inFlight' = [g \in DOMAIN inFlight |-> 0] /\ flush' = [p \in Pubs |-> [flush[p] EXCEPT !.waits = FALSE, !.attached = FALSE]]
    BY DEF Resets
  <1> HIDE DEF h
  <1>3. inFlight' \in [AllHandles -> Nat]
    <2>1. [inFlight EXCEPT ![h] = 0] \in [AllHandles -> Nat] /\ [g \in DOMAIN inFlight |-> 0] \in [AllHandles -> Nat]
      BY <1>1
    <2> QED
      BY <1>2, <2>1
  <1>4. flush' \in [Pubs -> Flags]
    BY <1>1, <1>2 DEF Flags
  <1>5. UNCHANGED <<left, sent, arrived, frames>>
    BY DEF Resets
  <1> QED
    BY <1>1, <1>3, <1>4, <1>5, CountsKept

\* The steps that tear the channel down, and a flush.
LEMMA TeardownKeepsTypes ==
  ASSUME DataTypes, InvalidateWaiters \/ Disconnected \/ \E p \in Pubs : Flush(p)
  PROVE  DataTypes'
  <1>1. left \in [Kinds -> Nat] /\ flush \in [Pubs -> Flags] /\ inFlight \in [AllHandles -> Nat]
    BY DEF DataTypes, FlowTypes, Flags
  <1>2. ASSUME Disconnected PROVE DataTypes'
    BY <1>1, <1>2, Spent, TornDownTypes DEF Disconnected, Kinds
  <1>3. ASSUME NEW p \in Pubs, Flush(p) PROVE DataTypes'
    BY <1>1, <1>3, Spent, CountsKept DEF Flush, Kinds, Flags
  <1> QED
    BY <1>2, <1>3, <1>1, TornDownTypes DEF InvalidateWaiters

\* A frame that is pushed is made, and the packets of it are to be made from the first on.
LEMMA PushKeepsTypes ==
  ASSUME DataTypes, ControlTypes, HandlesDiffer, NEW p \in Pubs, NEW n \in 1..3, TryPush(p, n)
  PROVE  DataTypes'
  <1> DEFINE h == calls[p].handle
             f == frames.made + 1
             push == [pub |-> p, handle |-> h, frame |-> f, number |-> packetizer[p].frame, next |-> 1]
             D == frames.disturbed \union (IF pushes = <<>> THEN {} ELSE {f} \union {pushes[i].frame : i \in DOMAIN pushes})
             C == Append(frames.chunks, n)
  <1>1. FlowTypes /\ FrameTypes /\ left \in [Kinds -> Nat]
    BY DEF DataTypes
  <1>2. Known(h) /\ pushes' = Append(pushes, push) /\ Spends("push") /\ UNCHANGED <<flow, channel, arrived>>
        /\ packetizer' = [packetizer EXCEPT ![p].frame = (@ + 1) % Modulus]
        /\ frames' = [frames EXCEPT !.made = f, !.chunks = C, !.disturbed = D]
    BY DEF TryPush
  <1>3. h \in AllHandles
    <2>1. \A i \in DOMAIN descriptorMap : descriptorMap[i] \in Descriptor
      BY DEF ControlTypes
    <2> QED
      BY <2>1, <1>2, AtFinds DEF Descriptor
  <1>4. packetizer[p].sequence \in AllNumbers /\ packetizer[p].frame \in AllNumbers /\ frames.made \in Nat
        /\ frames.chunks \in Seq(1..3) /\ Len(frames.chunks) = frames.made
    BY <1>1 DEF FlowTypes, FrameTypes
  <1>5. packetizer' \in [Pubs -> [sequence : AllNumbers, frame : AllNumbers]]
    <2>1. ((packetizer[p].frame + 1) % Modulus) \in AllNumbers
      BY <1>4, OutgoingAssumption DEF AllNumbers
    <2>2. packetizer \in [Pubs -> [sequence : AllNumbers, frame : AllNumbers]]
      BY <1>1 DEF FlowTypes
    <2> QED
      BY <1>2, <2>1, <2>2
  <1>6. push \in Push /\ pushes \in Seq(Push)
    BY <1>1, <1>3, <1>4 DEF Push, FlowTypes
  <1> HIDE DEF D, C
  <1>7. C \in Seq(1..3) /\ Len(C) = f /\ C[f] = n /\ \A g \in 1..frames.made : C[g] = frames.chunks[g]
    BY <1>4, Appended DEF C
  <1> DEFINE pp == push
  <1>8. pushes' = Append(pushes, pp) /\ pp \in Push
    BY <1>2, <1>6
  <1>9. pp.frame = f /\ pp.next = 1
    OBVIOUS
  <1> HIDE DEF pp
  <1>10. /\ pushes' \in Seq(Push) /\ DOMAIN pushes' = 1..(Len(pushes) + 1)
         /\ DOMAIN pushes = 1..Len(pushes) /\ Len(pushes) \in Nat /\ pushes'[Len(pushes) + 1] = pp
         /\ \A i \in 1..Len(pushes) : pushes'[i] = pushes[i]
    BY <1>6, <1>8, Appended
  <1>11. \A i \in DOMAIN pushes : pushes[i] \in Push /\ pushes[i].frame \in 1..frames.made /\ pushes[i].next <= frames.chunks[pushes[i].frame]
    <2>1. \A i \in DOMAIN pushes : pushes[i] \in Push
      BY <1>6
    <2> QED
      BY <1>1, <1>4, <2>1 DEF FrameTypes, Push
  <1>12. ASSUME NEW i \in DOMAIN pushes' PROVE pushes'[i].frame <= f /\ pushes'[i].next <= C[pushes'[i].frame]
    <2>1. CASE i # Len(pushes) + 1
      <3>1. i \in DOMAIN pushes /\ pushes'[i] = pushes[i]
        BY <1>10, <2>1
      <3>2. C[pushes[i].frame] = frames.chunks[pushes[i].frame] /\ pushes[i].frame <= f
        BY <1>4, <1>7, <1>11, <3>1
      <3> QED
        BY <1>11, <3>1, <3>2
    <2> QED
      BY <2>1, <1>4, <1>7, <1>9, <1>10
  <1>13. /\ \A i \in DOMAIN net : net[i].frame <= f
         /\ \A i \in DOMAIN channel.waiting : channel.waiting[i].frame <= f
    <2>1. ASSUME NEW s \in Seq(Packet), NEW i \in DOMAIN s PROVE s[i].frame \in Nat
      <3>1. s[i] \in Packet
        OBVIOUS
      <3> QED
        BY <3>1 DEF Packet
    <2> QED
      BY <1>1, <2>1, <1>4 DEF FrameTypes, FlowTypes
  <1>14. frames'.made = f /\ frames'.chunks = C /\ frames' = [made |-> frames'.made, chunks |-> frames'.chunks, delivered |-> frames'.delivered, disturbed |-> frames'.disturbed]
    BY <1>1, <1>2 DEF FrameTypes
  <1>15. FrameTypes'
    BY <1>4, <1>7, <1>12, <1>13, <1>14, <1>2 DEF FrameTypes, arrived
  <1> QED
    BY <1>15, <1>1, <1>2, Spent, <1>5, <1>10 DEF DataTypes, Kinds, FlowTypes, flow, arrived

\* Packets are made of the chunks in their order, up to the last.
LEMMA PacketKeepsTypes ==
  ASSUME DataTypes, NEW i \in DOMAIN pushes, MakesPacket(i)
  PROVE  DataTypes'
  <1> DEFINE push == pushes[i]
             p == push.pub
             h == push.handle
             n == frames.chunks[push.frame]
             m == Marker(push.next, n)
             q == packetizer[p].sequence
             packet == [handle |-> h, frame |-> push.frame, number |-> push.number, sequence |-> q, marker |-> m, chunk |-> push.next]
             counts == [inFlight EXCEPT ![h] = @ + 1]
             next == [push EXCEPT !.next = @ + 1]
  <1>1. /\ FlowTypes /\ FrameTypes /\ left \in [Kinds -> Nat] /\ flush \in [Pubs -> Flags] /\ inFlight \in [AllHandles -> Nat]
        /\ pushes \in Seq(Push) /\ DOMAIN pushes = 1..Len(pushes) /\ Len(pushes) \in Nat
    BY DEF DataTypes, FlowTypes, Flags
  <1>2. push \in Push /\ push.frame <= frames.made /\ push.next <= n
    BY <1>1 DEF FrameTypes
  <1>3. /\ p \in Pubs /\ h \in AllHandles /\ push.frame \in Nat \ {0} /\ push.number \in AllNumbers /\ push.next \in 1..3
        /\ frames.made \in Nat /\ frames.chunks \in Seq(1..3) /\ Len(frames.chunks) = frames.made
    BY <1>1, <1>2 DEF Push, FrameTypes
  <1>4. q \in AllNumbers
    BY <1>1, <1>3 DEF FlowTypes
  <1>5. packet \in Packet /\ packet.frame <= frames.made
    <2>1. m \in Markers
      BY DEF Marker, Markers
    <2> HIDE DEF m, q
    <2> QED
      BY <1>2, <1>3, <1>4, <2>1 DEF Packet
  <1>6. counts \in [AllHandles -> Nat]
    BY <1>1, <1>3
  <1>7. /\ packetizer' = [packetizer EXCEPT ![p].sequence = (@ + 1) % Modulus]
        /\ pushes' = IF push.next = n THEN RemoveAt(pushes, i) ELSE [pushes EXCEPT ![i].next = @ + 1]
        /\ UNCHANGED <<left, manager, wire, partials>>
    BY DEF MakesPacket
  <1>8. \/ /\ channel' = [channel EXCEPT !.waiting = Append(@, packet)]
           /\ inFlight' = counts /\ (FlushedChange(FALSE) \/ flush' = flush)
           /\ net' = net /\ frames' = frames
        \/ /\ Transmits(packet) /\ Completes(counts, h)
           /\ channel' = [channel EXCEPT !.buffered = @ + 1] \/ channel' = channel
    BY DEF MakesPacket
  <1> HIDE DEF packet, counts
  <1>9. packetizer' \in [Pubs -> [sequence : AllNumbers, frame : AllNumbers]]
    <2>1. ((q + 1) % Modulus) \in AllNumbers
      BY <1>4, OutgoingAssumption DEF AllNumbers
    <2>2. packetizer \in [Pubs -> [sequence : AllNumbers, frame : AllNumbers]]
      BY <1>1 DEF FlowTypes
    <2> QED
      BY <1>3, <1>7, <2>1, <2>2
  <1>10. /\ pushes' \in Seq(Push)
         /\ \A j \in DOMAIN pushes' : pushes'[j].frame <= frames.made /\ pushes'[j].next <= frames.chunks[pushes'[j].frame]
    <2>1. CASE push.next = n
      <3>1. /\ pushes' \in Seq(Push) /\ DOMAIN pushes' = 1..(Len(pushes) - 1)
            /\ \A j \in 1..(Len(pushes) - 1) : pushes'[j] = IF j < i THEN pushes[j] ELSE pushes[j + 1]
        BY <1>1, <1>7, <2>1, Removed
      <3>2. ASSUME NEW j \in DOMAIN pushes' PROVE \E k \in DOMAIN pushes : pushes'[j] = pushes[k]
        <4>1. j \in 1..(Len(pushes) - 1) /\ j \in DOMAIN pushes /\ j + 1 \in DOMAIN pushes
          BY <1>1, <3>1
        <4> QED
          BY <3>1, <4>1
      <3> QED
        BY <1>1, <3>1, <3>2 DEF FrameTypes
    <2>2. CASE push.next # n
      <3>1. push.next + 1 \in 1..3 /\ push.next + 1 <= n
        BY <1>2, <1>3, <2>2
      <3>2. next \in Push /\ next.frame = push.frame /\ next.next = push.next + 1
        BY <1>2, <3>1 DEF Push
      <3>3. pushes' = [pushes EXCEPT ![i] = next]
        BY <1>7, <2>2
      <3> HIDE DEF next
      <3>4. pushes' \in Seq(Push) /\ DOMAIN pushes' = DOMAIN pushes /\ \A j \in DOMAIN pushes : pushes'[j] = IF j = i THEN next ELSE pushes[j]
        BY <1>1, <3>2, <3>3
      <3> QED
        BY <3>4, <1>2, <3>1, <3>2, <1>1 DEF FrameTypes
    <2> QED
      BY <2>1, <2>2
  <1> HIDE DEF h
  <1>11. channel \in [buffered : Nat, waiting : Seq(Packet), first : {"checks", "parked", "woken"}] /\ Made(channel.waiting)
         /\ net \in Seq(Packet) /\ Made(net)
    BY <1>1 DEF FlowTypes, FrameTypes, Made
  <1>12. ASSUME channel' = [channel EXCEPT !.waiting = Append(@, packet)],
                inFlight' = counts, FlushedChange(FALSE) \/ flush' = flush, net' = net, frames' = frames
         PROVE  DataTypes'
    <2>1. Append(channel.waiting, packet) \in Seq(Packet) /\ Made(Append(channel.waiting, packet))
      BY <1>5, <1>11, MadeAppended
    <2>2. channel' \in [buffered : Nat, waiting : Seq(Packet), first : {"checks", "parked", "woken"}] /\ channel'.waiting = Append(channel.waiting, packet)
      BY <1>11, <1>12, <2>1
    <2>3. FrameTypes'
      BY <1>1, <1>10, <1>11, <1>12, <2>1, <2>2, FrameTypesKept, Disturbs
    <2> QED
      BY <1>1, <1>7, <2>3, <1>6, <1>9, <1>10, <1>12, <2>2, FlushedChanged DEF DataTypes, FlowTypes, Flags
  <1>13. ASSUME Transmits(packet), Completes(counts, h), channel' = [channel EXCEPT !.buffered = @ + 1] \/ channel' = channel
         PROVE  DataTypes'
    <2>1. channel' \in [buffered : Nat, waiting : Seq(Packet), first : {"checks", "parked", "woken"}] /\ channel'.waiting = channel.waiting
      BY <1>11, <1>13
    <2>2. flush' \in [Pubs -> Flags] /\ inFlight' \in [AllHandles -> Nat]
      BY <1>1, <1>3, <1>6, <1>13, Completed DEF h
    <2>3. net' \in Seq(Packet) /\ Made(net') /\ FramesKept
      BY <1>5, <1>13, Transmitted
    <2> QED
      BY <1>1, <1>7, <1>9, <1>10, <2>1, <2>2, <2>3, <1>11, FrameTypesKept DEF DataTypes, FlowTypes, Flags
  <1> QED
    BY <1>8, <1>12, <1>13

\* The packets that wait, and the browser's buffer.
LEMMA ChannelKeepsTypes ==
  ASSUME DataTypes, Drains \/ WaiterChecks
  PROVE  DataTypes'
  <1>1. /\ FlowTypes /\ FrameTypes /\ left \in [Kinds -> Nat] /\ flush \in [Pubs -> Flags] /\ inFlight \in [AllHandles -> Nat]
        /\ channel \in [buffered : Nat, waiting : Seq(Packet), first : {"checks", "parked", "woken"}] /\ Made(channel.waiting)
        /\ net \in Seq(Packet) /\ Made(net)
    BY DEF DataTypes, FlowTypes, FrameTypes, Made, Flags
  <1>2. \A i \in DOMAIN pushes : pushes[i].frame <= frames.made /\ pushes[i].next <= frames.chunks[pushes[i].frame]
    BY <1>1 DEF FrameTypes
  <1>3. ASSUME UNCHANGED <<left, flush, inFlight, pushes, packetizer, net, partials, frames>>, channel'.waiting = channel.waiting,
               channel' \in [buffered : Nat, waiting : Seq(Packet), first : {"checks", "parked", "woken"}]
        PROVE  DataTypes'
    BY <1>1, <1>3, Disturbs, <1>2, FrameTypesKept DEF FlowTypes, DataTypes
  <1>4. CASE Drains
    <2> DEFINE b == channel.buffered - 1
               f == IF channel.buffered = 1 /\ channel.first = "parked" THEN "woken" ELSE channel.first
    <2>1. b \in Nat /\ f \in {"checks", "parked", "woken"}
      BY <1>1, <1>4 DEF Drains
    <2>2. channel' = [channel EXCEPT !.buffered = b, !.first = f]
      BY <1>4 DEF Drains
    <2> HIDE DEF b, f
    <2>3. channel'.waiting = channel.waiting /\ channel' \in [buffered : Nat, waiting : Seq(Packet), first : {"checks", "parked", "woken"}]
      BY <1>1, <2>1, <2>2
    <2> QED
      BY <1>3, <2>3, <1>4 DEF Drains, flow, arrived
  <1>5. CASE WaiterChecks
    <2> DEFINE packet == Head(channel.waiting)
               b == channel.buffered + (IF connection = "up" THEN 1 ELSE 0)
    <2>1. packet \in Packet /\ packet.frame <= frames.made /\ Tail(channel.waiting) \in Seq(Packet) /\ Made(Tail(channel.waiting))
      BY <1>5, <1>1, MadeShifted DEF WaiterChecks
    <2>2. b \in Nat
      BY <1>1
    <2>3. UNCHANGED <<left, pushes, packetizer, partials>>
      BY <1>5 DEF WaiterChecks
    <2>4. \/ channel' = [channel EXCEPT !.first = "parked"] /\ UNCHANGED <<flow, net, frames>>
          \/ /\ Transmits(packet) /\ Completes(inFlight, packet.handle)
             /\ channel' = [buffered |-> b, waiting |-> Tail(channel.waiting), first |-> "checks"]
      BY <1>5 DEF WaiterChecks
    <2> HIDE DEF b, packet
    <2>5. ASSUME Transmits(packet), Completes(inFlight, packet.handle), channel' = [buffered |-> b, waiting |-> Tail(channel.waiting), first |-> "checks"]
          PROVE  DataTypes'
      BY <2>1, <2>5, Transmitted, <1>1, Completed, <2>2, <2>3, <1>2, FrameTypesKept
        DEF Packet, FlowTypes, Flags, DataTypes
    <2> QED
      BY <2>4, <2>5, <1>1, <2>3, <1>3 DEF flow
  <1> QED
    BY <1>4, <1>5

\* A step of the network or of the subscriber.
LEMMA ArrivalKeepsTypes ==
  ASSUME DataTypes, left' \in [Kinds -> Nat], UNCHANGED <<flow, sent>>, net' \in Seq(Packet), Made(net'), FramesKept,
         partials' \in [AllHandles -> Seq(Partial)], \A h \in AllHandles : Len(partials'[h]) <= MaxPartials
  PROVE  DataTypes'
  BY FrameTypesKept DEF DataTypes, flow, sent, FlowTypes, FrameTypes, Made

\* The network loses a packet, or lets it overtake the one before it.
LEMMA NetKeepsTypes ==
  ASSUME DataTypes, NEW i \in DOMAIN net, Lost(i) \/ Overtakes(i)
  PROVE  DataTypes'
  <1>1. /\ FlowTypes /\ FrameTypes /\ left \in [Kinds -> Nat] /\ net \in Seq(Packet) /\ Made(net)
        /\ DOMAIN net = 1..Len(net) /\ Len(net) \in Nat
        /\ partials \in [AllHandles -> Seq(Partial)] /\ \A h \in AllHandles : Len(partials[h]) <= MaxPartials
    BY DEF DataTypes, FlowTypes, FrameTypes, Made
  <1>2. CASE Lost(i)
    <2> DEFINE D == frames.disturbed \union {net[i].frame}
    <2>1. frames' = [frames EXCEPT !.disturbed = D] /\ net' = RemoveAt(net, i) /\ Spends("loss") /\ UNCHANGED <<flow, sent, partials>>
      BY <1>2 DEF Lost
    <2> HIDE DEF D
    <2>2. /\ net' \in Seq(Packet) /\ DOMAIN net' = 1..(Len(net) - 1)
          /\ \A j \in 1..(Len(net) - 1) : net'[j] = IF j < i THEN net[j] ELSE net[j + 1]
      BY <1>1, <2>1, Removed
    <2>3. ASSUME NEW j \in DOMAIN net' PROVE net'[j].frame <= frames.made
      BY <1>1, <2>2 DEF Made
    <2>4. Made(net') /\ left' \in [Kinds -> Nat]
      BY <1>1, <2>1, <2>3, Spent DEF Made, Kinds
    <2> QED
      BY <1>1, <2>1, <2>2, <2>4, ArrivalKeepsTypes, Disturbs
  <1>3. CASE Overtakes(i)
    <2> DEFINE D == frames.disturbed \union {net[i].frame, net[i - 1].frame}
    <2>1. /\ frames' = [frames EXCEPT !.disturbed = D] /\ net' = [net EXCEPT ![i - 1] = net[i], ![i] = net[i - 1]]
          /\ Spends("reorder") /\ i > 1 /\ UNCHANGED <<flow, sent, partials>>
      BY <1>3 DEF Overtakes
    <2> HIDE DEF D
    <2>2. i - 1 \in DOMAIN net
      BY <1>1, <2>1
    <2>3. net' \in Seq(Packet) /\ DOMAIN net' = DOMAIN net /\ \A j \in DOMAIN net : \E k \in DOMAIN net : net'[j] = net[k]
      BY <1>1, <2>2, <2>1
    <2> QED
      BY <1>1, <2>1, <2>3, ArrivalKeepsTypes, Disturbs, Spent DEF Made, Kinds
  <1> QED
    BY <1>2, <1>3

\* The oldest of the partial frames give way.
LEMMA NewestAre ==
  ASSUME NEW ps \in Seq(Partial), NEW n \in Nat
  PROVE  Newest(ps, n) \in Seq(Partial) /\ Len(Newest(ps, n)) <= n
  <1>1. Len(ps) \in Nat
    OBVIOUS
  <1>2. CASE ~(Len(ps) <= n)
    <2> DEFINE a == Len(ps) - n + 1
    <2>1. SubSeq(ps, a, Len(ps)) \in Seq(Partial) /\ Len(SubSeq(ps, a, Len(ps))) = (IF a <= Len(ps) THEN Len(ps) - a + 1 ELSE 0)
      BY SubSeqProperties, ElementOfSeq, <1>1, <1>2
    <2> QED
      BY <2>1, <1>2, <1>1 DEF Newest
  <1> QED
    BY <1>2 DEF Newest

\* A partial frame is forgotten.
LEMMA WithoutPartialIs ==
  ASSUME NEW ps \in Seq(Partial), NEW n
  PROVE  WithoutPartial(ps, n) \in Seq(Partial) /\ Len(WithoutPartial(ps, n)) <= Len(ps)
  <1>1. Len(ps) \in Nat /\ DOMAIN ps = 1..Len(ps)
    OBVIOUS
  <1>2. CASE PartialOf(ps, n) # {}
    <2> DEFINE j == CHOOSE i \in PartialOf(ps, n) : TRUE
    <2>1. WithoutPartial(ps, n) = RemoveAt(ps, j)
      BY <1>2 DEF WithoutPartial
    <2>2. j \in 1..Len(ps)
      BY <1>1, <1>2 DEF PartialOf
    <2> HIDE DEF j
    <2> QED
      BY <1>1, <2>1, <2>2, Removed
  <1> QED
    BY <1>2, <1>1 DEF WithoutPartial

\* Of a list of partial frames, those with a number are replaced.
LEMMA PartialReplaced ==
  ASSUME NEW ps \in Seq(Partial), NEW n, NEW new \in Partial
  PROVE  /\ [j \in DOMAIN ps |-> IF ps[j].number = n THEN new ELSE ps[j]] \in Seq(Partial)
         /\ Len([j \in DOMAIN ps |-> IF ps[j].number = n THEN new ELSE ps[j]]) = Len(ps)
  <1> DEFINE s == [j \in DOMAIN ps |-> IF ps[j].number = n THEN new ELSE ps[j]]
  <1>1. DOMAIN ps = 1..Len(ps) /\ Len(ps) \in Nat /\ \A j \in DOMAIN ps : ps[j] \in Partial
    OBVIOUS
  <1>2. s \in Seq(Partial)
    BY <1>1
  <1>3. DOMAIN s = 1..Len(ps)
    BY <1>1
  <1> HIDE DEF s
  <1>4. Len(s) = Len(ps)
    BY <1>2, LenProperties, <1>1, <1>3
  <1> QED
    BY <1>2, <1>4 DEF s

\* The list of partial frames of the packet's track is what changes.
LEMMA ArrivalOf ==
  ASSUME DataTypes, net # <<>>, net' = Tail(net), UNCHANGED <<left, flow, sent>>, FramesKept,
         NEW ps \in Seq(Partial), Len(ps) <= MaxPartials, partials' = [partials EXCEPT ![Head(net).handle] = ps]
  PROVE  DataTypes'
  BY MadeShifted, ArrivalKeepsTypes DEF DataTypes, FlowTypes, FrameTypes, Made

\* A packet arrives at the subscriber: as a frame of its own, as the first of a frame, or as another.
LEMMA ArrivesKeepsTypes ==
  ASSUME DataTypes, Arrives
  PROVE  DataTypes'
  <1> DEFINE k == Head(net)  ps == partials[k.handle]  c == Chunk(k)
  <1>1. net # <<>> /\ net' = Tail(net) /\ UNCHANGED <<left, flow, sent>> /\ (FrameFromSingle(k, ps) \/ BeginPartial(k, ps) \/ PushToPartial(k, ps))
    BY DEF Arrives, manager, wire
  <1>2. k \in Packet /\ FrameTypes
    BY <1>1 DEF DataTypes, FlowTypes
  <1>3. ps \in Seq(Partial) /\ Len(ps) <= MaxPartials /\ Len(ps) \in Nat /\ MaxPartials \in Nat \ {0} /\ DOMAIN ps = 1..Len(ps)
    <2>1. partials \in [AllHandles -> Seq(Partial)] /\ \A h \in AllHandles : Len(partials[h]) <= MaxPartials
      BY DEF DataTypes, FlowTypes
    <2> QED
      BY <2>1, OutgoingAssumption, <1>2 DEF Packet
  <1>4. c \in [at : AllNumbers, chunk : [frame : Nat \ {0}, chunk : Nat]] /\ k.number \in AllNumbers /\ k.sequence \in AllNumbers
    BY <1>2 DEF Chunk, Packet
  <1> HIDE DEF k, ps, c
  <1>5. Newest(ps, MaxPartials - 1) \in Seq(Partial) /\ Len(Newest(ps, MaxPartials - 1)) <= MaxPartials - 1 /\ Len(Newest(ps, MaxPartials - 1)) \in Nat
    BY <1>3, NewestAre
  <1>6. ASSUME FrameFromSingle(k, ps) PROVE DataTypes'
    <2>1. partials' = [partials EXCEPT ![k.handle] = Newest(ps, MaxPartials - 1)] /\ frames' = Delivers(<<Chunk(k).chunk>>)
      BY <1>6 DEF FrameFromSingle
    <2>2. Len(Newest(ps, MaxPartials - 1)) <= MaxPartials
      BY <1>3, <1>5
    <2> QED
      BY <1>1, <1>5, <2>1, <2>2, ArrivalOf, <1>2, Delivered DEF k
  <1>7. ASSUME BeginPartial(k, ps) PROVE DataTypes'
    <2> DEFINE new == [number |-> k.number, start |-> k.sequence, payloads |-> {c}]
               kept == Newest(ps, MaxPartials - 1)
               replaced == [j \in DOMAIN kept |-> IF kept[j].number = k.number THEN new ELSE kept[j]]
               qs == IF PartialOf(kept, k.number) = {} THEN Append(kept, new) ELSE replaced
    <2>1. partials' = [partials EXCEPT ![k.handle] = qs] /\ frames' = frames
      BY <1>7 DEF BeginPartial, c
    <2>2. new \in Partial
      BY <1>4 DEF Partial
    <2> HIDE DEF new
    <2>3. replaced \in Seq(Partial) /\ Len(replaced) = Len(kept)
      BY <1>5, <2>2, PartialReplaced
    <2> HIDE DEF replaced
    <2>4. Append(kept, new) \in Seq(Partial) /\ Len(Append(kept, new)) = Len(kept) + 1
      BY <1>5, <2>2
    <2> HIDE DEF kept
    <2>5. qs \in Seq(Partial) /\ Len(qs) <= MaxPartials
      BY <1>5, <1>3, <2>4, <2>3 DEF kept
    <2> HIDE DEF qs
    <2> QED
      BY <1>1, <2>1, <2>5, ArrivalOf, <1>2, Disturbs DEF k
  <1>8. ASSUME PushToPartial(k, ps) PROVE DataTypes'
    <2> DEFINE mine == PartialOf(ps, k.number)
               q == ps[CHOOSE j \in mine : TRUE]
               full == [q EXCEPT !.payloads = {x \in @ : x.at # k.sequence} \union {Chunk(k)}]
               drops == mine = {} \/ Cardinality(q.payloads) >= MaxBuffered
               replaced == [j \in DOMAIN ps |-> IF ps[j].number = k.number THEN full ELSE ps[j]]
               qs == IF drops \/ k.marker = "final" THEN WithoutPartial(ps, k.number) ELSE replaced
               n == (k.sequence - full.start) % Modulus
               payload == [i \in 1..(n + 1) |-> (CHOOSE x \in full.payloads : x.at = (full.start + i - 1) % Modulus).chunk]
    <2>1. partials' = [partials EXCEPT ![k.handle] = qs] /\ frames' = IF ~drops /\ k.marker = "final" THEN Finalize(full, k.sequence) ELSE frames
      BY <1>8 DEF PushToPartial
    <2> HIDE DEF payload
    <2>2. ASSUME mine # {} PROVE replaced \in Seq(Partial) /\ Len(replaced) <= MaxPartials
      <3>1. q \in Partial
        BY <1>3, <2>2 DEF PartialOf
      <3> HIDE DEF q
      <3> DEFINE load == {x \in q.payloads : x.at # k.sequence} \union {c}
      <3>2. load \in SUBSET [at : AllNumbers, chunk : [frame : Nat \ {0}, chunk : Nat]]
        BY <1>4, <3>1 DEF Partial
      <3>3. full = [q EXCEPT !.payloads = load]
        BY DEF c
      <3> HIDE DEF load, full
      <3>4. full \in Partial
        BY <3>1, <3>2, <3>3 DEF Partial
      <3> QED
        BY <1>3, <3>4, PartialReplaced
    <2>3. qs \in Seq(Partial) /\ Len(qs) <= MaxPartials
      BY <2>2, <1>3, WithoutPartialIs
    <2> HIDE DEF qs
    <2> QED
      BY <1>1, <2>1, <2>3, ArrivalOf, <1>2, Delivered DEF k, Finalize
  <1> QED
    BY <1>1, <1>6, <1>7, <1>8

-----------------------------------------------------------------------------
(* The theorem. *)

\* The steps of a packet and of the subscriber change nothing the agreement is about.
LEMMA DataAgreed ==
  ASSUME OutgoingInv,
         \/ \E p \in Pubs : Flush(p) \/ \E n \in 1..3 : TryPush(p, n)
         \/ \E i \in DOMAIN net : Lost(i) \/ Overtakes(i)
         \/ (\E i \in DOMAIN pushes : MakesPacket(i)) \/ Drains \/ WaiterChecks \/ Arrives
  PROVE  OutgoingInv'
  <1>1. UNCHANGED <<manager, wire>>
    BY DEF Flush, TryPush, Lost, Overtakes, MakesPacket, Drains, WaiterChecks, Arrives
  <1>2. DataTypes'
    BY TeardownKeepsTypes, PushKeepsTypes, NetKeepsTypes, PacketKeepsTypes, ChannelKeepsTypes,
       ArrivesKeepsTypes DEF OutgoingInv, Agreed, Owned
  <1> QED
    BY <1>2, <1>1, AgreedKept DEF OutgoingInv, manager, wire

\* The inductive invariant is kept by every step.
LEMMA StepAgreed ==
  ASSUME OutgoingInv, [OutNext]_outVars
  PROVE  OutgoingInv'
  <1>1. DataTypes /\ Agreed
    BY DEF OutgoingInv
  <1>2. ASSUME NEW p \in Pubs, UnpublishRequest(p) PROVE OutgoingInv'
    BY <1>1, <1>2, UnpublishAgreed, ControlKeepsTypes DEF OutgoingInv
  <1>3. ASSUME NEW p \in Pubs, Abort(p) PROVE OutgoingInv'
    BY <1>1, <1>3, AbortAgreed, ControlKeepsTypes DEF OutgoingInv
  <1>4. ASSUME Disconnected PROVE OutgoingInv'
    BY <1>1, <1>4, DisconnectedAgreed, TeardownKeepsTypes DEF OutgoingInv
  <1>5. ASSUME Connects PROVE OutgoingInv'
    BY <1>1, <1>5, ConnectsAgreed, ControlKeepsTypes DEF OutgoingInv
  <1>6. ASSUME InvalidateWaiters PROVE OutgoingInv'
    BY <1>1, <1>6, RestartingAgreed, TeardownKeepsTypes DEF OutgoingInv
  <1>7. ASSUME NEW h \in 1..MaxHandle, ServerUnpublishes(h) PROVE OutgoingInv'
    BY <1>1, <1>7, ServerUnpublishesAgreed, ControlKeepsTypes DEF AllHandles, OutgoingInv
  <1>8. ASSUME PublishAnswered PROVE OutgoingInv'
    BY <1>1, <1>8, PublishAnsweredAgreed, AnswersKeepTypes DEF OutgoingInv
  <1>9. ASSUME UnpublishAnswered PROVE OutgoingInv'
    BY <1>1, <1>9, UnpublishAnsweredAgreed, AnswersKeepTypes DEF OutgoingInv
  <1>10. ASSUME Resumed PROVE OutgoingInv'
    BY <1>1, <1>10, ResumedAgreed, ControlKeepsTypes DEF OutgoingInv
  <1>11. ASSUME SfuWillRepublishTracks PROVE OutgoingInv'
    BY <1>1, <1>11, RestartedAgreed, ControlKeepsTypes DEF OutgoingInv
  <1>12. ASSUME Resets PROVE OutgoingInv'
    BY <1>1, <1>12, ResetsAgreed, ResetKeepsTypes DEF OutgoingInv
  <1>13. ASSUME Served PROVE OutgoingInv'
    BY <1>1, <1>13, ServedAgreed, ControlKeepsTypes DEF OutgoingInv
  <1>14. ASSUME Page PROVE OutgoingInv'
    BY DataAgreed, <1>2, <1>4, <1>5, <1>14, <1>1, PublishRequestAgreed, ControlKeepsTypes DEF Page, OutgoingInv
  <1>15. ASSUME World PROVE OutgoingInv'
    BY DataAgreed, <1>6, <1>7, <1>15, <1>1, LoseAgreed, ControlKeepsTypes DEF World, OutgoingInv
  <1>16. ASSUME OutProgress PROVE OutgoingInv'
    BY DataAgreed, <1>3, <1>8, <1>9, <1>10, <1>11, <1>12, <1>13, <1>16 DEF OutProgress
  <1> QED
    BY <1>14, <1>15, <1>16, <1>1, AgreedKept, DataKept
      DEF OutNext, outVars, manager, wire, DataTypes, OutgoingInv

\* What two sequences hold is what they hold one after the other.
LEMMA ConcatHas ==
  ASSUME NEW S, NEW s \in Seq(S), NEW t \in Seq(S), NEW x \in ToSet(s \o t)
  PROVE  x \in ToSet(s) \/ x \in ToSet(t)
  BY ConcatProperties, LenProperties DEF ToSet

\* The types the runs check follow from those of the proof.
LEMMA TypesImply ==
  ASSUME OutgoingInv
  PROVE  OutgoingTypeOK
  <1>1. ControlTypes /\ FlowTypes /\ FrameTypes
    BY DEF OutgoingInv, Agreed, DataTypes
  <1>2. \A i \in DOMAIN descriptorMap : descriptorMap[i] \in [handle : 1..MaxHandle, pub : Pubs, type : {"pending", "active"}, state : {"published", "republishing"}]
    <2>1. \A i \in DOMAIN descriptorMap : descriptorMap[i] \in Descriptor
      BY <1>1 DEF ControlTypes
    <2> QED
      BY <2>1 DEF Descriptor, AllHandles
  <1>3. ASSUME NEW r \in ToSet(signal.requests \o signal.held \o signal.answers)
        PROVE  r \in [op : {"publish", "unpublish", "published", "refused", "unpublished"}, handle : 1..MaxHandle]
    <2> DEFINE M == [op : {"publish", "unpublish", "published", "refused", "unpublished"}, handle : 1..MaxHandle]
    <2>1. Request \subseteq M /\ Answer \subseteq M
      BY DEF Request, Answer, AllHandles
    <2> HIDE DEF M
    <2>2. signal.requests \in Seq(M) /\ signal.held \in Seq(M) /\ signal.answers \in Seq(M)
      BY <2>1, <1>1 DEF ControlTypes, Signal
    <2> DEFINE s == signal.requests \o signal.held \o signal.answers
    <2>3. PICK i \in DOMAIN s : r = s[i]
      BY DEF ToSet
    <2>4. s \in Seq(M)
      BY <2>2
    <2> HIDE DEF s
    <2>5. r \in M
      BY <2>3, <2>4
    <2> QED
      BY <2>5 DEF M
  <1>4. ASSUME NEW k \in ToSet(net \o channel.waiting)
        PROVE  k \in [handle : 1..MaxHandle, frame : 1..frames.made, number : 0..(Modulus - 1), sequence : 0..(Modulus - 1),
                       marker : {"single", "start", "inter", "final"}, chunk : Nat]
    <2>1. net \in Seq(Packet) /\ channel.waiting \in Seq(Packet) /\ frames.made \in Nat /\ Made(net) /\ Made(channel.waiting)
      BY <1>1 DEF FlowTypes, FrameTypes, Made
    <2>2. ASSUME NEW s \in Seq(Packet), Made(s), k \in ToSet(s) PROVE k \in Packet /\ k.frame <= frames.made
      BY <2>2 DEF ToSet, Made
    <2>3. k \in Packet /\ k.frame <= frames.made
      BY <2>1, <2>2, ConcatHas
    <2> QED
      BY <2>3, <2>1 DEF Packet, AllHandles, AllNumbers, Markers
  <1>5. channel.buffered \in Nat /\ channel.first \in {"checks", "parked", "woken"}
    BY <1>1 DEF FlowTypes
  <1>6. packetizer \in [Pubs -> [sequence : 0..(Modulus - 1), frame : 0..(Modulus - 1)]]
    BY <1>1 DEF FlowTypes, AllNumbers
  <1>7. \A h \in 1..MaxHandle : Len(partials[h]) <= MaxPartials
    BY <1>1 DEF FlowTypes, AllHandles
  <1>8. flush \in [Pubs -> [flushed : BOOLEAN, waits : BOOLEAN, attached : BOOLEAN]] /\ inFlight \in [1..MaxHandle -> Nat]
    BY <1>1 DEF FlowTypes, AllHandles
  <1>9. /\ allocated \in Nat /\ resetting \in Nat /\ server \subseteq 1..MaxHandle /\ orphans \subseteq 1..MaxHandle
        /\ calls \in [Pubs -> [at : {"none", "waiting", "published", "failed", "over", "stuck"}, handle : 0..MaxHandle, listening : BOOLEAN]]
        /\ unpublishing \in [Pubs -> BOOLEAN] /\ connection \in {"up", "resuming", "restarting", "gone"}
    BY <1>1 DEF ControlTypes, Call, AllHandles
  <1> QED
    BY <1>2, <1>3, <1>4, <1>5, <1>6, <1>7, <1>8, <1>9 DEF OutgoingTypeOK

\* With nothing on the way nothing is left to make up for.
LEMMA QuietAgrees ==
  ASSUME Agreed, connection = "up", signal.requests = <<>>, signal.answers = <<>>, NEW h \in AllHandles \ orphans
  PROVE  /\ Known(h) /\ descriptorMap[At(h)].type = "active" <=> h \in server
         /\ \A i \in DOMAIN descriptorMap : descriptorMap[i].handle = h /\ descriptorMap[i].type = "active" => ~unpublishing[descriptorMap[i].pub]
  <1>1. Asks(Line, h) = {} /\ Ends(Line, h) = {} /\ Tells(signal.answers, h) = {} /\ Closes(signal.answers, h) = {}
    BY DEF Line, Asks, Ends, Tells, Closes, Those
  <1>2. Converges(h, Line, signal.answers, server, descriptorMap, unpublishing)
    BY DEF Agreed, Meets, MeetsAt
  <1>3. ASSUME NEW i \in DOMAIN descriptorMap, descriptorMap[i].handle = h
        PROVE  /\ descriptorMap[i].type = "pending" => h \notin server
               /\ descriptorMap[i].type = "active" => h \in server /\ ~unpublishing[descriptorMap[i].pub]
               /\ descriptorMap[i].type \in {"pending", "active"}
    <2>1. descriptorMap[i] \in Descriptor
      BY DEF Agreed, ControlTypes
    <2> QED
      BY <1>1, <1>2, <1>3, <2>1 DEF Converges, Descriptor
  <1>4. ASSUME Known(h) PROVE descriptorMap[At(h)].type = "active" <=> h \in server
    BY <1>3, <1>4, AtFinds DEF Agreed, Owned
  <1> QED
    BY <1>3, <1>4, <1>1, <1>2 DEF Converges, Known, Of, Holds

\* The inductive invariant contains what the runs check.
LEMMA AgreedSuffices ==
  ASSUME OutgoingInv
  PROVE  PublicationsAgree
  <1>1. Agreed /\ ControlTypes /\ DescriptorsAreOwned /\ WaitingHaveDescriptors /\ UnpublishingIsOwned /\ HandlesDiffer
    BY DEF OutgoingInv, Agreed, Owned
  <1>2. ASSUME connection = "up", signal.requests = <<>>, signal.answers = <<>>
        PROVE  /\ \A h \in (1..MaxHandle) \ orphans : Known(h) /\ descriptorMap[At(h)].type = "active" <=> h \in server
               /\ \A p \in Pubs : unpublishing[p] => calls[p].handle \in orphans \/ calls[p].at = "stuck"
    <2>1. ASSUME NEW p \in Pubs, unpublishing[p], calls[p].handle \notin orphans, calls[p].at # "stuck" PROVE FALSE
      <3>1. PICK i \in DOMAIN descriptorMap : descriptorMap[i].type = "active" /\ descriptorMap[i].pub = p
        BY <1>1, <2>1 DEF UnpublishingIsOwned
      <3>2. descriptorMap[i].handle \in AllHandles \ orphans
        <4>1. descriptorMap[i] \in Descriptor
          BY <1>1, <3>1 DEF ControlTypes
        <4> QED
          BY <2>1, <4>1, <1>1, <3>1 DEF Descriptor, DescriptorsAreOwned, IsOwned
      <3> QED
        BY <1>1, <1>2, <2>1, <3>1, <3>2, QuietAgrees
    <2> QED
      BY <2>1, <1>1, <1>2, QuietAgrees DEF AllHandles
  <1> QED
    BY <1>1, <1>2, TypesImply
      DEF PublicationsAgree, HandlesDiffer, WaitingHaveDescriptors, DescriptorsAreOwned, IsOwned

\* A call waits exactly as long as its descriptor is pending, and once nothing is on the way the server
\* publishes what the page takes for published, except of tracks whose messages were lost or that were
\* asked for or unpublished in the middle of a reconnect.
THEOREM PublicationsHold == OutgoingSpec => []PublicationsAgree
  <1>1. OutInit => OutgoingInv
    BY StartAgreed
  <1>2. OutgoingInv /\ [OutNext]_outVars => OutgoingInv'
    BY StepAgreed
  <1>3. OutgoingInv => PublicationsAgree
    BY AgreedSuffices
  <1> QED
    BY <1>1, <1>2, <1>3, PTL DEF OutgoingSpec
=============================================================================

---------------------- MODULE MCOutgoingDataTracks ----------------------
(***************************************************************************)
(* The publisher's data tracks, and next to them the bytes of the packets: a behaviour *)
(* explores one, and the other rests.                                            *)
(***************************************************************************)
EXTENDS OutgoingDataTracks, DataTrackPackets

Spare == [publish |-> 0, unpublish |-> 0, lose |-> 0, disconnect |-> 0, connect |-> 0, refuse |-> 0, revoke |-> 0,
          push |-> 0, chunks |-> 2, flush |-> 0, loss |-> 0, reorder |-> 0]
W0 == {[published |-> <<>>, left |-> [Spare EXCEPT !.publish = 2, !.unpublish = 1, !.lose = 1, !.refuse = 1]]}
W1 == {[published |-> <<"a">>, left |-> [Spare EXCEPT !.publish = 1, !.unpublish = 1, !.disconnect = 1, !.connect = 1]]}
W2 == {[published |-> <<"a">>, left |-> [Spare EXCEPT !.push = 1, !.chunks = 3, !.loss = 1, !.reorder = 1]]}
W3 == {[published |-> <<"a">>, left |-> [Spare EXCEPT !.push = 2, !.loss = 1]]}
W4 == {[published |-> <<"a", "b">>, left |-> [Spare EXCEPT !.push = 2, !.flush = 1]]}
W5 == {[published |-> <<"a">>, left |-> [Spare EXCEPT !.push = 1, !.chunks = 3, !.flush = 1, !.lose = 1]]}
W6 == {[published |-> <<"a">>, left |-> [Spare EXCEPT !.push = 1, !.chunks = 3, !.flush = 1, !.disconnect = 1]]}
W7 == {[published |-> <<"a">>, left |-> [Spare EXCEPT !.publish = 1, !.unpublish = 1, !.revoke = 1, !.lose = 1]]}
W8 == {[published |-> <<"a">>, left |-> [Spare EXCEPT !.publish = 1, !.unpublish = 1, !.lose = 1, !.disconnect = 1, !.connect = 1]]}
Quiet == [published |-> <<>>, left |-> Spare]
MCW == {Quiet} \union W0 \union W1 \union W2 \union W3 \union W4 \union W5 \union W6 \union W7 \union W8

Payload(n) == [i \in 1..n |-> (7 * i) % 256]
Sealed == [i \in 1..E2eeLength |-> 240 + i]
Timed  == [i \in 1..TimestampLength |-> i]
Head0  == [marker |-> "inter", handle |-> 257, sequence |-> 65535, number |-> 256, timestamp |-> <<255, 0, 1, 2>>,
           e2ee |-> <<>>, user |-> <<>>]
NoFrame == [header |-> Head0, payload |-> <<>>]
MCFrames == {NoFrame} \union
  {[header |-> [Head0 EXCEPT !.e2ee = e, !.user = u], payload |-> Payload(n)] :
     e \in {<<>>, Sealed}, u \in {<<>>, Timed}, n \in {1, 12, 13, 40}}

-----------------------------------------------------------------------------
TrackInit == OutInit /\ PacketInit /\ (left = Spare \/ trip.frame = NoFrame)

TrackNext ==
  \/ OutNext /\ UNCHANGED trip
  \/ PacketNext /\ UNCHANGED outVars

Progress == OutProgress /\ UNCHANGED trip

TrackSpec == TrackInit /\ [][TrackNext]_<<outVars, trip>> /\ WF_<<outVars, trip>>(Progress)
-----------------------------------------------------------------------------
\* A frame that was sent reaches the subscriber whole and once, and the bytes of its packets say of it
\* what they were written with.
FramesArriveWhole == FramesArrive /\ PacketsAreReadAsWritten
=============================================================================

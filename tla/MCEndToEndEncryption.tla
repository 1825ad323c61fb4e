------------------------- MODULE MCEndToEndEncryption -------------------------
(***************************************************************************)
(* The page, the worker and their keys, and next to them the bytes of a frame. The    *)
(* two share no state: a behaviour explores one, and the other rests.             *)
(***************************************************************************)
EXTENDS EndToEndEncryption, EncodedFrames

MCOwner == [t \in Tracks |-> IF t = "b1" THEN "b" ELSE "a"]

Nothing == [key |-> 0, ratchet |-> 0, connect |-> 0, toggle |-> 0, publish |-> 0, track |-> 0, sender |-> 0,
            data |-> 0, dispose |-> 0, fault |-> 0, frame |-> 0]
Both == << [track |-> "a1", receiver |-> "r1"], [track |-> "a2", receiver |-> "r2"] >>


\* Keys that change under the frames of two tracks of one participant.
KeysAndFrames == [shared |-> FALSE, people |-> {"a"}, indices |-> {0}, steps |-> 2, ready |-> Both,
                  left |-> [Nothing EXCEPT !.key = 2, !.frame = 3]]
Ratchets == [shared |-> FALSE, people |-> {"a"}, indices |-> {0}, steps |-> 1, ready |-> Both,
             left |-> [Nothing EXCEPT !.key = 2, !.ratchet = 1, !.frame = 2]]
TwoIndices == [shared |-> FALSE, people |-> {"a"}, indices |-> {0, 1}, steps |-> 1, ready |-> << Both[1] >>,
               left |-> [Nothing EXCEPT !.key = 2, !.ratchet = 1, !.frame = 1]]
\* Tracks that come and go on two receivers, whose pipes end.
ComingAndGoing == [shared |-> FALSE, people |-> {"a"}, indices |-> {0}, steps |-> 1, ready |-> << >>,
                   left |-> [Nothing EXCEPT !.publish = 2, !.track = 3, !.fault = 1]]
Swapping == [shared |-> FALSE, people |-> {"a"}, indices |-> {0}, steps |-> 1, ready |-> Both,
             left |-> [Nothing EXCEPT !.publish = 1, !.track = 5]]
Reusing == [shared |-> FALSE, people |-> {"a"}, indices |-> {0}, steps |-> 1, ready |-> Both,
            left |-> [Nothing EXCEPT !.publish = 1, !.track = 3, !.fault = 1]]
\* A frame that is being decrypted when its receiver goes to another participant.
Reassigning == [shared |-> FALSE, people |-> {"a"}, indices |-> {0}, steps |-> 1, ready |-> << Both[1] >>,
                left |-> [Nothing EXCEPT !.key = 1, !.publish = 1, !.track = 2, !.frame = 1]]
\* Packets, with a shared key and with one for each participant.
Packets == {[shared |-> b, people |-> {"a", "me"}, indices |-> {0}, steps |-> 1, ready |-> << >>,
             left |-> [Nothing EXCEPT !.key = 1, !.ratchet = 1, !.data = 2, !.dispose = 1]] : b \in BOOLEAN}
\* The local side: encryption on and off, a reconnect.
Sending == [shared |-> TRUE, people |-> {}, indices |-> {0}, steps |-> 1, ready |-> << >>,
            left |-> [Nothing EXCEPT !.key = 1, !.toggle = 2, !.connect = 1, !.sender = 1, !.frame = 1]]

Resting == [shared |-> FALSE, people |-> {}, indices |-> {0}, steps |-> 1, ready |-> << >>, left |-> Nothing]

MCSessions == {Resting, KeysAndFrames, Ratchets, TwoIndices, ComingAndGoing, Swapping, Reusing, Reassigning, Sending}
                \union Packets

\* Frames of every codec, with what either end is told of it: both, none of them, or one.
Told(s, r) == [sender |-> s, receiver |-> r]
Ends(codec) == {Told(codec, codec), Told("none", "none"), Told(codec, "none"), Told("none", codec)}
Video(type, b, t) ==
  [kind |-> type, bytes |-> b, told |-> t, ssrc |-> 7, timestamp |-> 0, count |-> 0, index |-> 1]

H264Key   == <<0, 0, 0, 1, 103, 66, 0, 0, 1, 101, 136, 132, 10>>
H264Delta == <<0, 0, 1, 65, 154, 2, 0, 0, 3, 1>>
H264Sei   == <<0, 0, 1, 6, 5, 0, 0, 1, 65, 154, 2>>
H264Tiny  == <<0, 0, 1, 103, 66, 31, 9, 9, 0, 0, 1, 65, 154>>
H264Sets  == <<0, 0, 0, 1, 103, 66, 31, 9, 0, 0, 1, 104, 7, 8, 9>>
H265Key   == <<0, 0, 0, 1, 64, 1, 9, 9, 0, 0, 1, 38, 1, 175, 4, 7>>
Vp8Key    == <<16, 2, 0, 157, 1, 42, 8, 0, 8, 0, 0, 71>>
Vp8Delta  == <<17, 0, 0, 1, 65, 9>>
Opus      == <<248, 255, 254>>

MCFrames ==
  {Video("key", b, t) : b \in {H264Key, H264Sei, H264Tiny, H264Sets}, t \in Ends("h264")}
    \union {[Video("delta", b, t) EXCEPT !.ssrc = -1, !.count = 1] : b \in {H264Delta, H264Sei}, t \in Ends("h264")}
    \union {Video("key", H265Key, t) : t \in Ends("h265")}
    \union {Video("key", Vp8Key, t) : t \in Ends("vp8")} \union {Video("delta", Vp8Delta, t) : t \in Ends("vp8")}
    \union {[Video("delta", b, Told("vp9", "vp9")) EXCEPT !.timestamp = 65536, !.count = 65536] : b \in {Vp8Delta, <<>>}}
    \union {Video("audio", Opus, Told("none", "none")), Video("key", Vp8Delta, Told("vp8", "vp8")),
            Video("key", Vp8Delta, Told("av1", "av1"))}
\* Texts with a start code, with what looks like an escape, and with zeros before the vector's
MCTexts == {<<9, 200>>, <<0, 0, 1, 65, 4>>, <<0, 0, 3, 1>>, <<0, 0, 0, 0, 2>>, <<7, 0, 0>>, <<0, 0, 3>>}
NoneTold == [time |-> <<>>, id |-> <<>>, more |-> <<>>]
At8 == <<0, 6, 60, 255, 254, 0, 0, 1>>
Nr4 == <<0, 0, 1, 0>>
\* What a newer writer adds: data of the application, and a tag that is not known
MCInfos == {NoneTold, [NoneTold EXCEPT !.time = At8], [NoneTold EXCEPT !.id = Nr4], [NoneTold EXCEPT !.time = At8, !.id = Nr4],
            [NoneTold EXCEPT !.time = At8, !.more = <<3, 2, 0, 255, 9, 1, 5>>], [NoneTold EXCEPT !.more = <<9, 1, 5>>],
            [NoneTold EXCEPT !.id = Nr4, !.more = <<9, 3, 5>>]}
MCPayloads == {<<16, 2, 0, 157>>, <<248, 255, 254, 0>>}
MCStrange  == <<16, 2, 0, 158>>
MCTrailer  == <<76, 73, 86, 69, 5>>

-----------------------------------------------------------------------------
both == <<vars, parcel>>

\* The session in which nothing happens but to the bytes
Rests == options.people = {} /\ ~options.shared

BothInit == Init /\ FrameInit

BothNext ==
  \/ Next /\ UNCHANGED parcel
  \/ Rests /\ FrameNext /\ UNCHANGED vars

\* The fairness of EndToEndEncryption, for the two
BothSpec ==
  /\ BothInit /\ [][BothNext]_both
  /\ WF_both(PageHears /\ UNCHANGED parcel)
  /\ WF_both((WorkerTakes \/ WorkerGoesOn) /\ UNCHANGED parcel)
  /\ WF_both((\E r \in Receivers : ~usable[r] /\ PipeEnds(r, FALSE)) /\ UNCHANGED parcel)

\* Each track has its cryptor once all is handled, no frame is held up, and what a frame says is read from it.
FramesAreServedAndRead == FramesAreServed /\ FramesAreRead /\ NoUnitInCipher
=============================================================================

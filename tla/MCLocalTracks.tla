----------------------------- MODULE MCLocalTracks -----------------------------
(***************************************************************************)
(* The devices of the page: a local track and what it captures, and next to it the  *)
(* audio output. The two share no state; a session explores one, and the other rests.*)
(***************************************************************************)
EXTENDS LocalTracks, AudioOutput

Nothing == [mute |-> 0, pause |-> 0, device |-> 0, switch |-> 0, restart |-> 0, replace |-> 0, processor |-> 0, stop |-> 0,
            page |-> 0, quality |-> 0, performance |-> 0, fail |-> 0]
Camera == [camera |-> TRUE, stopOnMute |-> FALSE, mobile |-> FALSE, processor |-> FALSE]
Microphone == [Camera EXCEPT !.camera = FALSE]
Given(k, l) == [kind |-> k, creates |-> FALSE, left |-> l]

S0 == {Given(Camera, [Nothing EXCEPT !.mute = 2, !.switch = 2, !.fail = 1])}
S1 == {Given(Camera, [Nothing EXCEPT !.mute = 1, !.restart = 1, !.stop = 1, !.processor = 1, !.fail = 1])}
S2 == {Given(Camera, [Nothing EXCEPT !.pause = 2, !.switch = 1, !.processor = 2])}
S3 == {Given(Camera, [Nothing EXCEPT !.quality = 1, !.switch = 1, !.mute = 1, !.fail = 1])}
S4 == {Given(Camera, [Nothing EXCEPT !.quality = 2, !.performance = 1, !.stop = 1])}
S5 == {Given(Camera, [Nothing EXCEPT !.replace = 1, !.switch = 1, !.mute = 2])}
SC == {Given(Microphone, [Nothing EXCEPT !.switch = 1, !.pause = 2, !.mute = 2])}
SB == {Given(Camera, [Nothing EXCEPT !.replace = 1, !.device = 2])}
S6 == {Given([Camera EXCEPT !.mobile = TRUE], [Nothing EXCEPT !.page = 1, !.device = 2, !.mute = 1])}
S7 == {Given(Microphone, [Nothing EXCEPT !.switch = 1, !.device = 2, !.pause = 1])}
S8 == {Given([Microphone EXCEPT !.stopOnMute = TRUE], [Nothing EXCEPT !.mute = 2, !.device = 2, !.fail = 1])}
S9 == {[kind |-> [Camera EXCEPT !.processor = TRUE], creates |-> TRUE, left |-> [Nothing EXCEPT !.fail = 2, !.mute = 2, !.stop = 1]]}
S10 == {[kind |-> Microphone, creates |-> TRUE, left |-> [Nothing EXCEPT !.fail = 2, !.pause = 1, !.device = 1]]}
SD == {Given(Camera, [Nothing EXCEPT !.mute = 1, !.switch = 1, !.processor = 2, !.fail = 1]),
       Given(Camera, [Nothing EXCEPT !.mute = 2, !.switch = 1, !.processor = 1, !.fail = 1]),
       Given(Camera, [Nothing EXCEPT !.mute = 2, !.processor = 2, !.fail = 1])}
SE == {Given(Microphone, [Nothing EXCEPT !.mute = 1, !.device = 1, !.switch = 1, !.fail = 1])}
SF == {Given(Camera, [Nothing EXCEPT !.quality = 2, !.switch = 1, !.fail = 1])}
SG == {Given(Camera, [Nothing EXCEPT !.replace = 1, !.stop = 1, !.mute = 1])}
SH == {Given([Camera EXCEPT !.mobile = TRUE], [Nothing EXCEPT !.page = 1, !.stop = 1, !.mute = 1])}
SI == {Given(Camera, [Nothing EXCEPT !.processor = 2, !.stop = 1, !.pause = 1, !.fail = 1])}
SJ == {Given(Camera, [Nothing EXCEPT !.quality = 1, !.pause = 2, !.restart = 1])}
Resting == {Given(Camera, Nothing)}
MCSessions == Resting \union SC \union SB \union S0 \union S1 \union S2 \union S3 \union S4 \union S5 \union S6 \union S7
                \union S8 \union S9 \union S10 \union SD \union SE \union SF \union SG
                \union SH \union SI \union SJ

Still == [switch |-> 0, change |-> 0, look |-> 0, join |-> 0, track |-> 0, end |-> 0, detach |-> 0, volume |-> 0,
          attach |-> 0, click |-> 0, start |-> 0]
With(list, t) == [turns |-> t, mix |-> FALSE, gesture |-> TRUE, plugged |-> list, present |-> {"a"}]
Chrome == <<"default", "x">>
Firefox == <<"x", "y">>
MCLists == {Chrome, Firefox, <<"y">>}
Muffled(s) == [s EXCEPT !.gesture = FALSE]

A0 == {With(Chrome, Still)}
A1 == {With(Chrome, [Still EXCEPT !.switch = 2, !.join = 1, !.track = 2, !.attach = 3])}
A2 == {With(Firefox, [Still EXCEPT !.switch = 1, !.change = 2, !.track = 1, !.attach = 2])}
A3 == {With(Firefox, [Still EXCEPT !.change = 2, !.look = 1, !.track = 1, !.attach = 1, !.join = 1])}
A4 == {With(Chrome, [Still EXCEPT !.volume = 1, !.track = 2, !.join = 1, !.attach = 3, !.end = 1, !.detach = 1])}
A5 == {Muffled(With(Chrome, [Still EXCEPT !.track = 1, !.attach = 2, !.detach = 1, !.click = 1, !.start = 2, !.end = 1]))}
A6 == {[Muffled(With(Chrome, [Still EXCEPT !.track = 1, !.attach = 2, !.detach = 1, !.start = 1, !.switch = 1])) EXCEPT !.mix = TRUE]}
MCAudioSessions == A0 \union A1 \union A2 \union A3 \union A4 \union A5 \union A6

-----------------------------------------------------------------------------
both == <<trackVars, audio>>

BothInit == TracksInit /\ AudioInit /\ (left = Nothing \/ turns = Still)

BothNext ==
  \/ TracksNext /\ UNCHANGED audio
  \/ AudioNext /\ UNCHANGED trackVars

BothProgress ==
  \/ Progress /\ UNCHANGED audio
  \/ AudioProgress /\ UNCHANGED trackVars

BothSpec == BothInit /\ [][BothNext]_both /\ WF_both(BothProgress)

\* No operation on a track, switch of the output, handler of a device change or start of audio is under
\* way for ever.
DevicesSettle == TasksEnd /\ AudioSettles
===============================================================================

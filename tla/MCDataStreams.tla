---------------------------- MODULE MCDataStreams ----------------------------
EXTENDS DataStreams

MCRequest  == [c \in Calls |-> IF c = "c1" THEN "q1" ELSE "q2"]
MCResponse == [c \in Calls |-> IF c = "c1" THEN "r1" ELSE "r2"]

None == [handler |-> 0, toggle |-> 0, reconnect |-> 0, leave |-> 0, fault |-> 0, fail |-> 0, abort |-> 0]
Sent(by, size, known) == [from |-> "a", by |-> by, size |-> size, known |-> known, with |-> "s1"]
Unused == Sent("nobody", 0, FALSE)
Carries(p, s) == [from |-> p, by |-> "call", size |-> s, known |-> TRUE, with |-> "none"]
Idle  == [from |-> "a", used |-> FALSE, streamed |-> FALSE, back |-> FALSE, large |-> FALSE]

\* A session: the streams of the application and how much of each event there is.
Reads(one, other, budget) ==
  [stream |-> [s \in Streams |-> CASE s = "s1" -> one [] s = "s2" -> other [] OTHER -> Carries("a", 1)],
   calls |-> [c \in Calls |-> Idle], left |-> budget]
\* A session: the two calls, the second the other way when both is "across".
Asks(one, other, budget) ==
  [stream |-> [s \in Streams |->
     CASE s \in {"q1", "q2"} -> Carries((IF s = "q1" THEN one ELSE other).from, 2)
       [] s \in {"r1", "r2"} -> Carries(IF (IF s = "r1" THEN one ELSE other).from = "a" THEN "b" ELSE "a", 1)
       [] OTHER -> Unused],
   calls |-> [c \in Calls |-> IF c = "c1" THEN one ELSE other], left |-> budget]
Asked(from, streamed, back) == [from |-> from, used |-> TRUE, streamed |-> streamed, back |-> back, large |-> FALSE]

Writers == {Reads(Sent("streamText", 2, FALSE), Unused, [None EXCEPT !.leave = 1, !.fail = 1, !.reconnect = 1, !.abort = 1]),
            Reads(Sent("streamBytes", 2, TRUE), Unused, [None EXCEPT !.leave = 1, !.reconnect = 1, !.toggle = 1])}
Faults  == {Reads(Sent(by, 3, k), Unused, [None EXCEPT !.fault = 1, !.handler = 2]) :
              by \in {"streamText", "sendBytes"}, k \in BOOLEAN}
Flushes == {Reads(Sent("sendBytes", 2, TRUE), Sent("sendBytes", 1, TRUE), [None EXCEPT !.fault = 1, !.reconnect = 1])}
Files   == {Reads(Sent("sendText", 1, TRUE), Sent("sendFile", 2, TRUE), [None EXCEPT !.fail = 1, !.leave = 1])}
OneCall == {Asks(Asked("a", v, v), Idle, b) : v \in BOOLEAN,
              b \in {[None EXCEPT !.leave = 1, !.fail = 1], [None EXCEPT !.reconnect = 1, !.handler = 1]}}
Lossy   == {Asks(Asked("a", v, v), Idle, [None EXCEPT !.fault = 1, !.reconnect = 1]) : v \in BOOLEAN}
Large   == {Asks([Asked("a", v, ~v) EXCEPT !.large = TRUE], Idle, None) : v \in BOOLEAN}
Answered == {Asks(Asked("a", TRUE, FALSE), Idle, [None EXCEPT !.leave = 1, !.fault = 2])}
TwoCalls == {Asks(Asked("a", FALSE, FALSE), Asked("b", FALSE, FALSE), [None EXCEPT !.fault = 1])}

MCSessions == Writers \union Faults \union Flushes \union Files \union OneCall \union Lossy \union Large \union Answered \union TwoCalls
=============================================================================

----------------------------- MODULE MCRemoteMedia -----------------------------
EXTENDS RoomParticipants

MCOwner == [t \in Tracks |-> IF t = "t3" THEN "q" ELSE "p"]

None == [subscribe |-> 0, settings |-> 0, attach |-> 0, browser |-> 0, page |-> 0, resize |-> 0, media |-> 0, end |-> 0,
         join |-> 0, ready |-> 0, leave |-> 0, publish |-> 0, unpublish |-> 0, refuse |-> 0, active |-> 0, fault |-> 0, disconnect |-> 0]
Playing(budget) == [present |-> {"p"}, tracks |-> {"t1"}, left |-> budget]
Empty(budget) == [present |-> {}, tracks |-> {}, left |-> budget]

Arriving == {Empty([None EXCEPT !.join = 2, !.leave = 1, !.publish = 2, !.media = 2, !.end = 1, !.disconnect = 1]),
             Playing([None EXCEPT !.publish = 1, !.unpublish = 1, !.media = 3, !.end = 2, !.refuse = 1])}
Reconnecting == {Playing([None EXCEPT !.publish = 1, !.unpublish = 1, !.media = 2, !.fault = 1]),
                 Playing([None EXCEPT !.join = 1, !.leave = 1, !.media = 2, !.publish = 1, !.fault = 1])}
Asking == {Playing([None EXCEPT !.subscribe = 2, !.settings = 1, !.media = 2, !.end = 1, !.attach = 1, !.fault = 1]),
           Playing([None EXCEPT !.settings = 2, !.media = 1, !.attach = 1, !.resize = 1, !.browser = 1, !.fault = 1])}
Watching == {Playing([None EXCEPT !.media = 2, !.attach = 2, !.browser = 2, !.active = 1, !.end = 1]),
             Playing([None EXCEPT !.media = 1, !.attach = 2, !.browser = 2, !.resize = 1]),
             Playing([None EXCEPT !.media = 1, !.attach = 2, !.browser = 3, !.page = 1])}
Speaking == {Playing([None EXCEPT !.join = 1, !.leave = 1, !.fault = 1])}
Waiting == {Playing([None EXCEPT !.join = 1, !.leave = 1, !.ready = 2, !.fault = 1, !.disconnect = 1])}
Naming == {Playing([None EXCEPT !.fault = 1])}
Recording == {Empty([None EXCEPT !.join = 2, !.leave = 1, !.ready = 1, !.fault = 1, !.disconnect = 1])}
MCSessions == Arriving \union Reconnecting \union Asking \union Watching \union Speaking \union Waiting \union Naming
                \union Recording

Idle == [speak |-> 0, wait |-> 0, ask |-> 0, refuse |-> 0, mic |-> 0, taken |-> 0, fail |-> 0]
With(sessions, m, how) == {[left |-> s.left, may |-> m, speaks |-> how] : s \in sessions}
MCExtras ==
  With(Arriving \union Reconnecting \union Asking \union Watching, Idle, "changes")
    \union With(Speaking, [Idle EXCEPT !.speak = 3], "changes")
    \union With(Speaking, [Idle EXCEPT !.speak = 2], "lists")
    \union With(Waiting, [Idle EXCEPT !.wait = 2], "changes")
    \union With(Naming, [Idle EXCEPT !.ask = 2, !.refuse = 1], "changes")
    \union With(Recording, [Idle EXCEPT !.mic = 1, !.taken = 1, !.fail = 1], "changes")
=============================================================================

--------------------- MODULE LocalTracksAspects_proofs ----------------------
(***************************************************************************)
(* Proofs about LocalTracks, continued: on top of Core, one invariant for  *)
(* each thing that a track owes its application, and with them that the    *)
(* tracks are as they were asked for.                                      *)
(***************************************************************************)
EXTENDS LocalTracks_proofs

(* One change is under way at a time. *)
Mid(t) == t.at \in {"process", "replaced", "resume"}

LEMMA Alone ==
  ASSUME Core, NEW i \in Tasks, ChangeTask(task[i]) \/ Enters(i, "change") \/ task[i].op = "create", Others(i),
         NEW j \in Tasks, j # i
  PROVE  ~Mid(task[j]) /\ ~Mid(task'[j])
  BY ChangeIsExclusive, CreationFacts DEF Others, Core, Mid, ChangeTask, InChange, Creation

LEMMA QuietMid ==
  ASSUME Quietly
  PROVE  \A i \in Tasks : Mid(task[i]) \/ Mid(task'[i]) => task'[i] = task[i]
BY QuietTasks DEF Changers, Mid

(* What is heard of. *)
Heeds(t, tr, h) == t.at \in {"process", "replaced"} => tr.m \notin h.heard \/ t.m = tr.m

LEMMA HeardNewForm ==
  /\ HeardNew <=> \A i \in Tasks : Heeds(task[i], track, history)
  /\ HeardNew' <=> \A i \in Tasks : Heeds(task'[i], track', history')
BY DEF HeardNew, InPlace, Heeds

LEMMA WholeHears ==
  ASSUME Core, Whole
  PROVE  history'.heard \subseteq history.heard
<1>1. CASE RestartAsked \/ Shown \/ \E d \in Devices : DeviceAsked(d)
  BY <1>1 DEF RestartAsked, Shown, HistoryKept, DeviceAsked
<1>2. CASE \E m \in 1..Len(media) : Gone(m)
  BY <1>2 DEF Gone
<1> QED
  BY <1>1, <1>2 DEF Whole, PlainStep, PlainHistory, Hidden, Paused, Resumed, Unpublished, HistoryButOutrun

LEMMA HeedsStay ==
  ASSUME HeardNew, track'.m = track.m, history'.heard \subseteq history.heard,
         \A i \in Tasks : task'[i].at \in {"process", "replaced"} => task[i].at \in {"process", "replaced"} /\ task'[i].m = task[i].m
  PROVE  HeardNew'
BY HeardNewForm DEF Heeds

LEMMA HeardNewKept ==
  ASSUME Core, Core', HeardNew, Step
  PROVE  HeardNew'
<1>1. ASSUME NEW i \in Tasks, Part(i) PROVE HeardNew'
  <2>1. CASE Mutes(i) \/ Unmuted(i) \/ Initialised(i) \/ NotDestroyed(i)
    BY <2>1, PartsApart, QuietMid, HeedsStay
      DEF Mid, Quietly, Mutes, Unmuted, Initialised, NotDestroyed, TrackButMuted
  <2>2. CASE Unmuting(i) \/ Acquiring(i) \/ NotAcquired(i) \/ NotProcessed(i) \/ Processing(i) \/ ChangeEnded(i)
    <3>1. Others(i) /\ track'.m = track.m
      BY <2>2 DEF Unmuting, HistoryKept, Acquiring, NotAcquired, NotProcessed, Processing, ChangeEnded, Moves, Over, TrackStands
    <3>2. task'[i].at \in {"process", "replaced"} => task[i].at \in {"process", "replaced"} /\ task'[i].m = task[i].m
      BY <2>2 DEF Unmuting, HistoryKept, Acquiring, NotAcquired, NotProcessed, Processing, Moves, Over, ChangeEnded, Idle
    <3> QED
      BY <3>1, HeedsStay, <2>2, <3>2
        DEF Unmuting, HistoryKept, Acquiring, NotAcquired, NotProcessed, Processing, ChangeEnded, Others
  <2>3. CASE SettingAcquired(i) \/ SettingUsers(i) \/ SettingAgain(i)
    BY <2>3, Alone, HeardNewForm
      DEF SettingAcquired, SettingUsers, SettingAgain, SettingNew, Setting, Moves, Heeds, Mid
  <2>4. CASE Creating(i)
    BY <2>4, Alone, HeardNewForm DEF Creating, Heeds, Mid
  <2> QED
    BY <1>1, <2>1, <2>2, <2>3, <2>4, Alone, HeardNewForm
      DEF Part, Creates, NotCreated, CreatedNow, Swapped, Moves, Heeds, Mid
<1> QED
  BY <1>1, WholeIsQuiet, QuietMid, SameMediaOfTrack, WholeHears, HeedsStay DEF Step, Mid

(* What is sent. *)
Follows(t, s, tr) ==
  /\ t.at = "replaced" => s.main = IF tr.processor THEN Processed ELSE t.m
  /\ t.at = "resume" => s.main = Current(tr)
Flows(tr, h) == tr.published /\ ~tr.paused /\ ~h.outrun
Rests(tk) == \A i \in Tasks : tk[i].at \notin {"process", "replaced"}

LEMMA SentForm ==
  /\ SentFollows <=> (Flows(track, history) => /\ \A i \in Tasks : Follows(task[i], sends, track)
                                               /\ ~history.failed /\ Rests(task) => sends.main = Current(track))
  /\ SentFollows' <=> (Flows(track', history') => /\ \A i \in Tasks : Follows(task'[i], sends', track')
                                                  /\ ~history'.failed /\ Rests(task') => sends'.main = Current(track'))
BY DEF SentFollows, Flows, Follows, Rests, Settled, InPlace, Sent

SameTrackSent == track'.m = track.m /\ track'.processor = track.processor /\ sends'.main = sends.main

LEMMA SentStays ==
  ASSUME SentFollows, SameTrackSent, Flows(track', history') => Flows(track, history),
         history.failed => history'.failed, \A i \in Tasks : Mid(task[i]) \/ Mid(task'[i]) => task'[i] = task[i]
  PROVE  SentFollows'
  BY SentForm DEF Rests, Mid, SameTrackSent, Current, Follows

\* One task moves, and has the others wait.
LEMMA SentMoves ==
  ASSUME NEW i \in Tasks, \A j \in Tasks : j # i => ~Mid(task'[j]),
         Flows(track', history') => Follows(task'[i], sends', track'),
         Flows(track', history') /\ ~history'.failed /\ task'[i].at \notin {"process", "replaced"} => sends'.main = Current(track')
  PROVE  SentFollows'
  BY SentForm DEF Follows, Mid, Rests

LEMMA ResumedFollows ==
  ASSUME Core, SentFollows, HeardNew, Resumed
  PROVE  SentFollows'
  BY SentForm DEF Resumed, TrackButPaused, Current, HeardNew, InPlace, Flows, Follows

LEMMA SentKept ==
  ASSUME Core, Core', SentFollows, HeardNew, Step
  PROVE  SentFollows'
<1>1. CASE Whole
  <2>1. \A i \in Tasks : Mid(task[i]) \/ Mid(task'[i]) => task'[i] = task[i]
    BY <1>1, WholeIsQuiet, QuietMid
  <2>2. CASE Paused \/ Unpublished
    BY <2>2, SentForm DEF Paused, Unpublished, Flows
  <2>3. CASE RestartAsked \/ Shown \/ \E d \in Devices : DeviceAsked(d)
    BY <2>1, <2>3, SentStays DEF RestartAsked, Shown, HistoryKept, DeviceAsked, TrackButStopped, TrackStands, HistoryStands, SameTrackSent, Flows
  <2>4. CASE \E m \in 1..Len(media) : Gone(m)
    BY <2>1, <2>4, SentStays DEF Gone, TrackButStopped, TrackStands, HistoryStands, SameTrackSent, Flows
  <2> QED
    BY <1>1, <2>2, <2>3, <2>4, <2>1, SentStays, ResumedFollows
      DEF Whole, PlainStep, PlainHistory, Hidden, SameTrackSent, Flows
<1>2. ASSUME NEW i \in Tasks, Part(i) PROVE SentFollows'
  <2>1. CASE Mutes(i) \/ Unmuted(i)
    BY <2>1, PartsApart, QuietMid, SentStays
      DEF Quietly, Mutes, Unmuted, TrackButMuted, HistoryStands, SameTrackSent, Flows
  <2>2. CASE Unmuting(i) \/ Acquiring(i) \/ NotAcquired(i)
    <3>1. \A j \in Tasks : Mid(task[j]) \/ Mid(task'[j]) => task'[j] = task[j]
      BY <2>2 DEF Others, Unmuting, HistoryKept, Acquiring, NotAcquired, Moves, Over, Mid
    <3> QED BY <2>2, <3>1, SentStays DEF Unmuting, HistoryKept, Acquiring, NotAcquired, TrackStands, HistoryStands, SameTrackSent, Flows
  <2>3. CASE NotProcessed(i) \/ NotDestroyed(i)
    BY <2>3, Alone, SentMoves DEF NotProcessed, NotDestroyed, Over, Ends, ChangeTask, InChange, Idle, Follows
  <2>4. CASE Processing(i)
    BY <2>4, Alone, SentMoves DEF Processing, Moves, Follows, Flows
  <2>5. CASE SettingAcquired(i) \/ SettingUsers(i) \/ SettingAgain(i)
    BY <2>5, Alone, SentMoves
      DEF SettingAcquired, SettingUsers, SettingAgain, SettingNew, Setting, Moves, Follows, Flows
  <2>6. CASE Swapped(i)
    BY <2>6, SentForm, SentMoves, Alone DEF Swapped, Moves, HistoryStands, Flows, Follows, Current
  <2>7. CASE ChangeEnded(i)
    BY <2>7, HistoryTyped, SentForm, SentMoves, Alone
      DEF ChangeEnded, Idle, Flows, Core, TrackOK, Stops, TrackRecs, Current, Follows
  <2>8. CASE Initialised(i)
    BY <2>8, Alone, SentMoves DEF Initialised, Flows, Current, Idle, Follows
  <2>9. CASE Creates(i) \/ NotCreated(i) \/ CreatedNow(i)
    BY <2>9, Alone, NoTrackFacts, SentMoves
      DEF Creates, NotCreated, CreatedNow, Creating, Current, Follows, Flows
  <2> QED BY <1>2, <2>1, <2>2, <2>3, <2>4, <2>5, <2>6, <2>7, <2>8, <2>9 DEF Part
<1> QED BY <1>1, <1>2 DEF Step

(* What is heard of its end. *)
Arrives(t) == t.op \in Restarts /\ t.at \in {"process", "replaced"}
HeardOf(tk, tr, md, h) ==
  tr.published /\ ~tr.user =>
    /\ md[tr.m].live => tr.m \in h.heard
    /\ \A i \in Tasks : Arrives(tk[i]) /\ md[tk[i].m].live => tk[i].m \in h.heard

LEMMA HeardForm ==
  /\ IsHeard <=> HeardOf(task, track, media, history)
  /\ IsHeard' <=> HeardOf(task', track', media', history')
BY DEF IsHeard, HeardOf, Arrives, Restarting

LEMMA MediaThere ==
  ASSUME Core
  PROVE  /\ track.published => track.m \in 1..Len(media)
         /\ \A i \in Tasks : Mid(task[i]) => task[i].m \in 1..Len(media)
  BY TaskFacts, HistoryTyped, NoTrackFacts DEF MediaOK, Mid, Calls, Core, TypeInv, TTask, TrackRecs, TrackOK

LEMMA HeardStays ==
  ASSUME Core, Step, IsHeard, track'.m = track.m, track'.published => track.published, track.user => track'.user,
         \A k \in 1..Len(media) : media'[k].live /\ k \in history.heard => k \in history'.heard,
         \A i \in Tasks : Arrives(task'[i]) => Arrives(task[i]) /\ task'[i].m = task[i].m
  PROVE  IsHeard'
  BY HeardForm, LiveBefore, MediaThere DEF HeardOf, Mid, Arrives

LEMMA MidArrives ==
  ASSUME \A i \in Tasks : Mid(task[i]) \/ Mid(task'[i]) => task'[i] = task[i]
  PROVE  \A i \in Tasks : Arrives(task'[i]) => Arrives(task[i]) /\ task'[i].m = task[i].m
BY DEF Mid, Arrives

LEMMA HeardKept ==
  ASSUME Core, Core', IsHeard, GoneBefore, Step
  PROVE  IsHeard'
<1>1. CASE Whole
  <2>1. /\ track'.m = track.m /\ track'.user = track.user
        /\ \A i \in Tasks : Arrives(task'[i]) => Arrives(task[i]) /\ task'[i].m = task[i].m
    BY <1>1, SameMediaOfTrack, WholeIsQuiet, QuietMid, MidArrives
  <2>2. CASE RestartAsked \/ Shown \/ \E d \in Devices : DeviceAsked(d)
    BY <2>1, <2>2, HeardStays DEF RestartAsked, Shown, HistoryKept, DeviceAsked, TrackButStopped, TrackStands
  <2>3. CASE \E m \in 1..Len(media) : Gone(m)
    BY <2>1, <2>3, HeardStays DEF Gone, TrackButStopped, TrackStands
  <2>4. CASE Unpublished
    BY <2>4, HeardForm DEF Unpublished, HeardOf
  <2> QED
    BY <1>1, <2>2, <2>3, <2>4, <2>1, HeardStays
      DEF Whole, PlainStep, PlainHistory, Hidden, Paused, Resumed, TrackButPaused, HistoryButOutrun
<1>2. ASSUME NEW i \in Tasks, Part(i) PROVE IsHeard'
  <2>1. CASE Mutes(i) \/ Unmuted(i) \/ Initialised(i) \/ NotDestroyed(i)
    BY <2>1, PartsApart, QuietMid, MidArrives, HeardStays
      DEF Quietly, Mutes, Unmuted, Initialised, NotDestroyed, TrackButMuted
  <2>2. CASE Unmuting(i) \/ Acquiring(i) \/ NotAcquired(i) \/ NotProcessed(i) \/ Processing(i)
    <3>1. Others(i) /\ track'.m = track.m /\ track'.user = track.user /\ track'.published = track.published
      BY <2>2 DEF Unmuting, HistoryKept, Acquiring, NotAcquired, NotProcessed, Processing, Moves, Over, TrackStands
    <3> QED
      BY <3>1, HeardStays, <2>2
        DEF Unmuting, HistoryKept, Acquiring, NotAcquired, NotProcessed, Processing, Others, Moves, Over, Arrives
  <2>3. CASE SettingAcquired(i)
    BY <2>3, RenewsFacts, Alone, MediaThere, HeardForm
      DEF SettingAcquired, SettingNew, Setting, Moves, Renews, Arrives, Mid, HeardOf
  <2>4. CASE SettingAgain(i)
    BY <2>4, Alone, HeardStays DEF SettingAgain, Setting, Moves, Arrives, Restarts, Mid
  <2>5. CASE Swapped(i)
    <3>1. PICK m \in 1..Len(media) : m = task[i].m
      BY <2>5 DEF Swapped
    <3>2. /\ Others(i) /\ task'[i].at = "resume" /\ ChangeTask(task[i]) /\ task[i].at = "replaced"
          /\ task[i].op \in Restarts \union {"replace", "unprocess", "processor"}
          /\ track'.m = m /\ track'.published = track.published /\ track'.user = track.user
          /\ history'.heard = history.heard \ ({track.m} \ {m}) /\ (media'[m].live => media[m].live)
      BY <2>5, <3>1 DEF Swapped, Moves
    <3>3. track.published /\ ~track.user /\ media[m].live => m \in history.heard
      BY <3>2, TaskFacts, <3>1, HeardForm DEF MediaOK, HeardOf, Arrives
    <3>4. track'.published /\ ~track'.user /\ media'[track'.m].live => track'.m \in history'.heard
      BY <3>2, <3>3
    <3> QED
      BY <3>4, HeardForm, <3>2, Alone DEF HeardOf, Arrives, Mid
  <2>6. CASE ChangeEnded(i)
    BY <2>6, HeardStays, HeardForm DEF ChangeEnded, Stops, Core, TrackOK, Arrives, Idle, Others, HeardOf
  <2>7. CASE Creates(i) \/ NotCreated(i) \/ CreatedNow(i)
    BY <2>7, Alone, NoTrackFacts, HeardForm
      DEF Creates, NotCreated, CreatedNow, Creating, Arrives, Mid, Newborn, HeardOf
  <2> QED
    BY <1>2, <2>1, <2>2, <2>3, <2>4, <2>5, <2>6, <2>7, HeardForm DEF Part, SettingUsers, HeardOf
<1> QED BY <1>1, <1>2 DEF Step

(* What excuses a track that is not captured. *)
Comes(t) == t.op \in Restarts /\ t.at \in {"change", "acquire", "process", "replaced"}
ExcusedBy(tk, tr, h) ==
  \/ tr.user \/ \E i \in Tasks : Comes(tk[i])
  \/ h.failed /\ \A i \in Tasks : ~Resuming(tk[i])

LEMMA ExcusedForm ==
  /\ Excused <=> ExcusedBy(task, track, history)
  /\ Excused' <=> ExcusedBy(task', track', history')
BY DEF Excused, Coming, GaveUp, ExcusedBy, Comes, Resuming, Restarting

\* The steps that leave the restarts as they are, but for one that begins.
LEMMA PlainComes ==
  ASSUME PlainTasks
  PROVE  \A i \in Tasks : (Comes(task[i]) <=> Comes(task'[i])) /\ (Resuming(task[i]) <=> Resuming(task'[i]))
BY DEF PlainTasks, Apart, Comes, Resuming, Swapping

LEMMA BegunComes ==
  ASSUME NEW op \in Restarts, Begun(op)
  PROVE  \E i \in Tasks : Comes(task'[i]) /\ task'[i].at = "change"
BY DEF Begun, Comes

LEMMA ExcusedQuietly ==
  ASSUME Quietly, Excused, track.user => track'.user, history.failed => history'.failed
  PROVE  Excused'
  BY PlainComes, ExcusedForm, BegunComes DEF ExcusedBy, Quietly

\* What a task that moves leaves of the excuse.
LEMMA ExcusedMoves ==
  ASSUME NEW i \in Tasks, Others(i), Excused, track.user => track'.user,
         Comes(task[i]) => \/ Comes(task'[i]) \/ track'.user
                           \/ history'.failed /\ ~Resuming(task'[i]) /\ \A j \in Tasks : j # i => ~Resuming(task'[j]),
         history.failed => \/ history'.failed /\ (Resuming(task'[i]) => Resuming(task[i]))
                           \/ Resuming(task[i]) \/ Comes(task'[i]) \/ track'.user
  PROVE  Excused'
  BY ExcusedForm DEF ExcusedBy, Others

LEMMA WholeFails ==
  ASSUME Core, Whole
  PROVE  history.failed => history'.failed
<1>1. CASE RestartAsked \/ Shown \/ \E d \in Devices : DeviceAsked(d)
  BY <1>1 DEF RestartAsked, Shown, HistoryKept, DeviceAsked
<1>2. CASE \E m \in 1..Len(media) : Gone(m)
  BY <1>2 DEF Gone
<1> QED
  BY <1>1, <1>2 DEF Whole, PlainStep, PlainHistory, Hidden, Paused, Resumed, Unpublished, HistoryButOutrun

LEMMA ExcusedStays ==
  ASSUME Core, Step, Excused, \A i \in Tasks : ~Creating(i) /\ (Swapped(i) => task[i].op \notin Restarts)
  PROVE  Excused'
<1>1. ASSUME NEW i \in Tasks, Part(i) PROVE Excused'
  <2>1. CASE Mutes(i) \/ Unmuted(i) \/ Initialised(i) \/ NotDestroyed(i)
    BY <2>1, PartsApart, ExcusedQuietly DEF Quietly, Mutes, Unmuted, Initialised, NotDestroyed, TrackButMuted
  <2>2. CASE Unmuting(i) \/ Acquiring(i)
    BY <2>2, ExcusedForm DEF Unmuting, HistoryKept, Acquiring, Moves, Comes, Restarts, ExcusedBy
  <2>3. CASE NotAcquired(i) \/ NotProcessed(i)
    BY <2>3, Alone, ExcusedForm DEF NotAcquired, NotProcessed, Over, Resuming, Mid, ExcusedBy
  <2>4. CASE Processing(i)
    BY <2>4, ExcusedMoves DEF Processing, Moves, Comes, Resuming
  <2>5. CASE SettingAcquired(i)
    BY <2>5, ExcusedForm DEF SettingAcquired, SettingNew, Setting, Moves, Comes, ExcusedBy
  <2>6. CASE SettingUsers(i)
    BY <2>6, ExcusedForm DEF SettingUsers, ExcusedBy
  <2>7. CASE SettingAgain(i)
    BY <2>7, ExcusedMoves DEF SettingAgain, Setting, Moves, Comes, Resuming, Restarts
  <2>8. CASE Swapped(i) /\ task[i].op \notin Restarts
    BY <2>8, ExcusedMoves DEF Swapped, Moves, Comes, Resuming
  <2>9. CASE ChangeEnded(i)
    <3>1. /\ Others(i) /\ track'.user = track.user /\ history'.failed = (history.failed /\ task[i].op \notin Restarts)
          /\ task[i].at = "resume"
      BY <2>9 DEF ChangeEnded
    <3>2. ~Comes(task[i]) /\ ~Resuming(task'[i]) /\ (task[i].op \in Restarts => Resuming(task[i]))
      BY <3>1, <2>9 DEF Comes, Resuming, ChangeEnded, Idle
    <3> QED BY <3>1, <3>2, ExcusedMoves
  <2> QED BY <1>1, <2>1, <2>2, <2>3, <2>4, <2>5, <2>6, <2>7, <2>8, <2>9 DEF Part, Creates, NotCreated, CreatedNow
<1> QED
  BY <1>1, WholeIsQuiet, WholeFails, SameMediaOfTrack, ExcusedQuietly DEF Step

(* What a track captures is enabled. *)
LEMMA EnabledStays ==
  ASSUME Core, IsEnabled, Excused => Excused', track'.m = track.m, track'.published => track.published, track.muted => track'.muted,
         kind' = kind, hidden => hidden', \A k \in 1..Len(media) : media[k].enabled => media'[k].enabled
  PROVE  IsEnabled'
  BY MediaThere DEF IsEnabled

LEMMA ShownEnabled ==
  ASSUME Core, IsEnabled, Excused => Excused', Shown
  PROVE  IsEnabled'
  BY BegunComes, ExcusedForm
    DEF Shown, HistoryKept, TrackButStopped, TrackStands, NeedsReAcquisition, ExcusedBy, Restarts, IsEnabled

LEMMA EnabledKept ==
  ASSUME Core, Core', IsEnabled, Step
  PROVE  IsEnabled'
<1>1. (\A i \in Tasks : ~Creating(i) /\ (Swapped(i) => task[i].op \notin Restarts)) => (Excused => Excused')
  BY ExcusedStays
<1>2. CASE Whole
  <2>1. /\ track'.m = track.m /\ track'.user = track.user /\ (Excused => Excused') /\ track'.muted = track.muted /\ kind' = kind
    BY <1>2, SameMediaOfTrack, WholeIsQuiet, WholeFails, WholeFacts, ExcusedQuietly
  <2>2. CASE Hidden
    BY <2>2, <2>1, EnabledStays DEF Hidden, IsEnabled
  <2>3. CASE RestartAsked \/ \E d \in Devices : DeviceAsked(d)
    BY <2>1, <2>3, EnabledStays DEF RestartAsked, DeviceAsked, TrackButStopped, TrackStands
  <2>4. CASE Shown
    BY <2>1, <2>4, ShownEnabled
  <2>5. CASE \E m \in 1..Len(media) : Gone(m)
    BY <2>1, <2>5, EnabledStays DEF Gone, TrackButStopped, TrackStands
  <2>6. CASE Unpublished
    BY <2>6 DEF Unpublished, IsEnabled
  <2> QED
    BY <1>2, <2>2, <2>3, <2>4, <2>5, <2>6, <2>1, EnabledStays
      DEF Whole, PlainStep, PlainMedia, Paused, Resumed, TrackButPaused
<1>3. ASSUME NEW i \in Tasks, Part(i) PROVE IsEnabled'
  <2>1. CASE Initialised(i) \/ NotDestroyed(i)
    BY <2>1, ExcusedQuietly, EnabledStays DEF Initialised, NotDestroyed, Quietly
  <2>2. CASE SettingUsers(i)
    BY <2>2, ExcusedForm, EnabledStays DEF SettingUsers, ExcusedBy, SettingNew, Setting
  <2>3. CASE Acquiring(i) \/ SettingAcquired(i)
    BY <2>3, ExcusedForm, EnabledStays
      DEF Acquiring, SettingAcquired, SettingNew, Setting, Moves, Comes, ExcusedBy
  <2>4. CASE NotAcquired(i) \/ NotProcessed(i) \/ Processing(i) \/ SettingAgain(i)
    <3>1. \A j \in Tasks : ~Creating(j) /\ ~Swapped(j)
      <4>1. task[i].at # "replaced" /\ ChangeTask(task[i]) /\ Others(i)
        BY <2>4 DEF NotAcquired, NotProcessed, Processing, SettingAgain, Over, Moves, Setting
      <4> QED
        BY <4>1, <2>4, Alone
          DEF Creating, Swapped, NotAcquired, NotProcessed, Processing, SettingAgain, Restarts, Mid
    <3> QED
      BY <1>1, <3>1, EnabledStays, <2>4 DEF NotAcquired, NotProcessed, Processing, SettingAgain, Setting
  <2>5. CASE Swapped(i)
    BY <2>5 DEF Swapped, IsEnabled
  <2>6. CASE ChangeEnded(i)
    <3>1. \A j \in Tasks : ~Creating(j) /\ ~Swapped(j)
      BY <2>6, Alone DEF ChangeEnded, Restarts, Mid, Creating, Swapped
    <3>2. CASE task[i].op = "unmute"
      BY <2>6, HistoryTyped, <3>2 DEF ChangeEnded, TrackRecs, OwnMedia, IsEnabled
    <3>3. CASE task[i].op # "unmute"
      BY <2>6, <3>3, <1>1, <3>1, EnabledStays DEF ChangeEnded
    <3> QED BY <3>2, <3>3
  <2>7. CASE Creates(i) \/ NotCreated(i) \/ CreatedNow(i)
    BY <2>7, NoTrackFacts DEF Creates, NotCreated, CreatedNow, Captured, Newborn, IsEnabled
  <2> QED
    BY <1>3, <2>1, <2>2, <2>3, <2>4, <2>5, <2>6, <2>7
      DEF Part, Mutes, Unmuting, HistoryKept, Unmuted, TrackButMuted, TrackStands, IsEnabled
<1> QED BY <1>2, <1>3 DEF Step

(* What a track is to capture lives. *)
Waits(t) == t.op \in Restarts /\ t.at = "change"
LiveMedia == track.published /\ (~track.muted \/ \E i \in Tasks : Returns(task[i])) =>
               media[track.m].live \/ track.m \in history.lost \/ Excused
LiveTasks == track.published => \A i \in Tasks : Arrives(task[i]) =>
               \/ media[task[i].m].live \/ task[i].m \in history.lost \/ track.user
               \/ (track.muted /\ task[i].op # "unmute") \/ \E j \in Tasks : Waits(task[j])

LEMMA LiveForm ==
  /\ IsLive <=> LiveMedia /\ LiveTasks
  /\ IsLive' <=> LiveMedia' /\ LiveTasks'
BY DEF IsLive, LiveMedia, LiveTasks, Unmutes, Returns, Arrives, Waits, Restarting

LEMMA LiveMediaStays ==
  ASSUME Core, LiveMedia, Excused => Excused', track'.m = track.m, track'.published => track.published, track.muted => track'.muted,
         history.lost \subseteq history'.lost, \A i \in Tasks : Returns(task'[i]) => Returns(task[i]),
         \A k \in 1..Len(media) : media[k].live => media'[k].live
  PROVE  LiveMedia'
  BY MediaThere DEF LiveMedia

LEMMA LiveTasksStay ==
  ASSUME Core, LiveTasks, track'.published => track.published, track.muted => track'.muted, track.user => track'.user,
         history.lost \subseteq history'.lost, \A k \in 1..Len(media) : media[k].live => media'[k].live,
         \A i \in Tasks : /\ Arrives(task'[i]) => Arrives(task[i]) /\ task'[i].m = task[i].m /\ task'[i].op = task[i].op
                          /\ Waits(task[i]) => Waits(task'[i])
  PROVE  LiveTasks'
  BY MediaThere DEF LiveTasks, Mid, Arrives

QuietLives == /\ \A i \in Tasks : /\ Arrives(task'[i]) => Arrives(task[i]) /\ task'[i].m = task[i].m /\ task'[i].op = task[i].op
                                  /\ Waits(task[i]) => Waits(task'[i])
                                  /\ Returns(task'[i]) => Returns(task[i])

LEMMA LiveQuietly ==
  ASSUME Quietly
  PROVE  QuietLives
<1>1. ASSUME NEW op \in Restarts, Begun(op) PROVE QuietLives
  BY <1>1 DEF Begun, Others, QuietLives, Arrives, Waits, Returns
<1> QED
  BY <1>1 DEF Quietly, PlainTasks, Apart, Swapping, QuietLives, Arrives, Waits, Returns

LEMMA LiveStays ==
  ASSUME Core, IsLive, QuietLives, Excused => Excused', track'.m = track.m, track'.published => track.published,
         track.muted => track'.muted, track.user => track'.user,
         history.lost \subseteq history'.lost, \A k \in 1..Len(media) : media[k].live => media'[k].live
  PROVE  IsLive'
  BY LiveForm, LiveMediaStays, LiveTasksStay DEF QuietLives

\* A device that goes: what is lost with it, nobody will miss or somebody knows of.
LEMMA GoneLives ==
  ASSUME Core, IsLive, IsHeard, NEW m \in 1..Len(media), Gone(m), Excused => Excused'
  PROVE  IsLive'
<1>1. /\ track'.m = track.m /\ track'.published = track.published /\ track'.muted = track.muted /\ track'.user = track.user
      /\ history.lost \subseteq history'.lost /\ \A k \in 1..Len(media) : media'[k].live <=> media[k].live /\ k # m
  BY DEF Gone, TrackButStopped, TrackStands
<1>2. CASE ~track.published
  BY <1>1, <1>2, LiveForm DEF LiveMedia, LiveTasks
<1>3. CASE /\ track.published /\ ~track.user /\ Unheard(m) /\ task' = task
           /\ history'.lost = history.lost \union (IF Changing \/ ~track.published THEN {m} ELSE {})
  <2>1. (m \notin history.heard \/ track.muted) /\ (Changing => m \in history'.lost)
    BY <1>3 DEF Unheard
  <2>2. LiveMedia'
    BY <1>3, HeardForm, <1>1, <2>1, InChangeIsChanging, MediaThere, LiveForm
      DEF LiveMedia, HeardOf, Returns, In, Holds, ChangeTask, InChange, Core
  <2>3. LiveTasks'
    BY <1>3, MediaThere, LiveForm, InChangeIsChanging, <1>1, <2>1
      DEF LiveTasks, Mid, Arrives, In, Holds, ChangeTask, InChange, Restarts, Core
  <2> QED BY <2>2, <2>3, LiveForm
<1> QED
  BY <1>2, <1>3, <1>1, ExcusedForm, LiveForm, BegunComes
    DEF Gone, LiveMedia, LiveTasks, ExcusedBy, Restarts, Comes, Waits

LEMMA NobodyArrives ==
  ASSUME NEW i \in Tasks, \A j \in Tasks : j # i => ~Mid(task'[j]), ~Arrives(task'[i])
  PROVE  LiveTasks'
  BY DEF Mid, Arrives, LiveTasks

LEMMA PlainTasksArrive ==
  ASSUME PlainTasks
  PROVE  \A i \in Tasks : Arrives(task'[i]) => Arrives(task[i])
BY DEF PlainTasks, Apart, Arrives

LEMMA SwappedLives ==
  ASSUME Core, IsLive, NEW i \in Tasks, Swapped(i)
  PROVE  IsLive'
<1>1. PICK m \in 1..Len(media) : m = task[i].m
  BY DEF Swapped
<1>2. /\ Others(i) /\ task'[i].op = task[i].op /\ task'[i].at = "resume" /\ ChangeTask(task[i]) /\ task[i].at = "replaced"
      /\ task[i].op \in Restarts \union {"replace", "unprocess", "processor"}
      /\ track'.m = m /\ track'.published = track.published /\ track'.user = track.user /\ track'.muted = track.muted
      /\ history.lost \subseteq history'.lost /\ history'.failed = history.failed /\ (media[m].live => media'[m].live)
  BY <1>1 DEF Swapped, Moves
<1>3. \A j \in Tasks : j # i => ~Mid(task'[j]) /\ ~Mid(task[j])
  BY <1>2, Alone
<1>4. LiveMedia'
  <2> SUFFICES ASSUME track'.published, ~track'.muted \/ \E j \in Tasks : Returns(task'[j])
               PROVE  media'[m].live \/ m \in history'.lost \/ Excused'
    BY <1>2 DEF LiveMedia
  <2>1. CASE track.user
    BY <1>2, <2>1, ExcusedForm DEF ExcusedBy
  <2>2. CASE ~track.user /\ task[i].op \in Restarts
    BY <1>2, <1>3, ExcusedForm, <1>1, <2>2, LiveForm
      DEF Returns, Mid, Waits, Comes, Others, ExcusedBy, LiveTasks, Arrives
  <2>3. CASE task[i].op = "replace"
    BY <1>2, <2>3, TaskFacts, <2>1 DEF MediaOK
  <2>4. CASE task[i].op \in {"unprocess", "processor"}
    BY <1>2, <2>4, <1>3, LiveForm, <1>1, TaskFacts, ExcusedMoves
      DEF Returns, Mid, LiveMedia, MediaOK, Comes, Resuming, Restarts
  <2> QED BY <1>2, <2>1, <2>2, <2>3, <2>4
<1> QED
  BY <1>4, LiveForm, <1>2, <1>3, NobodyArrives DEF Arrives

LEMMA EndedLives ==
  ASSUME Core, IsLive, NEW i \in Tasks, ChangeEnded(i), Excused => Excused'
  PROVE  IsLive'
<1>1. /\ Others(i) /\ task[i].at = "resume" /\ ChangeTask(task[i])
      /\ track'.m = track.m /\ track'.published = track.published /\ track'.user = track.user
      /\ track'.muted = (track.muted /\ task[i].op # "unmute")
      /\ history.lost \subseteq history'.lost
      /\ \A k \in 1..Len(media) : media'[k].live <=> media[k].live /\ ~(Stops(task[i]) /\ k \in OwnMedia)
  BY DEF ChangeEnded
<1>2. \A j \in Tasks : j # i => ~Mid(task'[j]) /\ ~Mid(task[j])
  BY <1>1, Alone
<1>3. task'[i].at \notin {"process", "replaced", "resume"}
  BY DEF ChangeEnded, Idle
<1>4. LiveMedia'
  BY <1>1, MediaThere, <1>2, <1>3, LiveForm DEF LiveMedia, Stops, Core, TrackOK, Returns, Mid
<1> QED
  BY <1>4, LiveForm, <1>2, <1>3, NobodyArrives DEF Arrives

\* One part of the code at a time waits for a change of the track.
LEMMA NoneElse ==
  ASSUME Core, NEW i \in Tasks, ChangeTask(task[i]), task[i].at # "replaced", Others(i)
  PROVE  \A j \in Tasks : ~Creating(j) /\ ~Swapped(j)
  BY TaskFacts, Alone DEF ChangeTask, InChange, Legal, Mid, Creating, Swapped

LEMMA LiveKept ==
  ASSUME Core, Core', IsLive, IsHeard, GoneBefore, Step
  PROVE  IsLive'
<1>1. (\A j \in Tasks : ~Creating(j) /\ (Swapped(j) => task[j].op \notin Restarts)) => (Excused => Excused')
  BY ExcusedStays
<1>2. CASE Whole
  <2>1. /\ track'.m = track.m /\ track'.user = track.user /\ (Excused => Excused') /\ track'.muted = track.muted /\ QuietLives
    BY <1>2, SameMediaOfTrack, WholeIsQuiet, WholeFails, WholeFacts, ExcusedQuietly, LiveQuietly
  <2>2. CASE RestartAsked \/ Shown \/ \E d \in Devices : DeviceAsked(d)
    BY <2>1, <2>2, LiveStays DEF RestartAsked, Shown, HistoryKept, DeviceAsked, TrackButStopped, TrackStands
  <2>3. CASE \E m \in 1..Len(media) : Gone(m)
    BY <2>1, <2>3, GoneLives
  <2>4. CASE Unpublished
    BY <2>4, LiveForm DEF Unpublished, LiveMedia, LiveTasks
  <2> QED
    BY <1>2, <2>2, <2>3, <2>4, <2>1, LiveStays
      DEF Whole, PlainStep, PlainMedia, PlainHistory, Hidden, Paused, Resumed, TrackButPaused,
          HistoryButOutrun
<1>3. ASSUME NEW i \in Tasks, Part(i) PROVE IsLive'
  <2>1. CASE Mutes(i)
    BY <2>1, PartsApart, TaskFacts, LiveForm
      DEF Mutes, MediaOK, PlainTasks, Apart, Returns, Arrives, LiveMedia, LiveTasks
  <2>2. CASE Unmuting(i)
    BY <2>2, ExcusedForm, LiveForm DEF Unmuting, HistoryKept, Moves, Comes, Waits, Restarts, LiveMedia, LiveTasks, ExcusedBy
  <2>3. CASE Unmuted(i)
    BY <2>3, PartsApart, RenewsFacts, PlainTasksArrive, MediaThere, LiveForm, ExcusedForm
      DEF Unmuted, TrackButMuted, Reacquires, Arrives, Renews, LiveMedia, LiveTasks, ExcusedBy
  <2>4. CASE Initialised(i) \/ NotDestroyed(i)
    BY <2>4, ExcusedQuietly, LiveQuietly, LiveStays DEF Initialised, NotDestroyed, Quietly
  <2>5. CASE Acquiring(i)
    BY <2>5, Alone, NobodyArrives, ExcusedForm, LiveForm
      DEF Acquiring, Moves, Comes, Arrives, LiveMedia, ExcusedBy
  <2>6. CASE SettingAcquired(i)
    <3>1. Comes(task'[i]) /\ Others(i) /\ ChangeTask(task[i])
      BY <2>6 DEF SettingAcquired, SettingNew, Setting, Moves, Comes
    <3>2. LiveTasks'
      BY <2>6, <3>1, Alone DEF LiveTasks, SettingAcquired, SettingNew, Setting, Mid, Arrives
    <3> QED BY <3>1, <3>2, ExcusedForm, LiveForm DEF LiveMedia, ExcusedBy
  <2>7. CASE SettingUsers(i)
    BY <2>7, ExcusedForm, LiveForm DEF SettingUsers, LiveMedia, LiveTasks, ExcusedBy
  <2>8. CASE SettingAgain(i) \/ NotAcquired(i) \/ NotProcessed(i) \/ Processing(i)
    <3>1. Others(i) /\ ChangeTask(task[i]) /\ task[i].at # "replaced"
      BY <2>8 DEF SettingAgain, NotAcquired, NotProcessed, Processing, Setting, Moves, Over
    <3>2. /\ Arrives(task'[i]) => Arrives(task[i]) /\ task'[i].m = task[i].m /\ task'[i].op = task[i].op
          /\ Waits(task[i]) => Waits(task'[i])
          /\ Returns(task'[i]) => Returns(task[i])
      BY <2>8 DEF SettingAgain, NotAcquired, NotProcessed, Processing, Setting, Moves, Over, Arrives, Waits, Returns, Restarts
    <3>3. track'.m = track.m /\ track'.published = track.published /\ track'.muted = track.muted /\ track'.user = track.user
      BY <2>8 DEF SettingAgain, NotAcquired, NotProcessed, Processing, Setting
    <3>4. history.lost \subseteq history'.lost /\ \A k \in 1..Len(media) : media[k].live => media'[k].live
      BY <2>8 DEF SettingAgain, NotAcquired, NotProcessed, Processing, Setting
    <3> QED
      BY <3>3, <3>4, LiveStays, <1>1, <3>1, NoneElse, <3>2 DEF QuietLives, Others
  <2>9. CASE Swapped(i)
    BY <2>9, SwappedLives
  <2>10. CASE ChangeEnded(i)
    BY <2>10, <1>1, NoneElse, EndedLives DEF ChangeEnded
  <2>11. CASE Creates(i) \/ NotCreated(i) \/ CreatedNow(i)
    BY <2>11, Alone, NobodyArrives, NoTrackFacts, LiveForm
      DEF Creates, NotCreated, CreatedNow, Creating, Arrives, Captured, Newborn, LiveMedia
  <2> QED BY <1>3, <2>1, <2>2, <2>3, <2>4, <2>5, <2>6, <2>7, <2>8, <2>9, <2>10, <2>11 DEF Part
<1> QED BY <1>2, <1>3 DEF Step

(* What the size of what is sent rests on. *)
\* What is about to be settled, and what is about to be computed.
Settles(t) == t.op \in Restarts \union {"replace"} /\ t.at = "resume"
Fits(t)    == t.op \in Swaps /\ t.at \in {"clone", "sender", "dimensions"}
SizedForm(s, d, tk) == s.scaled = d \/ \E i \in Tasks : Settles(tk[i]) \/ Fits(tk[i])
Counts(k, tr, ls, h) == k.camera /\ tr.published /\ ~ls.performance /\ ~h.resized /\ ~h.missed
Computed(s, h) == ~h.missed => s.scaled = s.encoded

LEMMA SizedForms ==
  /\ Sized <=> Computed(sends, history)
                 /\ (Counts(kind, track, layers, history) => SizedForm(sends, media[track.m].device, task))
  /\ Sized' <=> Computed(sends', history')
                  /\ (Counts(kind', track', layers', history') => SizedForm(sends', media'[track'.m].device, task'))
BY DEF Sized, SizedForm, Counts, Computed, Settles, Fits

StillFits == kind.camera /\ track.published /\ ~layers.performance => \A j \in Tasks : Fits(task[j]) => Fits(task'[j])
Sizes == /\ sends'.scaled = sends.scaled /\ sends'.encoded = sends.encoded /\ history'.resized = history.resized /\ history'.missed = history.missed
         /\ (layers.performance => layers'.performance) /\ StillFits

LEMMA OneFits ==
  ASSUME Core, NEW i \in Tasks, NEW t, task' = [task EXCEPT ![i] = t], ~Fits(task[i]) \/ Fits(t)
  PROVE  StillFits
BY AssignedTask DEF Others, StillFits

LEMMA SameTasksFit == ASSUME task' = task PROVE StillFits
BY DEF StillFits

LEMMA BegunFits ==
  ASSUME Core, NEW t, \E i \in Tasks : task[i].op = "idle" /\ task' = [task EXCEPT ![i] = t]
  PROVE  StillFits
  BY OneFits DEF Fits, Swaps

LEMMA BegunOpFits ==
  ASSUME NEW op, Begun(op)
  PROVE  StillFits
BY DEF Begun, StillFits, Others, Fits

LEMMA BegunSizes ==
  ASSUME Core,
         \/ Mute \/ Unmute \/ SetProcessor \/ StopProcessor \/ PrioritizePerformance \/ RefreshTimer
         \/ \E d \in Devices : ReplaceTrack(d)
         \/ \E C \in SUBSET {"main", "backup"} : SubscribedQuality(C)
  PROVE  Sizes
<1>1. StillFits
  BY BeginsMute, BeginsUnmute, BeginsProcessor, BeginsUnprocess, BeginsPerformance, BegunFits,
     BeginsRefresh, BeginsReplace, BeginsQuality DEF Codecs
<1>2. UNCHANGED <<sends, layers, history>>
  BY DEF Mute, Unmute, SetProcessor, StopProcessor, PrioritizePerformance, sending, RefreshTimer,
         SubscribedQuality, ReplaceTrack
<1> QED BY <1>1, <1>2 DEF Sizes

LEMMA AskedSizes ==
  ASSUME Core, RestartAsked \/ Shown \/ Unpublish \/ Hidden \/ (\E d \in Devices : DeviceAsked(d)) \/ (\E m \in DOMAIN media : MediaEnds(m))
  PROVE  Sizes
  BY BegunOpFits, SameTasksFit, CoreMediaEnds, BegunFits, SendsTyped, SendsWith, CoreUnpublish
    DEF RestartAsked, Shown, HistoryKept, Sizes, DeviceAsked, HistoryStands, tasks, Hidden, Unpublish

LEMMA ProgressSizes ==
  ASSUME Core, NEW i \in Tasks, PlainNext(i), ~Refreshed(i), ~RefreshFails(i)
  PROVE  Sizes
<1>1. ASSUME NEW t, ~Fits(task[i]) \/ Fits(t), task' = [task EXCEPT ![i] = t] PROVE StillFits
  BY <1>1, OneFits
<1>2. CASE LayersSet(i)
  BY <1>2, CoreLayersSet, <1>1 DEF Fits, Swaps, Sizes
<1>3. CASE LayersSkipped(i)
  BY <1>3, CoreLayersSkipped, <1>1 DEF Fits, Sizes
<1>4. CASE CodecSet(i)
  BY <1>4, CoreCodecSet, <1>1 DEF Fits, Swaps, Sizes
<1>5. CASE CodecPublished(i) \/ CodecFails(i)
  BY <1>5, CoreCodecPublished, CoreCodecFails, <1>1 DEF Fits, Sizes, HistoryGrows
<1>6. CASE PerformanceSet(i)
  BY <1>6, CorePerformanceSet, <1>1 DEF Fits, Swaps, Sizes
<1>7. CASE RefreshEnters(i)
  BY <1>7, CoreRefreshEnters, <1>1 DEF Fits, Sizes
<1>8. CASE ProcessorEnters(i)
  BY <1>8, <1>1, CoreProcessorEnters DEF ProcessorEnters, Enters, Fits, Sizes
<1>9. CASE InitFails(i)
  BY <1>9, <1>1, CoreInitFails DEF InitFails, Fits, Sizes
<1>10. CASE UnprocessEnters(i)
  BY <1>10, CoreUnprocessEnters, <1>1 DEF Fits, Sizes
<1>11. CASE CreateFails(i)
  BY <1>11, <1>1, CoreCreateFails DEF CreateFails, Fits, Sizes
<1>12. CASE Recloned(i)
  <2>1. CASE kind.camera /\ track.published /\ ~layers.performance
    BY <1>12, <2>1, CoreRecloned, <1>1 DEF Fits, Swaps, Sizes, HistoryGrows
  <2> QED BY <1>12, <2>1, CoreRecloned DEF StillFits, Sizes, HistoryGrows
<1>13. CASE ReplaceRefused(i)
  BY <1>13, CoreReplaceRefused, <1>1 DEF Fits, Sizes
<1>14. CASE Inited(i) /\ track.processor
  BY <1>14, CoreInited, <1>1 DEF Fits, Sizes
<1> QED BY <1>13, <1>14, <1>2, <1>3, <1>4, <1>5, <1>6, <1>7, <1>8, <1>9, <1>10, <1>11, <1>12 DEF PlainNext

LEMMA MuteSizes ==
  ASSUME Core,
         \/ PauseUpstream \/ ResumeUpstream \/ MuteTimer \/ DeviceMutes
         \/ (\E m \in DOMAIN media : DeviceUnmutes(m)) \/ \E i \in Tasks : MuteEnters(i) \/ UnmuteEnters(i)
  PROVE  Sizes \/ \E i \in Tasks : Part(i)
<1>1. CASE ResumeUpstream
  BY <1>1, HistoryTyped, OutrunFacts, ResumedSendsFacts, SameTasksFit
    DEF ResumeUpstream, Resumes, tasks, Histories, TrackRecs, Sizes
<1>2. CASE DeviceMutes
  BY <1>2, SameTasksFit DEF DeviceMutes, Sizes, sending, tasks
<1>3. ASSUME NEW m \in DOMAIN media, DeviceUnmutes(m) PROVE Sizes
  BY <1>3, ResumedSendsFacts, SameTasksFit DEF DeviceUnmutes, Resumes, tasks, Sizes
<1>4. ASSUME NEW i \in Tasks, MuteEnters(i) PROVE Sizes
  BY <1>4, HistoryTyped, OneFits DEF MuteEnters, GoesOn, sending, Histories, Sizes, Fits, Swaps
<1>5. ASSUME NEW i \in Tasks, UnmuteEnters(i) PROVE Sizes
  BY <1>5, HistoryTyped, OneFits DEF UnmuteEnters, Revives, sending, Histories, Fits, Swaps, GoesOn, Sizes
<1> QED
  BY <1>1, <1>2, <1>3, <1>4, <1>5, PausesFacts, KeptSame, HistoryTyped, SameTasksFit
    DEF PauseUpstream, MuteTimer, options, outside, tasks, Sizes

LEMMA Sizing ==
  ASSUME Core, [TracksNext]_trackVars
  PROVE  Sizes \/ \E i \in Tasks : Refreshed(i) \/ RefreshFails(i) \/ Part(i)
<1>1. CASE Application
  BY MuteSizes, AskedSizes, RestartAskedFacts, DeviceAskedFacts, <1>1, BegunSizes DEF Application
<1>2. CASE Show
  BY <1>2, AskedSizes, ShownFacts
<1>3. CASE \E m \in DOMAIN media : DeviceUnmutes(m)
  BY <1>3, MuteSizes
<1>4. ASSUME NEW i \in Tasks,
             \/ RestartEnters(i) \/ Acquired(i) \/ Reprocessed(i) \/ Replaced(i)
             \/ ChangeEnds(i) \/ ReplaceEnters(i) \/ Installing(i) \/ Destroyed(i) \/ CreateAcquires(i) \/ Created(i)
      PROVE  Part(i)
  BY <1>4, AcquiringFacts, AcquiredFacts, ProcessingFacts, SwappedFacts, ChangeEndedFacts, UsersFacts,
     InitialisedFacts, AgainFacts, CreatesFacts, CreatedFacts DEF Part
<1>5. ASSUME NEW i \in Tasks, AcquireFails(i) \/ ProcessFails(i) \/ DestroyFails(i) \/ CreateInitFails(i)
      PROVE  Part(i)
  BY <1>5, NotAcquiredFacts, NotProcessedFacts, NotDestroyedFacts, NotCreatedFacts DEF Part
<1>6. CASE Progress
  BY MuteSizes, ProgressSizes, <1>4, <1>5, <1>6, BegunSizes DEF Progress, Failures, PlainNext, Installing
<1> QED
  BY <1>1, <1>2, <1>3, <1>6, SameTasksFit, MuteSizes, AskedSizes, HiddenFacts, BegunSizes
    DEF TracksNext, trackVars, sending, tasks, Sizes, Browser

LEMMA WholePublishes ==
  ASSUME Core, Whole
  PROVE  track'.published => track.published
<1>1. CASE RestartAsked \/ Shown \/ \E d \in Devices : DeviceAsked(d)
  BY <1>1 DEF RestartAsked, Shown, HistoryKept, DeviceAsked, TrackButStopped, TrackStands
<1>2. CASE \E m \in 1..Len(media) : Gone(m)
  BY <1>2 DEF Gone, TrackButStopped, TrackStands
<1> QED
  BY <1>1, <1>2 DEF Whole, PlainStep, Hidden, Paused, Resumed, Unpublished, TrackButPaused

LEMMA SizedStays ==
  ASSUME Core, Sized, kind' = kind, track'.m = track.m, track'.published => track.published,
         layers.performance => layers'.performance, history'.resized = history.resized /\ history'.missed = history.missed,
         sends'.scaled = sends.scaled /\ sends'.encoded = sends.encoded, \A m \in 1..Len(media) : media'[m].device = media[m].device,
         kind.camera /\ track.published /\ ~layers.performance =>
           \A j \in Tasks : Settles(task[j]) \/ Fits(task[j]) => Settles(task'[j]) \/ Fits(task'[j])
  PROVE  Sized'
  BY SizedForms, MediaThere DEF Counts, Computed, SizedForm

LEMMA OthersSettle ==
  ASSUME NEW i \in Tasks, Others(i), Settles(task[i]) \/ Fits(task[i]) => Settles(task'[i]) \/ Fits(task'[i])
  PROVE  \A j \in Tasks : Settles(task[j]) \/ Fits(task[j]) => Settles(task'[j]) \/ Fits(task'[j])
BY DEF Others

LEMMA NotSized ==
  ASSUME Sized, ~track'.published, sends'.scaled = sends.scaled, sends'.encoded = sends.encoded, history'.missed = history.missed
  PROVE  Sized'
BY DEF Sized

LEMMA SizedPart ==
  ASSUME Core, Core', Step, Sized, NEW i \in Tasks, Part(i)
  PROVE  Sized'
<1>1. \A m \in 1..Len(media) : media'[m].device = media[m].device
  BY LiveBefore
<1>2. CASE Mutes(i) \/ Unmuting(i) \/ Unmuted(i)
  <2>1. /\ kind' = kind /\ track'.m = track.m /\ track'.published = track.published /\ layers' = layers
        /\ history'.resized = history.resized /\ history'.missed = history.missed /\ sends' = sends
    BY <1>2 DEF Mutes, Unmuting, HistoryKept, Unmuted, TrackButMuted, TrackStands, HistoryStands
  <2> QED
    BY <1>1, <2>1, OthersSettle, SizedStays, <1>2, MutesAt
      DEF Mutes, Unmuting, HistoryKept, Unmuted, Settles, Fits, Moves, Ends, Swaps, Restarts
<1>3. CASE Acquiring(i) \/ Processing(i)
  BY <1>3, <1>1, OthersSettle, SizedStays DEF Acquiring, Processing, Settles, Fits, Moves, HistoryStands
<1>4. CASE SettingAcquired(i) \/ SettingUsers(i) \/ SettingAgain(i)
  BY <1>4, <1>1, OthersSettle, SizedStays
    DEF SettingAcquired, SettingUsers, SettingAgain, Settles, Fits, SettingNew, Setting, Moves
<1>5. CASE Swapped(i)
  BY <1>5, SizedForms, TaskFacts, <1>1, OthersSettle, SizedStays
    DEF Swapped, Moves, Settles, SizedForm, Computed, MediaOK, Fits, HistoryStands
<1>6. CASE ChangeEnded(i)
  <2>1. /\ kind' = kind /\ track'.m = track.m /\ track'.published = track.published /\ layers' = layers
        /\ sends'.scaled = sends.scaled /\ sends'.encoded = sends.encoded /\ Others(i) /\ task[i].at = "resume" /\ task[i].m = track.m
        /\ Computed(sends', history')
    BY <1>6, SizedForms DEF ChangeEnded, Computed
  <2>2. CASE task[i].op \in {"unmute", "reacquire"}
    <3>1. history'.resized = (media[track.m].device # sends.scaled)
      BY <1>6, <2>2, <2>1 DEF ChangeEnded
    <3> SUFFICES ASSUME Counts(kind', track', layers', history') PROVE SizedForm(sends', media'[track'.m].device, task')
      BY SizedForms, <2>1
    <3>2. PICK m \in 1..Len(media) : m = track.m
      BY <2>1, MediaThere DEF Counts
    <3>3. media'[track'.m].device = sends'.scaled
      BY <1>1, <2>1, <3>1, <3>2 DEF Counts
    <3> QED BY <3>3 DEF SizedForm
  <2>3. CASE task[i].op \in {"unprocess", "processor"}
    BY <2>1, <2>3, <1>6, <1>1, OthersSettle, SizedStays DEF Settles, Fits, ChangeEnded, Restarts
  <2> QED
    BY <2>2, <2>3, SizedForms, <2>1, <1>6 DEF Counts, ChangeEnded, SizedForm, Fits, Swaps, Restarts
<1>7. CASE Initialised(i)
  BY <1>7, <1>1, OthersSettle, SizedStays DEF Initialised, Settles, Fits
<1>8. CASE Creates(i) \/ NotCreated(i) \/ CreatedNow(i)
  BY SizedForms, NoTrackFacts, NotSized, <1>8
    DEF Creates, Creating, Captured, Computed, SizedForm, NotCreated, CreatedNow, Newborn, HistoryStands
<1>9. CASE NotAcquired(i) \/ NotProcessed(i) \/ NotDestroyed(i)
  BY <1>9, <1>1, OthersSettle, SizedStays
    DEF NotAcquired, NotProcessed, NotDestroyed, Settles, Fits, Over, Ends, HistoryStands
<1> QED
  BY <1>2, <1>3, <1>4, <1>5, <1>6, <1>7, <1>8, <1>9 DEF Part

LEMMA SizedKept ==
  ASSUME Core, Core', Step, Sized, [TracksNext]_trackVars
  PROVE  Sized'
<1>1. ASSUME NEW i \in Tasks, Refreshed(i) PROVE Sized'
  <2>1. PICK d, c : d = media[track.m].device /\ c = (track.published /\ d # sends.encoded)
    OBVIOUS
  <2>2. /\ sends'.encoded = (IF c THEN d ELSE sends.encoded)
        /\ sends'.scaled = (IF c /\ layers.main # "off" THEN d ELSE sends.scaled)
        /\ history'.missed = (IF c THEN layers.main = "off" ELSE history.missed)
        /\ UNCHANGED <<kind, media, track, layers>>
    BY <1>1, <2>1, CoreRefreshed
  <2>3. Computed(sends', history')
    <3>1. ~history.missed => sends.scaled = sends.encoded
      BY SizedForms DEF Computed
    <3>2. CASE ~c
      BY <2>2, <3>1, <3>2 DEF Computed
    <3>3. CASE c
      BY <2>2, <3>3 DEF Computed
    <3> QED BY <3>2, <3>3
  <2>4. Counts(kind', track', layers', history') => sends'.scaled = d
    BY <2>1, <2>2, SizedForms DEF Counts, Computed
  <2> QED BY <2>1, <2>2, <2>3, <2>4, SizedForms DEF SizedForm
<1>3. ASSUME NEW i \in Tasks, RefreshFails(i) PROVE Sized'
  <2>1. Others(i) /\ ~Settles(task[i])
    BY <1>3, CoreRefreshFails, AssignedTask DEF Settles
  <2> QED
    BY <1>3, <2>1, CoreRefreshFails, SizedForms DEF SizedForm, Counts, Computed, Others
<1>2. CASE Whole /\ Sizes
  <2>1. kind.camera /\ track.published /\ ~layers.performance =>
          \A j \in Tasks : Settles(task[j]) \/ Fits(task[j]) => Settles(task'[j]) \/ Fits(task'[j])
    BY <1>2, WholeIsQuiet, QuietMid DEF Settles, Mid, Sizes, StillFits
  <2> QED
    BY <1>2, <2>1, SizedStays, WholeFacts, SameMediaOfTrack, WholePublishes, WholeFails, LiveBefore DEF Sizes
<1> QED
  BY <1>1, <1>2, <1>3, Sizing, SizedPart DEF Step

(* The device that was asked for comes, also if the microphone falls back. *)
Falls(k, t) == t.op = "ended" /\ ~k.camera /\ t.at \in {"change", "acquire"}
Asks(k, t)  == t.op \in Restarts /\ t.at = "acquire" /\ ~(t.op = "ended" /\ ~k.camera)
Sat(t)      == t.op \in Restarts /\ t.at \in {"process", "replaced", "resume"}
Changes(t)  == t.op \in Restarts /\ t.at \in Swapping

HasWanted(k, tk, tr, h) == tr.m # 0 /\ ~h.dropped => tr.device = h.wanted \/ \E i \in Tasks : Falls(k, tk[i])
OneFalls(k, tk, h) == \A i \in Tasks : Falls(k, tk[i]) => h.wanted = Fallback /\ \A j \in Tasks : Falls(k, tk[j]) => i = j
AsksIts(k, tk, tr) == \A i \in Tasks : Asks(k, tk[i]) => tk[i].device = tr.device
SatIts(tk, tr, md) == \A i \in Tasks : Sat(tk[i]) => tk[i].device = tr.device /\ md[tk[i].m].device = tr.device
InUse(tk, tr, h, md, a) ==
  tr.published /\ ~h.failed /\ ~h.dropped /\ ~tr.pendingDevice /\ (\A i \in Tasks : ~Changes(tk[i])) =>
    md[tr.m].device = h.wanted /\ a = h.wanted
Base(k, tk, tr, h, md) ==
  /\ HasWanted(k, tk, tr, h) /\ OneFalls(k, tk, h) /\ AsksIts(k, tk, tr) /\ SatIts(tk, tr, md)
  /\ tr.pendingDevice => tr.muted

LEMMA DevicesForm ==
  /\ DevicesFollow <=> (~history.raced /\ ~track.user =>
       Base(kind, task, track, history, media) /\ InUse(task, track, history, media, active))
  /\ DevicesFollow' <=> (~history'.raced /\ ~track'.user =>
       Base(kind', task', track', history', media') /\ InUse(task', track', history', media', active'))
<1>1. \A i \in Tasks : /\ Falling(i) <=> Falls(kind, task[i])
                       /\ Restarting(i, {"acquire"}) /\ ~FallsBack(task[i]) <=> Asks(kind, task[i])
                       /\ Restarting(i, {"process", "replaced", "resume"}) <=> Sat(task[i])
                       /\ Restarting(i, Swapping) <=> Changes(task[i])
  BY DEF Falling, FallsBack, Falls, Asks, Sat, Changes, Restarting
<1>2. \A i \in Tasks : /\ Falling(i)' <=> Falls(kind', task'[i])
                       /\ Restarting(i, {"acquire"})' /\ ~FallsBack(task[i])' <=> Asks(kind', task'[i])
                       /\ Restarting(i, {"process", "replaced", "resume"})' <=> Sat(task'[i])
                       /\ Restarting(i, Swapping)' <=> Changes(task'[i])
  BY DEF Falling, FallsBack, Falls, Asks, Sat, Changes, Restarting
<1> QED
  BY <1>1, <1>2 DEF DevicesFollow, Base, HasWanted, OneFalls, AsksIts, SatIts, InUse

\* A task that goes on without having a device of its own.
Stands(k, t, u) ==
  \/ u = t
  \/ ~Falls(k, t) /\ ~Falls(k, u) /\ ~Asks(k, u) /\ (Sat(u) => Sat(t) /\ u.m = t.m /\ u.device = t.device)

LEMMA BaseStays ==
  ASSUME Core, Base(kind, task, track, history, media), kind' = kind, track'.m # 0 => track.m # 0, track'.device = track.device,
         history'.wanted = history.wanted, history.dropped => history'.dropped,
         track'.pendingDevice => track.pendingDevice /\ (track.muted => track'.muted),
         \A m \in 1..Len(media) : media'[m].device = media[m].device,
         \A j \in Tasks : Stands(kind, task[j], task'[j])
  PROVE  Base(kind', task', track', history', media')
  BY MediaThere DEF Stands, Base, HasWanted, OneFalls, AsksIts, SatIts, Sat, Mid

LEMMA InUseStays ==
  ASSUME Core, InUse(task, track, history, media, active), track'.m = track.m, track'.published => track.published,
         history.failed => history'.failed, history.dropped => history'.dropped, track.pendingDevice => track'.pendingDevice,
         history'.wanted = history.wanted, active' = active, \A m \in 1..Len(media) : media'[m].device = media[m].device,
         \A j \in Tasks : Changes(task[j]) => Changes(task'[j])
  PROVE  InUse(task', track', history', media', active')
  BY MediaThere DEF InUse

LEMMA NotInUse ==
  ASSUME history'.failed \/ ~track'.published \/ track'.pendingDevice \/ \E i \in Tasks : Changes(task'[i])
  PROVE  InUse(task', track', history', media', active')
BY DEF InUse

LEMMA ChangesIsChanging ==
  ASSUME Core, ~Changing
  PROVE  \A i \in Tasks : ~Changes(task[i])
<1> SUFFICES ASSUME NEW i \in Tasks, Changes(task[i]) PROVE FALSE
  OBVIOUS
<1>1. In("change", task[i]) /\ "change" \in Locks
  BY DEF Changes, In, Holds, ChangeTask, Swapping, InChange, Restarts, Locks
<1> QED
  BY <1>1 DEF Core, Queues, Queue, Changing

LEMMA OthersStand ==
  ASSUME NEW i \in Tasks, Others(i), Stands(kind, task[i], task'[i])
  PROVE  \A j \in Tasks : Stands(kind, task[j], task'[j])
BY DEF Others, Stands

LEMMA BegunStands ==
  ASSUME NEW op, Begun(op), op # "ended" \/ kind.camera
  PROVE  \A j \in Tasks : Stands(kind, task[j], task'[j])
  BY OthersStand DEF Begun, Stands, Falls, Asks, Sat

LEMMA BegunChanges ==
  ASSUME NEW op \in Restarts, Begun(op)
  PROVE  \E i \in Tasks : Changes(task'[i])
BY DEF Begun, Changes, Swapping

LEMMA PlainTasksStand ==
  ASSUME PlainTasks
  PROVE  \A j \in Tasks : Stands(kind, task[j], task'[j]) /\ (Changes(task[j]) => Changes(task'[j]))
BY DEF PlainTasks, Apart, Stands, Falls, Asks, Sat, Changes, Swapping, Restarts

LEMMA SameTasksStand ==
  ASSUME task' = task
  PROVE  \A j \in Tasks : Stands(kind, task[j], task'[j]) /\ (Changes(task[j]) => Changes(task'[j]))
BY DEF Stands

LEMMA DeviceAskedFollows ==
  ASSUME Core, NEW d \in Devices, DeviceAsked(d), DevicesFollow
  PROVE  DevicesFollow'
<1> SUFFICES ASSUME ~history'.raced, ~track'.user
             PROVE  Base(kind', task', track', history', media') /\ InUse(task', track', history', media', active')
  BY DevicesForm
<1>1. ~history.raced /\ ~Changing /\ ~track.user /\ history'.wanted = d /\ track'.device = d /\ track'.m = track.m
      /\ track'.muted = track.muted
  BY DEF DeviceAsked, TrackStands
<1>2. \A i \in Tasks : ~Changes(task[i])
  BY <1>1, ChangesIsChanging
<1>3. \A i \in Tasks : ~Falls(kind', task'[i]) /\ ~Asks(kind', task'[i]) /\ ~Sat(task'[i])
  BY <1>2 DEF Begun, Falls, Asks, Sat, Others, Changes, Swapping, Restarts, DeviceAsked
<1>4. InUse(task', track', history', media', active')
  BY NotInUse, BegunChanges DEF DeviceAsked, Restarts
<1> QED
  BY <1>4, <1>1, <1>3, DevicesForm DEF Base, HasWanted, OneFalls, AsksIts, SatIts, DeviceAsked

LEMMA MicrophoneGone ==
  ASSUME Core, NEW m \in 1..Len(media), Gone(m), DevicesFollow, ~Unheard(m), ~track.user, ~kind.camera
  PROVE  DevicesFollow'
<1> SUFFICES ASSUME ~history'.raced, ~track'.user
             PROVE  Base(kind', task', track', history', media') /\ InUse(task', track', history', media', active')
  BY DevicesForm
<1>1. ~history.raced /\ ~Changing /\ history'.wanted = Fallback /\ Begun("ended") /\ TrackButStopped /\ kind' = kind
  BY DEF Gone
<1>2. PICK i \in Tasks : Others(i) /\ task'[i].op = "ended" /\ task'[i].at = "change"
  BY <1>1 DEF Begun
<1>3. Falls(kind', task'[i]) /\ ~Asks(kind', task'[i]) /\ ~Sat(task'[i]) /\ Changes(task'[i])
  BY <1>1, <1>2 DEF Falls, Asks, Sat, Changes, Swapping, Restarts
<1>4. \A j \in Tasks : j # i => ~Falls(kind', task'[j]) /\ ~Asks(kind', task'[j]) /\ ~Sat(task'[j])
  BY <1>2, <1>1, ChangesIsChanging DEF Others, Falls, Asks, Sat, Changes, Swapping, Restarts
<1> QED
  BY <1>3, NotInUse, <1>1, <1>4, DevicesForm
    DEF Base, HasWanted, OneFalls, AsksIts, SatIts, TrackButStopped, TrackStands

LEMMA DevicesWhole ==
  ASSUME Core, Step, Whole, DevicesFollow
  PROVE  DevicesFollow'
<1>1. /\ \A m \in 1..Len(media) : media'[m].device = media[m].device
      /\ kind' = kind /\ track'.m = track.m /\ track'.user = track.user /\ track'.muted = track.muted
      /\ (history.raced => history'.raced) /\ (history.failed => history'.failed) /\ (track'.published => track.published)
  BY LiveBefore, WholeFacts, WholeFails, SameMediaOfTrack, WholePublishes
<1>2. ASSUME track'.device = track.device, track'.pendingDevice = track.pendingDevice, history'.wanted = history.wanted,
             history'.dropped = history.dropped, active' = active,
             \A j \in Tasks : Stands(kind, task[j], task'[j]),
             (\A j \in Tasks : Changes(task[j]) => Changes(task'[j])) \/ (\E j \in Tasks : Changes(task'[j]))
      PROVE  DevicesFollow'
  BY DevicesForm, <1>1, <1>2, BaseStays, InUseStays, NotInUse
<1>3. CASE Paused \/ Resumed \/ Hidden
  BY <1>3, <1>2, SameTasksStand DEF Paused, Resumed, Hidden, TrackButPaused, HistoryButOutrun
<1>4. CASE Unpublished
  BY <1>4, <1>2, SameTasksStand DEF Unpublished, HistoryStands
<1>5. CASE RestartAsked \/ Shown
  BY <1>5, BegunStands, SameTasksStand, BegunChanges, <1>2 DEF RestartAsked, Shown, HistoryKept, TrackButStopped, Restarts
<1>6. ASSUME NEW d \in Devices, DeviceAsked(d) PROVE DevicesFollow'
  BY <1>6, DeviceAskedFollows
<1>7. ASSUME NEW m \in 1..Len(media), Gone(m) PROVE DevicesFollow'
  BY <1>7, <1>1, DevicesForm, BegunStands, <1>2, BegunChanges, MicrophoneGone, SameTasksStand
    DEF Gone, TrackButStopped, HistoryStands, Restarts
<1> QED
  BY <1>3, <1>4, <1>5, <1>6, <1>7, <1>2, PlainTasksStand DEF Whole, PlainStep, PlainHistory

LEMMA DevicesStay ==
  ASSUME Core, Step, DevicesFollow, NEW i \in Tasks, Others(i), Stands(kind, task[i], task'[i]),
         kind' = kind, track'.m = track.m, track'.user = track.user, track'.device = track.device,
         track'.published = track.published, track'.pendingDevice = track.pendingDevice,
         track.muted => track'.muted \/ ~track.pendingDevice,
         history.raced => history'.raced, history'.wanted = history.wanted, history.dropped => history'.dropped,
         active' = active,
         history'.failed \/ (\E j \in Tasks : Changes(task'[j])) \/ (history'.failed = history.failed /\ ~Changes(task[i]))
  PROVE  DevicesFollow'
  BY DevicesForm, LiveBefore, BaseStays, OthersStand, InUseStays, NotInUse DEF Others

\* While a change is made no other one is.
LEMMA AloneAsks ==
  ASSUME Core, NEW i \in Tasks, ChangeTask(task[i]), Others(i), NEW j \in Tasks, j # i
  PROVE  ~Sat(task'[j]) /\ ~Asks(kind, task'[j])
  BY Alone, ChangeIsExclusive DEF Mid, Sat, Core, Asks, ChangeTask, InChange, Restarts, Others

LEMMA AcquiredFollows ==
  ASSUME Core, NEW i \in Tasks, SettingAcquired(i), DevicesFollow
  PROVE  DevicesFollow'
<1> SUFFICES ASSUME ~history'.raced, ~track'.user
             PROVE  Base(kind', task', track', history', media') /\ InUse(task', track', history', media', active')
  BY DevicesForm
<1>1. PICK m : m = Len(media) + 1
  OBVIOUS
<1>2. SettingNew(i, m, "sdk") /\ task[i].op \in Restarts /\ task[i].at = "acquire" /\ ChangeTask(task[i])
      /\ track'.user = track.user
  BY <1>1 DEF SettingAcquired
<1>3. /\ Others(i) /\ task'[i].op = task[i].op /\ task'[i].at \in {"process", "replaced"} /\ task'[i].m = m
      /\ task'[i].device = (IF ~FallsBack(task[i]) THEN track.device ELSE task[i].device)
      /\ kind' = kind /\ track'.m = track.m /\ track'.muted = track.muted /\ track'.pendingDevice = track.pendingDevice
      /\ history'.raced = history.raced /\ history'.wanted = history.wanted /\ history'.dropped = history.dropped
      /\ track'.device = task[i].device /\ media'[m].device = task[i].device
  BY <1>2 DEF SettingNew, Setting, Moves
<1>4. Base(kind, task, track, history, media)
  BY <1>2, <1>3, DevicesForm
<1>5. \A j \in Tasks : j # i => ~Sat(task'[j]) /\ ~Asks(kind', task'[j])
  BY <1>2, <1>3, AloneAsks
<1>6. ~Falls(kind', task'[i]) /\ ~Asks(kind', task'[i]) /\ Changes(task'[i])
  BY <1>2, <1>3 DEF Falls, Asks, Changes, Swapping
<1>7. task'[i].device = track'.device
  BY <1>2, <1>4, <1>3 DEF Asks, FallsBack, Base, AsksIts
<1>8. SatIts(task', track', media')
  BY <1>3, <1>5, <1>7 DEF SatIts
<1>9. AsksIts(kind', task', track')
  BY <1>5, <1>6 DEF AsksIts
<1>10. CASE ~FallsBack(task[i])
  BY <1>3, <1>7, <1>10, <1>6, <1>4, <1>8, <1>9, NotInUse DEF Falls, FallsBack, Others, Base, HasWanted, OneFalls
<1> QED
  BY <1>10, <1>2, TaskFacts, <1>4, <1>3, <1>6, <1>8, <1>9, NotInUse
    DEF FallsBack, Falls, DeviceOK, Base, OneFalls, Others, HasWanted

LEMMA AgainFollows ==
  ASSUME Core, Step, NEW i \in Tasks, SettingAgain(i), DevicesFollow
  PROVE  DevicesFollow'
<1>1. /\ Others(i) /\ task'[i].op = task[i].op /\ task[i].op \in {"unprocess", "processor"} /\ ChangeTask(task[i])
      /\ kind' = kind /\ track'.m = track.m /\ track'.muted = track.muted /\ track'.pendingDevice = track.pendingDevice
      /\ track'.user = track.user /\ track'.published = track.published
      /\ history'.raced = history.raced /\ history'.wanted = history.wanted /\ history'.failed = history.failed
      /\ history'.dropped = (history.dropped \/ track'.device # track.device) /\ media' = media /\ active' = active
  BY DEF SettingAgain, Setting, Moves
<1>2. CASE track'.device # track.device
  <2> SUFFICES ASSUME ~history'.raced, ~track'.user
               PROVE  Base(kind', task', track', history', media') /\ InUse(task', track', history', media', active')
    BY DevicesForm
  <2>1. ~Falls(kind, task[i]) /\ ~Falls(kind, task'[i]) /\ ~Asks(kind', task'[i]) /\ ~Sat(task'[i])
    BY <1>1 DEF Falls, Asks, Sat, Restarts
  <2>2. \A j \in Tasks : Falls(kind', task'[j]) <=> Falls(kind, task[j])
    BY <1>1, <2>1 DEF Others
  <2>3. Base(kind', task', track', history', media')
    BY <1>1, <1>2, <2>2, DevicesForm, <2>1, AloneAsks DEF Base, HasWanted, OneFalls, AsksIts, SatIts
  <2> QED BY <1>1, <1>2, <2>3 DEF InUse
<1> QED
  BY <1>2, <1>1, DevicesStay DEF Stands, Falls, Asks, Sat, Changes, Restarts

LEMMA NotAcquiredFollows ==
  ASSUME Core, Step, NEW i \in Tasks, NotAcquired(i), DevicesFollow
  PROVE  DevicesFollow'
<1>1. /\ Others(i) /\ task'[i].op \in {"idle", "mute"} /\ task[i].op \in Restarts /\ task[i].at = "acquire" /\ ChangeTask(task[i])
      /\ kind' = kind /\ track' = track /\ history'.raced = history.raced /\ history'.failed /\ active' = active
      /\ history'.dropped = history.dropped
      /\ history'.wanted = (IF FallsBack(task[i]) THEN track.device ELSE history.wanted)
  BY DEF NotAcquired, Over, HistoryStands
<1>2. CASE FallsBack(task[i])
  <2> SUFFICES ASSUME ~history'.raced, ~track'.user
               PROVE  Base(kind', task', track', history', media') /\ InUse(task', track', history', media', active')
    BY DevicesForm
  <2>1. Base(kind, task, track, history, media)
    BY <1>1, DevicesForm
  <2>2. Falls(kind, task[i]) /\ ~Falls(kind', task'[i]) /\ ~Asks(kind', task'[i]) /\ ~Sat(task'[i])
    BY <1>1, <1>2 DEF Falls, FallsBack, Asks, Sat, Restarts
  <2>3. Base(kind', task', track', history', media')
    BY <1>1, <1>2, <2>1, <2>2, AloneAsks DEF Base, HasWanted, OneFalls, AsksIts, SatIts, Others
  <2> QED BY <1>1, <2>3, NotInUse
<1> QED
  BY <1>2, <1>1, DevicesStay DEF Stands, Falls, FallsBack, Asks, Sat, Restarts

LEMMA EndedFollows ==
  ASSUME Core, Step, NEW i \in Tasks, ChangeEnded(i), task[i].op \in Restarts, DevicesFollow
  PROVE  DevicesFollow'
<1> SUFFICES ASSUME ~history'.raced, ~track'.user
             PROVE  Base(kind', task', track', history', media') /\ InUse(task', track', history', media', active')
  BY DevicesForm
<1>1. \A m \in 1..Len(media) : media'[m].device = media[m].device
  BY LiveBefore
<1>2. /\ Others(i) /\ task[i].at = "resume" /\ ChangeTask(task[i]) /\ task[i].m = track.m /\ track.m # 0
      /\ kind' = kind /\ track'.m = track.m /\ track'.user = track.user /\ track'.published = track.published
      /\ track'.device = task[i].device /\ ~track'.pendingDevice
      /\ history'.raced = history.raced /\ history'.wanted = history.wanted /\ history'.dropped = history.dropped
      /\ active' = (IF track.published THEN media[task[i].m].device ELSE active)
  BY DEF ChangeEnded
<1>3. Base(kind, task, track, history, media)
  BY <1>2, DevicesForm
<1>4. task[i].device = track.device /\ media[task[i].m].device = track.device
  BY <1>2, <1>3 DEF Base, SatIts, Sat
<1>5. Stands(kind, task[i], task'[i])
  BY <1>2 DEF Stands, Falls, Asks, Sat, ChangeEnded, Idle
<1>6. Base(kind', task', track', history', media')
  BY <1>1, <1>2, <1>3, <1>4, BaseStays, <1>5, OthersStand
<1> QED
  BY <1>6, <1>2, <1>4, MediaThere, <1>1 DEF InUse, Falls, Changes, Restarts, Swapping, Base, HasWanted

LEMMA CreationFollows ==
  ASSUME NEW i \in Tasks, Creates(i) \/ NotCreated(i) \/ CreatedNow(i)
  PROVE  DevicesFollow'
<1>1. Creating(i)
  BY DEF Creates, NotCreated, CreatedNow
<1>2. \A j \in Tasks : ~Changes(task'[j]) /\ ~Falls(kind', task'[j]) /\ ~Asks(kind', task'[j]) /\ ~Sat(task'[j])
  BY <1>1 DEF Creating, Others, Changes, Falls, Asks, Sat, Restarts
<1>3. ~track'.pendingDevice /\ active' = Fallback /\ history'.wanted = Fallback
  BY <1>1 DEF Creating
<1>4. InUse(task', track', history', media', active')
  BY <1>3, NoTrackFacts DEF InUse, Creates, Captured, NotCreated, CreatedNow, Newborn
<1> QED
  BY <1>4, DevicesForm, <1>2, <1>3, NoTrackFacts
    DEF Base, HasWanted, OneFalls, AsksIts, SatIts, Creates, NotCreated, CreatedNow

LEMMA SwappedFollows ==
  ASSUME Core, Step, NEW i \in Tasks, Swapped(i), DevicesFollow
  PROVE  DevicesFollow'
<1> SUFFICES ASSUME ~history'.raced, ~track'.user
             PROVE  Base(kind', task', track', history', media') /\ InUse(task', track', history', media', active')
  BY DevicesForm
<1>1. \A m \in 1..Len(media) : media'[m].device = media[m].device
  BY LiveBefore
<1>2. /\ Others(i) /\ task'[i].op = task[i].op /\ task'[i].at = "resume" /\ task[i].at = "replaced"
      /\ task'[i].m = task[i].m /\ task'[i].device = task[i].device /\ kind' = kind /\ track'.m = task[i].m
      /\ track'.muted = track.muted /\ track'.user = track.user /\ track'.published = track.published
      /\ track'.device = track.device /\ track'.pendingDevice = track.pendingDevice
      /\ history'.raced = history.raced /\ history'.wanted = history.wanted /\ history'.failed = history.failed
      /\ history'.dropped = history.dropped /\ active' = active
  BY DEF Swapped, Moves, HistoryStands
<1>3. Base(kind, task, track, history, media) /\ InUse(task, track, history, media, active)
  BY <1>2, DevicesForm
<1>4. Base(kind', task', track', history', media')
  BY <1>1, <1>2, <1>3, BaseStays, TaskFacts, OthersStand DEF Swapped, Restarts, Stands, Falls, Asks, Sat
<1>5. CASE task[i].op = "replace"
  BY <1>2, <1>5, TaskFacts DEF MediaOK
<1>6. CASE task[i].op \in {"unprocess", "processor"}
  BY <1>2, <1>6, TaskFacts, <1>1, <1>3, <1>4, InUseStays DEF MediaOK, Others, Changes, Restarts
<1> QED
  BY <1>5, <1>6, <1>2, <1>4, NotInUse DEF Swapped, Changes, Swapping

LEMMA DevicesKept ==
  ASSUME Core, Core', Step, DevicesFollow
  PROVE  DevicesFollow'
<1>1. ASSUME NEW i \in Tasks, Part(i) PROVE DevicesFollow'
  <2>1. CASE Mutes(i)
    <3>1. Stands(kind, task[i], task'[i]) /\ ~Changes(task[i])
      BY <2>1 DEF Mutes, Ends, Stands, Falls, Asks, Sat, Changes, Restarts, Idle
    <3> QED BY <2>1, <3>1, DevicesStay DEF Mutes, Ends, TrackButMuted, HistoryStands
  <2>2. CASE Unmuting(i)
    <3>1. task[i].op = "unmute" /\ task'[i].op = "unmute" /\ task'[i].at = "change" /\ Others(i)
      BY <2>2 DEF Unmuting, HistoryKept, Moves
    <3> QED
      BY <2>2, <3>1, DevicesStay
        DEF Unmuting, HistoryKept, TrackStands, Stands, Falls, Asks, Sat, Changes, Restarts, Swapping
  <2>3. CASE Unmuted(i)
    <3>1. /\ task[i].op = "unmute" /\ task[i].at = "mute" /\ task'[i] = Idle /\ Others(i) /\ TrackButMuted
          /\ ~Reacquires /\ history' = history /\ active' = active /\ kind' = kind
      BY <2>3 DEF Unmuted, Ends
    <3>2. Stands(kind, task[i], task'[i]) /\ ~Changes(task[i])
      BY <3>1 DEF Stands, Falls, Asks, Sat, Changes, Restarts, Swapping, Idle
    <3> QED
      BY <3>1, DevicesForm, <3>2, DevicesStay DEF TrackButMuted, Reacquires
  <2>4. CASE Acquiring(i)
    <3>1. /\ task[i].op \in Restarts /\ task[i].at = "change" /\ Others(i) /\ task'[i].op = task[i].op /\ task'[i].at = "acquire"
          /\ task'[i].device = (IF FallsBack(task[i]) THEN Fallback ELSE track.device)
          /\ track' = track /\ kind' = kind /\ active' = active
          /\ history'.raced = history.raced /\ history'.wanted = history.wanted /\ history'.dropped = history.dropped
      BY <2>4 DEF Acquiring, Moves, HistoryStands
    <3> SUFFICES ASSUME ~history'.raced, ~track'.user
                 PROVE  Base(kind', task', track', history', media') /\ InUse(task', track', history', media', active')
      BY DevicesForm
    <3>2. Base(kind, task, track, history, media)
      BY <3>1, DevicesForm
    <3>3. (Falls(kind', task'[i]) <=> Falls(kind, task[i])) /\ ~Sat(task'[i]) /\ Changes(task'[i])
      BY <3>1 DEF Falls, Sat, Changes, Swapping
    <3>4. AsksIts(kind', task', track')
      BY <3>1, <3>2 DEF Base, AsksIts, Others, Asks, FallsBack
    <3>5. SatIts(task', track', media')
      BY <3>1, <3>3, <2>4, Alone DEF SatIts, Others, Acquiring, Sat, Mid
    <3>6. Base(kind', task', track', history', media')
      BY <3>1, <3>2, <3>4, <3>5, <3>3 DEF Base, HasWanted, OneFalls, Others
    <3> QED BY <3>3, <3>6, NotInUse
  <2>5. CASE SettingAcquired(i) \/ SettingAgain(i) \/ NotAcquired(i)
    BY <2>5, AcquiredFollows, AgainFollows, NotAcquiredFollows
  <2>6. CASE SettingUsers(i)
    BY <2>6, DevicesForm DEF SettingUsers
  <2>7. CASE NotProcessed(i)
    BY <2>7, DevicesStay DEF NotProcessed, Over, Stands, Falls, Asks, Sat, Restarts, HistoryStands
  <2>8. CASE Processing(i)
    BY <2>8, DevicesStay DEF Processing, Moves, Stands, Falls, Asks, Sat, Changes, Swapping
  <2>9. CASE Swapped(i)
    BY <2>9, SwappedFollows
  <2>10. CASE ChangeEnded(i)
    <3>1. CASE task[i].op \in {"unprocess", "processor"}
      <4>1. Stands(kind, task[i], task'[i]) /\ ~Changes(task[i])
        BY <3>1, <2>10 DEF Stands, Falls, Asks, Sat, Changes, Restarts, Idle, ChangeEnded
      <4> QED
        BY <4>1, DevicesStay, <2>10, <3>1, HistoryTyped DEF ChangeEnded, Restarts, TrackRecs, Histories
    <3> QED
      BY <2>10, <3>1, EndedFollows, TaskFacts, DevicesForm DEF ChangeEnded, MediaOK
  <2>11. CASE Initialised(i)
    BY <2>11, DevicesStay DEF Initialised, Stands, Falls, Asks, Sat, Changes, Restarts, Idle
  <2>12. CASE NotDestroyed(i)
    BY <2>12, DevicesStay DEF NotDestroyed, Ends, Stands, Falls, Asks, Sat, Restarts, Idle, HistoryStands
  <2>13. CASE Creates(i) \/ NotCreated(i) \/ CreatedNow(i)
    BY <2>13, CreationFollows
  <2> QED BY <1>1, <2>1, <2>2, <2>3, <2>4, <2>5, <2>6, <2>7, <2>8, <2>9, <2>10, <2>11, <2>12, <2>13 DEF Part
<1> QED
  BY <1>1, DevicesWhole DEF Step

(* What the layers that are sent rest on: the tasks that set them wait for senderLock in order. *)
Setters == {"quality", "refresh"}
Coders  == {"codec"}
\* The last task of the queue among those that do ops sets the codecs A; and none is one of them.
Lasts(q, tk, ops, A) ==
  \A j \in 1..Len(q) : tk[q[j]].op \in ops /\ (\A k \in 1..Len(q) : k > j => tk[q[k]].op \notin ops) => tk[q[j]].codecs = A
NoneOf(q, tk, ops) == \A j \in 1..Len(q) : tk[q[j]].op \notin ops

NoCodec(tk) == \A i \in Tasks : tk[i].at # "codec"
MainIs(ls, A) == ls.main = IF "main" \in A THEN "all" ELSE "off"
BackupForm(q, tk, ls, A) ==
  /\ Lasts(q, tk, Coders, A)
  /\ NoneOf(q, tk, Coders) => (ls.backup <=> "backup" \in A)
LayersForm(q, tk, ls, A, b, tm) ==
  /\ NoCodec(tk)
  /\ Lasts(q, tk, Setters, A)
  /\ NoneOf(q, tk, Setters) => MainIs(ls, A)
  /\ b.sender /\ ~tm.refresh /\ NoneOf(q, tk, Setters) => BackupForm(q, tk, ls, A)
LayersFollow == track.published /\ ~layers.performance => LayersForm(lock["sender"], task, layers, asked, backup, timers)

LEMMA SenderQueue ==
  ASSUME Core
  PROVE  /\ lock["sender"] \in Seq(Tasks) /\ Queue(lock["sender"], task, "sender")
         /\ task \in [Tasks -> Calls]
BY DEF Core, Queues, Queue, Locks, TypeInv, TTask

(* The queue when nobody comes or goes. *)
LEMMA SameLasts ==
  ASSUME NEW q \in Seq(Tasks), NEW tk, NEW tk2, NEW ops, NEW A,
         \A j \in 1..Len(q) : tk2[q[j]].op = tk[q[j]].op /\ (tk[q[j]].op \in ops => tk2[q[j]].codecs = tk[q[j]].codecs)
  PROVE  /\ NoneOf(q, tk2, ops) => NoneOf(q, tk, ops)
         /\ Lasts(q, tk, ops, A) => Lasts(q, tk2, ops, A)
BY DEF NoneOf, Lasts

(* Somebody comes. *)
LEMMA AppendLasts ==
  ASSUME NEW q \in Seq(Tasks), NEW tk, NEW tk2, NEW ops, NEW A, NEW i \in Tasks,
         \A j \in 1..Len(q) : tk2[q[j]] = tk[q[j]]
  PROVE  /\ NoneOf(Append(q, i), tk2, ops) => NoneOf(q, tk, ops) /\ tk2[i].op \notin ops
         /\ tk2[i].op \notin ops /\ Lasts(q, tk, ops, A) => Lasts(Append(q, i), tk2, ops, A)
         /\ tk2[i].op \in ops /\ tk2[i].codecs = A => Lasts(Append(q, i), tk2, ops, A)
<1> DEFINE s == Append(q, i)
<1>1. /\ Len(q) \in Nat /\ Len(s) = Len(q) + 1 /\ s[Len(q) + 1] = i
      /\ \A j \in 1..Len(q) : s[j] = q[j]
  BY AppendProperties
<1> HIDE DEF s
<1>2. Len(q) + 1 \in 1..Len(s) /\ \A j \in 1..Len(q) : j \in 1..Len(s) /\ Len(q) + 1 > j
  BY <1>1
<1>3. \A j \in 1..Len(s) : j = Len(q) + 1 \/ j \in 1..Len(q)
  BY <1>1
<1>4. ASSUME tk2[i].op \in ops, tk2[i].codecs = A PROVE Lasts(s, tk2, ops, A)
  BY <1>1, <1>2, <1>3, <1>4 DEF Lasts
<1> QED
  BY <1>4, <1>1, <1>2, <1>3 DEF s, NoneOf, Lasts

(* The first leaves. *)
LEMMA TailLasts ==
  ASSUME NEW q \in Seq(Tasks), q # <<>>, NEW tk, NEW tk2, NEW ops, NEW A,
         \A j \in 1..Len(Tail(q)) : tk2[Tail(q)[j]] = tk[Tail(q)[j]]
  PROVE  /\ Tail(q) \in Seq(Tasks)
         /\ Lasts(q, tk, ops, A) => Lasts(Tail(q), tk2, ops, A)
         /\ NoneOf(Tail(q), tk2, ops) => NoneOf(q, tk, ops) \/ tk[Head(q)].op \in ops
         /\ NoneOf(Tail(q), tk2, ops) /\ tk[Head(q)].op \in ops /\ Lasts(q, tk, ops, A) => tk[Head(q)].codecs = A
<1> DEFINE r == Tail(q)
<1>1. /\ Len(q) \in Nat /\ Len(q) >= 1 /\ r \in Seq(Tasks) /\ Len(r) = Len(q) - 1 /\ Head(q) = q[1]
      /\ \A j \in 1..Len(r) : r[j] = q[j + 1]
  BY HeadTailProperties, EmptySeq
<1> HIDE DEF r
<1>2. \A j \in 1..Len(r) : j + 1 \in 1..Len(q) /\ tk2[r[j]] = tk[q[j + 1]]
  BY <1>1 DEF r
<1>3. \A j \in 1..Len(q) : j = 1 \/ (j - 1 \in 1..Len(r) /\ tk2[r[j - 1]] = tk[q[j]])
  BY <1>1, <1>2
<1>4. ASSUME Lasts(q, tk, ops, A) PROVE Lasts(r, tk2, ops, A)
  <2> SUFFICES ASSUME NEW j \in 1..Len(r), tk2[r[j]].op \in ops, \A k \in 1..Len(r) : k > j => tk2[r[k]].op \notin ops
               PROVE  tk2[r[j]].codecs = A
    BY DEF Lasts
  <2>1. ASSUME NEW k \in 1..Len(q), k > j + 1 PROVE tk[q[k]].op \notin ops
    <3>1. k # 1 /\ k - 1 > j
      BY <1>1, <2>1
    <3> QED BY <1>3, <3>1
  <2> QED
    BY <1>4, <2>1, <1>2 DEF Lasts
<1>5. ASSUME NoneOf(r, tk2, ops) PROVE \A j \in 1..Len(q) : j = 1 \/ tk[q[j]].op \notin ops
  BY <1>3, <1>5 DEF NoneOf
<1> QED
  BY <1>1, <1>4, <1>5 DEF r, NoneOf, Lasts

(* Steps that set no layers, and after which the same tasks wait to set them. *)
Layering == Setters \union Coders
Calmly(tk, i, t, q, q2) ==
  /\ t.at # "codec"
  /\ \/ q2 = q /\ t.at # "sender" /\ (~In("sender", tk[i]) \/ (t.op = tk[i].op /\ t.op \notin Layering))
     \/ q2 = Append(q, i) /\ ~In("sender", tk[i]) /\ t.op \notin Layering
     \/ q2 = Tail(q) /\ q # <<>> /\ Head(q) = i /\ tk[i].op \notin Layering
CalmTasks ==
  \/ task' = task /\ lock' = lock
  \/ \E i \in Tasks : \E t : task' = [task EXCEPT ![i] = t] /\ Calmly(task, i, t, lock["sender"], lock'["sender"])
CalmLayers ==
  /\ track'.published => track.published
  /\ layers'.main = layers.main /\ (layers.performance => layers'.performance) /\ asked' = asked
  /\ timers'.refresh \/ (timers'.refresh = timers.refresh /\ layers'.backup = layers.backup /\ (backup'.sender => backup.sender))

LEMMA NotInQueue ==
  ASSUME Core, NEW i \in Tasks, ~In("sender", task[i])
  PROVE  \A j \in 1..Len(lock["sender"]) : lock["sender"][j] # i
BY SenderQueue DEF Queue

LEMMA TailWithout ==
  ASSUME Core, NEW i \in Tasks, lock["sender"] # <<>>, Head(lock["sender"]) = i
  PROVE  \A j \in 1..Len(Tail(lock["sender"])) : Tail(lock["sender"])[j] # i /\ Tail(lock["sender"])[j] \in Tasks
<1> DEFINE q == lock["sender"]
<1>1. q \in Seq(Tasks) /\ Queue(q, task, "sender")
  BY SenderQueue
<1>2. q # <<>> /\ Head(q) = i
  OBVIOUS
<1> HIDE DEF q
<1>3. ASSUME NEW j \in 1..Len(Tail(q)) PROVE Tail(q)[j] # i /\ Tail(q)[j] \in Tasks
  BY <1>1, <1>2, HeadTailProperties, EmptySeq DEF Queue
<1> QED BY <1>3 DEF q

LEMMA CalmQueue ==
  ASSUME Core, NEW ops, ops \subseteq Layering, CalmTasks
  PROVE  /\ NoneOf(lock'["sender"], task', ops) => NoneOf(lock["sender"], task, ops)
         /\ Lasts(lock["sender"], task, ops, asked) => Lasts(lock'["sender"], task', ops, asked)
<1>1. lock["sender"] \in Seq(Tasks) /\ \A j \in 1..Len(lock["sender"]) : lock["sender"][j] \in Tasks
  BY SenderQueue
<1>2. ASSUME NEW i \in Tasks, NEW t, task' = [task EXCEPT ![i] = t], Calmly(task, i, t, lock["sender"], lock'["sender"])
      PROVE  /\ NoneOf(lock'["sender"], task', ops) => NoneOf(lock["sender"], task, ops)
             /\ Lasts(lock["sender"], task, ops, asked) => Lasts(lock'["sender"], task', ops, asked)
  <2>1. task'[i] = t /\ \A k \in Tasks : k # i => task'[k] = task[k]
    BY <1>2, SenderQueue
  <2>2. CASE lock'["sender"] = lock["sender"] /\ (~In("sender", task[i]) \/ (t.op = task[i].op /\ t.op \notin Layering))
    BY <2>1, <2>2, NotInQueue, <1>1, SameLasts
  <2>3. CASE lock'["sender"] = Append(lock["sender"], i) /\ ~In("sender", task[i]) /\ t.op \notin Layering
    <3>1. \A j \in 1..Len(lock["sender"]) : task'[lock["sender"][j]] = task[lock["sender"][j]]
      BY <1>1, <2>1, <2>3, NotInQueue
    <3>2. task'[i].op \notin ops
      BY <2>1, <2>3
    <3>3. /\ NoneOf(Append(lock["sender"], i), task', ops) => NoneOf(lock["sender"], task, ops)
          /\ Lasts(lock["sender"], task, ops, asked) => Lasts(Append(lock["sender"], i), task', ops, asked)
      BY <1>1, <3>1, <3>2, AppendLasts
    <3> QED BY <2>3, <3>3
  <2>4. CASE lock'["sender"] = Tail(lock["sender"]) /\ lock["sender"] # <<>> /\ Head(lock["sender"]) = i /\ task[i].op \notin Layering
    <3>1. \A j \in 1..Len(Tail(lock["sender"])) : task'[Tail(lock["sender"])[j]] = task[Tail(lock["sender"])[j]]
      BY <2>1, <2>4, TailWithout
    <3>2. task[Head(lock["sender"])].op \notin ops
      BY <2>4
    <3>3. /\ NoneOf(Tail(lock["sender"]), task', ops) => NoneOf(lock["sender"], task, ops)
          /\ Lasts(lock["sender"], task, ops, asked) => Lasts(Tail(lock["sender"]), task', ops, asked)
      BY <1>1, <2>4, <3>1, <3>2, TailLasts
    <3> QED BY <2>4, <3>3
  <2> QED BY <1>2, <2>2, <2>3, <2>4 DEF Calmly
<1> QED
  BY <1>2 DEF CalmTasks

LEMMA CalmNoCodec ==
  ASSUME Core, NoCodec(task), CalmTasks
  PROVE  NoCodec(task')
  BY SenderQueue DEF NoCodec, CalmTasks, Calmly

LEMMA CalmKeeps ==
  ASSUME Core, LayersFollow, CalmTasks, CalmLayers
  PROVE  LayersFollow'
  BY CalmQueue, CalmNoCodec DEF LayersFollow, CalmLayers, Layering, LayersForm, MainIs, BackupForm

\* How an operation begins, goes on or moves, seen from senderLock.
LEMMA GoesOnSender ==
  ASSUME Core, NEW i \in Tasks, NEW frees, NEW t, GoesOn(i, frees, t)
  PROVE  /\ task' = [task EXCEPT ![i] = t]
         /\ lock'["sender"] = LET rest == IF "sender" \in frees THEN Tail(lock["sender"]) ELSE lock["sender"]
                              IN  IF t.at = "sender" THEN Append(rest, i) ELSE rest
  BY DEF Core, Queues, Locks, GoesOn

LEMMA CalmGoesOn ==
  ASSUME Core, NEW i \in Tasks, NEW frees, NEW t, GoesOn(i, frees, t), "sender" \notin frees, ~In("sender", task[i]),
         t.at # "codec", t.at = "sender" => t.op \notin Layering
  PROVE  CalmTasks
  BY GoesOnSender DEF Calmly, CalmTasks

LEMMA BeginsAt ==
  ASSUME Core, NEW t, Begins(t)
  PROVE  \E i \in Tasks : /\ task[i].op = "idle" /\ ~In("sender", task[i]) /\ task' = [task EXCEPT ![i] = t]
                          /\ lock'["sender"] = IF t.at = "sender" THEN Append(lock["sender"], i) ELSE lock["sender"]
<1> DEFINE i == CHOOSE k \in Spare : TRUE
<1>1. Spare # {} /\ task' = [task EXCEPT ![i] = t]
      /\ lock' = [l \in DOMAIN lock |-> IF l = t.at THEN Append(lock[l], i) ELSE lock[l]]
  BY DEF Begins
<1>2. i \in Spare
  BY <1>1
<1> HIDE DEF i
<1>3. lock'["sender"] = IF t.at = "sender" THEN Append(lock["sender"], i) ELSE lock["sender"]
  BY <1>1 DEF Core, Queues, Locks
<1> QED
  BY <1>1, <1>3, <1>2 DEF Core, LegalTasks, Legal, In, Holds, Spare

LEMMA CalmBegins ==
  ASSUME Core, NEW t, Begins(t), t.at # "codec", t.at = "sender" => t.op \notin Layering
  PROVE  CalmTasks
  BY BeginsAt DEF Calmly, CalmTasks

LEMMA CalmMoves ==
  ASSUME Core, NEW i \in Tasks, NEW t, task' = [task EXCEPT ![i] = t], lock' = lock, t.at \notin {"codec", "sender"},
         ~In("sender", task[i]) \/ (t.op = task[i].op /\ t.op \notin Layering)
  PROVE  CalmTasks
BY DEF CalmTasks, Calmly

LEMMA CalmSame == ASSUME UNCHANGED tasks PROVE CalmTasks
BY DEF CalmTasks, tasks

(* Which steps are calm: those of the application and of the browser. *)
LEMMA CallAt == ASSUME NEW op, NEW at PROVE Call(op, at).op = op /\ Call(op, at).at = at
BY DEF Call, Idle

LEMMA TrackAlone ==
  ASSUME Core, UNCHANGED <<track, backup, layers, asked, timers>>
  PROVE  CalmLayers
BY DEF CalmLayers

LEMMA NotSender ==
  ASSUME NEW i \in Tasks, task[i].at \notin {"sender", "dimensions"}
  PROVE  ~In("sender", task[i])
BY DEF In, Holds

LEMMA BegunCalmly ==
  ASSUME Core, Mute \/ Unmute \/ SetProcessor \/ StopProcessor \/ PrioritizePerformance \/ \E d \in Devices : ReplaceTrack(d)
  PROVE  CalmTasks /\ CalmLayers
<1>1. ASSUME NEW d \in Devices, ReplaceTrack(d) PROVE CalmTasks /\ CalmLayers
  BY <1>1, TrackAlone, CalmBegins DEF ReplaceTrack, sending, Call, Idle
<1> QED
  BY <1>1, CallAt, TrackAlone, CalmBegins
    DEF Mute, Unmute, SetProcessor, StopProcessor, PrioritizePerformance, sending, Layering, Setters, Coders

\* Steps that ask for a restart.
LEMMA AskedCalmly ==
  ASSUME Core, RestartTrack \/ Show \/ (\E d \in Devices : SetDeviceId(d)) \/ (\E m \in DOMAIN media : MediaEnds(m))
  PROVE  CalmTasks /\ CalmLayers
<1>1. PICK a, b, c, e, u : a = Call("device", "change") /\ b = Call("restart", "change") /\ c = Call("reacquire", "change")
                        /\ e = Call("mute", "mute")
                        /\ u = [Call("ended", "change") EXCEPT !.device = IF kind.camera THEN Unset ELSE Fallback]
  OBVIOUS
<1>2. a.at = "change" /\ b.at = "change" /\ c.at = "change" /\ e.at = "mute" /\ u.at = "change"
  BY <1>1 DEF Call, Idle
<1>3. \A t : Begins(t) /\ t.at \in {"change", "mute"} => CalmTasks
  BY CalmBegins
<1>4. CASE Show
  BY <1>1, <1>4, CoreShow, <1>2, <1>3, CalmSame DEF Show, TrackStands, CalmLayers
<1>5. ASSUME NEW d \in Devices, SetDeviceId(d) PROVE CalmTasks /\ CalmLayers
  BY <1>1, <1>5, CoreSetDeviceId, <1>2, <1>3, CalmSame DEF SetDeviceId, TrackStands, CalmLayers
<1>6. ASSUME NEW m \in DOMAIN media, MediaEnds(m) PROVE CalmTasks /\ CalmLayers
  <2>1. track'.published = track.published /\ UNCHANGED <<backup, layers, asked, timers>>
    BY <1>6, CoreMediaEnds DEF TrackStands
  <2> QED
    BY <1>2, <1>3, <2>1, CalmSame, <1>1, <1>6 DEF CalmLayers, MediaEnds
<1> QED
  BY <1>4, <1>5, <1>6, <1>1, CoreRestartTrack, <1>2, <1>3 DEF RestartTrack, TrackStands, CalmLayers

LEMMA PausedCalmly ==
  ASSUME Core, \/ PauseUpstream \/ ResumeUpstream \/ MuteTimer \/ DeviceMutes \/ Hide \/ Unpublish
               \/ \E m \in DOMAIN media : DeviceUnmutes(m)
  PROVE  CalmTasks /\ CalmLayers
<1>1. timers'.refresh = timers.refresh
  BY TimersFacts DEF PauseUpstream, ResumeUpstream, MuteTimer, DeviceMutes, Hide, Unpublish, DeviceUnmutes
<1>2. backup'.sender => backup.sender
  <2>1. CASE Unpublish
    BY <2>1 DEF Unpublish, NoBackup
  <2>2. CASE ~Unpublish
    BY <2>2 DEF PauseUpstream, ResumeUpstream, MuteTimer, DeviceMutes, Hide, DeviceUnmutes
  <2> QED BY <2>1, <2>2
<1>3. track'.published => track.published
  BY HistoryTyped, CoreUnpublish
    DEF PauseUpstream, MuteTimer, Pauses, TrackRecs, ResumeUpstream, DeviceUnmutes, Resumes, DeviceMutes,
        Hide
<1> QED
  BY <1>1, <1>2, <1>3, CalmSame
    DEF CalmLayers, PauseUpstream, ResumeUpstream, MuteTimer, DeviceMutes, Hide, Unpublish, DeviceUnmutes,
        sending

(* Which steps are calm: those of the tasks. *)
LEMMA CalmReaches ==
  ASSUME Core, NEW i \in Tasks, NEW at, Reaches(i, at), at \notin {"codec", "sender"},
         task[i].at \notin {"sender", "dimensions"}
  PROVE  CalmTasks
  BY SenderQueue, NotSender, CalmMoves DEF Calls, Reaches

LEMMA CalmRefreshes ==
  ASSUME Core, NEW i \in Tasks, NEW frees, Refreshes(i, frees), "sender" \notin frees, task[i].op \in Swaps,
         task[i].at \notin {"sender", "dimensions"}
  PROVE  CalmTasks
<1>1. PICK t : t = IF (kind.camera /\ track.published) /\ ~layers.performance THEN [task[i] EXCEPT !.at = "sender", !.m = 0] ELSE Idle
  OBVIOUS
<1>2. t.at \in {"none", "sender"} /\ (t.at = "sender" => t.op = task[i].op)
  BY TaskFacts, <1>1 DEF Idle, Calls
<1>3. task[i].op \notin Layering
  BY DEF Swaps, Layering, Setters, Coders
<1> QED
  BY <1>2, <1>3, NotSender, CalmGoesOn, <1>1 DEF Refreshes

LEMMA CalmEnds ==
  ASSUME Core, NEW i \in Tasks, NEW frees, GoesOn(i, frees, Idle), "sender" \notin frees, task[i].at \notin {"sender", "dimensions"}
  PROVE  CalmTasks
  BY NotSender, CalmGoesOn DEF Idle

LEMMA CalmFails ==
  ASSUME Core, NEW i \in Tasks, ChangeFails(i), task[i].at \notin {"sender", "dimensions"}
  PROVE  CalmTasks
<1>1. PICK t : t = IF task[i].op = "ended" THEN Call("mute", "mute") ELSE Idle
  OBVIOUS
<1>2. PICK f : f = IF task[i].op = "unmute" THEN {"mute", "change"} ELSE {"change"}
  OBVIOUS
<1>3. "sender" \notin f /\ GoesOn(i, f, t)
  BY <1>1, <1>2 DEF ChangeFails
<1> QED
  BY <1>3, NotSender, CalmGoesOn, <1>1 DEF Idle, Call

LEMMA SetsCalmly ==
  ASSUME Core, NEW i \in Tasks, Acquired(i) \/ ReplaceEnters(i) \/ Destroyed(i)
  PROVE  CalmTasks /\ CalmLayers
<1>1. PICK m, md, tr : SetsFacts(i, m, md, tr) /\ tr.published = track.published
  <2>1. CASE ReplaceEnters(i)
    <3>1. PICK tr : /\ tr = [track EXCEPT !.user = TRUE, !.device = task[i].device]
                    /\ SetsFacts(i, Len(media) + 1, Append(media, NewMedia(task[i].device, "user")), tr)
      BY <2>1, CoreReplaceEnters
    <3>2. tr.published = track.published
      BY <3>1, HistoryTyped DEF TrackRecs
    <3> QED BY <3>1, <3>2
  <2>2. CASE Destroyed(i)
    <3>1. PICK tr, d : tr = [track EXCEPT !.processor = FALSE, !.device = d] /\ SetsFacts(i, track.m, media, tr)
      BY <2>2, CoreDestroyed
    <3>2. tr.published = track.published
      BY <3>1, HistoryTyped DEF TrackRecs
    <3> QED BY <3>1, <3>2
  <2> QED
    BY <2>1, <2>2, CoreAcquired, HistoryTyped DEF TrackRecs
<1>2. PICK t \in Calls : task' = [task EXCEPT ![i] = t] /\ t.at \in {"process", "replaced"}
  BY <1>1 DEF SetsFacts
<1>3. track' = tr /\ UNCHANGED <<backup, layers, asked, lock>> /\ timers'.refresh = timers.refresh
  BY <1>1 DEF SetsFacts
<1> QED
  BY <1>2, <1>3, NotSender, CalmMoves, <1>1 DEF Acquired, ReplaceEnters, Destroyed, Enters, CalmLayers

LEMMA MutesCalmly ==
  ASSUME Core, NEW i \in Tasks, MuteEnters(i) \/ UnmuteEnters(i)
  PROVE  CalmTasks /\ CalmLayers
  BY HistoryTyped, NotSender, CalmEnds, CalmGoesOn, TaskFacts
    DEF MuteEnters, UnmuteEnters, Revives, sending, Enters, SetTrackMuted, TrackRecs, Calls, CalmLayers

LEMMA ChangesCalmly ==
  ASSUME Core, NEW i \in Tasks,
         \/ RestartEnters(i) \/ AcquireFails(i) \/ Reprocessed(i) \/ ProcessFails(i) \/ Replaced(i)
         \/ ProcessorEnters(i) \/ Inited(i) \/ Installed(i) \/ InitFails(i) \/ ReplaceRefused(i) \/ UnprocessEnters(i) \/ DestroyFails(i)
  PROVE  CalmTasks /\ CalmLayers
<1>1. CASE RestartEnters(i)
  BY <1>1, CoreRestartEnters, NotSender, CalmMoves, TrackAlone DEF RestartEnters, Enters
<1>2. CASE AcquireFails(i) \/ ProcessFails(i)
  BY <1>2, CalmFails, TrackAlone, CoreAcquireFails, CoreProcessFails DEF AcquireFails, ProcessFails
<1>3. CASE Reprocessed(i)
  BY <1>3, CalmReaches, TrackAlone DEF Reprocessed
<1>4. CASE Replaced(i)
  BY <1>4, CalmReaches, CoreReplaced DEF Replaced, CalmLayers
<1>5. CASE ProcessorEnters(i)
  BY <1>5, CalmReaches, CoreProcessorEnters, TrackAlone DEF ProcessorEnters, Enters
<1>6. CASE Installing(i)
  <2>1. Refreshes(i, {"change"}) /\ task[i].op = "processor"
    BY <1>6, CoreInstalls DEF Installing, Installed, Inited, Installs
  <2> QED BY <1>6, <2>1, CalmRefreshes, CoreInstalls DEF Swaps, CalmLayers
<1>10. CASE Inited(i) /\ track.processor
  BY <1>10, CalmReaches, CoreInited, TrackAlone DEF Inited
<1>11. CASE ReplaceRefused(i)
  BY <1>11, CalmEnds, CoreReplaceRefused, TrackAlone DEF ReplaceRefused
<1>7. CASE InitFails(i)
  BY <1>7, CalmEnds, CoreInitFails, TrackAlone DEF InitFails
<1>8. CASE UnprocessEnters(i)
  BY <1>8, CalmReaches, CalmRefreshes, CoreUnprocessEnters, TrackAlone DEF UnprocessEnters, Enters, Swaps
<1>9. CASE DestroyFails(i)
  BY <1>9, CalmEnds, CoreDestroyFails DEF DestroyFails, CalmLayers
<1> QED BY <1>1, <1>2, <1>3, <1>4, <1>5, <1>6, <1>7, <1>8, <1>9, <1>10, <1>11 DEF Installing

LEMMA EndsCalmly ==
  ASSUME Core, NEW i \in Tasks, ChangeEnds(i) \/ Recloned(i)
  PROVE  CalmTasks /\ CalmLayers
<1>1. CASE ChangeEnds(i)
  <2>1. task[i].op \in Restarts \union {"replace", "unprocess", "processor"} /\ task[i].at = "resume"
    BY <1>1, CoreChangeEnds
  <2>2. PICK t : t = [task[i] EXCEPT !.at = "clone"]
    OBVIOUS
  <2>3. GoesOn(i, {"mute", "change"}, Idle) \/ GoesOn(i, {"change"}, t) \/ GoesOn(i, {"change"}, Idle)
          \/ Reaches(i, "install") \/ (task[i].op \in Swaps /\ Refreshes(i, {"change"}))
    BY <1>1, <2>1, <2>2 DEF ChangeEnds, Restarts, Swaps
  <2>4. CalmTasks
    BY <2>1, <2>3, NotSender, CalmGoesOn, CalmEnds, CalmRefreshes, CalmReaches, <2>2, TaskFacts DEF Calls
  <2> QED
    BY <2>4, <1>1, ChangeEndedFacts DEF CalmLayers, ChangeEnded, ChangeEnds
<1> QED
  BY <1>1, CoreRecloned, CalmRefreshes DEF Recloned, Swaps, CalmLayers

LEMMA SendersCalmly ==
  ASSUME Core, NEW i \in Tasks, CodecPublished(i) \/ CodecFails(i) \/ RefreshEnters(i) \/ Refreshed(i) \/ RefreshFails(i)
  PROVE  CalmTasks /\ CalmLayers
<1>1. CASE RefreshEnters(i)
  BY <1>1, CoreRefreshEnters, CalmMoves, TrackAlone DEF Swaps, Layering, Setters, Coders
<1>2. CASE Refreshed(i) \/ RefreshFails(i)
  <2>1. task[i].at = "dimensions" /\ GoesOn(i, {"sender"}, Idle)
    BY <1>2 DEF Refreshed, RefreshFails
  <2>2. lock["sender"] # <<>> /\ Head(lock["sender"]) = i
    BY <2>1, HolderIsFirst DEF Holds, Locks, Core
  <2>3. PICK t : t = Idle
    OBVIOUS
  <2>4. t.at = "none"
    BY <2>3 DEF Idle
  <2>5. CalmTasks
    BY <2>2, <2>4, <2>1, TaskFacts, <2>3, GoesOnSender
      DEF CalmTasks, Calmly, Legal, Swapping, Later, Layering, Setters, Coders
  <2> QED
    BY <2>5, TrackAlone, <1>2, CoreRefreshed, CoreRefreshFails
<1> QED
  BY <1>1, <1>2, CalmEnds, CoreCodecFails, TrackAlone, CoreCodecPublished
    DEF CodecPublished, CodecFails, CalmLayers

(* The steps that set layers, and that ask for it. *)
LEMMA AsksLayers ==
  ASSUME Core, LayersFollow, (\E C \in SUBSET {"main", "backup"} : SubscribedQuality(C)) \/ RefreshTimer
  PROVE  LayersFollow'
<1>1. PICK op \in {"quality", "refresh"}, C \in SUBSET Codecs : Begins(CodecsCall(op, C)) /\ asked' = C
  BY SendsTyped DEF RefreshTimer, SetsCodecs, CodecsCall, SubscribedQuality, Codecs
<1> SUFFICES ASSUME track.published, ~layers.performance
             PROVE  LayersForm(lock'["sender"], task', layers', asked', backup', timers')
  BY DEF LayersFollow, SubscribedQuality, RefreshTimer
<1>2. PICK t : t = CodecsCall(op, C)
  OBVIOUS
<1>3. t.op = op /\ t.at = "sender" /\ t.codecs = C
  BY <1>2, FreshCodecs
<1>4. PICK i \in Tasks : /\ ~In("sender", task[i]) /\ task' = [task EXCEPT ![i] = t]
                         /\ lock'["sender"] = Append(lock["sender"], i)
  BY <1>1, <1>2, <1>3, BeginsAt
<1>5. /\ task'[i] = t /\ \A k \in Tasks : k # i => task'[k] = task[k]
  BY <1>4, SenderQueue
<1>6. PICK q \in Seq(Tasks) : q = lock["sender"]
  BY SenderQueue
<1>7. PICK tk, tk2 : tk = task /\ tk2 = task'
  OBVIOUS
<1>8. tk2[i].op \in Setters /\ tk2[i].codecs = C
  BY <1>3, <1>5, <1>7 DEF Setters
<1>9. ~NoneOf(Append(q, i), tk2, Setters) /\ Lasts(Append(q, i), tk2, Setters, C)
  BY <1>8, AppendLasts, <1>4, <1>5, <1>6, <1>7, NotInQueue
<1> QED
  BY <1>1, <1>4, <1>6, <1>7, <1>9, <1>3, <1>5 DEF LayersForm, LayersFollow, NoCodec

\* Who sets layers is the first at senderLock, and leaves it.
LEMMA FirstLeaves ==
  ASSUME Core, NEW i \in Tasks, Enters(i, "sender"), NEW t, GoesOn(i, {"sender"}, t)
  PROVE  /\ lock["sender"] # <<>> /\ Head(lock["sender"]) = i /\ task' = [task EXCEPT ![i] = t] /\ task'[i] = t
         /\ (\A k \in Tasks : k # i => task'[k] = task[k])
         /\ Tail(lock["sender"]) \in Seq(Tasks)
         /\ \A j \in 1..Len(Tail(lock["sender"])) : Tail(lock["sender"])[j] # i /\ task'[Tail(lock["sender"])[j]] = task[Tail(lock["sender"])[j]]
         /\ t.at # "sender" => lock'["sender"] = Tail(lock["sender"])
         /\ t.at = "sender" => lock'["sender"] = Append(Tail(lock["sender"]), i)
<1>1. lock["sender"] # <<>> /\ Head(lock["sender"]) = i
  BY EntererIsFirst DEF Core, Locks
<1>2. \A j \in 1..Len(Tail(lock["sender"])) : Tail(lock["sender"])[j] # i /\ Tail(lock["sender"])[j] \in Tasks
  BY <1>1, TailWithout
<1>3. Tail(lock["sender"]) \in Seq(Tasks)
  BY <1>1, SenderQueue, HeadTailProperties
<1>4. /\ t.at # "sender" => lock'["sender"] = Tail(lock["sender"])
      /\ t.at = "sender" => lock'["sender"] = Append(Tail(lock["sender"]), i)
  BY GoesOnSender
<1> QED
  BY <1>1, <1>2, <1>3, <1>4, GoesOnSender, SenderQueue

LEMMA FirstLasts ==
  ASSUME Core, NEW i \in Tasks, Enters(i, "sender"), NEW t, GoesOn(i, {"sender"}, t), NEW ops,
         Lasts(lock["sender"], task, ops, asked)
  PROVE  /\ t.at # "sender" \/ t.op \notin ops => Lasts(lock'["sender"], task', ops, asked)
         /\ t.at = "sender" /\ t.op \in ops /\ t.codecs = asked => Lasts(lock'["sender"], task', ops, asked)
         /\ NoneOf(lock'["sender"], task', ops) => /\ ~(t.at = "sender" /\ t.op \in ops)
                                                   /\ NoneOf(lock["sender"], task, ops) \/ task[i].op \in ops
                                                   /\ task[i].op \in ops => task[i].codecs = asked
<1>1. PICK q \in Seq(Tasks) : q = lock["sender"]
  BY SenderQueue
<1>2. PICK tk, tk2 : tk = task /\ tk2 = task'
  OBVIOUS
<1>3. PICK r \in Seq(Tasks) : r = Tail(q)
  BY <1>1, FirstLeaves
<1>4. q # <<>> /\ Head(q) = i /\ tk2[i] = t /\ \A j \in 1..Len(Tail(q)) : tk2[Tail(q)[j]] = tk[Tail(q)[j]]
  BY <1>1, <1>2, FirstLeaves
<1>5. /\ Lasts(r, tk2, ops, asked)
      /\ NoneOf(r, tk2, ops) => NoneOf(q, tk, ops) \/ tk[i].op \in ops
      /\ NoneOf(r, tk2, ops) /\ tk[i].op \in ops => tk[i].codecs = asked
  <2>1. Lasts(q, tk, ops, asked)
    BY <1>1, <1>2
  <2>2. q # <<>> /\ Head(q) = i
    BY <1>4
  <2>3. /\ Lasts(Tail(q), tk2, ops, asked)
        /\ NoneOf(Tail(q), tk2, ops) => NoneOf(q, tk, ops) \/ tk[Head(q)].op \in ops
        /\ NoneOf(Tail(q), tk2, ops) /\ tk[Head(q)].op \in ops => tk[Head(q)].codecs = asked
    BY <2>1, <2>2, TailLasts, <1>4
  <2> QED BY <1>3, <2>2, <2>3
<1>6. CASE t.at = "sender"
  <2>1. lock'["sender"] = Append(r, i)
    BY <1>1, <1>3, <1>6, FirstLeaves
  <2>2. /\ NoneOf(Append(r, i), tk2, ops) => NoneOf(r, tk2, ops) /\ tk2[i].op \notin ops
        /\ tk2[i].op \notin ops => Lasts(Append(r, i), tk2, ops, asked)
        /\ tk2[i].op \in ops /\ tk2[i].codecs = asked => Lasts(Append(r, i), tk2, ops, asked)
    BY <1>5, AppendLasts
  <2> QED BY <1>1, <1>2, <1>4, <1>5, <1>6, <2>1, <2>2
<1> QED
  BY <1>6, <1>1, <1>3, FirstLeaves, <1>2, <1>5

LEMMA SetsLayers ==
  ASSUME Core, LayersFollow, NEW i \in Tasks, LayersSet(i)
  PROVE  LayersFollow'
<1>1. /\ task[i].op \in {"quality", "refresh"} /\ Enters(i, "sender") /\ track' = track /\ asked' = asked /\ timers' = timers
      /\ layers'.backup = layers.backup /\ layers'.performance = layers.performance
      /\ layers'.main = IF ~track.published THEN layers.main ELSE IF "main" \in task[i].codecs THEN "all" ELSE "off"
  BY CoreLayersSet
<1> SUFFICES ASSUME track.published, ~layers.performance
             PROVE  LayersForm(lock'["sender"], task', layers', asked', backup', timers')
  BY <1>1 DEF LayersFollow
<1>2. LayersForm(lock["sender"], task, layers, asked, backup, timers)
  BY DEF LayersFollow
<1>3. PICK t : /\ GoesOn(i, {"sender"}, t)
               /\ t = Call("publish", "negotiate") \/ t = [task[i] EXCEPT !.op = "codec", !.at = "sender"] \/ t = Idle
               /\ backup'.sender => t = [task[i] EXCEPT !.op = "codec", !.at = "sender"]
  <2>1. NextCodec(i, {"sender"})
    BY DEF LayersSet
  <2>2. PICK b \in BOOLEAN : b = (task[i].op = "quality" /\ "backup" \in task[i].codecs /\ backup.m = 0 /\ track.published)
    OBVIOUS
  <2>3. PICK t : t = IF b THEN Call("publish", "negotiate")
                     ELSE IF backup.sender THEN [task[i] EXCEPT !.op = "codec", !.at = "sender"] ELSE Idle
    OBVIOUS
  <2>4. b => ~backup'.sender
    <3>1. PICK x : x = [m |-> Len(media) + 1, sender |-> FALSE]
      OBVIOUS
    <3>2. ~x.sender
      BY <3>1
    <3> QED
      BY <3>1, <3>2, <2>1, <2>2 DEF NextCodec
  <2> QED
    BY <2>3, <2>4, SendsTyped, <2>1, <2>2 DEF NextCodec
<1>4. /\ t.at # "codec"
      /\ t.at # "sender" \/ (t.op = "codec" /\ t.codecs = task[i].codecs)
      /\ backup'.sender => t.op = "codec" /\ t.at = "sender"
  <2>1. CASE t = Call("publish", "negotiate") \/ t = Idle
    <3>1. CASE backup'.sender
      BY <1>3, <3>1, TaskFacts DEF Calls
    <3> QED
      BY <3>1, <2>1, CallAt DEF Idle
  <2> QED
    BY <1>3, <2>1, TaskFacts DEF Calls
<1>5. /\ Lasts(lock'["sender"], task', Setters, asked)
      /\ NoneOf(lock'["sender"], task', Setters) => task[i].codecs = asked
  BY <1>1, <1>2, <1>4, <1>3, FirstLasts DEF LayersForm, Setters
<1>6. ASSUME backup'.sender, NoneOf(lock'["sender"], task', Setters) PROVE BackupForm(lock'["sender"], task', layers', asked)
  <2>1. t.op \in Coders /\ t.at = "sender" /\ t.codecs = asked
    BY <1>4, <1>5, <1>6 DEF Coders
  <2>2. PICK q, r \in Seq(Tasks) : q = lock["sender"] /\ r = Tail(q)
    BY <1>1, <1>3, FirstLeaves, SenderQueue
  <2>3. PICK tk2 : tk2 = task' /\ tk2[i] = t
    BY <1>1, <1>3, FirstLeaves
  <2>4. lock'["sender"] = Append(r, i)
    BY <1>1, <1>3, <2>1, <2>2, FirstLeaves
  <2>5. ~NoneOf(Append(r, i), tk2, Coders) /\ Lasts(Append(r, i), tk2, Coders, asked)
    BY <2>1, <2>3, AppendLasts
  <2> QED BY <2>3, <2>4, <2>5 DEF BackupForm
<1> QED
  BY <1>1, <1>5, <1>6, <1>2, <1>3, <1>4, FirstLeaves DEF LayersForm, NoCodec, MainIs

LEMMA SetsCodec ==
  ASSUME Core, LayersFollow, NEW i \in Tasks, CodecSet(i)
  PROVE  LayersFollow'
<1>1. /\ task[i].op = "codec" /\ Enters(i, "sender") /\ UNCHANGED <<track, asked, timers, backup>>
      /\ layers'.main = layers.main /\ layers'.performance = layers.performance
      /\ (layers'.backup <=> "backup" \in task[i].codecs)
  BY CoreCodecSet
<1> SUFFICES ASSUME track.published, ~layers.performance
             PROVE  LayersForm(lock'["sender"], task', layers', asked', backup', timers')
  BY <1>1 DEF LayersFollow
<1>2. LayersForm(lock["sender"], task, layers, asked, backup, timers)
  BY DEF LayersFollow
<1>3. PICK t : t = Idle
  OBVIOUS
<1>4. t.at = "none" /\ GoesOn(i, {"sender"}, t)
  BY <1>3 DEF CodecSet, Idle
<1>5. /\ Lasts(lock'["sender"], task', Setters, asked)
      /\ NoneOf(lock'["sender"], task', Setters) => NoneOf(lock["sender"], task, Setters)
  BY <1>1, <1>2, <1>4, FirstLasts DEF LayersForm, Setters
<1>6. NoneOf(lock'["sender"], task', Setters) => MainIs(layers', asked)
  BY <1>1, <1>2, <1>5 DEF LayersForm, MainIs
<1>7. ASSUME backup.sender, ~timers.refresh, NoneOf(lock'["sender"], task', Setters)
      PROVE  BackupForm(lock'["sender"], task', layers', asked)
  BY <1>2, <1>5, <1>7, <1>1, <1>4, FirstLasts DEF LayersForm, BackupForm, Coders
<1> QED
  BY <1>1, <1>5, <1>6, <1>7, <1>2, <1>4, FirstLeaves DEF LayersForm, NoCodec

(* A track that is created sends all its layers. *)
LEMMA CreatesLayers ==
  ASSUME Core, Core', NEW i \in Tasks, Creates(i) \/ NotCreated(i) \/ CreatedNow(i), UNCHANGED asked
  PROVE  LayersFollow'
<1>1. Creating(i)
  BY DEF Creates, NotCreated, CreatedNow
<1>2. layers.main = "all" /\ asked = {"main"} /\ layers' = layers /\ backup' = backup /\ backup = NoBackup
  BY <1>1 DEF Creating, Core, CreateOK
<1>3. \A j \in Tasks : task'[j].op \in {"create", "idle"} /\ task'[j].at \in {"none", "acquire", "init"}
  BY <1>1 DEF Creating, Others
<1>4. PICK q \in Seq(Tasks) : q = lock'["sender"]
  BY DEF Core, Queues, Queue, Locks
<1>5. PICK tk : tk = task'
  OBVIOUS
<1>6. NoCodec(tk)
  BY <1>3, <1>5 DEF NoCodec
<1>7. PICK b : b = NoBackup
  OBVIOUS
<1>8. ~b.sender /\ backup' = b
  BY <1>2, <1>7 DEF NoBackup
<1>9. MainIs(layers', asked')
  BY <1>2 DEF MainIs
<1>10. LayersForm(q, tk, layers', asked', b, timers')
  BY <1>6, <1>8, <1>9, <1>3, <1>5 DEF LayersForm, Lasts, Setters
<1> QED BY <1>4, <1>5, <1>8, <1>10 DEF LayersFollow

LEMMA LayersKept ==
  ASSUME Core, LayersFollow, [TracksNext]_trackVars
  PROVE  LayersFollow'
<1>1. CASE CalmTasks /\ CalmLayers
  BY <1>1, CalmKeeps
<1>2. CASE Browser
  BY <1>1, <1>2, AsksLayers, AskedCalmly, PausedCalmly DEF Browser
<1>3. CASE Show \/ MuteTimer \/ RefreshTimer \/ \E m \in DOMAIN media : DeviceUnmutes(m)
  BY <1>1, <1>3, AsksLayers, AskedCalmly, PausedCalmly
<1>4. ASSUME NEW i \in Tasks, CreateAcquires(i) \/ Created(i) \/ CreateInitFails(i) PROVE LayersFollow'
  BY <1>4, CreatesFacts, CreatedFacts, NotCreatedFacts, CreatesLayers
    DEF CreateAcquires, Created, CreateInitFails, sending
<1>5. ASSUME NEW i \in Tasks, LayersSkipped(i) PROVE LayersFollow'
  BY <1>5, CoreLayersSkipped DEF LayersFollow, LayersForm, NoCodec
<1>6. ASSUME NEW i \in Tasks, PerformanceSet(i) PROVE LayersFollow'
  BY <1>6, CorePerformanceSet DEF LayersFollow
<1>7. ASSUME NEW i \in Tasks, LayersSet(i) \/ CodecSet(i) PROVE LayersFollow'
  BY <1>7, SetsLayers, SetsCodec
<1>8. ASSUME NEW i \in Tasks,
             \/ MuteEnters(i) \/ UnmuteEnters(i) \/ RestartEnters(i) \/ Acquired(i) \/ Reprocessed(i) \/ Replaced(i)
             \/ ChangeEnds(i) \/ Recloned(i) \/ ReplaceEnters(i) \/ ProcessorEnters(i) \/ Inited(i) \/ Installed(i) \/ UnprocessEnters(i) \/ ReplaceRefused(i)
             \/ Destroyed(i) \/ AcquireFails(i) \/ ProcessFails(i) \/ InitFails(i) \/ DestroyFails(i)
             \/ CodecPublished(i) \/ CodecFails(i) \/ RefreshEnters(i) \/ Refreshed(i) \/ RefreshFails(i)
      PROVE  LayersFollow'
  BY <1>1, MutesCalmly, SetsCalmly, ChangesCalmly, EndsCalmly, SendersCalmly, <1>8
<1>9. CASE Progress
  BY <1>3, <1>4, <1>5, <1>6, <1>7, <1>8, <1>9, NoTrackFacts
    DEF Progress, Failures, CreateFails, Core, CreateOK, LayersFollow
<1> QED
  BY <1>2, <1>3, <1>9, CalmSame, <1>1, TrackAlone, BegunCalmly, AskedCalmly, PausedCalmly
    DEF TracksNext, trackVars, sending, Application

(* What a muted track has is off. *)
IsOff(md, S) == \A k \in 1..Len(md) : k \in S => ~md[k].enabled
MutedIsOff == track.muted => IsOff(media, OwnMedia) \/ \E i \in Tasks : Returns(task[i])

LEMMA OffStays ==
  ASSUME Core, MutedIsOff, track'.m = track.m, track'.muted => track.muted, backup'.m \in {backup.m, 0},
         \A k \in 1..Len(media) : media'[k].enabled => media[k].enabled,
         \A i \in Tasks : Returns(task[i]) => Returns(task'[i])
  PROVE  MutedIsOff'
  BY HistoryTyped, SendsTyped DEF MutedIsOff, IsOff, OwnMedia, TrackRecs

\* A clone is as the media it is made of.
LEMMA OffPlain ==
  ASSUME Core, MutedIsOff, PlainStep
  PROVE  MutedIsOff'
<1>1. \A i \in Tasks : Returns(task[i]) => Returns(task'[i])
  BY QuietlyUnmutes DEF Quietly, PlainStep
<1>2. CASE backup'.m = backup.m
  BY <1>1, <1>2, OffStays DEF PlainStep, PlainMedia
<1>3. CASE backup'.m = Len(media) + 1 /\ Len(media') = Len(media) + 1 /\ (media'[Len(media) + 1].enabled <=> media[track.m].enabled)
  <2>1. CASE track.m \in 1..Len(media)
    BY <1>1, <1>3, <2>1, HistoryTyped DEF PlainStep, PlainMedia, MutedIsOff, IsOff, OwnMedia
  <2> QED BY <2>1, HistoryTyped, NoTrackFacts DEF Core, TrackOK, TrackRecs, PlainStep, MutedIsOff
<1> QED BY <1>2, <1>3 DEF PlainStep, PlainMedia

LEMMA OffWhole ==
  ASSUME Core, MutedIsOff, Whole
  PROVE  MutedIsOff'
<1>1. track'.m = track.m /\ track'.muted = track.muted /\ \A i \in Tasks : Returns(task[i]) => Returns(task'[i])
  BY WholeFacts, SameMediaOfTrack, WholeIsQuiet, QuietlyUnmutes
<1>2. CASE RestartAsked \/ Shown \/ (\E d \in Devices : DeviceAsked(d)) \/ \E m \in 1..Len(media) : Gone(m)
  BY <1>1, <1>2, OffStays DEF RestartAsked, Shown, DeviceAsked, Gone
<1> QED BY <1>1, <1>2, OffPlain, OffStays DEF Whole, Paused, Resumed, Hidden, Unpublished

LEMMA OffPart ==
  ASSUME Core, Core', MutedIsOff, NEW i \in Tasks, Part(i)
  PROVE  MutedIsOff'
<1>1. CASE Mutes(i)
  BY <1>1, HistoryTyped DEF Mutes, TrackButMuted, MutedIsOff, IsOff, OwnMedia
<1>2. CASE Unmuted(i) \/ Creates(i) \/ NotCreated(i) \/ CreatedNow(i)
  BY <1>2 DEF Unmuted, Creates, NotCreated, CreatedNow, Creating, MutedIsOff
<1>3. CASE Unmuting(i) \/ Acquiring(i) \/ NotAcquired(i) \/ NotProcessed(i) \/ Processing(i)
  BY <1>3, OthersUnmute, OffStays
    DEF Unmuting, Acquiring, NotAcquired, NotProcessed, Processing, Moves, Over, Returns, TrackStands
<1>4. CASE SettingAcquired(i) \/ SettingUsers(i) \/ SettingAgain(i)
  BY <1>4, OthersUnmute, OffStays
    DEF SettingAcquired, SettingUsers, SettingAgain, SettingNew, Setting, Moves, Returns
<1>5. CASE Swapped(i)
  <2>1. CASE task[i].op = "unmute"
    BY <1>5, <2>1 DEF Swapped, Moves, Returns, MutedIsOff
  <2>2. CASE task[i].op # "unmute"
    <3>1. \A j \in Tasks : ~Returns(task[j])
      BY <1>5, <2>2, Alone DEF Swapped, Moves, Mid, Returns
    <3> QED
      BY <1>5, <2>2, <3>1, HistoryTyped DEF Swapped, Moves, MutedIsOff, IsOff, OwnMedia
  <2> QED BY <2>1, <2>2
<1>6. CASE ChangeEnded(i)
  <2>1. CASE task[i].op = "unmute"
    BY <1>6, <2>1 DEF ChangeEnded, MutedIsOff
  <2>2. CASE task[i].op # "unmute"
    BY <1>6, <2>2, OthersUnmute, OffStays DEF ChangeEnded, Returns
  <2> QED BY <2>1, <2>2
<1>7. CASE Initialised(i) \/ NotDestroyed(i)
  BY <1>7, QuietlyUnmutes, OffStays DEF Initialised, NotDestroyed, Quietly
<1> QED BY <1>1, <1>2, <1>3, <1>4, <1>5, <1>6, <1>7 DEF Part

LEMMA OffKept ==
  ASSUME Core, Core', MutedIsOff, Step
  PROVE  MutedIsOff'
  BY OffWhole, OffPart DEF Step

(* What is not published has been stopped, and what is paused sends no backup codec. *)
Creations == \E i \in Tasks : task[i].op = "create"
Released == ~track.published /\ track.m # 0 /\ ~history.revived => track.stopped \/ Creations
BackupIsQuiet == track.paused /\ ~history.bypassed => sends.backup = 0

\* What most steps do: nothing to a track that is not published but stop, set or revive it.
Holding ==
  /\ track'.m # 0 => track.m # 0
  /\ track'.published = track.published
  /\ track'.stopped = track.stopped \/ track.published \/ history'.revived
  /\ history.revived => history'.revived
Hushed == track'.paused /\ ~history'.bypassed => sends'.backup = 0 \/ (track.paused /\ ~history.bypassed /\ sends'.backup = sends.backup)

LEMMA SameHolds ==
  ASSUME UNCHANGED <<track, sends>>, history.revived => history'.revived, history'.bypassed = history.bypassed
  PROVE  Holding /\ Hushed
BY DEF Holding, Hushed

LEMMA BeginningsHold ==
  ASSUME \/ Mute \/ Unmute \/ SetProcessor \/ StopProcessor \/ PrioritizePerformance \/ RefreshTimer \/ DeviceMutes \/ Hide
         \/ \E d \in Devices : ReplaceTrack(d)
         \/ \E C \in SUBSET {"main", "backup"} : SubscribedQuality(C)
  PROVE  Holding /\ Hushed
  BY SameHolds
    DEF Mute, Unmute, SetProcessor, StopProcessor, PrioritizePerformance, RefreshTimer, DeviceMutes, Hide, ReplaceTrack,
        SubscribedQuality, sending, outside

LEMMA AsksHold ==
  ASSUME Core, RestartTrack \/ Show \/ (\E d \in Devices : SetDeviceId(d)) \/ (\E m \in DOMAIN media : MediaEnds(m))
  PROVE  Holding /\ Hushed
<1>1. CASE Show
  BY <1>1, HistoryTyped, SameHolds DEF Show, Revives, TrackRecs, Histories, sending, Holding, Hushed
<1>2. CASE RestartTrack
  BY <1>2, HistoryTyped DEF RestartTrack, TrackRecs, sending, outside, Holding, Hushed
<1>3. ASSUME NEW d \in Devices, SetDeviceId(d) PROVE Holding /\ Hushed
  <2>1. track' \in {[track EXCEPT !.device = d, !.pendingDevice = TRUE], [track EXCEPT !.device = d, !.stopped = FALSE]}
        /\ track.published /\ sends' = sends
    BY <1>3 DEF SetDeviceId, sending
  <2>2. history'.revived = history.revived /\ history'.bypassed = history.bypassed
    BY <1>3, HistoryTyped DEF SetDeviceId, Histories
  <2> QED BY <2>1, <2>2, HistoryTyped DEF TrackRecs, Holding, Hushed
<1>4. ASSUME NEW m \in DOMAIN media, MediaEnds(m) PROVE Holding /\ Hushed
  <2>1. /\ track' = track \/ (track.published /\ track' = [track EXCEPT !.stopped = FALSE, !.reacquire = @ \/ hidden])
        /\ sends' = sends
    BY <1>4 DEF MediaEnds, sending, Unheard
  <2>2. history'.revived = history.revived /\ history'.bypassed = history.bypassed
    BY <1>4, HistoryTyped DEF MediaEnds, Histories
  <2> QED BY <2>1, <2>2, HistoryTyped DEF TrackRecs, Holding, Hushed
<1> QED BY <1>1, <1>2, <1>3, <1>4

LEMMA PausesHold ==
  ASSUME Core, PauseUpstream \/ ResumeUpstream \/ MuteTimer \/ \E m \in DOMAIN media : DeviceUnmutes(m)
  PROVE  Holding /\ Hushed
<1>1. history'.revived = history.revived /\ history'.bypassed = history.bypassed
  BY HistoryTyped DEF PauseUpstream, ResumeUpstream, MuteTimer, DeviceUnmutes, Histories
<1>2. CASE Pauses
  BY <1>1, <1>2, HistoryTyped, TypedSends DEF Pauses, TrackRecs, Holding, Hushed
<1>3. CASE Resumes
  BY <1>1, <1>3, HistoryTyped, TypedSends DEF Resumes, ResumedSends, TrackRecs, Holding, Hushed
<1> QED
  BY <1>1, <1>2, <1>3, SameHolds DEF PauseUpstream, ResumeUpstream, MuteTimer, DeviceUnmutes

LEMMA MutesHold ==
  ASSUME Core, NEW i \in Tasks, MuteEnters(i) \/ UnmuteEnters(i)
  PROVE  Holding /\ Hushed
<1>1. sends' = sends
  BY DEF MuteEnters, UnmuteEnters, sending
<1>2. (history.revived => history'.revived) /\ history'.bypassed = history.bypassed
  BY HistoryTyped DEF MuteEnters, UnmuteEnters, Revives, Histories
<1>3. CASE MuteEnters(i)
  BY <1>1, <1>2, <1>3, HistoryTyped DEF MuteEnters, SetTrackMuted, TrackRecs, Holding, Hushed
<1>4. CASE UnmuteEnters(i)
  BY <1>1, <1>2, <1>4, HistoryTyped DEF UnmuteEnters, Revives, SetTrackMuted, TrackRecs, Histories, Holding, Hushed
<1> QED BY <1>3, <1>4

LEMMA SetsHold ==
  ASSUME Core, NEW i \in Tasks, Acquired(i) \/ ReplaceEnters(i) \/ Destroyed(i)
  PROVE  Holding /\ Hushed
<1>1. PICK m, md, tr : /\ Sets(i, m, md, tr)
                       /\ tr.m = track.m /\ tr.published = track.published /\ tr.stopped = track.stopped /\ tr.paused = track.paused
  <2>1. CASE Acquired(i)
    <3>1. PICK tr : tr = [track EXCEPT !.device = task[i].device]
                    /\ Sets(i, Len(media) + 1, Append(media, Captured(task[i].device)), tr)
      BY <2>1 DEF Acquired
    <3> QED BY <3>1, HistoryTyped DEF TrackRecs
  <2>2. CASE ReplaceEnters(i)
    <3>1. PICK tr : tr = [track EXCEPT !.user = TRUE, !.device = task[i].device]
      OBVIOUS
    <3>2. tr.m = track.m /\ tr.published = track.published /\ tr.stopped = track.stopped /\ tr.paused = track.paused
      BY <3>1, HistoryTyped DEF TrackRecs
    <3>3. \E m, md : Sets(i, m, md, tr)
      BY <2>2, <3>1 DEF ReplaceEnters
    <3> QED BY <3>2, <3>3
  <2>3. CASE Destroyed(i)
    <3>0. PICK d : Sets(i, track.m, media, [track EXCEPT !.processor = FALSE, !.device = d])
      BY <2>3 DEF Destroyed
    <3>1. PICK tr : tr = [track EXCEPT !.processor = FALSE, !.device = d]
      OBVIOUS
    <3>2. tr.m = track.m /\ tr.published = track.published /\ tr.stopped = track.stopped /\ tr.paused = track.paused
      BY <3>1, HistoryTyped DEF TrackRecs
    <3>3. \E m, md : Sets(i, m, md, tr)
      BY <3>0, <3>1
    <3> QED BY <3>2, <3>3
  <2> QED BY <2>1, <2>2, <2>3
<1>2. track' = tr /\ sends'.backup = sends.backup
  BY <1>1, TypedSends DEF Sets
<1>3. history'.revived = history.revived /\ history'.bypassed = history.bypassed
  BY <1>1, HistoryTyped DEF Sets, Histories
<1> QED BY <1>1, <1>2, <1>3 DEF Holding, Hushed

LEMMA ChangesHold ==
  ASSUME Core, NEW i \in Tasks,
         \/ RestartEnters(i) \/ AcquireFails(i) \/ Reprocessed(i) \/ ProcessFails(i) \/ Replaced(i) \/ ChangeEnds(i)
         \/ Recloned(i) \/ DestroyFails(i)
  PROVE  Holding /\ Hushed
<1>1. history'.revived = history.revived /\ (history'.bypassed = history.bypassed \/ (Recloned(i) /\ (track.paused => history'.bypassed)))
  BY HistoryTyped
    DEF RestartEnters, AcquireFails, Reprocessed, ProcessFails, Replaced, ChangeEnds, Recloned, DestroyFails, Histories
<1>2. CASE RestartEnters(i) \/ AcquireFails(i) \/ ProcessFails(i)
  BY <1>1, <1>2, SameHolds, CoreRestartEnters, TaskFacts, TypedSends DEF RestartEnters, AcquireFails, ProcessFails, Recloned, sending, Holding, Hushed
<1>3. CASE Reprocessed(i)
  BY <1>1, <1>3, TypedSends DEF Reprocessed, Recloned, Holding, Hushed
<1>4. CASE Replaced(i)
  BY <1>1, <1>4, CoreReplaced, TaskFacts, HistoryTyped DEF Replaced, Recloned, sending, TrackRecs, Legal, Later, Swapping, Holding, Hushed
<1>5. CASE ChangeEnds(i)
  BY <1>1, <1>5, HistoryTyped, TypedSends DEF ChangeEnds, Recloned, StaysPaused, ResumedSends, TrackRecs, Holding, Hushed
<1>6. CASE Recloned(i)
  <2>1. track' = track /\ (backup.sender \/ sends' = sends)
    BY <1>6 DEF Recloned
  <2>2. backup.sender /\ track.paused => history'.bypassed
    BY <1>6, HistoryTyped DEF Recloned, Histories
  <2>3. ~backup.sender => history' = history
    BY <1>6 DEF Recloned
  <2> QED BY <1>1, <2>1, <2>2, <2>3 DEF Holding, Hushed
<1>7. CASE DestroyFails(i)
  BY <1>1, <1>7, HistoryTyped DEF DestroyFails, Recloned, sending, TrackRecs, Holding, Hushed
<1> QED BY <1>2, <1>3, <1>4, <1>5, <1>6, <1>7

LEMMA PlainHolds ==
  ASSUME Core, NEW i \in Tasks, Installing(i) \/ (PlainNext(i) /\ ~Recloned(i))
  PROVE  Holding /\ Hushed
<1>1. CASE Installing(i)
  <2>1. Installs(i)
    BY <1>1 DEF Installing, Inited, Installed
  <2>2. history'.revived = history.revived /\ (track.paused => history'.bypassed) /\ (history.bypassed => history'.bypassed)
    BY <2>1, HistoryTyped DEF Installs, Histories
  <2> QED BY <2>1, <2>2, HistoryTyped DEF Installs, TrackRecs, Holding, Hushed
<1>2. CASE CodecPublished(i)
  <2>1. /\ history'.revived = history.revived /\ (history.bypassed => history'.bypassed)
        /\ sends' = sends \/ (track.paused => history'.bypassed)
    BY <1>2, HistoryTyped DEF CodecPublished, Histories
  <2> QED BY <1>2, <2>1 DEF CodecPublished, Holding, Hushed
<1>3. CASE Refreshed(i) \/ RefreshFails(i)
  <2>1. history'.revived = history.revived /\ history'.bypassed = history.bypassed
    BY <1>3, HistoryTyped DEF Refreshed, RefreshFails, Histories
  <2> QED BY <1>3, <2>1, TypedSends DEF Refreshed, RefreshFails, sending, Holding, Hushed
<1> QED
  BY <1>1, <1>2, <1>3, SameHolds, CoreInited
    DEF PlainNext, LayersSet, LayersSkipped, CodecSet, CodecFails, PerformanceSet, RefreshEnters, ProcessorEnters, InitFails,
        UnprocessEnters, CreateFails, ReplaceRefused, sending, outside, options

Creates0(i) == CreateAcquires(i) \/ Created(i) \/ CreateInitFails(i)
LEMMA StepsHold ==
  ASSUME Core, [TracksNext]_trackVars
  PROVE  (Holding /\ Hushed) \/ Unpublish \/ \E i \in Tasks : Creates0(i)
<1>1. CASE Application
  BY <1>1, BeginningsHold, AsksHold, PausesHold DEF Application
<1>2. CASE Browser
  BY <1>2, BeginningsHold, AsksHold DEF Browser
<1>3. ASSUME NEW i \in Tasks,
             \/ MuteEnters(i) \/ UnmuteEnters(i) \/ RestartEnters(i) \/ Acquired(i) \/ Reprocessed(i) \/ Replaced(i)
             \/ ChangeEnds(i) \/ Recloned(i) \/ ReplaceEnters(i) \/ ReplaceRefused(i) \/ ProcessorEnters(i) \/ Inited(i)
             \/ Installed(i) \/ UnprocessEnters(i) \/ Destroyed(i) \/ CreateAcquires(i) \/ Created(i) \/ LayersSet(i)
             \/ LayersSkipped(i) \/ CodecSet(i) \/ CodecPublished(i) \/ PerformanceSet(i) \/ RefreshEnters(i)
             \/ Refreshed(i) \/ Failures(i)
      PROVE  (Holding /\ Hushed) \/ Creates0(i)
  <2>1. CASE PlainNext(i) \/ Installing(i)
    BY <2>1, PlainHolds, ChangesHold
  <2> QED BY <1>3, <2>1, MutesHold, SetsHold, ChangesHold DEF Failures, PlainNext, Installing, Creates0
<1>4. CASE Progress
  BY <1>4, <1>3, BeginningsHold, PausesHold DEF Progress
<1>5. CASE UNCHANGED trackVars
  BY <1>5, SameHolds DEF trackVars, sending
<1> QED BY <1>1, <1>2, <1>4, <1>5, AsksHold, PausesHold DEF TracksNext

\* While the track is created, only its creation goes on.
LEMMA CreationGoesOn ==
  ASSUME Core, [TracksNext]_trackVars, NEW i \in Tasks, task[i].op = "create", task[i].at = "init"
  PROVE  task'[i] = task[i] \/ Creates0(i)
<1>1. /\ ~track.published /\ ~hidden /\ ~timers.refresh
      /\ \A j \in Tasks : j # i => task[j].op = "idle" /\ task[j].at = "none"
  BY CreationFacts DEF Creation
<1>2. CASE Application
  BY <1>1, <1>2
    DEF Application, Mute, Unmute, PauseUpstream, ResumeUpstream, RestartTrack, SetProcessor, StopProcessor, Unpublish,
        PrioritizePerformance, SetDeviceId, ReplaceTrack
<1>3. CASE Browser
  BY <1>1, <1>3 DEF Browser, DeviceMutes, Hide, SubscribedQuality, MediaEnds, tasks
<1>4. ASSUME NEW j \in Tasks,
             \/ MuteEnters(j) \/ UnmuteEnters(j) \/ RestartEnters(j) \/ Acquired(j) \/ Reprocessed(j) \/ Replaced(j)
             \/ ChangeEnds(j) \/ Recloned(j) \/ ReplaceEnters(j) \/ ReplaceRefused(j) \/ ProcessorEnters(j) \/ Inited(j)
             \/ Installed(j) \/ UnprocessEnters(j) \/ Destroyed(j) \/ CreateAcquires(j) \/ Created(j) \/ LayersSet(j)
             \/ LayersSkipped(j) \/ CodecSet(j) \/ CodecPublished(j) \/ PerformanceSet(j) \/ RefreshEnters(j)
             \/ Refreshed(j) \/ Failures(j)
      PROVE  Creates0(i)
  <2>1. Restarts \subseteq {"unmute", "device", "restart", "ended", "reacquire"} /\ Swaps \subseteq Ops \ {"idle", "create"}
    BY DEF Restarts, Swaps, Ops
  <2>2. task[j].op \in {"idle", "create"} /\ task[j].at \in {"none", "init"} /\ (task[j].at = "init" => j = i)
    BY <1>1
  <2>3. CASE \/ MuteEnters(j) \/ UnmuteEnters(j) \/ RestartEnters(j) \/ Acquired(j) \/ ReplaceEnters(j) \/ ReplaceRefused(j)
             \/ ProcessorEnters(j) \/ UnprocessEnters(j) \/ AcquireFails(j) \/ CreateAcquires(j) \/ CreateFails(j)
    BY <2>1, <2>2, <2>3
      DEF MuteEnters, UnmuteEnters, RestartEnters, Acquired, ReplaceEnters, ReplaceRefused, ProcessorEnters,
          UnprocessEnters, AcquireFails, CreateAcquires, CreateFails
  <2>4. CASE \/ Reprocessed(j) \/ Replaced(j) \/ ChangeEnds(j) \/ Recloned(j) \/ Inited(j) \/ Installed(j) \/ Destroyed(j)
             \/ ProcessFails(j) \/ InitFails(j) \/ DestroyFails(j)
    BY <2>2, <2>4 DEF Reprocessed, Replaced, ChangeEnds, Recloned, Inited, Installed, Destroyed, ProcessFails, InitFails, DestroyFails
  <2>5. CASE \/ LayersSet(j) \/ LayersSkipped(j) \/ CodecSet(j) \/ CodecPublished(j) \/ PerformanceSet(j) \/ RefreshEnters(j)
             \/ Refreshed(j) \/ CodecFails(j) \/ RefreshFails(j)
    BY <2>1, <2>2, <2>5
      DEF LayersSet, LayersSkipped, CodecSet, CodecPublished, PerformanceSet, RefreshEnters, Refreshed, CodecFails, RefreshFails
  <2>6. CASE Created(j) \/ CreateInitFails(j)
    BY <2>2, <2>6 DEF Created, CreateInitFails, Creates0
  <2> QED BY <1>4, <2>3, <2>4, <2>5, <2>6 DEF Failures
<1>5. CASE Progress
  BY <1>1, <1>4, <1>5 DEF Progress, MuteTimer, RefreshTimer, tasks
<1>6. CASE UNCHANGED trackVars
  BY <1>6 DEF trackVars, tasks
<1> QED BY <1>1, <1>2, <1>3, <1>5, <1>6 DEF TracksNext, Show, DeviceUnmutes, tasks

LEMMA ReleasedKept ==
  ASSUME Core, Core', Released, BackupIsQuiet, [TracksNext]_trackVars
  PROVE  Released' /\ BackupIsQuiet'
<1>1. CASE Holding /\ Hushed
  <2>1. BackupIsQuiet'
    BY <1>1 DEF Hushed, BackupIsQuiet
  <2>2. ASSUME NEW i \in Tasks, task[i].op = "create", track.m # 0 PROVE Released'
    <3>1. task[i].at = "init"
      BY <2>2, CreationFacts, NoTrackFacts
    <3>2. CASE task'[i] = task[i]
      BY <2>2, <3>2 DEF Released, Creations
    <3>3. CASE Creates0(i)
      BY <3>1, <3>3, NoTrackFacts, HistoryTyped DEF Creates0, CreateAcquires, Created, CreateInitFails, Released, TrackRecs
    <3> QED BY <3>1, <3>2, <3>3, <2>2, CreationGoesOn
  <2> QED BY <1>1, <2>1, <2>2 DEF Holding, Released, Creations
<1>2. CASE Unpublish
  BY <1>2, HistoryTyped, TypedSends DEF Unpublish, TrackRecs, Released, BackupIsQuiet
<1>3. ASSUME NEW i \in Tasks, Creates0(i) PROVE Released' /\ BackupIsQuiet'
  <2>1. Creates(i) \/ NotCreated(i) \/ CreatedNow(i)
    BY <1>3, CreatesFacts, NotCreatedFacts, CreatedFacts DEF Creates0
  <2>2. ~track'.paused
    BY <2>1 DEF Creates, NotCreated, CreatedNow, Creating
  <2>3. CASE CreateAcquires(i) /\ ~track'.published
    <3>1. task[i].op = "create" /\ task' = [task EXCEPT ![i].at = "init"]
      <4>1. PICK m \in Nat : m = Len(media) + 1
        BY HistoryTyped
      <4>2. kind.processor \/ track' = NewTrack(m, Fallback)
        BY <2>3, <4>1 DEF CreateAcquires
      <4>3. kind.processor
        BY <2>3, <4>2, NewTrackFacts
      <4> QED BY <2>3, <4>3 DEF CreateAcquires, Reaches
    <3>2. task'[i].op = "create"
      BY <3>1, TaskFacts DEF Calls, Core, TypeInv, TTask
    <3> QED BY <2>2, <3>2 DEF Released, Creations, BackupIsQuiet
  <2> QED
    BY <1>3, <2>2, <2>3, NoTrackFacts, HistoryTyped
      DEF Creates0, Created, CreateInitFails, Released, TrackRecs, BackupIsQuiet
<1> QED BY <1>1, <1>2, <1>3, StepsHold

(***************************************************************************)
(* All of it together.                                                     *)
(***************************************************************************)
Aspects ==
  /\ Captures /\ GoneBefore /\ StoppedEnds /\ MutedEnds /\ PausedIsQuiet /\ ServerKnowsMute
  /\ SentFollows /\ HeardNew /\ IsHeard /\ IsEnabled /\ IsLive
  /\ Sized /\ DevicesFollow /\ LayersFollow
  /\ MutedIsOff /\ Released /\ BackupIsQuiet
TracksInv == Core /\ Aspects

\* At first there is no track yet, or one that is captured and sent.
LEMMA NoTrackAspects ==
  ASSUME Core, media = <<>>, track = NoTrack, \A i \in Tasks : task[i].op \in {"idle", "create"} /\ task[i].at \in {"none", "acquire"},
         sends.scaled = sends.encoded
  PROVE  Aspects
<1>1. /\ ~track.published /\ ~track.muted /\ ~track.paused /\ ~track.stopped /\ ~track.pendingDevice /\ track.m = 0
  BY NoTrackFacts
<1>2. PICK n \in Nat : n = Len(media)
  BY HistoryTyped
<1>3. \A i \in Tasks : task[i].op \notin Restarts /\ task[i].op # "ended" /\ task[i].at \notin {"process", "replaced", "resume"}
  BY DEF Restarts
<1>4. StoppedEnds /\ MutedEnds /\ PausedIsQuiet
  BY <1>1 DEF StoppedEnds, MutedEnds, PausedIsQuiet
<1>5. ServerKnowsMute /\ SentFollows /\ IsHeard /\ IsEnabled /\ IsLive /\ Sized /\ LayersFollow
  BY <1>1 DEF ServerKnowsMute, SentFollows, IsHeard, IsEnabled, IsLive, Sized, LayersFollow
<1>7. MutedIsOff /\ Released /\ BackupIsQuiet
  BY <1>1 DEF MutedIsOff, Released, BackupIsQuiet
<1>6. DevicesFollow
  BY <1>1, <1>3 DEF DevicesFollow, Falling, FallsBack, Restarting
<1> QED
  BY <1>4, <1>5, <1>6, <1>7, <1>3, <1>2 DEF Aspects, GoneBefore, HeardNew, Restarting, InPlace, Captures

LEMMA NewTrackAspects ==
  ASSUME Core, NEW c \in Media, media = <<c>>, c = Captured(Fallback), NEW m \in {1}, track = NewTrack(m, Fallback),
         \A i \in Tasks : task[i].op = "idle" /\ task[i].at = "none",
         sends.main = m, sends.scaled = Fallback, sends.encoded = Fallback, ~muted, active = Fallback, history.wanted = Fallback, m \in history.heard,
         layers.main = "all", asked = {"main"}, ~backup.sender
  PROVE  Aspects
<1>1. /\ track.published /\ ~track.muted /\ ~track.paused /\ ~track.stopped /\ ~track.pendingDevice /\ track.m = m
      /\ ~track.processor /\ track.device = Fallback
  BY DEF NewTrack
<1>2. media[m] = c /\ Len(media) = 1 /\ \A k \in 1..Len(media) : k = m
  OBVIOUS
<1>3. c.live /\ c.enabled /\ c.device = Fallback
  BY DEF Captured
<1>4. \A i \in Tasks : /\ task[i].op \notin Restarts /\ task[i].op # "ended" /\ task[i].at \notin {"process", "replaced", "resume"}
                       /\ task[i].at \notin {"change", "acquire"}
  BY DEF Restarts
<1>5. StoppedEnds /\ MutedEnds /\ PausedIsQuiet
  BY <1>1 DEF StoppedEnds, MutedEnds, PausedIsQuiet
<1>6. ServerKnowsMute /\ SentFollows
  BY <1>1, <1>4 DEF ServerKnowsMute, SentFollows, Current
<1>7. IsHeard /\ IsEnabled /\ IsLive
  BY <1>1, <1>2, <1>3, <1>4 DEF IsHeard, IsEnabled, IsLive, Restarting
<1>8. Sized
  BY <1>1, <1>2, <1>3 DEF Sized
<1>11. MutedIsOff /\ Released /\ BackupIsQuiet
  BY <1>1 DEF MutedIsOff, Released, BackupIsQuiet
<1>9. DevicesFollow
  BY <1>1, <1>2, <1>3, <1>4 DEF DevicesFollow, Falling, FallsBack, Restarting
<1>10. LayersFollow
  BY SenderQueue DEF NoCodec, Setters, Lasts, MainIs, LayersFollow, LayersForm
<1> QED
  BY <1>5, <1>6, <1>7, <1>8, <1>9, <1>10, <1>11, <1>1, <1>2, <1>4
    DEF Aspects, Captures, Known, GoneBefore, HeardNew, Restarting, InPlace

LEMMA TracksBegin == ASSUME TracksInit PROVE TracksInv
<1>1. Core
  BY CoreInitially
<1>2. PICK s \in Sessions :
        /\ media = IF s.creates THEN <<>> ELSE <<Captured(Fallback)>>
        /\ track = IF s.creates THEN NoTrack ELSE NewTrack(1, Fallback)
        /\ sends = [main |-> IF s.creates THEN 0 ELSE 1, backup |-> 0, scaled |-> Fallback, encoded |-> Fallback]
        /\ task = [i \in Tasks |-> IF s.creates /\ i = 1
                     THEN [Idle EXCEPT !.op = "create", !.at = "acquire", !.device = "exact"] ELSE Idle]
        /\ history = [heard |-> IF s.creates THEN {} ELSE {1}, lost |-> {}, wanted |-> Fallback, failed |-> FALSE,
                      raced |-> FALSE, dropped |-> FALSE, bypassed |-> FALSE, outrun |-> FALSE, resized |-> FALSE,
                      missed |-> FALSE, revived |-> FALSE]
  BY DEF TracksInit
<1>3. /\ backup = NoBackup /\ layers = [main |-> "all", backup |-> TRUE, performance |-> FALSE] /\ asked = {"main"}
      /\ muted = FALSE /\ active = Fallback
  BY DEF TracksInit
<1>4. s.creates \in BOOLEAN /\ Fallback \in Devices
  BY DeviceAssumption
<1>5. PICK c, e : c = [Idle EXCEPT !.op = "create", !.at = "acquire", !.device = "exact"] /\ e = Idle
  OBVIOUS
<1>6. c.op = "create" /\ c.at = "acquire" /\ e.op = "idle" /\ e.at = "none"
  BY <1>5 DEF Idle
<1>7. \A i \in Tasks : (task[i] = c /\ s.creates) \/ task[i] = e
  BY <1>2, <1>5
<1>8. CASE s.creates
  BY <1>2, <1>8, <1>6, <1>7, <1>1, NoTrackAspects DEF TracksInv
<1>9. CASE ~s.creates
  BY <1>4, <1>2, <1>9, <1>6, <1>7, <1>3, <1>1, NewTrackAspects DEF Captured, Media, NoBackup, TracksInv
<1> QED BY <1>4, <1>8, <1>9

LEMMA TracksGoOn == ASSUME TracksInv, [TracksNext]_trackVars PROVE TracksInv'
<1>1. Core /\ Core' /\ Step
  BY Steps DEF TracksInv
<1>2. MutedEnds'
  BY <1>1, MutedTasksKept, MutedMediaKept, MutedEndsParts DEF TracksInv, Aspects
<1>3. HeardNew' /\ SentFollows' /\ IsHeard' /\ IsEnabled' /\ IsLive'
  BY <1>1, HeardNewKept, SentKept, HeardKept, EnabledKept, LiveKept DEF TracksInv, Aspects
<1>4. Sized' /\ DevicesFollow' /\ LayersFollow'
  BY <1>1, SizedKept, DevicesKept, LayersKept DEF TracksInv, Aspects
<1>5. MutedIsOff' /\ Released' /\ BackupIsQuiet'
  BY <1>1, OffKept, ReleasedKept DEF TracksInv, Aspects
<1> QED
  BY <1>1, <1>2, <1>3, <1>4, <1>5, CapturesKept, MuteKept, QuietKept, GoneKept, StopsKept DEF TracksInv, Aspects

LEMMA InvImpliesTypes == ASSUME TracksInv PROVE TracksTypeOK
<1>1. Core
  BY DEF TracksInv
<1>2. DOMAIN lock = Locks
  BY <1>1 DEF Core, Queues
<1>3. ASSUME NEW l \in Locks
      PROVE  /\ \A j \in DOMAIN lock[l] : task[lock[l][j]].op # "idle" /\ (j > 1 => task[lock[l][j]].at = l)
             /\ \A i \in Tasks : task[i].at = l => \E j \in DOMAIN lock[l] : lock[l][j] = i
  <2>1. PICK q \in Seq(Tasks) : q = lock[l] /\ Queue(q, task, l)
    BY <1>1 DEF Core, Queues, Queue
  <2>2. DOMAIN q = 1..Len(q) /\ \A j \in 1..Len(q) : q[j] \in Tasks
    OBVIOUS
  <2>3. ASSUME NEW j \in 1..Len(q) PROVE task[q[j]].op # "idle"
    BY <2>1, <1>1, <2>2 DEF Queue, Core, LegalTasks, Legal, In, Holds, Locks, ChangeTask, InChange
  <2> QED BY <2>1, <2>2, <2>3 DEF Queue, In
<1>4. track.m \in 0..Len(media) /\ backup.m \in 0..Len(media) /\ history.heard \union history.lost \subseteq DOMAIN media
  BY <1>1, HistoryTyped, SendsTyped DEF TrackRecs
<1>5. /\ sends.main \in Processed..Len(media) /\ sends.backup \in Processed..Len(media) /\ sends.scaled \in Devices
      /\ layers.main \in {"all", "low", "off"} /\ asked \subseteq {"main", "backup"}
  BY <1>1, SendsTyped DEF Codecs
<1> QED
  BY <1>4, <1>5, <1>2, <1>3 DEF TracksTypeOK

LEMMA InvImpliesCaptures == ASSUME TracksInv PROVE CapturesAreAsAsked
<1>1. Core /\ Captures /\ StoppedEnds /\ MutedEnds /\ DevicesFollow /\ MutedIsOff /\ Released
  BY DEF TracksInv, Aspects
<1>2. ASSUME Quiet PROVE \A i \in Tasks : task[i].op \notin Restarts /\ task[i].op \notin {"unmute", "ended", "create"}
  BY <1>2 DEF Quiet, Restarts
<1>3. DeviceIsAsAsked
  BY <1>1, <1>2 DEF DeviceIsAsAsked, DevicesFollow, Restarting
<1>4. StoppedUsesNothing
  <2> SUFFICES ASSUME Quiet, track.m # 0
               PROVE  /\ ~track.published /\ ~track.user /\ ~history.revived => ~media[track.m].live
                      /\ track.muted /\ StopsOnMute /\ ~history.raced => ~media[track.m].live
                      /\ track.muted => \A m \in OwnMedia \ {0} : ~media[m].enabled
    BY DEF StoppedUsesNothing
  <2>1. ~track.published /\ ~track.user /\ ~history.revived => ~media[track.m].live
    BY <1>1, <1>2 DEF Released, Creations, StoppedEnds, Restarting
  <2>2. track.muted /\ StopsOnMute /\ ~history.raced => ~media[track.m].live
    BY <1>1, <1>2 DEF MutedEnds
  <2>3. track.muted => IsOff(media, OwnMedia)
    BY <1>1, <1>2 DEF MutedIsOff, Returns
  <2>4. \A m \in OwnMedia \ {0} : m \in 1..Len(media)
    BY <1>1, HistoryTyped, SendsTyped DEF OwnMedia, TrackRecs
  <2> QED BY <2>1, <2>2, <2>3, <2>4 DEF IsOff
<1> QED
  BY <1>3, <1>4, InvImpliesTypes, <1>1, HistoryTyped, <1>2
    DEF CapturesAreAsAsked, CapturesAreKnown, Captures, Known, OwnMedia, Restarting

LEMMA InvImpliesSent == ASSUME TracksInv PROVE SentIsAsAsked
<1>1. Core /\ PausedIsQuiet /\ ServerKnowsMute /\ SentFollows /\ IsEnabled /\ IsLive /\ Sized /\ LayersFollow /\ BackupIsQuiet
  BY DEF TracksInv, Aspects
<1>2. ASSUME Quiet
      PROVE  \A i \in Tasks : /\ task[i].op = "idle" /\ task[i].at = "none" /\ task[i].op \notin Restarts
                              /\ task[i].op \notin Restarts \union {"replace"} /\ task[i].op \notin Swaps
  BY <1>1, <1>2 DEF Quiet, Restarts, Swaps, Core, LegalTasks, Legal
<1>3. UnmutedIsSent
  <2> SUFFICES ASSUME Quiet, track.published, ~track.muted, ~track.paused, ~history.failed, ~history.outrun
               PROVE  /\ sends.main = Current(track)
                      /\ media[track.m].enabled \/ (track.user /\ kind.camera /\ kind.mobile)
                      /\ media[track.m].live \/ track.user \/ track.m \in history.lost
    BY DEF UnmutedIsSent
  <2>1. ~hidden
    BY DEF Quiet
  <2> QED
    BY <1>1, <2>1, <1>2
      DEF SentFollows, IsEnabled, IsLive, Settled, InPlace, Excused, GaveUp, Coming, Restarting
<1>4. LayersAreAsAsked
  BY <1>1, SenderQueue, <1>2
    DEF LayersAreAsAsked, NoneOf, Setters, Coders, Quiet, LayersFollow, LayersForm, BackupForm, MainIs
<1> QED
  BY <1>1, <1>3, <1>4, <1>2 DEF SentIsAsAsked, PausedSendsNothing, PausedIsQuiet, BackupIsQuiet, EncodingsFitTheSource, Sized

\* The page uses its devices for what the application asked for, stops them when it unpublishes or mutes,
\* sends of them what it asked for and nothing while it is paused, and the server knows what is muted:
\* LocalTrack.ts and LocalVideoTrack.ts with their locks, but for what each property excepts.
THEOREM TracksAreKept == TracksSpec => []TracksAreAsAsked
<1>1. TracksInv => TracksAreAsAsked
  BY InvImpliesCaptures, InvImpliesSent DEF TracksAreAsAsked
<1> QED BY <1>1, TracksBegin, TracksGoOn, PTL DEF TracksSpec

=============================================================================

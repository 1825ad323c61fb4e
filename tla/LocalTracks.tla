------------------------------- MODULE LocalTracks -------------------------------
(***************************************************************************)
(* room/track/LocalTrack.ts, LocalVideoTrack.ts, LocalAudioTrack.ts and create.ts, *)
(* with what LocalParticipant.ts and Room.ts do about a track: one camera or     *)
(* microphone track of the page, the device it captures, and what of it is sent. *)
(* Every operation on a track is asynchronous; each that is under way is a task,   *)
(* and muteLock, trackChangeLock and senderLock serve their tasks in order.        *)
(*                                                                         *)
(* A media is a MediaStreamTrack, numbered as they are made. Captured media and    *)
(* clones keep the device in use until they are stopped. pauseUpstreamLock is left *)
(* out: what it guards is one step here, as calls on a sender take effect in order.*)
(***************************************************************************)
EXTENDS Integers, Sequences

CONSTANTS
  Devices,   \* devices of the kind of the track
  Fallback,  \* the device that "default" names
  MaxMedia,  \* bound: media made
  MaxTasks,  \* bound: operations under way at a time
  Sessions   \* bound: the sessions to explore, see TracksInit

Unset == "unset"

ASSUME DeviceAssumption ==
  /\ Fallback \in Devices /\ Unset \notin Devices
  /\ MaxMedia \in Nat /\ MaxTasks \in Nat \ {0}
  /\ \A s \in Sessions :
       s.creates \in BOOLEAN /\ s.kind \in [camera : BOOLEAN, stopOnMute : BOOLEAN, mobile : BOOLEAN, processor : BOOLEAN]

VARIABLES
  left,      \* bound: what of each kind may still happen
  kind,      \* of the track: camera or not, stopOnMute, on a phone, with a processor from the start
  media,     \* the media made so far
  track,     \* the fields of the LocalTrack
  backup,    \* simulcastCodecs: the media of the backup codec, or 0, and whether it has a sender
  sends,     \* what the senders send, the device whose size the encodings of the sender are for, and
             \* lastEncodedDimensions, the device they were last computed for
  layers,    \* which layers the senders send
  asked,     \* subscribedCodecs
  timers,    \* the debounced mute handler, and the refresh after a new codec
  task,      \* the operations under way
  lock,      \* the tasks that hold (first) or wait for a lock
  muted,     \* the server: whether the track is muted
  active,    \* activeDeviceMap
  hidden,    \* the page is in the background
  history    \* what the properties look back on

options   == <<kind, left>>
sending   == <<sends, layers, asked>>
outside   == <<active, hidden>>
tasks     == <<task, lock>>
trackVars == <<options, media, track, backup, sending, timers, tasks, muted, outside, history>>

Tasks     == 1..MaxTasks
Processed == -1    \* sent: what a processor makes of the media
Idle      == [op |-> "idle", at |-> "none", m |-> 0, device |-> Unset, codecs |-> {}]
NoBackup  == [m |-> 0, sender |-> FALSE]
Uses(what) == left[what] > 0 /\ left' = [left EXCEPT ![what] = @ - 1]

Captured(d) == [device |-> d, live |-> TRUE, enabled |-> TRUE, silent |-> FALSE, by |-> "sdk"]
NewTrack(m, d) ==
  [m |-> m, published |-> TRUE, muted |-> FALSE, paused |-> FALSE, device |-> d, pendingDevice |-> FALSE,
   stopped |-> FALSE, user |-> FALSE, processor |-> FALSE, reacquire |-> FALSE]
NoTrack == [NewTrack(0, Unset) EXCEPT !.published = FALSE]

TracksInit ==
  \E s \in Sessions :
    /\ left = s.left /\ kind = s.kind
    /\ media = IF s.creates THEN <<>> ELSE <<Captured(Fallback)>>
    /\ track = IF s.creates THEN NoTrack ELSE NewTrack(1, Fallback)
    /\ sends = [main |-> IF s.creates THEN 0 ELSE 1, backup |-> 0, scaled |-> Fallback, encoded |-> Fallback]
    /\ task = [i \in Tasks |-> IF s.creates /\ i = 1
                 THEN [Idle EXCEPT !.op = "create", !.at = "acquire", !.device = "exact"] ELSE Idle]
    /\ lock = [l \in {"mute", "change", "sender"} |-> <<>>]
    /\ backup = NoBackup
    /\ layers = [main |-> "all", backup |-> TRUE, performance |-> FALSE] /\ asked = {"main"}
    /\ timers = [mute |-> FALSE, refresh |-> FALSE]
    /\ muted = FALSE /\ active = Fallback /\ hidden = FALSE
    /\ history = [heard |-> IF s.creates THEN {} ELSE {1}, lost |-> {}, wanted |-> Fallback, failed |-> FALSE,
                  raced |-> FALSE, dropped |-> FALSE, bypassed |-> FALSE, outrun |-> FALSE, resized |-> FALSE,
                  missed |-> FALSE, revived |-> FALSE]

-----------------------------------------------------------------------------
(* Tasks and their locks. *)

Spare == {i \in Tasks : task[i].op = "idle"}

Begins(t) ==
  LET i == CHOOSE k \in Spare : TRUE IN
  /\ Spare # {}
  /\ task' = [task EXCEPT ![i] = t]
  /\ lock' = [l \in DOMAIN lock |-> IF l = t.at THEN Append(lock[l], i) ELSE lock[l]]

\* Task i frees locks and goes on as t, which may wait for a lock.
GoesOn(i, frees, t) ==
  /\ task' = [task EXCEPT ![i] = t]
  /\ lock' = [l \in DOMAIN lock |-> LET rest == IF l \in frees THEN Tail(lock[l]) ELSE lock[l]
                                   IN IF l = t.at THEN Append(rest, i) ELSE rest]

Enters(i, l) == task[i].at = l /\ Head(lock[l]) = i
Reaches(i, at) == task' = [task EXCEPT ![i].at = at] /\ UNCHANGED lock
Call(op, at) == [Idle EXCEPT !.op = op, !.at = at]

Ended(md, S) == [m \in DOMAIN md |-> IF m \in S THEN [md[m] EXCEPT !.live = FALSE] ELSE md[m]]
Enabled(md, S, v) == [m \in DOMAIN md |-> IF m \in S THEN [md[m] EXCEPT !.enabled = v] ELSE md[m]]
OwnMedia == {track.m, backup.m}
Changing == lock["change"] # <<>>

-----------------------------------------------------------------------------
(* Muting and pausing. *)

StopsOnMute == ~track.user /\ (kind.camera \/ kind.stopOnMute)
Reacquires == ~track.user /\ (kind.camera \/ kind.stopOnMute \/ ~media[track.m].live \/ track.pendingDevice)

\* setTrackMuted, and onTrackMuted or onTrackUnmuted
SetTrackMuted(md, v) ==
  /\ track' = [track EXCEPT !.muted = v]
  /\ media' = Enabled(md, OwnMedia, ~v)
  /\ muted' = (v \/ track.paused)

Mute ==
  /\ Uses("mute") /\ track.published
  /\ Begins(Call("mute", "mute"))
  /\ UNCHANGED <<kind, media, track, backup, sending, timers, muted, outside, history>>

MuteEnters(i) ==
  /\ task[i].op = "mute" /\ Enters(i, "mute")
  /\ IF track.muted THEN UNCHANGED <<track, media, muted, history>>
     ELSE /\ SetTrackMuted(IF StopsOnMute THEN Ended(media, {track.m}) ELSE media, TRUE)
          /\ history' = [history EXCEPT !.raced = @ \/ Changing]
  /\ GoesOn(i, {"mute"}, Idle)
  /\ UNCHANGED <<options, backup, sending, timers, outside>>

Unmute ==
  /\ Uses("mute") /\ track.published
  /\ Begins(Call("unmute", "mute"))
  /\ UNCHANGED <<kind, media, track, backup, sending, timers, muted, outside, history>>

\* The restart of a track that was stopped forgets that it was.
Revives ==
  /\ track' = [track EXCEPT !.stopped = FALSE]
  /\ history' = [history EXCEPT !.revived = @ \/ ~track.published]

\* A track that has to be acquired again holds muteLock until it is.
UnmuteEnters(i) ==
  /\ task[i].op = "unmute" /\ Enters(i, "mute")
  /\ IF track.muted /\ Reacquires
       THEN GoesOn(i, {}, [task[i] EXCEPT !.at = "change"]) /\ Revives /\ UNCHANGED <<media, muted>>
       ELSE /\ GoesOn(i, {"mute"}, Idle) /\ UNCHANGED history
            /\ IF track.muted THEN SetTrackMuted(media, FALSE) ELSE UNCHANGED <<track, media, muted>>
  /\ UNCHANGED <<options, backup, sending, timers, outside>>

\* pauseUpstream, if the track has a sender; onTrackUpstreamPaused
Pauses ==
  IF track.paused \/ ~track.published THEN UNCHANGED <<track, muted, sends>>
  ELSE /\ track' = [track EXCEPT !.paused = TRUE] /\ muted' = TRUE
       /\ sends' = [sends EXCEPT !.main = 0, !.backup = 0]

Current(tr) == IF tr.processor THEN Processed ELSE tr.m

\* resumeUpstream, which sends the clones also if the track was not paused
ResumedSends ==
  IF ~track.published THEN sends
  ELSE [sends EXCEPT !.main = IF track.paused THEN Current(track) ELSE @, !.backup = IF backup.sender THEN backup.m ELSE @]

Resumes ==
  /\ sends' = ResumedSends
  /\ IF track.paused /\ track.published THEN track' = [track EXCEPT !.paused = FALSE] /\ muted' = track.muted
     ELSE UNCHANGED <<track, muted>>

PauseUpstream ==
  /\ Uses("pause") /\ track.published /\ Pauses
  /\ UNCHANGED <<kind, media, backup, layers, asked, timers, tasks, outside, history>>

ResumeUpstream ==
  /\ Uses("pause") /\ track.published /\ Resumes
  /\ history' = [history EXCEPT !.outrun = @ \/ (track.paused /\ \E i \in Tasks : task[i].at = "replaced")]
  /\ UNCHANGED <<kind, media, backup, layers, asked, timers, tasks, outside>>

\* The browser says that the device gives nothing, and that it does again.
DeviceMutes ==
  /\ Uses("device") /\ track.m \in history.heard /\ media[track.m].live /\ ~media[track.m].silent
  /\ media' = [media EXCEPT ![track.m].silent = TRUE]
  /\ timers' = [timers EXCEPT !.mute = TRUE]
  /\ UNCHANGED <<kind, track, backup, sending, tasks, muted, outside, history>>

MuteTimer ==
  /\ timers.mute /\ timers' = [timers EXCEPT !.mute = FALSE]
  /\ Pauses
  /\ UNCHANGED <<options, media, backup, layers, asked, tasks, outside, history>>

DeviceUnmutes(m) ==
  /\ media[m].silent /\ media[m].live
  /\ media' = [media EXCEPT ![m].silent = FALSE]
  /\ IF m = track.m /\ m \in history.heard THEN timers' = [timers EXCEPT !.mute = FALSE] /\ Resumes
     ELSE UNCHANGED <<timers, track, muted, sends>>
  /\ UNCHANGED <<options, backup, layers, asked, tasks, outside, history>>

-----------------------------------------------------------------------------
(* Another media: restart, replaceTrack, setProcessor and stopProcessor. *)

Restarts == {"unmute", "device", "restart", "ended", "reacquire"}
\* The microphone that ended falls back to the default device.
FallsBack(t) == t.op = "ended" /\ ~kind.camera

\* setDeviceId, for switchActiveDevice
SetDeviceId(d) ==
  /\ Uses("switch") /\ track.published /\ (track.device # d \/ media[track.m].device # d)
  /\ history' = [history EXCEPT !.wanted = d, !.raced = @ \/ Changing]
  /\ IF track.muted
       THEN /\ track' = [track EXCEPT !.device = d, !.pendingDevice = TRUE]
            /\ active' = d /\ UNCHANGED tasks
       ELSE /\ track' = [track EXCEPT !.device = d, !.stopped = FALSE]
            /\ Begins(Call("device", "change")) /\ UNCHANGED active
  /\ UNCHANGED <<kind, media, backup, sending, timers, muted, hidden>>

RestartTrack ==
  /\ Uses("restart") /\ track.published /\ ~track.muted
  /\ track' = [track EXCEPT !.stopped = FALSE]
  /\ Begins(Call("restart", "change"))
  /\ UNCHANGED <<kind, media, backup, sending, timers, muted, outside, history>>

\* A device is unplugged, or its use is revoked: handleEnded and handleTrackEnded.
MediaEnds(m) ==
  /\ Uses("device") /\ media[m].live
  /\ media' = Ended(media, {m})
  /\ IF m \notin history.heard \/ ~track.published \/ (track.muted /\ ~track.user)
       THEN /\ history' = [history EXCEPT !.heard = @ \ {m}, !.lost = @ \union (IF Changing \/ ~track.published THEN {m} ELSE {})]
            /\ UNCHANGED <<track, tasks>>
       ELSE IF track.user THEN /\ Begins(Call("mute", "mute")) /\ UNCHANGED track
                               /\ history' = [history EXCEPT !.heard = @ \ {m}]
       ELSE /\ Begins([Call("ended", "change") EXCEPT !.device = IF kind.camera THEN Unset ELSE Fallback])
            /\ track' = [track EXCEPT !.stopped = FALSE, !.reacquire = @ \/ hidden]
            /\ history' = [history EXCEPT !.heard = @ \ {m}, !.raced = @ \/ Changing,
                                          !.wanted = IF kind.camera THEN @ ELSE Fallback]
  /\ UNCHANGED <<kind, backup, sending, timers, muted, outside>>

\* restart stops what it has before it asks for the device.
RestartEnters(i) ==
  /\ task[i].op \in Restarts /\ Enters(i, "change")
  /\ task' = [task EXCEPT ![i].at = "acquire", ![i].device = IF @ = Unset THEN track.device ELSE @]
  /\ media' = Ended(media, {track.m})
  /\ history' = [history EXCEPT !.heard = @ \ {track.m}]
  /\ UNCHANGED <<options, track, backup, sending, timers, lock, muted, outside>>

\* Mutant: a restart that fails keeps trackChangeLock.
ChangeFailsForGood(i) ==
  GoesOn(i, IF task[i].op = "unmute" THEN {"mute"} ELSE {}, IF task[i].op = "ended" THEN Call("mute", "mute") ELSE Idle)

\* A restart that fails leaves the track as it is: an ended track is muted then.
ChangeFails(i) ==
  LET frees == IF task[i].op = "unmute" THEN {"mute", "change"} ELSE {"change"}
  IN GoesOn(i, frees, IF task[i].op = "ended" THEN Call("mute", "mute") ELSE Idle)

\* setMediaStreamTrack for media m of md, up to the first wait; tr is the track until then, with the
\* constraints of m. What it is restarted with is remembered, as setDeviceId changes the same object
\* until here.
Sets(i, m, md, tr) ==
  /\ media' = md
  /\ task' = [task EXCEPT ![i].m = m, ![i].at = IF tr.processor THEN "process" ELSE "replaced",
                          ![i].device = IF task[i].op \in Restarts /\ ~FallsBack(task[i]) THEN track.device ELSE @]
  /\ track' = tr
  /\ sends' = IF track.published /\ ~tr.processor THEN [sends EXCEPT !.main = m] ELSE sends
  /\ timers' = [timers EXCEPT !.mute = FALSE]
  /\ history' = [history EXCEPT !.heard = (@ \ {track.m}) \union (IF md[m].live THEN {m} ELSE {}), !.outrun = FALSE,
                             !.dropped = @ \/ (task[i].op \in {"unprocess", "processor"} /\ tr.device # track.device)]
  /\ UNCHANGED <<options, backup, layers, asked, lock, muted, outside>>

Acquired(i) ==
  /\ task[i].op \in Restarts /\ task[i].at = "acquire" /\ Len(media) < MaxMedia
  /\ Sets(i, Len(media) + 1, Append(media, Captured(task[i].device)), [track EXCEPT !.device = task[i].device])

\* The device is not to be had, or cannot be set up; then its media is forgotten. What was asked for
\* before a fallback that fails is asked for still.
AcquireFails(i) ==
  /\ task[i].op \in Restarts /\ task[i].at = "acquire" /\ Uses("fail")
  /\ ChangeFails(i)
  /\ \E forgotten \in {FALSE, kind.camera /\ Len(media) < MaxMedia} :
       /\ media' = IF forgotten THEN Append(media, Captured(task[i].device)) ELSE media
       /\ history' = [history EXCEPT !.failed = TRUE, !.lost = IF forgotten THEN @ \union {Len(media) + 1} ELSE @,
                                     !.wanted = IF FallsBack(task[i]) THEN track.device ELSE @]
  /\ UNCHANGED <<kind, track, backup, sending, timers, muted, outside>>

\* The processor takes the new media, unless it fails or was destroyed meanwhile.
Reprocessed(i) ==
  /\ task[i].at = "process" /\ track.processor
  /\ sends' = IF track.published THEN [sends EXCEPT !.main = Processed] ELSE sends
  /\ Reaches(i, "replaced")
  /\ UNCHANGED <<options, media, track, backup, layers, asked, timers, muted, outside, history>>

ProcessFails(i) ==
  /\ task[i].at = "process" /\ (IF track.processor THEN Uses("fail") ELSE UNCHANGED left)
  /\ ChangeFails(i)
  /\ history' = [history EXCEPT !.failed = TRUE, !.lost = @ \union ({task[i].m} \ OwnMedia)]
  /\ UNCHANGED <<kind, media, track, backup, sending, timers, muted, outside>>

\* The sender has the new media. The one before it is stopped unless the new one is the user's.
Replaced(i) ==
  LET m == task[i].m old == {track.m} \ {m} IN
  /\ task[i].at = "replaced"
  /\ track' = [track EXCEPT !.m = m]
  /\ media' = Enabled(IF track.user THEN media ELSE Ended(media, old), {m}, task[i].op = "unmute" \/ ~track.muted)
  /\ history' = [history EXCEPT !.heard = @ \ old,
                   !.lost = IF track.user THEN @ \union {k \in old : media[k].by = "sdk"} ELSE @]
  /\ Reaches(i, "resume")
  /\ UNCHANGED <<options, backup, sending, timers, muted, outside>>

ReplaceTrack(d) ==
  /\ Uses("replace") /\ track.published /\ Len(media) < MaxMedia
  /\ Begins([Call("replace", "change") EXCEPT !.device = d])
  /\ UNCHANGED <<kind, media, track, backup, sending, timers, muted, outside, history>>

ReplaceEnters(i) ==
  /\ task[i].op = "replace" /\ Enters(i, "change") /\ Len(media) < MaxMedia /\ track.published
  /\ Sets(i, Len(media) + 1, Append(media, [Captured(task[i].device) EXCEPT !.by = "user"]),
          [track EXCEPT !.user = TRUE, !.device = task[i].device])

\* An unpublished track is refused.
ReplaceRefused(i) ==
  /\ task[i].op = "replace" /\ Enters(i, "change") /\ ~track.published
  /\ GoesOn(i, {"change"}, Idle)
  /\ UNCHANGED <<options, media, track, backup, sending, timers, muted, outside, history>>

\* onSenderTrackSwapped: the encodings of a published camera are computed anew.
Refreshes(i, frees) ==
  LET does == kind.camera /\ track.published IN
  /\ GoesOn(i, frees, IF does /\ ~layers.performance THEN [task[i] EXCEPT !.at = "sender", !.m = 0] ELSE Idle)

\* A track stopped during its restart is stopped again at the end.
Stops(t) == t.op \in Restarts /\ track.stopped

\* Mutant: setMediaStreamTrack does not resume.
StillPaused == track.paused

\* Only a track without a sender stays paused when its media is set.
StaysPaused == track.paused /\ ~track.published

\* The end of setMediaStreamTrack, and of what it was called for. A restart ends with Restarted,
\* stops what was stopped meanwhile, and unmutes what it was to unmute.
ChangeEnds(i) ==
  LET t == task[i] restarts == t.op \in Restarts stops == Stops(t) unmutes == t.op = "unmute" IN
  /\ t.at = "resume"
  /\ track' = [track EXCEPT !.paused = StaysPaused, !.muted = @ /\ ~unmutes,
                            !.device = IF restarts THEN t.device ELSE @, !.pendingDevice = @ /\ ~restarts,
                            !.reacquire = @ /\ t.op # "reacquire", !.processor = @ /\ ~stops]
  /\ sends' = ResumedSends
  /\ muted' = IF unmutes THEN track'.paused ELSE IF track.paused /\ track.published THEN track.muted ELSE muted
  /\ media' = LET md == IF unmutes THEN Enabled(media, OwnMedia, TRUE) ELSE media IN IF stops THEN Ended(md, OwnMedia) ELSE md
  /\ active' = IF restarts /\ track.published THEN media[t.m].device ELSE active
  /\ history' = [history EXCEPT !.heard = IF stops THEN @ \ {t.m} ELSE @, !.failed = @ /\ ~restarts,
                   !.resized = IF t.op \in {"unmute", "reacquire"} THEN media[t.m].device # sends.scaled ELSE @]
  /\ IF unmutes THEN GoesOn(i, {"mute", "change"}, Idle)
     ELSE IF t.op \in {"device", "restart", "ended"} THEN GoesOn(i, {"change"}, [t EXCEPT !.at = "clone"])
     ELSE IF t.op = "reacquire" THEN GoesOn(i, {"change"}, Idle)
     ELSE IF t.op = "processor" THEN Reaches(i, "install")
     ELSE Refreshes(i, {"change"})
  /\ UNCHANGED <<options, backup, layers, asked, timers, hidden>>

\* restartTrack gives the backup codec a clone of the new media; nothing stops the one it had.
Recloned(i) ==
  /\ task[i].at = "clone" /\ (backup.sender => Len(media) < MaxMedia)
  /\ IF backup.sender
       THEN /\ media' = Append(media, media[track.m])
            /\ backup' = [backup EXCEPT !.m = Len(media) + 1]
            /\ sends' = [sends EXCEPT !.backup = Len(media) + 1]
            /\ history' = [history EXCEPT !.lost = @ \union {backup.m}, !.bypassed = @ \/ track.paused]
       ELSE UNCHANGED <<media, backup, sends, history>>
  /\ Refreshes(i, {})
  /\ UNCHANGED <<options, track, layers, asked, timers, muted, outside>>

SetProcessor ==
  /\ Uses("processor") /\ track.published
  /\ Begins(Call("processor", "change"))
  /\ UNCHANGED <<kind, media, track, backup, sending, timers, muted, outside, history>>

ProcessorEnters(i) ==
  /\ task[i].op = "processor" /\ Enters(i, "change")
  /\ Reaches(i, "init")
  /\ UNCHANGED <<options, media, track, backup, sending, timers, muted, outside, history>>

\* What the processor makes is sent, also of a track that is paused.
Installs(i) ==
  /\ track' = [track EXCEPT !.processor = TRUE]
  /\ sends' = IF ~track.published THEN sends
              ELSE [sends EXCEPT !.main = Processed, !.backup = IF backup.sender THEN Processed ELSE @]
  /\ history' = [history EXCEPT !.bypassed = @ \/ track.paused]
  /\ Refreshes(i, {"change"})

\* The processor that is in use is stopped first.
Inited(i) ==
  /\ task[i].op = "processor" /\ task[i].at = "init"
  /\ IF track.processor THEN Reaches(i, "destroy") /\ UNCHANGED <<track, sends, history>> ELSE Installs(i)
  /\ UNCHANGED <<options, media, backup, layers, asked, timers, muted, outside>>

Installed(i) ==
  /\ task[i].at = "install" /\ Installs(i)
  /\ UNCHANGED <<options, media, backup, layers, asked, timers, muted, outside>>

InitFails(i) ==
  /\ task[i].op = "processor" /\ task[i].at = "init" /\ Uses("fail")
  /\ GoesOn(i, {"change"}, Idle)
  /\ UNCHANGED <<kind, media, track, backup, sending, timers, muted, outside, history>>

StopProcessor ==
  /\ Uses("processor") /\ track.published
  /\ Begins(Call("unprocess", "change"))
  /\ UNCHANGED <<kind, media, track, backup, sending, timers, muted, outside, history>>

\* internalStopProcessor sets the media it has again, which resumes the upstream.
UnprocessEnters(i) ==
  /\ task[i].op = "unprocess" /\ Enters(i, "change")
  /\ IF track.processor THEN Reaches(i, "destroy") ELSE Refreshes(i, {"change"})
  /\ UNCHANGED <<options, media, track, backup, sending, timers, muted, outside, history>>

\* The constraints of the track are those it was asked for, if the browser could apply them.
Destroyed(i) ==
  /\ task[i].at = "destroy"
  /\ \E d \in {track.device, media[track.m].device} :
       Sets(i, track.m, media, [track EXCEPT !.processor = FALSE, !.device = d])

\* The processor cannot be destroyed, or the constraints cannot be applied after.
DestroyFails(i) ==
  /\ task[i].at = "destroy" /\ Uses("fail")
  /\ GoesOn(i, {"change"}, Idle)
  /\ track' \in {track, [track EXCEPT !.processor = FALSE]}
  /\ history' = [history EXCEPT !.failed = TRUE]
  /\ UNCHANGED <<kind, media, backup, sending, timers, muted, outside>>

\* unpublishTrack stops the track; what is under way goes on without a sender.
Unpublish ==
  /\ Uses("stop") /\ track.published
  /\ track' = [track EXCEPT !.published = FALSE, !.stopped = TRUE, !.processor = FALSE]
  /\ media' = Ended(media, OwnMedia) /\ backup' = NoBackup
  /\ sends' = [sends EXCEPT !.main = 0, !.backup = 0]
  /\ history' = [history EXCEPT !.heard = @ \ {track.m}]
  /\ UNCHANGED <<kind, layers, asked, timers, tasks, muted, outside>>

\* On a phone, a camera gives nothing while the page is hidden, and is acquired again after.
Hide ==
  /\ Uses("page") /\ kind.mobile /\ ~hidden /\ track.published
  /\ hidden' = TRUE
  /\ media' = IF kind.camera THEN Enabled(media, {track.m}, FALSE) ELSE media
  /\ UNCHANGED <<kind, track, backup, sending, timers, tasks, muted, active, history>>

NeedsReAcquisition == LET md == media[track.m] IN ~md.live \/ md.silent \/ ~md.enabled \/ track.reacquire

Show ==
  /\ hidden /\ hidden' = FALSE
  /\ IF NeedsReAcquisition /\ ~track.user /\ ~track.muted
       THEN Begins(Call("reacquire", "change")) /\ Revives
       ELSE UNCHANGED <<tasks, track, history>>
  /\ UNCHANGED <<options, media, backup, sending, timers, muted, active>>

-----------------------------------------------------------------------------
(* createLocalTracks: the device that was asked for, or else any; then the processor. *)

CreateAcquires(i) ==
  LET m == Len(media) + 1 IN
  /\ task[i].op = "create" /\ task[i].at = "acquire" /\ m <= MaxMedia
  /\ media' = Append(media, Captured(Fallback))
  /\ history' = [history EXCEPT !.heard = @ \union {m}]
  /\ IF kind.processor
       THEN /\ track' = [NewTrack(m, Fallback) EXCEPT !.published = FALSE]
            /\ Reaches(i, "init") /\ UNCHANGED sends
       ELSE /\ track' = NewTrack(m, Fallback)
            /\ sends' = [sends EXCEPT !.main = m]
            /\ GoesOn(i, {}, Idle)
  /\ UNCHANGED <<options, backup, layers, asked, timers, muted, outside>>

\* Only who asked for a device by its name tries again.
CreateAgain(i) ==
  GoesOn(i, {}, IF task[i].device = "exact" THEN [task[i] EXCEPT !.at = "acquire", !.device = "ideal"] ELSE Idle)

CreateFails(i) ==
  /\ task[i].op = "create" /\ task[i].at = "acquire" /\ Uses("fail")
  /\ CreateAgain(i)
  /\ UNCHANGED <<kind, media, track, backup, sending, timers, muted, outside, history>>

Created(i) ==
  /\ task[i].op = "create" /\ task[i].at = "init"
  /\ track' = [track EXCEPT !.published = TRUE, !.processor = TRUE]
  /\ sends' = [sends EXCEPT !.main = Processed]
  /\ GoesOn(i, {}, Idle)
  /\ UNCHANGED <<options, media, backup, layers, asked, timers, muted, outside, history>>

CreateInitFails(i) ==
  /\ task[i].op = "create" /\ task[i].at = "init" /\ Uses("fail")
  /\ CreateAgain(i)
  /\ track' = NoTrack
  /\ history' = [history EXCEPT !.lost = @ \union {track.m}]
  /\ UNCHANGED <<kind, media, backup, sending, timers, muted, outside>>

-----------------------------------------------------------------------------
(* What of a camera is sent: dynacast, a backup codec, and performance before quality. *)

\* setPublishingCodecs for codecs C up to the first wait
SetsCodecs(op, C) ==
  /\ asked' = C
  /\ Begins([Call(op, IF layers.performance \/ ~track.published THEN "codec" ELSE "sender") EXCEPT !.codecs = C])

SubscribedQuality(C) ==
  /\ Uses("quality") /\ kind.camera /\ track.published
  /\ SetsCodecs("quality", C)
  /\ UNCHANGED <<kind, media, track, backup, sends, layers, timers, muted, outside, history>>

RefreshTimer ==
  /\ timers.refresh /\ timers' = [timers EXCEPT !.refresh = FALSE]
  /\ SetsCodecs("refresh", asked)
  /\ UNCHANGED <<options, media, track, backup, sends, layers, muted, outside, history>>

\* The backup codec is next, which may have to be published first.
NextCodec(i, frees) ==
  LET publishes == task[i].op = "quality" /\ "backup" \in task[i].codecs /\ backup.m = 0 /\ track.published IN
  /\ publishes => Len(media) < MaxMedia
  /\ IF publishes
       THEN /\ media' = Append(media, media[track.m])
            /\ backup' = [m |-> Len(media) + 1, sender |-> FALSE]
       ELSE UNCHANGED <<media, backup>>
  /\ GoesOn(i, frees, IF publishes THEN Call("publish", "negotiate")
                     ELSE IF backup.sender THEN [task[i] EXCEPT !.op = "codec", !.at = "sender"] ELSE Idle)

LayersSet(i) ==
  /\ task[i].op \in {"quality", "refresh"} /\ Enters(i, "sender")
  /\ layers' = [layers EXCEPT !.main = IF ~track.published THEN @ ELSE IF "main" \in task[i].codecs THEN "all" ELSE "off"]
  /\ NextCodec(i, {"sender"})
  /\ UNCHANGED <<options, track, sends, asked, timers, muted, outside, history>>

LayersSkipped(i) ==
  /\ task[i].at = "codec"
  /\ NextCodec(i, {})
  /\ UNCHANGED <<options, track, sending, timers, muted, outside, history>>

CodecSet(i) ==
  /\ task[i].op = "codec" /\ Enters(i, "sender")
  /\ layers' = [layers EXCEPT !.backup = "backup" \in task[i].codecs]
  /\ GoesOn(i, {"sender"}, Idle)
  /\ UNCHANGED <<options, media, track, backup, sends, asked, timers, muted, outside, history>>

\* setSimulcastTrackSender: the browser sends all layers of a new codec, so they are set again later.
CodecPublished(i) ==
  /\ task[i].at = "negotiate"
  /\ IF backup.m = 0 THEN UNCHANGED <<backup, sends, layers, timers, history>>
     ELSE /\ backup' = [backup EXCEPT !.sender = TRUE]
          /\ history' = [history EXCEPT !.bypassed = @ \/ track.paused]
          /\ sends' = [sends EXCEPT !.backup = backup.m]
          /\ layers' = [layers EXCEPT !.backup = TRUE]
          /\ timers' = [timers EXCEPT !.refresh = TRUE]
  /\ GoesOn(i, {}, Idle)
  /\ UNCHANGED <<options, media, track, asked, muted, outside>>

CodecFails(i) ==
  /\ task[i].at = "negotiate" /\ Uses("fail")
  /\ GoesOn(i, {}, Idle)
  /\ UNCHANGED <<kind, media, track, backup, sending, timers, muted, outside, history>>

PrioritizePerformance ==
  /\ Uses("performance") /\ kind.camera /\ track.published
  /\ Begins(Call("performance", "sender"))
  /\ UNCHANGED <<kind, media, track, backup, sending, timers, muted, outside, history>>

PerformanceSet(i) ==
  /\ task[i].op = "performance" /\ Enters(i, "sender")
  /\ layers' = [layers EXCEPT !.performance = TRUE, !.main = IF track.published THEN "low" ELSE @]
  /\ GoesOn(i, {"sender"}, Idle)
  /\ UNCHANGED <<options, media, track, backup, sends, asked, timers, muted, outside, history>>

Swaps == {"device", "restart", "ended", "replace", "processor", "unprocess"}

\* refreshSenderEncodings holds senderLock while it waits for the size of the media.
RefreshEnters(i) ==
  /\ task[i].op \in Swaps /\ Enters(i, "sender")
  /\ Reaches(i, "dimensions")
  /\ UNCHANGED <<options, media, track, backup, sending, timers, muted, outside, history>>

\* Nothing is computed for the size it was last computed for. Layers that are off keep what they had.
Refreshed(i) ==
  LET d == media[track.m].device computes == track.published /\ d # sends.encoded IN
  /\ task[i].at = "dimensions"
  /\ sends' = IF computes THEN [sends EXCEPT !.encoded = d, !.scaled = IF layers.main = "off" THEN @ ELSE d] ELSE sends
  /\ history' = [history EXCEPT !.resized = FALSE, !.missed = IF computes THEN layers.main = "off" ELSE @]
  /\ GoesOn(i, {"sender"}, Idle)
  /\ UNCHANGED <<options, media, track, backup, layers, asked, timers, muted, outside>>

\* The media does not tell its size in time, or the sender refuses the encodings.
RefreshFails(i) ==
  /\ task[i].at = "dimensions" /\ Uses("fail")
  /\ GoesOn(i, {"sender"}, Idle)
  /\ history' = [history EXCEPT !.resized = @ \/ media[track.m].device # sends.scaled]
  /\ UNCHANGED <<kind, media, track, backup, sending, timers, muted, outside>>

-----------------------------------------------------------------------------
Application ==
  \/ Mute \/ Unmute \/ PauseUpstream \/ ResumeUpstream \/ RestartTrack \/ SetProcessor \/ StopProcessor
  \/ Unpublish \/ PrioritizePerformance
  \/ \E d \in Devices : SetDeviceId(d) \/ ReplaceTrack(d)

Browser ==
  \/ DeviceMutes \/ Hide
  \/ \E m \in DOMAIN media : MediaEnds(m)
  \/ \E C \in SUBSET {"main", "backup"} : SubscribedQuality(C)

Failures(i) ==
  \/ AcquireFails(i) \/ ProcessFails(i) \/ InitFails(i) \/ DestroyFails(i) \/ CreateFails(i) \/ CreateInitFails(i)
  \/ CodecFails(i) \/ RefreshFails(i)

\* Every device, processor, sender and timer answers some day, if not with a failure.
Progress ==
  \/ \E i \in Tasks :
       \/ MuteEnters(i) \/ UnmuteEnters(i) \/ RestartEnters(i) \/ Acquired(i) \/ Reprocessed(i) \/ Replaced(i)
       \/ ChangeEnds(i) \/ Recloned(i) \/ ReplaceEnters(i) \/ ReplaceRefused(i) \/ ProcessorEnters(i) \/ Inited(i) \/ Installed(i) \/ UnprocessEnters(i)
       \/ Destroyed(i) \/ CreateAcquires(i) \/ Created(i) \/ LayersSet(i) \/ LayersSkipped(i) \/ CodecSet(i)
       \/ CodecPublished(i) \/ PerformanceSet(i) \/ RefreshEnters(i) \/ Refreshed(i) \/ Failures(i)
  \/ MuteTimer \/ RefreshTimer

TracksNext == Application \/ Browser \/ Show \/ (\E m \in DOMAIN media : DeviceUnmutes(m)) \/ Progress
TracksSpec == TracksInit /\ [][TracksNext]_trackVars
TracksFairSpec == TracksSpec /\ WF_trackVars(Progress)

-----------------------------------------------------------------------------
\* Every variable has its type, and a lock is held by one task and waited for by tasks that say so.
TracksTypeOK ==
  /\ track.m \in 0..Len(media) /\ backup.m \in 0..Len(media)
  /\ sends.main \in Processed..Len(media) /\ sends.backup \in Processed..Len(media) /\ sends.scaled \in Devices
  /\ layers.main \in {"all", "low", "off"} /\ asked \subseteq {"main", "backup"}
  /\ history.heard \union history.lost \subseteq DOMAIN media
  /\ \A l \in DOMAIN lock :
       /\ \A j \in DOMAIN lock[l] : task[lock[l][j]].op # "idle"
       /\ \A j \in DOMAIN lock[l] : j > 1 => task[lock[l][j]].at = l
  /\ \A i \in Tasks : task[i].at \in DOMAIN lock => \E j \in DOMAIN lock[task[i].at] : lock[task[i].at][j] = i

\* Nothing is under way, and the page is shown.
Quiet == (\A i \in Tasks : task[i].op = "idle") /\ ~timers.mute /\ ~timers.refresh /\ ~hidden

\* A device is used for nothing but the media of the track, its clone, and those the code forgets: of
\* a failed restart or creation, the clone before a restart, and what the user's own media replaces.
CapturesAreKnown ==
  \A m \in DOMAIN media : media[m].live /\ media[m].by = "sdk" =>
    m \in OwnMedia \union history.lost \union {task[i].m : i \in Tasks}

\* A track that was unpublished uses no device once nothing is under way, whatever was when it was
\* unpublished, but for a media of the user's own; unless an unmute that waited then, or the page that
\* is shown again, acquired it anew. The device that is stopped on mute is stopped, unless it was muted
\* during a change, and what is left of it, as a backup codec's clone, gives nothing while it is muted.
StoppedUsesNothing ==
  Quiet /\ track.m # 0 =>
    /\ ~track.published /\ ~track.user /\ ~history.revived => ~media[track.m].live
    /\ track.muted /\ StopsOnMute /\ ~history.raced => ~media[track.m].live
    /\ track.muted => \A m \in OwnMedia \ {0} : ~media[m].enabled

\* A published track that is not muted or paused sends what it captures, through its processor if it
\* has one, once nothing is under way; unless its last restart failed, or its new media ended before
\* the restart did, which leave it ended, or it was resumed while its media was being replaced. On a
\* phone, the user's own camera stays disabled once the page was hidden.
UnmutedIsSent ==
  Quiet /\ track.published /\ ~track.muted /\ ~track.paused /\ ~history.failed /\ ~history.outrun =>
    /\ sends.main = Current(track)
    /\ media[track.m].enabled \/ (track.user /\ kind.camera /\ kind.mobile)
    /\ media[track.m].live \/ track.user \/ track.m \in history.lost

\* The device in use, and the one the room calls active, is the last one asked for, unless it was
\* asked for while another change was under way, or a processor stopped meanwhile made the track forget it.
DeviceIsAsAsked ==
  Quiet /\ track.published /\ ~track.muted /\ ~track.user /\ ~history.failed /\ ~history.raced /\ ~history.dropped =>
    media[track.m].device = history.wanted /\ active = history.wanted

\* Devices are used for what was asked, and for as long as it is.
CapturesAreAsAsked == TracksTypeOK /\ CapturesAreKnown /\ StoppedUsesNothing /\ DeviceIsAsAsked

\* No sender of a track whose upstream is paused sends anything, unless it was given a processor, a
\* backup codec or a clone for that codec while it was paused.
PausedSendsNothing == Quiet /\ track.paused /\ ~history.bypassed => sends.main = 0 /\ sends.backup = 0

\* The server holds a published track to be muted exactly if it is muted or paused.
ServerKnowsMute == track.published => (muted <=> track.muted \/ track.paused)

\* Once nothing is under way, the sender's encodings are those for the size of what is sent, unless
\* performance was asked for, an unmute or a page shown again, which do not compute them, changed the
\* device, the computation failed, or the layers were off when they were computed.
EncodingsFitTheSource ==
  Quiet /\ kind.camera /\ track.published /\ ~layers.performance /\ ~history.resized /\ ~history.missed =>
    sends.scaled = media[track.m].device

\* Once nothing is under way the layers that are sent are those last asked for, of a codec that
\* was published meanwhile as well.
LayersAreAsAsked ==
  Quiet /\ track.published /\ ~layers.performance =>
    /\ layers.main = IF "main" \in asked THEN "all" ELSE "off"
    /\ backup.sender => (layers.backup <=> "backup" \in asked)

\* What is sent, and what the server knows of it, is what was asked.
SentIsAsAsked == UnmutedIsSent /\ PausedSendsNothing /\ ServerKnowsMute /\ EncodingsFitTheSource /\ LayersAreAsAsked

\* What a track captures and what is sent of it are as the application asked for.
TracksAreAsAsked == CapturesAreAsAsked /\ SentIsAsAsked

\* Every operation ends, whichever others it waits for and whatever fails.
TasksEnd == []<>(\A i \in Tasks : task[i].op = "idle")
=============================================================================

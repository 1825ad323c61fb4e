------------------------------- MODULE AudioOutput -------------------------------
(***************************************************************************)
(* What the page hears, and on which device: RemoteAudioTrack.ts, DeviceManager.ts, *)
(* and in Room.ts switchActiveDevice for audio outputs, the handler of device       *)
(* changes, startAudio and the audio context.                                *)
(*                                                                         *)
(* People publish one audio track each. The browser serves the setSinkId calls of   *)
(* an element in order, and fails those for a device that is not there any more.    *)
(* It is not Safari. That Chrome gave "default" another label is only reported, and *)
(* is left out. The audio inputs of the same handlers are in LocalTracks.           *)
(***************************************************************************)
EXTENDS Integers, Sequences, FiniteSets, SequencesExt

CONSTANTS
  Outputs,        \* audio output devices
  People,         \* the other participants
  Speakers,       \* audio elements of the page
  Lists,          \* bound: what enumerateDevices may return
  MaxSwitches,    \* bound: calls of switchActiveDevice
  AudioSessions   \* bound: the sessions to explore, see AudioInit

NotChosen == "unset"
Nameless == ""   \* the device id that stands for no device in particular
Free == "free"

\* What devices and people are called, and what a session is. The browser names the default
\* device "default".
ASSUME AudioAssumption ==
  /\ "default" \in Outputs /\ {NotChosen, Nameless, "options"} \intersect Outputs = {} /\ Free \notin People
  /\ \A list \in Lists : list \in Seq(Outputs)
  /\ MaxSwitches \in Nat
  /\ \A s \in AudioSessions : s.plugged \in Seq(Outputs) /\ s.mix \in BOOLEAN /\ s.gesture \in BOOLEAN

VARIABLES
  turns,     \* bound: what of each kind may still happen
  mix,       \* options.webAudioMix
  plugged,   \* the devices there are, in the order of enumerateDevices
  previous,  \* DeviceManager.previousDevices
  choice,    \* options.audioOutput.deviceId
  output,    \* activeDeviceMap: the active audio output
  switches,  \* calls of switchActiveDevice so far
  handlers,  \* the handleDeviceChange that wait for the devices: what previousDevices was
  person,    \* per participant: in the room, its audioOutput, volumeMap
  sound,     \* per participant: its RemoteAudioTrack
  speaker,   \* per element: whose track, device, setSinkId calls under way, volume, muted, play()
  gesture,   \* the browser lets audio play, as the user did something
  enabled,   \* audioEnabled
  context,   \* the audio context
  start,     \* startAudio: idle, or what it waits for
  doubt      \* history: what the properties make exceptions of

devices  == <<plugged, previous, handlers>>
selected == <<choice, output, switches>>
playback == <<gesture, enabled, context, start>>
people   == <<person, sound>>
audio    == <<turns, mix, devices, selected, people, speaker, playback, doubt>>

Absent   == [there |-> FALSE, output |-> NotChosen, volume |-> 0]
NoSound  == [there |-> FALSE, sink |-> NotChosen, volume |-> 0, wired |-> FALSE]
Silent   == [of |-> Free, sink |-> NotChosen, calls |-> <<>>, volume |-> 2, muted |-> FALSE, play |-> "none"]
Takes(what) == turns[what] > 0 /\ turns' = [turns EXCEPT ![what] = @ - 1]

AudioInit ==
  \E s \in AudioSessions :
    /\ turns = s.turns /\ mix = s.mix /\ gesture = s.gesture
    /\ plugged = s.plugged /\ previous = <<>> /\ choice = NotChosen /\ output = "default"
    /\ switches = <<>> /\ handlers = <<>>
    /\ person = [p \in People |-> [Absent EXCEPT !.there = p \in s.present]]
    /\ sound = [p \in People |-> NoSound] /\ speaker = [e \in Speakers |-> Silent]
    /\ context = IF s.gesture THEN "running" ELSE "suspended"
    /\ enabled = s.gesture /\ start = "idle" /\ doubt = {}

-----------------------------------------------------------------------------
(* The device of the elements. *)

On(p, sp) == {e \in Speakers : sp[e].of = p}
Attached(sp) == {e \in Speakers : sp[e].of # Free}
Waiting(c, sp) == {e \in Speakers : \E i \in DOMAIN sp[e].calls : sp[e].calls[i].switch = c}

\* A switch whose last setSinkId is done has made its device the active one.
Settled(sw, sp) ==
  /\ switches' = [c \in DOMAIN sw |-> IF sw[c].at = "switching" /\ Waiting(c, sp) = {} THEN [sw[c] EXCEPT !.at = "done"] ELSE sw[c]]
  /\ LET done == {c \in DOMAIN sw : sw[c].at # switches'[c].at}
     IN output' = IF done = {} THEN output ELSE sw[CHOOSE c \in done : TRUE].device

\* From options.audioOutput on: the option, every participant, track and element gets the device.
Applies(sw, c, d) ==
  /\ choice' = d
  /\ person' = [p \in People |-> IF person[p].there THEN [person[p] EXCEPT !.output = d] ELSE person[p]]
  /\ sound' = [p \in People |-> IF sound[p].there THEN [sound[p] EXCEPT !.sink = d] ELSE sound[p]]
  /\ speaker' = [e \in Speakers |-> IF speaker[e].of = Free THEN speaker[e]
                   ELSE [speaker[e] EXCEPT !.calls = Append(@, [device |-> d, switch |-> c])]]
  /\ Settled([sw EXCEPT ![c].device = d, ![c].prev = output, ![c].at = "switching"], speaker')
  /\ doubt' = doubt \union {"overlap" : b \in {b \in DOMAIN sw : sw[b].at = "switching"}}

\* switchActiveDevice: the web audio output has no "default", so that its device is looked up first.
Switches(d) ==
  LET c == Len(switches) + 1
      sw == Append(switches, [device |-> d, prev |-> output, at |-> "normalizing"])
  IN /\ c <= MaxSwitches
     /\ IF mix /\ d = "default"
          THEN switches' = sw /\ UNCHANGED <<choice, output, people, speaker, doubt>>
          ELSE Applies(sw, c, d)

\* The application chooses a device that is there.
SwitchActiveDevice(d) ==
  /\ Takes("switch") /\ d \in ToSet(plugged)
  /\ Switches(d)
  /\ UNCHANGED <<mix, devices, playback>>

\* normalizeDeviceId: some other device of the group of the default one, or none.
Normalized(c, d) ==
  /\ switches[c].at = "normalizing" /\ d \in (ToSet(plugged) \ {"default"}) \union {Nameless}
  /\ previous' = plugged
  /\ Applies(switches, c, d)
  /\ UNCHANGED <<turns, mix, plugged, handlers, playback>>

\* Mutant: the option stays at the device that could not be used.
SinkFailsForGood(e, c) ==
  /\ speaker' = [speaker EXCEPT ![e].calls = Tail(@)]
  /\ switches' = IF c # 0 /\ switches[c].at = "switching" THEN [switches EXCEPT ![c].at = "failed"] ELSE switches
  /\ UNCHANGED <<choice, output>>
  /\ doubt' = doubt \union {"failed"}

\* A setSinkId fails: the switch that made it takes its option back, and no element's device.
SinkFails(e, c) ==
  /\ speaker' = [speaker EXCEPT ![e].calls = Tail(@)]
  /\ IF c # 0 /\ switches[c].at = "switching"
       THEN /\ switches' = [switches EXCEPT ![c].at = "failed"]
            /\ choice' = switches[c].prev
       ELSE UNCHANGED <<switches, choice>>
  /\ UNCHANGED output
  /\ doubt' = doubt \union {"failed"}

SinkIsSet(e) ==
  /\ speaker[e].calls # <<>>
  /\ LET call == Head(speaker[e].calls) IN
       IF call.device \in ToSet(plugged) \union {"default", Nameless}
         THEN /\ speaker' = [speaker EXCEPT ![e].sink = call.device, ![e].calls = Tail(@)]
              /\ Settled(switches, speaker')
              /\ UNCHANGED <<choice, doubt>>
         ELSE SinkFails(e, call.switch)
  /\ UNCHANGED <<turns, mix, devices, people, playback>>

-----------------------------------------------------------------------------
(* Devices come and go. *)

\* handleDeviceChange: selectDefaultDevices reads previousDevices, and asks for the devices.
DeviceChange(list) ==
  /\ Takes("change") /\ plugged # list
  /\ plugged' = list
  /\ handlers' = Append(handlers, previous)
  /\ UNCHANGED <<mix, previous, selected, people, speaker, playback, doubt>>

\* The application lists the devices: previousDevices is what it sees.
GetLocalDevices ==
  /\ Takes("look")
  /\ previous' = plugged
  /\ UNCHANGED <<mix, plugged, handlers, selected, people, speaker, playback, doubt>>

\* The active output was the first device, or is not there any more: the first one takes over.
SelectsFirst(was) ==
  /\ plugged # <<>> /\ plugged[1] # output
  /\ \/ was # <<>> /\ output = was[1]
     \/ output \notin ToSet(plugged)

\* The rest of selectDefaultDevices, once getDevices has the devices.
SelectDefaultDevices ==
  /\ handlers # <<>>
  /\ handlers' = Tail(handlers) /\ previous' = plugged
  /\ IF SelectsFirst(Head(handlers)) THEN Switches(plugged[1])
     ELSE UNCHANGED <<selected, people, speaker, doubt>>
  /\ UNCHANGED <<turns, mix, plugged, playback>>

-----------------------------------------------------------------------------
(* Participants, tracks and elements. *)

\* createParticipant: its audioOutput is the object of the options.
PersonJoins(p) ==
  /\ Takes("join") /\ ~person[p].there
  /\ person' = [person EXCEPT ![p] = [Absent EXCEPT !.there = TRUE, !.output = IF choice = NotChosen THEN NotChosen ELSE "options"]]
  /\ UNCHANGED <<mix, devices, selected, sound, speaker, playback, doubt>>

OutputOf(p) == IF person[p].output = "options" THEN choice ELSE person[p].output

\* addSubscribedMediaTrack
SoundArrives(p) ==
  /\ Takes("track") /\ person[p].there /\ ~sound[p].there
  /\ sound' = [sound EXCEPT ![p] = [NoSound EXCEPT !.there = TRUE, !.sink = OutputOf(p), !.volume = person[p].volume]]
  /\ UNCHANGED <<mix, devices, selected, person, speaker, playback, doubt>>

\* What detach leaves of elements: the device, the volume and the calls under way stay with them. The
\* play() of an element is aborted, and startAudio fails if it waits for that one.
Detached(S) ==
  LET aborts == \E e \in S : speaker[e].play = "starting"
  IN /\ speaker' = [e \in Speakers |-> IF e \in S THEN [speaker[e] EXCEPT !.of = Free, !.play = "none"] ELSE speaker[e]]
     /\ start' = IF ~aborts THEN start ELSE IF start = "acquiring" THEN "failed" ELSE "idle"
     /\ enabled' = (enabled /\ ~aborts)
     /\ doubt' = IF aborts THEN doubt \union {"aborted"} ELSE doubt
     /\ UNCHANGED <<gesture, context>>

SoundEnds(p) ==
  /\ Takes("end") /\ sound[p].there
  /\ sound' = [sound EXCEPT ![p] = NoSound]
  /\ Detached(On(p, speaker))
  /\ UNCHANGED <<mix, devices, selected, person>>

PersonLeaves(p) ==
  /\ Takes("end") /\ person[p].there
  /\ person' = [person EXCEPT ![p] = Absent] /\ sound' = [sound EXCEPT ![p] = NoSound]
  /\ Detached(On(p, speaker))
  /\ UNCHANGED <<mix, devices, selected>>

Detach(e) ==
  /\ Takes("detach") /\ speaker[e].of # Free
  /\ LET p == speaker[e].of IN
       sound' = [sound EXCEPT ![p].wired = IF mix THEN On(p, speaker) # {e} ELSE FALSE]
  /\ Detached({e})
  /\ UNCHANGED <<mix, devices, selected, person>>

\* RemoteParticipant.setVolume; with web audio it is the gain that changes.
SetVolume(p, v) ==
  /\ Takes("volume") /\ person[p].there /\ person[p].volume # v
  /\ person' = [person EXCEPT ![p].volume = v]
  /\ sound' = [sound EXCEPT ![p].volume = IF sound[p].there THEN v ELSE @]
  /\ speaker' = [e \in Speakers |-> IF speaker[e].of = p /\ ~mix THEN [speaker[e] EXCEPT !.volume = v] ELSE speaker[e]]
  /\ UNCHANGED <<mix, devices, selected, playback, doubt>>

\* The element e once it is attached to the track of p.
AttachedTo(e, p) ==
  [speaker[e] EXCEPT !.of = p, !.play = IF gesture THEN "trying" ELSE "blocked",
     !.calls = IF sound[p].sink = NotChosen THEN @ ELSE Append(@, [device |-> sound[p].sink, switch |-> 0]),
     !.muted = mix /\ On(p, speaker) = {},
     !.volume = IF mix THEN (IF On(p, speaker) = {} THEN 0 ELSE @) ELSE IF sound[p].volume = 0 THEN @ ELSE sound[p].volume]

\* attach, which also tries to play: the browser refuses at once where no gesture allows it.
Attach(e, p) ==
  /\ Takes("attach") /\ sound[p].there /\ speaker[e].of = Free
  /\ speaker' = [speaker EXCEPT ![e] = AttachedTo(e, p)]
  /\ sound' = [sound EXCEPT ![p].wired = mix]
  /\ enabled' = (enabled /\ gesture)
  /\ doubt' = IF mix /\ On(p, speaker) # {} THEN doubt \union {"shared"} ELSE doubt
  /\ UNCHANGED <<mix, devices, selected, person, gesture, context, start>>

\* AudioPlaybackStarted of a track: handleAudioPlaybackStarted.
Plays(e) ==
  /\ speaker[e].play = "trying"
  /\ speaker' = [speaker EXCEPT ![e].play = "playing"]
  /\ enabled' = TRUE
  /\ doubt' = IF \E f \in Speakers : speaker[f].play = "blocked" THEN doubt \union {"clicked"} ELSE doubt
  /\ UNCHANGED <<turns, mix, devices, selected, people, gesture, context, start>>

-----------------------------------------------------------------------------
(* startAudio and the audio context. *)

\* The user does something in the page, and the application does not call startAudio.
Click ==
  /\ Takes("click") /\ ~gesture
  /\ gesture' = TRUE
  /\ UNCHANGED <<mix, devices, selected, people, speaker, enabled, context, start, doubt>>

\* What startAudio does to an attached element.
Started(e) == [speaker[e] EXCEPT !.muted = @ /\ mix, !.play = "starting"]

\* Called from a handler of the user's: the context is resumed, and all elements play again.
StartAudio ==
  /\ Takes("start") /\ start = "idle"
  /\ gesture' = TRUE /\ start' = "acquiring"
  /\ speaker' = [e \in Speakers |-> IF speaker[e].of = Free THEN speaker[e] ELSE Started(e)]
  /\ UNCHANGED <<mix, devices, selected, people, enabled, context, doubt>>

\* The rest of acquireAudioContext, which waits 200 ms for the context to resume.
AcquireAudioContext(now) ==
  /\ start \in {"acquiring", "failed"}
  /\ context' = IF context = "running" THEN context ELSE now
  /\ enabled' = (context' = "running")
  /\ start' = IF start = "acquiring" THEN "playing" ELSE "idle"
  /\ UNCHANGED <<turns, mix, devices, selected, people, speaker, gesture, doubt>>

ElementStarts(e) ==
  /\ speaker[e].play = "starting"
  /\ speaker' = [speaker EXCEPT ![e].play = "playing"]
  /\ UNCHANGED <<turns, mix, devices, selected, people, playback, doubt>>

AudioStarted ==
  /\ start = "playing" /\ \A e \in Speakers : speaker[e].play # "starting"
  /\ start' = "idle" /\ enabled' = TRUE
  /\ UNCHANGED <<turns, mix, devices, selected, people, speaker, gesture, context, doubt>>

\* A context that took longer runs later.
ContextRuns ==
  /\ context = "suspended" /\ gesture /\ start = "idle"
  /\ context' = "running"
  /\ UNCHANGED <<turns, mix, devices, selected, people, speaker, gesture, enabled, start, doubt>>

-----------------------------------------------------------------------------
Listening ==
  \/ \E d \in Outputs : SwitchActiveDevice(d)
  \/ \E e \in Speakers : Detach(e) \/ \E p \in People : Attach(e, p)
  \/ \E p \in People : SetVolume(p, 1)
  \/ GetLocalDevices \/ StartAudio

Surroundings ==
  \/ \E p \in People : PersonJoins(p) \/ SoundArrives(p) \/ SoundEnds(p) \/ PersonLeaves(p)
  \/ \E s \in Lists : DeviceChange(s)
  \/ Click

AudioProgress ==
  \/ \E c \in DOMAIN switches, d \in Outputs \union {Nameless} : Normalized(c, d)
  \/ \E e \in Speakers : SinkIsSet(e) \/ Plays(e) \/ ElementStarts(e)
  \/ \E now \in {"running", "suspended"} : AcquireAudioContext(now)
  \/ SelectDefaultDevices \/ AudioStarted \/ ContextRuns

AudioNext == Listening \/ Surroundings \/ AudioProgress
AudioSpec == AudioInit /\ [][AudioNext]_audio
AudioFairSpec == AudioSpec /\ WF_audio(AudioProgress)

-----------------------------------------------------------------------------
\* Every variable has its type, and only tracks that are there have elements.
AudioTypes ==
  /\ ToSet(plugged) \subseteq Outputs /\ choice \in Outputs \union {NotChosen, Nameless} /\ output \in Outputs \union {Nameless}
  /\ \A p \in People : sound[p].there => person[p].there
  /\ \A e \in Speakers : speaker[e].of # Free => sound[speaker[e].of].there
  /\ start \in {"idle", "acquiring", "playing", "failed"} /\ enabled \in BOOLEAN

AudioQuiet ==
  /\ handlers = <<>> /\ start = "idle"
  /\ \A c \in DOMAIN switches : switches[c].at \in {"done", "failed"}
  /\ \A e \in Speakers : speaker[e].calls = <<>> /\ speaker[e].play # "trying"

\* Once the handlers of device changes are done, the active output is a device that is there, or the
\* default one, whatever devices came and went, and were switched to, in the meantime. Without any
\* device the output stays what it was.
OutputIsThere == AudioQuiet /\ ~mix /\ plugged # <<>> => output \in ToSet(plugged) \union {"default"}

\* When nothing is under way the options name the active output, and every element, of whichever
\* participant, track and time, uses it, unless switches overlapped or a device was refused.
ElementsUseTheOutput ==
  AudioQuiet /\ ~mix /\ "overlap" \notin doubt =>
    /\ choice # NotChosen => choice = output
    /\ "failed" \notin doubt /\ choice # NotChosen => \A e \in Attached(speaker) : speaker[e].sink = output

\* Every element of somebody whose volume was set has that volume, in whatever order participant,
\* track, element and volume came.
VolumeIsAsSet ==
  \A e \in Attached(speaker) : ~mix /\ person[speaker[e].of].volume # 0 => speaker[e].volume = person[speaker[e].of].volume

\* With web audio, what has one element is heard once: through the context, and not from the element.
HeardOnce ==
  mix /\ "shared" \notin doubt =>
    \A p \in People : sound[p].wired = (On(p, speaker) # {}) /\ \A e \in On(p, speaker) : speaker[e].muted /\ speaker[e].volume = 0

\* When nothing is under way, the room says that audio is blocked just if an element is blocked. Of a
\* gesture without startAudio, and of an element that goes during startAudio, it says what is wrong.
BlockedIsReported ==
  AudioQuiet /\ ~mix /\ doubt \intersect {"clicked", "aborted"} = {} /\ Attached(speaker) # {} =>
    (enabled <=> \A e \in Speakers : speaker[e].play # "blocked")

\* The audio of the others comes from the device, at the volume and in the state that the application
\* asked for or was told of.
HeardAsAsked ==
  AudioTypes /\ OutputIsThere /\ ElementsUseTheOutput /\ VolumeIsAsSet /\ HeardOnce /\ BlockedIsReported

\* Every switch, handler and start of audio ends.
AudioSettles == []<>AudioQuiet
===============================================================================

# TLA+ models of the LiveKit client SDK

This directory holds TLA+ specifications of the client SDK in this repository
(a fork of livekit-client-sdk-js 2.22 that adds SM2/SM3/SM4 end-to-end
encryption), the TLC configurations that check them, and TLAPS proofs about
them. Every definition is translated from the TypeScript in `src/`;
`PROJECT.json` maps each one to the lines it stands for. Paths below are
relative to `src/`.

JavaScript runs one callback at a time, so an action of a model is what the
code does between two `await`s (or one event handler), and everything that can
go wrong goes wrong between actions: a caller resumes after state it relied on
has changed, a timer fires although its reason is gone, an answer arrives for a
question nobody asks any more. That is what the models are about.

## Inventory

| Component (files) | State it keeps | Operations | Talks to | Hard behaviour | What makes it correct |
|---|---|---|---|---|---|
| Reliable delivery (`room/data-channel/*`, `utils/dataPacketBuffer.ts`) | replay buffer, sequence number, bytes counted as sent, channel handle, gate (FIFO mutex and water marks) | send, replay, reset, attach, detach, buffered-amount-low | engine (deferral, resume, restart), SCTP | senders and replays interleave at every await; channels are replaced under waiting senders | nothing a `send` accepted is lost while a resume could resend it; order; one caller past the gate; senders are answered |
| Signal connection (`api/SignalClient.ts`, `SignalClientStateMachine.ts`, `WebSocketStream.ts`) | lifecycle, attempt id, socket and writer, two mutexes, timers | join, reconnect, close, socket events, ping timeout | engine, WebSocket | late events of replaced sockets; close at any await | every transient state has somebody who ends it; a connected client has its own open socket; calls settle |
| Engine reconnect (`room/RTCEngine.ts`, `DefaultReconnectPolicy.ts`) | attempt flags and counters, timer, peer connection state, regions tried | handleDisconnect, attemptReconnect (resume, restart), close, leave, browser events, reconcile | signal client, transports, room, regions | losses during an attempt; escalation; close during an attempt | attempts never overlap; a broken session is always being repaired; it ends whole or ended |
| Negotiation (`room/PCTransport.ts`, `PCTransportManager.ts`) | offer ids, initial offer, renegotiate, restartingIce | offers, answers, negotiate, ICE restart | engine, RTCPeerConnection | answers to superseded offers; deadline against answers | negotiate resolves only after an offer made later was answered |
| Room session (`room/Room.ts`) | connection state, futures, buffered events, reconcile interval | connect, disconnect, engine events, server updates | engine, regions, participants | disconnect during connect; republishing while the session is lost again | what the room says fits the engine; calls settle; no event is lost |
| Others in the room (`Room.ts`, `RemoteParticipant.ts`, `RemoteTrackPublication.ts`, `RemoteVideoTrack.ts`) | participants, publications, settings, elements | updates, media, subscribe, enable, sizes, visibility | signal client, browser | media before its publication; two sources of one thing; resumes | view and server agree; settings are what the page shows |
| People and the page's own participant (`Room.ts`, `Participant.ts`, `LocalParticipant.ts`) | speakers, agents, own info, pending requests | speaker updates, setName, setMetadata, waitUntilActive, preconnect buffer | signal client | requests cross updates and reconnects | what the page knows is what the server says |
| Publishing (`LocalParticipant.ts`) | pending publications, republish promise, published tracks | publish, unpublish, republish, enable, mute, encrypt | engine, negotiation, tracks | overlapping calls around three shared promises | one publication per track; none lost by a reconnect |
| Local tracks (`room/track/Local*.ts`, `create.ts`) | media, locks, processor, device, backup codec | mute, restart, replace, pause, processors, quality | browser devices and senders | restarts, mutes and pauses under different locks; devices that fail | what is sent is what was asked for |
| Audio output (`RemoteAudioTrack.ts`, `DeviceManager.ts`, `Room.ts`) | active output, elements, volumes, audio context | switch output, devices change, start audio | browser | devices that come and go during a switch | what is heard, and where, is as asked |
| Data streams and RPC (`room/data-stream/*`, `room/rpc/*`) | controllers, buffered packets, handlers, pending calls and timers | header, chunk, trailer, read; request, ack, answer | reliable delivery, room | replays, gaps, senders that leave; answer before ack | reads are whole or fail; each call settles once |
| Incoming data tracks (`room/data-track/incoming/*`) | descriptors, subscriptions, index of handles, controllers | open, abort, cancel, SFU messages | SFU, application streams | tracks change identity while requests wait | packets routed exactly; readers fed or ended |
| Outgoing data tracks and packets (`room/data-track/outgoing/*`, `packet/*`, `packetizer.ts`, `depacketizer.ts`) | descriptors by handle, packets in flight, partial frames | publish, unpublish, push, flush, reset | SFU, lossy channel | handles numbered anew; wrapping numbers; loss | descriptor and SFU agree; only whole frames leave |
| End-to-end encryption (`e2ee/*`, `e2ee/worker/*`) | key rings, ratchets, failure counts, cryptors, pipes | set key, ratchet, encode, decode, data packets | page, worker, provider | derivations finish in any order; receivers are used again | frames meet the right key and come out as they went in |
| Frame metadata (`frameMetadata/*`) | trailer of a frame | append, extract | encryption | newer writers | metadata comes with its frame |
| Regions, session settings, connection checks, SM ciphers, containers | | | | wall-clock ages, HTTP, bytes | see "Not modelled" |

The engine sits in the middle: it drives the signal client and the transports,
tells the reliable channel when to defer, replay and reset, and tells the room
what happened; the room passes server messages on to participants and managers.

## The modules

| Module | What it is | Composed with |
|---|---|---|
| `ReliableDelivery` | the reliable data channel | proved in `Engine_proofs` |
| `SignalClient` | the signal connection | proved in `Signalling_proofs` |
| `EngineSession` | abstract: what the engine promises its listeners | instantiated by the next two |
| `EngineReconnect` | the engine, which implements `EngineSession` | checked by `MCEngineReconnect`, proved in `Engine_proofs` |
| `RoomSession` | the room, over an engine of which it knows what `EngineSession` says | proved in `Room_proofs` |
| `Negotiation` | offers and answers of the publisher | proved in `Signalling_proofs` |
| `Publishing` | publications of the local participant | proved in `Publishing_proofs` |
| `EndToEndEncryption` | page and worker, keys, cryptors and pipes, proved in `EndToEndEncryption_proofs` | `MCEndToEndEncryption` puts it next to |
| `EncodedFrames` | the bytes of an encoded frame | the module above |
| `DataStreams` | streams and remote procedure calls between two pages | proved in `Engine_proofs` |
| `RemoteMedia` | the others, their publications, media and elements | extended by |
| `RoomParticipants` | speakers, agents, the page's own participant, its requests | each step of `RemoteMedia` has its effect here |
| `LocalTracks` | one local track, device, sender and codecs, proved in `LocalTracks_proofs` and `LocalTracksAspects_proofs` | `MCLocalTracks` puts it next to |
| `AudioOutput` | audio outputs and elements | the module above; proved in `Room_proofs`, next to the room |
| `DataTrackSubscriptions` | the subscriber's side of data tracks | proved, with `OutgoingDataTracks`, in `DataTracks_proofs` |
| `OutgoingDataTracks` | the publisher's side, with packets on the way | `MCOutgoingDataTracks` puts it next to |
| `DataTrackPackets` | the bytes of a packet | the module above |

Each `MC` module names the finite values of one configuration. Where two modules
share no state (`MCEndToEndEncryption`, `MCLocalTracks`, `MCOutgoingDataTracks`)
a behaviour explores one while the other rests: their product would repeat each
state of one for each of the other and show nothing more. Each behaviour starts
in one of a few *sessions*, which say what has happened before and how often each
kind of event may still happen. Names of state and actions are the names of the
fields and methods, so far as TLA+ allows it.

### `ReliableDelivery`

One action per stretch between awaits of `ReliableDataChannel.send` (`Claim` in
`SendQueue`/`SendDeferred`/..., `SendGate`, `SendWrite`, `SendFailed`,
`SendThrows`) and of `replay` (`ReplayStart`, `ReplaySend`, `ReplayMark`,
`ReplayFailed`). `lockQueue` is the gate's mutex (head holds it, rest waits in
order), `items` and `sentSize` are `DataPacketBuffer`, `chan[c].queue` is what the
browser has not transmitted, so that `bufferedAmount` is the sum of its packets.
`EngineStep` is the part of `RTCEngine` that drives the channel: loss, resume with
the server's last sequence number, full reconnect with teardown and reset, close.
Receivers discard a sequence number they have passed (`Discards`), as
`handleDataMessage` does. Microtasks run before the next macrotask: where that
order matters (`MicrotasksDrained`) the engine's timer-driven steps wait for it.

Proofs (`Engine_proofs`). `GateIsExclusive`: who is past the gate is the
head of the lock queue (`HolderOnly`). `WritesAreInOrder` is about the numbers
(`WriteInv`): a sender is in the queue once, in a call under way (`WaitOnce`), and
senders wait in the order in which they claimed (`NumbersQueue`), so the mutex grants in
that order; a number that is still on its way lies between what was written to its
channel and what is claimed next (`NumbersLie`). Only those who may still write to an
open channel are counted. A teardown closes every channel before the numbers start
again, and to a channel that does not exist yet nothing was written (`Unborn`).

### `SignalClient`

A call of `join` or `reconnect` is a coroutine, `call[c].pc` the await it is
suspended at; `closing[k]` the same for `close`. `lc` and `attempt` are the state
machine, whose transitions are operators (`Established`, `Failed`, `Lost`,
`CloseRequested`). Sockets are named by the call that opened them; their events
carry the attempt id of that call, which is how the machine knows a late close of
a replaced socket. `CloseTearsDown` and `CloseTornDown` are the two ends of the
250 ms wait of the close, which may end before or after the socket has reported.

Assumed, from the callers in `RTCEngine`: one join or reconnect pending at a time;
a restart closes between its calls, one close at a time, and awaits it before it
joins (`RTCEngine.ts:1396`); `RTCEngine.close` closes only an engine that a join has
opened (`isClosed`, `:378`, `:450`); an aborted client is not used
again; a second close by a missing first message is skipped while the first one
of that call is under way; the 15 s connect timeout outlasts the 250 ms wait.
What `OwnerCloses` says of the owner is needed: with closes at any time, two of them
queued behind a call that settles one would let the second tear down the transport
of the call that was started in between. Three closers show it, the run has two.

Proofs (`Signalling_proofs`): `ClosingIsNoTrap`, `StartingIsNoTrap` and, of both,
`LifecycleIsNoTrap`. The inductive invariant (`IInv`) adds to them that a socket opens
only after the parameters are known, that a close goes through its phases once, that at
most one call is in flight, that the call in flight owns the attempt id, and that a
transient state was begun by a call that still runs.

`ConnectionsAreServed` and `OthersLossIsIgnored` need more (`SInv`). Of the calls: the
queue of `connectionLock` is the order of the calls and a body runs at its head
(`LockInOrder`); an answered call whose body has no transport yet was aborted
(`EarlyIsPending`); an attempt owns one socket, and whoever waits for the lock has
outdated those before it (`OwnersInOrder`). Of the closes: what can stand around a call
that settles one in the queue of `closingLock` (`SettleIsNext`); that there is one close
at most unless the lifecycle is being closed (`FewCloses`); and that a call which timed
out while its body runs has its close under way or over, or a successor waiting for the
lock (`AbandonedIsClosed`), which is what keeps a late body from connecting. Of the
transport: the body that opens or awaits a socket uses it, and a connected client has no
attempt under way and no close yet to begin (`ConnectedIsQuiet`). Each step is first
classified by its effect on the calls (`Begins`, `Takes`, `Opens`, `Ends`, ...); the
invariant of the calls is preserved by every effect, the rest by every action.

### `EngineSession` and `EngineReconnect`

`EngineSession` is two variables: the announcement the listeners heard last
(`phase`) and whether a full reconnect has to follow (`owed`). It says that
attempts follow one another and never overlap, that each reports the signal
connection before it ends well, that a full reconnect that was asked for or that
failed is owed until a restart begins, and that nothing is announced after the end.

In `EngineReconnect`, `AttemptBegins` is `attemptReconnect` up to its first await; a
resume goes through `call`, `pcwait`, a restart through `cleanup`, `offer`, `call`,
`wait`, `pcwait`, `region`. `HandleDisconnect` is one operator because the code
calls one function from seven places: it consults the policy, cancels the timer
that is remembered, arms a new one, or gives up and closes. A timer forgotten by
the finally of its own callback stays armed (`Forgotten`). The signal client is
`up`, `trying`, `down` or `closing`, and the transport `connected`, `failed` or on
its way; both can be lost at any point. Both join paths are there
(`OfferWithJoin`): the v1 path creates an offer first, the v0 path is told at most
once that the service is not found.

Refinement: `ImplementsEngineSession` is the abstract specification with `phase`
and `owed` replaced by what the concrete engine has announced and by its
`fullReconnectOnNext`; every step is one of the abstract ones or a stutter. This is
what `RoomSession` may rely on, and all it relies on.

Assumed: a call of the signal client settles (`SignalClient`'s `AttemptSettles`
says so); HTTP requests settle; timers fire in any order, which covers throttled
tabs; `regions` starts anew at `resetAttempts`. The behaviour starts with a joined
session. The interval of the room's reconcile is cleared while an attempt runs, so
`Reconcile` waits.

Proofs (`Engine_proofs`): `EngineTypes`, `AttemptsAreSingle`,
`BrokenIsScheduled`, together `RecoveryHolds`. The inductive invariant is type
correctness, `OneAttempt`, `RecoveryIsOwned` and one conjunct more,
`OnlyOnceEnded`: a closed engine, removed callbacks, a close under way or an
attempt about to give up mean that somebody ended the session. Without it a close
would leave a broken session that nobody ended and nobody repairs.

Its second part builds on the first: `EngineImplementsSession` is the refinement
for every value of the bounds. A step after which the session has ended is `End` or
a stutter, so only the others need an argument: they leave the attempts alone
(`Still`), begin one (`Begun`) or are a step of the one that runs (`Moved`, `Lost`,
`Worked`), and each of these is one announcement or none. One conjunct more is needed,
`OnlyRestarts`: only a restart cleans up, makes an offer or looks for a region, since
otherwise a resume that runs would announce a restart. `ReconnectingIsWaitedFor` follows
from the same cases.

### `RoomSession`

`pc[c]` is the await of the call `c` of `connect()`: the lock, the back-off, the
join, the transports, the teardown of what failed, the next region. `connectFuture`,
`controller`, `lockQueue`, `leaving` are `connectFuture`, `abortController` and
`disconnectLock` of the room; `mine[c]` tells whether `this.engine` is still the
engine call `c` works with. The engine's events are the actions of
`EngineSession` with the room's handlers conjoined: `Resuming`, `SignalResumed`,
`Restarting`, `SignalRestarted` (which suspends in `republishing` and then in
`waiting`), `Restarted`, `EngineEnds`. `watch` is the reconcile interval with its
consecutive failures; `buffer`, `seen` and `lost` tell where each event of the
server is. Regions that are in use by other rooms and what the participants do with
an event are left out.

Proof (`Room_proofs`): `SessionIsKept`, all of `SessionIsHeld`. That one
attempt at most is live is inductive as it stands: whoever takes the controller
cancels the one it takes it from. `ConnectedIsWatched` is strengthened
(`WatchIsHeld`): an attempt of the engine watches a connected room only if a full
reconnect is owed, because its end then arms the timer again; which needs that the
timer is armed between attempts alone (`TimerIsIdle`). `NothingIsLost` needs that a
room between states is one that resumes or that somebody connects
(`InBetweenIsHeld`): an event that is neither held back nor told then belongs to a
session that is not connected yet.

### `Publishing`

`at[c][t]` is the await at which call `c` has suspended its work on track `t`, and
`top[c]` the await of the call itself. `pending`, `republish` and `pendingPublishing`
are the promises that callers share, told by whose they are; `resolver` is
`pendingTrackResolvers` of the engine. A call publishes, unpublishes, enables one or
both, disables, mutes or turns encryption on; one more call is the room's own, which
republishes after a restart. `onServer` and `mutedOnServer` are what the server's
session knows. A settled promise wakes those who wait for it before anything else
happens (`Drained`); the order among them is open.

Proofs (`Publishing_proofs`): `PublishingHolds`, all of `PublishingIsSound`, and
`FailureIsFinal`. The invariant says whose the shared promises and flags are: that of a
publication belongs to a call whose work on the track is in flight (`PendingIsHeld`),
that of a republish to a call that awaits its tracks (`RepublishIsHeld`), and
`pendingPublishing` is set exactly while one call makes a camera (`MakerIsHeld`). A call
that waits for its turn has begun nothing (`NoWorkYet`), and every restart finds a call
of the room that was not used (`RoomCalls`), so no step begins work that is under way
and none leaves a promise whose owner has gone on. `RetryIsNotRefused` needs
`AsksAfresh`: a request that still waits for its answer is not made again, because the
retry waits for a restart and the restart throws the request away, unless the error
came late in a restart. `PublishedOnce` is not proved: it holds
for two overlapping calls and the room's own, and of three it excepts the tracks of which a
promise was lost. `overtaken` is the history of these: a call that fails deletes in its
`finally` whoever's promise is there by then (`LocalParticipant.ts:990`, `Forgets`), also
one that was a retry and had none of its own yet (`Leaves`); and one that has waited for a
publication stores its own over that of another which has waited too (`Stores`).

### `EndToEndEncryption` and `EncodedFrames`

The page's side (`keyInfos`, `latest`, `request`, `enabledHere`) and the worker's
(`ring`, `current`, `failures`, `ratchets`, `cryptors`, `pipe`) talk through two
queues. The worker handles one message at a time and goes on with the next when the
handler's promise settles (`task`); frames and requested ratchets do not wait in
that queue, which is where keys and frames cross. A key is a number and how often
it was ratcheted; a frame decrypts exactly with what it was encrypted with.
`raced` and `home` are histories of known holes, excepted where they bite: a requested
ratchet that overwrites a newer key, a frame of an older key that joins a ratchet or
brings its own back, a receiver that is used again. Frames and packets may be of any
key given so far.

`EncodedFrames` is about bytes: a frame of a codec (H.264, H.265, VP8, VP9, audio)
goes through `encodeFunction`, which leaves some bytes in the clear
(`UnencryptedBytes`: for H.264 and H.265 up to the second byte of the first slice),
replaces the rest by what the cipher makes of it, the vector, its length and the
index of the key (`Sealed`), escapes that (`WriteRbsp`) and puts the metadata
behind it (`AppendTrailer`); `Receives` and `Decrypts` are the way back, with one
failed try where the key was ratcheted. The cipher is external: it is what it may
turn a payload into, and it gives the payload back for the very bytes it sealed.
Frames are chosen for the edges: start codes of three and four bytes, units that
come before a slice, a slice in the last bytes, cipher texts that look like a start
code, like an escape, or end in zeros, clock values that overflow 32 bits, metadata
of a newer writer, frames the server injects. Where a frame is lost, `FramesAreRead`
names the reason (`OnlyUnread`, `LooksLikeSlice`, `IsAmbiguous`, `IsUnescapedTwice`):
these are holes of the code, each listed below.

Proofs (`EndToEndEncryption_proofs`). `KeysFollowed`, all of `KeysAreFollowed`, is about
the moments when all is handled; the invariant (`Following`) says for every moment what
is still to come. A key the application has set is in its slot or in the queue to the
worker, where the last message about the slot is the one that counts (`KeysArrive`), and
two keys of the page differ in what they are told by (`KeyInfosDiffer`). A ratchet the
worker has made is in the provider or its report is on the way (`ReportsArrive`), and so
is the switch of a cryptor to another index (`SwitchArrives`). A frame at work has the key
it was encrypted with, the one before, or a ratchet under way that leads to it, and what
it would put back if it fails is what the slot had (`FramesAreRight`); whoever runs a
ratchet has the key it began from (`RunsHaveKeys`), packets likewise (`PacketIsRight`).
`RatchetIsFollowed` needs a window of two or more, as the code's default is. `NobodyWaits`
and `NoPlainText` are `NobodyWaitsForever` and `NoPlainOnceEnabled`, parts of two other
properties of the run.

### `DataStreams`

Two pages, `link[p]` the reliable channel to `p`, which may lose or repeat a packet
around a reconnect. `out[s]` is the writer of a stream, `into[s]` the controller, the
pipe and the reader at the other end; `held` are the packets buffered while a page
reconnects. A call's request and answer are packets or, between clients that can,
streams: `call` is the caller's side with its two timers, `serve` the side called.
The kinds of stream (text, bytes, file, inline, with attachments) differ in `stream`.
A chunk is a unit; its bytes, compression and UTF-8 boundaries are left out.

Proofs (`Engine_proofs`, with those about `ReliableDelivery`), for any number of
calls: `CallsLeaveNothing` and `AcknowledgedStaysReached`. The invariant (`CallsInv`) says
of every call that an outcome took the entry for the answer with it, that an
acknowledgement timer without its entry runs only after the recipient was seen to leave,
and none once the call was acknowledged (`Orderly`); each helper of
`RpcClientManager` keeps it. The proof made the property say "seen to leave": a call may
have settled by an answer, its acknowledgement lost, before the recipient left. The
session `Answered` shows that. What a page reads is not proved: `FlushBufferedPackets`
is a fold over the packets held back, and needs an induction.

### `RemoteMedia` and `RoomParticipants`

The server's view (`sid`, `version`, `born`, `live`, `serves`) and the page's
(`parts`, `pub`, `fate`, `track`) are separate; `inbox` is the signal connection,
and media comes on its own. `Retry` is the timer that looks 20 times for the
publication of media that came early. The view of a track follows its elements
(`on`, `element`, `hidden`) through debounced observers, and its settings go to the
server or into `held` while a resume is under way. `room` goes through resumes and
restarts, whose join response (`snapshot`) is applied one step later.

`RoomParticipants` conjoins to each step of `RemoteMedia` what it does to people
(`Follows`), and adds speakers, `waitUntilActive`, the requests for a name or
metadata with their answers and timers, the first agent, and the microphone that
records before an agent listens. Entries of `activeSpeakers` are participant
objects, so that one that survives its session can be told from its successor.

### `LocalTracks` and `AudioOutput`

An operation on a local track under way is a task; `lock` holds the tasks that hold
or wait for `muteLock`, `trackChangeLock` and the sender lock. A media is numbered
as it is made, with its device, whether it is live, enabled or silent. Mute and
unmute, restart, replace, pause and resume, processors (also one set over another),
devices that end or fail, the debounced mute handler of the browser, the backup codec
and the layers of the sender are actions; `history` marks the known holes.
`sends.scaled` is the device whose size the encodings of the main sender are for,
`sends.encoded` the one they were last computed for (`lastEncodedDimensions`): a
refresh is skipped when the two agree, leaves layers that are off as they were, and may
fail. Encodings of the backup codec and what Firefox is given instead of inactive layers
are left out.

`AudioOutput`: `switches` are the overlapping calls of `switchActiveDevice`,
`handlers` those of `handleDeviceChange`, `speaker[e].calls` the `setSinkId` calls the
browser serves in order; `gesture`, `context`, `enabled` and `start` decide whether
audio plays at all. An active output that is gone stays so if there is no other device.

Proof (`LocalTracks_proofs`, `LocalTracksAspects_proofs`): `TracksAreKept`, all of
`TracksAreAsAsked`, for any number of tasks, media and devices. Most of that property is
about moments when nothing is under way, and says nothing of the steps between. The
inductive invariant `TracksInv` is `Core` and the `Aspects`.

`Core` is what the locks give: the queue of each holds just the tasks that wait for it or
hold it, once each and the holder first, so that whoever goes on under a lock is alone
there; a task is at a place of its own operation (`Legal`), with the media and device that
place needs (`TasksOK`); a track being created has no other task (`CreateOK`). What may
overlap a change of the track is then only what takes another lock: a mute, the sender's
layers, an end of the media, an unpublish.

Each aspect says of one part of the property what stands in for it meanwhile. `Captures`:
a live media is the track's, its clone's, a forgotten one or one a task has in hand.
`GoneBefore`: a restart has stopped the old media before it has the new one.
`StoppedEnds`, `MutedEnds`: a stopped or muted track is quiet, or a restart is on the way
that will stop what it acquired when it ends. `MutedIsOff`: what is the track's while it is
muted is disabled, so that a clone that stays live gives nothing. `Released`: an unpublished
track is a stopped one, or a restart took that back (`revived`). `BackupIsQuiet`: the sender
of the backup codec of a paused track sends nothing. `PausedIsQuiet`, `SentFollows`: the sender has
what the track has, or the task that replaces it is before its last await. `IsHeard`,
`HeardNew`, `IsLive`, `IsEnabled`: a media that ends has a listener that starts a restart, the new
one too, so that a track that is not captured is excused by a failure, a restart still
to come or the user's own media. `Sized`: the encodings are for the size of the device they were last computed for, unless
the layers were off then (`missed`), and that is the device in use, or a task is to compute
them, or they were not computed (`resized`). `DevicesFollow`: a device that was asked for is the
track's, or the one the restart carries. `LayersFollow`: the last task in the queue of the
sender lock carries what was last asked for, and a codec published in between is told. The
exceptions are those of the property, through `history`.

Proof (`Room_proofs`): `HeardIsAsAsked`, all of `HeardAsAsked`. Its parts about moments
when nothing is under way say, strengthened (`Hearing`), what makes up for the difference
before: an active output that is gone has a handler still to run, or a switch to a device
that is there under way (`OutputIsReplaced`); without overlaps the option is the active
output or that of the one switch, which knows what to go back to (`ChoiceIsActive`); the
*last* call of an element, not the device it has, is that of the option (`SinksFollow`).
They rest on the calls: each call carries the device of its switch, and a switch is under
way just as long as a call of its own is (`SwitchesAreCalled`). That a switch without any
element to call is done at once is why this has no exception. `PlayIsKnown` says what may
be blocked, starting or playing while `startAudio` is where it is.

### `Negotiation`

What `RTCEngine.negotiate()` promises. A request stands for a change of the
publisher's transceivers and the call made for it; an offer is its id and the
requests it describes, and an answer is told by the offer it answers.
`lockQueue` is `offerLock` (its holder first, `entered` once it has begun) and
`chain` the operations the browser has queued for the peer connection, in the
order it runs them: `createOffer`, `setLocal`, `rollback`, `setInitial`,
`setAnswer`. `Enter` is `createAndSendOffer` and `createInitialOffer` up to their
first await; `ReceiveAnswer` is `setRemoteDescription` up to its own, and
`SetAnswer` what follows the browser's answer in one turn: the acknowledged id,
the callers that resolve, the next offer. `Restarting` to `Configure` is the full
reconnect: requests are aborted by an event, the transport goes some awaits
later, and requests can be made in between. `refused` and `applied` are histories.

Assumed: the browser accepts a description in the states where the standard lets
it, except that a local offer may be refused; `asker` and the full reconnect it
asks for abbreviate `EngineReconnect`, whose attempts always end in one of the two
ways `Resume` and `RestartAsked` take; the server answers offers in order. The
second try of `setMungedSDP` is an operation of its own for an answer, which can
find another state by then, and part of the first one for an offer. Candidates,
the subscriber, `close()` of the engine and the text of descriptions are left out.

Proofs (`Signalling_proofs`): `NegotiationTypes`, which needs the invariant of the
offer lock (`LockHeld`: what its holder queued is alone on the chain and carries the
latest id), and `ResolvedHolds`; together `RequestsHold`. The inductive invariant of
`ResolvedHolds` says that every offer still on its way, wherever it is, is *recent*:
its id was given out, and it describes each request whose checkpoint it exceeds. An
answer that resolves a request then describes it.

`AnswersMeet` and `ChangesNegotiated` prove `ChangesAreNegotiated`. That an answer meets
the offer it answers needs the exchange (`ExchangeInv`): the chain of the browser holds
one operation of the lock's holder and one of an answer at most, and for each order of
the two it is said which offer is pending, which one the server has and which answers
are still to come. `DueInv` is what makes nothing forgotten: while no refusal and no full
reconnect disturbs the session, every change is described by an offer that was answered
or is under way, or an offer is due (debounced, deferred, or waiting for the lock); a
deferred one waits for a peer's answer, and that answer is on its way or an ICE restart
or a rollback waits to take its place.

### `DataTrackSubscriptions`

`descriptors`, `sub`, `index`, `requests`, `controllers` are the manager's fields.
A stream's `call` is its `subscribeRequest`: waiting on the pending subscription,
resolved or failed with its continuation still to run (`Opened`, `Failed`), or
attached. `SubscriberHandle`, `SidReassigned`, `TrackPublished`,
`TrackUnpublished`, `ParticipantDisconnected`, `Restarting`, `SignalRestarted`,
`Restarted`, `Reset` are the messages of the SFU and the room; `AbortWaiting`,
`AbortOpen`, `AbortUnheard`, `Cancel`, `SubscribeTimeout` what the application and
the timer do. `told` is a history of what the SFU was last asked.

Assumed: a publication update with several changes is one change per step;
continuations run before the next message or timer, while the application may
abort in between; the SFU never gives a track the handle of another active one
(`Assignable`); requests are dropped while the signal connection is down; every
publisher of a live descriptor is among the participants at a restart. Two known
leaks are marked by `strays` and excepted by `ActiveIsWanted`: a stream cancelled
before its subscribe completed (`IncomingDataTrackManager.ts:165`), and a
publisher that left while a subscription was pending (`:702`).

Proofs (`DataTracks_proofs`): `ManagerTypes`, `IndexIsExact`,
`ReadersAreServed`, `SubscriptionsAgree`, together `SubscriptionsHold`. The
inductive invariant adds that SIDs are names (no two live descriptors share one),
that a controller belongs to a stream of that very track, and that nothing is told
while the link is down. `SubscriptionsAreWanted` proves `ActiveIsWanted` on top of it,
with an invariant about who waits (`WInv`): the requests counted by a pending
subscription are no more than the streams that wait on it (`RequestsWait`; fewer,
because a listener that stayed behind withdraws a request that is not its own), a
rejected future belongs to a track that is gone or a stray, and a stream on its way or
attached is readable unless its track is a stray.

### `OutgoingDataTracks` and `DataTrackPackets`

`descriptorMap` is the manager's map in its order, keyed by handles of the
allocator, which starts anew at a reset; `calls` and `unpublishing` are the promises
of the page, `signal` the requests and answers on the way. A pushed frame is cut
into packets (`packetizer`), which wait for the headroom of the lossy channel
(`channel`), travel and are lost or overtaken (`net`), and are put together by the
subscriber (`partials`). Sequence numbers wrap at `Modulus`. `DataTrackPackets` is the
same packet as bytes: header, flags, extensions and padding, written by this client
or by a newer one, cut short, and read (`FromBinary`).

Proofs (`DataTracks_proofs`): `PublicationsHold` proves `PublicationsAgree` for
every workload, from the assumption that one starts with distinct publications and no
more of them than handles. The agreement speaks of the moments when nothing is on the
way; the inductive invariant (`Agreed`, with the types `DataTypes` of what is pushed) says
for every moment what makes up for the difference. `Meets` relates, handle by handle, the
page's descriptors and the server's publications to the requests and answers under way: a
pending descriptor that the server knows of has its answer coming, an active one is at
the server or its end is announced, and what the server has without the page is asked
to be given up. It needs that the messages about a handle come in one order (`InOrder`:
asked for once, answered, ended), which holds because a session gives a handle out once
(`Fresh`), and that a descriptor is one call's, in the state the call is in, up to the
place that reset has reached (`Owned`).

## What each run shows

One run per system part; a property that has several parts is the conjunction of
named ones, given in brackets.

| Run | Properties | Bounds, and why they are enough |
|---|---|---|
| `reliable` | `BufferIsSound` (`TypeOK`; `SentAccounting`: the byte count the trim relies on is exact; `RetainedUntilTransported`: an accepted packet is in the buffer until the transport took it), `GateExclusive`, `DirectWritesInOrder`, `SendSettles` | two senders and a replay are three parties at the gate; three packets of which one is larger, a high-water mark of one byte so that each write closes the gate; two channels, two resumes, one restart, one abort: a replaced channel with a waiter on it, a replay that is cut off by the next loss |
| `signal` | `LifecycleIsOwned` (`DisconnectingIsOwned`, `EstablishingIsOwned`: no state is a trap), `ConnectionIsServed` (`TypeOK`, `ConnectedIsServed`, `OneBody`), `OnlyOwnLossDrops`, `AttemptSettles` | three calls (a connection, its replacement, and one after a close), one awaited close and one at any time |
| `engine` | `RecoveryIsSound` (`TypeOK`, `OneAttempt`, `RecoveryIsOwned`), `ReconnectingIsAWait`, `EveryLossEnds` (`Recovers`, `FullReconnectHappens`, `AnnouncedAttemptsEnd`), `ImplementsEngineSession` | three faults: one to start an attempt, one during it, one during the attempt that follows; two policy delays, two joins, one more region so that each counter runs out |
| `negotiation` | `RequestsAreSound` (`TypeOK`; `ResolvedIsNegotiated`: success means an offer made after the change was answered), `ChangesAreNegotiated` (`AnswersMeetTheirOffers`; `QuietIsNegotiated`: no deferred request is forgotten), `NegotiationSettles` | two requests: one before and one during an offer; any two events (loss, restart, retried join, refused offer, deadline, background negotiation), so that one strikes while the other is being repaired |
| `room` | `SessionIsHeld` (`TypeOK`, `OneLiveAttempt`; `ConnectedIsWatched`: a connected room looks for dead connections; `NothingIsLost`: each event is told or held back), `EveryWaitEnds` (`ConnectSettles`, `TransitionsEnd`), `ConnectedIsServed` | two connects and one disconnect: a connect that joins the first, replaces it or follows the disconnect; one fault, one attempt of the engine before it gives up, one more region and one event, each at any point of the calls |
| `publishing` | `PublishingIsSound` (`TypeOK`; `RetryIsNotRefused`: a publication begun again does not meet its own first request; `OneMaker`; `QuietIsClean`: no shared promise or flag is left behind), `QuietIsPublished` (`PublishedOnce`, `EncryptedAsAsked`, `PublishedIsOnServer`), `FailedStaysFailed`, `EveryChangeSettles` (`CallsSettle`, `MuteReachesServer`) | two calls of the application of any kind, or three that publish, unpublish or turn encryption on (`Repeated`), and the room's own republish, one resume or restart, two tracks, one of which the page makes: each pair of calls meets at each of the shared promises, and a third can wait for, lose or take over the promise of another (`Unseen` are the tracks that happened to) |
| `encryption` | `KeysAreFollowed` (`TypeOK`, `QuietKeysAreInstalled`, `RatchetIsFollowed`, `RatchetsAreReported`), `FramesAreServedAndRead` (`QuietIsServed`: a subscribed track has its cryptor once all is handled; `NobodyWaitsForever`; `FramesAreRead`: a frame comes out as it went in; `NoUnitInCipher`), `NothingFailsSilently` (`NoPlainOnceEnabled`, `PacketsComeBack`, `StallIsReported`) | two participants, three tracks, two receivers, a ring of two keys, two ratchets, one failure tolerated; ten sessions, each about one kind of crossing (keys and frames, ratchets, two indices, receivers that are swapped, used again or end, packets, the sending side), with two to six events; frames of each codec and each pair of what the two ends are told of it |
| `data_streams` | `ReadsAndRunsAreWhole` (`TypeOK`, `ReadIsWhole`, `MethodsRunOnWholeRequests`), `SettledLeavesNothing`, `StreamsAndCallsEnd` (`ReadersEnd`, `CallsSettle`, `AcknowledgedIsReached`, `ThrownIsForgotten`) | two pages; a stream of up to two chunks so that one can be lost, repeated or be the last; two calls, so that an answer can meet another call; losses, repetitions, a reconnect, a departure and handlers that come and go; a call whose acknowledgement is lost, that is answered and whose recipient leaves |
| `remote_media` | `OthersAreServed` (`ViewIsCurrent`, `SettingsMatchTheView`, `DesireIsServed`), `PeopleAreCurrent` (`PeopleTypeOK`, `SpeakersAreCurrent`, `WaitsAreServed`, `OwnIsAsAsked`, `NoticesAreTold`), `AllSettles` | one participant with two tracks, two elements and three media: one of each may be replaced by the other; it may leave and come back; one resume or restart; two requests for a name or metadata; `MaxTries` = 2 looks for the publication instead of 20, so that it comes after the first or after the last; updates that overtake a join response on its way and tell of somebody who left or came anew are cut (`Overtakes`) |
| `local_tracks` | `TracksAreAsAsked` (`CapturesAreAsAsked`, `SentIsAsAsked`), `HeardAsAsked` (`TypeOK`, `OutputIsThere`, `ElementsUseTheOutput`, `VolumeIsAsSet`, `HeardOnce`, `BlockedIsReported`), `DevicesSettle` (`TasksEnd`, `AudioSettles`) | two devices, five media, three operations under way at a time: one that holds a lock, one that waits for it and one under another lock; twenty-two sessions, each about one kind of crossing (mutes and switches, processors over processors, refreshes that fail or meet layers that are off, a replacement or a page shown again after an unpublish, pauses and the backup codec); three outputs of which one may go, two people, two elements, three switches |
| `data_tracks` | `SubscriptionsAreSound` (`TypeOK`, `RoutesAreExact`, `OpenIsServed`, `SfuAgrees`), `ActiveIsWanted`, `SubscribeSettles` | two tracks and two handles (a handle can go from one to the other), two streams (first and joining, or one per track), three SIDs (one is reassigned, or a track comes anew) |
| `outgoing_tracks` | `FramesArriveWhole` (`FramesArrive`; `PacketsAreReadAsWritten`), `PublicationsAgree`, `OutgoingSettles` | two publications and three handles; sequence numbers modulo 8 that begin at 0 or just before the wrap; one partial frame, two buffered packets, one above the high-water mark, so that each limit is met; eight workloads; an MTU of 44 so that frames with extensions need one packet or several |

`CHECK_DEADLOCK FALSE` is set in all of them: the bounds end every behaviour (no
faults, calls or packets left), and a quiet client is a legal final state. That
nobody is left waiting is what the liveness properties and those about quiet
states say.

Every history variable is one that a property needs to tell an exception from a
failure; where a property has an exception, the module names the line.

## Fairness

Only the client's own steps, and the browser's answers to them, are weakly fair:
continuations (the event loop runs what is ready), timers (they fire some time),
and calls of the browser that the standard lets end. The server and the SFU owe
nothing unless it is said: a liveness property must hold if no answer ever comes,
which is what the timeouts are for.

* `SignalClient`: steps of calls and closes; a socket that was aborted reports its
  end. `ReliableDelivery`: senders, replays, and an open channel transmits what it
  buffers; `SendSettles` excepts an aborted channel, which reports nothing.
* `EngineReconnect`: timers, the steps of an attempt (a call of the signal client
  settles, the wait for the transport times out), the steps of a close, and the
  browser's report of a lost transport.
* `Negotiation` is about the deadline *not* being needed: there the server answers
  what reaches it, the browser completes its operations and a broken session is
  resumed or joined anew, while losses, refusals and deadlines never have to happen.
* `RoomSession`: awaits of `connect` and `disconnect` end, one way or the other; an
  attempt that was announced ends, which `EngineReconnect` shows
  (`AnnouncedAttemptsEnd`); the interval ticks.
* `Publishing`: of each call, that not all of its continuations, timers and browser
  operations stop (`GoesOn`), which is enough as each of them leads on; a reconnect ends; the server tells of
  the page's own tracks.
* `EndToEndEncryption`: the page and the worker take their messages, continuations
  run, and a pipe whose streams are unusable ends.
* `DataStreams`, `RemoteMedia` with `RoomParticipants`, `LocalTracks`, `AudioOutput`
  and `OutgoingDataTracks` have one weak fairness over all the steps that go on by
  themselves (`Progress`). It is the weakest form: only that not all of them stop.
  Since what the application and the network may do is bounded, it is enough.
  `DataStreams` adds that no page reconnects for ever.
* `DataTrackSubscriptions`: continuations and the subscribe timeout.

## What is proved, and what is only checked

The theorems hold for every value of the constants under the named assumptions
(bounds are natural numbers, names are distinct). Each proof has the shape
`Init => IInv`, `IInv /\ [Next]_vars => IInv'` with one step per action, and
`IInv => Inv`; lemmas state once what the shared operators preserve. TLC checked
`IInv` as an invariant before it was proved. The inductive invariants are described
with their modules above.

| Module | Theorems | Property of a run |
|---|---|---|
| `Engine_proofs` | `GateIsExclusive`, `WritesAreInOrder` | `GateExclusive`, `DirectWritesInOrder` |
| | `CallsLeaveNothing` | `SettledLeavesNothing` |
| | `AcknowledgedStaysReached` | `AcknowledgedIsReached`, a part of `StreamsAndCallsEnd` |
| | `EngineTypes`, `AttemptsAreSingle`, `BrokenIsScheduled`, `RecoveryHolds` | `RecoveryIsSound` |
| | `EngineImplementsSession`, `ReconnectingIsWaitedFor` | `ImplementsEngineSession`, `ReconnectingIsAWait` |
| `Signalling_proofs` | `ClosingIsNoTrap`, `StartingIsNoTrap`, `LifecycleIsNoTrap` | `LifecycleIsOwned` |
| | `ConnectionsAreServed`, `OthersLossIsIgnored` | `ConnectionIsServed`, `OnlyOwnLossDrops` |
| | `NegotiationTypes`, `ResolvedHolds`, `RequestsHold` | `RequestsAreSound` |
| | `AnswersMeet`, `ChangesNegotiated` | `ChangesAreNegotiated` |
| `Room_proofs` | `SessionIsKept` | `SessionIsHeld` |
| | `HeardIsAsAsked` | `HeardAsAsked` |
| `LocalTracksAspects_proofs` | `TracksAreKept` | `TracksAreAsAsked` |
| `Publishing_proofs` | `PublishingHolds`, `FailureIsFinal` | `PublishingIsSound`, `FailedStaysFailed` |
| `EndToEndEncryption_proofs` | `KeysFollowed` | `KeysAreFollowed` |
| | `NobodyWaits`, `NoPlainText` | parts of `FramesAreServedAndRead` and of `NothingFailsSilently` |
| `DataTracks_proofs` | `ManagerTypes`, `IndexIsExact`, `ReadersAreServed`, `SubscriptionsAgree`, `SubscriptionsHold` | `SubscriptionsAreSound` |
| | `SubscriptionsAreWanted` | `ActiveIsWanted` |
| | `PublicationsHold` | `PublicationsAgree` |

Only model-checked: all liveness, which is out of the prover's reach; the parts of
`BufferIsSound`, whose sums over sequences need an induction the installed provers
cannot do; what the recursive functions of `EncodedFrames` and `DataTrackPackets`
compute, for the same reason; `QuietIsPublished` of `Publishing`, where with more than
two calls only the tracks of which no promise was lost are spoken of; and everything about
`RemoteMedia` and `RoomParticipants`.

## What the code does otherwise than one would think

Met while modelling. The modules have the steps that lead there; the properties of
the passing runs make an exception at that very place or say less, and each
exception was tried without.

**Reliable channel.** Of two replays that overlap, a packet popped by the second is
counted as sent by the first (`ReliableDataChannel.ts:123`), and the trim then drops
one the channel has not sent. A send parked over a full reconnect queues an old
number in the new session (`:77`). A send that starts between the end of a resume and
the replay overtakes the deferred packets, which receivers discard as duplicates (`:103`).

**Signal, engine, negotiation.** A close that comes while `connect()` computes its
parameters finds nothing to tear down, and the attempt opens its socket afterwards
(`SignalClient.ts:508`). An engine closed during a restart's awaits is joined again
(`RTCEngine.ts:378`). A negotiation asked for while a restart takes the old transport
down is not aborted, and its deadline restarts the session that follows (`:1811`).

**Room.** An event that arrives while the buffer is about to be emptied overtakes
those held back. A cancelled `connect()` that waits for a region goes on when the
answer comes (`Room.ts:931`, `:944`), and the catch of an attempt that was replaced
closes the newer engine. After a region retry the listeners of the local participant
are attached twice. `waitForRestarted` may look at the state of the transports of the
session before.

**Publishing.** A retry is refused where the negotiation failed because of a restart
that is still under way. `setTrackEnabled` can make two cameras
(`LocalParticipant.ts:449`). A caller that joins a republish inherits its rejection
(`:1692`). With three overlapping calls a track can be published twice, or remain
unencrypted: two that wait for the same publication do not look again (`:825`), and both
publish if it is taken down in between; or one that fails deletes the promise that another
has stored (`:990`), and a third does not find it.

**Encryption.** A track that is subscribed again on another receiver is not served: the
worker finds its old cryptor, and the one that owns the streams drops every frame
(`e2ee.worker.ts:253`, against the comment at `E2eeManager.ts:664`). A requested ratchet
overwrites a key set meanwhile (`ParticipantKeyHandler.ts:149`), and a late frame of an
older key does when it joins a ratchet of that key (`FrameCryptor.ts:864`); ratchets that
look ahead and those that set share one promise (`:125`), which stays when it was rejected;
the ratchet window is one step in effect, since a try starts from the same key again.
A packet that is to be encrypted without a key is never answered (`e2ee.worker.ts:109`).

**Frames.** A failed try takes the escapes out of the frame it is given, so that the
try with the ratcheted key takes them out again, and a frame whose sealed bytes hold
0 0 3 is lost (`FrameCryptor.ts:808`). A slice in the last three bytes is not looked for;
such a frame is sent without escapes, and the receiver may find a slice in its
cipher text. Where only one end is told the codec, a unit before an H.264 slice that
is a slice by H.265's numbers makes the two ends disagree on the clear bytes. A
trailer that holds only entries this client does not know stays, and its last byte
is then taken for the index of the key (`frameMetadata.ts:143`). A frame shorter than
its clear bytes makes the transform fail (`FrameCryptor.ts:578`).
Zeros are counted from the first escaped byte, so that a start code may span the
clear and the encrypted part; the metadata is not escaped.

**Streams and calls.** A reader whose sender left while packets were held back hangs
(`IncomingDataStreamManager.ts:125`), as do those cleared at a disconnect (`:90`). A
handler that throws ends the flush of held packets (`:56`). A call that is acknowledged
and whose sending then fails leaves an entry (`RpcClientManager.ts:111`).

**Others in the room.** Requests held for a resume that fails are sent in the session
after it (`SignalClient.ts:1089`). Media of a participant that is not known yet is
dropped while the room is connected (`Room.ts:1663`). Somebody who left stays in
`activeSpeakers`, as do the objects of a former session. The volume 0 of a participant is not
applied to a new element. Overlapping `setName` and `setMetadata` take one another's
value back (`LocalParticipant.ts:395`); an empty name resolves at once; a request that
timed out leaves its entry. `firstActiveAgent` stays when the agent leaves (`:1992`). The
preconnect buffer listens after the notice it waits for may have come (`:1391`). Media whose
publication is not there yet is looked at again later, and only an *ended* one is refused
(`RemoteParticipant.ts:264`): one that the server has removed meanwhile, but whose
transceiver goes on, is taken for the track, over a newer one that came before it.

**Local tracks and audio.** A paused track that is resumed while its media is
replaced sends the stopped one. A mute during a restart leaves the camera capturing,
and a device set during another restart is lost, as is one chosen while muted if a processor
is stopped then, since the constraints of the media become the track's (`LocalTrack.ts:179`,
`:644`). A processor, a clone for the backup codec or that codec itself,
set while paused, sends. An unmute that waits for its lock, or the page that is shown again,
forgets that the track was stopped (`LocalTrack.ts:345`): a track that was unpublished
meanwhile captures again. While a camera is muted the clone for its backup codec stays
live, though disabled (`LocalVideoTrack.ts:160`). Encodings are not computed for the new size
when an unmute or the page shown again changes the device, nor when a refresh fails; layers
that are off at the refresh keep the scale of before, and since the size counts as done
(`:340`) they are enabled with it later (`:379`, `:747`), against the comment at `:282`.
On a phone a camera of the user's own stays
disabled once the page was hidden: it is disabled (`LocalVideoTrack.ts:651`) and not acquired
again (`LocalTrack.ts:430`).
A restart that fails leaks its media (`LocalTrack.ts:376`). The clone for the backup
codec is never stopped. Overlapping output switches keep the wrong one
(`Room.ts:1542`); after a failed one, tracks and participants keep the device that
failed. A device change that is handled while another listing runs does not follow
the default (`:2247`). An element that plays later hides that an earlier one is blocked
(`:2212`). With `webAudioMix` a second element of a track is heard twice
(`RemoteAudioTrack.ts:116`); recycled elements keep volume and sink (`Track.ts:322`).

**Data tracks.** The subscribe timeout dies with the request that armed it
(`IncomingDataTrackManager.ts:286`). The abort listener of a refused publication stays,
and after a reset withdraws another track (`OutgoingDataTrackManager.ts:260`), since
handles are given out anew (against `handle.ts:51`). An answer that comes twice or
refuses a republication deletes a descriptor (`:323`); an unpublish during a restart
hangs, and so does whoever waits for a track whose descriptor an answer took: a
publication by its timeout too, which then finds no descriptor (`:237`), and a
disconnect tells only those that have one (`:413`). `LocalDataTrack` takes the flush of any handle for its own
(`LocalDataTrack.ts:59`). Frames pushed at once interleave their packets and are
dropped by the reader, and frames larger than the buffer never leave whole. Of two
different 32-bit numbers each is before the other (`utils.ts:78`). An empty
frame sends no packet; a user timestamp of 0 is dropped (`frame.ts:22`).

## Plan

What is left, in order of use:

1. Proofs about the modules that have none: `RemoteMedia` and `RoomParticipants`.
2. `FrameMetadataManager`: which pipeline belongs to which receiver, and its life
   across a disconnect.
3. The cache of `RegionUrlProvider` with its refetch timers, for two rooms.
4. Larger instances of `room` and `publishing`, which are the runs whose bounds cost
   most: a second fault during the republish of the first.

## Not modelled

* SM2, SM3, SM4 and the AES path: ciphers and key derivation are functions on bytes
  without state between calls. `EncodedFrames` has what surrounds them.
* `RegionUrlProvider`'s cache and refetch timers, which all rooms of a page share and
  which depend on wall-clock ages of HTTP answers. The next region of an attempt is
  in `EngineReconnect` and `RoomSession`.
* Session settings and token sources: defaults, and HTTP answers that are kept until
  they expire. Connection checks: scripts over rooms of their own.
* `FrameMetadataManager`: its pipelines per receiver and the lookup by timestamp. Script
  transforms: only the path with encoded streams is in the modules.
* Containers (`utils/deferrable-map.ts`, `utils/ttlmap.ts`, `room/timers.ts`): what the
  modules use of them is part of the actions.
* In `Negotiation` ICE candidates, the subscriber and the text of descriptions; in
  `DataStreams` the bytes of chunks, compression and UTF-8; in `SignalClient` requests
  other than those that `RemoteMedia` and `RoomParticipants` send.
* Smaller steps. In `SignalClient` the first read of a socket ends cleanly or not at all: that
  it rejects, which closes the attempt as well (`SignalClient.ts:600`), is part of the timeout. In
  `EndToEndEncryption` turning encryption on publishes again and tells the worker in one step
  (`Room.ts:492`), and a stall is always reported, while a limiter of errors (one a second and half a dozen
  a minute of a participant and reason, `FrameCryptor.ts:431`) may leave a report out. In `DataStreams` what
  is repeated is a header with content to follow, a chunk or a trailer; a request or a stream
  within one packet that comes twice would be run or read twice, and is left to the
  duplicate filter of `ReliableDelivery`.
* Statistics, permissions, transcription and chat events, logging, React Native and
  legacy browser paths, `webrtc` adapters, examples and generated code.

----------------------------- MODULE Negotiation -----------------------------
(***************************************************************************)
(* What RTCEngine.negotiate() promises: offers, answers, renegotiation and *)
(* ICE restarts of the publisher's PCTransport (room/PCTransport.ts), the  *)
(* wait of room/PCTransportManager.ts on top of it, and the session        *)
(* changes of RTCEngine that end such a wait.                              *)
(*                                                                         *)
(* A request stands for a change of the publisher's transceivers and the   *)
(* negotiate() call made for it; an offer is its id and the requests whose *)
(* changes it describes. An answer is told by the offer it answers.        *)
(***************************************************************************)
EXTENDS Integers, Sequences

CONSTANTS
  Requests,    \* calls of RTCEngine.negotiate
  MaxEvents,   \* bound: losses of the signal connection, full reconnects nobody
               \* asks for here, joins tried again on the same transport, offers
               \* the browser refuses, deadlines that pass, and negotiations that
               \* ensurePCTransportConnection starts
  Nobody       \* "undefined"

ASSUME BoundsAssumption == MaxEvents \in Nat
ASSUME NobodyAssumption == Nobody \notin Requests

VARIABLES
  phase,        \* "down": no pcManager; "joining", "running", "restarting"
  session,      \* how many transports have been configured
  link,         \* the signal connection is up
  server,       \* offers that are on their way to the server or unanswered
  toClient,     \* answers on their way back
  localOffer,   \* pending local description; NoOffer in signalingState "stable"
  hasRemote,    \* pc.remoteDescription is set
  chain,        \* the peer connection's chain of operations
  lockQueue,    \* offerLock: the createAndSendOffer calls, its holder first
  entered,      \* the holder has begun
  latestOfferId, latestAcknowledgedOfferId, pendingInitialOffer, renegotiate,
  debounced,    \* the debounced negotiate: armed, and the last caller's onError
  req,          \* per request: its state, session and checkpoint
  fullReconnect,\* fullReconnectOnNext
  asker,        \* history: the request whose failure set it, or Nobody
  refused,      \* history: the browser refused an offer in this session
  applied,      \* history: the answers applied in this session
  events        \* how many of the events under the bound have happened

transportVars == <<localOffer, hasRemote, chain, lockQueue, entered, latestOfferId,
               latestAcknowledgedOfferId, pendingInitialOffer, renegotiate,
               debounced, refused, applied>>
ids  == <<latestOfferId, latestAcknowledgedOfferId>>
lock == <<lockQueue, entered>>
wire == <<server, toClient>>
asks == <<fullReconnect, asker>>
negotiationVars == <<phase, session, link, wire, transportVars, req, asks, events>>

Offers == [id : Nat, has : SUBSET Requests]
NoOffer == [id |-> 0, has |-> {}]

RequestStates == {"idle", "waiting", "resolved", "aborted", "failed", "rejected"}
Kinds == {"initial", "negotiate", "renegotiate", "iceRestart"}
Ops == {"createOffer", "setLocal", "rollback", "setInitial", "setAnswer"}

\* An operation on the peer connection: the offer it is about, the answer that
\* is being applied, and whether setMungedSDP tries a second time.
Operation == [op : Ops, offer : Offers, answer : Offers, again : BOOLEAN]
Op(op, offer, answer) ==
  [op |-> op, offer |-> offer, answer |-> answer, again |-> FALSE]

Tasks == [kind : Kinds, onError : Requests \cup {Nobody}]
Task(kind, onError) == [kind |-> kind, onError |-> onError]

-----------------------------------------------------------------------------
\* A transport that has just been constructed.
FreshTransport ==
  /\ localOffer' = NoOffer /\ hasRemote' = FALSE /\ chain' = <<>>
  /\ latestOfferId' = 0 /\ latestAcknowledgedOfferId' = 0
  /\ pendingInitialOffer' = NoOffer /\ renegotiate' = FALSE
  /\ debounced' = [armed |-> FALSE, onError |-> Nobody]

NegotiationInit ==
  /\ phase = "down" /\ session = 0 /\ link = FALSE
  /\ server = <<>> /\ toClient = <<>>
  /\ localOffer = NoOffer /\ hasRemote = FALSE /\ chain = <<>>
  /\ lockQueue = <<>> /\ entered = FALSE
  /\ latestOfferId = 0 /\ latestAcknowledgedOfferId = 0
  /\ pendingInitialOffer = NoOffer /\ renegotiate = FALSE
  /\ debounced = [armed |-> FALSE, onError |-> Nobody]
  /\ req = [r \in Requests |-> [state |-> "idle", session |-> 0, checkpoint |-> 0]]
  /\ fullReconnect = FALSE /\ asker = Nobody
  /\ refused = FALSE /\ applied = {}
  /\ events = 0

\* The lock's next holder begins in a microtask, before any other event.
LockSettled == lockQueue = <<>> \/ entered

Bounded ==
  /\ events < MaxEvents
  /\ events' = events + 1

\* The changes made to the publisher so far, which createOffer describes.
Changes == {r \in Requests : req[r].state # "idle" /\ req[r].session = session}

HaveLocalOffer == localOffer # NoOffer
AwaitsPeer == HaveLocalOffer \/ pendingInitialOffer # NoOffer

Holder == Head(lockQueue)

Unlock ==
  /\ lockQueue' = Tail(lockQueue)
  /\ entered' = FALSE

\* client.sendOffer: a request that finds no open transport is skipped.
SendOffer(offer) == server' = IF link THEN Append(server, offer) ELSE server

\* An ICE restart that throws ends the resume: the next attempt is a full one.
ResumeFails ==
  /\ fullReconnect' = TRUE
  /\ asker' = Nobody

-----------------------------------------------------------------------------
(* RTCEngine.negotiate and PCTransportManager.negotiate                     *)

\* Mutant: the checkpoint is the last answered offer, not the last one begun.
CheckpointAcknowledged == latestAcknowledgedOfferId

Checkpoint == latestOfferId

CallDebounced(onError) == debounced' = [armed |-> TRUE, onError |-> onError]

Called(r) ==
  IF latestAcknowledgedOfferId > Checkpoint THEN "resolved" ELSE "waiting"

NegotiateRejected(r) ==
  /\ LockSettled
  /\ phase = "down" /\ session > 0
  /\ req[r].state = "idle"
  /\ req' = [req EXCEPT ![r] = [state |-> "rejected", session |-> 0, checkpoint |-> 0]]
  /\ UNCHANGED <<phase, session, link, wire, transportVars, asks, events>>

Negotiate(r) ==
  /\ LockSettled
  /\ phase # "down"
  /\ req[r].state = "idle"
  /\ req' = [req EXCEPT ![r] = [state |-> Called(r), session |-> session,
                                checkpoint |-> Checkpoint]]
  /\ IF Called(r) = "waiting" THEN CallDebounced(r) ELSE UNCHANGED debounced
  /\ UNCHANGED <<phase, session, link, wire, localOffer, hasRemote, chain, lock,
                 ids, pendingInitialOffer, renegotiate, refused, applied, asks,
                 events>>

\* ensurePCTransportConnection negotiates without an error callback.
EnsureNegotiates ==
  /\ LockSettled
  /\ phase = "running"
  /\ Bounded
  /\ CallDebounced(Nobody)
  /\ UNCHANGED <<phase, session, link, wire, localOffer, hasRemote, chain, lock,
                 ids, pendingInitialOffer, renegotiate, refused, applied, req, asks>>

\* The debounce interval has passed since the last call.
DebounceFires ==
  /\ LockSettled
  /\ debounced.armed
  /\ debounced' = [armed |-> FALSE, onError |-> Nobody]
  /\ lockQueue' = Append(lockQueue, Task("negotiate", debounced.onError))
  /\ UNCHANGED <<phase, session, link, wire, localOffer, hasRemote, chain, entered,
                 ids, pendingInitialOffer, renegotiate, refused, applied, req, asks,
                 events>>

\* A request that fails makes the engine ask for a full reconnect.
Fail(r) ==
  /\ req' = [req EXCEPT ![r].state = "failed"]
  /\ fullReconnect' = TRUE
  /\ asker' = r

Deadline(r) ==
  /\ LockSettled
  /\ req[r].state = "waiting"
  /\ Bounded
  /\ Fail(r)
  /\ UNCHANGED <<phase, session, link, wire, transportVars>>

-----------------------------------------------------------------------------
(* PCTransport.createAndSendOffer and createInitialOffer                    *)

\* The offer id grows in the same turn in which createOffer is called.
BeginOffer ==
  /\ latestOfferId' = latestOfferId + 1
  /\ chain' = Append(chain,
       Op("createOffer", [id |-> latestOfferId + 1, has |-> {}], NoOffer))

\* Only createAndSendOffer looks at the initial offer that is not set yet.
MayOffer == IF Holder.kind = "initial" THEN ~HaveLocalOffer ELSE ~AwaitsPeer

\* Without a turn to offer, an ICE restart takes it by going back to the last
\* answer, and any other call leaves its offer to the answer that is due.
Enter ==
  /\ ~LockSettled
  /\ \/ /\ MayOffer
        /\ BeginOffer
        /\ entered' = TRUE
        /\ UNCHANGED <<lockQueue, renegotiate, asks>>
     \/ /\ ~MayOffer /\ Holder.kind = "iceRestart" /\ hasRemote
        /\ chain' = Append(chain, Op("rollback", NoOffer, NoOffer))
        /\ entered' = TRUE
        /\ UNCHANGED <<lockQueue, latestOfferId, renegotiate, asks>>
     \/ /\ ~MayOffer /\ Holder.kind = "iceRestart" /\ ~hasRemote
        /\ Unlock
        /\ ResumeFails
        /\ UNCHANGED <<chain, latestOfferId, renegotiate>>
     \/ /\ ~MayOffer /\ Holder.kind # "iceRestart"
        /\ renegotiate' = (renegotiate \/ Holder.kind # "initial")
        /\ Unlock
        /\ UNCHANGED <<chain, latestOfferId, asks>>
  /\ UNCHANGED <<phase, session, link, wire, localOffer, hasRemote,
                 latestAcknowledgedOfferId, pendingInitialOffer, debounced,
                 refused, applied, req, events>>

\* createOffer has an offer. The initial one is not set: it goes out with the
\* join and waits in pendingInitialOffer.
OfferCreated(op) ==
  LET offer == [op.offer EXCEPT !.has = Changes] IN
  IF Holder.kind = "initial"
  THEN /\ pendingInitialOffer' = offer
       /\ server' = Append(server, offer)
       /\ chain' = Tail(chain)
       /\ Unlock
  ELSE /\ IF latestOfferId > offer.id
          THEN chain' = Tail(chain) /\ Unlock
          ELSE /\ chain' = Append(Tail(chain), Op("setLocal", offer, NoOffer))
               /\ UNCHANGED lock
       /\ UNCHANGED <<pendingInitialOffer, server>>

CreateOffer ==
  /\ LockSettled
  /\ chain # <<>> /\ Head(chain).op = "createOffer"
  /\ OfferCreated(Head(chain))
  /\ UNCHANGED <<phase, session, link, toClient, localOffer, hasRemote, ids,
                 renegotiate, debounced, refused, applied, req, asks, events>>

\* setLocalDescription, then onOffer.
SetLocal ==
  /\ LockSettled
  /\ chain # <<>> /\ Head(chain).op = "setLocal"
  /\ localOffer' = Head(chain).offer
  /\ SendOffer([Head(chain).offer EXCEPT !.id = latestOfferId])
  /\ chain' = Tail(chain)
  /\ Unlock
  /\ UNCHANGED <<phase, session, link, toClient, hasRemote, ids,
                 pendingInitialOffer, renegotiate, debounced, refused, applied,
                 req, asks, events>>

\* The request whose onError the holder calls, if it still waits.
Blamed == {r \in Requests : r = Holder.onError /\ req[r].state = "waiting"}

\* The browser refuses the offer, munged and as it was: a NegotiationError for
\* the last caller of the debounced negotiate, or for the resume.
SetLocalRefused ==
  /\ LockSettled
  /\ Bounded
  /\ chain # <<>> /\ Head(chain).op = "setLocal"
  /\ refused' = TRUE
  /\ chain' = Tail(chain)
  /\ Unlock
  /\ \/ \E r \in Blamed : Fail(r)
     \/ /\ Holder.kind = "iceRestart"
        /\ ResumeFails
        /\ UNCHANGED req
     \/ /\ Holder.kind # "iceRestart" /\ Blamed = {}
        /\ UNCHANGED <<req, asks>>
  /\ UNCHANGED <<phase, session, link, wire, localOffer, hasRemote, ids,
                 pendingInitialOffer, renegotiate, debounced, applied>>

\* The ICE restart's setRemoteDescription(currentSD): an earlier answer, which
\* only an outstanding offer can take.
Rollback ==
  /\ LockSettled
  /\ chain # <<>> /\ Head(chain).op = "rollback"
  /\ IF HaveLocalOffer
     THEN /\ localOffer' = NoOffer
          /\ latestOfferId' = latestOfferId + 1
          /\ chain' = Append(Tail(chain),
               Op("createOffer", [id |-> latestOfferId + 1, has |-> {}], NoOffer))
          /\ UNCHANGED <<lock, asks>>
     ELSE /\ chain' = Tail(chain)
          /\ Unlock
          /\ ResumeFails
          /\ UNCHANGED <<localOffer, latestOfferId>>
  /\ UNCHANGED <<phase, session, link, wire, hasRemote, latestAcknowledgedOfferId,
                 pendingInitialOffer, renegotiate, debounced, refused, applied,
                 req, events>>

-----------------------------------------------------------------------------
(* PCTransport.setRemoteDescription with an answer                          *)

IsStale(answer) ==
  latestOfferId > 0 /\ answer.id > 0 /\ answer.id # latestOfferId

ReceiveAnswer ==
  /\ LockSettled
  /\ toClient # <<>>
  /\ LET answer == Head(toClient)
         Set(op, offer) == chain' = Append(chain, Op(op, offer, answer)) IN
     \/ /\ IsStale(answer)
        /\ UNCHANGED <<chain, pendingInitialOffer>>
     \/ /\ ~IsStale(answer) /\ pendingInitialOffer # NoOffer
        /\ Set("setInitial", pendingInitialOffer)
        /\ pendingInitialOffer' = NoOffer
     \/ /\ ~IsStale(answer) /\ pendingInitialOffer = NoOffer
        /\ Set("setAnswer", NoOffer)
        /\ UNCHANGED pendingInitialOffer
  /\ toClient' = Tail(toClient)
  /\ UNCHANGED <<phase, session, link, server, localOffer, hasRemote, lock, ids,
                 renegotiate, debounced, refused, applied, req, asks, events>>

\* The initial offer becomes the local description just before its answer.
SetInitial ==
  /\ LockSettled
  /\ chain # <<>> /\ Head(chain).op = "setInitial"
  /\ localOffer' = Head(chain).offer
  /\ chain' = Append(Tail(chain), Op("setAnswer", NoOffer, Head(chain).answer))
  /\ UNCHANGED <<phase, session, link, wire, hasRemote, lock, ids,
                 pendingInitialOffer, renegotiate, debounced, refused, applied,
                 req, asks, events>>

\* onAnswered of every negotiate() that waits on this transport.
Resolve(id) ==
  req' = [r \in Requests |->
            IF /\ req[r].state = "waiting" /\ req[r].session = session
               /\ id > req[r].checkpoint
            THEN [req[r] EXCEPT !.state = "resolved"]
            ELSE req[r]]

\* Mutant: the flag is consumed without the offer it asks for.
RenegotiateForgets ==
  /\ renegotiate' = FALSE
  /\ UNCHANGED lockQueue

Renegotiate ==
  /\ renegotiate' = FALSE
  /\ lockQueue' = IF renegotiate THEN Append(lockQueue, Task("renegotiate", Nobody))
                  ELSE lockQueue

\* setRemoteDescription(answer) and what follows it in the same turn; without an
\* outstanding offer it fails, is tried with the original text, and fails again.
SetAnswer ==
  /\ LockSettled
  /\ chain # <<>> /\ Head(chain).op = "setAnswer"
  /\ LET answer == Head(chain).answer IN
     \/ /\ HaveLocalOffer
        /\ applied' = applied \cup {[offer |-> localOffer, answer |-> answer]}
        /\ localOffer' = NoOffer
        /\ hasRemote' = TRUE
        /\ latestAcknowledgedOfferId' = answer.id
        /\ Resolve(answer.id)
        /\ Renegotiate
        /\ chain' = Tail(chain)
     \/ /\ ~HaveLocalOffer
        /\ chain' = IF Head(chain).again THEN Tail(chain)
                    ELSE Append(Tail(chain), [Head(chain) EXCEPT !.again = TRUE])
        /\ UNCHANGED <<applied, localOffer, hasRemote, latestAcknowledgedOfferId,
                       req, renegotiate, lockQueue>>
  /\ UNCHANGED <<phase, session, link, wire, entered, latestOfferId,
                 pendingInitialOffer, debounced, refused, asks, events>>

-----------------------------------------------------------------------------
(* The server and the signal connection                                     *)

ServerAnswers ==
  /\ LockSettled
  /\ link /\ server # <<>>
  /\ toClient' = Append(toClient, Head(server))
  /\ server' = Tail(server)
  /\ UNCHANGED <<phase, session, link, transportVars, req, asks, events>>

\* What is on the way is lost: every answer, and the offers the server has not
\* received.
LinkLost ==
  /\ LockSettled
  /\ phase = "running" /\ link
  /\ Bounded
  /\ link' = FALSE
  /\ toClient' = <<>>
  /\ \E received \in 0..Len(server) : server' = SubSeq(server, 1, received)
  /\ UNCHANGED <<phase, session, transportVars, req, asks>>

\* RTCEngine.resumeConnection: the signal connection is back, and ICE restarts.
Resume ==
  /\ LockSettled
  /\ phase = "running" /\ ~link /\ ~fullReconnect
  /\ link' = TRUE
  /\ lockQueue' = Append(lockQueue, Task("iceRestart", Nobody))
  /\ UNCHANGED <<phase, session, wire, localOffer, hasRemote, chain, entered, ids,
                 pendingInitialOffer, renegotiate, debounced, refused, applied,
                 req, asks, events>>

-----------------------------------------------------------------------------
(* RTCEngine.restartConnection                                              *)

\* Mutant: nobody listens to EngineEvent.Restarting.
AbortNobody == UNCHANGED req

\* handleClosed of every negotiate() that waits.
AbortWaiting ==
  req' = [r \in Requests |->
            IF req[r].state = "waiting" THEN [req[r] EXCEPT !.state = "aborted"]
            ELSE req[r]]

Restarting ==
  /\ LockSettled
  /\ phase \in {"joining", "running"}
  /\ phase' = "restarting"
  /\ AbortWaiting
  /\ fullReconnect' = FALSE /\ asker' = Nobody
  /\ UNCHANGED <<session, link, wire, transportVars>>

RestartAsked ==
  /\ fullReconnect
  /\ Restarting
  /\ UNCHANGED events

RestartForced ==
  /\ Bounded
  /\ Restarting

\* cleanupPeerConnections and cleanupClient, once the leave is sent.
Teardown ==
  /\ LockSettled
  /\ phase = "restarting"
  /\ phase' = "down"
  /\ link' = FALSE /\ server' = <<>> /\ toClient' = <<>>
  /\ FreshTransport
  /\ lockQueue' = <<>> /\ entered' = FALSE
  /\ UNCHANGED <<session, refused, applied, req, asks, events>>

\* configure(), with the first offer bundled into the join or left for later.
Configure ==
  /\ phase = "down"
  /\ session' = session + 1
  /\ \/ phase' = "joining" /\ link' = FALSE /\ lockQueue' = <<Task("initial", Nobody)>>
     \/ phase' = "running" /\ link' = TRUE /\ lockQueue' = <<>>
  /\ entered' = FALSE
  /\ FreshTransport
  /\ refused' = FALSE /\ applied' = {}
  /\ UNCHANGED <<wire, req, asks, events>>

InitialOfferMade == \A i \in DOMAIN lockQueue : lockQueue[i].kind # "initial"

Joined ==
  /\ LockSettled
  /\ phase = "joining" /\ InitialOfferMade
  /\ phase' = "running" /\ link' = TRUE
  /\ UNCHANGED <<session, wire, transportVars, req, asks, events>>

\* An unreachable server: join() runs again, on the transport it configured.
JoinRetry ==
  /\ LockSettled
  /\ phase = "joining" /\ InitialOfferMade
  /\ Bounded
  /\ server' = <<>>
  /\ lockQueue' = Append(lockQueue, Task("initial", Nobody))
  /\ UNCHANGED <<phase, session, link, toClient, localOffer, hasRemote, chain, entered, ids,
                 pendingInitialOffer, renegotiate, debounced, refused, applied,
                 req, asks>>

-----------------------------------------------------------------------------
Work == CreateOffer \/ SetLocal \/ Rollback \/ SetInitial \/ SetAnswer
Reconnect == Resume \/ RestartAsked

NegotiationNext ==
  \/ \E r \in Requests : Negotiate(r) \/ NegotiateRejected(r) \/ Deadline(r)
  \/ EnsureNegotiates \/ DebounceFires
  \/ Enter \/ Work \/ SetLocalRefused
  \/ ServerAnswers \/ ReceiveAnswer
  \/ LinkLost \/ Resume
  \/ RestartAsked \/ RestartForced \/ Teardown \/ Configure \/ Joined \/ JoinRetry

\* The client's own turns and timers run, the browser completes its operations,
\* the server answers, and a broken session is resumed or joined anew. Nothing
\* makes a request, a loss, a refusal or a deadline happen.
NegotiationFairness ==
  /\ WF_negotiationVars(DebounceFires) /\ WF_negotiationVars(Enter) /\ WF_negotiationVars(Work)
  /\ WF_negotiationVars(ServerAnswers) /\ WF_negotiationVars(ReceiveAnswer)
  /\ WF_negotiationVars(Reconnect) /\ WF_negotiationVars(RestartAsked)
  /\ WF_negotiationVars(Teardown) /\ WF_negotiationVars(Configure) /\ WF_negotiationVars(Joined)

NegotiationSpec == NegotiationInit /\ [][NegotiationNext]_negotiationVars /\ NegotiationFairness

-----------------------------------------------------------------------------
(* Properties                                                               *)

NegotiationTypeOK ==
  /\ phase \in {"down", "joining", "running", "restarting"}
  /\ session \in Nat /\ link \in BOOLEAN
  /\ server \in Seq(Offers) /\ toClient \in Seq(Offers)
  /\ localOffer \in Offers /\ hasRemote \in BOOLEAN
  /\ chain \in Seq(Operation)
  /\ lockQueue \in Seq(Tasks) /\ entered \in BOOLEAN
  /\ latestOfferId \in Nat /\ latestAcknowledgedOfferId \in Nat
  /\ pendingInitialOffer \in Offers /\ renegotiate \in BOOLEAN
  /\ debounced \in [armed : BOOLEAN, onError : Requests \cup {Nobody}]
  /\ req \in [Requests -> [state : RequestStates, session : Nat, checkpoint : Nat]]
  /\ fullReconnect \in BOOLEAN /\ asker \in Requests \cup {Nobody}
  /\ refused \in BOOLEAN
  /\ applied \in SUBSET [offer : Offers, answer : Offers]
  /\ events \in Nat

\* A negotiate() that resolves (PCTransportManager.negotiate, its checkpoint
\* and onAnswered) has had its change described by an offer that was answered:
\* no caller is told of success by the answer to an offer that was created
\* before its change.
ResolvedIsNegotiated ==
  \A r \in Requests :
    req[r].state = "resolved" /\ req[r].session = session =>
      \E a \in applied : r \in a.answer.has

\* The requests are sound: their types, and no success without an answer.
RequestsAreSound == NegotiationTypeOK /\ ResolvedIsNegotiated

\* An answer is only ever applied to the offer it answers. The stale check of
\* setRemoteDescription looks at the id when the answer arrives; the browser
\* applies it after the operations queued before it, with ICE restarts,
\* rollbacks and the initial offer's local description in between.
AnswersMeetTheirOffers ==
  \A a \in applied : a.offer = a.answer

\* Nothing is under way in the client, on the wire or at the server.
Quiet ==
  /\ phase = "running" /\ link /\ ~fullReconnect
  /\ ~debounced.armed /\ lockQueue = <<>> /\ chain = <<>>
  /\ server = <<>> /\ toClient = <<>>

\* When everything has come to rest, each change made in the session has been
\* negotiated and nothing waits for a peer that will not answer (the
\* renegotiate flag of createAndSendOffer, the ICE restart of a resume): a
\* request deferred because an offer was outstanding is never forgotten.
QuietIsNegotiated ==
  Quiet /\ ~refused =>
    /\ ~AwaitsPeer /\ ~renegotiate
    /\ \A r \in Changes : \E a \in applied : r \in a.answer.has

\* Answers meet their offers, and once all is quiet every change has had one.
ChangesAreNegotiated == AnswersMeetTheirOffers /\ QuietIsNegotiated

\* The deadline of negotiate() is what its comment says, a backstop: unless the
\* browser refuses an offer, a request made in a session that runs is answered
\* or ended by a full reconnect without it.
NegotiationSettles ==
  \A r \in Requests :
    (phase = "running" /\ req[r].state = "waiting" /\ req[r].session = session)
      ~> (req[r].state # "waiting" \/ refused)
=============================================================================

---------------------------- MODULE EngineSession ----------------------------
(***************************************************************************)
(* What room/RTCEngine.ts promises whoever listens to its events. Attempts   *)
(* to repair the session follow one another: each announces itself           *)
(* (Resuming, Restarting), may report that the signal connection is back     *)
(* (SignalResumed, SignalRestarted), and ends. A full reconnect that was     *)
(* asked for or that failed is owed until a restart begins. Once the session *)
(* has ended nothing is announced any more.                                  *)
(*                                                                         *)
(* EngineReconnect implements this module; RoomSession is built upon it.     *)
(***************************************************************************)
VARIABLES
  phase,  \* the announcement the listeners heard last
  owed    \* a full reconnect has to follow

session == <<phase, owed>>

Phases == {"steady", "resuming", "signalResumed", "restarting", "signalRestarted", "ended"}

TypeOK == phase \in Phases /\ owed \in BOOLEAN

Init == phase = "steady" /\ owed = FALSE

\* A RECONNECT leave, a reconcile, a timed out negotiation.
Ask == phase # "ended" /\ owed' = TRUE /\ UNCHANGED phase

Resume == phase = "steady" /\ ~owed /\ phase' = "resuming" /\ UNCHANGED owed

SignalResumed == phase = "resuming" /\ phase' = "signalResumed" /\ UNCHANGED owed

Resumed == phase = "signalResumed" /\ phase' = "steady" /\ UNCHANGED owed

ResumeFailed ==
  /\ phase \in {"resuming", "signalResumed"} /\ phase' = "steady"
  /\ owed' \in {owed, TRUE}

Restart == phase = "steady" /\ phase' = "restarting" /\ owed' = FALSE

SignalRestarted == phase = "restarting" /\ phase' = "signalRestarted" /\ UNCHANGED owed

Restarted == phase = "signalRestarted" /\ phase' = "steady" /\ UNCHANGED owed

\* What failed is repeated with another region within the attempt.
RestartElsewhere == phase = "signalRestarted" /\ phase' = "restarting" /\ UNCHANGED owed

RestartFailed ==
  /\ phase \in {"restarting", "signalRestarted"} /\ phase' = "steady"
  /\ owed' = TRUE

End == phase # "ended" /\ phase' = "ended" /\ owed' = FALSE

AttemptEnds == Resumed \/ ResumeFailed \/ Restarted \/ RestartFailed \/ End

Next ==
  \/ Ask \/ Resume \/ SignalResumed \/ Restart \/ SignalRestarted
  \/ RestartElsewhere \/ AttemptEnds

Spec == Init /\ [][Next]_session

Attempting == phase \notin {"steady", "ended"}

\* Every attempt ends.
AttemptsEnd == Attempting ~> ~Attempting
=============================================================================

---------------------------- MODULE AirPlayTunnel ----------------------------
(***************************************************************************)
(* The remote control tunnel: MRP over the data channel of an AirPlay 2    *)
(* session (_create_mrp_tunnel_data of protocols/airplay/__init__.py,      *)
(* AP2Session, AirPlayMrpConnection and the channels).  stage is what      *)
(* _connect_rc awaits.  There are a control connection, a channel for      *)
(* events and one for data, each of which may be lost, and a task that     *)
(* sends feedback on the control connection.                               *)
(***************************************************************************)
EXTENDS Integers, Sequences

CONSTANT HEARTBEAT_RETRIES
ASSUME TunnelAssumption == HEARTBEAT_RETRIES \in Nat

VARIABLES
    stage,      \* "called" before and "connected" or "raised" after _connect_rc
    raised,     \* the exception
    links,      \* control connection, event channel and data channel
    encrypted,  \* the control connection has the processors of a HAP session
    listening,  \* AirPlayMrpConnection has the data channel and listens to it
    feedback,   \* the task that sends feedback, and its attempts
    told,       \* what the device listener was told: only the first call counts
    closed      \* FacadeAppleTV.close was called

tunnelVars == <<stage, raised, links, encrypted, listening, feedback, told, closed>>

(* What the session awaits, one after the other. *)
SessionConnect == <<"connect", "verify">>
SetupEventChannel == <<"setup events", "event channel">>
SetupDataChannel == <<"setup data", "data channel">>
SetupRemoteControl == SetupEventChannel \o <<"record">> \o SetupDataChannel
SessionSteps == SessionConnect \o SetupRemoteControl

OnControl == {"verify", "setup events", "record", "setup data"}
Opens(step) == CASE step = "connect" -> "control"
                 [] step = "event channel" -> "event"
                 [] step = "data channel" -> "data"
                 [] OTHER -> "nothing"

TunnelInit ==
    /\ stage = "called" /\ raised = "nothing"
    /\ links = [l \in {"control", "event", "data"} |-> "none"]
    /\ encrypted = FALSE /\ listening = FALSE
    /\ feedback = [task |-> "none", attempts |-> 0]
    /\ told = "nothing" /\ closed = FALSE

(* AP2Session.stop and AbstractHAPChannel.close.                           *)
SessionStop(ls) == [l \in DOMAIN ls |-> IF ls[l] # "none" THEN "closed" ELSE ls[l]]

(* FacadeAppleTV.close, with the links and the feedback as they are by     *)
(* then: _close_rc of a tunnel that has connected.                         *)
FacadeCloses(ls, fb) ==
    /\ closed' = TRUE
    /\ IF stage = "connected" /\ ~closed
       THEN /\ links' = SessionStop(ls)
            /\ feedback' = IF fb.task \in {"sleeping", "sending"}
                           THEN [fb EXCEPT !.task = "cancelled"] ELSE fb
            /\ listening' = FALSE
            /\ stage' = "closed"
       ELSE links' = ls /\ feedback' = fb /\ UNCHANGED <<stage, listening>>

(* The device listener is a StateProducer of one call, and to tell it      *)
(* makes FacadeAppleTV close before anything else.                         *)
Tell(what, ls, fb) ==
    IF told = "nothing" THEN told' = what /\ FacadeCloses(ls, fb)
    ELSE links' = ls /\ feedback' = fb /\ UNCHANGED <<stage, listening, told, closed>>

-----------------------------------------------------------------------------
(* _connect_rc. *)
Connect == /\ stage = "called" /\ ~closed
           /\ stage' = SessionSteps[1]
           /\ UNCHANGED <<raised, links, encrypted, listening, feedback, told, closed>>

(* start_keep_alive, after setup_remote_control. *)
StartKeepAlive == feedback' = [task |-> "sleeping", attempts |-> 0]

(* mrp_connect follows without anything awaited, up to its first request.  *)
MrpConnect(step) == IF step = "data channel" THEN StartKeepAlive /\ listening' = TRUE
                    ELSE UNCHANGED <<feedback, listening>>

(* A step is done; verify_connection encrypts if the credentials have keys. *)
SessionStep ==
    \E i \in 1..Len(SessionSteps) :
      LET step == SessionSteps[i]
          open == Opens(step)
      IN /\ stage = step
         /\ step \in OnControl => links["control"] = "open"
         /\ stage' = IF i = Len(SessionSteps) THEN "mrp" ELSE SessionSteps[i + 1]
         /\ links' = IF open = "nothing" THEN links ELSE [links EXCEPT ![open] = "open"]
         /\ encrypted' \in IF step = "verify" THEN BOOLEAN ELSE {encrypted}
         /\ MrpConnect(step)
         /\ UNCHANGED <<raised, told, closed>>

(* A device that does not know the credentials responds with 470.  What    *)
(* was opened stays so: nobody closes a protocol that did not connect.     *)
SessionRaises ==
    /\ \E i \in 1..Len(SessionSteps) : stage = SessionSteps[i]
    /\ stage' = "raised"
    /\ \/ stage \in OnControl /\ links["control"] = "open"
          /\ raised' \in {"InvalidCredentialsError", "HttpError"}
       \/ raised' = "ProtocolError"
    /\ UNCHANGED <<links, encrypted, listening, feedback, told, closed>>

(* MrpProtocol.start is done or not, which stops what it started: the       *)
(* connection of MRP, but not the session.                                 *)
MrpStarts ==
    /\ stage = "mrp"
    /\ stage' = "connected"
    /\ UNCHANGED <<raised, links, encrypted, listening, feedback, told, closed>>

MrpRaises ==
    /\ stage = "mrp"
    /\ stage' = "raised" /\ raised' = "other"
    /\ links' = [links EXCEPT !["data"] = "closed"]
    /\ listening' = FALSE
    /\ UNCHANGED <<encrypted, feedback, told, closed>>

-----------------------------------------------------------------------------
(* The links.  AirPlayMrpConnection tells of the data channel, whether it  *)
(* was lost or the device closed it; nobody minds about the event channel. *)
LoseLink(l) ==
    /\ links[l] = "open"
    /\ IF l = "data" /\ listening
       THEN \E what \in {"lost", "closed"} : Tell(what, [links EXCEPT ![l] = "lost"], feedback)
       ELSE /\ links' = [links EXCEPT ![l] = "lost"]
            /\ UNCHANGED <<stage, listening, feedback, told, closed>>
    /\ UNCHANGED <<raised, encrypted>>

(* heartbeater, with the feedback of start_keep_alive: the first attempt   *)
(* after a while, further ones at once.                                    *)
FeedbackTimer ==
    /\ feedback.task = "sleeping"
    /\ feedback' = [feedback EXCEPT !.task = "sending"]
    /\ UNCHANGED <<stage, raised, links, encrypted, listening, told, closed>>

FeedbackAnswered ==
    /\ feedback.task = "sending" /\ links["control"] = "open"
    /\ feedback' = [task |-> "sleeping", attempts |-> 0]
    /\ UNCHANGED <<stage, raised, links, encrypted, listening, told, closed>>

(* Mutant: a heartbeat that fails for good is only logged. *)
FeedbackGivesUp ==
    /\ feedback.task = "sending"
    /\ feedback' = [task |-> IF feedback.attempts = HEARTBEAT_RETRIES THEN "failed" ELSE "sending",
                    attempts |-> feedback.attempts + 1]
    /\ UNCHANGED <<stage, raised, links, encrypted, listening, told, closed>>

FeedbackFails ==
    /\ feedback.task = "sending"
    /\ IF feedback.attempts = HEARTBEAT_RETRIES
       THEN Tell("lost", links, [task |-> "failed", attempts |-> feedback.attempts + 1])
       ELSE /\ feedback' = [feedback EXCEPT !.attempts = @ + 1]
            /\ UNCHANGED <<stage, links, listening, told, closed>>
    /\ UNCHANGED <<raised, encrypted>>

(* The task sees that it was cancelled, and calls the finish function.     *)
FeedbackCancelled ==
    /\ feedback.task = "cancelled"
    /\ Tell("closed", links, [feedback EXCEPT !.task = "finished"])
    /\ UNCHANGED <<raised, encrypted>>

-----------------------------------------------------------------------------
(* The user closes, once connect has returned or raised. *)
Close ==
    /\ ~closed /\ stage \in {"connected", "raised"}
    /\ FacadeCloses(links, feedback)
    /\ UNCHANGED <<raised, encrypted, told>>

(* What does not need the user, or a link to break. *)
TunnelRuns ==
    \/ SessionStep \/ SessionRaises \/ MrpStarts \/ MrpRaises
    \/ FeedbackTimer \/ FeedbackAnswered \/ FeedbackFails \/ FeedbackCancelled

TunnelNext ==
    \/ TunnelRuns \/ Connect \/ Close
    \/ \E l \in DOMAIN links : LoseLink(l)

-----------------------------------------------------------------------------
(* When the control connection of a connected tunnel breaks, the tunnel    *)
(* comes down and the user is told, though nobody who notices waits for    *)
(* anything on that connection (start_keep_alive, connection_lost).        *)
DeadTunnelComesDown ==
    (stage = "connected" /\ ~closed /\ links["control"] = "lost")
        ~> (stage = "closed" /\ told # "nothing")
=============================================================================

------------------------------ MODULE DmapPush ------------------------------
(***************************************************************************)
(* Push updates of DMAP (protocols/dmap/__init__.py): DmapPushUpdater polls  *)
(* the device with long requests, each of which asks for what comes after a  *)
(* revision; BaseDmapAppleTV.playstatus keeps the revision, which playing()  *)
(* of the user moves as well; AbstractPushUpdater.post_update (core/         *)
(* __init__.py) drops what did not change.                                   *)
(*                                                                         *)
(* A request is answered by the device and later received: what is received  *)
(* may be old.  A request that is refused is repeated as it was after a      *)
(* login (daap.py), and that is part of waiting for its answer.              *)
(***************************************************************************)
EXTENDS Integers, FiniteSets

CONSTANTS
    MaxPollers,   \* bound on the calls of start()
    MaxRevision   \* bound on the changes of the device

ASSUME PollAssumption == MaxPollers \in Nat /\ MaxRevision \in Nat \ {0}

Poller == 1..MaxPollers
NoPoller == 0

(* Revision 0 stands for none: the device answers at once.  What is playing  *)
(* is told by its revision, as two contents that are alike need no update.   *)
Revision == 0..MaxRevision
NoAnswer == 0

VARIABLES
    device,     \* the revision of the device
    revision,   \* playstatus_revision
    future,     \* the poller that is self._future
    started,    \* how often start() made a poller
    state,      \* each poller: "absent", "ready", "polling" or "ended"
    cancelled,  \* the pollers whose task was cancelled
    asked,      \* the revision that each poller asks for
    blind,      \* the pollers whose first request did not ask for 0
    answer,     \* what the device answered to each poller
    user,       \* playing() of the user: "idle" or "asking"
    reply,      \* and what was answered to it
    previous,   \* _previous_state: what was posted last
    closed      \* the protocol was closed

pollerVars == <<started, state, cancelled, asked, blind, answer>>
userVars == <<user, reply>>
pushVars == <<device, revision, future, pollerVars, userVars, previous, closed>>

PushTypeOK ==
    /\ device \in Revision \ {0}
    /\ revision \in Revision
    /\ future \in Poller \cup {NoPoller}
    /\ started \in 0..MaxPollers
    /\ state \in [Poller -> {"absent", "ready", "polling", "ended"}]
    /\ cancelled \subseteq Poller /\ blind \subseteq Poller
    /\ asked \in [Poller -> Revision]
    /\ answer \in [Poller -> Revision]
    /\ user \in {"idle", "asking"}
    /\ reply \in Revision
    /\ previous \in Revision
    /\ closed \in BOOLEAN
    /\ \A p \in Poller : state[p] = "absent" <=> p > started
    /\ \A p \in Poller : answer[p] # NoAnswer => state[p] = "polling"
    /\ user = "idle" => reply = NoAnswer

(* connect() has asked for the state once.                                   *)
PushInit ==
    /\ device = 1
    /\ revision = 1
    /\ future = NoPoller
    /\ started = 0
    /\ state = [p \in Poller |-> "absent"]
    /\ cancelled = {} /\ blind = {}
    /\ asked = [p \in Poller |-> 0]
    /\ answer = [p \in Poller |-> NoAnswer]
    /\ user = "idle" /\ reply = NoAnswer
    /\ previous = 0
    /\ closed = FALSE

-----------------------------------------------------------------------------
(* The interface of the push updater.                                       *)

Start ==
    /\ ~ closed /\ future = NoPoller /\ started < MaxPollers
    /\ started' = started + 1
    /\ future' = started'
    /\ state' = [state EXCEPT ![started'] = "ready"]
    /\ revision' = 0
    /\ UNCHANGED <<device, cancelled, asked, blind, answer, userVars, previous, closed>>

(* Cancelling asks the task to end; it goes on until it runs again.          *)
Cancels ==
    /\ cancelled' = cancelled \cup ({future} \ {NoPoller})
    /\ future' = NoPoller

PushStop ==
    /\ future # NoPoller
    /\ Cancels
    /\ UNCHANGED <<device, revision, started, state, asked, blind, answer, userVars, previous,
                   closed>>

(* _close of the SetupData stops the updater; the session may be the user's  *)
(* and stay open.                                                           *)
Close ==
    /\ ~ closed /\ closed' = TRUE
    /\ Cancels
    /\ UNCHANGED <<device, revision, started, state, asked, blind, answer, userVars, previous>>

(* playing() asks for the state without a revision.                          *)
Playing ==
    /\ ~ closed /\ user = "idle"
    /\ user' = "asking" /\ reply' = NoAnswer
    /\ UNCHANGED <<device, revision, future, pollerVars, previous, closed>>

(* BaseDmapAppleTV.playstatus for playing(): it moves the revision, too.     *)
PlayingReceives ==
    /\ reply # NoAnswer
    /\ revision' = reply
    /\ user' = "idle" /\ reply' = NoAnswer
    /\ UNCHANGED <<device, future, pollerVars, previous, closed>>

-----------------------------------------------------------------------------
(* _poller.                                                                 *)

(* The task runs for the first time.  The delay before a request is never    *)
(* taken: first_call is reset only behind it.                                *)
Begins(p) ==
    /\ state[p] = "ready" /\ p \notin cancelled
    /\ state' = [state EXCEPT ![p] = "polling"]
    /\ asked' = [asked EXCEPT ![p] = revision]
    /\ blind' = IF revision = 0 THEN blind ELSE blind \cup {p}
    /\ UNCHANGED <<device, revision, future, started, cancelled, answer, userVars, previous,
                   closed>>

(* Mutant: what the user was given by playing() is not posted.               *)
ReceivesUnlessKnown(p) ==
    /\ state[p] = "polling" /\ p \notin cancelled /\ answer[p] # NoAnswer
    /\ previous' = IF answer[p] = revision THEN previous ELSE answer[p]
    /\ revision' = answer[p]
    /\ asked' = [asked EXCEPT ![p] = answer[p]]
    /\ answer' = [answer EXCEPT ![p] = NoAnswer]
    /\ UNCHANGED <<device, future, started, state, cancelled, blind, userVars, closed>>

(* An answer is posted and the next request asks for what comes after it.    *)
Receives(p) ==
    /\ state[p] = "polling" /\ p \notin cancelled /\ answer[p] # NoAnswer
    /\ previous' = answer[p]
    /\ revision' = answer[p]
    /\ asked' = [asked EXCEPT ![p] = answer[p]]
    /\ answer' = [answer EXCEPT ![p] = NoAnswer]
    /\ UNCHANGED <<device, future, started, state, cancelled, blind, userVars, closed>>

(* An exception that is not the client's: reported, and polled anew at once. *)
Fails(p) ==
    /\ state[p] = "polling" /\ p \notin cancelled
    /\ revision' = 0
    /\ asked' = [asked EXCEPT ![p] = 0]
    /\ answer' = [answer EXCEPT ![p] = NoAnswer]
    /\ UNCHANGED <<device, future, started, state, cancelled, blind, userVars, previous, closed>>

(* What follows the loop.                                                   *)
Ends(p) ==
    /\ state' = [state EXCEPT ![p] = "ended"]
    /\ future' = NoPoller
    /\ answer' = [answer EXCEPT ![p] = NoAnswer]
    /\ UNCHANGED <<device, revision, started, cancelled, asked, blind, userVars, previous, closed>>

(* A ClientError: the connection is reported as lost.                        *)
LosesConnection(p) ==
    /\ state[p] = "polling" /\ p \notin cancelled
    /\ Ends(p)

(* The cancelled task runs: it leaves the loop, or never entered it.         *)
Cancelled(p) ==
    /\ state[p] = "polling" /\ p \in cancelled
    /\ Ends(p)

CancelledFirst(p) ==
    /\ state[p] = "ready" /\ p \in cancelled
    /\ state' = [state EXCEPT ![p] = "ended"]
    /\ UNCHANGED <<device, revision, future, started, cancelled, asked, blind, answer, userVars,
                   previous, closed>>

-----------------------------------------------------------------------------
(* The device.                                                              *)

Changes ==
    /\ device < MaxRevision
    /\ device' = device + 1
    /\ UNCHANGED <<revision, future, pollerVars, userVars, previous, closed>>

Answers(p) ==
    /\ state[p] = "polling" /\ answer[p] = NoAnswer
    /\ asked[p] # device
    /\ answer' = [answer EXCEPT ![p] = device]
    /\ UNCHANGED <<device, revision, future, started, state, cancelled, asked, blind, userVars,
                   previous, closed>>

AnswersPlaying ==
    /\ user = "asking" /\ reply = NoAnswer
    /\ reply' = device
    /\ UNCHANGED <<device, revision, future, pollerVars, user, previous, closed>>

Task(p) == Begins(p) \/ Receives(p) \/ Cancelled(p) \/ CancelledFirst(p)

PushNext ==
    \/ Start \/ PushStop \/ Close \/ Playing \/ PlayingReceives
    \/ \E p \in Poller : Task(p) \/ Fails(p) \/ LosesConnection(p) \/ Answers(p)
    \/ Changes \/ AnswersPlaying

-----------------------------------------------------------------------------
(* Whoever else moves the revision meanwhile (playing(), a poller that runs  *)
(* on, an error), the poller of an active updater does not miss a change if  *)
(* it began with an immediate response: what the device plays is posted in   *)
(* the end.                                                                  *)
NothingMissed ==
    \A p \in Poller :
        future = p ~> future # p \/ p \in blind \/ previous = device

=============================================================================

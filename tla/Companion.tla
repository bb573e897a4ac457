----------------------------- MODULE Companion -----------------------------
(***************************************************************************)
(* The Companion protocol: protocols/companion/api.py (CompanionAPI: connect *)
(* on demand, disconnect, event subscriptions) on top of protocol.py         *)
(* (CompanionProtocol: requests paired with responses by XID, or by frame    *)
(* type while authenticating) and connection.py.                             *)
(*                                                                         *)
(* A task is a coroutine of the event loop: "setup" is connect() of the      *)
(* SetupData, "closer" is the disconnect() that the facade's close()         *)
(* schedules, and those of the user send one command (app_list, play, ...)   *)
(* or two (a button that is pressed and released).  What a task has yet to   *)
(* do is a sequence of steps.                                                *)
(***************************************************************************)
EXTENDS Integers, Sequences, FiniteSets, SequencesExt

CONSTANTS
    Single,    \* tasks of the user that send one command
    Button,    \* tasks of the user that send two
    MaxXid     \* bound on the requests sent over one connection

ASSUME BoundAssumption == MaxXid \in Nat \ {0}
ASSUME UserAssumption == (Single \cup Button) \cap {"setup", "closer"} = {}

User == Single \cup Button
Task == User \cup {"setup", "closer"}

(* One CompanionProtocol, with its CompanionConnection, is made by setup and *)
(* at most one more after disconnect(), which runs once.                     *)
Instance == 1..2

Event == {"_iMC", "SystemStatus", "TVSystemStatus"}

(* "start" awaits the TCP connection; "verify" awaits an authentication      *)
(* frame; "command" awaits a response; an exception of an "optional" command *)
(* is ignored; an event is a step that subscribes to it; "events" is the     *)
(* loop of disconnect() that unsubscribes.                                   *)
Step == {"start", "verify", "command", "optional", "events"} \cup Event
Exchanges == {"verify", "command", "optional"}

(* system_info, _touch_start, _session_start and _text_input_start, which    *)
(* all end connect() when they raise: one exchange stands for them.         *)
SessionStart == <<"command">>

(* Then _tv_rc_session_start and the media control flags.                   *)
Connecting == <<"start", "verify", "verify">> \o SessionStart \o <<"optional", "_iMC">>

FetchAttentionState == <<"optional">>
PowerInitialize == FetchAttentionState \o <<"SystemStatus", "TVSystemStatus">>

Commands(u) == IF u \in Button THEN <<"command", "command">> ELSE <<"command">>

(* One exchange for _session_stop, _touch_stop and _text_input_stop.        *)
SessionStop == <<"command">>
Disconnecting == <<"events">> \o SessionStop

(* A request of an instance, by its XID.                                     *)
Call == Instance \X (1..MaxXid)
NoCall == <<0, 0>>

(* The type of the authentication frames, as an identifier beside the XIDs.  *)
AuthFrame == 0

VARIABLES
    current,     \* the instance that is self._protocol, 0 for None
    link,        \* each connection: "none", "up" or "down"
    xid,         \* _xid of each instance, counted from 0
    queues,      \* _queues of each instance: who waits under which identifier
    shared,      \* the responses put in SharedData: <<waiter, response, kind>>
    phase,       \* each task: "idle", "running", "returned" or "raised"
    todo,        \* the steps it has left
    wait,        \* the call it awaits; <<i, 0>> is the connection of i
    subscribed,  \* self._subscribed_events
    open,        \* the requests the device has yet to answer
    auth,        \* the requests that are authentication frames
    interest     \* the events the device was asked for, per connection

apiVars == <<current, subscribed>>
protocolVars == <<xid, queues, shared, auth>>
taskVars == <<phase, todo, wait>>
deviceVars == <<open, interest>>
vars == <<apiVars, link, protocolVars, taskVars, deviceVars>>

TypeOK ==
    /\ current \in Instance \cup {0}
    /\ link \in [Instance -> {"none", "up", "down"}]
    /\ xid \in [Instance -> 0..MaxXid]
    /\ queues \in [Instance -> SUBSET ((0..MaxXid) \X (1..MaxXid))]
    /\ shared \subseteq Call \X Call \X {"content", "error"}
    /\ phase \in [Task -> {"idle", "running", "returned", "raised"}]
    /\ todo \in [Task -> Seq(Step)]
    /\ wait \in [Task -> Call \cup {<<i, 0>> : i \in Instance} \cup {NoCall}]
    /\ subscribed \in Seq(Event) /\ IsInjective(subscribed)
    /\ open \subseteq Call
    /\ auth \subseteq Call
    /\ interest \in [Instance -> SUBSET Event]

(* Nothing is done yet but by the tasks that run.                           *)
Starting(running) ==
    /\ current = 1
    /\ link = [i \in Instance |-> "none"]
    /\ xid = [i \in Instance |-> 0]
    /\ queues = [i \in Instance |-> {}]
    /\ shared = {}
    /\ phase = [t \in Task |-> IF t \in running THEN "running" ELSE "idle"]
    /\ todo = [t \in Task |-> IF t \in running THEN Connecting \o PowerInitialize ELSE <<>>]
    /\ wait = [t \in Task |-> NoCall]
    /\ subscribed = <<>>
    /\ open = {}
    /\ auth = {}
    /\ interest = [i \in Instance |-> {}]

Init == Starting({"setup"})

-----------------------------------------------------------------------------
(* How a step ends.                                                         *)

(* What an instance sent is not answered when its connection is down.       *)
Unanswered(i) == open' = {call \in open : call[1] # i}

(* Mutant: stop() forgets to close the connection.                          *)
StopKeepsLink(i) ==
    /\ queues' = [queues EXCEPT ![i] = {}]
    /\ UNCHANGED <<link, open>>
    /\ current' = 0

(* CompanionProtocol.stop and what disconnect does with it.                 *)
Stop(i) ==
    /\ queues' = [queues EXCEPT ![i] = {}]
    /\ link' = [link EXCEPT ![i] = IF @ = "up" THEN "down" ELSE @]
    /\ Unanswered(i)
    /\ current' = 0

(* The task is over; disconnect() has its "finally", come what may.         *)
Ends(t, how) ==
    /\ phase' = [phase EXCEPT ![t] = IF t = "closer" THEN "returned" ELSE how]
    /\ todo' = [todo EXCEPT ![t] = <<>>]
    /\ IF t = "closer" THEN Stop(current) ELSE UNCHANGED <<current, link, queues, open>>

(* The step is done and the task goes on with the next.                     *)
Continues(t) ==
    IF Len(todo[t]) = 1 THEN Ends(t, "returned")
    ELSE /\ todo' = [todo EXCEPT ![t] = Tail(@)]
         /\ UNCHANGED <<phase, current, link, queues, open>>

(* The step raised.  Ignored are the exceptions of an optional command and  *)
(* those of the subscriptions of CompanionPower.initialize.                 *)
Raises(t) ==
    IF Head(todo[t]) = "optional" THEN Continues(t)
    ELSE Ends(t, IF Head(todo[t]) \in {"SystemStatus", "TVSystemStatus"} THEN "returned"
                 ELSE "raised")

Ready(t) == phase[t] = "running" /\ wait[t] = NoCall
AtStep(t, steps) == Ready(t) /\ Head(todo[t]) \in steps

-----------------------------------------------------------------------------
(* Tasks begin.                                                             *)

(* A guard of FacadeAppleTV keeps the user out before connect() has         *)
(* returned and after close() was called.                                   *)
UserBegins(u) ==
    /\ phase["setup"] = "returned"
    /\ phase["closer"] = "idle"
    /\ phase[u] = "idle"
    /\ phase' = [phase EXCEPT ![u] = "running"]
    /\ todo' = [todo EXCEPT ![u] = Commands(u)]
    /\ UNCHANGED <<apiVars, link, protocolVars, wait, deviceVars>>

(* FacadeAppleTV.close, for whatever reason: disconnect() is scheduled.     *)
Close ==
    /\ phase["setup"] = "returned"
    /\ phase["closer"] = "idle"
    /\ phase' = [phase EXCEPT !["closer"] = "running"]
    /\ todo' = [todo EXCEPT !["closer"] = Disconnecting]
    /\ UNCHANGED <<apiVars, link, protocolVars, wait, deviceVars>>

-----------------------------------------------------------------------------
(* Connecting.                                                              *)

(* _send_command and _send_event call connect(): without a protocol, one is *)
(* made and started before anything is sent.                                *)
Connects(t) ==
    /\ AtStep(t, {"command", "optional"} \cup Event)
    /\ current = 0
    /\ current' = 2
    /\ todo' = [todo EXCEPT ![t] = Connecting \o @]
    /\ UNCHANGED <<subscribed, link, protocolVars, phase, wait, deviceVars>>

Starts(t) ==
    /\ AtStep(t, {"start"})
    /\ wait' = [wait EXCEPT ![t] = <<current, 0>>]
    /\ UNCHANGED <<apiVars, link, protocolVars, phase, todo, deviceVars>>

(* create_connection returns; connection_made has been called.              *)
ConnectionMade(t) ==
    /\ wait[t] \in Instance \X {0}
    /\ wait' = [wait EXCEPT ![t] = NoCall]
    /\ link' = [link EXCEPT ![wait[t][1]] = "up"]
    /\ todo' = [todo EXCEPT ![t] = Tail(@)]
    /\ UNCHANGED <<apiVars, protocolVars, phase, deviceVars>>

(* It raises: self._protocol stays as it is.                                *)
ConnectionFails(t) ==
    /\ wait[t] \in Instance \X {0}
    /\ wait' = [wait EXCEPT ![t] = NoCall]
    /\ Raises(t)
    /\ UNCHANGED <<subscribed, xid, shared, auth, interest>>

-----------------------------------------------------------------------------
(* Requests and responses.                                                  *)

(* Mutant: all requests wait under the type of their frame.                 *)
IdentifierOfType(call, frames) == AuthFrame

(* The identifier under which the response to a call is looked up: the type *)
(* of the frame for authentication, else the XID.                           *)
Identifier(call, frames) == IF call \in frames THEN AuthFrame ELSE call[2]

(* The frame is sent, and then the request registers in _queues, in place   *)
(* of another one that waits under the same identifier.                     *)
Exchange(t) ==
    /\ AtStep(t, Exchanges)
    /\ current # 0
    /\ LET i == current
           call == <<i, xid[i] + 1>>
       IN IF link[i] = "up"
          THEN /\ xid[i] < MaxXid
               /\ xid' = [xid EXCEPT ![i] = @ + 1]
               /\ auth' = IF Head(todo[t]) = "verify" THEN auth \cup {call} ELSE auth
               /\ queues' = [queues EXCEPT ![i] =
                      {e \in @ : e[1] # Identifier(call, auth')} \cup {<<Identifier(call, auth'), call[2]>>}]
               /\ wait' = [wait EXCEPT ![t] = call]
               /\ open' = open \cup {call}
               /\ UNCHANGED <<apiVars, link, shared, phase, todo, interest>>
          ELSE /\ Raises(t)
               /\ UNCHANGED <<subscribed, xid, shared, auth, wait, interest>>

(* frame_received: the response is handed to who waits under its            *)
(* identifier, if anybody still does; the entry goes.                       *)
DeviceAnswers(call, kind) ==
    /\ LET takers == {e \in queues[call[1]] : e[1] = Identifier(call, auth)}
           waiters == {<<call[1], e[2]>> : e \in takers} \cap Range(wait)
       IN /\ queues' = [queues EXCEPT ![call[1]] = @ \ takers]
          /\ shared' = shared \cup {<<w, call, kind>> : w \in waiters}
    /\ open' = open \ {call}
    /\ UNCHANGED <<apiVars, link, xid, auth, taskVars, interest>>

(* The task that waited runs again.  A response with an error message is    *)
(* raised.                                                                  *)
Resume(t, response, kind) ==
    /\ phase[t] = "running"
    /\ wait' = [wait EXCEPT ![t] = NoCall]
    /\ IF kind = "content" THEN Continues(t) ELSE Raises(t)
    /\ shared' = shared \ {<<wait[t], response, kind>>}
    /\ UNCHANGED <<subscribed, xid, auth, interest>>

(* Mutant: the timer is stopped when the connection is down.                *)
TimeoutWhileUp(t) ==
    /\ wait[t] \in Call
    /\ link[wait[t][1]] = "up"
    /\ wait' = [wait EXCEPT ![t] = NoCall]
    /\ Raises(t)
    /\ UNCHANGED <<subscribed, xid, shared, auth, interest>>

(* The timer of SharedData.wait fires, perhaps after the response was put   *)
(* there; the entry in _queues stays.                                       *)
Timeout(t) ==
    /\ wait[t] \in Call
    /\ wait' = [wait EXCEPT ![t] = NoCall]
    /\ shared' = {s \in shared : s[1] # wait[t]}
    /\ Raises(t)
    /\ UNCHANGED <<subscribed, xid, auth, interest>>

ConnectionLost(i) ==
    /\ link[i] = "up"
    /\ link' = [link EXCEPT ![i] = "down"]
    /\ Unanswered(i)
    /\ UNCHANGED <<apiVars, protocolVars, taskVars, interest>>

-----------------------------------------------------------------------------
(* Events.                                                                  *)

(* subscribe_event.  The XID that send_opack adds to an event is not        *)
(* answered by anybody, and not counted here.                               *)
Subscribes(t) ==
    /\ AtStep(t, Event)
    /\ current # 0
    /\ LET event == Head(todo[t])
       IN IF event \in Range(subscribed) THEN Continues(t) /\ UNCHANGED <<subscribed, interest>>
          ELSE IF link[current] = "up"
          THEN /\ subscribed' = Append(subscribed, event)
               /\ interest' = [interest EXCEPT ![current] = @ \cup {event}]
               /\ Continues(t)
          ELSE Raises(t) /\ UNCHANGED <<subscribed, interest>>
    /\ UNCHANGED <<xid, shared, auth, wait>>

(* The positions a loop over a list visits when its body removes the        *)
(* element it is at: every second one.                                      *)
Visited(s) == {k \in DOMAIN s : k % 2 = 1}
Left(s) == [k \in 1..(Len(s) \div 2) |-> s[2 * k]]

(* The loop of disconnect(), which does not suspend.                        *)
Unsubscribes(t) ==
    /\ AtStep(t, {"events"})
    /\ IF subscribed = <<>> THEN Continues(t) /\ UNCHANGED <<subscribed, interest>>
       ELSE IF link[current] = "up"
       THEN /\ subscribed' = Left(subscribed)
            /\ interest' = [interest EXCEPT ![current] =
                               @ \ {subscribed[k] : k \in Visited(subscribed)}]
            /\ Continues(t)
       ELSE Raises(t) /\ UNCHANGED <<subscribed, interest>>
    /\ UNCHANGED <<xid, shared, auth, wait>>

-----------------------------------------------------------------------------
Runs(t) ==
    \/ Connects(t) \/ Starts(t) \/ Exchange(t)
    \/ Subscribes(t) \/ Unsubscribes(t)

Wakes(t) ==
    \/ ConnectionMade(t) \/ ConnectionFails(t) \/ Timeout(t)
    \/ \E s \in shared : s[1] = wait[t] /\ Resume(t, s[2], s[3])

Next ==
    \/ \E t \in Task : Runs(t) \/ Wakes(t)
    \/ \E u \in User : UserBegins(u)
    \/ Close
    \/ \E call \in open, kind \in {"content", "error"} : DeviceAnswers(call, kind)
    \/ \E i \in Instance : ConnectionLost(i)

Spec == Init /\ [][Next]_vars

(* The event loop runs every task that can run, a connection attempt ends,  *)
(* and timers fire.  Nothing is asked of the device or of the user.         *)
FairSpec ==
    /\ Spec
    /\ \A t \in Task : WF_vars(Runs(t) \/ Wakes(t))

-----------------------------------------------------------------------------
(* Properties.                                                              *)

(* There are never two connections: the second is made only when the first  *)
(* is closed, requests wait on no other, and the first is closed when       *)
(* disconnect() is done, whatever its requests met.                         *)
OneConnection ==
    /\ Cardinality({i \in Instance : link[i] = "up"}) <= 1
    /\ \A i \in Instance : queues[i] # {} => i = current
    /\ phase["closer"] = "returned" => link[1] = "down"

(* A response reaches only the call it answers, over both connections and    *)
(* in authentication, where the responses carry no identifier of their own. *)
OwnResponse == \A s \in shared : s[1] = s[2]

(* Everything ends: neither disconnect() nor a command is stuck, though the *)
(* device may be silent and the connection down.                            *)
TasksEnd == \A t \in Task : phase[t] = "running" ~> phase[t] # "running"

=============================================================================

----------------------------- MODULE MrpProtocol -----------------------------
(***************************************************************************)
(* protocols/mrp/protocol.py (MrpProtocol) with the MrpConnection below it *)
(* and the heartbeat task of core/protocol.py.  The protocol object is     *)
(* used in one of two ways, fixed when it is made:                         *)
(*   - by create_with_connection: start(), then enable_heartbeat(), then   *)
(*     commands of the user, until the facade calls stop();                *)
(*   - by MrpPairingHandler: start(skip_initial_messages=True), then one   *)
(*     crypto message at a time, until close() closes the connection.      *)
(* Every use of send_and_receive is one member of Call, made at most once. *)
(* Coroutines run from one await to the next in one step.                  *)
(***************************************************************************)
EXTENDS Naturals, Sequences, FiniteSets

CONSTANTS
    Command,   \* send_and_receive calls of the user of a connected protocol
    Beat,      \* heartbeat messages (their number bounds the heartbeat loop)
    PairStep,  \* crypto messages of the pairing handler
    NoCall

(* The messages start() sends and waits for.  Those of pair-verify are     *)
(* crypto messages.                                                        *)
StartStep == {"device_info", "verify1", "verify2", "updates_config", "keyboard"}
Crypto == {"verify1", "verify2"} \cup PairStep
Call == Command \cup Beat \cup StartStep \cup PairStep
Generated == Call \ Crypto

ASSUME CallAssumption ==
    /\ Command \cap (Beat \cup PairStep \cup StartStep) = {}
    /\ Beat \cap (PairStep \cup StartStep) = {}
    /\ PairStep \cap StartStep = {}
    /\ NoCall \notin Call
    /\ "crypto" \notin Call

MaxRetries == 1   \* HEARTBEAT_RETRIES

VARIABLES
    pairing,      \* this protocol belongs to a MrpPairingHandler
    credentials,  \* service.credentials is set
    pstate,       \* self._state
    start,        \* where the task of start() is
    conn,         \* the connection
    outstanding,  \* self._outstanding: identifier -> OutstandingMessage
    call,         \* the tasks suspended in _receive
    sent,         \* the device: messages it received and has not answered
    replied,      \* the device: messages it has answered
    heartbeat,    \* self._heartbeat_task
    attempts,     \* heartbeater: failed attempts in a row
    reported          \* atv.listener.connection_closed() or connection_lost()

taskVars == <<call, sent, outstanding>>
beatVars == <<heartbeat, attempts>>
setupVars == <<pairing, credentials>>
protocolVars ==
    <<setupVars, taskVars, beatVars, pstate, start, conn, replied, reported>>

(* "closing": transport.close() was called, connection_lost is scheduled and *)
(* self._transport is NoCall.                                                *)
Connection == {"none", "connecting", "up", "closing", "lost"}

Identifier == Generated \cup {"crypto"}

(* Mutant: identifiers of commands are made from the message type.         *)
IdByType(c) == IF c \in Command \cup PairStep THEN "crypto" ELSE c

(* A generated identifier is a fresh UUID, which the call stands for; crypto *)
(* messages share the identifier made from their type.                     *)
Id(c) == IF c \in Crypto THEN "crypto" ELSE c

Pending == [semaphore : Call, response : Call \cup {NoCall}]
ProtocolInit ==
    /\ pairing \in BOOLEAN
    /\ credentials \in BOOLEAN
    /\ pairing => ~credentials
    /\ pstate = "NOT_CONNECTED"
    /\ start = "idle"
    /\ conn = "none"
    /\ outstanding = [i \in {} |-> NoCall]
    /\ call = [c \in Call |-> [pc |-> "idle", released |-> FALSE, response |-> NoCall]]
    /\ sent = {}
    /\ replied = {}
    /\ heartbeat = "none"
    /\ attempts = 0
    /\ reported = FALSE

-----------------------------------------------------------------------------
(* send and _receive.                                                      *)

Empty == [i \in {} |-> NoCall]
Without(i) == [j \in DOMAIN outstanding \ {i} |-> outstanding[j]]
With(entries, c) ==
    [j \in DOMAIN entries \cup {Id(c)} |->
       IF j = Id(c) THEN [semaphore |-> c, response |-> NoCall] ELSE entries[j]]

(* Mutant: the failure is logged, the connection is left open.             *)
ClosedNever == conn

(* connection.close()                                                      *)
Closed == IF conn = "up" THEN "closing" ELSE conn

(* send() refuses in any other state, and a connection without a transport *)
(* raises AttributeError.                                                  *)
CanSend == pstate \in {"CONNECTED", "READY"} /\ conn = "up"

Waiting(c) == call[c].pc = "waiting"

(* call' when the call `ended' (if any) ended so and `begun' (if any) waits. *)
Ends(c, how, resp) == [call EXCEPT ![c].pc = how, ![c].response = resp]
Begins(calls, c) == [calls EXCEPT ![c].pc = "waiting"]

(* _receive continues after its semaphore was released, and finds its entry. *)
Got(c) == Waiting(c) /\ call[c].released /\ Id(c) \in DOMAIN outstanding
Response(c) == outstanding[Id(c)].response

(* It raises: TimeoutError at any time, or KeyError because stop() has     *)
(* replaced the dictionary.  Either way no entry stays.                    *)
Raises(c) == Waiting(c)

(* stop(), but for the calls: the new value of everything else it assigns. *)
StopProtocol ==
    /\ outstanding' = Empty
    /\ conn' = Closed
    /\ pstate' = "STOPPED"

(* heartbeat_task.cancel(): a heartbeat that is suspended ends.            *)
Alive(h) == h \in {"sleeping"} \cup Beat
CancelHeartbeat(calls) ==
    /\ heartbeat' = IF Alive(heartbeat) THEN "cancelled" ELSE heartbeat
    /\ call' = IF heartbeat \in Beat THEN [calls EXCEPT ![heartbeat].pc = "raised"] ELSE calls

-----------------------------------------------------------------------------
(* start()                                                                 *)

Steps ==
    IF pairing THEN <<"device_info">>
    ELSE IF credentials
         THEN <<"device_info", "verify1", "verify2", "updates_config", "keyboard">>
         ELSE <<"device_info", "updates_config", "keyboard">>

IsLast(s) == s = Steps[Len(Steps)]
NextStep(s) == Steps[(CHOOSE i \in 1..Len(Steps) : Steps[i] = s) + 1]

Start ==
    /\ pstate = "NOT_CONNECTED"
    /\ pstate' = "CONNECTING"
    /\ start' = "connecting"
    /\ conn' = "connecting"
    /\ UNCHANGED <<setupVars, taskVars, replied, beatVars, reported>>

ConnectFails ==
    /\ start = "connecting"
    /\ start' = "raised"
    /\ conn' = "none"
    /\ pstate' = "STOPPED"
    /\ UNCHANGED <<setupVars, taskVars, replied, beatVars, reported>>

ConnectSucceeds ==
    /\ start = "connecting"
    /\ conn' = "up"
    /\ pstate' = "CONNECTED"
    /\ start' = "device_info"
    /\ call' = Begins(call, "device_info")
    /\ sent' = sent \cup {"device_info"}
    /\ outstanding' = With(outstanding, "device_info")
    /\ UNCHANGED <<setupVars, replied, beatVars, reported>>

(* A response arrived: the next message is sent, or start() returns and    *)
(* (unless it is pairing) _connect enables the heartbeat.                  *)
StepReturns(s) ==
    /\ start = s
    /\ Got(s)
    /\ LET done == Ends(s, "returned", Response(s))
       IN IF IsLast(s)
          THEN /\ start' = "returned"
               /\ pstate' = IF pairing THEN pstate ELSE "READY"
               /\ heartbeat' = IF pairing THEN "none" ELSE "sleeping"
               /\ call' = done
               /\ outstanding' = Without(Id(s))
               /\ UNCHANGED <<conn, sent>>
          ELSE /\ UNCHANGED heartbeat
               /\ \/ /\ CanSend
                     /\ start' = NextStep(s)
                     /\ call' = Begins(done, NextStep(s))
                     /\ sent' = sent \cup {NextStep(s)}
                     /\ outstanding' = With(Without(Id(s)), NextStep(s))
                     /\ UNCHANGED <<conn, pstate>>
                  \/ /\ ~CanSend
                     /\ start' = "raised"
                     /\ call' = done
                     /\ StopProtocol
                     /\ UNCHANGED sent
    /\ UNCHANGED <<setupVars, replied, attempts, reported>>

(* "Something went wrong, let's do cleanup"                                *)
StepRaises(s) ==
    /\ start = s
    /\ Raises(s)
    /\ start' = "raised"
    /\ call' = Ends(s, "raised", NoCall)
    /\ StopProtocol
    /\ UNCHANGED <<setupVars, sent, replied, beatVars, reported>>

-----------------------------------------------------------------------------
(* The heartbeat task.                                                     *)

FreshBeats == {b \in Beat : call[b].pc = "idle"}

(* The interval is over.  Two messages must be left, for the retry is sent *)
(* at once.                                                                *)
HeartbeatSends(b) ==
    /\ heartbeat = "sleeping"
    /\ Cardinality(FreshBeats) > MaxRetries
    /\ b \in FreshBeats
    /\ IF CanSend
       THEN /\ heartbeat' = b
            /\ call' = Begins(call, b)
            /\ sent' = sent \cup {b}
            /\ outstanding' = With(outstanding, b)
            /\ UNCHANGED conn
       ELSE /\ heartbeat' = "failed"
            /\ conn' = Closed
            /\ UNCHANGED <<call, sent, outstanding>>
    /\ UNCHANGED <<setupVars, pstate, start, replied, attempts, reported>>

HeartbeatReturns(b) ==
    /\ heartbeat = b
    /\ Got(b)
    /\ heartbeat' = "sleeping"
    /\ attempts' = 0
    /\ call' = Ends(b, "returned", Response(b))
    /\ outstanding' = Without(b)
    /\ UNCHANGED <<setupVars, pstate, start, conn, sent, replied, reported>>

(* The first failure is retried at once; the last one closes the connection*)
(* and nothing else.                                                       *)
HeartbeatRetries(b, retry) ==
    /\ heartbeat = b
    /\ Raises(b)
    /\ attempts < MaxRetries
    /\ CanSend
    /\ retry \in FreshBeats
    /\ attempts' = attempts + 1
    /\ heartbeat' = retry
    /\ call' = Begins(Ends(b, "raised", NoCall), retry)
    /\ sent' = sent \cup {retry}
    /\ outstanding' = With(Without(b), retry)
    /\ UNCHANGED <<setupVars, pstate, start, conn, replied, reported>>

HeartbeatFails(b) ==
    /\ heartbeat = b
    /\ Raises(b)
    /\ attempts = MaxRetries \/ ~CanSend
    /\ heartbeat' = "failed"
    /\ conn' = Closed
    /\ call' = Ends(b, "raised", NoCall)
    /\ outstanding' = Without(b)
    /\ UNCHANGED <<setupVars, pstate, start, sent, replied, attempts, reported>>

-----------------------------------------------------------------------------
(* The user of the protocol.                                               *)

(* Commands of a connected device, and the crypto messages of a pairing    *)
(* handler, which sends one after the other.                               *)
MayCall(c) ==
    \/ c \in Command /\ ~pairing
    \/ c \in PairStep /\ pairing /\ \A p \in PairStep : ~Waiting(p)

UserCalls(c) ==
    /\ start = "returned"
    /\ call[c].pc = "idle"
    /\ MayCall(c)
    /\ IF CanSend
       THEN /\ call' = Begins(call, c)
            /\ sent' = sent \cup {c}
            /\ outstanding' = With(outstanding, c)
       ELSE /\ call' = Ends(c, "raised", NoCall)
            /\ UNCHANGED <<sent, outstanding>>
    /\ UNCHANGED <<setupVars, pstate, start, conn, replied, beatVars, reported>>

UserReturns(c) ==
    /\ c \in Command \cup PairStep
    /\ Got(c)
    /\ call' = Ends(c, "returned", Response(c))
    /\ outstanding' = Without(Id(c))
    /\ UNCHANGED <<setupVars, pstate, start, conn, sent, replied, beatVars, reported>>

UserRaises(c) ==
    /\ c \in Command \cup PairStep
    /\ Raises(c)
    /\ call' = Ends(c, "raised", NoCall)
    /\ outstanding' = Without(Id(c))
    /\ UNCHANGED <<setupVars, pstate, start, conn, sent, replied, beatVars, reported>>

(* CancelledError is not an Exception: the entry stays.                    *)
UserCancels(c) ==
    /\ c \in Command
    /\ Waiting(c)
    /\ call' = Ends(c, "raised", NoCall)
    /\ UNCHANGED <<setupVars, pstate, start, conn, outstanding, sent, replied, beatVars, reported>>

(* _close() of create_with_connection, called by the facade.               *)
OwnerStops ==
    /\ start = "returned"
    /\ ~pairing
    /\ pstate # "STOPPED"
    /\ StopProtocol
    /\ CancelHeartbeat(call)
    /\ UNCHANGED <<setupVars, start, sent, replied, attempts, reported>>

(* MrpPairingHandler.close(): while nothing is connected, nothing happens. *)
PairingCloses ==
    /\ pairing
    /\ conn = "up"
    /\ conn' = Closed
    /\ UNCHANGED <<setupVars, pstate, start, outstanding, call, sent, replied, beatVars, reported>>

-----------------------------------------------------------------------------
(* The connection.                                                         *)

(* message_received: an answer from the device.                            *)
DeviceReplies(c) ==
    /\ conn = "up"
    /\ c \in sent
    /\ sent' = sent \ {c}
    /\ replied' = replied \cup {c}
    /\ IF Id(c) \in DOMAIN outstanding
       THEN /\ outstanding' = [outstanding EXCEPT ![Id(c)].response = c]
            /\ call' = [call EXCEPT ![outstanding[Id(c)].semaphore].released = TRUE]
       ELSE UNCHANGED <<outstanding, call>>
    /\ UNCHANGED <<setupVars, pstate, start, conn, beatVars, reported>>

(* Mutant: the owner is told, but the protocol is not stopped.             *)
ConnectionLostWithoutStop ==
    /\ conn \in {"up", "closing"}
    /\ conn' = "lost"
    /\ reported' = ~pairing
    /\ UNCHANGED <<setupVars, taskVars, pstate, start, replied, beatVars>>

(* connection_lost, after close() here or by the device: listener.stop(),  *)
(* then the device listener is told.                                       *)
ConnectionLost ==
    /\ conn \in {"up", "closing"}
    /\ outstanding' = Empty
    /\ conn' = "lost"
    /\ pstate' = "STOPPED"
    /\ CancelHeartbeat(call)
    /\ reported' = ~pairing
    /\ UNCHANGED <<setupVars, start, sent, replied, attempts>>

ProtocolNext ==
    \/ Start \/ ConnectFails \/ ConnectSucceeds
    \/ \E s \in StartStep : StepReturns(s) \/ StepRaises(s)
    \/ \E b \in Beat : \/ HeartbeatSends(b)
                       \/ HeartbeatReturns(b)
                       \/ HeartbeatFails(b)
                       \/ \E retry \in Beat : HeartbeatRetries(b, retry)
    \/ \E c \in Command \cup PairStep :
          UserCalls(c) \/ UserReturns(c) \/ UserRaises(c) \/ UserCancels(c)
    \/ OwnerStops \/ PairingCloses
    \/ \E c \in Call : DeviceReplies(c)
    \/ ConnectionLost

ProtocolSpec == ProtocolInit /\ [][ProtocolNext]_protocolVars

(* Woken tasks and due timers run; connection_lost follows transport.close(). *)
Continues(c) ==
    \/ c \in StartStep /\ (StepReturns(c) \/ StepRaises(c))
    \/ UserReturns(c) \/ UserRaises(c)
    \/ c \in Beat /\ (\/ HeartbeatReturns(c)
                    \/ HeartbeatFails(c)
                    \/ \E retry \in Beat : HeartbeatRetries(c, retry))

-----------------------------------------------------------------------------
(* Properties.                                                             *)

(* READY is only reached through every message of the handshake, each      *)
(* answered, and is left in the step in which the connection is gone; and  *)
(* STOPPED is final, whatever calls were suspended when it was set.        *)
ReadyIsEarned ==
    [][/\ pstate' = "READY" =>
            /\ conn' \in {"up", "closing"}
            /\ \A i \in 1..Len(Steps) : call[Steps[i]].pc' = "returned"
       /\ pstate = "STOPPED" => pstate' = "STOPPED"]_protocolVars

(* A device that stops answering heartbeats is reported to the user, and   *)
(* the protocol is stopped by the same callback.                           *)
DeadPeerIsReported == heartbeat = "failed" ~> (pstate = "STOPPED" /\ reported)

(* Commands of the user keep the request/response contract.                *)
Contract == INSTANCE RequestReply WITH
    Call <- Command,
    status <- [c \in Command |->
                 CASE call[c].pc = "idle" -> "idle"
                   [] call[c].pc = "waiting" -> "asked"
                   [] call[c].pc = "returned" -> "answered"
                   [] call[c].pc = "raised" -> "failed"],
    replied <- replied \cap Command,
    got <- [c \in Command |->
              IF call[c].response = NoCall THEN {} ELSE {call[c].response}]

RequestReplySpec == Contract!Spec
=============================================================================

--------------------------- MODULE HttpConnection ---------------------------
(***************************************************************************)
(* support/http.py, class HttpConnection: the client end of one HTTP (or    *)
(* RTSP) connection.  Requests are written at once and answers are handed   *)
(* to the oldest request still queued, so what ties an answer to its        *)
(* request is nothing but order.  Each member of Request is one call of     *)
(* send_and_receive, made at most once; a call is an asyncio task that is   *)
(* suspended at "await pending_request.event.wait()".                       *)
(***************************************************************************)
EXTENDS Naturals, Sequences

CONSTANTS
    Request,   \* calls of send_and_receive
    Lenient,   \* those made with allow_error=True
    Code,      \* status codes the peer answers with
    None       \* Python's None

ASSUME LenientAssumption == Lenient \subseteq Request
ASSUME CodeAssumption == Code \subseteq 100..599

(* An answer on the wire: the request it answers and its status.            *)
Response == [to : Request, code : Code]

ASSUME NoneAssumption == None \notin Response

VARIABLES
    transport,    \* self.transport is not None
    link,         \* the socket: "up", or "closed" for good
    pending,      \* self._requests, the oldest request first
    call,         \* the suspended call and its PendingRequest
    unanswered,   \* the peer: requests it has received and not answered
    answered,     \* the peer: requests it has answered
    inbound,      \* answers on their way to us (TCP: in order, none lost)
    inOrder       \* history: the peer has answered in the order it was asked

peerVars == <<unanswered, answered, inbound, inOrder>>
httpVars == <<transport, link, pending, call, unanswered, answered, inbound, inOrder>>

(* How send_and_receive can end: with a response, with RuntimeError (no      *)
(* transport), ConnectionLostError, TimeoutError or CancelledError (the     *)
(* caller gave up), AuthenticationError, HttpError, or with the             *)
(* RuntimeError that "should never happen".                                 *)
Raised == {"unconnected", "lost", "gaveup", "auth", "http", "noresponse"}
Settled == Raised \cup {"returned"}

Call == [pc : {"idle", "waiting"} \cup Settled, event : BOOLEAN, closed : BOOLEAN,
         response : Response \cup {None}]

HttpTypeOK ==
    /\ transport \in BOOLEAN
    /\ link \in {"up", "closed"}
    /\ pending \in Seq(Request)
    /\ call \in [Request -> Call]
    /\ unanswered \in Seq(Request)
    /\ answered \in SUBSET Request
    /\ inbound \in Seq(Response)
    /\ inOrder \in BOOLEAN

HttpInit ==
    /\ transport = TRUE
    /\ link = "up"
    /\ pending = <<>>
    /\ call = [r \in Request |->
                 [pc |-> "idle", event |-> FALSE, closed |-> FALSE, response |-> None]]
    /\ unanswered = <<>>
    /\ answered = {}
    /\ inbound = <<>>
    /\ inOrder = TRUE

Queued(r) == \E i \in DOMAIN pending : pending[i] = r

Dequeue(s, i) == SubSeq(s, 1, i - 1) \o SubSeq(s, i + 1, Len(s))

(* The "finally" of send_and_receive.                                       *)
Unqueued(r) ==
    IF Queued(r)
    THEN Dequeue(pending, CHOOSE i \in DOMAIN pending : pending[i] = r)
    ELSE pending

-----------------------------------------------------------------------------
(* send_and_receive up to its await: refused when there is no transport,    *)
(* else written to the wire and queued.                                     *)
SendRefused(r) ==
    /\ call[r].pc = "idle"
    /\ ~transport
    /\ call' = [call EXCEPT ![r].pc = "unconnected"]
    /\ UNCHANGED <<transport, link, pending, peerVars>>

SendAccepted(r) ==
    /\ call[r].pc = "idle"
    /\ transport
    /\ call' = [call EXCEPT ![r].pc = "waiting"]
    /\ pending' = Append(pending, r)
    /\ unanswered' = Append(unanswered, r)
    /\ UNCHANGED <<transport, link, answered, inbound, inOrder>>

(* data_received: a complete answer is dispatched "to first receiver", or   *)
(* dropped with a warning when nobody waits.  One answer a step: a segment  *)
(* that holds several is several consecutive steps.                         *)
DataReceived ==
    /\ link = "up"
    /\ inbound # <<>>
    /\ inbound' = Tail(inbound)
    /\ IF pending # <<>>
       THEN /\ pending' = Tail(pending)
            /\ call' = [call EXCEPT ![Head(pending)] =
                           [@ EXCEPT !.event = TRUE, !.response = Head(inbound)]]
       ELSE UNCHANGED <<pending, call>>
    /\ UNCHANGED <<transport, link, unanswered, answered, inOrder>>

ConnectionLost ==
    /\ link = "up"
    /\ link' = "closed"
    /\ transport' = FALSE
    /\ call' = [r \in Request |->
                  IF Queued(r)
                  THEN [call[r] EXCEPT !.closed = TRUE, !.event = TRUE]
                  ELSE call[r]]
    /\ pending' = <<>>
    /\ UNCHANGED peerVars

(* close(): the queue is emptied, its events are not set.                   *)
Close ==
    /\ transport
    /\ transport' = FALSE
    /\ link' = "closed"
    /\ pending' = <<>>
    /\ UNCHANGED <<call, peerVars>>

(* The tail of send_and_receive once a response is there.                   *)
StatusOutcome(code, allow) ==
    CASE code = 403 -> "auth"
      [] code = 401 -> IF allow THEN "returned" ELSE "auth"
      [] code \notin {401, 403} -> IF code \in 200..299 \/ allow THEN "returned" ELSE "http"

Outcome(r) ==
    IF call[r].closed THEN "lost"
    ELSE IF call[r].response = None THEN "noresponse"
    ELSE StatusOutcome(call[r].response.code, r \in Lenient)

(* The task wakes up after its event was set and runs to its end.           *)
Resume(r) ==
    /\ call[r].pc = "waiting"
    /\ call[r].event
    /\ call' = [call EXCEPT ![r].pc = Outcome(r)]
    /\ pending' = Unqueued(r)
    /\ UNCHANGED <<transport, link, peerVars>>

(* The timer (or a cancellation of the task) may fire at any await, even    *)
(* after the event was set and before the task has run.                     *)
GiveUp(r) ==
    /\ call[r].pc = "waiting"
    /\ call' = [call EXCEPT ![r].pc = "gaveup"]
    /\ pending' = Unqueued(r)
    /\ UNCHANGED <<transport, link, peerVars>>

(* The device at the other end.                                             *)
PeerAnswers(i, code) ==
    /\ link = "up"
    /\ i \in DOMAIN unanswered
    /\ unanswered' = Dequeue(unanswered, i)
    /\ answered' = answered \cup {unanswered[i]}
    /\ inbound' = Append(inbound, [to |-> unanswered[i], code |-> code])
    /\ inOrder' = (inOrder /\ i = 1)
    /\ UNCHANGED <<transport, link, pending, call>>

-----------------------------------------------------------------------------
(* Properties.                                                              *)
=============================================================================

----------------------------- MODULE RtspSession -----------------------------
(***************************************************************************)
(* support/rtsp.py, RtspSession.exchange, on top of one HttpConnection.     *)
(* HttpConnection pairs answers and requests by order; exchange pairs them  *)
(* again by CSeq, in self.requests, because an answer handed to one         *)
(* exchange may belong to another.  An exchange suspends twice: inside      *)
(* send_and_receive ("http") and on its own CSeq event ("cseq").  All that  *)
(* happens between two suspensions is one step here.                        *)
(***************************************************************************)
EXTENDS HttpConnection, Integers

CONSTANT Untagged   \* exchanges the peer answers without a CSeq header

ASSUME UntaggedAssumption == Untagged \subseteq Request

VARIABLES
    cseq,       \* self.cseq, the next CSeq
    cseqOf,     \* the CSeq an exchange has sent, -1 before
    requests,   \* self.requests: a partial function from CSeq
    stage,      \* where the task of an exchange is
    result      \* what exchange returned

rtspVars == <<cseq, cseqOf, requests, stage, result>>
vars == <<httpVars, rtspVars>>

Stage == {"idle", "http", "cseq", "returned", "failed"}

Entry == [event : BOOLEAN, response : Response \cup {None}]

TypeOK ==
    /\ HttpTypeOK
    /\ cseq \in Nat
    /\ cseqOf \in [Request -> Int]
    /\ DOMAIN requests \subseteq Nat
    /\ \A n \in DOMAIN requests : requests[n] \in Entry
    /\ stage \in [Request -> Stage]
    /\ result \in [Request -> Response \cup {None}]

Init ==
    /\ HttpInit
    /\ cseq = 0
    /\ cseqOf = [r \in Request |-> -1]
    /\ requests = [n \in {} |-> None]
    /\ stage = [r \in Request |-> "idle"]
    /\ result = [r \in Request |-> None]

(* int(resp.headers.get("CSeq", "-1"))                                      *)
CSeqHeader(resp) == IF resp.to \in Untagged THEN -1 ELSE cseqOf[resp.to]

(* self.requests[n] = (event, resp); event.set()                            *)
Delivered(resp) ==
    [n \in DOMAIN requests |->
        IF n = CSeqHeader(resp) THEN [event |-> TRUE, response |-> resp] ELSE requests[n]]

Without(reqs, n) == [m \in DOMAIN reqs \ {n} |-> reqs[m]]

-----------------------------------------------------------------------------
(* exchange up to its first await: a CSeq is taken and registered before    *)
(* the connection is asked to send.                                         *)
Register(r) ==
    /\ stage[r] = "idle"
    /\ cseq' = cseq + 1
    /\ cseqOf' = [cseqOf EXCEPT ![r] = cseq]
    /\ requests' = [n \in DOMAIN requests \cup {cseq} |->
                      IF n = cseq THEN [event |-> FALSE, response |-> None] ELSE requests[n]]
    /\ UNCHANGED result

Exchange(r) ==
    /\ Register(r)
    /\ \/ SendAccepted(r) /\ stage' = [stage EXCEPT ![r] = "http"]
       \/ SendRefused(r) /\ stage' = [stage EXCEPT ![r] = "failed"]

(* send_and_receive raised: the exception leaves exchange before the "try"  *)
(* that would remove the entry of this CSeq.                                *)
HttpRaises(r) ==
    /\ stage[r] = "http"
    /\ \/ Resume(r) /\ Outcome(r) # "returned"
       \/ GiveUp(r)
    /\ stage' = [stage EXCEPT ![r] = "failed"]
    /\ UNCHANGED <<cseq, cseqOf, requests, result>>

(* Mutant: what send_and_receive returns is taken for the own response.     *)
HttpReturnsDirectly(r) ==
    /\ stage[r] = "http"
    /\ Resume(r)
    /\ Outcome(r) = "returned"
    /\ stage' = [stage EXCEPT ![r] = "returned"]
    /\ result' = [result EXCEPT ![r] = call[r].response]
    /\ requests' = Without(requests, cseqOf[r])
    /\ UNCHANGED <<cseq, cseqOf>>

(* send_and_receive returned: the response is stored for the CSeq it names, *)
(* then the exchange waits for its own, without suspending when it is set.  *)
HttpReturns(r) ==
    /\ stage[r] = "http"
    /\ Resume(r)
    /\ Outcome(r) = "returned"
    /\ LET reqs == Delivered(call[r].response)
           own == cseqOf[r]
       IN IF reqs[own].event
          THEN /\ stage' = [stage EXCEPT ![r] = "returned"]
               /\ result' = [result EXCEPT ![r] = reqs[own].response]
               /\ requests' = Without(reqs, own)
          ELSE /\ stage' = [stage EXCEPT ![r] = "cseq"]
               /\ requests' = reqs
               /\ UNCHANGED result
    /\ UNCHANGED <<cseq, cseqOf>>

(* The event of the own CSeq was set by another exchange.                   *)
WakeUp(r) ==
    /\ stage[r] = "cseq"
    /\ requests[cseqOf[r]].event
    /\ stage' = [stage EXCEPT ![r] = "returned"]
    /\ result' = [result EXCEPT ![r] = requests[cseqOf[r]].response]
    /\ requests' = Without(requests, cseqOf[r])
    /\ UNCHANGED <<cseq, cseqOf, httpVars>>

(* Mutant: no timer around the wait, only the end of the connection wakes.  *)
CSeqGiveUpWhenClosed(r) ==
    /\ stage[r] = "cseq"
    /\ link = "closed"
    /\ stage' = [stage EXCEPT ![r] = "failed"]
    /\ requests' = Without(requests, cseqOf[r])
    /\ UNCHANGED <<cseq, cseqOf, result, httpVars>>

(* Four seconds are over, or the task is cancelled: "finally" removes the   *)
(* entry.                                                                   *)
CSeqGiveUp(r) ==
    /\ stage[r] = "cseq"
    /\ stage' = [stage EXCEPT ![r] = "failed"]
    /\ requests' = Without(requests, cseqOf[r])
    /\ UNCHANGED <<cseq, cseqOf, result, httpVars>>

Task(r) ==
    \/ HttpRaises(r)
    \/ HttpReturns(r)
    \/ WakeUp(r)
    \/ CSeqGiveUp(r)

PeerNext ==
    /\ \/ DataReceived
       \/ ConnectionLost
       \/ Close
       \/ \E i \in DOMAIN unanswered, code \in Code : PeerAnswers(i, code)
    /\ UNCHANGED rtspVars

Next ==
    \/ PeerNext
    \/ \E r \in Request : Exchange(r) \/ Task(r)

(* asyncio runs woken tasks and due timers; nothing is assumed of the peer. *)
Spec == Init /\ [][Next]_vars
FairSpec == Spec /\ \A r \in Request : WF_vars(Task(r))

-----------------------------------------------------------------------------
(* Properties.                                                              *)

(* A response that exchange returns is the answer to the CSeq it sent,      *)
(* whatever order the peer answers in and however many earlier exchanges    *)
(* timed out while their answers were still on the way.                     *)
OwnResponse ==
    \A r \in Request : stage[r] = "returned" => result[r] # None /\ result[r].to = r

(* No KeyError: an exchange that still has to look at self.requests[cseq]   *)
(* finds its entry there, and an entry whose event is set has a response    *)
(* ("forgot to store response before activating event").                    *)
EntryKept ==
    /\ \A r \in Request : stage[r] \in {"http", "cseq"} => cseqOf[r] \in DOMAIN requests
    /\ \A n \in DOMAIN requests : requests[n].event => requests[n].response # None

(* Every exchange ends: both suspensions are bounded by a timer.            *)
ExchangeEnds ==
    \A r \in Request : stage[r] = "http" ~> stage[r] \in {"returned", "failed"}

(* The request/response contract, implemented.                              *)
Contract == INSTANCE RequestReply WITH
    Call <- Request,
    status <- [r \in Request |->
                 CASE stage[r] = "idle" -> "idle"
                   [] stage[r] = "returned" -> "answered"
                   [] stage[r] = "failed" -> "failed"
                   [] OTHER -> "asked"],
    replied <- answered,
    got <- [r \in Request |-> IF result[r] = None THEN {} ELSE {result[r].to}]

RequestReplySpec == Contract!Spec
=============================================================================

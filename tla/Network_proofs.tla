---------------------------- MODULE Network_proofs ----------------------------
(***************************************************************************)
(* Theorems about what asks the network and must make sense of the answers: *)
(* the RTSP session and the scan.                                           *)
(*                                                                          *)
(* RtspSession: its types, the bookkeeping of self.requests, that an        *)
(* exchange returns the response to its own CSeq, and that the session      *)
(* implements the request/response contract of RequestReply.                *)
(*                                                                          *)
(* Scan, for every network, number of hosts, set of types that are looked   *)
(* for and timeout: what the hosts say is what the scanners keep (ScanInv), *)
(* what they hand on is what discover() handles, and of that add_service    *)
(* and service_info make the same in whatever order it came.                *)
(***************************************************************************)
EXTENDS RtspSession, Scan, FiniteSetTheorems, SequenceTheorems, WellFoundedInduction, TLAPS

(* Taking one element out of a sequence leaves a sequence over the same set *)
(* (the queue of HttpConnection and the peer's list of open requests).      *)
LEMMA DequeueType ==
    ASSUME NEW E, NEW s \in Seq(E), NEW i \in DOMAIN s
    PROVE  Dequeue(s, i) \in Seq(E)
<1>1. i \in 1..Len(s) /\ Len(s) \in Nat
  OBVIOUS
<1>2. SubSeq(s, 1, i - 1) \in Seq(E) /\ SubSeq(s, i + 1, Len(s)) \in Seq(E)
  BY <1>1
<1> QED
  BY <1>2 DEF Dequeue

(* The "finally" of send_and_receive keeps the queue a queue of requests.   *)
LEMMA UnqueuedType ==
    ASSUME pending \in Seq(Request), NEW r \in Request
    PROVE  Unqueued(r) \in Seq(Request)
<1>1. CASE Queued(r)
  <2>1. (CHOOSE i \in DOMAIN pending : pending[i] = r) \in DOMAIN pending
    BY <1>1 DEF Queued
  <2> QED
    BY <1>1, <2>1, DequeueType DEF Unqueued
<1>2. CASE ~Queued(r)
  BY <1>2 DEF Unqueued
<1> QED
  BY <1>1, <1>2
-----------------------------------------------------------------------------
(* The inductive invariant.  No two exchanges share a CSeq, an entry of      *)
(* self.requests is dropped only by the exchange that made it, and the      *)
(* response stored under a CSeq names that CSeq.                            *)
SessionTypeOK ==
    /\ cseq \in Nat
    /\ cseqOf \in [Request -> Int]
    /\ DOMAIN requests \subseteq Nat
    /\ \A n \in DOMAIN requests : requests[n] \in Entry
    /\ stage \in [Request -> Stage]
    /\ result \in [Request -> Response \cup {None}]

CSeqsOwned ==
    /\ \A r \in Request : -1 <= cseqOf[r] /\ cseqOf[r] < cseq
    /\ \A r \in Request : stage[r] = "idle" => cseqOf[r] = -1
    /\ \A r, q \in Request : cseqOf[r] = cseqOf[q] /\ cseqOf[r] # -1 => r = q
    /\ \A n \in DOMAIN requests : n < cseq
    /\ \A r \in Request : stage[r] \in {"http", "cseq"} => cseqOf[r] \in DOMAIN requests

EntriesOwned ==
    \A n \in DOMAIN requests :
        requests[n].event =>
            requests[n].response # None /\ cseqOf[requests[n].response.to] = n

ResultsOwned ==
    \A r \in Request :
        /\ stage[r] = "returned" => result[r] # None
        /\ result[r] # None => stage[r] = "returned" /\ result[r].to = r

SessionInv == SessionTypeOK /\ CSeqsOwned /\ EntriesOwned /\ ResultsOwned

(* A new session on a new connection satisfies the invariant.               *)
LEMMA InvInit == Init => HttpTypeOK /\ SessionInv
<1> SUFFICES ASSUME Init PROVE HttpTypeOK /\ SessionInv
  OBVIOUS
<1>1. HttpTypeOK
  BY DEF Init, HttpInit, HttpTypeOK, Call
<1>2. SessionInv
  BY DEF Init, SessionInv, SessionTypeOK, CSeqsOwned, EntriesOwned, ResultsOwned, Stage
<1> QED
  BY <1>1, <1>2

(* What the event loop and the peer do to the connection.                   *)
LEMMA PeerTypeStep ==
    ASSUME HttpTypeOK, PeerNext
    PROVE  HttpTypeOK'
<1> USE DEF HttpTypeOK
<1>1. CASE DataReceived
  <2>1. Head(inbound) \in Response /\ Tail(inbound) \in Seq(Response)
    BY <1>1 DEF DataReceived
  <2>2. CASE pending # <<>>
    <3>1. Head(pending) \in Request /\ Tail(pending) \in Seq(Request)
      BY <2>2
    <3>2. call' \in [Request -> Call]
      BY <1>1, <2>1, <2>2, <3>1, ZenonT(60) DEF DataReceived, Call
    <3> QED
      BY <1>1, <2>1, <2>2, <3>1, <3>2 DEF DataReceived
  <2>3. CASE pending = <<>>
    BY <1>1, <2>1, <2>3 DEF DataReceived
  <2> QED
    BY <2>2, <2>3
<1>2. CASE ConnectionLost
  <2>1. call' \in [Request -> Call]
    BY <1>2 DEF ConnectionLost, Call
  <2>2. <<>> \in Seq(Request)
    OBVIOUS
  <2> QED
    BY <1>2, <2>1, <2>2 DEF ConnectionLost, peerVars
<1>3. CASE Close
  <2>1. <<>> \in Seq(Request)
    OBVIOUS
  <2> QED
    BY <1>3, <2>1 DEF Close, peerVars
<1>4. ASSUME NEW i \in DOMAIN unanswered, NEW code \in Code, PeerAnswers(i, code)
      PROVE  HttpTypeOK'
  <2>1. unanswered[i] \in Request
    OBVIOUS
  <2>2. [to |-> unanswered[i], code |-> code] \in Response
    BY <2>1 DEF Response
  <2>3. unanswered' \in Seq(Request)
    BY <1>4, DequeueType DEF PeerAnswers
  <2>4. inbound' \in Seq(Response)
    BY <1>4, <2>2 DEF PeerAnswers
  <2> QED
    BY <1>4, <2>1, <2>3, <2>4 DEF PeerAnswers
<1> QED
  BY <1>1, <1>2, <1>3, <1>4 DEF PeerNext

(* What a task does to the connection: send_and_receive begins or ends.     *)
LEMMA CallTypeStep ==
    ASSUME HttpTypeOK, NEW r \in Request,
           SendAccepted(r) \/ SendRefused(r) \/ Resume(r) \/ GiveUp(r)
    PROVE  HttpTypeOK'
<1> USE DEF HttpTypeOK
<1>1. \A pc \in {"waiting"} \cup Settled : [call EXCEPT ![r].pc = pc] \in [Request -> Call]
  BY DEF Call
<1>2. CASE SendAccepted(r)
  <2>1. pending' \in Seq(Request) /\ unanswered' \in Seq(Request)
    BY <1>2 DEF SendAccepted
  <2> QED
    BY <1>1, <1>2, <2>1 DEF SendAccepted
<1>3. CASE SendRefused(r)
  BY <1>1, <1>3 DEF SendRefused, peerVars, Settled, Raised
<1>4. CASE Resume(r)
  <2>1. Outcome(r) \in Settled
    BY DEF Outcome, StatusOutcome, Settled, Raised
  <2> QED
    BY <1>1, <1>4, <2>1, UnqueuedType DEF Resume, peerVars
<1>5. CASE GiveUp(r)
  BY <1>1, <1>5, UnqueuedType DEF GiveUp, peerVars, Settled, Raised
<1> QED
  BY <1>2, <1>3, <1>4, <1>5

(* A session step in which no field of the session changes.                 *)
LEMMA SessionStutters ==
    ASSUME SessionInv, UNCHANGED rtspVars
    PROVE  SessionInv'
BY DEF SessionInv, SessionTypeOK, CSeqsOwned, EntriesOwned, ResultsOwned, rtspVars

(* A CSeq nobody has is taken and registered.                               *)
LEMMA RegisterStep ==
    ASSUME SessionInv, NEW r \in Request, Register(r),
           stage' \in {[stage EXCEPT ![r] = "http"], [stage EXCEPT ![r] = "failed"]}
    PROVE  SessionInv'
<1> USE DEF SessionInv, SessionTypeOK, CSeqsOwned, Register
<1>1. SessionTypeOK'
  BY DEF Entry, Stage
<1>2. CSeqsOwned'
  OBVIOUS
<1>3. EntriesOwned'
  BY DEF EntriesOwned, Entry, Response
<1>4. ResultsOwned'
  BY DEF ResultsOwned
<1> QED
  BY <1>1, <1>2, <1>3, <1>4

(* An exchange leaves with what its entry holds.                            *)
LEMMA LeaveStep ==
    ASSUME SessionTypeOK, CSeqsOwned, ResultsOwned,
           NEW r \in Request, stage[r] \in {"http", "cseq"},
           NEW reqs,
           DOMAIN reqs = DOMAIN requests,
           \A n \in DOMAIN reqs : reqs[n] \in Entry,
           \A n \in DOMAIN reqs :
              reqs[n].event => reqs[n].response # None /\ cseqOf[reqs[n].response.to] = n,
           UNCHANGED <<cseq, cseqOf>>,
           requests' = Without(reqs, cseqOf[r]),
           \/ stage' = [stage EXCEPT ![r] = "failed"] /\ UNCHANGED result
           \/ /\ reqs[cseqOf[r]].event
              /\ stage' = [stage EXCEPT ![r] = "returned"]
              /\ result' = [result EXCEPT ![r] = reqs[cseqOf[r]].response]
    PROVE  SessionInv'
<1> USE DEF SessionTypeOK, CSeqsOwned, Without
<1>1. cseqOf[r] \in DOMAIN reqs /\ cseqOf[r] # -1
  OBVIOUS
<1>2. reqs[cseqOf[r]].event => /\ reqs[cseqOf[r]].response \in Response
                              /\ reqs[cseqOf[r]].response # None
                              /\ reqs[cseqOf[r]].response.to = r
  BY <1>1 DEF Entry, Response
<1>3. SessionTypeOK'
  BY <1>2 DEF Stage
<1>4. CSeqsOwned'
  BY <1>1
<1>5. EntriesOwned'
  BY DEF EntriesOwned
<1>6. ResultsOwned'
  BY <1>2, NoneAssumption DEF ResultsOwned
<1> QED
  BY <1>3, <1>4, <1>5, <1>6 DEF SessionInv

(* Every step of a task, of the peer and of the event loop keeps it.        *)
LEMMA InvStep == HttpTypeOK /\ SessionInv /\ [Next]_vars => (HttpTypeOK /\ SessionInv)'
<1> SUFFICES ASSUME HttpTypeOK, SessionInv, [Next]_vars PROVE HttpTypeOK' /\ SessionInv'
  OBVIOUS
<1>1. CASE UNCHANGED vars
  BY <1>1, SessionStutters DEF vars, httpVars, HttpTypeOK
<1>2. CASE PeerNext
  BY <1>2, PeerTypeStep, SessionStutters DEF PeerNext
<1>3. ASSUME NEW r \in Request, Exchange(r) PROVE HttpTypeOK' /\ SessionInv'
  BY <1>3, CallTypeStep, RegisterStep DEF Exchange
<1>4. ASSUME NEW r \in Request, HttpRaises(r) PROVE HttpTypeOK' /\ SessionInv'
  <2>1. HttpTypeOK'
    BY <1>4, CallTypeStep DEF HttpRaises
  <2>2. SessionInv'
    BY <1>4 DEF HttpRaises, SessionInv, SessionTypeOK, CSeqsOwned, EntriesOwned,
                ResultsOwned, Stage
  <2> QED
    BY <2>1, <2>2
<1>5. ASSUME NEW r \in Request, HttpReturns(r) PROVE HttpTypeOK' /\ SessionInv'
  <2> DEFINE resp == call[r].response
             reqs == Delivered(resp)
  <2>1. HttpTypeOK'
    BY <1>5, CallTypeStep DEF HttpReturns
  <2>2. resp \in Response /\ resp # None
    BY <1>5, NoneAssumption DEF HttpReturns, Outcome, HttpTypeOK, Call
  <2>3. CSeqHeader(resp) \in {-1, cseqOf[resp.to]}
    BY DEF CSeqHeader
  <2>4. /\ DOMAIN reqs = DOMAIN requests
        /\ \A n \in DOMAIN reqs : reqs[n] \in Entry
        /\ \A n \in DOMAIN reqs :
              reqs[n].event => reqs[n].response # None /\ cseqOf[reqs[n].response.to] = n
    BY <2>2, <2>3 DEF Delivered, Entry, SessionInv, SessionTypeOK, EntriesOwned
  <2>5. CASE reqs[cseqOf[r]].event
    <3> HIDE DEF reqs
    <3>1. /\ UNCHANGED <<cseq, cseqOf>>
          /\ requests' = Without(reqs, cseqOf[r])
          /\ stage[r] \in {"http", "cseq"}
          /\ stage' = [stage EXCEPT ![r] = "returned"]
          /\ result' = [result EXCEPT ![r] = reqs[cseqOf[r]].response]
      BY <1>5, <2>5 DEF HttpReturns, reqs
    <3> QED
      BY <2>1, <2>4, <2>5, <3>1, LeaveStep DEF SessionInv
  <2>6. CASE ~reqs[cseqOf[r]].event
    <3> HIDE DEF reqs
    <3>1. /\ UNCHANGED <<cseq, cseqOf, result>>
          /\ requests' = reqs
          /\ stage[r] = "http"
          /\ stage' = [stage EXCEPT ![r] = "cseq"]
      BY <1>5, <2>6 DEF HttpReturns, reqs
    <3> QED
      BY <2>1, <2>4, <3>1
         DEF SessionInv, SessionTypeOK, CSeqsOwned, EntriesOwned, ResultsOwned, Stage
  <2> QED
    BY <2>5, <2>6
<1>6. ASSUME NEW r \in Request, WakeUp(r) \/ CSeqGiveUp(r) PROVE HttpTypeOK' /\ SessionInv'
  <2>1. HttpTypeOK'
    BY <1>6 DEF WakeUp, CSeqGiveUp, httpVars, HttpTypeOK
  <2>2. SessionInv'
    BY <1>6, LeaveStep DEF WakeUp, CSeqGiveUp, SessionInv, SessionTypeOK, EntriesOwned
  <2> QED
    BY <2>1, <2>2
<1> QED
  BY <1>1, <1>2, <1>3, <1>4, <1>5, <1>6 DEF Next, Task

(* Hence it holds in every state.                                           *)
LEMMA Invariance == Spec => [](HttpTypeOK /\ SessionInv)
BY InvInit, InvStep, PTL DEF Spec

(* Type correctness of the session and of the connection under it.          *)
THEOREM TypeCorrect == Spec => []TypeOK
<1>1. HttpTypeOK /\ SessionInv => TypeOK
  BY DEF SessionInv, SessionTypeOK, TypeOK
<1> QED
  BY <1>1, Invariance, PTL

(* An exchange never misses its entry in self.requests, and an event that   *)
(* is set has its response: exchange raises no KeyError and no RuntimeError. *)
THEOREM EntriesKept == Spec => []EntryKept
<1>1. SessionInv => EntryKept
  BY DEF SessionInv, CSeqsOwned, EntriesOwned, EntryKept
<1> QED
  BY <1>1, Invariance, PTL

(* exchange returns the response to the CSeq it sent.                       *)
THEOREM ResponsesOwned == Spec => []OwnResponse
<1>1. SessionInv => OwnResponse
  BY DEF SessionInv, ResultsOwned, OwnResponse
<1> QED
  BY <1>1, Invariance, PTL
-----------------------------------------------------------------------------
(* Nothing is handed to an exchange that the peer did not send: what is on  *)
(* the wire, in a call or in an entry answers a request the peer answered,  *)
(* and the peer only knows requests that were made.                         *)
PeerInv ==
    /\ unanswered \in Seq({r \in Request : stage[r] # "idle"})
    /\ inbound \in Seq({resp \in Response : resp.to \in answered})
    /\ \A r \in Request : call[r].response # None => call[r].response.to \in answered
    /\ \A n \in DOMAIN requests : requests[n].event => requests[n].response.to \in answered

(* A sequence stays one over a larger set.                                  *)
LEMMA SeqMonotone ==
    ASSUME NEW E, NEW T, E \subseteq T, NEW s \in Seq(E)
    PROVE  s \in Seq(T)
OBVIOUS

(* At first the peer has been asked nothing and has answered nothing.       *)
LEMMA PeerInit == Init => PeerInv
<1> SUFFICES ASSUME Init PROVE PeerInv
  OBVIOUS
<1>1. \A E : <<>> \in Seq(E)
  OBVIOUS
<1> QED
  BY <1>1 DEF Init, HttpInit, PeerInv

(* What the peer was asked and answered stays consistent in every step.     *)
LEMMA PeerStep ==
    ASSUME HttpTypeOK, SessionInv, PeerInv, [Next]_vars
    PROVE  PeerInv'
<1> DEFINE Known == {r \in Request : stage[r] # "idle"}
           Sent == {resp \in Response : resp.to \in answered}
<1>1. CASE UNCHANGED vars
  BY <1>1 DEF vars, httpVars, rtspVars, PeerInv
<1>2. CASE PeerNext
  <2> USE DEF HttpTypeOK, PeerInv
  <2>1. CASE DataReceived
    <3>1. Head(inbound) \in Sent /\ Tail(inbound) \in Seq(Sent)
      BY <2>1 DEF DataReceived
    <3>2. \A r \in Request : call'[r].response # None => call'[r].response.to \in answered
      BY <2>1, <3>1, ZenonT(60) DEF DataReceived, Call
    <3> QED
      BY <1>2, <2>1, <3>1, <3>2 DEF PeerNext, DataReceived, rtspVars
  <2>2. CASE ConnectionLost
    <3>1. \A r \in Request : call'[r].response = call[r].response
      BY <2>2 DEF ConnectionLost, Call
    <3>2. UNCHANGED <<unanswered, answered, inbound, stage, requests>>
      BY <1>2, <2>2 DEF PeerNext, ConnectionLost, peerVars, rtspVars
    <3> HIDE DEF HttpTypeOK
    <3> QED
      BY <3>1, <3>2
  <2>3. CASE Close
    BY <1>2, <2>3 DEF PeerNext, Close, peerVars, rtspVars
  <2>4. ASSUME NEW i \in DOMAIN unanswered, NEW code \in Code, PeerAnswers(i, code)
        PROVE  PeerInv'
    <3> DEFINE resp == [to |-> unanswered[i], code |-> code]
               Sent2 == {p \in Response : p.to \in answered'}
    <3>1. unanswered' \in Seq(Known)
      BY <2>4, DequeueType DEF PeerAnswers
    <3>2. answered \subseteq answered' /\ Sent \subseteq Sent2 /\ resp \in Sent2
      BY <2>4 DEF PeerAnswers, Response
    <3>3. inbound \in Seq(Sent2)
      BY <3>2, SeqMonotone
    <3>4. inbound' \in Seq(Sent2)
      BY <2>4, <3>2, <3>3 DEF PeerAnswers
    <3> QED
      BY <1>2, <2>4, <3>1, <3>2, <3>4 DEF PeerNext, PeerAnswers, rtspVars
  <2> QED
    BY <1>2, <2>1, <2>2, <2>3, <2>4 DEF PeerNext
<1>3. ASSUME NEW r \in Request, Exchange(r) PROVE PeerInv'
  <2> DEFINE Known2 == {q \in Request : stage'[q] # "idle"}
  <2>1. Known \subseteq Known2 /\ r \in Known2
    BY <1>3 DEF Exchange, SessionInv, SessionTypeOK
  <2>2. unanswered \in Seq(Known2)
    BY <2>1, SeqMonotone DEF PeerInv
  <2>3. unanswered' \in Seq(Known2)
    BY <1>3, <2>1, <2>2 DEF Exchange, SendAccepted, SendRefused, peerVars
  <2>4. inbound' = inbound /\ answered' = answered
    BY <1>3 DEF Exchange, SendAccepted, SendRefused, peerVars
  <2>5. \A q \in Request : call'[q].response = call[q].response
    <3>1. \E pc : call' = [call EXCEPT ![r].pc = pc]
      BY <1>3 DEF Exchange, SendAccepted, SendRefused
    <3> QED
      BY <3>1 DEF HttpTypeOK, Call
  <2>6. \A n \in DOMAIN requests' :
           requests'[n].event => requests'[n].response.to \in answered
    BY <1>3 DEF Exchange, Register, PeerInv
  <2> QED
    BY <2>3, <2>4, <2>5, <2>6 DEF PeerInv
<1>4. ASSUME NEW r \in Request, HttpRaises(r) \/ HttpReturns(r) \/ WakeUp(r) \/ CSeqGiveUp(r)
      PROVE  PeerInv'
  <2> DEFINE Known2 == {q \in Request : stage'[q] # "idle"}
  <2>1. /\ unanswered' = unanswered
        /\ inbound' = inbound
        /\ answered' = answered
    BY <1>4 DEF HttpRaises, HttpReturns, WakeUp, CSeqGiveUp, Resume, GiveUp, peerVars, httpVars
  <2>2. Known \subseteq Known2
    BY <1>4 DEF HttpRaises, HttpReturns, WakeUp, CSeqGiveUp, SessionInv, SessionTypeOK
  <2>3. unanswered' \in Seq(Known2)
    BY <2>1, <2>2, SeqMonotone DEF PeerInv
  <2>4. \A q \in Request : call'[q].response = call[q].response
    BY <1>4, SMTT(30) DEF HttpRaises, HttpReturns, WakeUp, CSeqGiveUp, Resume, GiveUp, httpVars,
                          HttpTypeOK, Call
  <2>5. HttpReturns(r) => call[r].response.to \in answered
    BY DEF HttpReturns, Outcome, PeerInv
  <2>6. \A n \in DOMAIN requests' :
           requests'[n].event => requests'[n].response.to \in answered
    BY <1>4, <2>5 DEF HttpRaises, HttpReturns, WakeUp, CSeqGiveUp, Without, Delivered, PeerInv
  <2> QED
    BY <2>1, <2>3, <2>4, <2>6 DEF PeerInv
<1> QED
  BY <1>1, <1>2, <1>3, <1>4 DEF Next, Task

(* Initial states map to initial states of the contract.                    *)
LEMMA ContractInit == Init => Contract!Init
BY DEF Init, HttpInit, Contract!Init

(* Every step maps to a step of the contract or to a stutter.               *)
LEMMA ContractStep ==
    ASSUME HttpTypeOK, SessionInv, PeerInv, [Next]_vars
    PROVE  [Contract!Next]_(Contract!vars)
<1> USE DEF Contract!vars
<1>1. CASE UNCHANGED vars
  BY <1>1 DEF vars, httpVars, rtspVars
<1>2. CASE PeerNext
  <2>1. CASE DataReceived \/ ConnectionLost \/ Close
    BY <1>2, <2>1 DEF PeerNext, rtspVars, DataReceived, ConnectionLost, Close, peerVars
  <2>2. ASSUME NEW i \in DOMAIN unanswered, NEW code \in Code, PeerAnswers(i, code)
        PROVE  Contract!Next
    <3>1. unanswered[i] \in Request /\ stage[unanswered[i]] # "idle"
      BY DEF PeerInv
    <3>2. Contract!PeerReplies(unanswered[i])
      BY <1>2, <2>2, <3>1
         DEF PeerNext, PeerAnswers, rtspVars, Contract!PeerReplies, SessionInv, SessionTypeOK, Stage
    <3> QED
      BY <3>1, <3>2 DEF Contract!Next
  <2> QED
    BY <1>2, <2>1, <2>2 DEF PeerNext
<1>3. ASSUME NEW r \in Request, Exchange(r) PROVE Contract!Next
  <2>1. answered' = answered /\ result' = result /\ stage[r] = "idle"
    BY <1>3 DEF Exchange, Register, SendAccepted, SendRefused, peerVars
  <2>2. CASE stage' = [stage EXCEPT ![r] = "http"]
    <3>1. Contract!Ask(r)
      BY <2>1, <2>2 DEF Contract!Ask, SessionInv, SessionTypeOK, Stage
    <3> QED
      BY <3>1 DEF Contract!Next
  <2>3. CASE stage' = [stage EXCEPT ![r] = "failed"]
    <3>1. Contract!Fail(r)
      BY <2>1, <2>3 DEF Contract!Fail, SessionInv, SessionTypeOK, Stage
    <3> QED
      BY <3>1 DEF Contract!Next
  <2> QED
    BY <1>3, <2>2, <2>3 DEF Exchange
<1>4. ASSUME NEW r \in Request,
             stage[r] \in {"http", "cseq"}, stage' = [stage EXCEPT ![r] = "failed"],
             answered' = answered, result' = result
      PROVE  Contract!Next
  <2>1. Contract!Fail(r)
    BY <1>4 DEF Contract!Fail, SessionInv, SessionTypeOK, Stage
  <2> QED
    BY <2>1 DEF Contract!Next
<1>5. ASSUME NEW r \in Request, NEW resp \in Response,
             stage[r] \in {"http", "cseq"}, stage' = [stage EXCEPT ![r] = "returned"],
             resp.to = r, resp # None, r \in answered,
             answered' = answered, result' = [result EXCEPT ![r] = resp]
      PROVE  Contract!Next
  <2>1. Contract!Return(r)
    BY <1>5 DEF Contract!Return, SessionInv, SessionTypeOK, Stage
  <2> QED
    BY <2>1 DEF Contract!Next
<1>6. ASSUME NEW r \in Request, HttpRaises(r) PROVE Contract!Next
  BY <1>6, <1>4 DEF HttpRaises, Resume, GiveUp, peerVars
<1>7. ASSUME NEW r \in Request, CSeqGiveUp(r) PROVE Contract!Next
  BY <1>7, <1>4 DEF CSeqGiveUp, httpVars
<1>8. ASSUME NEW r \in Request, WakeUp(r) PROVE Contract!Next
  <2> DEFINE resp == requests[cseqOf[r]].response
  <2>1. resp \in Response /\ resp # None /\ resp.to = r /\ r \in answered
    BY <1>8, NoneAssumption
       DEF WakeUp, SessionInv, SessionTypeOK, CSeqsOwned, EntriesOwned, PeerInv, Entry, Response
  <2> QED
    BY <1>8, <2>1, <1>5 DEF WakeUp, httpVars
<1>9. ASSUME NEW r \in Request, HttpReturns(r)
      PROVE  [Contract!Next]_(Contract!vars)
  <2> DEFINE reqs == Delivered(call[r].response)
             resp == reqs[cseqOf[r]].response
  <2>1. answered' = answered
    BY <1>9 DEF HttpReturns, Resume, peerVars
  <2>2. CASE reqs[cseqOf[r]].event
    <3>1. call[r].response \in Response /\ call[r].response.to \in answered
      BY <1>9, NoneAssumption DEF HttpReturns, Outcome, HttpTypeOK, Call, PeerInv
    <3>2. cseqOf[r] \in DOMAIN requests /\ cseqOf[r] \in Nat
      BY <1>9 DEF HttpReturns, SessionInv, SessionTypeOK, CSeqsOwned
    <3>3. CASE cseqOf[r] = CSeqHeader(call[r].response)
      <4>1. resp = call[r].response
        BY <3>2, <3>3 DEF Delivered
      <4>2. cseqOf[resp.to] = cseqOf[r] /\ resp.to \in Request
        BY <3>1, <3>2, <3>3, <4>1 DEF CSeqHeader, Response
      <4>3. resp.to = r
        BY <3>2, <4>2 DEF SessionInv, CSeqsOwned
      <4> QED
        BY <1>5, <1>9, <2>1, <2>2, <3>1, <4>1, <4>3, NoneAssumption DEF HttpReturns
    <3>4. CASE cseqOf[r] # CSeqHeader(call[r].response)
      <4>1. reqs[cseqOf[r]] = requests[cseqOf[r]]
        BY <3>2, <3>4 DEF Delivered
      <4>2. resp \in Response /\ resp # None /\ resp.to = r /\ r \in answered
        BY <2>2, <3>2, <4>1, NoneAssumption
           DEF SessionInv, SessionTypeOK, CSeqsOwned, EntriesOwned, PeerInv, Entry, Response
      <4> QED
        BY <1>5, <1>9, <2>1, <2>2, <4>2 DEF HttpReturns
    <3> QED
      BY <3>3, <3>4
  <2>3. CASE ~reqs[cseqOf[r]].event
    BY <1>9, <2>1, <2>3 DEF HttpReturns, SessionInv, SessionTypeOK, Stage
  <2> QED
    BY <2>2, <2>3
<1> QED
  BY <1>1, <1>2, <1>3, <1>6, <1>7, <1>8, <1>9 DEF Next, Task

(* Whatever the peer, the timers and cancellations do, the session keeps the *)
(* request/response contract of RequestReply.                               *)
THEOREM ImplementsRequestReply == Spec => RequestReplySpec
<1>1. Spec => []PeerInv
  <2>1. HttpTypeOK /\ SessionInv /\ PeerInv /\ [Next]_vars => PeerInv'
    BY PeerStep
  <2> QED
    BY <2>1, PeerInit, Invariance, PTL DEF Spec
<1>2. HttpTypeOK /\ SessionInv /\ PeerInv /\ [Next]_vars => [Contract!Next]_(Contract!vars)
  BY ContractStep
<1> QED
  BY <1>1, <1>2, ContractInit, Invariance, PTL DEF Spec, RequestReplySpec, Contract!Spec
-----------------------------------------------------------------------------
(* A set of services that host h has told of: those with a port are on the   *)
(* network, of a type that is looked for, and, in a multicast scan, its own  *)
(* or those of a device that sleeps.                                         *)
TellsTruth(h, ss) ==
    \A s \in ss : s.port # 0 =>
        /\ s \in Offers /\ s.type \in Range(Services)
        /\ scanner = "multicast" => s.device = h \/ s.device \in asleep

(* The state of the two mDNS clients and of the zeroconf scanner has the     *)
(* fields that the code gives it.                                            *)
MultiShape == multi = [open |-> multi.open, released |-> multi.released, heard |-> multi.heard,
                       unicasts |-> multi.unicasts]
UniShape == uni = [h \in Host |-> [pc |-> uni[h].pc, open |-> uni[h].open, count |-> uni[h].count,
                                   parser |-> uni[h].parser, knocker |-> uni[h].knocker]]
TableShape == byType = [h \in Wanted |-> [t \in Range(Services) |-> byType[h][t]]]
ReceivedShape == received = [h \in Host |-> received[h]]

(* All of them.                                                              *)
Shapes == MultiShape /\ UniShape /\ TableShape /\ ReceivedShape

(* scan() chose one scanner: what belongs to the others is as it was at the  *)
(* start.                                                                    *)
OneScanner ==
    /\ scanner \in {"multicast", "unicast", "zc_multicast", "zc_unicast"}
    /\ scanner # "multicast" => ~multi.open
    /\ scanner # "unicast" =>
          /\ knocks = {}
          /\ \A h \in Host : uni[h].pc = "none" /\ ~uni[h].open /\ uni[h].knocker = "none"
    /\ lookup \in CASE scanner = "zc_multicast" -> {"called", "requests", "over"}
                    [] scanner = "zc_unicast" -> {"called", "first", "sleeps", "second", "over"}
                    [] OTHER -> {"none"}

(* Every datagram on its way is true, and says nothing but names only if     *)
(* its source is the proxy of a device that sleeps.                          *)
NetIsTrue ==
    \A m \in net : /\ m.source \in Host /\ TellsTruth(m.source, m.services)
                   /\ scanner = "multicast" /\ IsSleepProxy(m) => Sleepers(m.source) # {}

(* What the hosts have told of is true.                                      *)
ReceivedIsTrue == \A h \in Host : TellsTruth(h, received[h])

(* A multicast scan keeps what each host told of, all of it unless an        *)
(* identifier is looked for (a match forgets the other hosts), and calls a   *)
(* host a sleeping one only on behalf of one it speaks for.                  *)
MulticastKeeps == scanner = "multicast" =>
    /\ multi.unicasts \subseteq Host
    /\ DOMAIN multi.heard \subseteq Host
    /\ \A h \in Host : 
         /\ Heard(h).parser \subseteq received[h]
         /\ identifier = NoId => Heard(h).parser = received[h]
         /\ Heard(h).deepSleep => Sleepers(h) # {}

(* A unicast scan keeps for each host what that one told of, and nothing of  *)
(* one that timed out.                                                       *)
UnicastKeeps == scanner = "unicast" => \A h \in Host :
     /\ uni[h].pc \in {"called","waiting","released","returned","timed out","raised"}
     /\ uni[h].pc = "called" => received[h] = {} /\ uni[h].parser = {}
     /\ uni[h].pc \in {"waiting", "released", "returned"} => uni[h].parser = received[h]
     /\ uni[h].open => uni[h].pc \in {"waiting", "released"}
     /\ uni[h].pc = "timed out" => uni[h].parser = {}

(* The table of a zeroconf scan holds services of the cache at their place;  *)
(* those whose requests are over are in it.                                  *)
ZcKeeps ==
    /\ details \subseteq Offers
    /\ asked \subseteq infos /\ infos \subseteq BuildServiceInfoQueries
    /\ \A h \in Wanted, t \in Range(Services) : byType[h][t] # NoService =>
          byType[h][t] \in OfNames(infos, details) /\ byType[h][t].address = h /\ byType[h][t].type = t
    /\ lookup \in {"first", "second"} => \A s \in Offers :
          Name(s) \in infos \ asked =>
            s \in details /\ (s.address \in Wanted => byType[s.address][s.type] = s)
    /\ scanner = "zc_unicast" /\ lookup = "over" => \A s \in OfNames(infos, details) :
          s.address \in Wanted => byType[s.address][s.type] = s

(* What the scanner hands on at its end.                                     *)
Gathered ==
    CASE scanner = "multicast" -> {ToResponse(multi.heard[h]) : h \in DOMAIN multi.heard}
      [] scanner = "unicast" -> {MdnsResponse(Parse(uni[h].parser), FALSE) : h \in Host}
      [] scanner = "zc_multicast" -> ByAddress(OfNames(infos, details))
      [] scanner = "zc_unicast" -> ByAddress(Matching(byType))

(* The end of each kind of scan.                                             *)
Ended == CASE scanner = "multicast" -> ~multi.open
      [] scanner = "unicast" -> \A h \in Host : uni[h].pc \in {"returned", "timed out"}
      [] OTHER -> lookup = "over"

(* Nothing is handled before the scanner has ended, and what is handled is   *)
(* what it had gathered.                                                     *)
Phases ==
    /\ scanning \in {"processing", "handling", "done", "raised"}
    /\ scanning \in {"handling", "done"} => Ended /\ responses = Gathered
    /\ lookup \notin {"none", "over"} => scanning = "processing"
    /\ lookup = "over" => scanning \in {"handling", "done"}

(* The configurations are those that discover() makes of the responses and   *)
(* scan() keeps.                                                             *)
FoundIsHandled ==
    scanning = "done" => \E cs \in [AddressesFound -> UNION {ConfigsOf(a) : a \in AddressesFound}] :
        /\ \A a \in AddressesFound : cs[a] \in ConfigsOf(a)
        /\ found = [a \in {x \in AddressesFound : ShouldInclude(cs[x])} |-> cs[a]]

(* The inductive invariant of the scanners.                                  *)
ScanInv ==
    /\ Shapes /\ OneScanner /\ NetIsTrue /\ ReceivedIsTrue /\ MulticastKeeps
    /\ UnicastKeeps /\ ZcKeeps /\ Phases /\ FoundIsHandled

(* It holds when a scan begins.                                              *)
LEMMA ScanInvInit == ScannersInit => ScanInv
<1> SUFFICES ASSUME ScannersInit PROVE ScanInv
  OBVIOUS
<1> USE DEF ScannersInit, ScanInit, MdnsInit, ZcInit, UnicastInit
<1>1. Shapes
  BY DEF Shapes, MultiShape, UniShape, TableShape, ReceivedShape
<1>2. OneScanner
  BY DEF OneScanner
<1>3. NetIsTrue /\ ReceivedIsTrue
  BY DEF NetIsTrue, ReceivedIsTrue, TellsTruth
<1>4. MulticastKeeps
  BY DEF MulticastKeeps, Heard
<1>5. UnicastKeeps
  BY DEF UnicastKeeps
<1>6. ZcKeeps
  BY DEF ZcKeeps
<1>7. Phases /\ FoundIsHandled
  BY DEF Phases, FoundIsHandled
<1> QED BY <1>1, <1>2, <1>3, <1>4, <1>5, <1>6, <1>7 DEF ScanInv

(* What Discover has made of the responses stays as it is.                   *)
LEMMA FoundKept ==
    ASSUME FoundIsHandled, UNCHANGED scanVars
    PROVE  FoundIsHandled'
<1>1. AddressesFound' = AddressesFound /\ AllHandled' = AllHandled
  BY DEF AddressesFound, AllHandled, scanVars, Handled, Discovered
<1>2. \A a : ConfigsOf(a)' = ConfigsOf(a)
  BY <1>1 DEF ConfigsOf, scanVars, ServicesAt, Handled, Discovered, Models, Config
<1>3. \A c : ShouldInclude(c)' = ShouldInclude(c)
  BY DEF ShouldInclude, scanVars
<1> QED BY <1>1, <1>2, <1>3 DEF FoundIsHandled, scanVars

(* Nothing is found before the scan is done.                                 *)
LEMMA NotDone ==
    ASSUME scanning' # "done" PROVE FoundIsHandled'
BY DEF FoundIsHandled

(* What the hosts answer is true: the services a host tells of with a port   *)
(* are on the network, of a type that is looked for, and its own or those    *)
(* of a device that sleeps; and only a proxy tells of nothing but names.     *)
Truthful(m) == /\ m.source \in Host /\ TellsTruth(m.source, m.services)
               /\ IsSleepProxy(m) => Sleepers(m.source) # {}

(* A query asks for types that are looked for.                               *)
LEMMA ChunkIsOfServices == \A q : Chunk(q) \subseteq Range(Services)
BY ServicesAssumption DEF Chunk, Range

(* A host answers with services of the network, all of which have a port.    *)
LEMMA OwnIsOffered ==
    \A d, types : \A s \in Own(d, types) : s \in Offers /\ s.device = d /\ s.type \in types /\ s.port # 0
BY OffersAssumption DEF Own

(* The answer of a host that is awake is true.                               *)
LEMMA DatagramIsTrue ==
    ASSUME NEW h \in Host, NEW q, Datagram(h, q).services # {} PROVE Truthful(Datagram(h, q))
<1> DEFINE own == IF h \in asleep THEN {} ELSE Own(h, Chunk(q))
           ss == own \cup {DeviceInfoOf(s.device) : s \in own}
<1>1. Datagram(h, q) = [source |-> h, query |-> q, services |-> ss]
  BY DEF Datagram
<1>2. \A s \in own : s \in Offers /\ s.device = h /\ s.type \in Range(Services) /\ s.port # 0
  BY OwnIsOffered, ChunkIsOfServices
<1>3. TellsTruth(h, ss)
  BY <1>2 DEF TellsTruth, DeviceInfoOf
<1>4. \E s \in ss : s.port # 0
  BY <1>1, <1>2
<1> HIDE DEF ss
<1> QED BY <1>1, <1>3, <1>4 DEF Truthful, IsSleepProxy

(* So is that of a sleep proxy, which tells of names.                        *)
LEMMA ProxyDatagramIsTrue ==
    ASSUME NEW h \in Host, NEW q, ProxyDatagram(h, q).services # {} PROVE Truthful(ProxyDatagram(h, q))
<1> DEFINE all == UNION {Own(d, Chunk(q)) : d \in Sleepers(h)}
           ss == Named(all)
<1>1. ProxyDatagram(h, q) = [source |-> h, query |-> q, services |-> ss]
  BY DEF ProxyDatagram
<1>2. \A s \in all : s \in Offers /\ s.port # 0
  BY OwnIsOffered
<1>3. ASSUME NEW t \in ss PROVE t.port = 0
  <2>1. PICK s \in all : t = [s EXCEPT !.address = NoAddress, !.port = 0, !.facts = {}]
    BY DEF Named
  <2> QED BY <2>1, <1>2, OffersAssumption
<1>4. ASSUME Sleepers(h) = {} PROVE FALSE
  <2>1. all = {}
    BY <1>4
  <2>2. ss = {}
    BY <2>1 DEF Named
  <2> QED BY <1>1, <2>2
<1> HIDE DEF ss
<1> QED BY <1>1, <1>3, <1>4 DEF Truthful, TellsTruth

(* So is the answer of what the proxy was asked for directly.                *)
LEMMA DirectDatagramIsTrue ==
    ASSUME NEW h \in Host, Sleepers(h) # {} PROVE Truthful(DirectDatagram(h))
<1> DEFINE ss == UNION {Own(d, Range(Services)) : d \in Sleepers(h)}
<1>1. DirectDatagram(h) = [source |-> h, query |-> 0, services |-> ss]
  BY DEF DirectDatagram
<1>2. \A s \in ss : s \in Offers /\ s.type \in Range(Services) /\ s.device \in asleep
  BY OwnIsOffered DEF Sleepers
<1> HIDE DEF ss
<1> QED BY <1>1, <1>2 DEF Truthful, TellsTruth

(* Hence all that a query is answered with is.                               *)
LEMMA AnsweredIsTrue ==
    ASSUME NEW sources \in SUBSET Host, NEW m \in Answered(sources) PROVE Truthful(m)
BY DatagramIsTrue, ProxyDatagramIsTrue DEF Answered

(* What was gathered depends on the state of the scanners alone.             *)
LEMMA GatheredKept ==
    ASSUME UNCHANGED <<scanner, multi, uni, infos, details, byType>> PROVE Gathered' = Gathered
<1>1. {ToResponse(multi.heard[h]) : h \in DOMAIN multi.heard}'
      = {ToResponse(multi.heard[h]) : h \in DOMAIN multi.heard}
  BY DEF ToResponse, Parse, MdnsResponse
<1>2. {MdnsResponse(Parse(uni[h].parser), FALSE) : h \in Host}'
      = {MdnsResponse(Parse(uni[h].parser), FALSE) : h \in Host}
  BY DEF Parse, MdnsResponse
<1>3. ByAddress(OfNames(infos, details))' = ByAddress(OfNames(infos, details))
  BY DEF ByAddress, OfNames, Name, MdnsResponse
<1>4. ByAddress(Matching(byType))' = ByAddress(Matching(byType))
  BY DEF ByAddress, Matching, MdnsResponse
<1> QED BY <1>1, <1>2, <1>3, <1>4 DEF Gathered

(* So does the end of a scan.                                                *)
LEMMA EndedKept ==
    ASSUME UNCHANGED <<scanner, multi, uni, lookup>> PROVE Ended' = Ended
BY DEF Ended

(* What the zeroconf scanner keeps stays true while it does nothing.         *)
LEMMA ZcKept == ASSUME ZcKeeps, UNCHANGED <<scanner, zcVars>> PROVE ZcKeeps'
BY DEF ZcKeeps, zcVars, BuildServiceInfoQueries, OfNames, Name

(* _resend_loop: the queries are sent once more, and true answers may come.  *)
LEMMA ResendKeeps == ASSUME ScanInv, Resend, UNCHANGED zcVars PROVE ScanInv'
<1> USE DEF ScanInv
<1>u. /\ UNCHANGED <<scanVars, asleep, multi, uni, knocks, received>> /\ UNCHANGED zcVars
      /\ UNCHANGED <<scanner, identifier, scanning, responses, found, ptrs, details, lookup, infos, asked, byType>>
  BY DEF Resend, scanVars, zcVars
<1>1. Shapes' /\ OneScanner' /\ ReceivedIsTrue'
  BY <1>u DEF Shapes, MultiShape, UniShape, TableShape, ReceivedShape, OneScanner,
              ReceivedIsTrue, TellsTruth
<1>2. NetIsTrue'
  <2>1. ASSUME NEW m \in net', m \notin net PROVE Truthful(m)
    <3>1. CASE ResendToAll
      <4>1. multi.unicasts \subseteq Host
        BY <3>1 DEF ResendToAll, OneScanner, MulticastKeeps
      <4> QED BY <2>1, <3>1, <4>1, AnsweredIsTrue, DirectDatagramIsTrue DEF ResendToAll
    <3>2. CASE ResendToHosts
      BY <2>1, <3>2, AnsweredIsTrue DEF ResendToHosts
    <3> QED BY <3>1, <3>2 DEF Resend
  <2>2. \A h, ss : TellsTruth(h, ss)' <=> TellsTruth(h, ss)
    BY <1>u DEF TellsTruth
  <2>3. \A p : Sleepers(p)' = Sleepers(p)
    BY <1>u DEF Sleepers
  <2> QED BY <1>u, <2>1, <2>2, <2>3 DEF NetIsTrue, Truthful
<1>3. MulticastKeeps'
  BY <1>u DEF MulticastKeeps, Heard, Sleepers
<1>4. UnicastKeeps'
  BY <1>u DEF UnicastKeeps
<1>5. ZcKeeps'
  BY <1>u DEF ZcKeeps, BuildServiceInfoQueries, OfNames
<1>6. Phases'
  BY <1>u, GatheredKept, EndedKept DEF Phases
<1>7. FoundIsHandled'
  BY <1>u, FoundKept
<1> QED BY <1>1, <1>2, <1>3, <1>4, <1>5, <1>6, <1>7

(* datagram_received of a multicast scan: what was heard of the source       *)
(* grows by what it says, and a match of the identifier forgets the others.  *)
LEMMA MulticastReceivesKeeps ==
    ASSUME ScanInv, NEW m \in net, MulticastReceives(m), UNCHANGED zcVars PROVE ScanInv'
<1> USE DEF ScanInv
<1> DEFINE src == m.source
           r == AddResponse(m)
           ends == /\ ~IsSleepProxy(m) /\ r.count >= Cardinality(Queries) /\ EndCondition(r)
<1>u. /\ UNCHANGED <<scanVars, asleep, round, uni, knocks>>
      /\ UNCHANGED <<scanner, identifier, scanning, responses, found, ptrs, details, lookup, infos, asked, byType>>
  BY DEF MulticastReceives, scanVars, zcVars
<1>m. /\ net' = net \ {m}
      /\ received' = [received EXCEPT ![src] = @ \cup m.services]
      /\ multi' = [open |-> ~ends, released |-> ends,
                   heard |-> IF ends THEN [h \in {src} |-> r] ELSE With(multi.heard, src, r),
                   unicasts |-> IF IsSleepProxy(m) THEN multi.unicasts \cup {src} ELSE multi.unicasts]
      /\ multi.open
  BY DEF MulticastReceives, Receives
<1>s. scanner = "multicast" /\ scanning \notin {"handling", "done"} /\ scanning' \notin {"handling", "done"}
  BY <1>u, <1>m DEF OneScanner, Phases, Ended
<1>t. src \in Host /\ TellsTruth(src, m.services) /\ (IsSleepProxy(m) => Sleepers(src) # {})
  BY <1>s DEF NetIsTrue
<1>e. ends => identifier # NoId
  BY DEF EndCondition
<1>r. /\ r.parser = Heard(src).parser \cup m.services
      /\ r.deepSleep => Heard(src).deepSleep \/ IsSleepProxy(m)
  BY DEF AddResponse, AddMessage
<1>h. received'[src] = received[src] \cup m.services /\ \A h \in Host : h # src => received'[h] = received[h]
  BY <1>m, <1>t DEF Shapes, ReceivedShape
<1>l. \A h, ss : TellsTruth(h, ss)' <=> TellsTruth(h, ss)
  BY <1>u DEF TellsTruth
<1>p. \A p : Sleepers(p)' = Sleepers(p)
  BY <1>u DEF Sleepers
<1> HIDE DEF r, ends
<1>1. Shapes'
  BY <1>u, <1>m, <1>t DEF Shapes, MultiShape, UniShape, TableShape, ReceivedShape
<1>2. OneScanner'
  BY <1>u, <1>s DEF OneScanner
<1>3. NetIsTrue'
  BY <1>u, <1>m, <1>l, <1>p DEF NetIsTrue, IsSleepProxy
<1>4. ReceivedIsTrue'
  <2>1. ASSUME NEW h \in Host PROVE TellsTruth(h, received'[h])
    BY <1>h, <1>t DEF ReceivedIsTrue, TellsTruth
  <2> QED BY <1>l, <2>1 DEF ReceivedIsTrue
<1>5. MulticastKeeps'
  <2>a. /\ multi'.heard = IF ends THEN [h \in {src} |-> r] ELSE With(multi.heard, src, r)
        /\ multi'.unicasts = IF IsSleepProxy(m) THEN multi.unicasts \cup {src} ELSE multi.unicasts
    BY <1>m
  <2>b. /\ DOMAIN With(multi.heard, src, r) = DOMAIN multi.heard \cup {src}
        /\ With(multi.heard, src, r)[src] = r
        /\ \A x \in DOMAIN multi.heard : x # src => With(multi.heard, src, r)[x] = multi.heard[x]
    BY DEF With
  <2>1. multi'.unicasts \subseteq Host /\ DOMAIN multi'.heard \subseteq Host
    BY <2>a, <2>b, <1>s, <1>t DEF MulticastKeeps
  <2>2. src \in DOMAIN multi'.heard /\ multi'.heard[src] = r
    BY <2>a, <2>b
  <2>3. ASSUME NEW h \in Host, h # src
        PROVE  IF ends THEN h \notin DOMAIN multi'.heard
               ELSE /\ h \in DOMAIN multi'.heard <=> h \in DOMAIN multi.heard
                    /\ h \in DOMAIN multi.heard => multi'.heard[h] = multi.heard[h]
    BY <2>a, <2>b, <2>3
  <2>4. ASSUME NEW h \in Host
        PROVE  /\ Heard(h)'.parser \subseteq received'[h]
               /\ identifier = NoId => Heard(h)'.parser = received'[h]
               /\ Heard(h)'.deepSleep => Sleepers(h) # {}
    <3>1. CASE h = src
      BY <1>h, <1>r, <1>s, <1>t, <2>2, <3>1 DEF MulticastKeeps, Heard
    <3>2. CASE h # src /\ ~ends
      <4>1. Heard(h)' = Heard(h) /\ received'[h] = received[h]
        BY <1>h, <2>3, <3>2 DEF Heard
      <4> QED BY <1>s, <4>1 DEF MulticastKeeps
    <3>3. CASE h # src /\ ends
      <4>1. Heard(h)' = [count |-> 0, deepSleep |-> FALSE, parser |-> {}]
        BY <2>3, <3>3 DEF Heard
      <4> QED BY <1>e, <3>3, <4>1
    <3> QED BY <3>1, <3>2, <3>3
  <2> QED BY <1>u, <1>p, <2>1, <2>4 DEF MulticastKeeps
<1>6. UnicastKeeps'
  BY <1>u, <1>s DEF UnicastKeeps
<1>7. ZcKeeps'
  BY <1>u, ZcKept
<1>8. Phases'
  BY <1>u, <1>s DEF Phases
<1>9. FoundIsHandled'
  BY <1>s, NotDone
<1> QED BY <1>1, <1>2, <1>3, <1>4, <1>5, <1>6, <1>7, <1>8, <1>9

(* A datagram of services that nobody asked for makes its source known and   *)
(* says nothing.                                                             *)
LEMMA MulticastIgnoresKeeps ==
    ASSUME ScanInv, NEW h \in Host, MulticastIgnores(h), UNCHANGED zcVars PROVE ScanInv'
<1> USE DEF ScanInv
<1>u. /\ UNCHANGED <<scanVars, asleep, net, round, uni, knocks, received>>
      /\ UNCHANGED <<scanner, identifier, scanning, responses, found, ptrs, details, lookup, infos, asked, byType>>
  BY DEF MulticastIgnores, scanVars, zcVars
<1>m. multi' = [multi EXCEPT !.heard = With(@, h, Heard(h))] /\ multi.open /\ h \notin DOMAIN multi.heard
  BY DEF MulticastIgnores
<1>s. scanner = "multicast" /\ scanning \notin {"handling", "done"} /\ scanning' \notin {"handling", "done"}
  BY <1>u, <1>m DEF OneScanner, Phases, Ended
<1>l. \A x, ss : TellsTruth(x, ss)' <=> TellsTruth(x, ss)
  BY <1>u DEF TellsTruth
<1>p. \A p : Sleepers(p)' = Sleepers(p)
  BY <1>u DEF Sleepers
<1>h. /\ multi'.heard = With(multi.heard, h, Heard(h))
      /\ multi'.open = multi.open /\ multi'.unicasts = multi.unicasts
  BY <1>m DEF Shapes, MultiShape
<1>1. Shapes'
  BY <1>u, <1>m DEF Shapes, MultiShape, UniShape, TableShape, ReceivedShape
<1>2. OneScanner'
  BY <1>u, <1>s DEF OneScanner
<1>3. NetIsTrue' /\ ReceivedIsTrue'
  BY <1>u, <1>l, <1>p DEF NetIsTrue, ReceivedIsTrue
<1>4. MulticastKeeps'
  <2>1. DOMAIN multi'.heard = DOMAIN multi.heard \cup {h}
    BY <1>h DEF With
  <2>2. ASSUME NEW x \in Host PROVE Heard(x)' = Heard(x)
    <3>1. CASE x = h
      BY <1>h, <1>m, <2>1, <3>1 DEF Heard, With
    <3>2. CASE x # h
      <4>1. x \in DOMAIN multi'.heard <=> x \in DOMAIN multi.heard
        BY <2>1, <3>2
      <4>2. x \in DOMAIN multi.heard => multi'.heard[x] = multi.heard[x]
        BY <1>h, <3>2 DEF With
      <4> QED BY <4>1, <4>2 DEF Heard
    <3> QED BY <3>1, <3>2
  <2> QED BY <1>u, <1>s, <1>h, <1>p, <2>1, <2>2 DEF MulticastKeeps
<1>5. UnicastKeeps'
  BY <1>u DEF UnicastKeeps
<1>6. ZcKeeps'
  BY <1>u, ZcKept
<1>7. Phases'
  BY <1>u, <1>s DEF Phases
<1>8. FoundIsHandled'
  BY <1>s, NotDone
<1> QED BY <1>1, <1>2, <1>3, <1>4, <1>5, <1>6, <1>7, <1>8

(* get_response is over: what is handed on is what was heard.                *)
LEMMA MulticastReturnsKeeps ==
    ASSUME ScanInv, MulticastReturns, UNCHANGED zcVars PROVE ScanInv'
<1> USE DEF ScanInv
<1>u. /\ UNCHANGED <<asleep, net, round, uni, knocks, received>>
      /\ UNCHANGED <<scanner, identifier, found, ptrs, details, lookup, infos, asked, byType>>
  BY DEF MulticastReturns, Processed, zcVars
<1>m. /\ multi' = [multi EXCEPT !.open = FALSE]
      /\ scanner = "multicast" /\ scanning' = "handling"
      /\ responses' = {ToResponse(multi.heard[h]) : h \in DOMAIN multi.heard}
  BY DEF MulticastReturns, Processed
<1>h. multi'.heard = multi.heard /\ ~multi'.open /\ multi'.unicasts = multi.unicasts
  BY <1>m DEF Shapes, MultiShape
<1>1. Shapes'
  BY <1>u, <1>m DEF Shapes, MultiShape, UniShape, TableShape, ReceivedShape
<1>2. OneScanner'
  BY <1>u, <1>m DEF OneScanner
<1>3. NetIsTrue' /\ ReceivedIsTrue'
  BY <1>u DEF NetIsTrue, ReceivedIsTrue, TellsTruth, Sleepers, IsSleepProxy
<1>4. MulticastKeeps'
  BY <1>u, <1>h DEF MulticastKeeps, Heard, Sleepers
<1>5. UnicastKeeps'
  BY <1>u DEF UnicastKeeps
<1>6. ZcKeeps'
  BY <1>u, ZcKept DEF zcVars
<1>7. Phases'
  <2>1. {ToResponse(multi'.heard[h]) : h \in DOMAIN multi'.heard} = responses'
    BY <1>h, <1>m
  <2>2. Gathered' = responses'
    BY <1>u, <1>m, <2>1 DEF Gathered, ToResponse, Parse, MdnsResponse
  <2>3. Ended'
    BY <1>u, <1>m, <1>h DEF Ended
  <2> QED BY <1>u, <1>m, <2>2, <2>3 DEF Phases, OneScanner
<1>8. FoundIsHandled'
  BY <1>m, NotDone
<1> QED BY <1>1, <1>2, <1>3, <1>4, <1>5, <1>6, <1>7, <1>8

(* A step of the unicast scanner disturbs only what UnicastKeeps says.       *)
LEMMA UnicastStep ==
    ASSUME ScanInv, scanner = "unicast", UNCHANGED <<scanVars, multi, zcVars>>, net' \subseteq net,
           UniShape', ReceivedShape', UnicastKeeps',
           \A h \in Host : TellsTruth(h, received'[h]),
           Ended => Ended' /\ \A h \in Host : uni'[h].parser = uni[h].parser
    PROVE  ScanInv'
<1> USE DEF ScanInv
<1>u. UNCHANGED <<scanner, identifier, scanning, responses, found, ptrs, details, lookup, infos, asked, byType>>
  BY DEF scanVars, zcVars
<1>1. Shapes'
  BY <1>u DEF Shapes, MultiShape, TableShape
<1>2. OneScanner'
  BY <1>u DEF OneScanner
<1>3. NetIsTrue' /\ ReceivedIsTrue'
  BY <1>u DEF NetIsTrue, ReceivedIsTrue, TellsTruth
<1>4. MulticastKeeps'
  BY <1>u DEF MulticastKeeps
<1>5. ZcKeeps'
  BY <1>u, ZcKept DEF zcVars
<1>6. Phases'
  <2>1. ASSUME Ended PROVE Gathered' = Gathered
    <3>1. {MdnsResponse(Parse(uni[h].parser), FALSE) : h \in Host}'
          = {MdnsResponse(Parse(uni[h].parser), FALSE) : h \in Host}
      BY <2>1 DEF MdnsResponse, Parse
    <3> QED BY <1>u, <3>1 DEF Gathered
  <2> QED BY <1>u, <2>1 DEF Phases
<1>7. FoundIsHandled'
  BY FoundKept
<1> QED BY <1>1, <1>2, <1>3, <1>4, <1>5, <1>6, <1>7

(* _get_services of a host begins: its socket is open and nothing is heard.  *)
LEMMA BeginsKeeps == ASSUME ScanInv, NEW h \in Host, Begins(h), UNCHANGED zcVars PROVE ScanInv'
<1> USE DEF ScanInv
<1>u. scanner = "unicast" /\ uni[h].pc = "called" /\ UNCHANGED <<scanVars, asleep, net, round, multi, knocks, received>>
  BY DEF Begins
<1>s. UNCHANGED scanner
  BY <1>u DEF scanVars
<1>1. /\ uni'[h].parser = uni[h].parser
      /\ uni'[h].pc \in {"waiting", "raised"} /\ (uni'[h].open => uni'[h].pc = "waiting")
      /\ \A x \in Host : x # h => uni'[x] = uni[x]
  BY <1>u DEF Begins, Shapes, UniShape, Knocker, UnicastKeeps
<1>2. UniShape'
  BY <1>u DEF Begins, Shapes, UniShape, Knocker
<1>3. UnicastKeeps'
  BY <1>u, <1>s, <1>1 DEF UnicastKeeps
<1>4. ~Ended
  BY <1>u DEF Ended
<1>5. ReceivedShape' /\ \A x \in Host : TellsTruth(x, received'[x])
  BY <1>u DEF Shapes, ReceivedShape, ReceivedIsTrue
<1> QED BY <1>u, <1>2, <1>3, <1>4, <1>5, UnicastStep

(* A knock at a port begins or ends, whatever becomes of the host.           *)
LEMMA KnocksKeep ==
    ASSUME ScanInv, NEW h \in Host, Knocks(h) \/ KnockEnds(h), UNCHANGED zcVars PROVE ScanInv'
<1> USE DEF ScanInv
<1>u. UNCHANGED <<scanVars, net, round, multi, received>>
  BY DEF Knocks, KnockEnds
<1>s. UNCHANGED scanner /\ scanner = "unicast"
  BY <1>u DEF scanVars, Knocks, KnockEnds, OneScanner
<1>1. \A x \in Host : uni'[x].pc = uni[x].pc /\ uni'[x].open = uni[x].open /\ uni'[x].parser = uni[x].parser
  BY DEF Knocks, KnockEnds, Shapes, UniShape
<1>2. UniShape'
  BY DEF Knocks, KnockEnds, Shapes, UniShape
<1>3. UnicastKeeps'
  BY <1>u, <1>s, <1>1 DEF UnicastKeeps
<1>4. Ended => Ended'
  BY <1>s, <1>1 DEF Ended
<1>5. ReceivedShape' /\ \A x \in Host : TellsTruth(x, received'[x])
  BY <1>u DEF Shapes, ReceivedShape, ReceivedIsTrue
<1> QED BY <1>u, <1>s, <1>1, <1>2, <1>3, <1>4, <1>5, UnicastStep

(* datagram_received of a host that is waited for.                           *)
LEMMA UnicastReceivesKeeps ==
    ASSUME ScanInv, NEW h \in Host, NEW m \in net, UnicastReceives(h, m), UNCHANGED zcVars PROVE ScanInv'
<1> USE DEF ScanInv
<1>u. UNCHANGED <<scanVars, asleep, round, multi, knocks>> /\ uni[h].open /\ m.source = h
  BY DEF UnicastReceives
<1>s. UNCHANGED scanner /\ scanner = "unicast"
  BY <1>u DEF scanVars, OneScanner
<1>m. net' \subseteq net /\ received' = [received EXCEPT ![h] = @ \cup m.services]
  BY <1>u DEF UnicastReceives, Receives
<1>1. /\ uni'[h].parser = uni[h].parser \cup m.services
      /\ uni'[h].pc \in {"released", uni[h].pc} /\ (uni'[h].open => uni'[h].pc = uni[h].pc)
      /\ \A x \in Host : x # h => uni'[x] = uni[x]
      /\ UniShape'
  <2>0. /\ uni = [x \in Host |-> uni[x]]
        /\ uni[h] = [pc |-> uni[h].pc, open |-> uni[h].open, count |-> uni[h].count,
                     parser |-> uni[h].parser, knocker |-> uni[h].knocker]
    BY DEF Shapes, UniShape
  <2>1. PICK all \in BOOLEAN : uni' = [uni EXCEPT ![h].count = @ + 1, ![h].parser = @ \cup m.services,
                                    ![h].open = ~all, ![h].pc = IF all THEN "released" ELSE @]
    BY DEF UnicastReceives, AddMessage
  <2>2. uni'[h] = [pc |-> IF all THEN "released" ELSE uni[h].pc, open |-> ~all,
                   count |-> uni[h].count + 1, parser |-> uni[h].parser \cup m.services,
                   knocker |-> uni[h].knocker]
    BY <2>0, <2>1
  <2>3. \A x \in Host : x # h => uni'[x] = uni[x]
    BY <2>0, <2>1
  <2>4. UniShape'
    <3>1. uni' = [x \in Host |-> uni'[x]]
      BY <2>0, <2>1
    <3> QED BY <2>2, <2>3, <3>1 DEF UniShape, Shapes
  <2>5. /\ uni'[h].parser = uni[h].parser \cup m.services /\ uni'[h].open = ~all
        /\ uni'[h].pc = IF all THEN "released" ELSE uni[h].pc
    BY <2>2
  <2> QED BY <2>1, <2>3, <2>4, <2>5
<1>r. /\ received'[h] = received[h] \cup m.services
      /\ \A x \in Host : x # h => received'[x] = received[x]
      /\ ReceivedShape'
  BY <1>m DEF Shapes, ReceivedShape
<1>p. uni[h].pc \in {"waiting", "released"} /\ uni[h].parser = received[h]
  BY <1>u, <1>s DEF UnicastKeeps
<1>3. UnicastKeeps'
  BY <1>s, <1>1, <1>r, <1>p DEF UnicastKeeps
<1>4. ~Ended
  BY <1>s, <1>p DEF Ended
<1>5. \A x \in Host : TellsTruth(x, received'[x])
  BY <1>u, <1>r DEF ReceivedIsTrue, NetIsTrue, TellsTruth
<1> QED BY <1>u, <1>s, <1>m, <1>r, <1>1, <1>3, <1>4, <1>5, UnicastStep

(* The end of _get_services of a host: what it heard is returned, or it      *)
(* timed out and is given up, or it raises, and the scan with it.            *)
LEMMA UnicastEndsKeeps ==
    ASSUME ScanInv, NEW h \in Host, UnicastEnds(h) \/ UnicastError(h), UNCHANGED zcVars PROVE ScanInv'
<1> USE DEF ScanInv
<1>u. UNCHANGED <<scanVars, asleep, net, round, multi, knocks, received>> /\ uni[h].pc \in {"waiting", "released"}
  BY DEF UnicastEnds, UnicastError
<1>s. UNCHANGED scanner /\ scanner = "unicast"
  BY <1>u DEF scanVars, OneScanner
<1>1. /\ \/ uni'[h].pc = "returned" /\ uni'[h].parser = uni[h].parser /\ ~uni'[h].open
         \/ uni'[h].pc = "timed out" /\ uni'[h].parser = {} /\ ~uni'[h].open
         \/ uni'[h].pc = "released" /\ uni'[h].parser = uni[h].parser
      /\ \A x \in Host : x # h => uni'[x] = uni[x]
      /\ UniShape'
  <2>0. /\ uni = [x \in Host |-> uni[x]]
        /\ uni[h] = [pc |-> uni[h].pc, open |-> uni[h].open, count |-> uni[h].count,
                     parser |-> uni[h].parser, knocker |-> uni[h].knocker]
    BY DEF Shapes, UniShape
  <2>p. PICK a, b, c, d, e : uni[h] = [pc |-> a, open |-> b, count |-> c, parser |-> d, knocker |-> e]
    BY <2>0
  <2>1. PICK pc, open, parser, knocker :
          /\ uni' = [uni EXCEPT ![h] = [pc |-> pc, open |-> open, count |-> uni[h].count,
                                        parser |-> parser, knocker |-> knocker]]
          /\ \/ pc = "returned" /\ parser = uni[h].parser /\ open = FALSE
             \/ pc = "timed out" /\ parser = {} /\ open = FALSE
             \/ pc = "released" /\ parser = uni[h].parser
    <3>0. uni[h].count = c /\ uni[h].parser = d
      BY <2>p
    <3>1. CASE UnicastError(h)
      <4>1. [uni[h] EXCEPT !.pc = "released"]
            = [pc |-> "released", open |-> b, count |-> c, parser |-> d, knocker |-> e]
        BY <2>p
      <4>2. uni' = [uni EXCEPT ![h] = [uni[h] EXCEPT !.pc = "released"]]
        BY <2>0, <3>1 DEF UnicastError
      <4>3. uni' = [uni EXCEPT ![h] = [pc |-> "released", open |-> b, count |-> uni[h].count,
                                       parser |-> uni[h].parser, knocker |-> e]]
        BY <3>0, <4>1, <4>2
      <4> QED BY <4>3
    <3>2. CASE UnicastEnds(h)
      <4>1. ASSUME NEW p, NEW q
            PROVE  Closed(h, p, q) = [pc |-> p, open |-> FALSE, count |-> c,
                                      parser |-> q, knocker |-> "cancelled"]
        <5>1. Knocker(h, "cancelled") = [pc |-> a, open |-> b, count |-> c, parser |-> d,
                                         knocker |-> "cancelled"]
          BY <2>p DEF Knocker
        <5>2. PICK k, o : k = Knocker(h, "cancelled") /\ o = FALSE
          OBVIOUS
        <5>3. Closed(h, p, q) = [k EXCEPT !.pc = p, !.open = o, !.parser = q]
          BY ONLY <5>2 DEF Closed
        <5>4. k = [pc |-> a, open |-> b, count |-> c, parser |-> d, knocker |-> "cancelled"]
          BY ONLY <5>1, <5>2
        <5>5. PICK r : r = [k EXCEPT !.pc = p, !.open = o, !.parser = q]
          OBVIOUS
        <5>6. r = [x \in DOMAIN r |-> r[x]]
          BY ONLY <5>5
        <5>7. DOMAIN r = {"pc", "open", "count", "parser", "knocker"}
          BY ONLY <5>4, <5>5
        <5>8. r.pc = p /\ r.open = o /\ r.count = c /\ r.parser = q /\ r.knocker = "cancelled"
          BY ONLY <5>4, <5>5
        <5>9. r = [pc |-> p, open |-> o, count |-> c, parser |-> q, knocker |-> "cancelled"]
          BY ONLY <5>6, <5>7, <5>8
        <5> QED BY ONLY <5>2, <5>3, <5>5, <5>9
      <4>2. \/ uni' = [uni EXCEPT ![h] = Closed(h, "returned", uni[h].parser)]
            \/ uni' = [uni EXCEPT ![h] = Closed(h, "timed out", {})]
        BY <2>0, <3>2 DEF UnicastEnds
      <4>3. \/ uni' = [uni EXCEPT ![h] = [pc |-> "returned", open |-> FALSE, count |-> uni[h].count,
                                          parser |-> uni[h].parser, knocker |-> "cancelled"]]
            \/ uni' = [uni EXCEPT ![h] = [pc |-> "timed out", open |-> FALSE, count |-> uni[h].count,
                                          parser |-> {}, knocker |-> "cancelled"]]
        BY <3>0, <4>1, <4>2
      <4> QED BY <4>3
    <3> QED BY <3>1, <3>2
  <2>2. uni'[h] = [pc |-> pc, open |-> open, count |-> uni[h].count, parser |-> parser,
                   knocker |-> knocker]
    BY <2>0, <2>1
  <2>3. \A x \in Host : x # h => uni'[x] = uni[x]
    BY <2>0, <2>1
  <2>4. UniShape'
    BY <2>0, <2>1, <2>2, <2>3 DEF UniShape, Shapes
  <2>5. uni'[h].pc = pc /\ uni'[h].open = open /\ uni'[h].parser = parser
    BY <2>2
  <2> QED BY <2>1, <2>3, <2>4, <2>5
<1>3. UnicastKeeps'
  BY <1>u, <1>s, <1>1 DEF UnicastKeeps
<1>4. ~Ended
  BY <1>u, <1>s DEF Ended
<1>5. ReceivedShape' /\ \A x \in Host : TellsTruth(x, received'[x])
  BY <1>u DEF Shapes, ReceivedShape, ReceivedIsTrue
<1> QED BY <1>u, <1>s, <1>1, <1>3, <1>4, <1>5, UnicastStep

(* gather() is over: every host has returned or timed out.                   *)
LEMMA UnicastReturnsKeeps == ASSUME ScanInv, UnicastReturns, UNCHANGED zcVars PROVE ScanInv'
<1> USE DEF ScanInv
<1>u. /\ UNCHANGED <<asleep, net, round, multi, uni, knocks, received>>
      /\ UNCHANGED <<scanner, identifier, found, ptrs, details, lookup, infos, asked, byType>>
  BY DEF UnicastReturns, Processed, ProcessRaises, zcVars, mdnsVars
<1>m. /\ scanner = "unicast"
      /\ \/ /\ scanning' = "handling" /\ \A h \in Host : uni[h].pc \in {"returned", "timed out"}
            /\ responses' = {MdnsResponse(Parse(uni[h].parser), FALSE) : h \in Host}
         \/ scanning' = "raised"
  BY DEF UnicastReturns, Processed, ProcessRaises
<1>1. Shapes'
  BY <1>u DEF Shapes, MultiShape, UniShape, TableShape, ReceivedShape
<1>2. OneScanner'
  BY <1>u DEF OneScanner
<1>3. NetIsTrue' /\ ReceivedIsTrue'
  BY <1>u DEF NetIsTrue, ReceivedIsTrue, TellsTruth, Sleepers, IsSleepProxy
<1>4. MulticastKeeps' /\ UnicastKeeps'
  BY <1>u, <1>m DEF MulticastKeeps, UnicastKeeps
<1>5. ZcKeeps'
  BY <1>u, ZcKept DEF zcVars
<1>6. Phases'
  <2>1. ASSUME scanning' = "handling" PROVE Gathered' = responses' /\ Ended'
    BY <1>u, <1>m, <2>1, GatheredKept DEF Gathered, Ended
  <2> QED BY <1>u, <1>m, <2>1 DEF Phases, OneScanner
<1>7. FoundIsHandled'
  BY <1>m, NotDone
<1> QED BY <1>1, <1>2, <1>3, <1>4, <1>5, <1>6, <1>7

(* Every step of the mDNS scanners keeps the invariant.                      *)
LEMMA MdnsNextKeeps == ASSUME ScanInv, MdnsNext, UNCHANGED zcVars PROVE ScanInv'
BY ResendKeeps, MulticastReceivesKeeps, MulticastIgnoresKeeps, MulticastReturnsKeeps, BeginsKeeps,
   KnocksKeep, UnicastReceivesKeeps, UnicastEndsKeeps, UnicastReturnsKeeps
   DEF MdnsNext, MdnsRuns

(* A step of the zeroconf scanners disturbs only what they keep themselves.  *)
LEMMA ZcStep ==
    ASSUME ScanInv, lookup \notin {"none", "over"}, UNCHANGED <<scanner, identifier, found, mdnsVars>>,
           TableShape', ZcKeeps', lookup' # "none",
           scanner = "zc_multicast" => lookup' \in {"called", "requests", "over"},
           scanner = "zc_unicast" => lookup' \in {"called", "first", "sleeps", "second", "over"},
           IF lookup' = "over" THEN scanning' = "handling" /\ responses' = Gathered'
           ELSE scanning' = scanning
    PROVE  ScanInv'
<1> USE DEF ScanInv
<1>u. UNCHANGED <<asleep, net, round, multi, uni, knocks, received>>
  BY DEF mdnsVars
<1>s. scanner \in {"zc_multicast", "zc_unicast"} /\ scanning = "processing"
  BY DEF OneScanner, Phases
<1>1. Shapes'
  BY <1>u DEF Shapes, MultiShape, UniShape, ReceivedShape
<1>2. OneScanner'
  BY <1>u, <1>s DEF OneScanner
<1>3. NetIsTrue' /\ ReceivedIsTrue'
  BY <1>u DEF NetIsTrue, ReceivedIsTrue, TellsTruth, Sleepers, IsSleepProxy
<1>4. MulticastKeeps' /\ UnicastKeeps'
  BY <1>s DEF MulticastKeeps, UnicastKeeps
<1>5. Phases'
  BY <1>s DEF Phases, Ended
<1>6. FoundIsHandled'
  BY <1>s, NotDone
<1> QED BY <1>1, <1>2, <1>3, <1>4, <1>5, <1>6

(* What they hand on is what their table or the cache holds then.            *)
LEMMA GatheredOfZc ==
    /\ scanner' = "zc_multicast" => Gathered' = ByAddress(OfNames(infos', details'))
    /\ scanner' = "zc_unicast" => Gathered' = ByAddress(Matching(byType'))
<1>1. ByAddress(OfNames(infos, details))' = ByAddress(OfNames(infos', details'))
  BY DEF ByAddress, OfNames, Name, MdnsResponse
<1>2. ByAddress(Matching(byType))' = ByAddress(Matching(byType'))
  BY DEF ByAddress, Matching, MdnsResponse
<1> QED BY <1>1, <1>2 DEF Gathered

(* The browser of the caller learns of a service, at any time of the         *)
(* lookup.                                                                   *)
LEMMA LearnsKeeps == ASSUME ScanInv, Learns, UNCHANGED mdnsVars PROVE ScanInv'
<1> USE DEF ScanInv
<1>u. /\ lookup \notin {"none", "over"}
      /\ UNCHANGED <<scanner, identifier, scanning, responses, found, lookup, infos, asked, byType>>
      /\ ptrs \subseteq ptrs' /\ details \subseteq details' /\ details' \subseteq details \cup Offers
  BY DEF Learns, scanVars
<1>1. TableShape'
  BY <1>u DEF Shapes, TableShape
<1>2. ZcKeeps'
  <2>1. infos' \subseteq BuildServiceInfoQueries'
    BY <1>u DEF ZcKeeps, BuildServiceInfoQueries
  <2>2. OfNames(infos, details) \subseteq OfNames(infos', details')
    BY <1>u DEF OfNames
  <2> QED BY <1>u, <2>1, <2>2 DEF ZcKeeps
<1> QED BY <1>u, <1>1, <1>2, ZcStep DEF OneScanner

(* Whichever service is chosen for a host and a type, it is the one there.   *)
LEMMA OneOfAType ==
    ASSUME NEW s \in Offers, NEW t \in Offers, s.address = t.address, s.type = t.type PROVE s = t
BY OffersAssumption

(* The table after what came in was put there: each service at its place.    *)
LEMMA TableOf ==
    ASSUME NEW table, NEW ss \in SUBSET Offers,
           table = [h \in Wanted |-> [t \in Range(Services) |-> table[h][t]]]
    PROVE  LET new == ProcessServiceInfos(table, ss)
           IN /\ new = [h \in Wanted |-> [t \in Range(Services) |-> new[h][t]]]
              /\ \A h \in Wanted, t \in Range(Services) :
                    \/ new[h][t] \in ss /\ new[h][t].address = h /\ new[h][t].type = t
                    \/ new[h][t] = table[h][t]
              /\ \A s \in ss : s.address \in Wanted /\ s.type \in Range(Services)
                                => new[s.address][s.type] = s
<1>1. PICK new : new = ProcessServiceInfos(table, ss)
  OBVIOUS
<1>2. \A h \in Wanted : DOMAIN table[h] = Range(Services)
  OBVIOUS
<1>3. new = [h \in Wanted |-> [t \in Range(Services) |->
              IF \E s \in ss : s.address = h /\ s.type = t
              THEN CHOOSE s \in ss : s.address = h /\ s.type = t
              ELSE table[h][t]]]
  BY <1>1, <1>2 DEF ProcessServiceInfos
<1>4. new = [h \in Wanted |-> [t \in Range(Services) |-> new[h][t]]]
  BY <1>3
<1>5. ASSUME NEW h \in Wanted, NEW t \in Range(Services)
      PROVE  new[h][t] = IF \E s \in ss : s.address = h /\ s.type = t
                         THEN CHOOSE s \in ss : s.address = h /\ s.type = t
                         ELSE table[h][t]
  BY <1>3
<1>6. ASSUME NEW h \in Wanted, NEW t \in Range(Services)
      PROVE  \/ new[h][t] \in ss /\ new[h][t].address = h /\ new[h][t].type = t
             \/ new[h][t] = table[h][t] /\ ~ \E s \in ss : s.address = h /\ s.type = t
  BY <1>5
<1>7. ASSUME NEW s \in ss, s.address \in Wanted, s.type \in Range(Services)
      PROVE  new[s.address][s.type] = s
  <2>1. new[s.address][s.type] \in ss /\ new[s.address][s.type].address = s.address
        /\ new[s.address][s.type].type = s.type
    BY <1>6, <1>7
  <2> QED BY <2>1, OneOfAType
<1> QED BY <1>1, <1>4, <1>6, <1>7

(* The lookup for all hosts begins, and ends at once if the cache has        *)
(* everything.                                                               *)
LEMMA ZcMulticastBeginsKeeps ==
    ASSUME ScanInv, ZcMulticastBegins, UNCHANGED mdnsVars PROVE ScanInv'
<1> USE DEF ScanInv
<1>u. /\ scanner = "zc_multicast" /\ lookup = "called" /\ lookup' \in {"over", "requests"}
      /\ infos' = BuildServiceInfoQueries /\ asked' = infos' \ {Name(s) : s \in details}
      /\ UNCHANGED <<scanner, identifier, found, ptrs, details, byType>>
      /\ IF lookup' = "over" THEN scanning' = "handling" /\ responses' = ByAddress(Cached(infos'))
         ELSE scanning' = scanning
  BY DEF ZcMulticastBegins, Requested, Processed, scanVars
<1>1. TableShape'
  BY <1>u DEF Shapes, TableShape
<1>2. ZcKeeps'
  <2>1. asked' \subseteq infos' /\ infos' \subseteq BuildServiceInfoQueries'
    BY <1>u DEF BuildServiceInfoQueries
  <2>2. OfNames(infos, details) \subseteq OfNames(infos', details')
    BY <1>u DEF OfNames, ZcKeeps
  <2> QED BY <1>u, <2>1, <2>2 DEF ZcKeeps
<1>3. lookup' = "over" => responses' = Gathered'
  BY <1>u, GatheredOfZc DEF Cached
<1> QED BY <1>u, <1>1, <1>2, <1>3, ZcStep

(* It ends when its requests were answered or timed out.                     *)
LEMMA ZcMulticastReturnsKeeps ==
    ASSUME ScanInv, ZcMulticastReturns, UNCHANGED mdnsVars PROVE ScanInv'
<1> USE DEF ScanInv
<1>u. /\ lookup = "requests" /\ lookup' = "over" /\ asked' = {}
      /\ UNCHANGED <<scanner, identifier, found, ptrs, infos, byType>>
      /\ scanning' = "handling" /\ responses' = ByAddress(OfNames(infos, details'))
      /\ details \subseteq details' /\ details' \subseteq Offers
  BY DEF ZcMulticastReturns, RequestsEnd, Processed, OfNames, ZcKeeps
<1>s. scanner = "zc_multicast"
  BY <1>u DEF OneScanner
<1>1. TableShape'
  BY <1>u DEF Shapes, TableShape
<1>2. ZcKeeps'
  <2>1. OfNames(infos, details) \subseteq OfNames(infos', details')
    BY <1>u DEF OfNames
  <2> QED BY <1>u, <1>s, <2>1 DEF ZcKeeps, BuildServiceInfoQueries
<1>3. responses' = Gathered'
  BY <1>u, <1>s, GatheredOfZc
<1> QED BY <1>u, <1>s, <1>1, <1>2, <1>3, ZcStep

(* The lookup for given hosts: the cache is read, and the rest is            *)
(* requested.                                                                *)
LEMMA LoadsFromCacheKeeps ==
    ASSUME ScanInv, NEW pass \in {"first", "second"}, NEW next \in {"sleeps", "over"},
           scanner = "zc_unicast", lookup \notin {"none", "over"},
           LoadsFromCache(pass, next), UNCHANGED mdnsVars
    PROVE  ScanInv'
<1> USE DEF ScanInv
<1> DEFINE ss == Cached(infos')
<1>u. /\ lookup' \in {"over", pass, next}
      /\ infos' = BuildServiceInfoQueries /\ asked' = infos' \ {Name(s) : s \in details}
      /\ byType' = ProcessServiceInfos(byType, ss)
      /\ UNCHANGED <<scanner, identifier, found, ptrs, details>>
      /\ IF lookup' = "over" THEN scanning' = "handling" /\ responses' = ByAddress(Matching(byType'))
         ELSE scanning' = scanning
  BY DEF LoadsFromCache, Requested, Goes, Processed, scanVars
<1>c. ss = OfNames(infos', details') /\ ss \subseteq Offers
  BY <1>u DEF Cached, OfNames, Name, ZcKeeps
<1>t. /\ byType' = [h \in Wanted |-> [t \in Range(Services) |-> byType'[h][t]]]
      /\ \A h \in Wanted, t \in Range(Services) :
            \/ byType'[h][t] \in ss /\ byType'[h][t].address = h /\ byType'[h][t].type = t
            \/ byType'[h][t] = byType[h][t]
      /\ \A s \in ss : s.address \in Wanted /\ s.type \in Range(Services)
                        => byType'[s.address][s.type] = s
  BY <1>u, <1>c, TableOf DEF Shapes, TableShape
<1>1. TableShape'
  BY <1>t DEF TableShape
<1>2. ZcKeeps'
  <2>1. asked' \subseteq infos' /\ infos' \subseteq BuildServiceInfoQueries'
    BY <1>u DEF BuildServiceInfoQueries
  <2>2. OfNames(infos, details) \subseteq ss
    BY <1>u, <1>c DEF OfNames, ZcKeeps
  <2>3. ASSUME NEW h \in Wanted, NEW t \in Range(Services), byType'[h][t] # NoService
        PROVE  byType'[h][t] \in ss /\ byType'[h][t].address = h /\ byType'[h][t].type = t
    BY <1>t, <2>2, <2>3 DEF ZcKeeps
  <2>4. ASSUME NEW s \in ss, s.address \in Wanted PROVE byType'[s.address][s.type] = s
    <3>1. s.type \in Range(Services)
      BY <1>u, <1>c DEF OfNames, Name, BuildServiceInfoQueries
    <3> QED BY <1>t, <2>4, <3>1
  <2>5. ASSUME NEW s \in Offers, Name(s) \in infos' \ asked' PROVE s \in ss /\ s \in details'
    <3>1. PICK x \in details : Name(x) = Name(s)
      BY <1>u, <2>5
    <3>2. x = s
      BY <3>1, OffersAssumption DEF ZcKeeps, Name
    <3> QED BY <1>u, <1>c, <2>5, <3>1, <3>2 DEF OfNames
  <2>6. details' \subseteq Offers
    BY <1>u DEF ZcKeeps
  <2> HIDE DEF ss
  <2> QED BY <1>c, <2>1, <2>3, <2>4, <2>5, <2>6 DEF ZcKeeps
<1>3. lookup' = "over" => responses' = Gathered'
  BY <1>u, GatheredOfZc
<1> QED BY <1>u, <1>1, <1>2, <1>3, ZcStep

(* Its requests are over: what came is in the table.                         *)
LEMMA QueriesEndKeeps ==
    ASSUME ScanInv, NEW pass \in {"first", "second"}, NEW next \in {"sleeps", "over"},
           QueriesEnd(pass, next), UNCHANGED mdnsVars
    PROVE  ScanInv'
<1> USE DEF ScanInv
<1> DEFINE ss == OfNames(asked, details')
<1>u. /\ lookup = pass /\ lookup' \in {"over", next} /\ asked' = {}
      /\ byType' = ProcessServiceInfos(byType, ss)
      /\ UNCHANGED <<scanner, identifier, found, ptrs, infos>>
      /\ details \subseteq details' /\ details' \subseteq Offers
      /\ IF lookup' = "over" THEN scanning' = "handling" /\ responses' = ByAddress(Matching(byType'))
         ELSE scanning' = scanning
  BY DEF QueriesEnd, RequestsEnd, Goes, Processed, scanVars, OfNames, ZcKeeps
<1>s. scanner = "zc_unicast"
  BY <1>u DEF OneScanner
<1>c. ss \subseteq OfNames(infos', details') /\ ss \subseteq Offers
  BY <1>u DEF OfNames, ZcKeeps
<1>t. /\ byType' = [h \in Wanted |-> [t \in Range(Services) |-> byType'[h][t]]]
      /\ \A h \in Wanted, t \in Range(Services) :
            \/ byType'[h][t] \in ss /\ byType'[h][t].address = h /\ byType'[h][t].type = t
            \/ byType'[h][t] = byType[h][t]
      /\ \A s \in ss : s.address \in Wanted /\ s.type \in Range(Services)
                        => byType'[s.address][s.type] = s
  BY <1>u, <1>c, TableOf DEF Shapes, TableShape
<1>1. TableShape'
  BY <1>t DEF TableShape
<1>2. ZcKeeps'
  <2>1. asked' \subseteq infos' /\ infos' \subseteq BuildServiceInfoQueries'
    BY <1>u DEF BuildServiceInfoQueries, ZcKeeps
  <2>2. OfNames(infos, details) \subseteq OfNames(infos', details')
    BY <1>u DEF OfNames
  <2>3. ASSUME NEW h \in Wanted, NEW t \in Range(Services), byType'[h][t] # NoService
        PROVE  /\ byType'[h][t] \in OfNames(infos', details')
               /\ byType'[h][t].address = h /\ byType'[h][t].type = t
    BY <1>t, <1>c, <2>2, <2>3 DEF ZcKeeps
  <2>4. ASSUME NEW s \in OfNames(infos', details'), s.address \in Wanted
        PROVE  byType'[s.address][s.type] = s
    <3>1. s.type \in Range(Services) /\ s \in Offers /\ s \in details' /\ Name(s) \in infos
      BY <1>u DEF OfNames, Name, BuildServiceInfoQueries, ZcKeeps
    <3>2. CASE Name(s) \in asked
      <4>1. s \in ss
        BY <3>1, <3>2 DEF OfNames
      <4> QED BY <1>t, <2>4, <3>1, <4>1
    <3>3. CASE Name(s) \notin asked
      <4>1. byType[s.address][s.type] = s
        BY <1>u, <2>4, <3>1, <3>3 DEF ZcKeeps
      <4>2. CASE byType'[s.address][s.type] \in ss
        BY <1>t, <1>c, <2>4, <3>1, <4>1, <4>2, OneOfAType
      <4> QED BY <1>t, <2>4, <3>1, <4>1, <4>2
    <3> QED BY <3>2, <3>3
  <2> QED BY <1>u, <2>1, <2>3, <2>4 DEF ZcKeeps
<1>3. lookup' = "over" => responses' = Gathered'
  BY <1>u, <1>s, GatheredOfZc
<1> QED BY <1>u, <1>s, <1>1, <1>2, <1>3, ZcStep

(* Every step of the zeroconf scanners keeps the invariant.                  *)
LEMMA ZcNextKeeps == ASSUME ScanInv, ZcNext, UNCHANGED mdnsVars PROVE ScanInv'
<1>1. CASE ZcUnicastBegins
  BY <1>1, LoadsFromCacheKeeps DEF ZcUnicastBegins
<1>2. CASE ZcUnicastWakesUp
  <2>1. scanner = "zc_unicast" /\ lookup = "sleeps"
    BY <1>2 DEF ZcUnicastWakesUp, ScanInv, OneScanner
  <2> QED BY <1>2, <2>1, LoadsFromCacheKeeps DEF ZcUnicastWakesUp
<1>3. CASE ZcUnicastSleeps \/ ZcUnicastReturns
  BY <1>3, QueriesEndKeeps DEF ZcUnicastSleeps, ZcUnicastReturns
<1> QED BY <1>1, <1>2, <1>3, LearnsKeeps, ZcMulticastBeginsKeeps, ZcMulticastReturnsKeeps
        DEF ZcNext, ZcLooksUp

(* discover() and scan() make the configurations of the responses.           *)
LEMMA DiscoverKeeps == ASSUME ScanInv, Discover, UNCHANGED <<mdnsVars, zcVars>> PROVE ScanInv'
<1> USE DEF ScanInv
<1>u. /\ UNCHANGED <<asleep, net, round, multi, uni, knocks, received>>
      /\ UNCHANGED <<scanner, identifier, responses, ptrs, details, lookup, infos, asked, byType>>
      /\ scanning = "handling" /\ scanning' = "done"
  BY DEF Discover, mdnsVars, zcVars
<1>1. Shapes' /\ OneScanner'
  BY <1>u DEF Shapes, MultiShape, UniShape, TableShape, ReceivedShape, OneScanner
<1>2. NetIsTrue' /\ ReceivedIsTrue'
  BY <1>u DEF NetIsTrue, ReceivedIsTrue, TellsTruth, Sleepers, IsSleepProxy
<1>3. MulticastKeeps' /\ UnicastKeeps'
  BY <1>u DEF MulticastKeeps, UnicastKeeps, Heard, Sleepers
<1>4. ZcKeeps'
  BY <1>u, ZcKept DEF zcVars
<1>5. Phases'
  BY <1>u, GatheredKept, EndedKept DEF Phases
<1>6. FoundIsHandled'
  <2>1. AddressesFound' = AddressesFound /\ \A a : ConfigsOf(a)' = ConfigsOf(a)
    BY <1>u DEF AddressesFound, AllHandled, Handled, Discovered, ConfigsOf, ServicesAt, Models, Config
  <2>2. \A c : ShouldInclude(c)' = ShouldInclude(c)
    BY <1>u DEF ShouldInclude
  <2>3. PICK cs \in [AddressesFound -> UNION Range([a \in AddressesFound |-> ConfigsOf(a)])] :
          /\ \A a \in AddressesFound : cs[a] \in ConfigsOf(a)
          /\ found' = [a \in {x \in AddressesFound : ShouldInclude(cs[x])} |-> cs[a]]
    BY DEF Discover
  <2>4. cs \in [AddressesFound -> UNION {ConfigsOf(a) : a \in AddressesFound}]
    BY <2>3 DEF Range
  <2> QED BY <2>1, <2>2, <2>3, <2>4 DEF FoundIsHandled
<1> QED BY <1>1, <1>2, <1>3, <1>4, <1>5, <1>6

(* A step in which nothing changes.                                          *)
LEMMA ScanInvKept == ASSUME ScanInv, UNCHANGED allVars PROVE ScanInv'
<1> USE DEF ScanInv
<1>u. /\ UNCHANGED <<asleep, net, round, multi, uni, knocks, received>> /\ UNCHANGED zcVars
      /\ UNCHANGED scanVars
      /\ UNCHANGED <<scanner, identifier, scanning, responses, found, ptrs, details, lookup, infos, asked, byType>>
  BY DEF allVars, mdnsVars, zcVars, scanVars
<1>1. Shapes' /\ OneScanner'
  BY <1>u DEF Shapes, MultiShape, UniShape, TableShape, ReceivedShape, OneScanner
<1>2. NetIsTrue' /\ ReceivedIsTrue'
  BY <1>u DEF NetIsTrue, ReceivedIsTrue, TellsTruth, Sleepers, IsSleepProxy
<1>3. MulticastKeeps' /\ UnicastKeeps'
  BY <1>u DEF MulticastKeeps, UnicastKeeps, Heard, Sleepers
<1>4. ZcKeeps'
  BY <1>u, ZcKept
<1>5. Phases'
  BY <1>u, GatheredKept, EndedKept DEF Phases
<1>6. FoundIsHandled'
  BY <1>u, FoundKept
<1> QED BY <1>1, <1>2, <1>3, <1>4, <1>5, <1>6

(* What the hosts say is what the scanners keep, and what they hand on at    *)
(* the end is all of it (core/scan.py, core/mdns.py).                        *)
THEOREM ScannersInvariance == ScannersSpec => []ScanInv
<1>1. ScanInv /\ [ScannersNext]_allVars => ScanInv'
  BY MdnsNextKeeps, ZcNextKeeps, DiscoverKeeps, ScanInvKept DEF ScannersNext
<1> QED BY <1>1, ScanInvInit, PTL DEF ScannersSpec
-----------------------------------------------------------------------------
(* A service that discover() uses.                                           *)
Usable(s) == /\ s.type \in Range(Services) /\ s.address # NoAddress /\ s.port # 0
             /\ s.type \in DOMAIN ProtocolOf

(* _service_discovered and handle_response let the others out.               *)
LEMMA HandledAreUsable == \A r : Handled(r) = {s \in r.services : Usable(s)}
BY DEF Handled, Discovered, Usable

(* The parser drops placeholders only: names without a port.                 *)
LEMMA ParseKeepsUsable ==
    ASSUME NEW parser, NEW s, Usable(s) PROVE s \in Parse(parser) <=> s \in parser
BY DEF Parse, Usable

(* _process_service_info_responses loses no service.                         *)
LEMMA ByAddressKeepsAll ==
    ASSUME NEW ss, NEW s PROVE (\E r \in ByAddress(ss) : s \in r.services) <=> s \in ss
<1>1. ASSUME s \in ss PROVE \E r \in ByAddress(ss) : s \in r.services
  <2>1. PICK at : at = {x \in ss : x.address = s.address}
    OBVIOUS
  <2>2. MdnsResponse(at, \A x \in at : x.port = 0) \in ByAddress(ss)
    <3>1. at \in {{x \in ss : x.address = a} : a \in {x.address : x \in ss}}
      BY <1>1, <2>1
    <3> QED BY <3>1 DEF ByAddress
  <2>3. s \in MdnsResponse(at, \A x \in at : x.port = 0).services
    BY <1>1, <2>1 DEF MdnsResponse
  <2> QED BY <2>2, <2>3
<1>2. ASSUME NEW r \in ByAddress(ss), s \in r.services PROVE s \in ss
  BY <1>2 DEF ByAddress, MdnsResponse
<1> QED BY <1>1, <1>2

(* What the scanner handed on.                                               *)
InResponses(s) == \E r \in responses : s \in r.services

(* All that is handled, in two parts: what is usable of what was handed on.  *)
LEMMA HandledIsGathered == \A s : s \in AllHandled <=> Usable(s) /\ InResponses(s)
BY HandledAreUsable DEF AllHandled, InResponses

(* A service of the network is usable if its type was asked for and is       *)
(* known.                                                                    *)
LEMMA OffersAreUsable ==
    ASSUME NEW s \in Offers, s.type \in Range(Services), s.type \in DOMAIN ProtocolOf PROVE Usable(s)
BY OffersAssumption, NoHostAssumption DEF Usable

(* A multicast scan that looks for no identifier hands on what it was told.  *)
LEMMA MulticastTold ==
    ASSUME ScanInv, scanning = "done", scanner = "multicast", NEW s, Usable(s)
    PROVE  /\ InResponses(s) => \E h \in Host : s \in received[h]
           /\ identifier = NoId => (InResponses(s) <=> s \in Told)
<1> USE DEF ScanInv
<1>1. responses = {ToResponse(multi.heard[h]) : h \in DOMAIN multi.heard}
  BY DEF Phases, Gathered
<1>2. InResponses(s) <=> \E h \in DOMAIN multi.heard : s \in multi.heard[h].parser
  <2>1. \A h : s \in ToResponse(multi.heard[h]).services <=> s \in multi.heard[h].parser
    BY ParseKeepsUsable DEF ToResponse, MdnsResponse
  <2> QED BY <1>1, <2>1 DEF InResponses
<1>3. InResponses(s) <=> \E h \in Host : s \in Heard(h).parser
  BY <1>2 DEF MulticastKeeps, Heard
<1>4. s \in Told <=> \E h \in Host : s \in received[h]
  BY DEF Told
<1> QED BY <1>3, <1>4 DEF MulticastKeeps

(* A unicast scan hands on what it was told by the hosts that returned.      *)
LEMMA UnicastTold ==
    ASSUME ScanInv, scanning = "done", scanner = "unicast", NEW s, Usable(s)
    PROVE  /\ InResponses(s) => \E h \in Host : s \in received[h]
           /\ InResponses(s) <=> s \in Told
<1> USE DEF ScanInv
<1>1. /\ responses = {MdnsResponse(Parse(uni[h].parser), FALSE) : h \in Host}
      /\ \A h \in Host : uni[h].pc \in {"returned", "timed out"}
  BY DEF Phases, Gathered, Ended
<1>2. InResponses(s) <=> \E h \in Host : s \in uni[h].parser
  <2>1. \A h : s \in MdnsResponse(Parse(uni[h].parser), FALSE).services <=> s \in uni[h].parser
    BY ParseKeepsUsable DEF MdnsResponse
  <2> QED BY <1>1, <2>1 DEF InResponses
<1>3. s \in Told <=> \E h \in Host : uni[h].pc = "returned" /\ s \in received[h]
  BY DEF Told
<1> QED BY <1>1, <1>2, <1>3 DEF UnicastKeeps

(* A scan that reads the cache hands on what was found there or requested.   *)
LEMMA ZcMulticastTold ==
    ASSUME ScanInv, scanning = "done", scanner = "zc_multicast", NEW s
    PROVE  InResponses(s) <=> s \in Told
<1>1. responses = ByAddress(OfNames(infos, details))
  BY DEF ScanInv, Phases, Gathered
<1> QED BY <1>1, ByAddressKeepsAll DEF InResponses, Told

(* So does one for given hosts, which keeps one service of each type and     *)
(* host: the network has no other.                                           *)
LEMMA ZcUnicastTold ==
    ASSUME ScanInv, scanning = "done", scanner = "zc_unicast", NEW s
    PROVE  InResponses(s) <=> s \in Told
<1> USE DEF ScanInv
<1>1. responses = ByAddress(Matching(byType)) /\ lookup = "over"
  BY DEF Phases, Gathered, Ended
<1>2. InResponses(s) <=> s \in Matching(byType)
  BY <1>1, ByAddressKeepsAll DEF InResponses
<1>3. s \in Told <=> s \in OfNames(infos, details) /\ s.address \in Wanted
  BY DEF Told
<1>4. ASSUME s \in Matching(byType) PROVE s \in Told
  <2>1. PICK h \in Wanted, t \in Range(Services) : s = byType[h][t] /\ s # NoService
    BY <1>4 DEF Matching
  <2> QED BY <1>3, <2>1 DEF ZcKeeps
<1>5. ASSUME s \in Told PROVE s \in Matching(byType)
  <2>1. s \in Offers /\ s.type \in Range(Services) /\ s.address \in Wanted /\ byType[s.address][s.type] = s
    BY <1>1, <1>3, <1>5 DEF ZcKeeps, OfNames, Name, BuildServiceInfoQueries
  <2> QED BY <2>1, NoServiceAssumption DEF Matching
<1> QED BY <1>2, <1>4, <1>5

(* What was told with a port is on the network.                              *)
LEMMA ToldIsOffered ==
    ASSUME ScanInv, NEW s \in Told, s.port # 0 PROVE s \in Offers /\ s.type \in Range(Services)
<1> USE DEF ScanInv
<1>1. CASE scanner \in {"multicast", "unicast"}
  <2>1. PICK h \in Host : s \in received[h]
    BY <1>1 DEF Told
  <2> QED BY <2>1 DEF ReceivedIsTrue, TellsTruth
<1>2. CASE scanner \in {"zc_multicast", "zc_unicast"}
  BY <1>2 DEF Told, ZcKeeps, OfNames, Name, BuildServiceInfoQueries
<1> QED BY <1>1, <1>2 DEF OneScanner

(* Hence what is handled is, whatever was looked for.                        *)
LEMMA HandledIsOffered ==
    ASSUME ScanInv, scanning = "done" PROVE AllHandled \subseteq Offers
<1> SUFFICES ASSUME NEW s \in AllHandled PROVE s \in Offers
  OBVIOUS
<1>1. Usable(s) /\ InResponses(s) /\ s.port # 0
  BY HandledIsGathered DEF Usable
<1>2. CASE scanner \in {"multicast", "unicast"}
  <2>1. PICK h \in Host : s \in received[h]
    BY <1>1, <1>2, MulticastTold, UnicastTold
  <2> QED BY <1>1, <2>1 DEF ScanInv, ReceivedIsTrue, TellsTruth
<1>3. CASE scanner \in {"zc_multicast", "zc_unicast"}
  BY <1>1, <1>3, ZcMulticastTold, ZcUnicastTold, ToldIsOffered
<1> QED BY <1>2, <1>3 DEF ScanInv, OneScanner

(* At an address all is handled that was told of, and nothing else.          *)
LEMMA HandledIsTold ==
    ASSUME ScanInv, scanning = "done", identifier = NoId, NEW a \in Host
    PROVE  ServicesAt(a) = {s \in Told : s.address = a /\ s.port # 0 /\ s.type \in DOMAIN ProtocolOf}
<1>1. ASSUME NEW s, Usable(s) PROVE InResponses(s) <=> s \in Told
  BY <1>1, MulticastTold, UnicastTold, ZcMulticastTold, ZcUnicastTold DEF ScanInv, OneScanner
<1>2. ASSUME NEW s \in Told, s.port # 0, s.type \in DOMAIN ProtocolOf PROVE Usable(s)
  BY <1>2, ToldIsOffered, OffersAreUsable
<1>3. \A s : s \in AllHandled <=> s \in Told /\ s.port # 0 /\ s.type \in DOMAIN ProtocolOf
  BY <1>1, <1>2, HandledIsGathered DEF Usable
<1> QED BY <1>3 DEF ServicesAt
-----------------------------------------------------------------------------
(* The services of one protocol.                                             *)
OfProtocol(ss, p) == {s \in ss : ProtocolOf[s.type] = p}

(* Those that a service may have.                                            *)
Protocols == {"DMAP", "MRP", "AirPlay", "RAOP", "Companion"}

(* A record that announces home sharing.                                     *)
Sharing(s) == s.type \in {"homesharing", "hscp"} /\ "hg" \in s.facts

(* The services that pyatv makes of those at address a.                      *)
ServiceRecord(a) == [protocol : Protocols, id : Host \cup {NoId}, facts : SUBSET STRING,
                     credentials : {NoCredentials, a}, enabled : BOOLEAN, password : BOOLEAN,
                     pairing : {"Unsupported"}]

(* m is what add_service has made of the services ss of a device.            *)
SumsUp(m, ss, a) ==
    /\ m = [p \in DOMAIN m |-> m[p]]
    /\ DOMAIN m = {ProtocolOf[s.type] : s \in ss}
    /\ \A p \in DOMAIN m :
          /\ m[p] \in ServiceRecord(a) /\ m[p].protocol = p
          /\ \A s \in OfProtocol(ss, p) : m[p].id = UniqueId(s)
          /\ m[p].facts = UNION {s.facts : s \in OfProtocol(ss, p)}
          /\ (\E s \in OfProtocol(ss, p) : Sharing(s)) => m[p].credentials = a

(* The protocol of each type.                                                *)
LEMMA ProtocolIs ==
    /\ DOMAIN ProtocolOf = {"homesharing", "touchable", "hscp", "mrp", "airplay", "raop", "companion"}
    /\ ProtocolOf["homesharing"] = "DMAP" /\ ProtocolOf["touchable"] = "DMAP"
    /\ ProtocolOf["hscp"] = "DMAP" /\ ProtocolOf["mrp"] = "MRP" /\ ProtocolOf["airplay"] = "AirPlay"
    /\ ProtocolOf["raop"] = "RAOP" /\ ProtocolOf["companion"] = "Companion"
BY DEF ProtocolOf

(* A handler keeps the identifier and the facts of what was discovered, and  *)
(* the group of home sharing as credentials.                                 *)
LEMMA HandlerIs ==
    ASSUME NEW s \in Offers, s.type \in DOMAIN ProtocolOf
    PROVE  /\ Handler(s) \in ServiceRecord(s.address)
           /\ Handler(s).protocol = ProtocolOf[s.type] /\ Handler(s).id = UniqueId(s)
           /\ Handler(s).facts = s.facts
           /\ Sharing(s) => Handler(s).credentials = s.address
<1>1. s.address \in Host /\ s.device = s.address /\ s.facts \in SUBSET STRING
      /\ UniqueId(s) \in Host \cup {NoId} /\ ProtocolOf[s.type] \in Protocols
  BY OffersAssumption, ProtocolIs DEF UniqueId, Protocols
<1>2. ASSUME NEW c \in {NoCredentials, s.address}, NEW e \in BOOLEAN
      PROVE  /\ MutableService(s, c, e) \in ServiceRecord(s.address)
             /\ MutableService(s, c, e).protocol = ProtocolOf[s.type]
             /\ MutableService(s, c, e).id = UniqueId(s)
             /\ MutableService(s, c, e).facts = s.facts
             /\ MutableService(s, c, e).credentials = c
  <2>1. PICK o \in BOOLEAN, x \in {"Unsupported"} : o = FALSE /\ x = "Unsupported"
    <3>1. FALSE \in BOOLEAN
      BY Zenon
    <3>2. "Unsupported" \in {"Unsupported"}
      OBVIOUS
    <3> QED BY <3>1, <3>2, Zenon
  <2>4. PICK r : r = MutableService(s, c, e)
    OBVIOUS
  <2>3. r = [protocol |-> ProtocolOf[s.type], id |-> UniqueId(s), facts |-> s.facts,
             credentials |-> c, enabled |-> e, password |-> o, pairing |-> x]
    BY ONLY <2>1, <2>4 DEF MutableService
  <2>2. r \in ServiceRecord(s.address)
    BY <1>1, <2>3 DEF ServiceRecord
  <2> QED BY <2>2, <2>3, <2>4
<1>3. \E c \in {NoCredentials, s.address}, e \in BOOLEAN :
         Handler(s) = MutableService(s, c, e) /\ (Sharing(s) => c = s.address)
  <2>1. CASE s.type = "mrp"
    BY <1>1, <2>1 DEF Handler, MrpServiceHandler, Sharing
  <2>2. CASE s.type \in {"companion", "airplay", "raop", "touchable"}
    BY <1>1, <2>2 DEF Handler, CompanionServiceHandler, AirPlayServiceHandler, RaopServiceHandler,
                      DmapServiceHandler, Sharing
  <2>3. CASE s.type \in {"homesharing", "hscp"}
    BY <1>1, <2>3 DEF Handler, HomesharingServiceHandler, HscpServiceHandler, HomeSharing, Sharing
  <2> QED BY <2>1, <2>2, <2>3, ProtocolIs
<1> QED BY <1>2, <1>3

(* add_service, of the first service of a protocol or of another one         *)
(* (merge), in any order: the identifiers agree, the facts add up, and no    *)
(* record without credentials takes away those that another one brought.     *)
LEMMA AddServiceSumsUp ==
    ASSUME NEW a, NEW ss \in SUBSET Offers, NEW m, SumsUp(m, ss, a),
           \A x \in ss : x.address = a /\ x.type \in DOMAIN ProtocolOf,
           NEW s \in Offers, s.address = a, s.type \in DOMAIN ProtocolOf
    PROVE  SumsUp(AddService(m, Handler(s)), ss \cup {s}, a)
<1> DEFINE p == ProtocolOf[s.type]
           all == ss \cup {s}
<1>h. PICK h : h = Handler(s)
  OBVIOUS
<1>1. /\ h \in ServiceRecord(a) /\ h.protocol = p /\ h.id = UniqueId(s) /\ h.facts = s.facts
      /\ Sharing(s) => h.credentials = a
  BY <1>h, HandlerIs
<1>2. \A x \in OfProtocol(ss, p) : UniqueId(x) = UniqueId(s)
  BY OffersAssumption DEF OfProtocol
<1>3. PICK n : n = AddService(m, h)
  OBVIOUS
<1>4. \A q : q # p => OfProtocol(all, q) = OfProtocol(ss, q)
  BY DEF OfProtocol
<1>5. OfProtocol(all, p) = OfProtocol(ss, p) \cup {s}
  BY DEF OfProtocol
<1>6. p \in DOMAIN m <=> OfProtocol(ss, p) # {}
  BY DEF SumsUp, OfProtocol
<1>7. PICK new : new = IF p \in DOMAIN m THEN Merged(m[p], h) ELSE h
  OBVIOUS
<1>8. /\ n = [q \in DOMAIN n |-> n[q]] /\ DOMAIN n = DOMAIN m \cup {p} /\ n[p] = new
      /\ \A q \in DOMAIN m : q # p => n[q] = m[q]
  <2>0. m = [q \in DOMAIN m |-> m[q]]
    BY DEF SumsUp
  <2>1. CASE p \in DOMAIN m
    <3>1. n = [m EXCEPT ![p] = Merged(m[p], h)]
      BY <1>1, <1>3, <2>0, <2>1 DEF AddService
    <3> QED BY <1>7, <2>0, <2>1, <3>1
  <2>2. CASE p \notin DOMAIN m
    <3>1. n = With(m, p, h)
      BY <1>1, <1>3, <2>2 DEF AddService
    <3> QED BY <1>7, <2>2, <3>1 DEF With
  <2> QED BY <2>1, <2>2
<1>9. /\ new \in ServiceRecord(a) /\ new.protocol = p /\ new.id = UniqueId(s)
      /\ new.facts = UNION {x.facts : x \in OfProtocol(all, p)}
      /\ (\E x \in OfProtocol(all, p) : Sharing(x)) => new.credentials = a
  <2>1. CASE p \in DOMAIN m
    <3>0. /\ m[p] \in ServiceRecord(a) /\ m[p].protocol = p
          /\ \A x \in OfProtocol(ss, p) : m[p].id = UniqueId(x)
          /\ m[p].facts = UNION {x.facts : x \in OfProtocol(ss, p)}
          /\ (\E x \in OfProtocol(ss, p) : Sharing(x)) => m[p].credentials = a
      BY <2>1 DEF SumsUp
    <3>1. new = [m[p] EXCEPT !.credentials = IF h.credentials # NoCredentials THEN h.credentials ELSE @,
                             !.facts = @ \cup h.facts]
      BY <1>7, <2>1 DEF Merged
    <3>2. /\ new.protocol = p /\ new.id = m[p].id /\ new.facts = m[p].facts \cup h.facts
          /\ new.credentials = IF h.credentials # NoCredentials THEN h.credentials ELSE m[p].credentials
          /\ new \in ServiceRecord(a)
      BY <1>1, <3>0, <3>1 DEF ServiceRecord
    <3>3. new.id = UniqueId(s)
      BY <1>2, <1>6, <2>1, <3>0, <3>2
    <3>4. new.facts = UNION {x.facts : x \in OfProtocol(all, p)}
      BY <1>1, <1>5, <3>0, <3>2
    <3>5. ASSUME NEW x \in OfProtocol(all, p), Sharing(x) PROVE new.credentials = a
      <4>1. a # NoCredentials
        BY OffersAssumption, NoHostAssumption
      <4>2. h.credentials \in {NoCredentials, a} /\ m[p].credentials \in {NoCredentials, a}
        BY <1>1, <3>0 DEF ServiceRecord
      <4> QED BY <1>1, <1>5, <3>0, <3>2, <3>5, <4>1, <4>2
    <3> QED BY <3>2, <3>3, <3>4, <3>5
  <2>2. CASE p \notin DOMAIN m
    <3>1. OfProtocol(all, p) = {s} /\ new = h
      BY <1>5, <1>6, <1>7, <2>2
    <3> QED BY <1>1, <3>1
  <2> QED BY <2>1, <2>2
<1>10. DOMAIN n = {ProtocolOf[x.type] : x \in all}
  BY <1>8 DEF SumsUp
<1>11. ASSUME NEW q \in DOMAIN n
       PROVE  /\ n[q] \in ServiceRecord(a) /\ n[q].protocol = q
              /\ \A x \in OfProtocol(all, q) : n[q].id = UniqueId(x)
              /\ n[q].facts = UNION {x.facts : x \in OfProtocol(all, q)}
              /\ (\E x \in OfProtocol(all, q) : Sharing(x)) => n[q].credentials = a
  <2>1. CASE q = p
    BY <1>2, <1>5, <1>8, <1>9, <2>1
  <2>2. CASE q # p
    BY <1>4, <1>8, <2>2 DEF SumsUp
  <2> QED BY <2>1, <2>2
<1>12. SumsUp(n, all, a)
  BY <1>8, <1>10, <1>11 DEF SumsUp
<1> QED BY <1>h, <1>3, <1>12
(* Natural numbers: a set of them has a least one.                           *)
Less == {p \in Nat \X Nat : p[1] < p[2]}

(* The order of the naturals goes down to an end.                            *)
LEMMA LessIsWellFounded == IsWellFoundedOn(Less, Nat)
<1>1. Less = OpToRel(<, Nat)
  BY DEF Less, OpToRel
<1> QED
  BY <1>1, NatLessThanWellFounded

(* A set of naturals that is not empty has a least member.                   *)
LEMMA Least ==
    ASSUME NEW T \in SUBSET Nat, T # {}
    PROVE  \E x \in T : \A y \in T : x <= y
<1>1. PICK x \in T : \A y \in T : <<y, x>> \notin Less
  BY LessIsWellFounded, WFMin
<1>2. ASSUME NEW y \in T PROVE x <= y
  <2>1. <<y, x>> \notin Less
    BY <1>1
  <2>2. x \in Nat /\ y \in Nat
    OBVIOUS
  <2>3. ~ (y < x)
    BY <2>1, <2>2 DEF Less
  <2> QED BY <2>2, <2>3
<1> QED BY <1>2

(* So that a set which holds 0 and the successors of its members is Nat.     *)
LEMMA EveryNatural == ASSUME NEW T \in SUBSET Nat, 0 \in T, \A n \in T : n + 1 \in T PROVE T = Nat
<1>1. SUFFICES ASSUME Nat \ T # {} PROVE FALSE
  OBVIOUS
<1>2. PICK x \in Nat \ T : \A y \in Nat \ T : x <= y
  <2>1. Nat \ T \in SUBSET Nat
    OBVIOUS
  <2> QED BY <1>1, <2>1, Least
<1>3. x # 0 /\ x \in Nat
  OBVIOUS
<1>4. x - 1 \in Nat /\ ~(x <= x - 1)
  BY <1>3
<1>5. x - 1 \in T
  BY <1>2, <1>4
<1>6. (x - 1) + 1 = x
  BY <1>3
<1> QED BY <1>5, <1>6


(* added[n] holds the services after the first n of ss.                      *)
Adds(f, ss, N) ==
    f = [n \in 0..N |-> IF n = 0 THEN <<>> ELSE AddService(f[n - 1], Handler(ss[n]))]

(* The recursion is well founded: there is such a function.                  *)
LEMMA AddsExist ==
    ASSUME NEW ss, Len(ss) \in Nat
    PROVE  \E f : Adds(f, ss, Len(ss)) /\ AddAll(ss) = f[Len(ss)]
<1> DEFINE T == {N \in Nat : \E f : Adds(f, ss, N)}
<1>1. 0 \in T
  <2>1. PICK f : f = [n \in 0..0 |-> <<>>]
    OBVIOUS
  <2>2. Adds(f, ss, 0)
    <3>1. 0..0 = {0}
      OBVIOUS
    <3> QED BY <2>1, <3>1 DEF Adds
  <2> QED BY <2>2
<1>2. ASSUME NEW N \in T PROVE N + 1 \in T
  <2>1. N \in Nat /\ N + 1 \in Nat
    OBVIOUS
  <2>2. PICK f : Adds(f, ss, N)
    OBVIOUS
  <2>3. PICK g : g = [n \in 0..(N + 1) |-> IF n <= N THEN f[n] ELSE AddService(f[n - 1], Handler(ss[n]))]
    OBVIOUS
  <2>4. ASSUME NEW n \in 0..(N + 1)
        PROVE  g[n] = IF n = 0 THEN <<>> ELSE AddService(g[n - 1], Handler(ss[n]))
    <3>1. CASE n = 0
      <4>1. n \in 0..N /\ n <= N
        BY <2>1, <3>1
      <4>2. f[n] = <<>>
        BY <2>2, <3>1, <4>1 DEF Adds
      <4> QED BY <2>3, <3>1, <4>1, <4>2
    <3>2. CASE n # 0 /\ n <= N
      <4>1. n \in 0..N /\ n - 1 \in 0..(N + 1) /\ n - 1 <= N
        BY <2>1, <3>2
      <4>2. g[n] = f[n] /\ g[n - 1] = f[n - 1]
        BY <2>3, <3>2, <4>1
      <4>3. f[n] = AddService(f[n - 1], Handler(ss[n]))
        BY <2>2, <3>2, <4>1 DEF Adds
      <4> QED BY <3>2, <4>2, <4>3
    <3>3. CASE n # 0 /\ ~(n <= N)
      <4>1. n - 1 \in 0..(N + 1) /\ n - 1 <= N
        BY <2>1, <3>3
      <4>2. g[n - 1] = f[n - 1]
        BY <2>3, <4>1
      <4>3. g[n] = AddService(f[n - 1], Handler(ss[n]))
        BY <2>3, <3>3
      <4> QED BY <3>3, <4>2, <4>3
    <3> QED BY <3>1, <3>2, <3>3
  <2>5. Adds(g, ss, N + 1)
    <3>1. DOMAIN g = 0..(N + 1) /\ g = [n \in 0..(N + 1) |-> g[n]]
      BY <2>3
    <3> HIDE <2>3
    <3>2. g = [n \in 0..(N + 1) |-> IF n = 0 THEN <<>> ELSE AddService(g[n - 1], Handler(ss[n]))]
      BY ONLY <2>4, <3>1
    <3> QED BY <3>2 DEF Adds
  <2> QED BY <2>1, <2>5
<1>3. PICK f : Adds(f, ss, Len(ss))
  <2>1. T \in SUBSET Nat
    OBVIOUS
  <2> HIDE DEF T
  <2>2. T = Nat
    BY <1>1, <1>2, <2>1, EveryNatural
  <2>3. Len(ss) \in T
    BY <2>2
  <2> USE DEF T
  <2> QED BY <2>3
<1>4. AddAll(ss) = (CHOOSE g : Adds(g, ss, Len(ss)))[Len(ss)]
  BY DEF AddAll, Adds
<1>5. Adds(CHOOSE g : Adds(g, ss, Len(ss)), ss, Len(ss))
  BY <1>3
<1> QED BY <1>4, <1>5

(* In whatever order the services of a device are added, it has all of them. *)
LEMMA AddAllSumsUp ==
    ASSUME NEW a, NEW all \in SUBSET Offers,
           \A x \in all : x.address = a /\ x.type \in DOMAIN ProtocolOf,
           NEW ss \in SetToSeqs(all)
    PROVE  SumsUp(AddAll(ss), all, a)
<1>1. IsFiniteSet(all) /\ Cardinality(all) \in Nat
  BY OffersAssumption, FS_Subset, FS_CardinalityType
<1>2. PICK N \in Nat : N = Cardinality(all)
  BY <1>1
<1>3. ss \in [1..N -> all] /\ \A i, j \in 1..N : i # j => ss[i] # ss[j]
  BY <1>2 DEF SetToSeqs
<1>4. ss \in Seq(all) /\ Len(ss) = N
  BY <1>3
<1>5. PICK f : Adds(f, ss, N) /\ AddAll(ss) = f[N]
  BY <1>4, AddsExist
<1>6. f[0] = <<>> /\ \A n \in 1..N : f[n] = AddService(f[n - 1], Handler(ss[n]))
  <2>1. 0 \in 0..N /\ \A n \in 1..N : n \in 0..N /\ n # 0
    OBVIOUS
  <2> QED BY <1>5, <2>1 DEF Adds
<1> DEFINE First(n) == {ss[i] : i \in 1..n}
           T == {n \in Nat : n <= N => SumsUp(f[n], First(n), a)}
<1>7. 0 \in T
  <2>1. First(0) = {}
    OBVIOUS
  <2>2. SumsUp(<<>>, {}, a)
    BY DEF SumsUp
  <2> QED BY <1>6, <2>1, <2>2
<1>8. ASSUME NEW n \in T PROVE n + 1 \in T
  <2>1. n \in Nat /\ n + 1 \in Nat
    OBVIOUS
  <2> SUFFICES ASSUME n + 1 <= N PROVE SumsUp(f[n + 1], First(n + 1), a)
    BY <2>1
  <2>2. n + 1 \in 1..N /\ (n + 1) - 1 = n
    BY <2>1
  <2>3. SumsUp(f[n], First(n), a)
    BY <2>1
  <2>4. f[n + 1] = AddService(f[n], Handler(ss[n + 1]))
    BY <1>6, <2>2
  <2>5. First(n + 1) = First(n) \cup {ss[n + 1]}
    BY <2>1
  <2>6. First(n) \in SUBSET all /\ ss[n + 1] \in all
    BY <1>3, <2>1, <2>2
  <2> HIDE DEF First
  <2> QED BY <2>3, <2>4, <2>5, <2>6, AddServiceSumsUp
<1>9. SumsUp(f[N], First(N), a)
  <2>1. T \in SUBSET Nat
    OBVIOUS
  <2> HIDE DEF T, First
  <2>2. T = Nat
    BY <1>7, <1>8, <2>1, EveryNatural
  <2> USE DEF T
  <2> QED BY <2>2
<1>10. First(N) = all
  <2>1. ss \in Injection(1..N, all)
    BY <1>3 DEF Injection, IsInjective
  <2>2. IsFiniteSet(1..N) /\ Cardinality(1..N) = N
    BY FS_Interval
  <2>3. ss \in Surjection(1..N, all)
    BY <1>1, <1>2, <2>1, <2>2, FS_Injection
  <2> QED BY <1>3, <2>3 DEF Surjection
<1> QED BY <1>5, <1>9, <1>10
-----------------------------------------------------------------------------
(* service_info of each protocol decides on pairing and password alone:      *)
(* access control beats all else, and home sharing makes pairing optional.   *)
LEMMA ServiceInfoIs ==
    ASSUME NEW a, NEW s \in ServiceRecord(a), NEW services
    PROVE  /\ ServiceInfo(s, services).id = s.id
           /\ ServiceInfo(s, services).credentials = s.credentials
           /\ s.protocol = "DMAP" /\ "hg" \in s.facts => ServiceInfo(s, services).pairing = "Optional"
           /\ s.protocol = "AirPlay" /\ "acl" \in s.facts => ServiceInfo(s, services).pairing = "Disabled"
           /\ s.protocol = "RAOP" /\ "AirPlay" \in DOMAIN services /\ "acl" \in services["AirPlay"].facts
              => ServiceInfo(s, services).pairing = "Disabled"
<1>0. s.protocol \in Protocols
  BY DEF ServiceRecord
<1>1. ASSUME NEW x, NEW y
      PROVE  /\ [s EXCEPT !.pairing = x].id = s.id
             /\ [s EXCEPT !.pairing = x].credentials = s.credentials
             /\ [s EXCEPT !.pairing = x].pairing = x
             /\ [s EXCEPT !.password = y, !.pairing = x].id = s.id
             /\ [s EXCEPT !.password = y, !.pairing = x].credentials = s.credentials
             /\ [s EXCEPT !.password = y, !.pairing = x].pairing = x
  BY DEF ServiceRecord
<1>2. /\ UpdateServiceDetails(s).id = s.id
      /\ UpdateServiceDetails(s).credentials = s.credentials
      /\ "acl" \in s.facts => UpdateServiceDetails(s).pairing = "Disabled"
  <2>1. PICK y : y = IsPasswordRequired(s.facts)
    OBVIOUS
  <2>2. PICK x : x = CASE "acl" \in s.facts -> "Disabled"
                       [] "acl" \notin s.facts /\ "mac" \in s.facts -> "Unsupported"
                       [] OTHER -> GetPairingRequirement(s.facts)
    OBVIOUS
  <2>3. "acl" \in s.facts => x = "Disabled"
    BY <2>2
  <2>4. UpdateServiceDetails(s) = [s EXCEPT !.password = y, !.pairing = x]
    BY <2>1, <2>2 DEF UpdateServiceDetails
  <2> QED BY <1>1, <2>3, <2>4
<1>3. CASE s.protocol \in {"MRP", "Companion", "DMAP"}
  BY <1>1, <1>3 DEF ServiceInfo, MrpServiceInfo, CompanionServiceInfo, DmapServiceInfo
<1>4. CASE s.protocol = "AirPlay"
  BY <1>2, <1>4 DEF ServiceInfo, AirPlayServiceInfo
<1>5. CASE s.protocol = "RAOP"
  <2>1. ServiceInfo(s, services) = RaopServiceInfo(s, services)
    BY <1>5 DEF ServiceInfo
  <2> QED BY <1>1, <1>2, <1>5, <2>1 DEF RaopServiceInfo
<1> QED BY <1>0, <1>3, <1>4, <1>5 DEF Protocols

(* Services of the network that are all of the device at address a.          *)
OnDevice(all, a) ==
    all \subseteq Offers /\ \A x \in all : x.address = a /\ x.type \in DOMAIN ProtocolOf

(* One service for each protocol, with the identifier of all its records.    *)
HasEach(services, all) ==
    /\ DOMAIN services = {ProtocolOf[s.type] : s \in all}
    /\ \A s \in all : services[ProtocolOf[s.type]].id = UniqueId(s)

(* What the records of a device say of access and home sharing is in its     *)
(* services.                                                                 *)
AccessIsRead(services, all) ==
    (\E s \in all : s.type = "airplay" /\ "acl" \in s.facts) =>
        \A p \in {"AirPlay", "RAOP"} \cap DOMAIN services : services[p].pairing = "Disabled"
SharingIsRead(services, all, a) ==
    (\E s \in all : Sharing(s)) =>
        services["DMAP"].pairing = "Optional" /\ services["DMAP"].credentials = a

(* What is true of the services of a device once all were added and          *)
(* service_info has run for each, whatever their order.                      *)
LEMMA ServicesAre ==
    ASSUME NEW a, NEW all, OnDevice(all, a), NEW ss \in SetToSeqs(all)
    PROVE  /\ HasEach(ServicesOf(ss), all)
           /\ AccessIsRead(ServicesOf(ss), all) /\ SharingIsRead(ServicesOf(ss), all, a)
<1>1. PICK m : m = AddAll(ss)
  OBVIOUS
<1>2. SumsUp(m, all, a)
  BY <1>1, AddAllSumsUp DEF OnDevice
<1>3. ServicesOf(ss) = [p \in DOMAIN m |-> ServiceInfo(m[p], m)]
  BY <1>1 DEF ServicesOf
<1>4. /\ DOMAIN m = {ProtocolOf[s.type] : s \in all}
      /\ \A p \in DOMAIN m :
          /\ m[p] \in ServiceRecord(a) /\ m[p].protocol = p
          /\ \A s \in OfProtocol(all, p) : m[p].id = UniqueId(s)
          /\ m[p].facts = UNION {s.facts : s \in OfProtocol(all, p)}
          /\ (\E s \in OfProtocol(all, p) : Sharing(s)) => m[p].credentials = a
  BY <1>2 DEF SumsUp
<1>5. \A s \in all : s \in OfProtocol(all, ProtocolOf[s.type]) /\ ProtocolOf[s.type] \in DOMAIN m
  BY <1>4 DEF OfProtocol
<1>6. ASSUME NEW s \in all PROVE ServicesOf(ss)[ProtocolOf[s.type]].id = UniqueId(s)
  <2>1. PICK p \in DOMAIN m : p = ProtocolOf[s.type]
    BY <1>5
  <2>2. m[p] \in ServiceRecord(a) /\ m[p].id = UniqueId(s)
    BY <1>4, <1>5, <2>1
  <2>3. ServiceInfo(m[p], m).id = m[p].id
    BY <2>2, ServiceInfoIs
  <2> QED BY <1>3, <2>1, <2>2, <2>3
<1>7. ASSUME NEW s \in all, s.type = "airplay", "acl" \in s.facts,
             NEW p \in {"AirPlay", "RAOP"} \cap DOMAIN ServicesOf(ss)
      PROVE  ServicesOf(ss)[p].pairing = "Disabled"
  <2>1. ProtocolOf[s.type] = "AirPlay"
    BY <1>7, ProtocolIs
  <2>2. "AirPlay" \in DOMAIN m /\ "acl" \in m["AirPlay"].facts /\ p \in DOMAIN m
    BY <1>3, <1>4, <1>5, <1>7, <2>1
  <2>3. m[p] \in ServiceRecord(a) /\ m[p].protocol = p /\ p \in {"AirPlay", "RAOP"}
    BY <1>4, <1>7, <2>2
  <2>4. CASE p = "AirPlay"
    <3>1. m[p].protocol = "AirPlay" /\ "acl" \in m[p].facts
      BY <2>2, <2>3, <2>4
    <3>2. ServiceInfo(m[p], m).pairing = "Disabled"
      BY <2>3, <3>1, ServiceInfoIs
    <3> QED BY <1>3, <2>2, <3>2
  <2>5. CASE p = "RAOP"
    <3>1. m[p].protocol = "RAOP"
      BY <2>3, <2>5
    <3>2. ServiceInfo(m[p], m).pairing = "Disabled"
      BY <2>2, <2>3, <3>1, ServiceInfoIs
    <3> QED BY <1>3, <2>2, <3>2
  <2> QED BY <2>3, <2>4, <2>5
<1>8. ASSUME NEW s \in all, Sharing(s)
      PROVE  ServicesOf(ss)["DMAP"].pairing = "Optional" /\ ServicesOf(ss)["DMAP"].credentials = a
  <2>1. ProtocolOf[s.type] = "DMAP" /\ "hg" \in s.facts
    BY <1>8, ProtocolIs DEF Sharing
  <2>2. "DMAP" \in DOMAIN m /\ "hg" \in m["DMAP"].facts /\ m["DMAP"].credentials = a
    BY <1>4, <1>5, <1>8, <2>1
  <2> QED BY <1>3, <1>4, <2>2, ServiceInfoIs
<1>9. DOMAIN ServicesOf(ss) = DOMAIN m
  BY <1>3
<1>10. AccessIsRead(ServicesOf(ss), all)
  BY <1>7 DEF AccessIsRead
<1>11. SharingIsRead(ServicesOf(ss), all, a)
  BY <1>8 DEF SharingIsRead
<1>12. HasEach(ServicesOf(ss), all)
  BY <1>4, <1>6, <1>9 DEF HasEach
<1> QED BY <1>10, <1>11, <1>12

(* What discover() and scan() make of the services at an address.            *)
LEMMA FoundIs ==
    ASSUME ScanInv, scanning = "done"
    PROVE  /\ DOMAIN found \subseteq AddressesFound
           /\ \A a \in AddressesFound : \E ss \in SetToSeqs(ServicesAt(a)), r \in responses :
                 /\ \E s \in Handled(r) : s.address = a
                 /\ a \in DOMAIN found =>
                       found[a].services = ServicesOf(ss) /\ found[a].deep_sleep = r.deepSleep
                 /\ a \in DOMAIN found <=>
                       /\ AllIdentifiers(ServicesOf(ss)) # {}
                       /\ identifier # NoId => identifier \in AllIdentifiers(ServicesOf(ss))
<1>1. PICK cs : /\ \A a \in AddressesFound : cs[a] \in ConfigsOf(a)
                /\ found = [a \in {x \in AddressesFound : ShouldInclude(cs[x])} |-> cs[a]]
  BY DEF ScanInv, FoundIsHandled
<1>2. DOMAIN found \subseteq AddressesFound
  BY <1>1
<1>3. ASSUME NEW a \in AddressesFound
      PROVE  \E ss \in SetToSeqs(ServicesAt(a)), r \in responses :
                 /\ \E s \in Handled(r) : s.address = a
                 /\ a \in DOMAIN found =>
                       found[a].services = ServicesOf(ss) /\ found[a].deep_sleep = r.deepSleep
                 /\ a \in DOMAIN found <=>
                       /\ AllIdentifiers(ServicesOf(ss)) # {}
                       /\ identifier # NoId => identifier \in AllIdentifiers(ServicesOf(ss))
  <2>1. PICK r \in responses, ss \in SetToSeqs(ServicesAt(a)) :
            /\ \E m \in Models(r) : cs[a] = Config(ss, r, m)
            /\ \E s \in Handled(r) : s.address = a
    BY <1>1 DEF ConfigsOf
  <2>2. cs[a].services = ServicesOf(ss) /\ cs[a].deep_sleep = r.deepSleep
    BY <2>1 DEF Config
  <2>3. ShouldInclude(cs[a]) <=>
           /\ AllIdentifiers(ServicesOf(ss)) # {}
           /\ identifier # NoId => identifier \in AllIdentifiers(ServicesOf(ss))
    BY <2>2 DEF ShouldInclude, Ready
  <2> QED BY <1>1, <2>1, <2>2, <2>3
<1> QED BY <1>2, <1>3

(* What is handled at an address is of one device.                           *)
LEMMA AtAddress ==
    ASSUME ScanInv, scanning = "done", NEW a
    PROVE  /\ OnDevice(ServicesAt(a), a)
           /\ a \in AddressesFound <=> ServicesAt(a) # {}
           /\ a \in AddressesFound => a \in Host
<1>1. AllHandled \subseteq Offers
  BY HandledIsOffered
<1>2. \A x \in AllHandled : x.type \in DOMAIN ProtocolOf
  BY HandledIsGathered DEF Usable
<1>3. \A x \in AllHandled : x.address \in Host
  BY <1>1, OffersAssumption
<1> QED BY <1>1, <1>2, <1>3 DEF ServicesAt, AddressesFound, OnDevice

(* A response says that a device sleeps only if all it heard from that host  *)
(* were names, which takes a proxy that speaks for a sleeper: the device is  *)
(* one of those or is that proxy.                                            *)
LEMMA SleepIsSleep ==
    ASSUME ScanInv, scanning = "done", NEW r \in responses, r.deepSleep,
           NEW s \in Handled(r)
    PROVE  s.address \in asleep \/ Sleepers(s.address) # {}
<1> USE DEF ScanInv
<1>0. Usable(s) /\ s \in r.services /\ s.port # 0
  BY HandledAreUsable DEF Usable
<1>1. CASE scanner = "multicast"
  <2>1. PICK h \in DOMAIN multi.heard : r = ToResponse(multi.heard[h])
    BY <1>1 DEF Phases, Gathered
  <2>2. h \in Host /\ Heard(h) = multi.heard[h]
    BY <1>1 DEF MulticastKeeps, Heard
  <2>3. Heard(h).deepSleep /\ s \in Heard(h).parser
    BY <1>0, <2>1, <2>2, ParseKeepsUsable DEF ToResponse, MdnsResponse
  <2>4. Sleepers(h) # {} /\ s \in received[h]
    BY <1>1, <2>2, <2>3 DEF MulticastKeeps
  <2>5. s \in Offers /\ (s.device = h \/ s.device \in asleep)
    BY <1>0, <1>1, <2>2, <2>4 DEF ReceivedIsTrue, TellsTruth
  <2>6. s.address = s.device
    BY <2>5, OffersAssumption
  <2> QED BY <2>4, <2>5, <2>6
<1>2. CASE scanner = "unicast"
  <2>1. PICK h \in Host : r = MdnsResponse(Parse(uni[h].parser), FALSE)
    BY <1>2 DEF Phases, Gathered
  <2>2. r.deepSleep = FALSE
    BY <2>1 DEF MdnsResponse
  <2> QED BY <2>2
<1>3. CASE scanner \in {"zc_multicast", "zc_unicast"}
  <2>1. PICK ss : responses = ByAddress(ss)
    BY <1>3 DEF Phases, Gathered
  <2>2. PICK at : r = MdnsResponse(at, \A x \in at : x.port = 0)
    BY <2>1 DEF ByAddress
  <2>3. s \in at /\ \A x \in at : x.port = 0
    BY <1>0, <2>2 DEF MdnsResponse
  <2> QED BY <1>0, <2>3
<1> QED BY <1>1, <1>2, <1>3 DEF OneScanner

(* A scan for no identifier reports a device for each address it was told    *)
(* of, with exactly the protocols it was told of there, whichever scanner    *)
(* it was and in whatever order, number and parts the answers came; a        *)
(* device none of whose services has an identifier is left out (scan() of    *)
(* pyatv/__init__.py, BaseConfig.ready).                                     *)
THEOREM EverythingIsReported == ScannersSpec => []EverythingHeardIsReported
<1>1. ASSUME ScanInv PROVE EverythingHeardIsReported
  <2> SUFFICES ASSUME scanning = "done", identifier = NoId, NEW a \in Host
               PROVE  IF \E s \in ServicesAt(a) : UniqueId(s) # NoId
                      THEN a \in DOMAIN found
                           /\ DOMAIN found[a].services = {ProtocolOf[s.type] : s \in ServicesAt(a)}
                      ELSE a \notin DOMAIN found
    BY <1>1, HandledIsTold DEF EverythingHeardIsReported
  <2>1. CASE a \notin AddressesFound
    BY <1>1, <2>1, AtAddress, FoundIs
  <2>2. CASE a \in AddressesFound
    <3>1. PICK ss \in SetToSeqs(ServicesAt(a)) :
              /\ a \in DOMAIN found => found[a].services = ServicesOf(ss)
              /\ a \in DOMAIN found <=> AllIdentifiers(ServicesOf(ss)) # {}
      BY <1>1, <2>2, FoundIs
    <3>2. /\ DOMAIN ServicesOf(ss) = {ProtocolOf[s.type] : s \in ServicesAt(a)}
          /\ \A s \in ServicesAt(a) : ServicesOf(ss)[ProtocolOf[s.type]].id = UniqueId(s)
      <4>1. OnDevice(ServicesAt(a), a)
        BY <1>1, AtAddress
      <4>2. HasEach(ServicesOf(ss), ServicesAt(a))
        BY <4>1, ServicesAre
      <4> QED BY <4>2 DEF HasEach
    <3>3. AllIdentifiers(ServicesOf(ss)) # {} <=> \E s \in ServicesAt(a) : UniqueId(s) # NoId
      BY <3>2 DEF AllIdentifiers
    <3> QED BY <3>1, <3>2, <3>3
  <2> QED BY <2>1, <2>2
<1> QED BY <1>1, ScannersInvariance, PTL

(* The access control that the AirPlay record of a device states holds for   *)
(* RAOP too, the home sharing that one of its DMAP records announces gives   *)
(* the service its credentials, whichever came first; and no device that is  *)
(* awake and speaks for none is reported to sleep (service_info of the       *)
(* protocols, BaseService.merge, BaseScanner.discover).                      *)
THEOREM RecordsAreAlwaysRead == ScannersSpec => []RecordsAreRead
<1>1. ASSUME ScanInv PROVE RecordsAreRead
  <2> DEFINE facts(a, types) == UNION {s.facts : s \in {x \in ServicesAt(a) : x.type \in types}}
  <2> SUFFICES ASSUME scanning = "done", NEW a \in DOMAIN found
               PROVE  /\ "acl" \in facts(a, {"airplay"}) =>
                          \A p \in {"AirPlay", "RAOP"} \cap DOMAIN found[a].services :
                             found[a].services[p].pairing = "Disabled"
                      /\ "hg" \in facts(a, {"homesharing", "hscp"}) =>
                          found[a].services["DMAP"].pairing = "Optional"
                          /\ found[a].services["DMAP"].credentials = a
                      /\ found[a].deep_sleep => a \in asleep \/ Sleepers(a) # {}
    BY DEF RecordsAreRead
  <2>1. a \in AddressesFound
    BY <1>1, FoundIs
  <2>2. PICK ss \in SetToSeqs(ServicesAt(a)), r \in responses :
            /\ \E s \in Handled(r) : s.address = a
            /\ found[a].services = ServicesOf(ss) /\ found[a].deep_sleep = r.deepSleep
    BY <1>1, <2>1, FoundIs
  <2>3. AccessIsRead(ServicesOf(ss), ServicesAt(a)) /\ SharingIsRead(ServicesOf(ss), ServicesAt(a), a)
    <3>1. OnDevice(ServicesAt(a), a)
      BY <1>1, AtAddress
    <3> QED BY <3>1, ServicesAre
  <2>4. "acl" \in facts(a, {"airplay"}) => \E s \in ServicesAt(a) : s.type = "airplay" /\ "acl" \in s.facts
    OBVIOUS
  <2>5. "hg" \in facts(a, {"homesharing", "hscp"}) => \E s \in ServicesAt(a) : Sharing(s)
    BY DEF Sharing
  <2>6. found[a].deep_sleep => a \in asleep \/ Sleepers(a) # {}
    BY <1>1, <2>2, SleepIsSleep
  <2> HIDE DEF facts
  <2> QED BY <2>2, <2>3, <2>4, <2>5, <2>6 DEF AccessIsRead, SharingIsRead
<1> QED BY <1>1, ScannersInvariance, PTL
=============================================================================

---------------------------- MODULE RequestReply ----------------------------
(***************************************************************************)
(* What every request/response layer of pyatv promises its callers, with   *)
(* no queue, identifier or timer in sight: a call that was made ends at     *)
(* most once, either with the peer's reply to that very call or with an     *)
(* exception, and a reply cannot be returned before the peer has sent it.   *)
(* RtspSession and MrpProtocol are shown to implement this module.          *)
(***************************************************************************)
CONSTANT Call

VARIABLES
    status,   \* what the caller of each call sees
    replied,  \* the calls the peer has replied to
    got       \* got[c]: the calls whose reply c was given (at most one)

vars == <<status, replied, got>>

Status == {"idle", "asked", "answered", "failed"}

TypeOK ==
    /\ status \in [Call -> Status]
    /\ replied \subseteq Call
    /\ got \in [Call -> SUBSET Call]

Init ==
    /\ status = [c \in Call |-> "idle"]
    /\ replied = {}
    /\ got = [c \in Call |-> {}]

Ask(c) ==
    /\ status[c] = "idle"
    /\ status' = [status EXCEPT ![c] = "asked"]
    /\ UNCHANGED <<replied, got>>

PeerReplies(c) ==
    /\ status[c] # "idle"
    /\ replied' = replied \cup {c}
    /\ UNCHANGED <<status, got>>

Return(c) ==
    /\ status[c] = "asked"
    /\ c \in replied
    /\ status' = [status EXCEPT ![c] = "answered"]
    /\ got' = [got EXCEPT ![c] = {c}]
    /\ UNCHANGED replied

(* An exception may also reach the caller within the step that asked.       *)
Fail(c) ==
    /\ status[c] \in {"idle", "asked"}
    /\ status' = [status EXCEPT ![c] = "failed"]
    /\ UNCHANGED <<replied, got>>

Next == \E c \in Call : Ask(c) \/ PeerReplies(c) \/ Return(c) \/ Fail(c)

Spec == Init /\ [][Next]_vars
=============================================================================

--------------------------- MODULE Companion_proofs ---------------------------
(***************************************************************************)
(* Theorems about Companion and CompanionControls, for any tasks of the user *)
(* and any bound on the requests, any callers, volumes and bound on the calls. *)
(*                                                                         *)
(* A task has as many steps left as its phase says, one task at a time       *)
(* connects, and what is registered, on its way or shared was sent before,  *)
(* under an identifier no other request has: so the answer that wakes a     *)
(* task is the one to its request.                                          *)
(*                                                                         *)
(* Of the controls: what was said last of each thing is in the queue that   *)
(* is farthest from who will know it, or in the next, or known already; and  *)
(* each key that is down has a call that will release it.                   *)
(***************************************************************************)
EXTENDS CompanionControls, FiniteSetTheorems, SequenceTheorems, WellFoundedInduction, TLAPS

(* A task that is about to connect, or is connecting.                       *)
Opens(t) == \E k \in DOMAIN todo[t] : todo[t][k] \in {"start", "verify"}

(* Tasks: who runs has a step to do, and who waits waits for that step.     *)
TasksAreBusy ==
    \A t \in Task :
        /\ phase[t] = "running" <=> todo[t] # <<>>
        /\ wait[t] # NoCall => phase[t] = "running"
        /\ wait[t] \in Instance \X {0} => todo[t][1] = "start" /\ wait[t][1] = current
        /\ wait[t] \in Call => todo[t][1] \in Exchanges
        /\ \A k \in DOMAIN todo[t] : todo[t][k] = "start" => k = 1 /\ Len(todo[t]) > 1

(* The first instance is used until disconnect() is done.                   *)
OrderOfInstances ==
    /\ phase["closer"] # "raised"
    /\ phase["closer"] # "idle" => phase["setup"] = "returned"
    /\ IF phase["closer"] = "returned" THEN current \in {0, 2} /\ link[1] = "down" ELSE current = 1
    /\ link[1] = "up" => current = 1
    /\ link[2] # "none" => current = 2
    /\ xid[2] > 0 => current = 2
    /\ phase["setup"] = "returned" => link[1] # "none"
    /\ phase["setup"] = "running" => todo["setup"][1] = "start" \/ link[1] # "none"
    /\ \A i \in Instance : queues[i] # {} => i = current

(* One task at a time connects.                                             *)
OneOpens ==
    /\ \A t \in Task : Opens(t) => \/ current = 2
                                   \/ t = "setup" /\ current = 1 /\ phase["closer"] = "idle"
    /\ \A t, u \in Task : Opens(t) /\ Opens(u) => t = u

(* What is under way was sent.                                              *)
Issued(call) == call \in Call /\ call[2] <= xid[call[1]]
OnlyIssued ==
    /\ \A call \in open \cup auth : Issued(call)
    /\ \A i \in Instance : \A e \in queues[i] : Issued(<<i, e[2]>>)
    /\ \A s \in shared : Issued(s[1]) /\ Issued(s[2])
    /\ \A t \in Task : wait[t] \in Call => Issued(wait[t])

(* Who waits under which identifier, and for which answer.                  *)
Registered ==
    \A i \in Instance : \A e \in queues[i] : e[1] = Identifier(<<i, e[2]>>, auth)
AuthInTurn ==
    /\ \A t \in Task : wait[t] \in auth => todo[t][1] = "verify" /\ wait[t][1] = current
    /\ \A t \in Task : Opens(t) => \A call \in open \cap auth : call[1] = current => wait[t] = call
Answered == \A s \in shared : s[1] = s[2] /\ s[2] \notin open

Inv == /\ TypeOK /\ TasksAreBusy /\ OrderOfInstances /\ OneOpens
       /\ OnlyIssued /\ Registered /\ AuthInTurn /\ Answered

-----------------------------------------------------------------------------
(* Head and tail of the steps a task has left.                              *)
LEMMA Steps ==
    ASSUME NEW s \in Seq(Step), s # <<>>
    PROVE  /\ Len(s) \in Nat \ {0} /\ DOMAIN s = 1..Len(s) /\ Head(s) = s[1] /\ s[1] \in Step
           /\ Tail(s) \in Seq(Step) /\ Len(Tail(s)) = Len(s) - 1
           /\ \A k \in 1..(Len(s) - 1) : Tail(s)[k] = s[k + 1]
           /\ Len(s) > 1 => Tail(s) # <<>>
OBVIOUS

(* A sequence of steps followed by another one.                             *)
LEMMA AndThen ==
    ASSUME NEW s \in Seq(Step), NEW r \in Seq(Step)
    PROVE  /\ s \o r \in Seq(Step) /\ Len(s \o r) = Len(s) + Len(r)
           /\ \A k \in 1..(Len(s) + Len(r)) : (s \o r)[k] = IF k <= Len(s) THEN s[k] ELSE r[k - Len(s)]
BY ConcatProperties, Zenon

(* What connect() does begins with the connection and makes only one.       *)
LEMMA ConnectingIs ==
    /\ Connecting \in Seq(Step) /\ Len(Connecting) = 6 /\ Connecting[1] = "start"
    /\ \A k \in 2..6 : Connecting[k] # "start"
<1> DEFINE s == <<"start", "verify", "verify">>
           c == <<"command">>
           o == <<"optional", "_iMC">>
<1>1. s \in Seq(Step) /\ c \in Seq(Step) /\ o \in Seq(Step)
  BY DEF Step, Event
<1>2. Len(s) = 3 /\ Len(c) = 1 /\ Len(o) = 2 /\ s[1] = "start" /\ s[2] # "start" /\ s[3] # "start"
      /\ c[1] # "start" /\ o[1] # "start" /\ o[2] # "start"
  OBVIOUS
<1>3. Connecting = (s \o c) \o o
  BY DEF Connecting, SessionStart, s, c, o
<1> HIDE DEF s, c, o
<1> DEFINE sc == s \o c
<1>4. sc \in Seq(Step) /\ Len(sc) = 4 /\ \A k \in 1..4 : sc[k] = IF k <= 3 THEN s[k] ELSE c[k - 3]
  <2>1. sc \in Seq(Step) /\ Len(sc) = Len(s) + Len(c)
        /\ \A k \in 1..(Len(s) + Len(c)) : sc[k] = IF k <= Len(s) THEN s[k] ELSE c[k - Len(s)]
    BY <1>1, AndThen, Zenon
  <2> HIDE DEF sc
  <2> QED BY <2>1, <1>2
<1> HIDE DEF sc
<1> DEFINE all == sc \o o
<1>5. all \in Seq(Step) /\ Len(all) = 6 /\ \A k \in 1..6 : all[k] = IF k <= 4 THEN sc[k] ELSE o[k - 4]
  <2>1. all \in Seq(Step) /\ Len(all) = Len(sc) + Len(o)
        /\ \A k \in 1..(Len(sc) + Len(o)) : all[k] = IF k <= Len(sc) THEN sc[k] ELSE o[k - Len(sc)]
    BY <1>1, <1>4, AndThen, Zenon
  <2> HIDE DEF all
  <2> QED BY <2>1, <1>2, <1>4
<1>6. Connecting = all
  BY <1>3 DEF all, sc
<1> HIDE DEF all
<1> QED BY <1>2, <1>4, <1>5, <1>6

(* As a task that connects on demand goes on with what it had to do.        *)
LEMMA ConnectingAndThen ==
    ASSUME NEW s \in Seq(Step), \A k \in DOMAIN s : s[k] # "start"
    PROVE  /\ Connecting \o s \in Seq(Step) /\ Connecting \o s # <<>> /\ Len(Connecting \o s) > 1
           /\ (Connecting \o s)[1] = "start"
           /\ \A k \in DOMAIN (Connecting \o s) : (Connecting \o s)[k] = "start" => k = 1
<1> DEFINE c == Connecting
           all == c \o s
<1>1. c \in Seq(Step) /\ Len(c) = 6 /\ c[1] = "start" /\ \A k \in 2..6 : c[k] # "start"
  BY ConnectingIs
<1> HIDE DEF c
<1>2. all \in Seq(Step) /\ Len(all) = Len(c) + Len(s)
      /\ \A k \in 1..(Len(c) + Len(s)) : all[k] = IF k <= Len(c) THEN c[k] ELSE s[k - Len(c)]
  BY <1>1, AndThen, Zenon
<1> HIDE DEF all
<1>3. /\ all \in Seq(Step) /\ all # <<>> /\ Len(all) > 1 /\ all[1] = "start"
      /\ \A k \in DOMAIN all : all[k] = "start" => k = 1
  BY <1>1, <1>2
<1> QED BY <1>3 DEF all, c

(* What PowerInitialize adds to a first connection.                         *)
LEMMA PowerInitializeIs ==
    PowerInitialize \in Seq(Step) /\ \A k \in DOMAIN PowerInitialize : PowerInitialize[k] # "start"
<1> DEFINE f == <<"optional">>
           e == <<"SystemStatus", "TVSystemStatus">>
           all == f \o e
<1>1. f \in Seq(Step) /\ e \in Seq(Step)
  BY DEF Step, Event
<1>2. Len(f) = 1 /\ Len(e) = 2 /\ f[1] # "start" /\ e[1] # "start" /\ e[2] # "start"
  OBVIOUS
<1>3. PowerInitialize = all
  BY DEF PowerInitialize, FetchAttentionState
<1> HIDE DEF f, e
<1>4. all \in Seq(Step) /\ Len(all) = Len(f) + Len(e)
      /\ \A k \in 1..(Len(f) + Len(e)) : all[k] = IF k <= Len(f) THEN f[k] ELSE e[k - Len(f)]
  BY <1>1, AndThen, Zenon
<1> HIDE DEF all
<1> QED BY <1>2, <1>3, <1>4

-----------------------------------------------------------------------------
(* The invariant holds at first, whether a connection is made or not.       *)
LEMMA InitInv == ASSUME NEW running \in {{}, {"setup"}}, Starting(running) PROVE Inv
<1> DEFINE first == Connecting \o PowerInitialize
<1>0. "setup" \in Task /\ "closer" \in Task
  BY DEF Task
<1>1. /\ first \in Seq(Step) /\ first # <<>> /\ first[1] = "start" /\ Len(first) > 1
      /\ \A k \in DOMAIN first : first[k] = "start" => k = 1
  BY PowerInitializeIs, ConnectingAndThen, Zenon
<1>2. /\ todo = [t \in Task |-> IF t \in running THEN first ELSE <<>>]
      /\ phase = [t \in Task |-> IF t \in running THEN "running" ELSE "idle"]
      /\ wait = [t \in Task |-> NoCall]
  BY DEF Starting
<1> HIDE DEF first
<1>3. todo \in [Task -> Seq(Step)]
  BY <1>1, <1>2
<1>4. TypeOK
  <2>1. subscribed \in Seq(Event) /\ IsInjective(subscribed)
    BY DEF Starting, IsInjective
  <2>2. wait \in [Task -> Call \cup {<<i, 0>> : i \in Instance} \cup {NoCall}]
    BY <1>2
  <2> QED BY <1>2, <1>3, <2>1, <2>2, BoundAssumption DEF TypeOK, Starting, Instance
<1>5. NoCall \notin Call /\ NoCall \notin Instance \X {0}
  BY DEF NoCall, Call, Instance
<1>6. TasksAreBusy
  <2> SUFFICES ASSUME NEW t \in Task
               PROVE  /\ phase[t] = "running" <=> todo[t] # <<>>
                      /\ wait[t] = NoCall
                      /\ \A k \in DOMAIN todo[t] : todo[t][k] = "start" => k = 1 /\ Len(todo[t]) > 1
    BY <1>5 DEF TasksAreBusy
  <2>1. CASE t \in running
    BY <2>1, <1>1, <1>2
  <2>2. CASE t \notin running
    <3>1. todo[t] = <<>> /\ phase[t] = "idle"
      BY <2>2, <1>2
    <3> QED BY <3>1, <1>2
  <2> QED BY <2>1, <2>2
<1>7. OrderOfInstances
  BY <1>0, <1>1, <1>2 DEF OrderOfInstances, Starting, Instance
<1>8. OneOpens
  <2>1. \A t \in Task : Opens(t) => t = "setup"
    BY <1>2 DEF Opens
  <2> QED BY <2>1, <1>0, <1>2 DEF OneOpens, Starting
<1>9. OnlyIssued /\ Registered /\ AuthInTurn /\ Answered
  BY <1>2, <1>5 DEF OnlyIssued, Registered, AuthInTurn, Answered, Starting
<1> QED BY <1>4, <1>6, <1>7, <1>8, <1>9 DEF Inv

-----------------------------------------------------------------------------
(* What the end of a step does to the tasks and the connections: the task    *)
(* goes on, or it is over, or it is disconnect() that is over.              *)
GoesOn(t) ==
    /\ Len(todo[t]) > 1 /\ todo[t][1] # "start"
    /\ todo' = [todo EXCEPT ![t] = Tail(@)]
    /\ UNCHANGED <<phase, current, link, queues, open>>
IsOver(t) ==
    /\ t # "closer"
    /\ \E how \in {"returned", "raised"} :
          /\ phase' = [phase EXCEPT ![t] = how]
          /\ how = "returned" => todo[t][1] # "start"
    /\ todo' = [todo EXCEPT ![t] = <<>>]
    /\ UNCHANGED <<current, link, queues, open>>
Closes(t) ==
    /\ t = "closer"
    /\ phase' = [phase EXCEPT ![t] = "returned"]
    /\ todo' = [todo EXCEPT ![t] = <<>>]
    /\ Stop(current)

(* Every step ends so; one of authentication that raised ends its task.     *)
LEMMA EndOfStep ==
    ASSUME NEW t \in Task, TypeOK, todo[t] # <<>>
    PROVE  /\ Continues(t) /\ todo[t][1] # "start" => GoesOn(t) \/ IsOver(t) \/ Closes(t)
           /\ Raises(t) => GoesOn(t) \/ IsOver(t) \/ Closes(t)
           /\ Raises(t) /\ todo[t][1] = "verify" => IsOver(t) \/ Closes(t)
<1>1. todo[t] \in Seq(Step)
  BY DEF TypeOK
<1>2. Len(todo[t]) \in Nat \ {0} /\ Head(todo[t]) = todo[t][1]
  BY <1>1, Steps
<1>7. Len(todo[t]) = 1 \/ Len(todo[t]) > 1
  <2> DEFINE n == Len(todo[t])
  <2>1. n \in Nat \ {0}
    BY <1>2
  <2> HIDE DEF n
  <2>2. n = 1 \/ n > 1
    BY <2>1
  <2> QED BY <2>2 DEF n
<1>3. ASSUME NEW how \in {"returned", "raised"}, Ends(t, how), how = "returned" => todo[t][1] # "start"
      PROVE  IsOver(t) \/ Closes(t)
  BY <1>3 DEF Ends, IsOver, Closes
<1>4. ASSUME Continues(t), todo[t][1] # "start"
      PROVE  GoesOn(t) \/ IsOver(t) \/ Closes(t)
  <2>1. CASE Len(todo[t]) = 1
    <3>1. Ends(t, "returned")
      BY <1>4, <2>1 DEF Continues
    <3> QED BY <3>1, <1>3, <1>4
  <2>2. CASE Len(todo[t]) # 1
    <3>1. Len(todo[t]) > 1
      BY <2>2, <1>7
    <3>2. todo' = [todo EXCEPT ![t] = Tail(@)] /\ UNCHANGED <<phase, current, link, queues, open>>
      BY <1>4, <2>2 DEF Continues
    <3> QED BY <3>1, <3>2, <1>4 DEF GoesOn
  <2> QED BY <2>1, <2>2
<1>5. Raises(t) /\ todo[t][1] # "optional" => IsOver(t) \/ Closes(t)
  BY <1>2, <1>3 DEF Raises
<1>6. Raises(t) /\ todo[t][1] = "optional" => Continues(t)
  BY <1>2 DEF Raises
<1> QED BY <1>4, <1>5, <1>6

(* Who has a step to connect is alone, and not beside disconnect().         *)
LEMMA WhileClosing ==
    ASSUME Inv, phase["closer"] = "running"
    PROVE  current = 1 /\ \A t \in Task : ~ Opens(t)
<1>1. current = 1
  BY DEF Inv, OrderOfInstances
<1> QED BY <1>1 DEF Inv, OneOpens

(* A task at a step of a connection has one to connect.                     *)
LEMMA AtItsHead ==
    ASSUME NEW t \in Task, TypeOK, todo[t] # <<>>, todo[t][1] \in {"start", "verify"}
    PROVE  Opens(t)
BY Steps DEF TypeOK, Opens

(* Only the task itself gains or loses steps to connect.                    *)
LEMMA MovesOpen ==
    ASSUME NEW t \in Task, TypeOK, todo[t] # <<>>, GoesOn(t) \/ IsOver(t) \/ Closes(t)
    PROVE  /\ todo' \in [Task -> Seq(Step)]
           /\ \A u \in Task \ {t} : todo'[u] = todo[u]
           /\ \A u \in Task : Opens(u)' => Opens(u)
           /\ Opens(t)' => GoesOn(t)
<1>1. todo \in [Task -> Seq(Step)]
  BY DEF TypeOK
<1>2. CASE GoesOn(t)
  <2>1. todo'[t] = Tail(todo[t]) /\ \A u \in Task \ {t} : todo'[u] = todo[u]
    BY <1>1, <1>2 DEF GoesOn
  <2>2. Tail(todo[t]) \in Seq(Step) /\ \A k \in DOMAIN Tail(todo[t]) : k + 1 \in DOMAIN todo[t] /\ Tail(todo[t])[k] = todo[t][k + 1]
    BY <1>1, Steps
  <2>3. todo' \in [Task -> Seq(Step)]
    BY <1>1, <1>2, <2>2 DEF GoesOn
  <2>4. \A u \in Task : Opens(u)' => Opens(u)
    <3> SUFFICES ASSUME NEW u \in Task, Opens(u)' PROVE Opens(u)
      OBVIOUS
    <3>1. CASE u = t
      <4>1. PICK k \in DOMAIN Tail(todo[t]) : Tail(todo[t])[k] \in {"start", "verify"}
        BY <3>1, <2>1 DEF Opens
      <4> QED BY <4>1, <3>1, <2>2 DEF Opens
    <3>2. CASE u # t
      BY <3>2, <2>1 DEF Opens
    <3> QED BY <3>1, <3>2
  <2> QED BY <1>2, <2>1, <2>3, <2>4
<1>3. CASE IsOver(t) \/ Closes(t)
  <2>1. todo'[t] = <<>> /\ \A u \in Task \ {t} : todo'[u] = todo[u]
    BY <1>1, <1>3 DEF IsOver, Closes
  <2>2. todo' \in [Task -> Seq(Step)]
    <3>1. <<>> \in Seq(Step)
      OBVIOUS
    <3>2. todo' = [todo EXCEPT ![t] = <<>>]
      BY <1>3 DEF IsOver, Closes
    <3> HIDE <1>3
    <3> QED BY <3>1, <3>2, <1>1
  <2> QED BY <2>1, <2>2 DEF Opens
<1> QED BY <1>2, <1>3

(* The end of a step keeps the invariant, if the task no longer waits, and   *)
(* an authentication that goes on was answered.                             *)
LEMMA MovesKeep ==
    ASSUME NEW t \in Task, Inv, phase[t] = "running",
           GoesOn(t) \/ IsOver(t) \/ Closes(t),
           todo[t][1] = "verify" => wait[t] \notin open \/ IsOver(t) \/ Closes(t),
           wait' = [wait EXCEPT ![t] = NoCall], shared' \subseteq shared,
           UNCHANGED <<xid, auth>>,
           subscribed' \in Seq(Event), IsInjective(subscribed'),
           interest' \in [Instance -> SUBSET Event]
    PROVE  Inv'
<1>1. TypeOK /\ todo[t] # <<>> /\ "setup" \in Task /\ "closer" \in Task
  BY DEF Inv, TasksAreBusy, Task
<1>2. /\ todo' \in [Task -> Seq(Step)] /\ \A u \in Task \ {t} : todo'[u] = todo[u]
      /\ \A u \in Task : Opens(u)' => Opens(u)
      /\ Opens(t)' => GoesOn(t)
  BY <1>1, MovesOpen
<1>3. wait'[t] = NoCall /\ \A u \in Task \ {t} : wait'[u] = wait[u]
  BY <1>1 DEF TypeOK
<1>4. \A u \in Task \ {t} : phase'[u] = phase[u]
  BY <1>1 DEF TypeOK, GoesOn, IsOver, Closes
<1>5. NoCall \notin Call /\ NoCall \notin Instance \X {0}
  BY DEF NoCall, Call, Instance
<1>6. Closes(t) => current = 1 /\ current' = 0 /\ \A u \in Task : ~ Opens(u)
  BY WhileClosing DEF Closes, Stop
<1>7. ~ Closes(t) => UNCHANGED <<current, link, queues, open>>
  BY DEF GoesOn, IsOver
<1>8. TypeOK'
  <2>1. phase' \in [Task -> {"idle", "running", "returned", "raised"}]
    BY <1>1 DEF TypeOK, GoesOn, IsOver, Closes
  <2>2. wait' \in [Task -> Call \cup {<<i, 0>> : i \in Instance} \cup {NoCall}]
    BY <1>1 DEF TypeOK
  <2>3. current' \in Instance \cup {0} /\ link' \in [Instance -> {"none", "up", "down"}]
        /\ queues' \in [Instance -> SUBSET ((0..MaxXid) \X (1..MaxXid))] /\ open' \subseteq Call
    <3>1. CASE ~ Closes(t)
      BY <1>1, <1>7, <3>1 DEF TypeOK
    <3>2. CASE Closes(t)
      <4>1. /\ queues' = [queues EXCEPT ![1] = {}] /\ open' \subseteq open /\ current' = 0
            /\ link' = [link EXCEPT ![1] = IF @ = "up" THEN "down" ELSE @]
        BY <3>2, <1>6 DEF Closes, Stop, Unanswered
      <4>2. \A i \in Instance : queues'[i] \subseteq (0..MaxXid) \X (1..MaxXid)
        BY <4>1, <1>1 DEF TypeOK
      <4> QED BY <4>1, <4>2, <1>1 DEF TypeOK
    <3> QED BY <3>1, <3>2
  <2> QED BY <1>1, <1>2, <2>1, <2>2, <2>3 DEF TypeOK
<1>9. TasksAreBusy'
  <2> SUFFICES ASSUME NEW u \in Task
               PROVE  /\ phase'[u] = "running" <=> todo'[u] # <<>>
                      /\ wait'[u] # NoCall => phase'[u] = "running"
                      /\ wait'[u] \in Instance \X {0} => todo'[u][1] = "start" /\ wait'[u][1] = current'
                      /\ wait'[u] \in Call => todo'[u][1] \in Exchanges
                      /\ \A k \in DOMAIN todo'[u] : todo'[u][k] = "start" => k = 1 /\ Len(todo'[u]) > 1
    BY DEF TasksAreBusy
  <2>1. CASE u # t
    <3>1. todo'[u] = todo[u] /\ wait'[u] = wait[u] /\ phase'[u] = phase[u]
      BY <2>1, <1>2, <1>3, <1>4
    <3>2. wait[u] \in Instance \X {0} => Opens(u)
      BY <1>1, AtItsHead, <1>5 DEF Inv, TasksAreBusy
    <3> QED BY <3>1, <3>2, <1>6, <1>7 DEF Inv, TasksAreBusy
  <2>2. CASE u = t /\ GoesOn(t)
    <3>1. todo[t] \in Seq(Step) /\ todo'[t] = Tail(todo[t]) /\ Len(todo[t]) > 1 /\ phase' = phase
      BY <1>1, <2>2 DEF GoesOn, TypeOK
    <3>2. todo'[t] # <<>> /\ \A k \in DOMAIN todo'[t] : k + 1 \in DOMAIN todo[t] /\ k + 1 # 1 /\ todo'[t][k] = todo[t][k + 1]
      <4> DEFINE s == todo[t]
      <4>1. s \in Seq(Step) /\ s # <<>> /\ Len(s) > 1 /\ todo'[t] = Tail(s)
        BY <1>1, <3>1
      <4> HIDE DEF s
      <4>2. Tail(s) # <<>> /\ \A k \in DOMAIN Tail(s) : k + 1 \in DOMAIN s /\ k + 1 # 1 /\ Tail(s)[k] = s[k + 1]
        <5> DEFINE n == Len(s)
                   r == Tail(s)
        <5>1. /\ n \in Nat \ {0} /\ n > 1 /\ DOMAIN s = 1..n /\ r # <<>> /\ DOMAIN r = 1..(n - 1)
              /\ \A k \in 1..(n - 1) : r[k] = s[k + 1]
          <6>1. Len(r) = n - 1 /\ r \in Seq(Step) /\ r # <<>>
            BY <4>1, Steps
          <6>2. DOMAIN r = 1..Len(r)
            BY <6>1
          <6> QED BY <4>1, <6>1, <6>2, Steps
        <5> HIDE DEF n, r
        <5> QED BY <5>1 DEF r
      <4> QED BY <4>1, <4>2 DEF s
    <3>3. \A k \in DOMAIN todo'[t] : todo'[t][k] # "start"
      BY <3>2 DEF Inv, TasksAreBusy
    <3> QED BY <2>2, <3>1, <3>2, <3>3, <1>3, <1>5
  <2>3. CASE u = t /\ (IsOver(t) \/ Closes(t))
    <3>1. todo'[t] = <<>> /\ phase'[t] \in {"returned", "raised"}
      BY <1>1, <2>3 DEF IsOver, Closes, TypeOK
    <3> QED BY <2>3, <3>1, <1>3, <1>5
  <2> QED BY <2>1, <2>2, <2>3
<1>10. OrderOfInstances'
  <2>1. CASE GoesOn(t)
    <3>1. UNCHANGED <<phase, current, link, queues, xid>>
      BY <2>1 DEF GoesOn
    <3>2. phase["setup"] = "running" => todo'["setup"][1] = "start" \/ link[1] # "none"
      BY <2>1, <1>1, <1>2 DEF GoesOn, Inv, OrderOfInstances
    <3> QED BY <3>1, <3>2 DEF Inv, OrderOfInstances
  <2>2. CASE IsOver(t)
    <3>1. UNCHANGED <<current, link, queues, xid>> /\ t # "closer" /\ phase'["closer"] = phase["closer"]
      BY <2>2, <1>1, <1>4 DEF IsOver
    <3>2. phase'["setup"] = "returned" => link[1] # "none"
      BY <2>2, <1>1, <1>4 DEF IsOver, Inv, OrderOfInstances, TypeOK
    <3>3. phase'["setup"] = "running" => todo'["setup"][1] = "start" \/ link[1] # "none"
      BY <2>2, <1>1, <1>2, <1>4 DEF IsOver, Inv, OrderOfInstances, TypeOK
    <3>4. phase["closer"] # "idle" => phase'["setup"] = "returned"
      BY <2>2, <1>4, <1>1 DEF Inv, OrderOfInstances
    <3> QED BY <3>1, <3>2, <3>3, <3>4 DEF Inv, OrderOfInstances
  <2>3. CASE Closes(t)
    <3>1. phase'["closer"] = "returned" /\ phase'["setup"] = "returned" /\ phase["setup"] = "returned"
      BY <2>3, <1>1, <1>4 DEF Closes, TypeOK, Inv, OrderOfInstances
    <3>2. current = 1 /\ current' = 0 /\ link[1] # "none" /\ link' = [link EXCEPT ![1] = IF @ = "up" THEN "down" ELSE @]
          /\ queues' = [queues EXCEPT ![1] = {}] /\ xid' = xid
      BY <2>3, <1>6, <3>1 DEF Closes, Stop, Inv, OrderOfInstances
    <3>3. link'[1] = "down" /\ link'[2] = link[2] /\ link[2] = "none" /\ xid[2] = 0
      BY <3>2, <1>1 DEF TypeOK, Inv, OrderOfInstances, Instance
    <3>4. \A i \in Instance : queues'[i] = {}
      BY <3>2, <1>1 DEF TypeOK, Inv, OrderOfInstances, Instance
    <3> QED BY <3>1, <3>2, <3>3, <3>4 DEF OrderOfInstances
  <2> QED BY <2>1, <2>2, <2>3
<1>11. OneOpens'
  <2>1. \A u \in Task : Opens(u)' => UNCHANGED <<current>> /\ (phase["closer"] = "idle" => phase'["closer"] = "idle")
    BY <1>1, <1>2, <1>4, <1>6, <1>7
  <2> QED BY <2>1, <1>2 DEF OneOpens, Inv
<1>12. OnlyIssued'
  <2>1. open' \subseteq open /\ \A i \in Instance : queues'[i] \subseteq queues[i]
    BY <1>1, <1>7 DEF TypeOK, Closes, Stop, Unanswered
  <2>2. \A u \in Task : wait'[u] \in Call => wait'[u] = wait[u]
    BY <1>3, <1>5
  <2>3. \A call : Issued(call)' <=> Issued(call)
    BY DEF Issued
  <2> QED BY <2>1, <2>2, <2>3 DEF OnlyIssued, Inv
<1>13. Registered' /\ Answered'
  <2>1. open' \subseteq open /\ \A i \in Instance : queues'[i] \subseteq queues[i]
    BY <1>1, <1>7 DEF TypeOK, Closes, Stop, Unanswered
  <2> QED BY <2>1 DEF Registered, Answered, Inv, Identifier
<1>14. AuthInTurn'
  <2>1. ASSUME NEW u \in Task, wait'[u] \in auth'
        PROVE  todo'[u][1] = "verify" /\ wait'[u][1] = current'
    <3>1. u # t /\ wait[u] \in auth
      BY <2>1, <1>1, <1>3, <1>5 DEF TypeOK
    <3>2. todo[u][1] = "verify" /\ wait[u][1] = current
      BY <3>1 DEF Inv, AuthInTurn
    <3>3. Opens(u)
      BY <3>1, <3>2, <1>1, <1>5, AtItsHead DEF TypeOK, Inv, TasksAreBusy
    <3> QED BY <3>1, <3>2, <3>3, <1>2, <1>3, <1>6, <1>7
  <2>2. ASSUME NEW u \in Task, Opens(u)', NEW call \in open' \cap auth', call[1] = current'
        PROVE  wait'[u] = call
    <3>1. Opens(u) /\ UNCHANGED <<current, open>>
      BY <2>2, <1>2, <1>6, <1>7
    <3>2. wait[u] = call
      BY <2>2, <3>1 DEF Inv, AuthInTurn
    <3>3. u # t
      <4> SUFFICES ASSUME u = t PROVE FALSE
        OBVIOUS
      <4>1. GoesOn(t) /\ wait[t] \in open
        BY <1>2, <2>2, <3>1, <3>2
      <4>2. todo[t][1] = "verify"
        BY <2>2, <3>2 DEF Inv, AuthInTurn
      <4>3. ~ IsOver(t) /\ ~ Closes(t)
        BY <4>1, <1>1 DEF GoesOn, IsOver, Closes, TypeOK
      <4> QED BY <4>1, <4>2, <4>3
    <3> QED BY <3>2, <3>3, <1>3
  <2> QED BY <2>1, <2>2 DEF AuthInTurn
<1> QED BY <1>8, <1>9, <1>10, <1>11, <1>12, <1>13, <1>14 DEF Inv

-----------------------------------------------------------------------------
(* The command of a user, or disconnect(), begins.                          *)
LEMMA BeginsKeeps ==
    ASSUME NEW t \in Task, NEW s \in Seq(Step), Inv, phase[t] = "idle",
           phase["setup"] = "returned", phase["closer"] = "idle",
           s # <<>>, \A k \in DOMAIN s : s[k] \notin {"start", "verify"},
           phase' = [phase EXCEPT ![t] = "running"], todo' = [todo EXCEPT ![t] = s],
           UNCHANGED <<apiVars, link, protocolVars, wait, deviceVars>>
    PROVE  Inv'
<1>1. TypeOK /\ t # "setup" /\ "setup" \in Task /\ "closer" \in Task
  BY DEF Inv, Task
<1>2. UNCHANGED <<current, subscribed, link, xid, queues, shared, auth, wait, open, interest>>
  BY DEF apiVars, protocolVars, deviceVars
<1>3. /\ phase'[t] = "running" /\ todo'[t] = s
      /\ \A u \in Task \ {t} : phase'[u] = phase[u] /\ todo'[u] = todo[u]
      /\ wait[t] = NoCall
  BY <1>1 DEF TypeOK, Inv, TasksAreBusy
<1>4. NoCall \notin Call /\ NoCall \notin Instance \X {0}
  BY DEF NoCall, Call, Instance
<1>5. TypeOK'
  BY <1>1, <1>2 DEF TypeOK
<1>6. TasksAreBusy'
  BY <1>2, <1>3, <1>4 DEF Inv, TasksAreBusy
<1>7. OrderOfInstances'
  BY <1>1, <1>2, <1>3 DEF Inv, OrderOfInstances
<1>8. ~ Opens(t)' /\ \A u \in Task : Opens(u)' => Opens(u)
  BY <1>3 DEF Opens
<1>9. OneOpens'
  <2>1. \A u \in Task : Opens(u) => u # "setup"
    BY <1>1 DEF Inv, TasksAreBusy, Opens
  <2> QED BY <1>2, <1>8, <2>1 DEF Inv, OneOpens
<1>10. (OnlyIssued /\ Registered /\ Answered)'
  BY <1>2 DEF Inv, OnlyIssued, Registered, Answered, Issued, Identifier
<1>11. AuthInTurn'
  <2>1. \A u \in Task : wait[u] \in auth => u # t
    BY <1>1, <1>3, <1>4 DEF TypeOK
  <2> QED BY <1>2, <1>3, <1>8, <2>1 DEF Inv, AuthInTurn
<1> QED BY <1>5, <1>6, <1>7, <1>9, <1>10, <1>11 DEF Inv

(* An operation of the user begins.                                         *)
LEMMA UserBeginsKeeps == ASSUME NEW u \in User, Inv, UserBegins(u) PROVE Inv'
<1> DEFINE s == Commands(u)
<1>1. s \in Seq(Step) /\ s # <<>> /\ \A k \in DOMAIN s : s[k] \notin {"start", "verify"}
  <2>1. CASE u \in Button
    BY <2>1 DEF Commands, Step
  <2>2. CASE u \notin Button
    BY <2>2 DEF Commands, Step
  <2> QED BY <2>1, <2>2
<1>2. u \in Task
  BY DEF Task
<1> HIDE DEF s
<1>3. todo' = [todo EXCEPT ![u] = s]
  BY DEF UserBegins, s
<1> QED BY <1>1, <1>2, <1>3, BeginsKeeps DEF UserBegins

(* disconnect() begins.                                                     *)
LEMMA CloseKeeps == ASSUME Inv, Close PROVE Inv'
<1> DEFINE e == <<"events">>
           c == <<"command">>
           s == e \o c
<1>1. e \in Seq(Step) /\ c \in Seq(Step) /\ Len(e) = 1 /\ Len(c) = 1 /\ e[1] = "events" /\ c[1] = "command"
  BY DEF Step
<1>2. Disconnecting = s
  BY DEF Disconnecting, SessionStop
<1> HIDE DEF e, c
<1>3. s \in Seq(Step) /\ Len(s) = Len(e) + Len(c)
      /\ \A k \in 1..(Len(e) + Len(c)) : s[k] = IF k <= Len(e) THEN e[k] ELSE c[k - Len(e)]
  BY <1>1, AndThen, Zenon
<1> HIDE DEF s
<1>4. s # <<>> /\ \A k \in DOMAIN s : s[k] \notin {"start", "verify"}
  BY <1>1, <1>3
<1>5. "closer" \in Task
  BY DEF Task
<1> QED BY <1>2, <1>3, <1>4, <1>5, BeginsKeeps DEF Close

(* A second connection is made only when disconnect() is done, by one task.  *)
LEMMA ConnectsKeeps == ASSUME NEW t \in Task, Inv, Connects(t) PROVE Inv'
<1>1. TypeOK /\ "setup" \in Task /\ "closer" \in Task
  BY DEF Inv, Task
<1>2. current = 0 /\ current' = 2 /\ phase[t] = "running" /\ wait[t] = NoCall
  BY DEF Connects, AtStep, Ready
<1>3. UNCHANGED <<subscribed, link, xid, queues, shared, auth, phase, wait, open, interest>>
  BY DEF Connects, protocolVars, deviceVars
<1>4. /\ phase["closer"] = "returned" /\ phase["setup"] = "returned" /\ link[1] = "down"
      /\ link[2] = "none" /\ xid[2] = 0 /\ \A i \in Instance : queues[i] = {}
  BY <1>1, <1>2 DEF TypeOK, Inv, OrderOfInstances, Instance
<1>5. \A u \in Task : ~ Opens(u)
  BY <1>2 DEF Inv, OneOpens
<1>6. todo[t] \in Seq(Step) /\ \A k \in DOMAIN todo[t] : todo[t][k] # "start"
  BY <1>1, <1>5 DEF TypeOK, Opens
<1> DEFINE s == Connecting \o todo[t]
<1>7. /\ s \in Seq(Step) /\ s # <<>> /\ Len(s) > 1 /\ s[1] = "start"
      /\ \A k \in DOMAIN s : s[k] = "start" => k = 1
  BY <1>6, ConnectingAndThen
<1>8. todo' = [todo EXCEPT ![t] = s]
  BY DEF Connects
<1> HIDE DEF s
<1>9. todo'[t] = s /\ \A u \in Task \ {t} : todo'[u] = todo[u]
  BY <1>1, <1>8 DEF TypeOK
<1>10. \A u \in Task : wait[u] \notin Instance \X {0} /\ (wait[u] \in Call => u # t)
                        /\ wait[u] \notin auth
  <2>1. NoCall \notin Call
    BY DEF NoCall, Call, Instance
  <2>2. \A u \in Task : wait[u] \in Call \/ wait[u] \in Instance \X {0} => todo[u] # <<>>
    BY DEF Inv, TasksAreBusy, NoCall, Call, Instance
  <2>3. \A u \in Task : wait[u] \notin Instance \X {0}
    BY <2>2, <1>1, <1>5, AtItsHead DEF Inv, TasksAreBusy
  <2>4. \A u \in Task : wait[u] \notin auth
    BY <2>2, <1>1, <1>5, AtItsHead DEF Inv, AuthInTurn, TypeOK
  <2> QED BY <2>1, <2>3, <2>4, <1>2
<1>11. TypeOK'
  BY <1>1, <1>2, <1>3, <1>7, <1>8 DEF TypeOK, Instance
<1>12. TasksAreBusy'
  BY <1>2, <1>3, <1>7, <1>9, <1>10 DEF Inv, TasksAreBusy
<1>13. OrderOfInstances'
  BY <1>2, <1>3, <1>4 DEF OrderOfInstances
<1>14. OneOpens'
  <2>1. \A u \in Task : Opens(u)' => u = t
    BY <1>5, <1>9 DEF Opens
  <2> QED BY <2>1, <1>2 DEF OneOpens
<1>15. (OnlyIssued /\ Registered /\ Answered)'
  BY <1>3 DEF Inv, OnlyIssued, Registered, Answered, Issued, Identifier
<1>16. AuthInTurn'
  <2>1. \A call \in open : call[1] # 2
    BY <1>1, <1>4 DEF Inv, OnlyIssued, Issued, Call, TypeOK
  <2> QED BY <2>1, <1>2, <1>3, <1>10 DEF AuthInTurn
<1> QED BY <1>11, <1>12, <1>13, <1>14, <1>15, <1>16 DEF Inv

(* A task asks for a connection.                                            *)
LEMMA StartsKeeps == ASSUME NEW t \in Task, Inv, Starts(t) PROVE Inv'
<1>1. TypeOK /\ "setup" \in Task /\ "closer" \in Task
  BY DEF Inv, Task
<1>2. /\ phase[t] = "running" /\ wait[t] = NoCall /\ wait' = [wait EXCEPT ![t] = <<current, 0>>]
      /\ todo[t] # <<>>
  BY DEF Starts, AtStep, Ready, Inv, TasksAreBusy
<1>3. UNCHANGED <<current, subscribed, link, xid, queues, shared, auth, phase, todo, open, interest>>
  BY DEF Starts, apiVars, protocolVars, deviceVars
<1>4. todo[t][1] = "start"
  BY <1>1, <1>2, Steps DEF TypeOK, Starts, AtStep
<1>5. Opens(t) /\ current \in Instance
  BY <1>1, <1>2, <1>4, AtItsHead DEF Inv, OneOpens, Instance
<1>6. wait'[t] = <<current, 0>> /\ \A u \in Task \ {t} : wait'[u] = wait[u]
  BY <1>1, <1>2 DEF TypeOK
<1>7. wait'[t] \notin Call /\ NoCall \notin Call
  BY <1>6 DEF Call, NoCall
<1>8. TypeOK'
  <2>1. wait' \in [Task -> Call \cup {<<i, 0>> : i \in Instance} \cup {NoCall}]
    BY <1>1, <1>2, <1>5 DEF TypeOK
  <2> QED BY <1>1, <1>3, <2>1 DEF TypeOK
<1>9. TasksAreBusy'
  BY <1>2, <1>3, <1>4, <1>6, <1>7 DEF Inv, TasksAreBusy
<1>10. (OrderOfInstances /\ OneOpens)'
  BY <1>3 DEF Inv, OrderOfInstances, OneOpens, Opens
<1>11. (OnlyIssued /\ Registered /\ Answered)'
  BY <1>3, <1>6, <1>7 DEF Inv, OnlyIssued, Registered, Answered, Issued, Identifier
<1>12. AuthInTurn'
  <2>1. wait'[t] \notin auth /\ wait[t] \notin auth
    BY <1>1, <1>2, <1>7 DEF TypeOK
  <2>2. \A u \in Task : Opens(u)' <=> Opens(u)
    BY <1>3 DEF Opens
  <2> QED BY <1>3, <1>6, <2>1, <2>2 DEF Inv, AuthInTurn
<1> QED BY <1>8, <1>9, <1>10, <1>11, <1>12 DEF Inv

(* The connection is made, and the task goes on to its next step.           *)
LEMMA ConnectionMadeKeeps == ASSUME NEW t \in Task, Inv, ConnectionMade(t) PROVE Inv'
<1>1. TypeOK /\ "setup" \in Task /\ "closer" \in Task
  BY DEF Inv, Task
<1>2. /\ wait[t] \in Instance \X {0} /\ wait' = [wait EXCEPT ![t] = NoCall]
      /\ link' = [link EXCEPT ![wait[t][1]] = "up"]
      /\ todo' = [todo EXCEPT ![t] = Tail(@)]
      /\ UNCHANGED <<current, subscribed, xid, queues, shared, auth, phase, open, interest>>
  BY DEF ConnectionMade, apiVars, protocolVars, deviceVars
<1>3. NoCall \notin Call /\ NoCall \notin Instance \X {0} /\ wait[t] \notin Call
  BY <1>2 DEF NoCall, Call, Instance
<1>4. /\ wait[t][1] = current /\ current \in Instance /\ phase[t] = "running"
      /\ todo[t][1] = "start" /\ todo[t] # <<>>
  BY <1>2, <1>3 DEF Inv, TasksAreBusy
<1>5. Opens(t)
  BY <1>1, <1>4, AtItsHead
<1>6. /\ wait'[t] = NoCall /\ todo'[t] = Tail(todo[t])
      /\ \A u \in Task \ {t} : wait'[u] = wait[u] /\ todo'[u] = todo[u]
  BY <1>1, <1>2 DEF TypeOK
<1>7. link'[current] = "up" /\ \A i \in Instance \ {current} : link'[i] = link[i]
  BY <1>1, <1>2, <1>4 DEF TypeOK
<1>8. /\ Tail(todo[t]) \in Seq(Step) /\ Tail(todo[t]) # <<>>
      /\ \A k \in DOMAIN Tail(todo[t]) : Tail(todo[t])[k] # "start"
      /\ \A k \in DOMAIN Tail(todo[t]) : k + 1 \in DOMAIN todo[t] /\ Tail(todo[t])[k] = todo[t][k + 1]
  <2> DEFINE s == todo[t]
  <2>1. s \in Seq(Step) /\ s # <<>>
    BY <1>1, <1>4 DEF TypeOK
  <2>2. 1 \in DOMAIN s
    BY <2>1
  <2>3. Len(s) > 1 /\ \A k \in DOMAIN s : s[k] = "start" => k = 1
    BY <1>4, <2>2 DEF Inv, TasksAreBusy
  <2> HIDE DEF s
  <2>4. /\ Tail(s) \in Seq(Step) /\ Tail(s) # <<>>
        /\ \A k \in DOMAIN Tail(s) : k + 1 \in DOMAIN s /\ k + 1 # 1 /\ Tail(s)[k] = s[k + 1]
    BY <2>1, <2>3, Steps
  <2> QED BY <2>3, <2>4 DEF s
<1>9. \A u \in Task : Opens(u)' => Opens(u)
  BY <1>5, <1>6 DEF Opens
<1>10. TypeOK'
  <2>1. todo' \in [Task -> Seq(Step)] /\ wait' \in [Task -> Call \cup {<<i, 0>> : i \in Instance} \cup {NoCall}]
        /\ link' \in [Instance -> {"none", "up", "down"}]
    BY <1>1, <1>2, <1>8 DEF TypeOK
  <2> QED BY <1>1, <1>2, <2>1 DEF TypeOK
<1>11. TasksAreBusy'
  BY <1>2, <1>3, <1>4, <1>6, <1>8 DEF Inv, TasksAreBusy
<1>12. OrderOfInstances'
  <2>1. link[1] # "none" => link'[1] # "none"
    BY <1>1, <1>4, <1>7 DEF Instance
  <2>2. phase["closer"] = "returned" => link'[1] = "down"
    BY <1>4, <1>7 DEF Inv, OrderOfInstances, Instance
  <2>3. link'[1] = "up" => current = 1
    BY <1>4, <1>7 DEF Inv, OrderOfInstances, Instance
  <2>4. link'[2] # "none" => current = 2
    BY <1>4, <1>7 DEF Inv, OrderOfInstances, Instance
  <2>5. phase["setup"] = "running" => todo'["setup"][1] = "start" \/ link'[1] # "none"
    <3>1. CASE t = "setup"
      <4>1. phase["closer"] # "returned"
        BY <3>1, <1>1, <1>4 DEF Inv, OrderOfInstances
      <4>2. current = 1
        BY <4>1 DEF Inv, OrderOfInstances
      <4> QED BY <4>2, <1>7
    <3>2. CASE t # "setup"
      BY <3>2, <2>1, <1>1, <1>6 DEF Inv, OrderOfInstances
    <3> QED BY <3>1, <3>2
  <2> QED BY <1>2, <2>1, <2>2, <2>3, <2>4, <2>5 DEF Inv, OrderOfInstances
<1>13. OneOpens'
  BY <1>2, <1>9 DEF Inv, OneOpens
<1>14. (OnlyIssued /\ Registered /\ Answered)'
  BY <1>2, <1>3, <1>6 DEF Inv, OnlyIssued, Registered, Answered, Issued, Identifier
<1>15. AuthInTurn'
  <2>1. wait'[t] \notin auth /\ wait[t] \notin auth
    BY <1>1, <1>3, <1>6 DEF TypeOK
  <2> QED BY <1>2, <1>5, <1>6, <1>9, <2>1 DEF Inv, AuthInTurn
<1> QED BY <1>10, <1>11, <1>12, <1>13, <1>14, <1>15 DEF Inv

(* The steps that end: of a connection that fails, of an exchange over a     *)
(* connection that is down, of one that is answered or times out.           *)
LEMMA EndsKeep ==
    ASSUME NEW t \in Task, Inv, phase[t] = "running",
           (Continues(t) /\ todo[t][1] # "start" /\ wait[t] \notin open) \/ Raises(t),
           wait' = [wait EXCEPT ![t] = NoCall], shared' \subseteq shared,
           UNCHANGED <<xid, auth>>,
           subscribed' \in Seq(Event), IsInjective(subscribed'),
           interest' \in [Instance -> SUBSET Event]
    PROVE  Inv'
<1>1. TypeOK /\ todo[t] # <<>>
  BY DEF Inv, TasksAreBusy
<1>2. GoesOn(t) \/ IsOver(t) \/ Closes(t)
  BY <1>1, EndOfStep
<1>3. todo[t][1] = "verify" => wait[t] \notin open \/ IsOver(t) \/ Closes(t)
  BY <1>1, EndOfStep
<1> QED BY <1>2, <1>3, MovesKeep

(* The connection is refused, and its task raises.                          *)
LEMMA ConnectionFailsKeeps == ASSUME NEW t \in Task, Inv, ConnectionFails(t) PROVE Inv'
<1>1. wait[t] # NoCall
  BY DEF ConnectionFails, NoCall, Instance
<1>2. phase[t] = "running"
  BY <1>1 DEF Inv, TasksAreBusy
<1>3. wait' = [wait EXCEPT ![t] = NoCall] /\ Raises(t) /\ UNCHANGED <<subscribed, xid, shared, auth, interest>>
  BY DEF ConnectionFails
<1>4. subscribed \in Seq(Event) /\ IsInjective(subscribed) /\ interest \in [Instance -> SUBSET Event]
  BY DEF Inv, TypeOK
<1> QED BY <1>2, <1>3, <1>4, EndsKeep

(* Nobody answered in time: the entry is removed and the task raises.       *)
LEMMA TimeoutKeeps == ASSUME NEW t \in Task, Inv, Timeout(t) PROVE Inv'
<1>1. wait[t] # NoCall
  BY DEF Timeout, NoCall, Call, Instance
<1>2. phase[t] = "running"
  BY <1>1 DEF Inv, TasksAreBusy
<1>3. wait' = [wait EXCEPT ![t] = NoCall] /\ Raises(t) /\ UNCHANGED <<subscribed, xid, auth, interest>>
      /\ shared' \subseteq shared
  BY DEF Timeout
<1>4. subscribed \in Seq(Event) /\ IsInjective(subscribed) /\ interest \in [Instance -> SUBSET Event]
  BY DEF Inv, TypeOK
<1> QED BY <1>2, <1>3, <1>4, EndsKeep

(* A task wakes with the answer that was put in its entry.                  *)
LEMMA ResumeKeeps ==
    ASSUME NEW t \in Task, Inv, NEW s \in shared, s[1] = wait[t], Resume(t, s[2], s[3])
    PROVE  Inv'
<1>1. TypeOK /\ s[1] = s[2] /\ s[2] \notin open /\ wait[t] \in Call
  BY DEF Inv, Answered, TypeOK
<1>2. wait[t] # NoCall
  BY <1>1 DEF NoCall, Call, Instance
<1>3. phase[t] = "running" /\ todo[t][1] # "start"
  BY <1>1, <1>2 DEF Inv, TasksAreBusy, Exchanges
<1>4. wait' = [wait EXCEPT ![t] = NoCall] /\ (Continues(t) \/ Raises(t)) /\ UNCHANGED <<subscribed, xid, auth, interest>>
      /\ shared' \subseteq shared
  BY DEF Resume
<1>5. subscribed \in Seq(Event) /\ IsInjective(subscribed) /\ interest \in [Instance -> SUBSET Event]
  BY <1>1 DEF TypeOK
<1> QED BY <1>1, <1>3, <1>4, <1>5, EndsKeep

(* A request registers where only requests of its kind wait.                *)
LEMMA SentKeeps ==
    ASSUME NEW t \in Task, Inv, Exchange(t), link[current] = "up" PROVE Inv'
<1> DEFINE i == current
           call == <<i, xid[i] + 1>>
<1>1. TypeOK /\ current \in Instance /\ xid[i] \in 0..MaxXid /\ xid[i] < MaxXid /\ MaxXid \in Nat
  BY BoundAssumption DEF Inv, TypeOK, Exchange
<1>2. /\ phase[t] = "running" /\ wait[t] = NoCall /\ Head(todo[t]) \in Exchanges
      /\ xid' = [xid EXCEPT ![i] = @ + 1]
      /\ auth' = IF Head(todo[t]) = "verify" THEN auth \cup {call} ELSE auth
      /\ queues' = [queues EXCEPT ![i] =
             {e \in @ : e[1] # Identifier(call, auth')} \cup {<<Identifier(call, auth'), call[2]>>}]
      /\ wait' = [wait EXCEPT ![t] = call]
      /\ open' = open \cup {call}
      /\ UNCHANGED <<current, subscribed, link, shared, phase, todo, interest>>
  BY DEF Exchange, AtStep, Ready, apiVars
<1>3. todo[t] # <<>> /\ todo[t] \in Seq(Step) /\ todo[t][1] = Head(todo[t])
  <2>1. todo[t] # <<>> /\ todo[t] \in Seq(Step)
    BY <1>1, <1>2 DEF Inv, TasksAreBusy, TypeOK
  <2> QED BY <2>1, Steps
<1>4. call \in Call /\ call[1] = i /\ call[2] = xid[i] + 1 /\ call \notin Instance \X {0} /\ call # NoCall
      /\ NoCall \notin Call
  BY <1>1 DEF Call, NoCall, Instance
<1>5. xid'[i] = xid[i] + 1 /\ \A j \in Instance : xid'[j] \in Nat /\ xid[j] <= xid'[j]
  BY <1>1, <1>2 DEF TypeOK
<1> DEFINE Sent(c) == c \in Call /\ c[2] <= xid'[c[1]]
<1>6. ~ Issued(call) /\ Sent(call) /\ \A c : Issued(c) => Sent(c)
  <2>1. \A c \in Call : c[1] \in Instance /\ c[2] \in Nat
    BY <1>1 DEF Call
  <2>2. ~ Issued(call) /\ Sent(call)
    BY <1>1, <1>4, <1>5 DEF Issued, TypeOK
  <2>3. ASSUME NEW c, Issued(c) PROVE Sent(c)
    <3>1. c \in Call /\ c[1] \in Instance /\ c[2] \in Nat /\ c[2] <= xid[c[1]]
      BY <2>1, <2>3 DEF Issued
    <3>2. xid[c[1]] \in Nat /\ xid'[c[1]] \in Nat /\ xid[c[1]] <= xid'[c[1]]
      BY <3>1, <1>1, <1>5 DEF TypeOK
    <3> QED BY <3>1, <3>2
  <2> QED BY <2>2, <2>3
<1>7. wait'[t] = call /\ \A u \in Task \ {t} : wait'[u] = wait[u]
  BY <1>1, <1>2 DEF TypeOK
<1>8. Identifier(call, auth') \in 0..MaxXid
  BY <1>1, <1>4 DEF Identifier, AuthFrame
<1>9. /\ queues'[i] = {e \in queues[i] : e[1] # Identifier(call, auth')} \cup {<<Identifier(call, auth'), call[2]>>}
      /\ \A j \in Instance \ {i} : queues'[j] = queues[j]
  BY <1>1, <1>2 DEF TypeOK
<1> HIDE DEF call, Sent
<1>10. TypeOK'
  <2>1. xid' \in [Instance -> 0..MaxXid]
    BY <1>1, <1>2 DEF TypeOK
  <2>2. wait' \in [Task -> Call \cup {<<j, 0>> : j \in Instance} \cup {NoCall}]
    BY <1>1, <1>2, <1>4 DEF TypeOK
  <2>3. queues' \in [Instance -> SUBSET ((0..MaxXid) \X (1..MaxXid))]
    <3>1. call[2] \in 1..MaxXid
      BY <1>4 DEF Call
    <3>2. <<Identifier(call, auth'), call[2]>> \in (0..MaxXid) \X (1..MaxXid)
      BY <3>1, <1>8
    <3>3. queues'[i] \subseteq (0..MaxXid) \X (1..MaxXid)
      BY <3>2, <1>9, <1>1 DEF TypeOK
    <3> QED BY <3>3, <1>1, <1>2 DEF TypeOK
  <2>4. open' \subseteq Call /\ auth' \subseteq Call
    BY <1>1, <1>2, <1>4 DEF TypeOK
  <2> QED BY <1>1, <1>2, <2>1, <2>2, <2>3, <2>4 DEF TypeOK
<1>11. TasksAreBusy'
  BY <1>2, <1>3, <1>4, <1>7 DEF Inv, TasksAreBusy
<1>12. OrderOfInstances'
  <2>1. xid'[2] > 0 => current = 2
    BY <1>1, <1>2 DEF Inv, OrderOfInstances, Instance, TypeOK
  <2>2. \A j \in Instance : queues'[j] # {} => j = current
    BY <1>9 DEF Inv, OrderOfInstances
  <2> QED BY <1>2, <2>1, <2>2 DEF Inv, OrderOfInstances
<1>13. \A u \in Task : Opens(u)' <=> Opens(u)
  BY <1>2 DEF Opens
<1>14. OneOpens'
  BY <1>2, <1>13 DEF Inv, OneOpens
<1>15. OnlyIssued'
  <2>1. \A c \in open' \cup auth' : Sent(c)
    BY <1>2, <1>6 DEF Inv, OnlyIssued
  <2>2. \A j \in Instance : \A e \in queues'[j] : Sent(<<j, e[2]>>)
    <3>1. <<i, call[2]>> = call
      BY <1>4 DEF call
    <3>2. \A j \in Instance : \A e \in queues[j] : Sent(<<j, e[2]>>)
      BY <1>6 DEF Inv, OnlyIssued
    <3>3. \A e \in queues'[i] : Sent(<<i, e[2]>>)
      <4> SUFFICES ASSUME NEW e \in queues'[i] PROVE Sent(<<i, e[2]>>)
        OBVIOUS
      <4>1. CASE e \in queues[i]
        BY <4>1, <3>2, <1>1
      <4>2. CASE e \notin queues[i]
        BY <4>2, <3>1, <1>6, <1>9
      <4> QED BY <4>1, <4>2
    <3> QED BY <3>2, <3>3, <1>9
  <2>3. \A s \in shared' : Sent(s[1]) /\ Sent(s[2])
    BY <1>2, <1>6 DEF Inv, OnlyIssued
  <2>4. \A u \in Task : wait'[u] \in Call => Sent(wait'[u])
    BY <1>2, <1>6, <1>7 DEF Inv, OnlyIssued
  <2> QED BY <2>1, <2>2, <2>3, <2>4 DEF OnlyIssued, Issued, Sent
<1>16. Registered'
  <2>1. \A c : Issued(c) => Identifier(c, auth') = Identifier(c, auth)
    BY <1>2, <1>6 DEF Identifier
  <2>2. <<i, call[2]>> = call
    BY <1>4 DEF call
  <2>3. \A j \in Instance : \A e \in queues[j] : e[1] = Identifier(<<j, e[2]>>, auth')
    BY <2>1 DEF Inv, OnlyIssued, Registered
  <2>4. \A e \in queues'[i] : e[1] = Identifier(<<i, e[2]>>, auth')
    <3> SUFFICES ASSUME NEW e \in queues'[i] PROVE e[1] = Identifier(<<i, e[2]>>, auth')
      OBVIOUS
    <3>1. CASE e \in queues[i]
      BY <3>1, <2>3, <1>1
    <3>2. CASE e \notin queues[i]
      BY <3>2, <2>2, <1>9
    <3> QED BY <3>1, <3>2
  <2> QED BY <1>9, <2>3, <2>4 DEF Registered
<1>17. AuthInTurn'
  <2>1. ASSUME NEW u \in Task, wait'[u] \in auth' PROVE todo'[u][1] = "verify" /\ wait'[u][1] = current'
    <3>1. CASE u = t
      <4>1. call \notin auth
        BY <1>6 DEF Inv, OnlyIssued
      <4> QED BY <3>1, <2>1, <4>1, <1>2, <1>3, <1>4, <1>7
    <3>2. CASE u # t
      <4>1. wait[u] \in auth
        <5>1. wait[u] \in auth \/ wait[u] = call
          BY <3>2, <2>1, <1>2, <1>7
        <5>2. wait[u] # call
          BY <1>4, <1>6 DEF Inv, OnlyIssued
        <5> QED BY <5>1, <5>2
      <4> QED BY <3>2, <4>1, <1>2, <1>7 DEF Inv, AuthInTurn
    <3> QED BY <3>1, <3>2
  <2>2. ASSUME NEW u \in Task, Opens(u)', NEW c \in open' \cap auth', c[1] = current' PROVE wait'[u] = c
    <3>1. Opens(u)
      BY <2>2, <1>13
    <3>2. CASE c = call
      <4>1. Head(todo[t]) = "verify"
        BY <3>2, <2>2, <1>2, <1>6 DEF Inv, OnlyIssued
      <4>2. Opens(t)
        BY <4>1, <1>1, <1>3, AtItsHead
      <4>3. u = t
        BY <3>1, <4>2 DEF Inv, OneOpens
      <4> QED BY <3>2, <4>3, <1>7
    <3>3. CASE c # call
      <4>1. c \in open \cap auth /\ c[1] = current
        BY <3>3, <2>2, <1>2
      <4>2. wait[u] = c /\ c # NoCall
        BY <4>1, <3>1, <1>1, <1>4 DEF Inv, AuthInTurn, TypeOK
      <4> QED BY <4>2, <1>2, <1>7
    <3> QED BY <3>2, <3>3
  <2> QED BY <2>1, <2>2 DEF AuthInTurn
<1>18. Answered'
  BY <1>2, <1>6 DEF Inv, Answered, OnlyIssued
<1> QED BY <1>10, <1>11, <1>12, <1>14, <1>15, <1>16, <1>17, <1>18 DEF Inv

(* A task sends a request under a fresh identifier, and waits.              *)
LEMMA ExchangeKeeps == ASSUME NEW t \in Task, Inv, Exchange(t) PROVE Inv'
<1>1. CASE link[current] = "up"
  BY <1>1, SentKeeps
<1>2. CASE link[current] # "up"
  <2>1. /\ Raises(t) /\ UNCHANGED <<subscribed, xid, shared, auth, wait, interest>>
        /\ phase[t] = "running" /\ wait[t] = NoCall
    BY <1>2 DEF Exchange, AtStep, Ready
  <2>2. wait' = [wait EXCEPT ![t] = NoCall]
    BY <2>1 DEF Inv, TypeOK
  <2>3. subscribed \in Seq(Event) /\ IsInjective(subscribed) /\ interest \in [Instance -> SUBSET Event]
    BY DEF Inv, TypeOK
  <2> QED BY <2>1, <2>2, <2>3, EndsKeep
<1> QED BY <1>1, <1>2

(* Whoever waits under the identifier of a response sent its request.       *)
LEMMA TakerIsCaller ==
    ASSUME Inv, NEW call \in open, NEW e \in queues[call[1]],
           e[1] = Identifier(call, auth), <<call[1], e[2]>> \in Range(wait)
    PROVE  <<call[1], e[2]>> = call
<1> DEFINE w == <<call[1], e[2]>>
<1>1. TypeOK /\ call \in Call /\ call[1] \in Instance /\ call[2] \in 1..MaxXid /\ call = <<call[1], call[2]>>
  BY SMTT(30) DEF Inv, TypeOK, Call
<1>2. e[1] = Identifier(w, auth) /\ w \in Call /\ e[2] \in 1..MaxXid
  BY <1>1 DEF Inv, Registered, OnlyIssued, Issued, Call
<1>3. PICK t \in Task : wait[t] = w
  BY <1>1 DEF TypeOK, Range
<1>4. CASE call \in auth
  <2>1. Identifier(call, auth) = 0
    BY <1>4 DEF Identifier, AuthFrame
  <2>2. w \in auth
    BY <1>2, <2>1 DEF Identifier
  <2>3. todo[t][1] = "verify" /\ wait[t][1] = current
    BY <1>3, <2>2 DEF Inv, AuthInTurn
  <2>4. todo[t] # <<>>
    BY <1>2, <1>3 DEF Inv, TasksAreBusy, NoCall, Call, Instance
  <2>5. Opens(t)
    BY <1>1, <2>3, <2>4, AtItsHead
  <2>6. wait[t] = call
    BY <1>3, <1>4, <2>3, <2>5 DEF Inv, AuthInTurn
  <2> QED BY <2>6, <1>3
<1>5. CASE call \notin auth
  <2>1. Identifier(call, auth) = call[2] /\ call[2] # 0
    BY <1>1, <1>5 DEF Identifier
  <2>2. w \notin auth
    BY <1>2, <2>1 DEF Identifier, AuthFrame
  <2>3. e[2] = call[2]
    BY <1>2, <2>1, <2>2 DEF Identifier
  <2> QED BY <1>1, <2>3
<1> QED BY <1>4, <1>5

(* The device answers: the frame goes to who is registered for it, or       *)
(* nowhere.                                                                 *)
LEMMA DeviceAnswersKeeps ==
    ASSUME Inv, NEW call \in open, NEW kind \in {"content", "error"}, DeviceAnswers(call, kind)
    PROVE  Inv'
<1> DEFINE takers == {e \in queues[call[1]] : e[1] = Identifier(call, auth)}
           waiters == {<<call[1], e[2]>> : e \in takers} \cap Range(wait)
<1>1. TypeOK /\ call \in Call /\ call[1] \in Instance
  BY DEF Inv, TypeOK, Call
<1>2. /\ queues' = [queues EXCEPT ![call[1]] = @ \ takers]
      /\ shared' = shared \cup {<<w, call, kind>> : w \in waiters}
      /\ open' = open \ {call}
      /\ UNCHANGED <<current, subscribed, link, xid, auth, phase, todo, wait, interest>>
  BY DEF DeviceAnswers, apiVars, taskVars
<1>3. \A w \in waiters : w = call
  BY TakerIsCaller
<1> HIDE DEF takers, waiters
<1>4. \A s \in shared' : s \in shared \/ s = <<call, call, kind>>
  BY <1>2, <1>3
<1>5. \A i \in Instance : queues'[i] \subseteq queues[i]
  BY <1>1, <1>2 DEF TypeOK
<1>6. TypeOK'
  <2>1. queues' \in [Instance -> SUBSET ((0..MaxXid) \X (1..MaxXid))]
    BY <1>1, <1>2 DEF TypeOK
  <2>2. shared' \subseteq Call \X Call \X {"content", "error"}
    BY <1>1, <1>4 DEF TypeOK
  <2> QED BY <1>1, <1>2, <2>1, <2>2 DEF TypeOK
<1>7. (TasksAreBusy /\ OneOpens)'
  BY <1>2 DEF Inv, TasksAreBusy, OneOpens, Opens
<1>8. OrderOfInstances'
  BY <1>2, <1>5 DEF Inv, OrderOfInstances
<1>9. OnlyIssued'
  BY <1>1, <1>2, <1>4, <1>5 DEF Inv, OnlyIssued, Issued
<1>10. Registered'
  BY <1>2, <1>5 DEF Inv, Registered, Identifier
<1>11. AuthInTurn'
  BY <1>2 DEF Inv, AuthInTurn, Opens
<1>12. Answered'
  BY <1>2, <1>4 DEF Inv, Answered
<1> QED BY <1>6, <1>7, <1>8, <1>9, <1>10, <1>11, <1>12 DEF Inv

(* A connection is lost with what was under way on it.                      *)
LEMMA ConnectionLostKeeps == ASSUME NEW i \in Instance, Inv, ConnectionLost(i) PROVE Inv'
<1>1. /\ link[i] = "up" /\ link' = [link EXCEPT ![i] = "down"] /\ open' \subseteq open
      /\ UNCHANGED <<current, subscribed, xid, queues, shared, auth, phase, todo, wait, interest>>
  BY DEF ConnectionLost, Unanswered, apiVars, protocolVars, taskVars
<1>2. link'[i] = "down" /\ \A j \in Instance \ {i} : link'[j] = link[j]
  BY <1>1 DEF Inv, TypeOK
<1>3. TypeOK'
  BY <1>1 DEF Inv, TypeOK
<1>4. OrderOfInstances'
  BY <1>1, <1>2 DEF Inv, OrderOfInstances, Instance
<1>5. (TasksAreBusy /\ OneOpens)'
  BY <1>1 DEF Inv, TasksAreBusy, OneOpens, Opens
<1>6. (OnlyIssued /\ Registered /\ AuthInTurn /\ Answered)'
  BY <1>1 DEF Inv, OnlyIssued, Registered, AuthInTurn, Answered, Issued, Identifier, Opens
<1> QED BY <1>3, <1>4, <1>5, <1>6 DEF Inv

(* A subscription is not made twice, and the loop of disconnect() leaves     *)
(* every second one.                                                        *)
LEMMA SubscriptionsAre ==
    ASSUME subscribed \in Seq(Event), IsInjective(subscribed)
    PROVE  /\ \A event \in Event \ Range(subscribed) :
                 Append(subscribed, event) \in Seq(Event) /\ IsInjective(Append(subscribed, event))
           /\ Left(subscribed) \in Seq(Event) /\ IsInjective(Left(subscribed))
<1> DEFINE n == Len(subscribed)
<1>1. n \in Nat /\ DOMAIN subscribed = 1..n /\ \A k \in 1..n : subscribed[k] \in Event
  OBVIOUS
<1>2. \A j, k \in 1..n : subscribed[j] = subscribed[k] => j = k
  BY <1>1 DEF IsInjective
<1>3. ASSUME NEW event \in Event \ Range(subscribed)
      PROVE  Append(subscribed, event) \in Seq(Event) /\ IsInjective(Append(subscribed, event))
  <2> DEFINE s == Append(subscribed, event)
  <2>1. /\ s \in Seq(Event) /\ DOMAIN s = 1..(n + 1) /\ s[n + 1] = event
        /\ \A k \in 1..n : s[k] = subscribed[k]
    BY <1>3
  <2>2. \A k \in 1..n : subscribed[k] # event
    BY <1>1, <1>3 DEF Range
  <2> HIDE DEF s, n
  <2>3. IsInjective(s)
    <3> SUFFICES ASSUME NEW j \in 1..(n + 1), NEW k \in 1..(n + 1), s[j] = s[k] PROVE j = k
      BY <2>1 DEF IsInjective
    <3>1. CASE j \in 1..n /\ k \in 1..n
      BY <3>1, <2>1, <1>2
    <3>2. CASE j = n + 1 /\ k \in 1..n
      BY <3>2, <2>1, <2>2
    <3>3. CASE j \in 1..n /\ k = n + 1
      BY <3>3, <2>1, <2>2
    <3> QED BY <3>1, <3>2, <3>3, <1>1
  <2> QED BY <2>1, <2>3 DEF s
<1>4. n \div 2 \in Nat /\ \A k \in 1..(n \div 2) : 2 * k \in 1..n
  BY <1>1
<1>5. Left(subscribed) \in Seq(Event) /\ DOMAIN Left(subscribed) = 1..(n \div 2)
  BY <1>1, <1>4 DEF Left
<1>6. \A k \in 1..(n \div 2) : Left(subscribed)[k] = subscribed[2 * k]
  BY DEF Left
<1>7. IsInjective(Left(subscribed))
  <2> SUFFICES ASSUME NEW j \in 1..(n \div 2), NEW k \in 1..(n \div 2), Left(subscribed)[j] = Left(subscribed)[k]
               PROVE  j = k
    BY <1>5 DEF IsInjective
  <2>1. 2 * j = 2 * k
    BY <1>2, <1>4, <1>6
  <2> QED BY <2>1, <1>4
<1> QED BY <1>3, <1>5, <1>7

(* A task subscribes to an event.                                           *)
LEMMA SubscribesKeeps == ASSUME NEW t \in Task, Inv, Subscribes(t) PROVE Inv'
<1>1. /\ phase[t] = "running" /\ wait[t] = NoCall /\ Head(todo[t]) \in Event /\ current # 0
      /\ UNCHANGED <<xid, shared, auth, wait>>
  BY DEF Subscribes, AtStep, Ready
<1>2. TypeOK /\ todo[t] # <<>> /\ todo[t] \in Seq(Step)
  BY <1>1 DEF Inv, TasksAreBusy, TypeOK
<1>3. todo[t][1] = Head(todo[t])
  BY <1>2, Steps
<1>4. todo[t][1] # "start"
  BY <1>1, <1>3 DEF Event
<1>5. wait' = [wait EXCEPT ![t] = NoCall] /\ wait[t] \notin open
  BY <1>1, <1>2 DEF TypeOK, NoCall, Call, Instance
<1>6. subscribed' \in Seq(Event) /\ IsInjective(subscribed') /\ interest' \in [Instance -> SUBSET Event]
  <2>1. CASE UNCHANGED <<subscribed, interest>>
    BY <2>1, <1>2 DEF TypeOK
  <2>2. CASE /\ Head(todo[t]) \notin Range(subscribed)
             /\ subscribed' = Append(subscribed, Head(todo[t]))
             /\ interest' = [interest EXCEPT ![current] = @ \cup {Head(todo[t])}]
    <3>1. subscribed' \in Seq(Event) /\ IsInjective(subscribed')
      BY <2>2, <1>1, <1>2, SubscriptionsAre DEF TypeOK
    <3>2. interest' \in [Instance -> SUBSET Event]
      BY <2>2, <1>1, <1>2 DEF TypeOK
    <3> QED BY <3>1, <3>2
  <2> QED BY <2>1, <2>2 DEF Subscribes
<1>7. Continues(t) \/ Raises(t)
  BY DEF Subscribes
<1> QED BY <1>1, <1>4, <1>5, <1>6, <1>7, EndsKeep

(* A task gives up an event.                                                *)
LEMMA UnsubscribesKeeps == ASSUME NEW t \in Task, Inv, Unsubscribes(t) PROVE Inv'
<1>1. /\ phase[t] = "running" /\ wait[t] = NoCall /\ Head(todo[t]) = "events"
      /\ UNCHANGED <<xid, shared, auth, wait>>
  BY DEF Unsubscribes, AtStep, Ready
<1>2. TypeOK /\ todo[t] # <<>> /\ todo[t] \in Seq(Step)
  BY <1>1 DEF Inv, TasksAreBusy, TypeOK
<1>3. todo[t][1] = "events"
  BY <1>1, <1>2, Steps
<1>4. wait' = [wait EXCEPT ![t] = NoCall] /\ wait[t] \notin open
  BY <1>1, <1>2 DEF TypeOK, NoCall, Call, Instance
<1>5. subscribed' \in Seq(Event) /\ IsInjective(subscribed') /\ interest' \in [Instance -> SUBSET Event]
  <2>1. CASE UNCHANGED <<subscribed, interest>>
    BY <2>1, <1>2 DEF TypeOK
  <2>2. CASE /\ subscribed' = Left(subscribed)
             /\ interest' = [interest EXCEPT ![current] = @ \ {subscribed[k] : k \in Visited(subscribed)}]
    <3>1. subscribed' \in Seq(Event) /\ IsInjective(subscribed')
      BY <2>2, <1>2, SubscriptionsAre DEF TypeOK
    <3>2. interest' \in [Instance -> SUBSET Event]
      BY <2>2, <1>2 DEF TypeOK
    <3> QED BY <3>1, <3>2
  <2> QED BY <2>1, <2>2 DEF Unsubscribes
<1>6. Continues(t) \/ Raises(t)
  BY DEF Unsubscribes
<1> QED BY <1>1, <1>3, <1>4, <1>5, <1>6, EndsKeep

-----------------------------------------------------------------------------
(* Every step keeps the invariant.                                          *)
LEMMA NextInv == ASSUME Inv, [Next]_vars PROVE Inv'
<1>1. ASSUME NEW t \in Task, Runs(t) PROVE Inv'
  BY <1>1, ConnectsKeeps, StartsKeeps, ExchangeKeeps, SubscribesKeeps, UnsubscribesKeeps DEF Runs
<1>2. ASSUME NEW t \in Task, Wakes(t) PROVE Inv'
  BY <1>2, ConnectionMadeKeeps, ConnectionFailsKeeps, TimeoutKeeps, ResumeKeeps DEF Wakes
<1>3. CASE UNCHANGED vars
  <2>1. UNCHANGED <<current, subscribed, link, xid, queues, shared, auth, phase, todo, wait, open, interest>>
    BY <1>3 DEF vars, apiVars, protocolVars, taskVars, deviceVars
  <2> QED BY <2>1 DEF Inv, TypeOK, TasksAreBusy, OrderOfInstances, OneOpens, Opens, OnlyIssued, Issued,
                      Registered, Identifier, AuthInTurn, Answered
<1> QED BY <1>1, <1>2, <1>3, UserBeginsKeeps, CloseKeeps, DeviceAnswersKeeps, ConnectionLostKeeps DEF Next

(* It holds in every state of both parts: the controls leave the connection *)
(* alone.                                                                   *)
LEMMA Invariant == CompanionSpec => []Inv
<1>1. CompanionInit => Inv
  <2>1. CompanionInit => Starting({"setup"}) \/ Starting({})
    BY DEF CompanionInit
  <2> QED BY <2>1, InitInv
<1>2. Inv /\ [CompanionNext]_controlsOrConnection => Inv'
  <2>1. [CompanionNext]_controlsOrConnection => [Next]_vars
    BY DEF CompanionNext, controlsOrConnection
  <2> QED BY <2>1, NextInv
<1> QED BY <1>1, <1>2, PTL DEF CompanionSpec

(* The state of CompanionAPI, of the protocols and connections it makes and *)
(* of its tasks has its type, with any number of tasks of the user and any  *)
(* number of requests.                                                      *)
THEOREM TypeCorrect == CompanionSpec => []TypeOK
BY Invariant, PTL DEF Inv

(* There is one connection at a time, requests wait on no other, and the     *)
(* first is closed when disconnect() is done: api.py makes a second one only *)
(* without a protocol, and disconnect() stops the first in its "finally".   *)
THEOREM AtMostOneConnection == CompanionSpec => []OneConnection
<1>1. Inv => OneConnection
  <2> SUFFICES ASSUME Inv PROVE OneConnection
    OBVIOUS
  <2>1. phase["closer"] = "returned" => link[1] = "down"
    BY DEF Inv, OrderOfInstances
  <2>2. \A i \in Instance : queues[i] # {} => i = current
    BY DEF Inv, OrderOfInstances
  <2>3. Cardinality({i \in Instance : link[i] = "up"}) <= 1
    <3> DEFINE up == {i \in Instance : link[i] = "up"}
    <3>1. up = {} \/ up = {current}
      BY DEF Inv, OrderOfInstances, Instance
    <3>2. Cardinality({}) = 0 /\ Cardinality({current}) = 1
      BY FS_EmptySet, FS_Singleton
    <3> QED BY <3>1, <3>2
  <2> QED BY <2>1, <2>2, <2>3 DEF OneConnection
<1> QED BY <1>1, Invariant, PTL

(* A response reaches only the call it answers, though frames of             *)
(* authentication carry no identifier and requests time out: one task        *)
(* authenticates at a time and XIDs are not used twice.                     *)
THEOREM ResponsesAreOwn == CompanionSpec => []OwnResponse
<1>1. Inv => OwnResponse
  BY DEF Inv, Answered, OwnResponse
<1> QED BY <1>1, Invariant, PTL

(* Natural numbers: a set of them has a least one.                          *)
(***************************************************************************)
Less == {p \in Nat \X Nat : p[1] < p[2]}

(* The order of the naturals goes down to an end.                           *)
LEMMA LessIsWellFounded == IsWellFoundedOn(Less, Nat)
<1>1. Less = OpToRel(<, Nat)
  BY DEF Less, OpToRel
<1> QED
  BY <1>1, NatLessThanWellFounded

(* A set of naturals that is not empty has a least member.                  *)
LEMMA Least ==
    ASSUME NEW T \in SUBSET Nat, T # {}
    PROVE  \E x \in T : \A y \in T : x <= y
<1>1. PICK x \in T : \A y \in T : <<y, x>> \notin Less
  BY LessIsWellFounded, WFMin
<1>2. ASSUME NEW y \in T PROVE x <= y
  <2>1. <<y, x>> \notin Less
    BY <1>1
  <2>2. x \in Nat /\ y \in Nat
    OBVIOUS
  <2>3. ~ (y < x)
    BY <2>1, <2>2 DEF Less
  <2> QED BY <2>2, <2>3
<1> QED BY <1>2

(* So that a set which holds 0 and the successors of its members is Nat.     *)
LEMMA EveryNatural == ASSUME NEW T \in SUBSET Nat, 0 \in T, \A n \in T : n + 1 \in T PROVE T = Nat
<1>1. SUFFICES ASSUME Nat \ T # {} PROVE FALSE
  OBVIOUS
<1>2. PICK x \in Nat \ T : \A y \in Nat \ T : x <= y
  <2>1. Nat \ T \in SUBSET Nat
    OBVIOUS
  <2> QED BY <1>1, <2>1, Least
<1>3. x # 0 /\ x \in Nat
  OBVIOUS
<1>4. x - 1 \in Nat /\ ~(x <= x - 1)
  BY <1>3
<1>5. x - 1 \in T
  BY <1>2, <1>4
<1>6. (x - 1) + 1 = x
  BY <1>3
<1> QED BY <1>5, <1>6

(* ------------------------------ the controls ----------------------------- *)

(* What a stage of a call, a request, and what the device sends look like.   *)
Buttons == {"select", "volumeUp", "volumeDown", "wake"}
StageOf ==
    [does : {"press", "release"}, of : Buttons] \cup [does : {"set"}, of : Level]
        \cup [does : {"touch"}, of : {"press", "hold", "release", "click"}]
        \cup [does : {"sleep", "forget", "volume", "stop", "start", "command"}, of : {""}]
        \cup [does : {"type"}, of : {"clear", "input"}]
Who == Caller \cup {"nobody", "volume", "event"}
RequestOf ==
    [to : Caller \cup {"nobody"}, does : {"press", "release"}, of : Buttons]
        \cup [to : Caller \cup {"nobody"}, does : {"set"}, of : Level]
        \cup [to : Caller \cup {"nobody"}, does : {"stop", "start", "command"}, of : {""}]
        \cup [to : {"nobody"}, does : {"touch"}, of : {"press", "hold", "release", "click"}]
        \cup [to : {"nobody"}, does : {"type"}, of : {"clear", "input"}]
        \cup [to : {"volume"}, does : {"get"}, of : {""}]
EventOf == [to : {"event"}, does : {"flags", "focus", "status"}, of : BOOLEAN]
StartOf(who) == [to : who, does : {"start"}, of : BOOLEAN]
LevelOf == [to : {"volume"}, does : {"get"}, of : Level]
AnswerOf ==
    StartOf(Caller \cup {"nobody"}) \cup LevelOf
        \cup [to : Caller \cup {"nobody"}, does : {"press", "release", "set"}, of : {"ok"}]
        \cup [to : Caller \cup {"nobody"}, does : {"command"}, of : Level]
        \cup [to : Caller \cup {"nobody"}, does : {"stop"}, of : BOOLEAN]

ControlTypes ==
    /\ program \in [Caller -> Seq(StageOf)]
    /\ awaits \in [Caller -> {"nothing", "answer", "time", "volume"}]
    /\ toDevice \in Seq(RequestOf)
    /\ toApi \in Seq(EventOf \cup AnswerOf)
    /\ handlers \in Seq(EventOf \cup StartOf(Caller))
    /\ woken \in Seq(AnswerOf)
    /\ device \in [control : BOOLEAN, level : Level, focused : BOOLEAN, session : BOOLEAN, awake : BOOLEAN]
    /\ known \in [control : BOOLEAN, level : Level, focused : BOOLEAN, awake : BOOLEAN]
    /\ keys \subseteq Buttons \cup {"finger"}

(* Who awaits what: the stage that a call is at, and the one frame that will *)
(* end it.                                                                  *)
Reaches(s, c) == \E f \in Range(s) : f.to = c
Once(s, c) == \A i, j \in 1..Len(s) : s[i].to = c /\ s[j].to = c => i = j
ForHead(f) ==
    f.to \in Caller =>
        awaits[f.to] = "answer" /\ program[f.to] # <<>> /\ f.does = Head(program[f.to]).does
AtItsStage ==
    \A c \in Caller :
        /\ awaits[c] # "nothing" => program[c] # <<>>
        /\ awaits[c] = "answer" => Asks(c)
        /\ awaits[c] = "time" => Head(program[c]).does = "sleep"
        /\ awaits[c] = "volume" => Head(program[c]).does = "volume"
OneFrame ==
    /\ \A f \in Range(toDevice) : ForHead(f)
    /\ \A f \in Range(toApi) : ForHead(f)
    /\ \A f \in Range(woken) : ForHead(f)
    /\ \A f \in Range(toDevice) : f.to \in Caller => f.of = Head(program[f.to]).of
    /\ \A c \in Caller :
        /\ Once(toDevice, c) /\ Once(toApi, c) /\ Once(woken, c)
        /\ ~ (Reaches(toDevice, c) /\ Reaches(toApi, c))
        /\ ~ (Reaches(toDevice, c) /\ Reaches(woken, c))
        /\ ~ (Reaches(toApi, c) /\ Reaches(woken, c))

(* What was said last of something: in one queue, or else in the next, or    *)
(* else it is known already.                                                *)
Has(s, D) == \E i \in 1..Len(s) : s[i].does \in D
LastSays(s, D, v) ==
    \A i \in 1..Len(s) : s[i].does \in D /\ (\A j \in i + 1..Len(s) : s[j].does \notin D) => s[i].of = v
InTheEnd(later, sooner, D, v, k) ==
    /\ LastSays(later, D, v)
    /\ ~ Has(later, D) => LastSays(sooner, D, v)
    /\ ~ Has(later, D) /\ ~ Has(sooner, D) => k = v

FlagsAgree == InTheEnd(toApi, handlers, {"flags"}, device.control, known.control)
StatusAgree == InTheEnd(toApi, handlers, {"status"}, device.awake, known.awake)
LevelAsked == Has(handlers, {"flags"}) \/ Has(toApi, {"flags"}) \/ Has(toDevice, {"get"})
LevelAgrees ==
    device.control /\ "level" \notin missed /\ ~ LevelAsked =>
        InTheEnd(toApi, woken, {"get"}, device.level, known.level)
NotOvertaken == ~ (Has(woken, {"start"}) /\ Has(handlers, {"focus"}))
FocusAgrees ==
    /\ \A f \in Range(toDevice) : f.does = "start" /\ f.to = "nobody" => "focus" \in missed
    /\ \A f \in Range(toApi) \cup Range(woken) : f.does = "start" /\ f.to = "nobody" => "focus" \in missed
    /\ device.session /\ "focus" \notin missed =>
        /\ LastSays(toApi, {"focus", "start"}, device.focused)
        /\ ~ Has(toApi, {"focus", "start"}) /\ NotOvertaken =>
            InTheEnd(woken, handlers, {"focus", "start"}, device.focused, known.focused)

(* Each key that is down has a call that will release it, and the finger one *)
(* or a touch that was sent.                                                *)
Lifts == Stage("touch", "release")
Paired(p) ==
    \A i \in 1..Len(p) :
        /\ p[i].does = "press" => \E j \in i + 1..Len(p) : p[j] = Release(p[i].of)
        /\ p[i].does = "touch" /\ p[i].of \in {"press", "hold"} => \E j \in i + 1..Len(p) : p[j] = Lifts
OfAKind(p) == (\A i \in 1..Len(p) : p[i].does \in {"stop", "start", "type"})
              \/ (\A i \in 1..Len(p) : p[i].does # "start")
ToRelease(c, k) ==
    \E j \in 1..Len(program[c]) :
        /\ program[c][j] = Release(k)
        /\ j > 1 \/ awaits[c] # "answer" \/ Reaches(toDevice, c)
KeysComeUp ==
    /\ \A c \in Caller : Paired(program[c]) /\ OfAKind(program[c])
    /\ \A k \in keys : k = "finger" \/ k \in left \/ \E c \in Caller : ToRelease(c, k)
    /\ \A f \in Range(toDevice) : f.does = "press" /\ f.to = "nobody" => f.of \in left
Down == {"press", "hold"}
Settled(s) ==
    \A i \in 1..Len(s) :
        s[i].does = "touch" /\ s[i].of \in Down =>
            \E j \in i + 1..Len(s) : s[j].does = "touch" /\ s[j].of \notin Down
FingerComesUp ==
    "finger" \notin left /\ (\A c \in Caller : Lifts \notin Range(program[c])) =>
        Settled(toDevice) /\ (~ Has(toDevice, {"touch"}) => "finger" \notin keys)

CallInv == ControlTypes /\ AtItsStage /\ OneFrame
AgreeInv == FlagsAgree /\ StatusAgree /\ LevelAgrees /\ FocusAgrees
KeyInv == KeysComeUp /\ FingerComesUp
ControlInv == CallInv /\ AgreeInv /\ KeyInv
-----------------------------------------------------------------------------
Values == Buttons \cup {"press", "hold", "release", "click", "clear", "input", "", "ok"} \cup Level \cup BOOLEAN
Doings == {"press", "release", "set", "stop", "start", "command", "touch", "type", "get", "flags", "focus", "status"}
Frames == [to : Who, does : Doings, of : Values]

(* What a message is made of makes it a frame.                              *)
LEMMA FramesWithin ==
    ASSUME NEW A, NEW B, NEW C, A \subseteq Who, B \subseteq Doings, C \subseteq Values
    PROVE  [to : A, does : B, of : C] \subseteq Frames
BY DEF Frames

(* Requests, events and answers are frames.                                 *)
LEMMA FramesAre ==
    /\ RequestOf \subseteq Frames /\ EventOf \cup AnswerOf \subseteq Frames
    /\ EventOf \cup StartOf(Caller) \subseteq Frames /\ AnswerOf \subseteq Frames
<1>1. Buttons \subseteq Values /\ Level \subseteq Values /\ BOOLEAN \subseteq Values /\ {""} \subseteq Values
      /\ {"ok"} \subseteq Values /\ {"press", "hold", "release", "click"} \subseteq Values
      /\ {"clear", "input"} \subseteq Values
  BY DEF Values
<1>2. Caller \cup {"nobody"} \subseteq Who /\ {"nobody"} \subseteq Who /\ {"volume"} \subseteq Who
      /\ {"event"} \subseteq Who /\ Caller \subseteq Who
  BY DEF Who
<1>d. /\ {"press", "release"} \subseteq Doings /\ {"set"} \subseteq Doings /\ {"touch"} \subseteq Doings
      /\ {"stop", "start", "command"} \subseteq Doings /\ {"type"} \subseteq Doings /\ {"get"} \subseteq Doings
      /\ {"flags", "focus", "status"} \subseteq Doings /\ {"start"} \subseteq Doings
      /\ {"press", "release", "set"} \subseteq Doings /\ {"command"} \subseteq Doings /\ {"stop"} \subseteq Doings
  BY DEF Doings
<1>3. RequestOf \subseteq Frames
  <2>1. [to : Caller \cup {"nobody"}, does : {"press", "release"}, of : Buttons] \subseteq Frames
    BY <1>1, <1>2, <1>d, FramesWithin
  <2>2. [to : Caller \cup {"nobody"}, does : {"set"}, of : Level] \subseteq Frames
    BY <1>1, <1>2, <1>d, FramesWithin
  <2>3. [to : Caller \cup {"nobody"}, does : {"stop", "start", "command"}, of : {""}] \subseteq Frames
    BY <1>1, <1>2, <1>d, FramesWithin
  <2>4. [to : {"nobody"}, does : {"touch"}, of : {"press", "hold", "release", "click"}] \subseteq Frames
    BY <1>1, <1>2, <1>d, FramesWithin
  <2>5. [to : {"nobody"}, does : {"type"}, of : {"clear", "input"}] \subseteq Frames
    BY <1>1, <1>2, <1>d, FramesWithin
  <2>6. [to : {"volume"}, does : {"get"}, of : {""}] \subseteq Frames
    BY <1>1, <1>2, <1>d, FramesWithin
  <2> QED BY ONLY <2>1, <2>2, <2>3, <2>4, <2>5, <2>6, Zenon DEF RequestOf
<1>4. EventOf \subseteq Frames
  BY <1>1, <1>2, <1>d, FramesWithin DEF EventOf
<1>5. StartOf(Caller) \subseteq Frames
  BY <1>1, <1>2, <1>d, FramesWithin DEF StartOf
<1>6. AnswerOf \subseteq Frames
  <2>1. StartOf(Caller \cup {"nobody"}) \subseteq Frames
    BY <1>1, <1>2, <1>d, FramesWithin DEF StartOf
  <2>2. LevelOf \subseteq Frames
    BY <1>1, <1>2, <1>d, FramesWithin DEF LevelOf
  <2>3. [to : Caller \cup {"nobody"}, does : {"press", "release", "set"}, of : {"ok"}] \subseteq Frames
    BY <1>1, <1>2, <1>d, FramesWithin
  <2>4. [to : Caller \cup {"nobody"}, does : {"command"}, of : Level] \subseteq Frames
    BY <1>1, <1>2, <1>d, FramesWithin
  <2>5. [to : Caller \cup {"nobody"}, does : {"stop"}, of : BOOLEAN] \subseteq Frames
    BY <1>1, <1>2, <1>d, FramesWithin
  <2> QED BY ONLY <2>1, <2>2, <2>3, <2>4, <2>5, Zenon DEF AnswerOf
<1> QED BY <1>3, <1>4, <1>5, <1>6

(* One more at the end of a queue, and the first taken from it.              *)
LEMMA OneMore ==
    ASSUME NEW X, NEW s \in Seq(X), NEW f \in X, NEW t, t = Append(s, f)
    PROVE  /\ t \in Seq(X) /\ Len(s) \in Nat /\ Len(t) = Len(s) + 1
           /\ \A i \in 1..Len(s) : t[i] = s[i]
           /\ t[Len(s) + 1] = f
<1>1. t \in Seq(X) /\ Len(s) \in Nat /\ Len(t) = Len(s) + 1
      /\ (\A i \in 1..Len(s) : t[i] = s[i]) /\ t[Len(s) + 1] = f
  OBVIOUS
<1> QED BY <1>1

(* What a queue holds when one more frame is in it.                         *)
LEMMA OneMoreIn ==
    ASSUME NEW X, NEW s \in Seq(X), NEW f \in X, NEW t, t = Append(s, f), NEW x
    PROVE  x \in Range(t) <=> x \in Range(s) \/ x = f
<1>1. t \in Seq(X) /\ Len(s) \in Nat /\ Len(t) = Len(s) + 1
      /\ (\A i \in 1..Len(s) : t[i] = s[i]) /\ t[Len(s) + 1] = f
  OBVIOUS
<1>2. DOMAIN s = 1..Len(s) /\ DOMAIN t = 1..Len(s) + 1
  BY <1>1
<1> QED BY <1>1, <1>2 DEF Range

(* What a queue holds when its first frame is taken.                        *)
LEMMA OneLess ==
    ASSUME NEW X, NEW s \in Seq(X), s # <<>>, NEW t, t = Tail(s)
    PROVE  /\ t \in Seq(X) /\ Len(t) \in Nat /\ Len(s) = Len(t) + 1
           /\ \A i \in 1..Len(t) : t[i] = s[i + 1]
           /\ Head(s) = s[1] /\ Head(s) \in X
           /\ \A x : x \in Range(s) <=> x \in Range(t) \/ x = Head(s)
<1>1. t \in Seq(X) /\ Len(t) \in Nat /\ Len(s) = Len(t) + 1
      /\ (\A i \in 1..Len(t) : t[i] = s[i + 1]) /\ Head(s) = s[1] /\ Head(s) \in X
  OBVIOUS
<1>2. DOMAIN t = 1..Len(t) /\ DOMAIN s = 1..Len(t) + 1
  BY <1>1
<1>3. \A i \in 1..Len(t) + 1 : i = 1 \/ i - 1 \in 1..Len(t)
  BY <1>1
<1>4. \A i \in 1..Len(t) + 1 : i # 1 => s[i] = t[i - 1]
  BY <1>1, <1>3
<1>5. ASSUME NEW f \in Range(s) PROVE f \in Range(t) \cup {s[1]}
  <2>1. PICK i \in 1..Len(t) + 1 : f = s[i]
    BY <1>2 DEF Range
  <2>2. i # 1 => t[i - 1] \in Range(t)
    BY <1>2, <1>3 DEF Range
  <2> QED BY <1>4, <2>1, <2>2
<1>6. Range(t) \subseteq Range(s) /\ s[1] \in Range(s)
  BY <1>1, <1>2 DEF Range
<1> QED BY <1>1, <1>5, <1>6

(* What is said, and said last, with one more frame.                        *)
LEMMA MoreIsSaid ==
    ASSUME NEW X, NEW s \in Seq(X), NEW f \in X, NEW t, t = Append(s, f), NEW D, NEW v
    PROVE  /\ Has(t, D) <=> Has(s, D) \/ f.does \in D
           /\ f.does \in D => (LastSays(t, D, v) <=> f.of = v)
           /\ f.does \notin D => (LastSays(t, D, v) <=> LastSays(s, D, v))
<1> DEFINE n == Len(s)
<1>1. n \in Nat /\ Len(t) = n + 1 /\ (\A i \in 1..n : t[i] = s[i]) /\ t[n + 1] = f
  BY OneMore
<1> HIDE DEF n
<1>2. \A i : i \in 1..n + 1 <=> i \in 1..n \/ i = n + 1
  BY <1>1
<1>3. Has(t, D) <=> Has(s, D) \/ f.does \in D
  BY <1>1, <1>2 DEF Has, n
<1>4. \A i \in 1..n : n + 1 \in i + 1..n + 1
  BY <1>1
<1>5. \A i \in 1..n + 1 : \A j : j \in i + 1..n + 1 <=> j \in i + 1..n \/ (j = n + 1 /\ i # n + 1)
  BY <1>1
<1>6. \A i \in 1..n : \A j \in i + 1..n : j \in 1..n
  BY <1>1
<1>7. LastSays(t, D, v) <=>
        \A i \in 1..n + 1 : t[i].does \in D /\ (\A j \in i + 1..n + 1 : t[j].does \notin D) => t[i].of = v
  BY <1>1 DEF LastSays
<1>8. LastSays(s, D, v) <=>
        \A i \in 1..n : s[i].does \in D /\ (\A j \in i + 1..n : s[j].does \notin D) => s[i].of = v
  BY DEF LastSays, n
<1>9. ASSUME f.does \in D PROVE LastSays(t, D, v) <=> f.of = v
  <2>1. \A j \in n + 1 + 1..n + 1 : FALSE
    BY <1>1
  <2>2. n + 1 \in 1..n + 1
    BY <1>1
  <2>3. LastSays(t, D, v) => f.of = v
    BY <1>1, <1>7, <1>9, <2>1, <2>2
  <2>4. ASSUME f.of = v PROVE LastSays(t, D, v)
    BY <1>1, <1>2, <1>4, <1>7, <1>9, <2>4
  <2> QED BY <2>3, <2>4
<1>10. ASSUME f.does \notin D PROVE LastSays(t, D, v) <=> LastSays(s, D, v)
  <2>1. \A i \in 1..n : (\A j \in i + 1..n + 1 : t[j].does \notin D) <=> (\A j \in i + 1..n : s[j].does \notin D)
    BY <1>1, <1>4, <1>5, <1>6, <1>10
  <2> QED BY <1>1, <1>2, <1>7, <1>8, <1>10, <2>1
<1> QED BY <1>3, <1>9, <1>10

(* What is said, and said last, when the first frame is taken.              *)
LEMMA LessIsSaid ==
    ASSUME NEW X, NEW s \in Seq(X), s # <<>>, NEW t, t = Tail(s), NEW D, NEW v
    PROVE  /\ Has(s, D) <=> Head(s).does \in D \/ Has(t, D)
           /\ Has(t, D) => (LastSays(s, D, v) <=> LastSays(t, D, v))
           /\ ~ Has(t, D) /\ Head(s).does \in D => (LastSays(s, D, v) <=> Head(s).of = v)
           /\ ~ Has(t, D) => LastSays(t, D, v)
           /\ ~ Has(s, D) => LastSays(s, D, v)
<1> DEFINE n == Len(t)
<1>1. n \in Nat /\ Len(s) = n + 1 /\ (\A i \in 1..n : t[i] = s[i + 1]) /\ Head(s) = s[1]
  BY OneLess
<1> HIDE DEF n
<1>2. \A i \in 1..n + 1 : i = 1 \/ (i - 1 \in 1..n /\ s[i] = t[i - 1])
  <2>1. \A i \in 1..n + 1 : i = 1 \/ (i - 1 \in 1..n /\ (i - 1) + 1 = i)
    BY <1>1
  <2> QED BY <1>1, <2>1
<1>3. \A i \in 1..n : i + 1 \in 1..n + 1 /\ t[i] = s[i + 1]
  BY <1>1
<1>4. 1 \in 1..n + 1
  BY <1>1
<1>5. Has(s, D) <=> Head(s).does \in D \/ Has(t, D)
  BY <1>1, <1>2, <1>3, <1>4 DEF Has, n
<1>6. LastSays(s, D, v) <=>
        \A i \in 1..n + 1 : s[i].does \in D /\ (\A j \in i + 1..n + 1 : s[j].does \notin D) => s[i].of = v
  BY <1>1 DEF LastSays
<1>7. LastSays(t, D, v) <=>
        \A i \in 1..n : t[i].does \in D /\ (\A j \in i + 1..n : t[j].does \notin D) => t[i].of = v
  BY DEF LastSays, n
<1>8. Has(t, D) <=> \E j \in 1..n : t[j].does \in D
  BY DEF Has, n
<1>9. \A i \in 1..n : (\A j \in (i + 1) + 1..n + 1 : s[j].does \notin D) <=> (\A j \in i + 1..n : t[j].does \notin D)
  <2>1. ASSUME NEW i \in 1..n PROVE \A j \in i + 1..n : j + 1 \in (i + 1) + 1..n + 1 /\ t[j] = s[j + 1]
    BY <1>1
  <2>2. ASSUME NEW i \in 1..n PROVE \A j \in (i + 1) + 1..n + 1 : j - 1 \in i + 1..n /\ s[j] = t[j - 1]
    BY <1>1, <1>2
  <2> QED BY <2>1, <2>2
<1>10. (\A j \in 1 + 1..n + 1 : s[j].does \notin D) <=> ~ Has(t, D)
  <2>1. \A j \in 1..n : j + 1 \in 1 + 1..n + 1 /\ t[j] = s[j + 1]
    BY <1>1
  <2>2. \A j \in 1 + 1..n + 1 : j - 1 \in 1..n /\ s[j] = t[j - 1]
    BY <1>1, <1>2
  <2> QED BY <1>8, <2>1, <2>2
<1>11. ASSUME Has(t, D) PROVE LastSays(s, D, v) <=> LastSays(t, D, v)
  <2>1. ASSUME LastSays(s, D, v) PROVE LastSays(t, D, v)
    BY <1>3, <1>6, <1>7, <1>9, <2>1
  <2>2. ASSUME LastSays(t, D, v), NEW i \in 1..n + 1, s[i].does \in D, \A j \in i + 1..n + 1 : s[j].does \notin D
        PROVE  s[i].of = v
    <3>1. i # 1
      BY <1>10, <1>11, <2>2
    <3>2. PICK k \in 1..n : k = i - 1 /\ i = k + 1
      BY <1>1, <1>2, <3>1
    <3>3. t[k].does \in D /\ \A j \in k + 1..n : t[j].does \notin D
      BY <1>3, <1>9, <2>2, <3>2
    <3> QED BY <1>3, <1>7, <2>2, <3>2, <3>3
  <2> QED BY <1>6, <2>1, <2>2
<1>12. ASSUME ~ Has(t, D), Head(s).does \in D PROVE LastSays(s, D, v) <=> Head(s).of = v
  <2>1. ASSUME LastSays(s, D, v) PROVE Head(s).of = v
    BY <1>1, <1>4, <1>6, <1>10, <1>12, <2>1
  <2>2. ASSUME Head(s).of = v, NEW i \in 1..n + 1, s[i].does \in D PROVE s[i].of = v
    BY <1>1, <1>2, <1>8, <1>12, <2>2
  <2> QED BY <1>6, <2>1, <2>2
<1>13. ~ Has(t, D) => LastSays(t, D, v)
  BY <1>7, <1>8
<1>14. ~ Has(s, D) => LastSays(s, D, v)
  BY <1>1 DEF Has, LastSays
<1> QED BY <1>5, <1>11, <1>12, <1>13, <1>14

(* Who a frame is for.                                                      *)
LEMMA MoreReaches ==
    ASSUME NEW X, NEW s \in Seq(X), NEW f \in X, NEW t, t = Append(s, f), NEW c
    PROVE  /\ Reaches(t, c) <=> Reaches(s, c) \/ f.to = c
           /\ Once(s, c) /\ (f.to = c => ~ Reaches(s, c)) => Once(t, c)
<1>1. Len(s) \in Nat /\ Len(t) = Len(s) + 1 /\ (\A i \in 1..Len(s) : t[i] = s[i]) /\ t[Len(s) + 1] = f
  BY OneMore
<1>r. \A x : x \in Range(t) <=> x \in Range(s) \/ x = f
  BY OneMoreIn
<1>2. \A i \in 1..Len(s) + 1 : i \in 1..Len(s) \/ i = Len(s) + 1
  BY <1>1
<1>3. \A i \in 1..Len(s) : s[i] \in Range(s)
  BY DEF Range
<1> QED BY <1>1, <1>r, <1>2, <1>3 DEF Reaches, Once

(* Who is reached when the first frame is taken.                            *)
LEMMA LessReaches ==
    ASSUME NEW X, NEW s \in Seq(X), s # <<>>, NEW t, t = Tail(s), NEW c
    PROVE  /\ Reaches(s, c) <=> Reaches(t, c) \/ Head(s).to = c
           /\ Once(s, c) => Once(t, c) /\ (Head(s).to = c => ~ Reaches(t, c))
<1>1. Len(t) \in Nat /\ Len(s) = Len(t) + 1 /\ (\A i \in 1..Len(t) : t[i] = s[i + 1]) /\ Head(s) = s[1]
      /\ t \in Seq(X)
  BY OneLess
<1>r. \A x : x \in Range(s) <=> x \in Range(t) \/ x = Head(s)
  BY OneLess
<1>2. \A i \in 1..Len(t) : i + 1 \in 1..Len(t) + 1 /\ i + 1 # 1
  BY <1>1
<1>3. 1 \in 1..Len(t) + 1
  BY <1>1
<1>4. ASSUME Once(s, c) PROVE Once(t, c)
  <2> SUFFICES ASSUME NEW i \in 1..Len(t), NEW j \in 1..Len(t), t[i].to = c, t[j].to = c PROVE i = j
    BY DEF Once
  <2>1. i + 1 = j + 1
    BY <1>1, <1>2, <1>4 DEF Once
  <2> QED BY <1>1, <2>1
<1>5. ASSUME Once(s, c), Head(s).to = c PROVE ~ Reaches(t, c)
  <2> SUFFICES ASSUME NEW f \in Range(t), f.to = c PROVE FALSE
    BY DEF Reaches
  <2>1. PICK i \in 1..Len(t) : f = t[i]
    BY <1>1 DEF Range
  <2>2. i + 1 = 1
    BY <1>1, <1>2, <1>3, <1>5, <2>1 DEF Once
  <2> QED BY <1>2, <2>2
<1> QED BY <1>r, <1>4, <1>5 DEF Reaches
(* p[n] are those of the first n elements of s whose places are in I.        *)
Picked(p, s, I) ==
    p = [n \in 0..Len(s) |->
            IF n = 0 THEN <<>> ELSE IF n \in I THEN Append(p[n - 1], s[n]) ELSE p[n - 1]]
PickedUpto(p, s, I, N) ==
    p = [n \in 0..N |-> IF n = 0 THEN <<>> ELSE IF n \in I THEN Append(p[n - 1], s[n]) ELSE p[n - 1]]

(* There is such a function, however long s is.                             *)
LEMMA PickedExists == ASSUME NEW s, NEW I, Len(s) \in Nat PROVE \E p : Picked(p, s, I)
<1> DEFINE T == {N \in Nat : \E p : PickedUpto(p, s, I, N)}
<1>1. 0 \in T
  <2>1. PICK p : p = [n \in 0..0 |-> <<>>]
    OBVIOUS
  <2>2. PickedUpto(p, s, I, 0)
    <3>1. 0..0 = {0}
      OBVIOUS
    <3> QED BY <2>1, <3>1 DEF PickedUpto
  <2> QED BY <2>2
<1>2. ASSUME NEW N \in T PROVE N + 1 \in T
  <2>1. N \in Nat /\ N + 1 \in Nat
    OBVIOUS
  <2>2. PICK p : PickedUpto(p, s, I, N)
    OBVIOUS
  <2>3. PICK g : g = [n \in 0..(N + 1) |->
                        IF n <= N THEN p[n] ELSE IF n \in I THEN Append(p[n - 1], s[n]) ELSE p[n - 1]]
    OBVIOUS
  <2>4. ASSUME NEW n \in 0..(N + 1)
        PROVE  g[n] = IF n = 0 THEN <<>> ELSE IF n \in I THEN Append(g[n - 1], s[n]) ELSE g[n - 1]
    <3>1. CASE n = 0
      <4>1. n \in 0..N /\ n <= N
        BY <2>1, <3>1
      <4>2. p[n] = <<>>
        BY <2>2, <3>1, <4>1 DEF PickedUpto
      <4> QED BY <2>3, <3>1, <4>1, <4>2
    <3>2. CASE n # 0 /\ n <= N
      <4>1. n \in 0..N /\ n - 1 \in 0..(N + 1) /\ n - 1 <= N
        BY <2>1, <3>2
      <4>2. g[n] = p[n] /\ g[n - 1] = p[n - 1]
        BY <2>3, <3>2, <4>1
      <4>3. p[n] = IF n \in I THEN Append(p[n - 1], s[n]) ELSE p[n - 1]
        BY <2>2, <3>2, <4>1 DEF PickedUpto
      <4> QED BY <3>2, <4>2, <4>3
    <3>3. CASE n # 0 /\ ~(n <= N)
      <4>1. n - 1 \in 0..(N + 1) /\ n - 1 <= N
        BY <2>1, <3>3
      <4>2. g[n - 1] = p[n - 1]
        BY <2>3, <4>1
      <4>3. g[n] = IF n \in I THEN Append(p[n - 1], s[n]) ELSE p[n - 1]
        BY <2>3, <3>3
      <4> QED BY <3>3, <4>2, <4>3
    <3> QED BY <3>1, <3>2, <3>3
  <2>5. PickedUpto(g, s, I, N + 1)
    <3>1. g = [n \in 0..(N + 1) |-> g[n]]
      BY <2>3
    <3> HIDE <2>3
    <3>2. g = [n \in 0..(N + 1) |->
                 IF n = 0 THEN <<>> ELSE IF n \in I THEN Append(g[n - 1], s[n]) ELSE g[n - 1]]
      BY ONLY <2>4, <3>1
    <3> QED BY <3>2 DEF PickedUpto
  <2> QED BY <2>1, <2>5
<1>3. T \in SUBSET Nat
  OBVIOUS
<1> HIDE DEF T
<1>4. T = Nat
  BY <1>1, <1>2, <1>3, EveryNatural
<1> QED BY <1>4 DEF T, PickedUpto, Picked

(* g tells where in s the elements of t are: in order, those in I and none   *)
(* but these.                                                               *)
PlacesIn(g, t, s, n, I) ==
    /\ g \in [1..Len(t) -> 1..n]
    /\ \A i, j \in 1..Len(t) : i < j => g[i] < g[j]
    /\ \A i \in 1..Len(t) : g[i] \in I /\ t[i] = s[g[i]]
    /\ \A j \in 1..n : j \in I => \E i \in 1..Len(t) : g[i] = j

(* What is picked step by step is in the order it was in.                   *)
LEMMA PickedIs ==
    ASSUME NEW X, NEW s \in Seq(X), NEW I, NEW p, Picked(p, s, I), NEW t, t = p[Len(s)]
    PROVE  t \in Seq(X) /\ \E g : PlacesIn(g, t, s, Len(s), I)
<1> DEFINE Good(n) == p[n] \in Seq(X) /\ \E g : PlacesIn(g, p[n], s, n, I)
           T == {n \in Nat : n <= Len(s) => Good(n)}
<1>1. 0 \in T
  <2>1. p[0] = <<>>
    BY DEF Picked
  <2>2. <<>> \in Seq(X) /\ 1..Len(<<>>) = {} /\ 1..0 = {}
    OBVIOUS
  <2>3. PICK g : g = [i \in {} |-> 0]
    OBVIOUS
  <2>4. PlacesIn(g, <<>>, s, 0, I)
    BY <2>2, <2>3 DEF PlacesIn
  <2> QED BY <2>1, <2>2, <2>4
<1>2. ASSUME NEW n \in T PROVE n + 1 \in T
  <2>n. n \in Nat /\ n + 1 \in Nat /\ (n <= Len(s) => Good(n))
    OBVIOUS
  <2>1. SUFFICES ASSUME n + 1 <= Len(s) PROVE Good(n + 1)
    <3> HIDE DEF Good
    <3> QED BY <2>n
  <2>2. n \in Nat /\ n + 1 \in 1..Len(s) /\ n + 1 # 0 /\ n + 1 - 1 = n
    BY <2>1
  <2>3. Good(n)
    <3> HIDE DEF Good
    <3>1. n <= Len(s)
      BY <2>2
    <3> QED BY <2>n, <3>1
  <2>4. p[n + 1] = IF n + 1 \in I THEN Append(p[n], s[n + 1]) ELSE p[n]
    <3>1. PICK k \in 0..Len(s) : k = n + 1
      BY <2>2
    <3>2. p[k] = IF k = 0 THEN <<>> ELSE IF k \in I THEN Append(p[k - 1], s[k]) ELSE p[k - 1]
      BY ONLY Picked(p, s, I), k \in 0..Len(s) DEF Picked
    <3> HIDE DEF T
    <3> QED BY ONLY <2>2, <3>1, <3>2
  <2>q. PICK q \in Seq(X) : q = p[n] /\ \E g : PlacesIn(g, q, s, n, I)
    BY <2>3
  <2>5. PICK g : q = p[n] /\ PlacesIn(g, q, s, n, I)
    BY <2>q
  <2>6. Len(q) \in Nat /\ (\A i \in 1..(n + 1) : i \in 1..n \/ i = n + 1) /\ (\A i \in 1..n : i \in 1..(n + 1))
    BY <2>2
  <2> HIDE DEF T
  <2>7. CASE n + 1 \notin I
    <3>1. p[n + 1] = q
      BY <2>4, <2>5, <2>7
    <3>2. PlacesIn(g, q, s, n + 1, I)
      BY <2>5, <2>6, <2>7 DEF PlacesIn
    <3> QED BY <3>1, <3>2
  <2>8. CASE n + 1 \in I
    <3>1. PICK m \in X : m = s[n + 1]
      BY <2>2
    <3>2. PICK r : r = Append(q, m)
      OBVIOUS
    <3>3. /\ r \in Seq(X) /\ Len(r) = Len(q) + 1 /\ r[Len(q) + 1] = m /\ \A i \in 1..Len(q) : r[i] = q[i]
      BY <3>2
    <3>4. p[n + 1] = r
      BY <2>4, <2>5, <2>8, <3>1, <3>2
    <3>5. PICK h : h = [i \in 1..Len(r) |-> IF i \in 1..Len(q) THEN g[i] ELSE n + 1]
      OBVIOUS
    <3>6. (\A i \in 1..Len(r) : i \in 1..Len(q) \/ i = Len(q) + 1) /\ Len(q) + 1 \in 1..Len(r)
          /\ Len(q) + 1 \notin 1..Len(q) /\ \A i \in 1..Len(q) : i \in 1..Len(r)
      BY <2>6, <3>3
    <3>7. (\A i \in 1..Len(q) : h[i] = g[i] /\ g[i] \in 1..n) /\ h[Len(q) + 1] = n + 1
      BY <2>5, <3>5, <3>6 DEF PlacesIn
    <3>8. h \in [1..Len(r) -> 1..(n + 1)]
      <4>1. \A i \in 1..Len(r) : h[i] \in 1..(n + 1)
        BY <2>2, <2>6, <3>6, <3>7
      <4> QED BY <3>5, <4>1
    <3>9. \A i, j \in 1..Len(r) : i < j => h[i] < h[j]
      <4>1. ASSUME NEW i \in 1..Len(r), NEW j \in 1..Len(r), i < j PROVE h[i] < h[j]
        <5>1. i \in 1..Len(q)
          BY <2>6, <3>3, <4>1
        <5>2. CASE j \in 1..Len(q)
          BY <2>5, <3>7, <4>1, <5>1, <5>2 DEF PlacesIn
        <5>3. CASE j = Len(q) + 1
          <6>1. g[i] \in 1..n /\ h[i] = g[i] /\ h[j] = n + 1
            BY <3>7, <5>1, <5>3
          <6> QED BY <2>2, <6>1
        <5> QED BY <3>6, <5>2, <5>3
      <4> QED BY <4>1
    <3>10. \A i \in 1..Len(r) : h[i] \in I /\ r[i] = s[h[i]]
      BY <2>5, <2>8, <3>1, <3>3, <3>6, <3>7 DEF PlacesIn
    <3>11. \A j \in 1..(n + 1) : j \in I => \E i \in 1..Len(r) : h[i] = j
      BY <2>5, <2>6, <3>6, <3>7 DEF PlacesIn
    <3>12. PlacesIn(h, r, s, n + 1, I)
      BY <3>8, <3>9, <3>10, <3>11 DEF PlacesIn
    <3> QED BY <3>3, <3>4, <3>12
  <2> QED BY <2>7, <2>8
<1>3. T \in SUBSET Nat
  OBVIOUS
<1> HIDE DEF T
<1>4. T = Nat
  BY <1>1, <1>2, <1>3, EveryNatural
<1>5. Len(s) \in Nat /\ Len(s) <= Len(s)
  OBVIOUS
<1> HIDE DEF Good
<1>6. Good(Len(s))
  BY <1>4, <1>5 DEF T
<1> QED BY <1>6 DEF Good

Thins(f, s, w) ==
    f = [n \in 0..Len(s) |-> IF n = 0 THEN <<>> ELSE IF s[n].to # w THEN Append(f[n - 1], s[n]) ELSE f[n - 1]]

(* What is left when the frames for w are removed from a queue.              *)
LEMMA ThinnedIs ==
    ASSUME NEW X, NEW s \in Seq(X), NEW w, NEW t, t = Without(s, w)
    PROVE  t \in Seq(X) /\ \E g : PlacesIn(g, t, s, Len(s), {n \in 1..Len(s) : s[n].to # w})
<1> DEFINE I == {n \in 1..Len(s) : s[n].to # w}
<1>1. Len(s) \in Nat /\ \A n \in 0..Len(s) : n # 0 => (n \in I <=> s[n].to # w)
  OBVIOUS
<1>2. \A f : Thins(f, s, w) <=> Picked(f, s, I)
  <2>1. ASSUME NEW f
        PROVE  [n \in 0..Len(s) |->
                  IF n = 0 THEN <<>> ELSE IF s[n].to # w THEN Append(f[n - 1], s[n]) ELSE f[n - 1]]
             = [n \in 0..Len(s) |->
                  IF n = 0 THEN <<>> ELSE IF n \in I THEN Append(f[n - 1], s[n]) ELSE f[n - 1]]
    <3> HIDE DEF I
    <3> QED BY <1>1
  <2> HIDE DEF I
  <2> QED BY <2>1 DEF Picked, Thins
<1>3. PICK f : Picked(f, s, I)
  <2> HIDE DEF I
  <2> QED BY <1>1, PickedExists
<1>4. Thins(f, s, w)
  BY <1>2, <1>3
<1>5. Without(s, w) = (CHOOSE g : Thins(g, s, w))[Len(s)]
  BY DEF Without, Thins
<1>6. Thins(CHOOSE g : Thins(g, s, w), s, w)
  <2> QED BY <1>4, Zenon
<1>7. PICK h : h = CHOOSE g : Thins(g, s, w)
  OBVIOUS
<1>8. Picked(h, s, I) /\ t = h[Len(s)]
  BY <1>2, <1>5, <1>6, <1>7
<1> HIDE DEF I
<1>9. t \in Seq(X) /\ \E g : PlacesIn(g, t, s, Len(s), I)
  BY <1>8, PickedIs
<1> QED BY <1>9 DEF I
(* t is s, but that the frames for w are for nobody or have gone.            *)
FewerBy(g, t, s, w) ==
    /\ g \in [1..Len(t) -> 1..Len(s)]
    /\ \A i, j \in 1..Len(t) : i < j => g[i] < g[j]
    /\ \A i \in 1..Len(t) :
        /\ t[i].does = s[g[i]].does /\ t[i].of = s[g[i]].of
        /\ t[i].to = IF s[g[i]].to = w THEN "nobody" ELSE s[g[i]].to
        /\ s[g[i]].to # w => t[i] = s[g[i]]
    /\ \A j \in 1..Len(s) : s[j].to # w => \E i \in 1..Len(t) : g[i] = j
Fewer(t, s, w) == \E g : FewerBy(g, t, s, w)

(* Ignored keeps each frame in its place.                                   *)
LEMMA IgnoredIs ==
    ASSUME NEW s \in Seq(Frames), NEW w, NEW t, t = Ignored(s, w)
    PROVE  t \in Seq(Frames) /\ Len(t) = Len(s) /\ FewerBy([i \in 1..Len(s) |-> i], t, s, w)
<1>1. Len(s) \in Nat /\ DOMAIN s = 1..Len(s) /\ \A i \in 1..Len(s) : s[i] \in Frames
  OBVIOUS
<1>2. t = [i \in 1..Len(s) |-> IF s[i].to = w THEN [s[i] EXCEPT !.to = "nobody"] ELSE s[i]]
  BY <1>1 DEF Ignored
<1>3. \A f \in Frames : /\ [f EXCEPT !.to = "nobody"] \in Frames /\ [f EXCEPT !.to = "nobody"].to = "nobody"
                        /\ [f EXCEPT !.to = "nobody"].does = f.does /\ [f EXCEPT !.to = "nobody"].of = f.of
  BY DEF Frames, Who
<1>4. t \in Seq(Frames) /\ Len(t) = Len(s)
  BY <1>1, <1>2, <1>3
<1>5. \A i \in 1..Len(s) : /\ t[i].does = s[i].does /\ t[i].of = s[i].of
                           /\ t[i].to = IF s[i].to = w THEN "nobody" ELSE s[i].to
                           /\ s[i].to # w => t[i] = s[i]
  BY <1>1, <1>2, <1>3
<1>6. PICK g : g = [i \in 1..Len(s) |-> i]
  OBVIOUS
<1>7. g \in [1..Len(t) -> 1..Len(s)] /\ \A i \in 1..Len(t) : g[i] = i
  BY <1>4, <1>6
<1>8. FewerBy(g, t, s, w)
  BY <1>4, <1>5, <1>7 DEF FewerBy
<1> QED BY <1>4, <1>6, <1>8

(* Ignored makes the frames to someone go to nobody.                        *)
LEMMA IgnoredIsFewer ==
    ASSUME NEW s \in Seq(Frames), NEW w, NEW t, t = Ignored(s, w)
    PROVE  t \in Seq(Frames) /\ Fewer(t, s, w)
BY IgnoredIs DEF Fewer

(* Without leaves the frames to someone out.                                *)
LEMMA WithoutIsFewer ==
    ASSUME NEW s \in Seq(Frames), NEW w, NEW t, t = Without(s, w)
    PROVE  t \in Seq(Frames) /\ Fewer(t, s, w) /\ \A f \in Range(t) : f \in Range(s) /\ f.to # w
<1>1. t \in Seq(Frames) /\ \E g : PlacesIn(g, t, s, Len(s), {n \in 1..Len(s) : s[n].to # w})
  BY ThinnedIs
<1>2. PICK g : PlacesIn(g, t, s, Len(s), {n \in 1..Len(s) : s[n].to # w})
  BY <1>1
<1>3. FewerBy(g, t, s, w)
  BY <1>1, <1>2 DEF PlacesIn, FewerBy
<1>4. \A f \in Range(t) : f \in Range(s) /\ f.to # w
  <2>1. DOMAIN t = 1..Len(t) /\ DOMAIN s = 1..Len(s)
    BY <1>1
  <2> QED BY <1>2, <2>1 DEF Range, PlacesIn
<1> QED BY <1>1, <1>3, <1>4 DEF Fewer

(* The frames that are left are old ones, or go to nobody now.              *)
LEMMA FewerAre ==
    ASSUME NEW s \in Seq(Frames), NEW w, NEW t \in Seq(Frames), Fewer(t, s, w), NEW f \in Range(t)
    PROVE  \/ f \in Range(s) /\ f.to # w
           \/ f.to = "nobody" /\ \E e \in Range(s) : e.to = w /\ f.does = e.does /\ f.of = e.of
<1>1. PICK g : FewerBy(g, t, s, w)
  BY DEF Fewer
<1>2. DOMAIN t = 1..Len(t) /\ DOMAIN s = 1..Len(s)
  OBVIOUS
<1>3. PICK i \in 1..Len(t) : f = t[i]
  BY <1>2 DEF Range
<1>4. g[i] \in 1..Len(s) /\ s[g[i]] \in Range(s)
  BY <1>1, <1>2 DEF FewerBy, Range
<1> QED BY <1>1, <1>3, <1>4 DEF FewerBy

(* Only who gave up is reached no more.                                     *)
LEMMA FewerReach ==
    ASSUME NEW s \in Seq(Frames), NEW w, NEW t \in Seq(Frames), Fewer(t, s, w), NEW c, c # "nobody"
    PROVE  /\ c # w => (Reaches(t, c) <=> Reaches(s, c))
           /\ c = w => ~ Reaches(t, c)
           /\ Once(s, c) => Once(t, c)
<1>1. PICK g : FewerBy(g, t, s, w)
  BY DEF Fewer
<1>2. DOMAIN t = 1..Len(t) /\ DOMAIN s = 1..Len(s) /\ Len(t) \in Nat /\ Len(s) \in Nat
  OBVIOUS
<1>3. \A i \in 1..Len(t) : g[i] \in 1..Len(s) /\ t[i].to = IF s[g[i]].to = w THEN "nobody" ELSE s[g[i]].to
  BY <1>1 DEF FewerBy
<1>4. ASSUME c # w, Reaches(t, c) PROVE Reaches(s, c)
  BY <1>2, <1>3, <1>4 DEF Reaches, Range
<1>5. ASSUME c # w, Reaches(s, c) PROVE Reaches(t, c)
  <2>1. PICK j \in 1..Len(s) : s[j].to = c
    BY <1>2, <1>5 DEF Reaches, Range
  <2>2. PICK i \in 1..Len(t) : g[i] = j
    BY <1>1, <1>5, <2>1 DEF FewerBy
  <2>3. t[i].to = c /\ t[i] \in Range(t)
    BY <1>2, <1>3, <1>5, <2>1, <2>2 DEF Range
  <2> QED BY <2>3 DEF Reaches
<1>6. ASSUME c = w PROVE ~ Reaches(t, c)
  BY <1>2, <1>3, <1>6 DEF Reaches, Range
<1>7. ASSUME Once(s, c) PROVE Once(t, c)
  <2> SUFFICES ASSUME NEW i \in 1..Len(t), NEW j \in 1..Len(t), t[i].to = c, t[j].to = c PROVE i = j
    BY DEF Once
  <2>1. s[g[i]].to = c /\ s[g[j]].to = c /\ g[i] \in 1..Len(s) /\ g[j] \in 1..Len(s)
    BY <1>3
  <2>2. g[i] = g[j]
    BY <1>7, <2>1 DEF Once
  <2>3. ~ (i < j) /\ ~ (j < i)
    <3>1. g[i] \in Int /\ g[j] \in Int
      BY <2>1
    <3> QED BY <1>1, <2>2, <3>1 DEF FewerBy
  <2> QED BY <1>2, <2>3
<1> QED BY <1>4, <1>5, <1>6, <1>7

(* What is said of things nobody gave up stays said.                        *)
LEMMA FewerSay ==
    ASSUME NEW s \in Seq(Frames), NEW w, NEW t \in Seq(Frames), Fewer(t, s, w), NEW D, NEW v,
           \A f \in Range(s) : f.does \in D => f.to # w
    PROVE  /\ Has(t, D) <=> Has(s, D)
           /\ LastSays(s, D, v) => LastSays(t, D, v)
<1>1. PICK g : FewerBy(g, t, s, w)
  BY DEF Fewer
<1>2. DOMAIN t = 1..Len(t) /\ DOMAIN s = 1..Len(s) /\ Len(t) \in Nat /\ Len(s) \in Nat
  OBVIOUS
<1>3. \A i \in 1..Len(t) : g[i] \in 1..Len(s) /\ t[i].does = s[g[i]].does /\ t[i].of = s[g[i]].of
  BY <1>1 DEF FewerBy
<1>4. \A j \in 1..Len(s) : s[j].does \in D => \E i \in 1..Len(t) : g[i] = j
  <2>1. \A j \in 1..Len(s) : s[j] \in Range(s)
    BY <1>2 DEF Range
  <2> QED BY <1>1, <2>1 DEF FewerBy
<1>5. Has(t, D) <=> Has(s, D)
  <2>1. Has(t, D) => Has(s, D)
    BY <1>3 DEF Has
  <2>2. Has(s, D) => Has(t, D)
    BY <1>3, <1>4 DEF Has
  <2> QED BY <2>1, <2>2
<1>6. ASSUME LastSays(s, D, v) PROVE LastSays(t, D, v)
  <2> SUFFICES ASSUME NEW i \in 1..Len(t), t[i].does \in D, \A j \in i + 1..Len(t) : t[j].does \notin D
               PROVE  t[i].of = v
    BY DEF LastSays
  <2>1. g[i] \in 1..Len(s) /\ s[g[i]].does \in D
    BY <1>3
  <2>2. ASSUME NEW j \in g[i] + 1..Len(s), s[j].does \in D PROVE FALSE
    <3>1. j \in 1..Len(s) /\ j \in Int /\ g[i] \in Int /\ g[i] < j
      BY <1>2, <2>1, <2>2
    <3>2. PICK k \in 1..Len(t) : g[k] = j
      BY <1>4, <2>2, <3>1
    <3>3. ~ (k < i) /\ k # i
      BY <1>1, <3>1, <3>2 DEF FewerBy
    <3>4. k \in i + 1..Len(t)
      BY <1>2, <3>3
    <3>5. t[k].does \in D
      BY <1>3, <2>2, <3>2
    <3> QED BY <3>4, <3>5
  <2>3. s[g[i]].of = v
    BY <1>6, <2>1, <2>2 DEF LastSays
  <2> QED BY <1>3, <2>3
<1> QED BY <1>5, <1>6

(* A touch that was ended stays ended, for no touch awaits an answer.       *)
LEMMA FewerSettle ==
    ASSUME NEW s \in Seq(Frames), NEW w, NEW t \in Seq(Frames), Fewer(t, s, w), Settled(s),
           \A f \in Range(s) : f.does = "touch" => f.to # w
    PROVE  Settled(t)
<1>1. PICK g : FewerBy(g, t, s, w)
  BY DEF Fewer
<1>2. DOMAIN t = 1..Len(t) /\ DOMAIN s = 1..Len(s) /\ Len(t) \in Nat /\ Len(s) \in Nat
  OBVIOUS
<1>3. \A i \in 1..Len(t) : g[i] \in 1..Len(s) /\ t[i].does = s[g[i]].does /\ t[i].of = s[g[i]].of
  BY <1>1 DEF FewerBy
<1>4. \A j \in 1..Len(s) : s[j].does = "touch" => \E i \in 1..Len(t) : g[i] = j
  <2>1. \A j \in 1..Len(s) : s[j] \in Range(s)
    BY <1>2 DEF Range
  <2> QED BY <1>1, <2>1 DEF FewerBy
<1> SUFFICES ASSUME NEW i \in 1..Len(t), t[i].does = "touch", t[i].of \in Down
             PROVE  \E j \in i + 1..Len(t) : t[j].does = "touch" /\ t[j].of \notin Down
  BY DEF Settled
<1>5. g[i] \in 1..Len(s) /\ s[g[i]].does = "touch" /\ s[g[i]].of \in Down
  BY <1>3
<1>6. PICK j \in g[i] + 1..Len(s) : s[j].does = "touch" /\ s[j].of \notin Down
  BY <1>5 DEF Settled
<1>7. j \in 1..Len(s) /\ j \in Int /\ g[i] \in Int /\ g[i] < j
  BY <1>2, <1>5, <1>6
<1>8. PICK k \in 1..Len(t) : g[k] = j
  BY <1>4, <1>6, <1>7
<1>9. ~ (k < i) /\ k # i
  BY <1>1, <1>7, <1>8 DEF FewerBy
<1>10. k \in i + 1..Len(t)
  BY <1>2, <1>9
<1> QED BY <1>3, <1>6, <1>8, <1>10

(* The end of a touch settles it; another frame leaves it settled.          *)
LEMMA MoreSettles ==
    ASSUME NEW s \in Seq(Frames), NEW f \in Frames, NEW t, t = Append(s, f)
    PROVE  /\ f.does = "touch" /\ f.of \notin Down => Settled(t)
           /\ f.does # "touch" /\ Settled(s) => Settled(t)
<1>1. Len(s) \in Nat /\ Len(t) = Len(s) + 1 /\ (\A i \in 1..Len(s) : t[i] = s[i]) /\ t[Len(s) + 1] = f
  BY OneMore
<1>2. \A i \in 1..Len(s) + 1 : i \in 1..Len(s) \/ i = Len(s) + 1
  BY <1>1
<1>3. \A i \in 1..Len(s) : Len(s) + 1 \in i + 1..Len(t) /\ \A j \in i + 1..Len(s) : j \in i + 1..Len(t) /\ j \in 1..Len(s)
  BY <1>1
<1>4. ASSUME f.does = "touch", f.of \notin Down PROVE Settled(t)
  BY <1>1, <1>2, <1>3, <1>4 DEF Settled
<1>5. ASSUME f.does # "touch", Settled(s) PROVE Settled(t)
  <2> SUFFICES ASSUME NEW i \in 1..Len(t), t[i].does = "touch", t[i].of \in Down
               PROVE  \E j \in i + 1..Len(t) : t[j].does = "touch" /\ t[j].of \notin Down
    BY DEF Settled
  <2>1. i \in 1..Len(s) /\ t[i] = s[i]
    BY <1>1, <1>2, <1>5
  <2>2. PICK j \in i + 1..Len(s) : s[j].does = "touch" /\ s[j].of \notin Down
    BY <1>5, <2>1 DEF Settled
  <2> QED BY <1>1, <1>3, <2>1, <2>2
<1> QED BY <1>4, <1>5

(* What is left of settled touches is settled when the first is sent.       *)
LEMMA LessSettles ==
    ASSUME NEW s \in Seq(Frames), s # <<>>, Settled(s), NEW t, t = Tail(s)
    PROVE  /\ Settled(t)
           /\ Head(s).does = "touch" /\ Head(s).of \in Down => Has(t, {"touch"})
<1>1. Len(t) \in Nat /\ Len(s) = Len(t) + 1 /\ (\A i \in 1..Len(t) : t[i] = s[i + 1]) /\ Head(s) = s[1]
  BY OneLess
<1>2. ASSUME NEW k \in 1..Len(s), s[k].does = "touch", s[k].of \in Down
      PROVE  \E j \in 1..Len(t) : j >= k /\ t[j].does = "touch" /\ t[j].of \notin Down
  <2>1. PICK j \in k + 1..Len(s) : s[j].does = "touch" /\ s[j].of \notin Down
    BY <1>2 DEF Settled
  <2>2. j - 1 \in 1..Len(t) /\ j - 1 >= k /\ (j - 1) + 1 = j
    BY <1>1, <2>1
  <2> QED BY <1>1, <2>1, <2>2
<1>3. ASSUME NEW i \in 1..Len(t), t[i].does = "touch", t[i].of \in Down
      PROVE  \E j \in i + 1..Len(t) : t[j].does = "touch" /\ t[j].of \notin Down
  <2>1. i + 1 \in 1..Len(s) /\ t[i] = s[i + 1]
    BY <1>1
  <2>2. PICK j \in 1..Len(t) : j >= i + 1 /\ t[j].does = "touch" /\ t[j].of \notin Down
    BY <1>2, <1>3, <2>1
  <2>3. j \in i + 1..Len(t)
    BY <1>1, <2>2
  <2> QED BY <2>2, <2>3
<1>4. Head(s).does = "touch" /\ Head(s).of \in Down => Has(t, {"touch"})
  <2>1. 1 \in 1..Len(s)
    BY <1>1
  <2> QED BY <1>1, <1>2, <2>1 DEF Has
<1> QED BY <1>3, <1>4 DEF Settled

-----------------------------------------------------------------------------
(* The calls.                                                               *)
LEMMA PairedAndThen ==
    ASSUME NEW p \in Seq(StageOf), NEW q \in Seq(StageOf), Paired(p), Paired(q)
    PROVE  p \o q \in Seq(StageOf) /\ Paired(p \o q)
<1>1. PICK r : r = p \o q
  OBVIOUS
<1>2. /\ r \in Seq(StageOf) /\ Len(r) = Len(p) + Len(q) /\ Len(p) \in Nat /\ Len(q) \in Nat
      /\ \A i \in 1..Len(p) : r[i] = p[i]
      /\ \A i \in 1..Len(q) : r[Len(p) + i] = q[i]
  BY <1>1
<1>3. PICK m \in Nat, n \in Nat : m = Len(p) /\ n = Len(q)
  BY <1>2
<1>4. \A i \in 1..m + n : i \in 1..m \/ (i - m \in 1..n /\ i = m + (i - m))
  BY <1>3
<1>5. \A i \in 1..m : \A j \in i + 1..m : j \in 1..m /\ j \in i + 1..m + n
  BY <1>3
<1>6. \A i \in 1..n : \A j \in i + 1..n : j \in 1..n /\ m + j \in (m + i) + 1..m + n
  BY <1>3
<1>7. ASSUME NEW i \in 1..m + n
      PROVE  /\ r[i].does = "press" => \E j \in i + 1..m + n : r[j] = Release(r[i].of)
             /\ r[i].does = "touch" /\ r[i].of \in {"press", "hold"} => \E j \in i + 1..m + n : r[j] = Lifts
  <2>1. CASE i \in 1..m
    <3>1. r[i] = p[i]
      BY <1>2, <1>3, <2>1
    <3>2. /\ p[i].does = "press" => \E j \in i + 1..m : p[j] = Release(p[i].of)
          /\ p[i].does = "touch" /\ p[i].of \in {"press", "hold"} => \E j \in i + 1..m : p[j] = Lifts
      BY <1>3, <2>1 DEF Paired
    <3> QED BY <1>2, <1>3, <1>5, <2>1, <3>1, <3>2
  <2>2. CASE i \notin 1..m
    <3>1. PICK k \in 1..n : i = m + k
      BY <1>4, <2>2
    <3>2. r[i] = q[k]
      BY <1>2, <1>3, <3>1
    <3>3. /\ q[k].does = "press" => \E j \in k + 1..n : q[j] = Release(q[k].of)
          /\ q[k].does = "touch" /\ q[k].of \in {"press", "hold"} => \E j \in k + 1..n : q[j] = Lifts
      BY <1>3, <3>1 DEF Paired
    <3>4. \A j \in k + 1..n : m + j \in i + 1..m + n /\ r[m + j] = q[j]
      BY <1>2, <1>3, <1>6, <3>1
    <3> QED BY <3>2, <3>3, <3>4
  <2> QED BY <2>1, <2>2
<1>8. Paired(r)
  BY <1>2, <1>3, <1>7 DEF Paired
<1> QED BY <1>1, <1>2, <1>8

(* The stages that the calls are made of.                                   *)
LEMMA StagesAre ==
    /\ \A k \in Buttons : Press(k) \in StageOf /\ Release(k) \in StageOf
    /\ \A n \in Level : Stage("set", n) \in StageOf
    /\ \A x \in {"press", "hold", "release", "click"} : Stage("touch", x) \in StageOf
    /\ \A x \in {"sleep", "forget", "volume", "stop", "start", "command"} : Stage(x, "") \in StageOf
    /\ \A x \in {"clear", "input"} : Stage("type", x) \in StageOf
BY DEF Press, Release, Stage, StageOf

(* One stage that sets nothing down.                                        *)
LEMMA OneStage ==
    ASSUME NEW x \in StageOf, x.does # "press", ~ (x.does = "touch" /\ x.of \in {"press", "hold"})
    PROVE  <<x>> \in Seq(StageOf) /\ Paired(<<x>>)
<1>1. <<x>> \in Seq(StageOf) /\ Len(<<x>>) = 1 /\ <<x>>[1] = x
  OBVIOUS
<1>2. \A i \in 1..1 : i = 1
  OBVIOUS
<1> QED BY <1>1, <1>2 DEF Paired

(* A press, and the release that follows it.                                *)
LEMMA PressAndRelease ==
    ASSUME NEW k \in Buttons
    PROVE  /\ <<Press(k), Release(k)>> \in Seq(StageOf) /\ Paired(<<Press(k), Release(k)>>)
           /\ <<Press(k), Sleep, Release(k)>> \in Seq(StageOf) /\ Paired(<<Press(k), Sleep, Release(k)>>)
<1>1. PICK p, r, w : p = Press(k) /\ r = Release(k) /\ w = Sleep
  OBVIOUS
<1>2. p \in StageOf /\ r \in StageOf /\ w \in StageOf
  BY <1>1, StagesAre DEF Sleep
<1>3. p.does = "press" /\ p.of = k /\ r.does = "release" /\ w.does = "sleep"
  BY <1>1 DEF Press, Release, Sleep, Stage
<1>4. Paired(<<p, r>>)
  <2>1. PICK s : s = <<p, r>>
    OBVIOUS
  <2>2. Len(s) = 2 /\ s[1] = p /\ s[2] = r
    BY <2>1
  <2>3. \A i \in 1..2 : i = 1 \/ i = 2
    OBVIOUS
  <2>4. 2 \in 1 + 1..2
    OBVIOUS
  <2> QED BY <1>1, <1>3, <2>1, <2>2, <2>3, <2>4 DEF Paired
<1>5. Paired(<<p, w, r>>)
  <2>1. PICK s : s = <<p, w, r>>
    OBVIOUS
  <2>2. Len(s) = 3 /\ s[1] = p /\ s[2] = w /\ s[3] = r
    BY <2>1
  <2>3. \A i \in 1..3 : i = 1 \/ i = 2 \/ i = 3
    OBVIOUS
  <2>4. 3 \in 1 + 1..3
    OBVIOUS
  <2> QED BY <1>1, <1>3, <2>1, <2>2, <2>3, <2>4 DEF Paired
<1> QED BY <1>1, <1>2, <1>4, <1>5
(* Short sequences put together.                                            *)
LEMMA JoinsAre ==
    ASSUME NEW X, NEW a \in X, NEW b \in X, NEW c \in X
    PROVE  /\ <<a>> \o <<b>> = <<a, b>>
           /\ <<a, b>> \o <<c>> = <<a, b, c>>
           /\ <<a>> \o <<b, c>> = <<a, b, c>>
           /\ <<a>> \o <<>> = <<a>>
<1>1. <<a>> \in Seq(X) /\ <<b>> \in Seq(X) /\ <<c>> \in Seq(X) /\ <<a, b>> \in Seq(X)
      /\ <<b, c>> \in Seq(X) /\ <<a, b, c>> \in Seq(X) /\ <<>> \in Seq(X)
  OBVIOUS
<1>2. /\ \A i \in 1..2 : i = 1 \/ i = 2
      /\ \A i \in 1..3 : i = 1 \/ i = 2 \/ i = 3
  OBVIOUS
<1>3. <<a>> \o <<b>> = <<a, b>>
  <2>1. PICK s, t : s = <<a>> \o <<b>> /\ t = <<a, b>>
    OBVIOUS
  <2>2. s \in Seq(X) /\ Len(s) = 2 /\ s[1] = a /\ s[2] = b
    BY <1>1, <2>1
  <2>3. t \in Seq(X) /\ Len(t) = 2 /\ t[1] = a /\ t[2] = b
    BY <1>1, <2>1
  <2>4. s = t
    BY ONLY <1>2, <2>2, <2>3, SeqEqual
  <2> QED BY <2>1, <2>4
<1>4. <<a, b>> \o <<c>> = <<a, b, c>>
  <2>1. PICK s, t : s = <<a, b>> \o <<c>> /\ t = <<a, b, c>>
    OBVIOUS
  <2>2. s \in Seq(X) /\ Len(s) = 3 /\ s[1] = a /\ s[2] = b /\ s[3] = c
    BY <1>1, <2>1
  <2>3. t \in Seq(X) /\ Len(t) = 3 /\ t[1] = a /\ t[2] = b /\ t[3] = c
    BY <1>1, <2>1
  <2>4. s = t
    BY ONLY <1>2, <2>2, <2>3, SeqEqual
  <2> QED BY <2>1, <2>4
<1>5. <<a>> \o <<b, c>> = <<a, b, c>>
  <2>1. PICK s, t : s = <<a>> \o <<b, c>> /\ t = <<a, b, c>>
    OBVIOUS
  <2>2. s \in Seq(X) /\ Len(s) = 3 /\ s[1] = a /\ s[2] = b /\ s[3] = c
    BY <1>1, <2>1
  <2>3. t \in Seq(X) /\ Len(t) = 3 /\ t[1] = a /\ t[2] = b /\ t[3] = c
    BY <1>1, <2>1
  <2>4. s = t
    BY ONLY <1>2, <2>2, <2>3, SeqEqual
  <2> QED BY <2>1, <2>4
<1>7. <<a>> \o <<>> = <<a>>
  BY ONLY <1>1, ConcatEmptySeq
<1> QED BY <1>3, <1>4, <1>5, <1>7

(* Three stages and one more.                                               *)
LEMMA ThreeAndOne ==
    ASSUME NEW X, NEW a \in X, NEW b \in X, NEW c \in X, NEW d \in X
    PROVE  <<a, b, c>> \o <<d>> = <<a, b, c, d>>
<1>0. <<a, b, c>> \in Seq(X) /\ <<d>> \in Seq(X)
  OBVIOUS
<1>5. \A i \in 1..4 : i = 1 \/ i = 2 \/ i = 3 \/ i = 4
  OBVIOUS
<1>1. PICK s, t : s = <<a, b, c>> \o <<d>> /\ t = <<a, b, c, d>>
  OBVIOUS
<1>2. s \in Seq(X) /\ Len(s) = 4 /\ s[1] = a /\ s[2] = b /\ s[3] = c /\ s[4] = d
  BY <1>0, <1>1
<1>3. t \in Seq(X) /\ Len(t) = 4 /\ t[1] = a /\ t[2] = b /\ t[3] = c /\ t[4] = d
  BY <1>0, <1>1
<1>4. s = t
  BY ONLY <1>5, <1>2, <1>3, SeqEqual
<1> QED BY <1>1, <1>4
(* FlattenSeq of none and of one.                                           *)
FlattensTo(f, ss) == f = [i \in 1..Len(ss) |-> IF i = 1 THEN ss[i] ELSE f[i - 1] \o ss[i]]
(* FlattenSeq of one sequence is that sequence.                             *)
LEMMA FlatOne ==
    ASSUME NEW x, NEW ss, ss = [i \in 1..1 |-> x]
    PROVE  FlattenSeq(ss) = x
<1>1. Len(ss) = 1 /\ ss[1] = x /\ 1..1 = {1}
  OBVIOUS
<1>2. PICK f : f = [i \in 1..1 |-> x]
  OBVIOUS
<1>3. FlattensTo(f, ss)
  BY <1>1, <1>2 DEF FlattensTo
<1>4. FlattensTo(CHOOSE g : FlattensTo(g, ss), ss)
  BY <1>3, Zenon
<1>5. PICK g : g = CHOOSE h : FlattensTo(h, ss)
  OBVIOUS
<1>6. g[1] = x
  <2>1. g = [i \in 1..Len(ss) |-> IF i = 1 THEN ss[i] ELSE g[i - 1] \o ss[i]]
    BY <1>4, <1>5 DEF FlattensTo
  <2> QED BY <1>1, <2>1
<1>7. FlattenSeq(ss) = (CHOOSE h : FlattensTo(h, ss))[Len(ss)]
  <2>1. Len(ss) # 0
    BY <1>1
  <2> QED BY <2>1, Zenon DEF FlattenSeq, FlattensTo
<1> QED BY <1>1, <1>5, <1>6, <1>7

(* FlattenSeq of none is empty.                                             *)
LEMMA FlatNone == ASSUME NEW ss, ss = <<>> PROVE FlattenSeq(ss) = <<>>
BY DEF FlattenSeq

(* The stages of the swipes.                                                *)
LEMMA SwipeIs ==
    /\ Swipe(0) = <<Stage("touch", "press")>> \o <<>> \o <<Lifts>>
    /\ Swipe(1) = <<Stage("touch", "press")>> \o <<Stage("touch", "hold"), Sleep>> \o <<Lifts>>
<1>1. [i \in 1..0 |-> <<Stage("touch", "hold"), Sleep>>] = <<>>
  OBVIOUS
<1>2. FlattenSeq([i \in 1..0 |-> <<Stage("touch", "hold"), Sleep>>]) = <<>>
  BY <1>1, FlatNone
<1>3. FlattenSeq([i \in 1..1 |-> <<Stage("touch", "hold"), Sleep>>]) = <<Stage("touch", "hold"), Sleep>>
  BY FlatOne
<1> QED BY ONLY <1>2, <1>3, Zenon DEF Swipe, Lifts

(* A swipe lifts the finger at its end.                                     *)
LEMMA SwipesPair ==
    ASSUME NEW n \in {0, 1} PROVE Swipe(n) \in Seq(StageOf) /\ Paired(Swipe(n))
<1>1. PICK p, h, w, l : p = Stage("touch", "press") /\ h = Stage("touch", "hold") /\ w = Sleep /\ l = Lifts
  OBVIOUS
<1>2. p \in StageOf /\ h \in StageOf /\ w \in StageOf /\ l \in StageOf
  BY <1>1, StagesAre DEF Sleep, Lifts
<1>3. p.does = "touch" /\ h.does = "touch" /\ w.does = "sleep" /\ l.does = "touch" /\ l.of = "release"
  BY <1>1 DEF Sleep, Lifts, Stage
<1>4. Swipe(0) = <<p, l>>
  <2>1. (<<p>> \o <<>>) \o <<l>> = <<p, l>>
    BY ONLY <1>2, JoinsAre
  <2> QED BY <1>1, <2>1, SwipeIs
<1>5. Swipe(1) = <<p, h, w, l>>
  <2>2. <<p>> \o <<h, w>> = <<p, h, w>>
    BY ONLY <1>2, JoinsAre
  <2>3. <<p, h, w>> \o <<l>> = <<p, h, w, l>>
    BY ONLY <1>2, ThreeAndOne
  <2>1. (<<p>> \o <<h, w>>) \o <<l>> = <<p, h, w, l>>
    BY ONLY <2>2, <2>3, Zenon
  <2> QED BY <1>1, <2>1, SwipeIs
<1>6. <<p, l>> \in Seq(StageOf) /\ <<p, h, w, l>> \in Seq(StageOf)
  BY <1>2
<1>7. Paired(<<p, l>>)
  <2>1. PICK s : s = <<p, l>>
    OBVIOUS
  <2>2. Len(s) = 2 /\ s[1] = p /\ s[2] = l
    BY <2>1
  <2>3. \A i \in 1..2 : i = 1 \/ i = 2
    OBVIOUS
  <2>4. 2 \in 1 + 1..2
    OBVIOUS
  <2> QED BY <1>1, <1>3, <2>1, <2>2, <2>3, <2>4 DEF Paired
<1>8. Paired(<<p, h, w, l>>)
  <2>1. PICK s : s = <<p, h, w, l>>
    OBVIOUS
  <2>2. Len(s) = 4 /\ s[1] = p /\ s[2] = h /\ s[3] = w /\ s[4] = l
    BY <2>1
  <2>3. \A i \in 1..4 : i = 1 \/ i = 2 \/ i = 3 \/ i = 4
    OBVIOUS
  <2>4. 4 \in 1 + 1..4 /\ 4 \in 2 + 1..4
    OBVIOUS
  <2> QED BY <1>1, <1>3, <2>1, <2>2, <2>3, <2>4 DEF Paired
<1> QED BY <1>4, <1>5, <1>6, <1>7, <1>8

GoodCall(p) == p \in Seq(StageOf) /\ Paired(p)
(* A good call after a good call is one.                                    *)
LEMMA GoodAndThen == ASSUME NEW p, NEW q, GoodCall(p), GoodCall(q) PROVE GoodCall(p \o q)
BY PairedAndThen DEF GoodCall

(* The stages that are calls by themselves.                                 *)
LEMMA PlainStages ==
    /\ \A k \in Buttons : GoodCall(<<Release(k)>>)
    /\ \A n \in Level : GoodCall(<<Stage("set", n)>>)
    /\ \A x \in {"sleep", "forget", "volume", "stop", "start", "command"} : GoodCall(<<Stage(x, "")>>)
    /\ \A x \in {"clear", "input"} : GoodCall(<<Stage("type", x)>>)
    /\ GoodCall(<<Stage("touch", "click")>>)
    /\ GoodCall(<<>>)
<1>1. ASSUME NEW k \in Buttons PROVE GoodCall(<<Release(k)>>)
  <2>1. Release(k) \in StageOf /\ Release(k).does = "release"
    BY StagesAre DEF Release, Stage
  <2> QED BY <2>1, OneStage DEF GoodCall
<1>2. ASSUME NEW n \in Level PROVE GoodCall(<<Stage("set", n)>>)
  <2>1. Stage("set", n) \in StageOf /\ Stage("set", n).does = "set"
    BY StagesAre DEF Stage
  <2> QED BY <2>1, OneStage DEF GoodCall
<1>3. ASSUME NEW x \in {"sleep", "forget", "volume", "stop", "start", "command"} PROVE GoodCall(<<Stage(x, "")>>)
  <2>1. Stage(x, "") \in StageOf /\ Stage(x, "").does # "press" /\ Stage(x, "").does # "touch"
    BY StagesAre DEF Stage
  <2>2. PICK y : y = Stage(x, "")
    OBVIOUS
  <2>3. y \in StageOf /\ y.does # "press" /\ y.does # "touch"
    BY ONLY <2>1, <2>2
  <2>4. <<y>> \in Seq(StageOf) /\ Paired(<<y>>)
    BY ONLY <2>3, OneStage
  <2> QED BY <2>2, <2>4 DEF GoodCall
<1>4. ASSUME NEW x \in {"clear", "input"} PROVE GoodCall(<<Stage("type", x)>>)
  <2>1. Stage("type", x) \in StageOf /\ Stage("type", x).does = "type"
    BY StagesAre DEF Stage
  <2> QED BY <2>1, OneStage DEF GoodCall
<1>5. GoodCall(<<Stage("touch", "click")>>)
  <2>1. Stage("touch", "click") \in StageOf /\ Stage("touch", "click").of = "click"
    BY StagesAre DEF Stage
  <2>2. PICK y : y = Stage("touch", "click")
    OBVIOUS
  <2>3. y \in StageOf /\ y.does # "press" /\ ~ (y.does = "touch" /\ y.of \in {"press", "hold"})
    BY <2>1, <2>2 DEF Stage
  <2>4. <<y>> \in Seq(StageOf) /\ Paired(<<y>>)
    BY ONLY <2>3, OneStage
  <2> QED BY <2>2, <2>4 DEF GoodCall
<1>6. GoodCall(<<>>)
  BY DEF GoodCall, Paired
<1> QED BY <1>1, <1>2, <1>3, <1>4, <1>5, <1>6

(* What is pressed or touched in a call is released later in that call.      *)
LEMMA ProgramsAreGood == ASSUME NEW p \in Programs PROVE GoodCall(p)
<1>1. \A k \in Buttons : GoodCall(<<Press(k), Release(k)>>) /\ GoodCall(<<Press(k), Sleep, Release(k)>>)
  BY PressAndRelease DEF GoodCall
<1>2. {"select", "wake", "volumeUp", "volumeDown"} \subseteq Buttons
  BY DEF Buttons
<1>3. \A k \in Buttons : <<Press(k), Release(k), Press(k), Release(k)>> = <<Press(k), Release(k)>> \o <<Press(k), Release(k)>>
  OBVIOUS
<1>4. \A k \in Buttons : GoodCall(<<Press(k), Release(k), Press(k), Release(k)>>)
  BY <1>1, <1>3, GoodAndThen
<1>5. \A a \in {"SingleTap", "Hold", "DoubleTap"} : GoodCall(PressButton("select", a))
  BY <1>1, <1>2, <1>4 DEF PressButton
<1>6. \A a \in {"SingleTap", "DoubleTap"} : GoodCall(Click(a))
  <2>1. PICK k, w, r, c : k = Press("select") /\ w = Sleep /\ r = Release("select") /\ c = Stage("touch", "click")
    OBVIOUS
  <2>2. <<k, w, r, c>> = <<k, w, r>> \o <<c>>
    OBVIOUS
  <2>3. GoodCall(<<k, w, r, c>>)
    BY <1>1, <1>2, <2>1, <2>2, GoodAndThen, PlainStages
  <2>4. GoodCall(<<k, w, r, c>> \o <<k, w, r, c>>)
    BY <2>3, GoodAndThen
  <2> QED BY <2>1, <2>3, <2>4 DEF Click
<1>7. GoodCall(Swipe(0)) /\ GoodCall(Swipe(1))
  BY SwipesPair DEF GoodCall
<1>8. GoodCall(Turn("wake")) /\ GoodCall(Command)
  BY <1>2, PlainStages DEF Turn, Command
<1>9. \A n \in Level : GoodCall(SetVolume(n))
  <2> SUFFICES ASSUME NEW n \in Level PROVE GoodCall(SetVolume(n))
    OBVIOUS
  <2>1. PICK f, s, v : f = Stage("forget", "") /\ s = Stage("set", n) /\ v = Stage("volume", "")
    OBVIOUS
  <2>5. f \in StageOf /\ s \in StageOf /\ v \in StageOf
    BY <2>1, StagesAre
  <2>2. <<f, s, v>> = (<<f>> \o <<s>>) \o <<v>>
    BY ONLY <2>5, JoinsAre
  <2>3. GoodCall(<<f>>) /\ GoodCall(<<s>>) /\ GoodCall(<<v>>)
    BY <2>1, PlainStages
  <2>4. GoodCall(<<f, s, v>>)
    BY <2>2, <2>3, GoodAndThen
  <2> QED BY <2>1, <2>4 DEF SetVolume
<1>10. \A k \in Buttons : GoodCall(StepVolume(k))
  <2> SUFFICES ASSUME NEW k \in Buttons PROVE GoodCall(StepVolume(k))
    OBVIOUS
  <2>1. PICK f, s, r, v : f = Stage("forget", "") /\ s = Press(k) /\ r = Release(k) /\ v = Stage("volume", "")
    OBVIOUS
  <2>2. <<f, s, r, v>> = (<<f>> \o <<s, r>>) \o <<v>>
    OBVIOUS
  <2>3. GoodCall(<<f>>) /\ GoodCall(<<s, r>>) /\ GoodCall(<<v>>)
    BY <1>1, <2>1, PlainStages
  <2>4. GoodCall(<<f, s, r, v>>)
    BY <2>2, <2>3, GoodAndThen
  <2> QED BY <2>1, <2>4 DEF StepVolume
<1>11. \A clear, text \in BOOLEAN : GoodCall(TextInput(clear, text))
  <2> SUFFICES ASSUME NEW clear \in BOOLEAN, NEW text \in BOOLEAN PROVE GoodCall(TextInput(clear, text))
    OBVIOUS
  <2>1. PICK s, t : s = Stage("stop", "") /\ t = Stage("start", "")
    OBVIOUS
  <2>2. PICK c, i : c = (IF clear THEN <<Stage("type", "clear")>> ELSE <<>>)
                    /\ i = (IF text THEN <<Stage("type", "input")>> ELSE <<>>)
    OBVIOUS
  <2>3. GoodCall(c) /\ GoodCall(i)
    BY <2>2, PlainStages
  <2>8. s \in StageOf /\ t \in StageOf
    BY <2>1, StagesAre
  <2>4. <<s, t>> = <<s>> \o <<t>>
    BY ONLY <2>8, JoinsAre
  <2>5. GoodCall(<<s, t>>)
    BY <2>1, <2>4, GoodAndThen, PlainStages
  <2>6. GoodCall((<<s, t>> \o c) \o i)
    BY <2>3, <2>5, GoodAndThen
  <2>7. TextInput(clear, text) = (<<s, t>> \o c) \o i
    BY ONLY <2>1, <2>2, Zenon DEF TextInput
  <2> QED BY <2>6, <2>7
<1> QED BY <1>2, <1>5, <1>6, <1>7, <1>8, <1>9, <1>10, <1>11 DEF Programs
-----------------------------------------------------------------------------
(* What is known in the end, as frames come and go.                         *)
LEMMA EndMore ==
    ASSUME NEW s \in Seq(Frames), NEW f \in Frames, NEW t, t = Append(s, f), NEW sooner, NEW D, NEW v, NEW k
    PROVE  /\ f.does \in D /\ f.of = v => InTheEnd(t, sooner, D, v, k)
           /\ f.does \notin D /\ InTheEnd(s, sooner, D, v, k) => InTheEnd(t, sooner, D, v, k)
<1>1. /\ Has(t, D) <=> Has(s, D) \/ f.does \in D
      /\ f.does \in D => (LastSays(t, D, v) <=> f.of = v)
      /\ f.does \notin D => (LastSays(t, D, v) <=> LastSays(s, D, v))
  BY MoreIsSaid
<1> QED BY ONLY <1>1, Zenon DEF InTheEnd

(* A frame of something else may follow in the nearer queue.                *)
LEMMA EndMoreSooner ==
    ASSUME NEW s \in Seq(Frames), NEW f \in Frames, NEW t, t = Append(s, f), NEW later, NEW D, NEW v, NEW k,
           f.does \notin D, InTheEnd(later, s, D, v, k)
    PROVE  InTheEnd(later, t, D, v, k)
<1>1. /\ Has(t, D) <=> Has(s, D) \/ f.does \in D
      /\ f.does \notin D => (LastSays(t, D, v) <=> LastSays(s, D, v))
  BY MoreIsSaid
<1> QED BY <1>1, Zenon DEF InTheEnd

(* A frame goes from the farther queue to the nearer one.                   *)
LEMMA EndMoves ==
    ASSUME NEW s \in Seq(Frames), s # <<>>, NEW t, t = Tail(s), NEW q \in Seq(Frames), NEW r, r = Append(q, Head(s)),
           NEW D, NEW v, NEW k, InTheEnd(s, q, D, v, k)
    PROVE  InTheEnd(t, r, D, v, k)
<1>0. Head(s) \in Frames
  BY OneLess
<1>1. /\ Has(s, D) <=> Head(s).does \in D \/ Has(t, D)
      /\ Has(t, D) => (LastSays(s, D, v) <=> LastSays(t, D, v))
      /\ ~ Has(t, D) /\ Head(s).does \in D => (LastSays(s, D, v) <=> Head(s).of = v)
      /\ ~ Has(t, D) => LastSays(t, D, v)
  BY LessIsSaid
<1>2. /\ Has(r, D) <=> Has(q, D) \/ Head(s).does \in D
      /\ Head(s).does \in D => (LastSays(r, D, v) <=> Head(s).of = v)
      /\ Head(s).does \notin D => (LastSays(r, D, v) <=> LastSays(q, D, v))
  BY <1>0, MoreIsSaid
<1> QED BY <1>1, <1>2, Zenon DEF InTheEnd

(* A frame of something else is taken from the farther queue.               *)
LEMMA EndLess ==
    ASSUME NEW s \in Seq(Frames), s # <<>>, NEW t, t = Tail(s), NEW q, NEW D, NEW v, NEW k,
           Head(s).does \notin D, InTheEnd(s, q, D, v, k)
    PROVE  InTheEnd(t, q, D, v, k)
<1>1. /\ Has(s, D) <=> Head(s).does \in D \/ Has(t, D)
      /\ Has(t, D) => (LastSays(s, D, v) <=> LastSays(t, D, v))
      /\ ~ Has(t, D) => LastSays(t, D, v)
  BY LessIsSaid
<1> QED BY <1>1, Zenon DEF InTheEnd

(* The first frame of the nearer queue is taken, and known from now on.     *)
LEMMA EndTaken ==
    ASSUME NEW s \in Seq(Frames), s # <<>>, NEW t, t = Tail(s), NEW q, NEW D, NEW v, NEW k, NEW m,
           Head(s).does \in D => m = Head(s).of, Head(s).does \notin D => m = k, InTheEnd(q, s, D, v, k)
    PROVE  InTheEnd(q, t, D, v, m)
<1>1. /\ Has(s, D) <=> Head(s).does \in D \/ Has(t, D)
      /\ Has(t, D) => (LastSays(s, D, v) <=> LastSays(t, D, v))
      /\ ~ Has(t, D) /\ Head(s).does \in D => (LastSays(s, D, v) <=> Head(s).of = v)
      /\ ~ Has(t, D) => LastSays(t, D, v)
  BY LessIsSaid
<1>2. Has(t, D) => LastSays(s, D, v) \/ Has(q, D)
  BY <1>1, Zenon DEF InTheEnd
<1>3. Has(q, D) => InTheEnd(q, t, D, v, m)
  BY Zenon DEF InTheEnd
<1>4. ASSUME ~ Has(q, D), Has(t, D) PROVE InTheEnd(q, t, D, v, m)
  BY <1>1, <1>4, Zenon DEF InTheEnd
<1>5. ASSUME ~ Has(q, D), ~ Has(t, D), Head(s).does \in D PROVE InTheEnd(q, t, D, v, m)
  <2>1. m = v
    BY <1>1, <1>5, Zenon DEF InTheEnd
  <2> QED BY <1>1, <1>5, <2>1, Zenon DEF InTheEnd
<1>6. ASSUME ~ Has(q, D), ~ Has(t, D), Head(s).does \notin D PROVE InTheEnd(q, t, D, v, m)
  <2>1. k = v /\ m = k
    BY <1>1, <1>6, Zenon DEF InTheEnd
  <2>2. m = v
    BY <2>1
  <2> QED BY <1>1, <1>6, <2>2, Zenon DEF InTheEnd
<1> QED BY <1>3, <1>4, <1>5, <1>6

(* Someone gives up frames of something else.                               *)
LEMMA EndFewer ==
    ASSUME NEW s \in Seq(Frames), NEW w, NEW t \in Seq(Frames), Fewer(t, s, w), NEW q, NEW D, NEW v, NEW k,
           \A f \in Range(s) : f.does \in D => f.to # w, InTheEnd(s, q, D, v, k)
    PROVE  InTheEnd(t, q, D, v, k)
<1>1. (Has(t, D) <=> Has(s, D)) /\ (LastSays(s, D, v) => LastSays(t, D, v))
  BY FewerSay
<1> QED BY <1>1, Zenon DEF InTheEnd

(* Who requests, events and answers are for, and what they are about.        *)
LEMMA RequestsAre ==
    ASSUME NEW f \in RequestOf
    PROVE  /\ f.to \in Caller \cup {"nobody", "volume"} /\ f \in Frames
           /\ f = [to |-> f.to, does |-> f.does, of |-> f.of]
           /\ f.does \in {"press", "release", "set", "stop", "start", "command", "touch", "type", "get"}
           /\ f.does = "get" <=> f.to = "volume"
           /\ f.does \in {"touch", "type"} => f.to = "nobody"
           /\ f.does \in {"press", "release"} => f.of \in Buttons
           /\ f.does = "set" => f.of \in Level
           /\ f.does = "touch" => f.of \in {"press", "hold", "release", "click"}
           /\ f.to \in Caller => [to |-> "nobody", does |-> f.does, of |-> f.of] \in RequestOf
<1>1. "volume" \notin Caller /\ "nobody" \notin Caller
  BY ControlsAssumption
<1>2. f \in Frames
  BY FramesAre
<1>3. /\ f.to \in Caller \cup {"nobody", "volume"} /\ f = [to |-> f.to, does |-> f.does, of |-> f.of]
      /\ f.does \in {"press", "release", "set", "stop", "start", "command", "touch", "type", "get"}
      /\ f.does \in {"press", "release"} => f.of \in Buttons
      /\ f.does = "set" => f.of \in Level
      /\ f.does = "touch" => f.of \in {"press", "hold", "release", "click"}
  BY DEF RequestOf
<1>4. (f.does = "get" <=> f.to = "volume") /\ (f.does \in {"touch", "type"} => f.to = "nobody")
  BY <1>1 DEF RequestOf
<1>5. f.to \in Caller => [to |-> "nobody", does |-> f.does, of |-> f.of] \in RequestOf
  BY <1>1 DEF RequestOf
<1> QED BY <1>2, <1>3, <1>4, <1>5

(* An event is for the dispatcher.                                          *)
LEMMA EventsAre ==
    ASSUME NEW f \in EventOf
    PROVE  f.to = "event" /\ f.does \in {"flags", "focus", "status"} /\ f.of \in BOOLEAN /\ f \in Frames
<1>1. f \in Frames
  BY FramesAre
<1> QED BY <1>1 DEF EventOf

(* An answer is for who asked.                                              *)
LEMMA AnswersAre ==
    ASSUME NEW f \in AnswerOf
    PROVE  /\ f.to \in Caller \cup {"nobody", "volume"} /\ f.to # "event" /\ f \in Frames
           /\ f = [to |-> f.to, does |-> f.does, of |-> f.of]
           /\ f.does \in {"press", "release", "set", "stop", "start", "command", "get"}
           /\ f.does = "get" <=> f.to = "volume"
           /\ f.does = "get" => f.of \in Level
           /\ f.does = "start" => f.of \in BOOLEAN
           /\ f.to \in Caller => [to |-> "nobody", does |-> f.does, of |-> f.of] \in AnswerOf
           /\ f.to \in Caller /\ f.does = "start" => f \in StartOf(Caller)
<1>1. "volume" \notin Caller /\ "nobody" \notin Caller /\ "event" \notin Caller
  BY ControlsAssumption
<1>2. f \in Frames
  BY FramesAre
<1>3. /\ f.to \in Caller \cup {"nobody", "volume"} /\ f.to # "event"
      /\ f = [to |-> f.to, does |-> f.does, of |-> f.of]
      /\ f.does \in {"press", "release", "set", "stop", "start", "command", "get"}
      /\ f.does = "get" => f.of \in Level
      /\ f.does = "start" => f.of \in BOOLEAN
  BY <1>1 DEF AnswerOf, StartOf, LevelOf
<1>4. f.does = "get" <=> f.to = "volume"
  BY <1>1 DEF AnswerOf, StartOf, LevelOf
<1>5. f.to \in Caller => [to |-> "nobody", does |-> f.does, of |-> f.of] \in AnswerOf
  BY <1>1 DEF AnswerOf, StartOf, LevelOf
<1>6. f.to \in Caller /\ f.does = "start" => f \in StartOf(Caller)
  BY <1>1 DEF AnswerOf, StartOf, LevelOf
<1> QED BY <1>2, <1>3, <1>4, <1>5, <1>6

(* The answer to a _tiStart that the dispatcher is given.                   *)
LEMMA StartsAre ==
    ASSUME NEW f \in StartOf(Caller)
    PROVE  f.to \in Caller /\ f.does = "start" /\ f.of \in BOOLEAN /\ f \in Frames
<1>1. f \in Frames
  BY FramesAre
<1> QED BY <1>1 DEF StartOf

(* What a stage is, and the request that is made of it.                     *)
LEMMA StagesLook ==
    ASSUME NEW x \in StageOf
    PROVE  /\ x = [does |-> x.does, of |-> x.of]
           /\ x.does \in {"press", "release", "set", "touch", "sleep", "forget", "volume", "stop", "start", "command", "type"}
           /\ x.does \in {"press", "release"} => x.of \in Buttons
           /\ \A c \in Caller : x.does \in {"press", "release", "set", "stop", "start", "command"} =>
                 [to |-> c, does |-> x.does, of |-> x.of] \in RequestOf
           /\ x.does \in {"touch", "type"} => [to |-> "nobody", does |-> x.does, of |-> x.of] \in RequestOf
<1>1. /\ x = [does |-> x.does, of |-> x.of]
      /\ x.does \in {"press", "release", "set", "touch", "sleep", "forget", "volume", "stop", "start", "command", "type"}
      /\ x.does \in {"press", "release"} => x.of \in Buttons
  BY DEF StageOf
<1>2. x.does \in {"touch", "type"} => [to |-> "nobody", does |-> x.does, of |-> x.of] \in RequestOf
  BY DEF StageOf, RequestOf
<1>3. \A c \in Caller : x.does \in {"press", "release", "set", "stop", "start", "command"} =>
                 [to |-> c, does |-> x.does, of |-> x.of] \in RequestOf
  BY DEF StageOf, RequestOf
<1> QED BY <1>1, <1>2, <1>3

(* A sequence of members of a set.                                          *)
LEMMA SeqWhen ==
    ASSUME NEW X, NEW Y, NEW s \in Seq(X), \A x \in Range(s) : x \in Y
    PROVE  s \in Seq(Y)
<1>1. DOMAIN s = 1..Len(s) /\ Len(s) \in Nat
  OBVIOUS
<1>2. \A i \in 1..Len(s) : s[i] \in Y
  BY <1>1 DEF Range
<1> QED BY <1>1, <1>2

(* Each member of a sequence is of the set.                                 *)
LEMMA InSeq ==
    ASSUME NEW X, NEW s \in Seq(X), NEW x \in Range(s)
    PROVE  x \in X
BY DEF Range

(* Every queue holds frames.                                                *)
LEMMA QueuesAre ==
    ASSUME ControlTypes
    PROVE  /\ toDevice \in Seq(Frames) /\ toApi \in Seq(Frames) /\ handlers \in Seq(Frames) /\ woken \in Seq(Frames)
           /\ \A f \in Range(toDevice) : f \in RequestOf
           /\ \A f \in Range(toApi) : f \in EventOf \/ f \in AnswerOf
           /\ \A f \in Range(handlers) : f \in EventOf \/ f \in StartOf(Caller)
           /\ \A f \in Range(woken) : f \in AnswerOf
<1>1. toDevice \in Seq(RequestOf) /\ toApi \in Seq(EventOf \cup AnswerOf)
      /\ handlers \in Seq(EventOf \cup StartOf(Caller)) /\ woken \in Seq(AnswerOf)
  BY DEF ControlTypes
<1>2. toDevice \in Seq(Frames) /\ toApi \in Seq(Frames) /\ handlers \in Seq(Frames) /\ woken \in Seq(Frames)
  BY <1>1, FramesAre, SeqMonotonic
<1> QED BY <1>1, <1>2, InSeq
(* The calls of the interfaces are of two kinds: none presses or touches     *)
(* anything and starts the session of the keyboard.                         *)
Typing == {x \in StageOf : x.does \in {"stop", "start", "type"}}
NotTyping == {x \in StageOf : x.does # "start"}
(* A call that keeps to one kind of stages is of a kind.                    *)
LEMMA OfTheKind ==
    ASSUME NEW p, p \in Seq(Typing) \/ p \in Seq(NotTyping) PROVE OfAKind(p)
<1>1. ASSUME p \in Seq(Typing) PROVE \A i \in 1..Len(p) : p[i].does \in {"stop", "start", "type"}
  BY <1>1 DEF Typing
<1>2. ASSUME p \in Seq(NotTyping) PROVE \A i \in 1..Len(p) : p[i].does # "start"
  BY <1>2 DEF NotTyping
<1> QED BY <1>1, <1>2 DEF OfAKind

(* Each call that can be made is of a kind: it starts a session to type, or *)
(* never starts one.                                                        *)
LEMMA ProgramsKeepTo == ASSUME NEW p \in Programs PROVE OfAKind(p)
<1>1. /\ \A k \in Buttons : Press(k) \in NotTyping /\ Release(k) \in NotTyping
      /\ \A n \in Level : Stage("set", n) \in NotTyping
      /\ \A x \in {"press", "hold", "release", "click"} : Stage("touch", x) \in NotTyping
      /\ \A x \in {"sleep", "forget", "volume", "command"} : Stage(x, "") \in NotTyping
      /\ Sleep \in NotTyping /\ Lifts \in NotTyping
      /\ Stage("stop", "") \in Typing /\ Stage("start", "") \in Typing
      /\ Stage("type", "clear") \in Typing /\ Stage("type", "input") \in Typing
  BY DEF NotTyping, Typing, Press, Release, Stage, StageOf, Sleep, Lifts
<1>2. {"select", "wake", "volumeUp", "volumeDown"} \subseteq Buttons
  BY DEF Buttons
<1>q. ASSUME NEW k \in Buttons
      PROVE  /\ <<Press(k), Release(k)>> \in Seq(NotTyping)
             /\ <<Press(k), Sleep, Release(k)>> \in Seq(NotTyping)
             /\ <<Press(k), Release(k), Press(k), Release(k)>> \in Seq(NotTyping)
             /\ <<Release(k)>> \in Seq(NotTyping)
             /\ <<Press(k), Sleep, Release(k), Stage("touch", "click")>> \in Seq(NotTyping)
             /\ <<Stage("forget", ""), Press(k), Release(k), Stage("volume", "")>> \in Seq(NotTyping)
  <2>1. /\ Press(k) \in NotTyping /\ Release(k) \in NotTyping /\ Sleep \in NotTyping
        /\ Stage("touch", "click") \in NotTyping /\ Stage("forget", "") \in NotTyping
        /\ Stage("volume", "") \in NotTyping
    BY <1>1
  <2>2. PICK a, b, w, t, f, v : /\ a = Press(k) /\ b = Release(k) /\ w = Sleep
                                /\ t = Stage("touch", "click") /\ f = Stage("forget", "") /\ v = Stage("volume", "")
    OBVIOUS
  <2>3. a \in NotTyping /\ b \in NotTyping /\ w \in NotTyping /\ t \in NotTyping /\ f \in NotTyping /\ v \in NotTyping
    BY ONLY <2>1, <2>2
  <2>4. /\ <<a, b>> \in Seq(NotTyping) /\ <<a, w, b>> \in Seq(NotTyping) /\ <<a, b, a, b>> \in Seq(NotTyping)
        /\ <<b>> \in Seq(NotTyping) /\ <<a, w, b, t>> \in Seq(NotTyping) /\ <<f, a, b, v>> \in Seq(NotTyping)
    BY ONLY <2>3
  <2> QED BY ONLY <2>2, <2>4
<1>3. \A a \in {"SingleTap", "Hold", "DoubleTap"} : PressButton("select", a) \in Seq(NotTyping)
  BY <1>q, <1>2 DEF PressButton
<1>4. \A a \in {"SingleTap", "DoubleTap"} : Click(a) \in Seq(NotTyping)
  <2>1. PICK once : once = <<Press("select"), Sleep, Release("select"), Stage("touch", "click")>>
    OBVIOUS
  <2>2. once \in Seq(NotTyping)
    BY <1>q, <1>2, <2>1
  <2>3. once \o once \in Seq(NotTyping)
    BY ONLY <2>2
  <2> QED BY <2>1, <2>2, <2>3 DEF Click
<1>5. Swipe(0) \in Seq(NotTyping) /\ Swipe(1) \in Seq(NotTyping)
  <2>1. PICK a, h, w, l : a = Stage("touch", "press") /\ h = Stage("touch", "hold") /\ w = Sleep /\ l = Lifts
    OBVIOUS
  <2>2. a \in NotTyping /\ h \in NotTyping /\ w \in NotTyping /\ l \in NotTyping
    BY <1>1, <2>1
  <2>3. <<a>> \o <<>> \o <<l>> \in Seq(NotTyping) /\ <<a>> \o <<h, w>> \o <<l>> \in Seq(NotTyping)
    <3>1. <<>> \in Seq(NotTyping) /\ <<a>> \in Seq(NotTyping) /\ <<l>> \in Seq(NotTyping) /\ <<h, w>> \in Seq(NotTyping)
      BY ONLY <2>2
    <3> QED BY ONLY <3>1
  <2> QED BY ONLY <2>1, <2>3, SwipeIs
<1>6. Turn("wake") \in Seq(NotTyping) /\ Command \in Seq(NotTyping)
  <2>1. PICK c : c = Stage("command", "")
    OBVIOUS
  <2>3. c \in NotTyping
    BY <1>1, <2>1
  <2>2. <<c>> \in Seq(NotTyping)
    BY ONLY <2>3
  <2> QED BY <1>q, <1>2, <2>1, <2>2 DEF Turn, Command
<1>7. \A n \in Level : SetVolume(n) \in Seq(NotTyping)
  <2> SUFFICES ASSUME NEW n \in Level PROVE SetVolume(n) \in Seq(NotTyping)
    OBVIOUS
  <2>1. PICK f, s, v : f = Stage("forget", "") /\ s = Stage("set", n) /\ v = Stage("volume", "")
    OBVIOUS
  <2>2. f \in NotTyping /\ s \in NotTyping /\ v \in NotTyping
    BY <1>1, <2>1
  <2>3. <<f, s, v>> \in Seq(NotTyping)
    BY ONLY <2>2
  <2> QED BY <2>1, <2>3 DEF SetVolume
<1>8. \A k \in Buttons : StepVolume(k) \in Seq(NotTyping)
  BY <1>q DEF StepVolume
<1>9. \A clear, text \in BOOLEAN : TextInput(clear, text) \in Seq(Typing)
  <2> SUFFICES ASSUME NEW clear \in BOOLEAN, NEW text \in BOOLEAN PROVE TextInput(clear, text) \in Seq(Typing)
    OBVIOUS
  <2>1. PICK s, t, u, v : /\ s = Stage("stop", "") /\ t = Stage("start", "")
                          /\ u = Stage("type", "clear") /\ v = Stage("type", "input")
    OBVIOUS
  <2>2. s \in Typing /\ t \in Typing /\ u \in Typing /\ v \in Typing
    BY <1>1, <2>1
  <2>3. PICK c, i : c = (IF clear THEN <<u>> ELSE <<>>) /\ i = (IF text THEN <<v>> ELSE <<>>)
    OBVIOUS
  <2>4. c \in Seq(Typing) /\ i \in Seq(Typing) /\ <<s, t>> \in Seq(Typing)
    BY ONLY <2>2, <2>3
  <2>5. (<<s, t>> \o c) \o i \in Seq(Typing)
    BY ONLY <2>4
  <2>6. TextInput(clear, text) = (<<s, t>> \o c) \o i
    BY ONLY <2>1, <2>3, Zenon DEF TextInput
  <2> QED BY <2>5, <2>6
<1>10. p \in Seq(Typing) \/ p \in Seq(NotTyping)
  BY <1>2, <1>3, <1>4, <1>5, <1>6, <1>7, <1>8, <1>9 DEF Programs
<1> QED BY <1>10, OfTheKind

(* What is left of a call after its first stage.                            *)
LEMMA TheRest ==
    ASSUME NEW p \in Seq(StageOf), p # <<>>, NEW q, q = Tail(p)
    PROVE  /\ q \in Seq(StageOf) /\ Head(p) \in StageOf /\ Head(p) = p[1] /\ Len(p) \in Nat /\ 1 \in 1..Len(p)
           /\ Paired(p) => Paired(q)
           /\ OfAKind(p) => OfAKind(q)
           /\ \A x : x \in Range(p) <=> x \in Range(q) \/ x = Head(p)
<1>1. /\ q \in Seq(StageOf) /\ Len(q) \in Nat /\ Len(p) = Len(q) + 1
      /\ \A i \in 1..Len(q) : q[i] = p[i + 1]
      /\ Head(p) = p[1] /\ Head(p) \in StageOf
  BY OneLess
<1>r. \A x : x \in Range(p) <=> x \in Range(q) \/ x = Head(p)
  BY OneLess
<1>2. PICK n \in Nat : n = Len(q) /\ Len(p) = n + 1
  BY <1>1
<1>5. \A i \in 1..n : i + 1 \in 1..n + 1
  BY <1>2
<1>6. \A i \in 1..n : \A j \in (i + 1) + 1..n + 1 : j - 1 \in i + 1..n /\ q[j - 1] = p[j]
  <2>1. \A i \in 1..n : \A j \in (i + 1) + 1..n + 1 : j - 1 \in i + 1..n /\ j - 1 \in 1..n /\ (j - 1) + 1 = j
    BY <1>2
  <2> QED BY <1>1, <1>2, <2>1
<1>7. ASSUME Paired(p) PROVE Paired(q)
  <2>1. ASSUME NEW i \in 1..n
        PROVE  /\ q[i].does = "press" => \E j \in i + 1..n : q[j] = Release(q[i].of)
               /\ q[i].does = "touch" /\ q[i].of \in {"press", "hold"} => \E j \in i + 1..n : q[j] = Lifts
    <3>1. q[i] = p[i + 1] /\ i + 1 \in 1..n + 1
      BY <1>1, <1>2, <1>5
    <3>2. /\ p[i + 1].does = "press" => \E j \in (i + 1) + 1..n + 1 : p[j] = Release(p[i + 1].of)
          /\ p[i + 1].does = "touch" /\ p[i + 1].of \in {"press", "hold"} => \E j \in (i + 1) + 1..n + 1 : p[j] = Lifts
      BY <1>2, <1>7, <3>1 DEF Paired
    <3> QED BY <1>6, <3>1, <3>2
  <2> QED BY <1>2, <2>1 DEF Paired
<1>8. OfAKind(p) => OfAKind(q)
  BY <1>1, <1>2, <1>5 DEF OfAKind
<1>10. 1 \in 1..Len(p) /\ Len(p) \in Nat
  BY <1>2
<1> QED BY <1>1, <1>r, <1>7, <1>8, <1>10

-----------------------------------------------------------------------------
(* The steps of the calls.                                                  *)

(* Nothing is on the way to a call that awaits no answer.                    *)
LEMMA NoFrameFor ==
    ASSUME CallInv, NEW c \in Caller, awaits[c] # "answer"
    PROVE  ~ Reaches(toDevice, c) /\ ~ Reaches(toApi, c) /\ ~ Reaches(woken, c)
<1>1. /\ \A f \in Range(toDevice) : ForHead(f)
      /\ \A f \in Range(toApi) : ForHead(f)
      /\ \A f \in Range(woken) : ForHead(f)
  BY DEF CallInv, OneFrame
<1>2. \A f : ForHead(f) => f.to # c
  BY DEF ForHead
<1> QED BY <1>1, <1>2 DEF Reaches

(* What frames say of a call stays true when another call goes on.           *)
LEMMA OthersStay ==
    ASSUME NEW c \in Caller, NEW f, ForHead(f), f.to # c,
           \A a \in Caller : a # c => awaits'[a] = awaits[a] /\ program'[a] = program[a]
    PROVE  ForHead(f)'
BY DEF ForHead

(* A call begins.                                                           *)
LEMMA CallsCalls ==
    ASSUME CallInv, KeyInv, NEW c \in Caller, NEW p \in Programs, Calls(c, p)
    PROVE  CallInv' /\ KeyInv'
<1>1. ControlTypes /\ AtItsStage /\ OneFrame
  BY DEF CallInv
<1>2. /\ program[c] = <<>> /\ program' = [program EXCEPT ![c] = p]
      /\ UNCHANGED <<awaits, toDevice, toApi, handlers, woken, known, device, keys, left, missed>>
  BY DEF Calls, netVars
<1>3. p \in Seq(StageOf) /\ Paired(p) /\ OfAKind(p)
  BY ProgramsAreGood, ProgramsKeepTo DEF GoodCall
<1>4. program \in [Caller -> Seq(StageOf)] /\ awaits[c] = "nothing"
  BY <1>1, <1>2 DEF ControlTypes, AtItsStage
<1>5. program'[c] = p /\ \A a \in Caller : a # c => program'[a] = program[a]
  BY <1>2, <1>4
<1>6. ControlTypes'
  BY <1>1, <1>2, <1>3, <1>4 DEF ControlTypes
<1>7. AtItsStage'
  BY <1>1, <1>2, <1>4, <1>5 DEF AtItsStage, Asks
<1>8. ~ Reaches(toDevice, c) /\ ~ Reaches(toApi, c) /\ ~ Reaches(woken, c)
  BY <1>4, NoFrameFor
<1>9. OneFrame'
  <2>1. \A f : f.to # c /\ ForHead(f) => ForHead(f)'
    BY <1>2, <1>5 DEF ForHead
  <2>2. /\ \A f \in Range(toDevice) : ForHead(f) /\ f.to # c
        /\ \A f \in Range(toApi) : ForHead(f) /\ f.to # c
        /\ \A f \in Range(woken) : ForHead(f) /\ f.to # c
        /\ \A f \in Range(toDevice) : f.to \in Caller => f.of = Head(program'[f.to]).of
    BY <1>1, <1>5, <1>8 DEF OneFrame, Reaches
  <2> QED BY <1>1, <1>2, <2>1, <2>2 DEF OneFrame
<1>10. KeysComeUp'
  <2>1. \A a \in Caller : Paired(program'[a]) /\ OfAKind(program'[a])
    BY <1>3, <1>5 DEF KeyInv, KeysComeUp
  <2>2. ASSUME NEW a \in Caller, NEW k, ToRelease(a, k) PROVE ToRelease(a, k)'
    <3>1. a # c
      BY <1>2, <2>2 DEF ToRelease
    <3> QED BY <1>2, <1>5, <2>2, <3>1 DEF ToRelease
  <2> QED BY <1>2, <2>1, <2>2 DEF KeyInv, KeysComeUp
<1>11. FingerComesUp'
  <2>1. Range(<<>>) = {}
    BY DEF Range
  <2>2. (\A a \in Caller : Lifts \notin Range(program'[a])) => \A a \in Caller : Lifts \notin Range(program[a])
    BY <1>2, <1>5, <2>1
  <2> QED BY <1>2, <2>2 DEF KeyInv, FingerComesUp
<1> QED BY <1>6, <1>7, <1>9, <1>10, <1>11 DEF CallInv, KeyInv

(* What is known depends on nothing that a call has yet to do.              *)
LEMMA StillAgree ==
    ASSUME AgreeInv, UNCHANGED <<toDevice, toApi, handlers, woken, known, device, missed>> PROVE AgreeInv'
BY DEF AgreeInv, FlagsAgree, StatusAgree, LevelAgrees, FocusAgrees, LevelAsked, NotOvertaken

(* A request goes to the device.                                            *)
LEMMA AgreeWithMore ==
    ASSUME ControlTypes, AgreeInv, UNCHANGED <<toApi, handlers, woken, known, device, missed>>,
           NEW f \in RequestOf, toDevice' = Append(toDevice, f), f.does = "start" => f.to # "nobody"
    PROVE  AgreeInv'
<1>1. toDevice \in Seq(Frames) /\ f \in Frames
  BY QueuesAre, RequestsAre
<1>2. \A x : x \in Range(toDevice') <=> x \in Range(toDevice) \/ x = f
  BY <1>1, OneMoreIn
<1>3. Has(toDevice', {"get"}) <=> Has(toDevice, {"get"}) \/ f.does \in {"get"}
  BY <1>1, MoreIsSaid
<1>4. FlagsAgree' /\ StatusAgree'
  BY DEF AgreeInv, FlagsAgree, StatusAgree
<1>5. LevelAgrees'
  BY <1>3 DEF AgreeInv, LevelAgrees, LevelAsked
<1>6. FocusAgrees'
  BY <1>2 DEF AgreeInv, FocusAgrees, NotOvertaken
<1> QED BY <1>4, <1>5, <1>6 DEF AgreeInv
(* A call sends a request, and awaits the answer.                           *)
AsksNow(c) ==
    /\ Asks(c)
    /\ toDevice' = Append(toDevice, [to |-> c, does |-> Head(program[c]).does, of |-> Head(program[c]).of])
    /\ awaits' = [awaits EXCEPT ![c] = "answer"]
    /\ UNCHANGED program
SendsNow(c) ==
    /\ Head(program[c]).does \in {"touch", "type"}
    /\ toDevice' = Append(toDevice, [to |-> "nobody", does |-> Head(program[c]).does, of |-> Head(program[c]).of])
    /\ program' = [program EXCEPT ![c] = Tail(@)]
    /\ UNCHANGED awaits
WaitsNow(c) ==
    /\ Head(program[c]).does \in {"sleep", "volume"}
    /\ awaits' = [awaits EXCEPT ![c] = IF Head(program[c]).does = "sleep" THEN "time" ELSE "volume"]
    /\ UNCHANGED <<toDevice, program>>
ForgetsNow(c) ==
    /\ Head(program[c]).does = "forget"
    /\ program' = [program EXCEPT ![c] = Tail(@)]
    /\ UNCHANGED <<toDevice, awaits>>

(* A stage begins in one of four ways.                                      *)
LEMMA DoesIs ==
    ASSUME NEW c \in Caller, Does(c)
    PROVE  /\ program[c] # <<>> /\ awaits[c] = "nothing"
           /\ AsksNow(c) \/ SendsNow(c) \/ WaitsNow(c) \/ ForgetsNow(c)
           /\ UNCHANGED <<toApi, handlers, woken, known, device, keys, left, missed>>
BY Zenon DEF Does, AsksNow, SendsNow, WaitsNow, ForgetsNow

(* A stage keeps the types, and the other calls.                            *)
LEMMA DoesTypes ==
    ASSUME ControlTypes, NEW c \in Caller, Does(c)
    PROVE  /\ ControlTypes'
           /\ \A a \in Caller : a # c => awaits'[a] = awaits[a] /\ program'[a] = program[a]
<1>1. /\ program[c] # <<>> /\ awaits[c] = "nothing"
      /\ AsksNow(c) \/ SendsNow(c) \/ WaitsNow(c) \/ ForgetsNow(c)
      /\ UNCHANGED <<toApi, handlers, woken, known, device, keys, left, missed>>
  BY DoesIs
<1>2. program \in [Caller -> Seq(StageOf)] /\ awaits \in [Caller -> {"nothing", "answer", "time", "volume"}]
      /\ toDevice \in Seq(RequestOf)
  BY DEF ControlTypes
<1>3. Tail(program[c]) \in Seq(StageOf) /\ Head(program[c]) \in StageOf
  BY <1>1, <1>2, TheRest
<1>4. /\ Asks(c) => [to |-> c, does |-> Head(program[c]).does, of |-> Head(program[c]).of] \in RequestOf
      /\ Head(program[c]).does \in {"touch", "type"} =>
            [to |-> "nobody", does |-> Head(program[c]).does, of |-> Head(program[c]).of] \in RequestOf
  BY <1>3, StagesLook DEF Asks
<1>5. program' \in [Caller -> Seq(StageOf)] /\ \A a \in Caller : a # c => program'[a] = program[a]
  BY <1>1, <1>2, <1>3 DEF AsksNow, SendsNow, WaitsNow, ForgetsNow
<1>6. awaits' \in [Caller -> {"nothing", "answer", "time", "volume"}] /\ \A a \in Caller : a # c => awaits'[a] = awaits[a]
  BY <1>1, <1>2 DEF AsksNow, SendsNow, WaitsNow, ForgetsNow
<1>7. toDevice' \in Seq(RequestOf)
  <2>1. ASSUME AsksNow(c) \/ SendsNow(c) PROVE \E y \in RequestOf : toDevice' = Append(toDevice, y)
    BY <1>4, <2>1 DEF AsksNow, SendsNow
  <2>2. WaitsNow(c) \/ ForgetsNow(c) => toDevice' = toDevice
    BY DEF WaitsNow, ForgetsNow
  <2>3. \A y \in RequestOf : Append(toDevice, y) \in Seq(RequestOf)
    BY <1>2
  <2> QED BY ONLY <1>1, <1>2, <2>1, <2>2, <2>3
<1> QED BY <1>1, <1>5, <1>6, <1>7 DEF ControlTypes

(* A stage that awaits an answer has one request on the way.                *)
LEMMA DoesCalls ==
    ASSUME CallInv, NEW c \in Caller, Does(c) PROVE CallInv'
<1>1. ControlTypes /\ AtItsStage /\ OneFrame
  BY DEF CallInv
<1>2. /\ program[c] # <<>> /\ awaits[c] = "nothing"
      /\ AsksNow(c) \/ SendsNow(c) \/ WaitsNow(c) \/ ForgetsNow(c)
      /\ UNCHANGED <<toApi, handlers, woken, known, device, keys, left, missed>>
  BY DoesIs
<1>3. ControlTypes' /\ \A a \in Caller : a # c => awaits'[a] = awaits[a] /\ program'[a] = program[a]
  BY <1>1, DoesTypes
<1>4. program \in [Caller -> Seq(StageOf)] /\ awaits \in [Caller -> {"nothing", "answer", "time", "volume"}]
  BY <1>1 DEF ControlTypes
<1>5. ~ Reaches(toDevice, c) /\ ~ Reaches(toApi, c) /\ ~ Reaches(woken, c)
  BY <1>2, NoFrameFor
<1>6. AtItsStage'
  <2>1. /\ awaits'[c] # "nothing" => program'[c] # <<>>
        /\ awaits'[c] = "answer" => Asks(c)'
        /\ awaits'[c] = "time" => Head(program'[c]).does = "sleep"
        /\ awaits'[c] = "volume" => Head(program'[c]).does = "volume"
    BY <1>2, <1>4 DEF AsksNow, SendsNow, WaitsNow, ForgetsNow, Asks
  <2> QED BY <1>1, <1>3, <2>1 DEF AtItsStage, Asks
<1>7. toDevice \in Seq(Frames) /\ toApi \in Seq(Frames) /\ woken \in Seq(Frames)
  BY <1>1, QueuesAre
<1>8. \A f : f.to # c /\ ForHead(f) => ForHead(f)'
  BY <1>3, OthersStay
<1>9. /\ \A f \in Range(toApi) : f.to # c
      /\ \A f \in Range(woken) : f.to # c
      /\ \A f \in Range(toDevice) : f.to # c
  BY <1>5 DEF Reaches
<1>10. /\ \A f \in Range(toApi') : ForHead(f)'
       /\ \A f \in Range(woken') : ForHead(f)'
       /\ \A f \in Range(toDevice) : ForHead(f)' /\ (f.to \in Caller => f.of = Head(program'[f.to]).of)
  BY <1>1, <1>2, <1>3, <1>8, <1>9 DEF OneFrame
<1>11. CASE AsksNow(c)
  <2>1. PICK r : r = [to |-> c, does |-> Head(program[c]).does, of |-> Head(program[c]).of]
    OBVIOUS
  <2>2. /\ r.to = c /\ r.does = Head(program'[c]).does /\ r.of = Head(program'[c]).of
        /\ program' = program /\ awaits'[c] = "answer" /\ toDevice' = Append(toDevice, r)
    BY <1>4, <1>11, <2>1 DEF AsksNow
  <2>3. r \in Frames
    <3>1. toDevice' \in Seq(RequestOf) /\ toDevice \in Seq(RequestOf)
      BY <1>1, <1>3 DEF ControlTypes
    <3>2. r \in RequestOf
      <4>1. Head(program[c]) \in StageOf
        BY <1>2, <1>4, TheRest
      <4> QED BY <1>11, <2>1, <4>1, StagesLook DEF AsksNow, Asks
    <3> QED BY <3>2, RequestsAre
  <2>4. \A x : x \in Range(toDevice') <=> x \in Range(toDevice) \/ x = r
    BY <1>7, <2>2, <2>3, OneMoreIn
  <2>5. \A a : (Reaches(toDevice', a) <=> Reaches(toDevice, a) \/ r.to = a)
               /\ (Once(toDevice, a) /\ (r.to = a => ~ Reaches(toDevice, a)) => Once(toDevice', a))
    BY <1>7, <2>2, <2>3, MoreReaches
  <2>6. ForHead(r)'
    BY <1>2, <2>2 DEF ForHead
  <2>7. \A a \in Caller : /\ Once(toDevice', a) /\ Once(toApi', a) /\ Once(woken', a)
                          /\ ~ (Reaches(toDevice', a) /\ Reaches(toApi', a))
                          /\ ~ (Reaches(toDevice', a) /\ Reaches(woken', a))
                          /\ ~ (Reaches(toApi', a) /\ Reaches(woken', a))
    BY <1>1, <1>2, <1>5, <2>2, <2>5 DEF OneFrame
  <2>8. \A f \in Range(toDevice') : ForHead(f)' /\ (f.to \in Caller => f.of = Head(program'[f.to]).of)
    BY <1>10, <2>2, <2>4, <2>6
  <2> QED BY <1>3, <1>6, <1>10, <2>7, <2>8 DEF CallInv, OneFrame
<1>12. CASE SendsNow(c)
  <2>1. PICK r : r = [to |-> "nobody", does |-> Head(program[c]).does, of |-> Head(program[c]).of]
    OBVIOUS
  <2>2. r.to = "nobody" /\ toDevice' = Append(toDevice, r) /\ "nobody" \notin Caller
    BY <1>12, <2>1, ControlsAssumption DEF SendsNow
  <2>3. r \in Frames
    <3>1. Head(program[c]) \in StageOf
      BY <1>2, <1>4, TheRest
    <3>2. r \in RequestOf
      BY <1>12, <2>1, <3>1, StagesLook DEF SendsNow
    <3> QED BY <3>2, RequestsAre
  <2>4. \A x : x \in Range(toDevice') <=> x \in Range(toDevice) \/ x = r
    BY <1>7, <2>2, <2>3, OneMoreIn
  <2>5. \A a : (Reaches(toDevice', a) <=> Reaches(toDevice, a) \/ r.to = a)
               /\ (Once(toDevice, a) /\ (r.to = a => ~ Reaches(toDevice, a)) => Once(toDevice', a))
    BY <1>7, <2>2, <2>3, MoreReaches
  <2>6. ForHead(r)'
    BY <2>2 DEF ForHead
  <2>7. \A a \in Caller : /\ Once(toDevice', a) /\ Once(toApi', a) /\ Once(woken', a)
                          /\ ~ (Reaches(toDevice', a) /\ Reaches(toApi', a))
                          /\ ~ (Reaches(toDevice', a) /\ Reaches(woken', a))
                          /\ ~ (Reaches(toApi', a) /\ Reaches(woken', a))
    BY <1>1, <1>2, <1>5, <2>2, <2>5 DEF OneFrame
  <2>8. \A f \in Range(toDevice') : ForHead(f)' /\ (f.to \in Caller => f.of = Head(program'[f.to]).of)
    BY <1>10, <2>2, <2>4, <2>6
  <2> QED BY <1>3, <1>6, <1>10, <2>7, <2>8 DEF CallInv, OneFrame
<1>13. CASE WaitsNow(c) \/ ForgetsNow(c)
  <2>1. toDevice' = toDevice
    BY <1>13 DEF WaitsNow, ForgetsNow
  <2> QED BY <1>1, <1>2, <1>3, <1>6, <1>10, <2>1 DEF CallInv, OneFrame
<1> QED BY <1>2, <1>11, <1>12, <1>13
(* A stage says nothing of what is known.                                   *)
LEMMA DoesAgree ==
    ASSUME CallInv, AgreeInv, NEW c \in Caller, Does(c) PROVE AgreeInv'
<1>1. ControlTypes
  BY DEF CallInv
<1>2. /\ program[c] # <<>>
      /\ AsksNow(c) \/ SendsNow(c) \/ WaitsNow(c) \/ ForgetsNow(c)
      /\ UNCHANGED <<toApi, handlers, woken, known, device, missed>>
  BY DoesIs
<1>3. program[c] \in Seq(StageOf)
  BY <1>1 DEF ControlTypes
<1>4. Head(program[c]) \in StageOf
  BY <1>2, <1>3, TheRest
<1>5. "nobody" \notin Caller
  BY ControlsAssumption
<1>6. CASE AsksNow(c)
  <2>1. PICK r : r = [to |-> c, does |-> Head(program[c]).does, of |-> Head(program[c]).of]
    OBVIOUS
  <2>2. r \in RequestOf /\ toDevice' = Append(toDevice, r) /\ r.to # "nobody"
    BY <1>4, <1>5, <1>6, <2>1, StagesLook DEF AsksNow, Asks
  <2> QED BY <1>1, <1>2, <2>2, AgreeWithMore
<1>7. CASE SendsNow(c)
  <2>1. PICK r : r = [to |-> "nobody", does |-> Head(program[c]).does, of |-> Head(program[c]).of]
    OBVIOUS
  <2>2. r \in RequestOf /\ toDevice' = Append(toDevice, r) /\ r.does # "start"
    BY <1>4, <1>7, <2>1, StagesLook DEF SendsNow
  <2> QED BY <1>1, <1>2, <2>2, AgreeWithMore
<1>8. CASE WaitsNow(c) \/ ForgetsNow(c)
  <2>1. toDevice' = toDevice
    BY <1>8 DEF WaitsNow, ForgetsNow
  <2> QED BY <1>2, <2>1, StillAgree
<1> QED BY <1>2, <1>6, <1>7, <1>8

(* A call that goes on to the next of its stages, which is no release, will  *)
(* still release what it has pressed.                                       *)
LEMMA StillReleases ==
    ASSUME ControlTypes, NEW c \in Caller, program[c] # <<>>, program' = [program EXCEPT ![c] = Tail(@)],
           \A a \in Caller : a # c => awaits'[a] = awaits[a],
           \A a \in Caller : a # c => (Reaches(toDevice', a) <=> Reaches(toDevice, a)),
           awaits'[c] = "nothing", NEW a \in Caller, NEW k, ToRelease(a, k),
           a = c => Head(program[c]) # Release(k)
    PROVE  ToRelease(a, k)'
<1>1. program \in [Caller -> Seq(StageOf)]
  BY DEF ControlTypes
<1>2. CASE a = c
  <2>1. \E j \in 1..Len(program[c]) : program[c][j] = Release(k)
    BY <1>2 DEF ToRelease
  <2>2. PICK p, q : p = program[c] /\ q = Tail(p)
    OBVIOUS
  <2>r. p \in Seq(StageOf) /\ p # <<>>
    BY <1>1, <2>2
  <2>3. Release(k) \in Range(p) /\ Release(k) # Head(p)
    <3>1. DOMAIN p = 1..Len(p)
      BY <2>r
    <3> QED BY <1>2, <2>1, <2>2, <3>1 DEF Range
  <2>4. q \in Seq(StageOf) /\ (Release(k) \in Range(p) <=> Release(k) \in Range(q) \/ Release(k) = Head(p))
    BY ONLY <2>2, <2>r, TheRest
  <2>6. \E j \in 1..Len(q) : q[j] = Release(k)
    BY <2>3, <2>4 DEF Range
  <2>5. program'[c] = q
    BY <1>1, <2>2
  <2> QED BY <1>2, <2>5, <2>6 DEF ToRelease
<1>3. CASE a # c
  <2>1. program'[a] = program[a]
    BY <1>1, <1>3
  <2> QED BY <1>3, <2>1 DEF ToRelease
<1> QED BY <1>2, <1>3

(* What is left of a call that pairs pairs.                                 *)
LEMMA StillPaired ==
    ASSUME ControlTypes, KeysComeUp, NEW c \in Caller, program[c] # <<>>, program' = [program EXCEPT ![c] = Tail(@)]
    PROVE  \A a \in Caller : Paired(program'[a]) /\ OfAKind(program'[a])
<1>1. program \in [Caller -> Seq(StageOf)]
  BY DEF ControlTypes
<1>2. PICK q : q = Tail(program[c])
  OBVIOUS
<1>3. Paired(program[c]) /\ OfAKind(program[c])
  BY DEF KeysComeUp
<1>4. Paired(q) /\ OfAKind(q)
  BY <1>1, <1>2, <1>3, TheRest
<1>5. program'[c] = q /\ \A a \in Caller : a # c => program'[a] = program[a]
  BY <1>1, <1>2
<1> QED BY <1>4, <1>5 DEF KeysComeUp

(* A stage that presses a key will be followed by its release.              *)
LEMMA DoesKeys ==
    ASSUME CallInv, KeyInv, NEW c \in Caller, Does(c) PROVE KeysComeUp'
<1>1. ControlTypes /\ KeysComeUp
  BY DEF CallInv, KeyInv
<1>2. /\ program[c] # <<>> /\ awaits[c] = "nothing"
      /\ AsksNow(c) \/ SendsNow(c) \/ WaitsNow(c) \/ ForgetsNow(c)
      /\ UNCHANGED <<keys, left>>
  BY DoesIs
<1>3. program \in [Caller -> Seq(StageOf)] /\ awaits \in [Caller -> {"nothing", "answer", "time", "volume"}]
      /\ toDevice \in Seq(Frames) /\ toDevice' \in Seq(RequestOf) /\ toDevice \in Seq(RequestOf)
  BY <1>1, DoesTypes, QueuesAre DEF ControlTypes
<1>4. Head(program[c]) \in StageOf
  BY <1>2, <1>3, TheRest
<1>5. "nobody" \notin Caller
  BY ControlsAssumption
<1>6. CASE AsksNow(c)
  <2>1. PICK r : r = [to |-> c, does |-> Head(program[c]).does, of |-> Head(program[c]).of]
    OBVIOUS
  <2>2. /\ toDevice' = Append(toDevice, r) /\ r.to = c /\ r.to # "nobody" /\ program' = program
        /\ \A a \in Caller : a # c => awaits'[a] = awaits[a]
    BY <1>3, <1>5, <1>6, <2>1 DEF AsksNow
  <2>3. r \in Frames
    <3>1. r \in RequestOf
      BY <1>4, <1>6, <2>1, StagesLook DEF AsksNow, Asks
    <3> QED BY <3>1, RequestsAre
  <2>4. \A x : x \in Range(toDevice') <=> x \in Range(toDevice) \/ x = r
    BY <1>3, <2>2, <2>3, OneMoreIn
  <2>5. \A a : Reaches(toDevice', a) <=> Reaches(toDevice, a) \/ r.to = a
    BY <1>3, <2>2, <2>3, MoreReaches
  <2>6. ASSUME NEW a \in Caller, NEW k, ToRelease(a, k) PROVE ToRelease(a, k)'
    BY <1>3, <2>2, <2>5, <2>6 DEF ToRelease
  <2> QED BY <1>1, <1>2, <2>2, <2>4, <2>6 DEF KeysComeUp
<1>7. CASE SendsNow(c)
  <2>1. PICK r : r = [to |-> "nobody", does |-> Head(program[c]).does, of |-> Head(program[c]).of]
    OBVIOUS
  <2>2. /\ toDevice' = Append(toDevice, r) /\ r.to = "nobody" /\ program' = [program EXCEPT ![c] = Tail(@)]
        /\ awaits' = awaits /\ r.does \in {"touch", "type"} /\ Head(program[c]).does # "release"
    BY <1>7, <2>1 DEF SendsNow
  <2>3. r \in Frames
    <3>1. r \in RequestOf
      BY <1>4, <1>7, <2>1, StagesLook DEF SendsNow
    <3> QED BY <3>1, RequestsAre
  <2>4. \A x : x \in Range(toDevice') <=> x \in Range(toDevice) \/ x = r
    BY <1>3, <2>2, <2>3, OneMoreIn
  <2>5. \A a : Reaches(toDevice', a) <=> Reaches(toDevice, a) \/ r.to = a
    BY <1>3, <2>2, <2>3, MoreReaches
  <2>6. \A k : Head(program[c]) # Release(k)
    BY <2>2 DEF Release, Stage
  <2>7. ASSUME NEW a \in Caller, NEW k, ToRelease(a, k) PROVE ToRelease(a, k)'
    BY <1>1, <1>2, <1>5, <2>2, <2>5, <2>6, <2>7, StillReleases
  <2>8. \A a \in Caller : Paired(program'[a]) /\ OfAKind(program'[a])
    BY <1>1, <1>2, <2>2, StillPaired
  <2> QED BY <1>1, <1>2, <2>2, <2>4, <2>7, <2>8 DEF KeysComeUp
<1>8. CASE WaitsNow(c)
  <2>1. toDevice' = toDevice /\ program' = program /\ \A a \in Caller : a # c => awaits'[a] = awaits[a]
    BY <1>3, <1>8 DEF WaitsNow
  <2>2. awaits'[c] # "answer"
    BY <1>3, <1>8 DEF WaitsNow
  <2>3. ASSUME NEW a \in Caller, NEW k, ToRelease(a, k) PROVE ToRelease(a, k)'
    BY <2>1, <2>2, <2>3 DEF ToRelease
  <2> QED BY <1>1, <1>2, <2>1, <2>3 DEF KeysComeUp
<1>9. CASE ForgetsNow(c)
  <2>1. toDevice' = toDevice /\ program' = [program EXCEPT ![c] = Tail(@)] /\ awaits' = awaits
        /\ Head(program[c]).does # "release"
    BY <1>9 DEF ForgetsNow
  <2>2. \A k : Head(program[c]) # Release(k)
    BY <2>1 DEF Release, Stage
  <2>3. ASSUME NEW a \in Caller, NEW k, ToRelease(a, k) PROVE ToRelease(a, k)'
    BY <1>1, <1>2, <2>1, <2>2, <2>3, StillReleases
  <2>4. \A a \in Caller : Paired(program'[a]) /\ OfAKind(program'[a])
    BY <1>1, <1>2, <2>1, StillPaired
  <2> QED BY <1>1, <1>2, <2>1, <2>3, <2>4 DEF KeysComeUp
<1> QED BY <1>2, <1>6, <1>7, <1>8, <1>9
(* A stage that sets the finger down will be followed by one that lifts it. *)
LEMMA DoesFinger ==
    ASSUME CallInv, KeyInv, NEW c \in Caller, Does(c) PROVE FingerComesUp'
<1>1. ControlTypes /\ KeysComeUp /\ FingerComesUp
  BY DEF CallInv, KeyInv
<1>2. /\ program[c] # <<>>
      /\ AsksNow(c) \/ SendsNow(c) \/ WaitsNow(c) \/ ForgetsNow(c)
      /\ UNCHANGED <<keys, left>>
  BY DoesIs
<1>3. program \in [Caller -> Seq(StageOf)] /\ toDevice \in Seq(Frames)
  BY <1>1, QueuesAre DEF ControlTypes
<1>4. PICK p, q : p = program[c] /\ q = Tail(p)
  OBVIOUS
<1>5. p \in Seq(StageOf) /\ p # <<>> /\ Paired(p)
  BY <1>1, <1>2, <1>3, <1>4 DEF KeysComeUp
<1>6. Head(p) \in StageOf /\ Head(p) = p[1] /\ 1 \in 1..Len(p) /\ q \in Seq(StageOf)
      /\ (Lifts \in Range(p) <=> Lifts \in Range(q) \/ Lifts = Head(p))
  BY ONLY <1>4, <1>5, TheRest
<1>7. SUFFICES ASSUME "finger" \notin left, \A a \in Caller : Lifts \notin Range(program'[a])
               PROVE  Settled(toDevice') /\ (~ Has(toDevice', {"touch"}) => "finger" \notin keys)
  BY <1>2 DEF FingerComesUp
<1>8. /\ ~ AsksNow(c) /\ ~ WaitsNow(c) =>
            program'[c] = q /\ \A a \in Caller : a # c => program'[a] = program[a]
      /\ AsksNow(c) \/ WaitsNow(c) => program' = program
  BY <1>2, <1>3, <1>4 DEF AsksNow, SendsNow, WaitsNow, ForgetsNow
<1>9. ASSUME Head(p) # Lifts
      PROVE  Settled(toDevice) /\ (~ Has(toDevice, {"touch"}) => "finger" \notin keys)
  <2>1. \A a \in Caller : Lifts \notin Range(program[a])
    BY <1>4, <1>6, <1>7, <1>8, <1>9
  <2> QED BY <1>1, <1>7, <2>1 DEF FingerComesUp
<1>10. CASE AsksNow(c)
  <2>1. PICK r : r = [to |-> c, does |-> Head(p).does, of |-> Head(p).of]
    OBVIOUS
  <2>2. /\ toDevice' = Append(toDevice, r) /\ r.does # "touch" /\ Head(p) # Lifts
    BY <1>4, <1>10, <2>1 DEF AsksNow, Asks, Lifts, Stage
  <2>3. r \in Frames
    <3>1. r \in RequestOf
      BY <1>4, <1>6, <1>10, <2>1, StagesLook DEF AsksNow, Asks
    <3> QED BY <3>1, RequestsAre
  <2>4. Settled(toDevice) => Settled(toDevice')
    BY <1>3, <2>2, <2>3, MoreSettles
  <2>5. Has(toDevice', {"touch"}) <=> Has(toDevice, {"touch"}) \/ r.does \in {"touch"}
    BY <1>3, <2>2, <2>3, MoreIsSaid
  <2> QED BY <1>9, <2>2, <2>4, <2>5
<1>11. CASE SendsNow(c)
  <2>1. PICK r : r = [to |-> "nobody", does |-> Head(p).does, of |-> Head(p).of]
    OBVIOUS
  <2>2. toDevice' = Append(toDevice, r) /\ r.does = Head(p).does /\ r.of = Head(p).of
        /\ r.does \in {"touch", "type"}
    BY <1>4, <1>11, <2>1 DEF SendsNow
  <2>3. r \in Frames
    <3>1. r \in RequestOf
      BY <1>4, <1>6, <1>11, <2>1, StagesLook DEF SendsNow
    <3> QED BY <3>1, RequestsAre
  <2>4. /\ r.does = "touch" /\ r.of \notin Down => Settled(toDevice')
        /\ r.does # "touch" /\ Settled(toDevice) => Settled(toDevice')
    BY <1>3, <2>2, <2>3, MoreSettles
  <2>5. Has(toDevice', {"touch"}) <=> Has(toDevice, {"touch"}) \/ r.does \in {"touch"}
    BY <1>3, <2>2, <2>3, MoreIsSaid
  <2>6. ASSUME r.does = "touch", r.of \in Down PROVE FALSE
    <3>1. PICK j \in 1 + 1..Len(p) : p[j] = Lifts
      BY <1>5, <1>6, <2>2, <2>6 DEF Paired, Down
    <3>2. Lifts \in Range(p)
      <4>1. Len(p) \in Nat /\ DOMAIN p = 1..Len(p)
        BY <1>5
      <4>2. j \in 1..Len(p)
        BY <4>1
      <4> QED BY <3>1, <4>1, <4>2 DEF Range
    <3>3. Head(p) # Lifts
      BY <2>2, <2>6 DEF Lifts, Stage, Down
    <3>4. ~ AsksNow(c) /\ ~ WaitsNow(c)
      BY <1>11 DEF AsksNow, WaitsNow, SendsNow, Asks
    <3> QED BY <1>6, <1>7, <1>8, <3>2, <3>3, <3>4
  <2>7. CASE r.does = "touch"
    BY <2>4, <2>5, <2>6, <2>7
  <2>8. CASE r.does # "touch"
    <3>1. Head(p) # Lifts
      BY <2>2, <2>8 DEF Lifts, Stage
    <3> QED BY <1>9, <2>4, <2>5, <2>8, <3>1
  <2> QED BY <2>7, <2>8
<1>12. CASE WaitsNow(c) \/ ForgetsNow(c)
  <2>1. toDevice' = toDevice /\ Head(p) # Lifts
    BY <1>4, <1>12 DEF WaitsNow, ForgetsNow, Lifts, Stage
  <2> QED BY <1>9, <2>1
<1> QED BY <1>2, <1>10, <1>11, <1>12

(* A wait is over.                                                          *)
LEMMA WaitEndsCalls ==
    ASSUME CallInv, NEW c \in Caller, WaitEnds(c) PROVE CallInv'
<1>1. ControlTypes /\ AtItsStage /\ OneFrame
  BY DEF CallInv
<1>2. /\ awaits[c] \in {"time", "volume"}
      /\ awaits' = [awaits EXCEPT ![c] = "nothing"]
      /\ program' = [program EXCEPT ![c] = Tail(@)]
      /\ UNCHANGED <<toDevice, toApi, handlers, woken, known, device, keys, left, missed>>
  BY DEF WaitEnds, netVars
<1>3. program \in [Caller -> Seq(StageOf)] /\ awaits \in [Caller -> {"nothing", "answer", "time", "volume"}]
      /\ program[c] # <<>>
  BY <1>1, <1>2 DEF ControlTypes, AtItsStage
<1>4. Tail(program[c]) \in Seq(StageOf)
  BY <1>3, TheRest
<1>5. \A a \in Caller : a # c => awaits'[a] = awaits[a] /\ program'[a] = program[a]
  BY <1>2, <1>3
<1>6. ControlTypes'
  <2>1. program' \in [Caller -> Seq(StageOf)] /\ awaits' \in [Caller -> {"nothing", "answer", "time", "volume"}]
    BY <1>2, <1>3, <1>4
  <2> QED BY <1>1, <1>2, <2>1 DEF ControlTypes
<1>7. AtItsStage'
  <2>1. awaits'[c] = "nothing"
    BY <1>2, <1>3
  <2> QED BY <1>1, <1>5, <2>1 DEF AtItsStage, Asks
<1>8. ~ Reaches(toDevice, c) /\ ~ Reaches(toApi, c) /\ ~ Reaches(woken, c)
  BY <1>2, NoFrameFor
<1>9. \A f : f.to # c /\ ForHead(f) => ForHead(f)'
  BY <1>5, OthersStay
<1>10. /\ \A f \in Range(toApi) : ForHead(f)'
       /\ \A f \in Range(woken) : ForHead(f)'
       /\ \A f \in Range(toDevice) : ForHead(f)' /\ (f.to \in Caller => f.of = Head(program'[f.to]).of)
  BY <1>1, <1>5, <1>8, <1>9 DEF OneFrame, Reaches
<1> QED BY <1>1, <1>2, <1>6, <1>7, <1>10 DEF CallInv, OneFrame

(* No key goes up or down when a wait is over.                              *)
LEMMA WaitEndsKeys ==
    ASSUME CallInv, KeyInv, NEW c \in Caller, WaitEnds(c) PROVE KeyInv'
<1>1. ControlTypes /\ AtItsStage /\ KeysComeUp /\ FingerComesUp
  BY DEF CallInv, KeyInv
<1>2. /\ awaits[c] \in {"time", "volume"}
      /\ awaits' = [awaits EXCEPT ![c] = "nothing"]
      /\ program' = [program EXCEPT ![c] = Tail(@)]
      /\ UNCHANGED <<toDevice, toApi, handlers, woken, known, device, keys, left, missed>>
  BY DEF WaitEnds, netVars
<1>3. program \in [Caller -> Seq(StageOf)] /\ awaits \in [Caller -> {"nothing", "answer", "time", "volume"}]
      /\ program[c] # <<>> /\ Head(program[c]).does \in {"sleep", "volume"}
  BY <1>1, <1>2 DEF ControlTypes, AtItsStage
<1>4. \A k : Head(program[c]) # Release(k)
  BY <1>3 DEF Release, Stage
<1>5. awaits'[c] = "nothing" /\ \A a \in Caller : a # c => awaits'[a] = awaits[a] /\ program'[a] = program[a]
  BY <1>2, <1>3
<1>6. ASSUME NEW a \in Caller, NEW k, ToRelease(a, k) PROVE ToRelease(a, k)'
  BY <1>1, <1>2, <1>3, <1>4, <1>5, <1>6, StillReleases
<1>7. \A a \in Caller : Paired(program'[a]) /\ OfAKind(program'[a])
  BY <1>1, <1>2, <1>3, StillPaired
<1>8. KeysComeUp'
  BY <1>1, <1>2, <1>6, <1>7 DEF KeysComeUp
<1>9. FingerComesUp'
  <2>1. PICK p, q : p = program[c] /\ q = Tail(p)
    OBVIOUS
  <2>2. p \in Seq(StageOf) /\ p # <<>>
    BY <1>3, <2>1
  <2>3. Lifts \in Range(p) <=> Lifts \in Range(q) \/ Lifts = Head(p)
    BY ONLY <2>1, <2>2, TheRest
  <2>4. program'[c] = q /\ Lifts # Head(p)
    BY <1>2, <1>3, <2>1 DEF Lifts, Stage
  <2>5. (\A a \in Caller : Lifts \notin Range(program'[a])) => \A a \in Caller : Lifts \notin Range(program[a])
    BY <1>5, <2>1, <2>3, <2>4
  <2> QED BY <1>1, <1>2, <2>5 DEF FingerComesUp
<1> QED BY <1>8, <1>9 DEF KeyInv
(* A call fails, or is cancelled.                                           *)
LEMMA FailsIs ==
    ASSUME ControlTypes, NEW c \in Caller, Fails(c)
    PROVE  /\ awaits[c] # "nothing" /\ awaits'[c] = "nothing" /\ program'[c] = <<>>
           /\ \A a \in Caller : a # c => awaits'[a] = awaits[a] /\ program'[a] = program[a]
           /\ program' \in [Caller -> Seq(StageOf)] /\ awaits' \in [Caller -> {"nothing", "answer", "time", "volume"}]
           /\ left' = left \cup Pending(c)
           /\ missed' = (IF Head(program[c]).does = "start" THEN missed \cup {"focus"} ELSE missed)
           /\ toDevice' \in Seq(Frames) /\ Fewer(toDevice', toDevice, c)
           /\ toApi' \in Seq(Frames) /\ Fewer(toApi', toApi, c)
           /\ woken' \in Seq(Frames) /\ Fewer(woken', woken, c)
           /\ UNCHANGED <<handlers, known, device, keys>>
<1>1. program \in [Caller -> Seq(StageOf)] /\ awaits \in [Caller -> {"nothing", "answer", "time", "volume"}]
      /\ toDevice \in Seq(Frames) /\ toApi \in Seq(Frames) /\ woken \in Seq(Frames)
  BY QueuesAre DEF ControlTypes
<1>2. /\ awaits[c] # "nothing" /\ awaits' = [awaits EXCEPT ![c] = "nothing"]
      /\ program' = [program EXCEPT ![c] = <<>>]
      /\ left' = left \cup Pending(c)
      /\ missed' = (IF Head(program[c]).does = "start" THEN missed \cup {"focus"} ELSE missed)
      /\ toDevice' = Ignored(toDevice, c) \/ toDevice' = Without(toDevice, c)
      /\ toApi' = Ignored(toApi, c) /\ woken' = Ignored(woken, c)
      /\ UNCHANGED <<handlers, known, device, keys>>
  BY Zenon DEF Fails
<1>3. awaits'[c] = "nothing" /\ program'[c] = <<>>
      /\ (\A a \in Caller : a # c => awaits'[a] = awaits[a] /\ program'[a] = program[a])
  BY <1>1, <1>2
<1>4. program' \in [Caller -> Seq(StageOf)]
  <2>1. <<>> \in Seq(StageOf)
    OBVIOUS
  <2> QED BY <1>1, <1>2, <2>1
<1>5. awaits' \in [Caller -> {"nothing", "answer", "time", "volume"}]
  BY <1>1, <1>2
<1>6. toApi' \in Seq(Frames) /\ Fewer(toApi', toApi, c)
  BY ONLY <1>1, <1>2, IgnoredIsFewer
<1>7. woken' \in Seq(Frames) /\ Fewer(woken', woken, c)
  BY ONLY <1>1, <1>2, IgnoredIsFewer
<1>8. toDevice' \in Seq(Frames) /\ Fewer(toDevice', toDevice, c)
  BY ONLY <1>1, <1>2, IgnoredIsFewer, WithoutIsFewer
<1> QED BY <1>2, <1>3, <1>4, <1>5, <1>6, <1>7, <1>8

(* A call that fails keeps the types.                                       *)
LEMMA FailsTypes ==
    ASSUME ControlTypes, NEW c \in Caller, Fails(c) PROVE ControlTypes'
<1>1. /\ toDevice' \in Seq(Frames) /\ Fewer(toDevice', toDevice, c)
      /\ toApi' \in Seq(Frames) /\ Fewer(toApi', toApi, c)
      /\ woken' \in Seq(Frames) /\ Fewer(woken', woken, c)
      /\ program' \in [Caller -> Seq(StageOf)] /\ awaits' \in [Caller -> {"nothing", "answer", "time", "volume"}]
      /\ UNCHANGED <<handlers, known, device, keys>>
  BY FailsIs
<1>2. /\ toDevice \in Seq(Frames) /\ toApi \in Seq(Frames) /\ woken \in Seq(Frames)
      /\ \A f \in Range(toDevice) : f \in RequestOf
      /\ \A f \in Range(toApi) : f \in EventOf \/ f \in AnswerOf
      /\ \A f \in Range(woken) : f \in AnswerOf
  BY QueuesAre
<1>3. "event" # c
  BY ControlsAssumption
<1>f. \A f \in Frames : f = [to |-> f.to, does |-> f.does, of |-> f.of]
  BY DEF Frames
<1>4. ASSUME NEW f \in Range(toDevice') PROVE f \in RequestOf
  <2>1. \/ f \in Range(toDevice) /\ f.to # c
        \/ f.to = "nobody" /\ \E e \in Range(toDevice) : e.to = c /\ f.does = e.does /\ f.of = e.of
    BY <1>1, <1>2, <1>4, FewerAre
  <2>2. f \in Frames
    BY <1>1, <1>4, InSeq
  <2>3. ASSUME NEW e \in Range(toDevice), e.to = c, f.does = e.does, f.of = e.of, f.to = "nobody" PROVE f \in RequestOf
    <3>1. [to |-> "nobody", does |-> e.does, of |-> e.of] \in RequestOf
      BY <1>2, <2>3, RequestsAre
    <3> QED BY <1>f, <2>2, <2>3, <3>1
  <2> QED BY <1>2, <2>1, <2>3
<1>5. ASSUME NEW f \in Range(toApi') PROVE f \in EventOf \cup AnswerOf
  <2>1. \/ f \in Range(toApi) /\ f.to # c
        \/ f.to = "nobody" /\ \E e \in Range(toApi) : e.to = c /\ f.does = e.does /\ f.of = e.of
    BY <1>1, <1>2, <1>5, FewerAre
  <2>2. f \in Frames
    BY <1>1, <1>5, InSeq
  <2>3. ASSUME NEW e \in Range(toApi), e.to = c, f.does = e.does, f.of = e.of, f.to = "nobody" PROVE f \in AnswerOf
    <3>0. e \in AnswerOf
      BY <1>2, <1>3, <2>3, EventsAre
    <3>1. [to |-> "nobody", does |-> e.does, of |-> e.of] \in AnswerOf
      BY <2>3, <3>0, AnswersAre
    <3> QED BY <1>f, <2>2, <2>3, <3>1
  <2> QED BY <1>2, <2>1, <2>3
<1>6. ASSUME NEW f \in Range(woken') PROVE f \in AnswerOf
  <2>1. \/ f \in Range(woken) /\ f.to # c
        \/ f.to = "nobody" /\ \E e \in Range(woken) : e.to = c /\ f.does = e.does /\ f.of = e.of
    BY <1>1, <1>2, <1>6, FewerAre
  <2>2. f \in Frames
    BY <1>1, <1>6, InSeq
  <2>3. ASSUME NEW e \in Range(woken), e.to = c, f.does = e.does, f.of = e.of, f.to = "nobody" PROVE f \in AnswerOf
    <3>1. [to |-> "nobody", does |-> e.does, of |-> e.of] \in AnswerOf
      BY <1>2, <2>3, AnswersAre
    <3> QED BY <1>f, <2>2, <2>3, <3>1
  <2> QED BY <1>2, <2>1, <2>3
<1>7. toDevice' \in Seq(RequestOf) /\ toApi' \in Seq(EventOf \cup AnswerOf) /\ woken' \in Seq(AnswerOf)
  BY <1>1, <1>4, <1>5, <1>6, SeqWhen
<1> QED BY <1>1, <1>7 DEF ControlTypes

(* A call that fails leaves no frame behind that would wake it.             *)
LEMMA FailsCalls ==
    ASSUME CallInv, NEW c \in Caller, Fails(c) PROVE CallInv'
<1>1. ControlTypes /\ AtItsStage /\ OneFrame
  BY DEF CallInv
<1>2. /\ awaits'[c] = "nothing" /\ program'[c] = <<>>
      /\ \A a \in Caller : a # c => awaits'[a] = awaits[a] /\ program'[a] = program[a]
      /\ toDevice' \in Seq(Frames) /\ Fewer(toDevice', toDevice, c)
      /\ toApi' \in Seq(Frames) /\ Fewer(toApi', toApi, c)
      /\ woken' \in Seq(Frames) /\ Fewer(woken', woken, c)
  BY <1>1, FailsIs
<1>3. toDevice \in Seq(Frames) /\ toApi \in Seq(Frames) /\ woken \in Seq(Frames)
  BY <1>1, QueuesAre
<1>4. "nobody" \notin Caller
  BY ControlsAssumption
<1>5. AtItsStage'
  BY <1>1, <1>2 DEF AtItsStage, Asks
<1>6. \A f : f.to # c /\ ForHead(f) => ForHead(f)'
  BY <1>2, OthersStay
<1>7. \A f : f.to = "nobody" => ForHead(f)'
  BY <1>4 DEF ForHead
<1>8. \A f \in Range(toDevice') : (f \in Range(toDevice) /\ f.to # c) \/ f.to = "nobody"
  BY <1>2, <1>3, FewerAre
<1>9. \A f \in Range(toApi') : (f \in Range(toApi) /\ f.to # c) \/ f.to = "nobody"
  BY <1>2, <1>3, FewerAre
<1>10. \A f \in Range(woken') : (f \in Range(woken) /\ f.to # c) \/ f.to = "nobody"
  BY <1>2, <1>3, FewerAre
<1>11. /\ \A f \in Range(toDevice') : ForHead(f)'
       /\ \A f \in Range(toApi') : ForHead(f)'
       /\ \A f \in Range(woken') : ForHead(f)'
  BY <1>1, <1>6, <1>7, <1>8, <1>9, <1>10 DEF OneFrame
<1>12. \A f \in Range(toDevice') : f.to \in Caller => f.of = Head(program'[f.to]).of
  BY <1>1, <1>2, <1>4, <1>8 DEF OneFrame
<1>13. \A a \in Caller : a # "nobody"
  BY <1>4
<1>14. \A a \in Caller : /\ a # c => (Reaches(toDevice', a) <=> Reaches(toDevice, a))
                         /\ a = c => ~ Reaches(toDevice', a)
                         /\ Once(toDevice, a) => Once(toDevice', a)
  BY <1>2, <1>3, <1>13, FewerReach
<1>15. \A a \in Caller : /\ a # c => (Reaches(toApi', a) <=> Reaches(toApi, a))
                         /\ a = c => ~ Reaches(toApi', a)
                         /\ Once(toApi, a) => Once(toApi', a)
  BY <1>2, <1>3, <1>13, FewerReach
<1>16. \A a \in Caller : /\ a # c => (Reaches(woken', a) <=> Reaches(woken, a))
                         /\ a = c => ~ Reaches(woken', a)
                         /\ Once(woken, a) => Once(woken', a)
  BY <1>2, <1>3, <1>13, FewerReach
<1>17. \A a \in Caller : /\ Once(toDevice', a) /\ Once(toApi', a) /\ Once(woken', a)
                         /\ ~ (Reaches(toDevice', a) /\ Reaches(toApi', a))
                         /\ ~ (Reaches(toDevice', a) /\ Reaches(woken', a))
                         /\ ~ (Reaches(toApi', a) /\ Reaches(woken', a))
  BY <1>1, <1>14, <1>15, <1>16 DEF OneFrame
<1> QED BY <1>1, <1>5, <1>11, <1>12, <1>17, FailsTypes DEF CallInv, OneFrame
(* A call that fails takes no event with it.                                *)
LEMMA FailsAgree ==
    ASSUME CallInv, AgreeInv, NEW c \in Caller, Fails(c) PROVE AgreeInv'
<1>1. ControlTypes /\ OneFrame /\ FlagsAgree /\ StatusAgree /\ LevelAgrees /\ FocusAgrees
  BY DEF CallInv, AgreeInv
<1>2. /\ missed' = (IF Head(program[c]).does = "start" THEN missed \cup {"focus"} ELSE missed)
      /\ UNCHANGED <<handlers, known, device>>
  BY <1>1, FailsIs
<1>q. /\ toDevice' \in Seq(Frames) /\ Fewer(toDevice', toDevice, c)
      /\ toApi' \in Seq(Frames) /\ Fewer(toApi', toApi, c)
      /\ woken' \in Seq(Frames) /\ Fewer(woken', woken, c)
  BY <1>1, FailsIs
<1>3. /\ toDevice \in Seq(Frames) /\ toApi \in Seq(Frames) /\ woken \in Seq(Frames)
      /\ \A f \in Range(toDevice) : f \in RequestOf
      /\ \A f \in Range(toApi) : f \in EventOf \/ f \in AnswerOf
      /\ \A f \in Range(woken) : f \in AnswerOf
  BY <1>1, QueuesAre
<1>4. c # "nobody" /\ c # "event" /\ c # "volume"
  BY ControlsAssumption
<1>5. /\ \A f \in Range(toApi) : f.does \in {"flags", "status", "focus", "get"} => f.to # c
      /\ \A f \in Range(woken) : f.does \in {"get", "focus"} => f.to # c
      /\ \A f \in Range(toDevice) : f.does = "get" => f.to # c
  <2>1. ASSUME NEW f \in Range(toApi), f.does \in {"flags", "status", "focus", "get"} PROVE f.to # c
    <3>1. CASE f \in EventOf
      BY <1>4, <3>1, EventsAre
    <3>2. CASE f \in AnswerOf
      BY <1>4, <2>1, <3>2, AnswersAre
    <3> QED BY <1>3, <3>1, <3>2
  <2>2. ASSUME NEW f \in Range(woken), f.does \in {"get", "focus"} PROVE f.to # c
    BY <1>3, <1>4, <2>2, AnswersAre
  <2>3. ASSUME NEW f \in Range(toDevice), f.does = "get" PROVE f.to # c
    BY <1>3, <1>4, <2>3, RequestsAre
  <2> QED BY <2>1, <2>2, <2>3
<1>6. FlagsAgree'
  <2>1. \A f \in Range(toApi) : f.does \in {"flags"} => f.to # c
    BY <1>5
  <2>2. PICK v, k : v = device.control /\ k = known.control
    OBVIOUS
  <2>3. InTheEnd(toApi, handlers, {"flags"}, v, k)
    BY <1>1, <2>2 DEF FlagsAgree
  <2>4. InTheEnd(toApi', handlers, {"flags"}, v, k)
    BY ONLY <1>q, <1>3, <2>1, <2>3, EndFewer
  <2> QED BY <1>2, <2>2, <2>4 DEF FlagsAgree
<1>7. StatusAgree'
  <2>1. \A f \in Range(toApi) : f.does \in {"status"} => f.to # c
    BY <1>5
  <2>2. PICK v, k : v = device.awake /\ k = known.awake
    OBVIOUS
  <2>3. InTheEnd(toApi, handlers, {"status"}, v, k)
    BY <1>1, <2>2 DEF StatusAgree
  <2>4. InTheEnd(toApi', handlers, {"status"}, v, k)
    BY ONLY <1>q, <1>3, <2>1, <2>3, EndFewer
  <2> QED BY <1>2, <2>2, <2>4 DEF StatusAgree
<1>8. LevelAgrees'
  <2>1. \A f \in Range(toApi) : f.does \in {"flags"} => f.to # c
    BY <1>5
  <2>2. \A f \in Range(toApi) : f.does \in {"get"} => f.to # c
    BY <1>5
  <2>3. \A f \in Range(woken) : f.does \in {"get"} => f.to # c
    BY <1>5
  <2>4. \A f \in Range(toDevice) : f.does \in {"get"} => f.to # c
    BY <1>5
  <2>5. Has(toApi', {"flags"}) <=> Has(toApi, {"flags"})
    BY <1>q, <1>3, <2>1, FewerSay
  <2>6. Has(toDevice', {"get"}) <=> Has(toDevice, {"get"})
    BY <1>q, <1>3, <2>4, FewerSay
  <2>7. \A v : (Has(woken', {"get"}) <=> Has(woken, {"get"})) /\ (LastSays(woken, {"get"}, v) => LastSays(woken', {"get"}, v))
    BY <1>q, <1>3, <2>3, FewerSay
  <2>8. \A v : (Has(toApi', {"get"}) <=> Has(toApi, {"get"})) /\ (LastSays(toApi, {"get"}, v) => LastSays(toApi', {"get"}, v))
    BY <1>q, <1>3, <2>2, FewerSay
  <2>9. \A v, k : InTheEnd(toApi, woken, {"get"}, v, k) => InTheEnd(toApi', woken', {"get"}, v, k)
    BY <2>7, <2>8, Zenon DEF InTheEnd
  <2>10. "level" \notin missed' => "level" \notin missed
    BY <1>2
  <2> QED BY <1>1, <1>2, <2>5, <2>6, <2>9, <2>10 DEF LevelAgrees, LevelAsked
<1>9. FocusAgrees'
  <2>1. \A f : ForHead(f) /\ f.to = c /\ f.does = "start" => Head(program[c]).does = "start"
    BY DEF ForHead
  <2>2. /\ \A f \in Range(toDevice) : f.to = c /\ f.does = "start" => "focus" \in missed'
        /\ \A f \in Range(toApi) : f.to = c /\ f.does = "start" => "focus" \in missed'
        /\ \A f \in Range(woken) : f.to = c /\ f.does = "start" => "focus" \in missed'
    BY <1>1, <1>2, <2>1 DEF OneFrame
  <2>3. missed \subseteq missed'
    BY <1>2
  <2>a. \A f \in Range(toDevice') :
        \/ f \in Range(toDevice) /\ f.to # c
        \/ f.to = "nobody" /\ \E e \in Range(toDevice) : e.to = c /\ f.does = e.does /\ f.of = e.of
    BY ONLY <1>q, <1>3, FewerAre
  <2>4. ASSUME NEW f \in Range(toDevice'), f.does = "start", f.to = "nobody" PROVE "focus" \in missed'
    BY <1>1, <2>2, <2>3, <2>4, <2>a DEF FocusAgrees
  <2>b. \A f \in Range(toApi') :
        \/ f \in Range(toApi) /\ f.to # c
        \/ f.to = "nobody" /\ \E e \in Range(toApi) : e.to = c /\ f.does = e.does /\ f.of = e.of
    BY ONLY <1>q, <1>3, FewerAre
  <2>5. ASSUME NEW f \in Range(toApi'), f.does = "start", f.to = "nobody" PROVE "focus" \in missed'
    BY <1>1, <2>2, <2>3, <2>5, <2>b DEF FocusAgrees
  <2>c. \A f \in Range(woken') :
        \/ f \in Range(woken) /\ f.to # c
        \/ f.to = "nobody" /\ \E e \in Range(woken) : e.to = c /\ f.does = e.does /\ f.of = e.of
    BY ONLY <1>q, <1>3, FewerAre
  <2>6. ASSUME NEW f \in Range(woken'), f.does = "start", f.to = "nobody" PROVE "focus" \in missed'
    BY <1>1, <2>2, <2>3, <2>6, <2>c DEF FocusAgrees
  <2>7. ASSUME device.session, "focus" \notin missed'
        PROVE  /\ LastSays(toApi', {"focus", "start"}, device.focused)
               /\ ~ Has(toApi', {"focus", "start"}) /\ NotOvertaken' =>
                    InTheEnd(woken', handlers, {"focus", "start"}, device.focused, known.focused)
    <3>1. /\ \A f \in Range(toApi) : f.does \in {"focus", "start"} => f.to # c
          /\ \A f \in Range(woken) : f.does \in {"focus", "start"} => f.to # c
          /\ \A f \in Range(woken) : f.does \in {"start"} => f.to # c
      BY <1>5, <2>2, <2>7
    <3>2. (Has(toApi', {"focus", "start"}) <=> Has(toApi, {"focus", "start"}))
          /\ \A v : LastSays(toApi, {"focus", "start"}, v) => LastSays(toApi', {"focus", "start"}, v)
      BY <1>q, <1>3, <3>1, FewerSay
    <3>3. Has(woken', {"start"}) <=> Has(woken, {"start"})
      BY <1>q, <1>3, <3>1, FewerSay
    <3>4. NotOvertaken' => NotOvertaken
      BY <1>2, <3>3 DEF NotOvertaken
    <3>5. \A v, k : InTheEnd(woken, handlers, {"focus", "start"}, v, k) => InTheEnd(woken', handlers, {"focus", "start"}, v, k)
      BY <1>q, <1>3, <3>1, EndFewer
    <3> QED BY <1>1, <2>3, <2>7, <3>2, <3>4, <3>5 DEF FocusAgrees
  <2>8. \A f \in Range(toApi') \cup Range(woken') : f.does = "start" /\ f.to = "nobody" => "focus" \in missed'
    BY <2>5, <2>6
  <2> QED BY <1>2, <2>4, <2>7, <2>8 DEF FocusAgrees
<1> QED BY <1>6, <1>7, <1>8, <1>9 DEF AgreeInv

(* What a call has yet to release is pending.                               *)
LEMMA PendingIs ==
    ASSUME ControlTypes, NEW c \in Caller
    PROVE  /\ \A j \in DOMAIN program[c] : program[c][j].does \in {"press", "release"} => program[c][j].of \in Pending(c)
           /\ Lifts \in Range(program[c]) => "finger" \in Pending(c)
<1>1. program[c] \in Seq(StageOf)
  BY DEF ControlTypes
<1>2. Lifts \in Range(program[c]) => \E j \in DOMAIN program[c] : program[c][j] = Stage("touch", "release")
  BY <1>1 DEF Range, Lifts
<1> QED BY <1>1, <1>2 DEF Pending

(* A call that fails leaves down only what it notes.                        *)
LEMMA FailsKeys ==
    ASSUME CallInv, KeyInv, NEW c \in Caller, Fails(c) PROVE KeyInv'
<1>1. ControlTypes /\ AtItsStage /\ OneFrame /\ KeysComeUp /\ FingerComesUp
  BY DEF CallInv, KeyInv
<1>2. /\ awaits[c] # "nothing" /\ awaits'[c] = "nothing" /\ program'[c] = <<>>
      /\ \A a \in Caller : a # c => awaits'[a] = awaits[a] /\ program'[a] = program[a]
      /\ left' = left \cup Pending(c)
      /\ toDevice' \in Seq(Frames) /\ Fewer(toDevice', toDevice, c)
      /\ UNCHANGED keys
  BY <1>1, FailsIs
<1>3. toDevice \in Seq(Frames) /\ \A f \in Range(toDevice) : f \in RequestOf
  BY <1>1, QueuesAre
<1>4. "nobody" \notin Caller
  BY ControlsAssumption
<1>5. program[c] \in Seq(StageOf) /\ program[c] # <<>>
  BY <1>1, <1>2 DEF ControlTypes, AtItsStage
<1>6. /\ \A j \in DOMAIN program[c] : program[c][j].does \in {"press", "release"} => program[c][j].of \in Pending(c)
      /\ Lifts \in Range(program[c]) => "finger" \in Pending(c)
  BY <1>1, PendingIs
<1>7. \A a \in Caller : a # c => (Reaches(toDevice', a) <=> Reaches(toDevice, a))
  BY <1>2, <1>3, <1>4, FewerReach
<1>8. Paired(<<>>) /\ OfAKind(<<>>) /\ Range(<<>>) = {}
  BY DEF Paired, OfAKind, Range
<1>9. \A a \in Caller : Paired(program'[a]) /\ OfAKind(program'[a])
  BY <1>1, <1>2, <1>8 DEF KeysComeUp
<1>10. ASSUME NEW a \in Caller, NEW k, ToRelease(a, k) PROVE k \in left' \/ ToRelease(a, k)'
  <2>1. CASE a = c
    <3>1. PICK j \in DOMAIN program[c] : program[c][j] = Release(k)
      BY <1>5, <1>10, <2>1 DEF ToRelease
    <3> QED BY <1>2, <1>6, <3>1 DEF Release, Stage
  <2>2. CASE a # c
    BY <1>2, <1>7, <1>10, <2>2 DEF ToRelease
  <2> QED BY <2>1, <2>2
<1>11. ASSUME NEW f \in Range(toDevice'), f.does = "press", f.to = "nobody" PROVE f.of \in left'
  <2>1. \/ f \in Range(toDevice) /\ f.to # c
        \/ f.to = "nobody" /\ \E e \in Range(toDevice) : e.to = c /\ f.does = e.does /\ f.of = e.of
    BY <1>2, <1>3, <1>11, FewerAre
  <2>2. ASSUME NEW e \in Range(toDevice), e.to = c, f.does = e.does, f.of = e.of PROVE f.of \in left'
    <3>1. Head(program[c]).does = "press" /\ Head(program[c]).of = f.of
      BY <1>1, <1>11, <2>2 DEF OneFrame, ForHead
    <3>2. Head(program[c]) = program[c][1] /\ 1 \in DOMAIN program[c]
      BY <1>5
    <3> QED BY <1>2, <1>6, <3>1, <3>2
  <2> QED BY <1>1, <1>2, <1>11, <2>1, <2>2 DEF KeysComeUp
<1>12. KeysComeUp'
  <2>1. \A k \in keys : k = "finger" \/ k \in left' \/ \E a \in Caller : ToRelease(a, k)'
    BY <1>1, <1>2, <1>10 DEF KeysComeUp
  <2> QED BY <1>2, <1>9, <1>11, <2>1 DEF KeysComeUp
<1>13. FingerComesUp'
  <2>0. \A f \in Range(toDevice) : f.does = "touch" => f.to # c
    BY <1>3, <1>4, RequestsAre
  <2>1. \A f \in Range(toDevice) : f.does \in {"touch"} => f.to # c
    BY <2>0
  <2>2. Settled(toDevice) => Settled(toDevice')
    BY <1>2, <1>3, <2>0, FewerSettle
  <2>3. Has(toDevice', {"touch"}) <=> Has(toDevice, {"touch"})
    BY <1>2, <1>3, <2>1, FewerSay
  <2>4. ASSUME "finger" \notin left', \A a \in Caller : Lifts \notin Range(program'[a])
        PROVE  "finger" \notin left /\ \A a \in Caller : Lifts \notin Range(program[a])
    BY <1>2, <1>6, <2>4
  <2> QED BY <1>1, <1>2, <2>2, <2>3, <2>4 DEF FingerComesUp
<1> QED BY <1>12, <1>13 DEF KeyInv
-----------------------------------------------------------------------------
(* The steps of the device.                                                 *)
LEMMA AppendOne ==
    ASSUME NEW X, NEW s \in Seq(X), NEW a \in X PROVE s \o <<a>> = Append(s, a)
<1>1. PICK t, u : t = s \o <<a>> /\ u = Append(s, a)
  OBVIOUS
<1>2. PICK n \in Nat : n = Len(s)
  OBVIOUS
<1>3. t \in Seq(X) /\ Len(t) = n + 1 /\ (\A i \in 1..n : t[i] = s[i]) /\ t[n + 1] = a
  BY <1>1, <1>2
<1>4. u \in Seq(X) /\ Len(u) = n + 1 /\ (\A i \in 1..n : u[i] = s[i]) /\ u[n + 1] = a
  BY <1>1, <1>2
<1>5. \A i \in 1..n + 1 : i \in 1..n \/ i = n + 1
  BY <1>2
<1>6. t = u
  BY ONLY <1>3, <1>4, <1>5, SeqEqual
<1> QED BY <1>1, <1>6

(* What the device says of a request: perhaps that the volume has changed,   *)
(* and the answer.                                                          *)
Between(mid) ==
    \/ mid = toApi /\ device'.level = device.level
    \/ mid = Append(toApi, Says("flags", TRUE)) /\ device.control
AnswersWith(mid, a) ==
    /\ Between(mid) /\ toApi' = Append(mid, a) /\ a \in AnswerOf
    /\ a.to = Head(toDevice).to /\ a.does = Head(toDevice).does
    /\ Head(toDevice).does = "get" => a.of = device.level /\ mid = toApi
    /\ Head(toDevice).does = "start" => a.of = device.focused
DeviceKeeps ==
    /\ device' \in [control : BOOLEAN, level : Level, focused : BOOLEAN, session : BOOLEAN, awake : BOOLEAN]
    /\ device'.control = device.control /\ device'.focused = device.focused /\ device'.awake = device.awake
    /\ Head(toDevice).does \notin {"stop", "start"} => device'.session = device.session
    /\ Head(toDevice).does = "stop" => device'.session = FALSE

(* A request that sets the volume is answered after the event that tells of *)
(* it.                                                                      *)
LEMMA SetsIs ==
    ASSUME ControlTypes, NEW r, toDevice # <<>>, r = Head(toDevice), r \in RequestOf, r.does \in {"press", "set"},
           NEW n \in Level, Sets(r, n, "ok")
    PROVE  DeviceKeeps /\ \E mid, a : AnswersWith(mid, a)
<1>1. device \in [control : BOOLEAN, level : Level, focused : BOOLEAN, session : BOOLEAN, awake : BOOLEAN]
      /\ toApi \in Seq(Frames)
  BY QueuesAre DEF ControlTypes
<1>2. PICK a : a = Answers(r, "ok")
  OBVIOUS
<1>3. a.to = r.to /\ a.does = r.does /\ a \in AnswerOf /\ r.does # "get" /\ r.does \notin {"stop", "start"}
  BY <1>2 DEF Answers, RequestOf, AnswerOf
<1>4. a \in Frames
  BY <1>3, AnswersAre
<1>5. PICK e : e = Says("flags", TRUE)
  OBVIOUS
<1>6. e \in Frames
  <2>1. e \in EventOf
    BY <1>5 DEF Says, EventOf
  <2> QED BY <2>1, EventsAre
<1>7. CASE device.control
  <2>1. device' = [device EXCEPT !.level = n] /\ toApi' = toApi \o Told(n) \o <<a>>
    BY <1>2, <1>7 DEF Sets
  <2>2. DeviceKeeps /\ device'.level = n
    BY <1>1, <1>3, <2>1 DEF DeviceKeeps
  <2>3. CASE n = device.level
    <3>1. Told(n) = <<>>
      BY <2>3 DEF Told
    <3>2. toApi \o <<>> = toApi
      BY ONLY <1>1, ConcatEmptySeq
    <3>3. toApi' = toApi \o <<a>>
      BY ONLY <2>1, <3>1, <3>2, Zenon
    <3>4. toApi' = Append(toApi, a)
      BY <1>1, <1>4, <3>3, AppendOne
    <3>5. Between(toApi)
      BY <2>2, <2>3 DEF Between
    <3>6. AnswersWith(toApi, a)
      BY <1>3, <3>4, <3>5 DEF AnswersWith
    <3> QED BY <2>2, <3>6
  <2>4. CASE n # device.level
    <3>1. Told(n) = <<e>>
      BY <1>5, <2>4 DEF Told
    <3>2. toApi \o <<e>> = Append(toApi, e)
      BY ONLY <1>1, <1>6, AppendOne
    <3>3. toApi' = Append(toApi, e) \o <<a>>
      BY ONLY <2>1, <3>1, <3>2, Zenon
    <3>4. PICK mid : mid = Append(toApi, e)
      OBVIOUS
    <3>5. mid \in Seq(Frames)
      BY <1>1, <1>6, <3>4
    <3>6. mid \o <<a>> = Append(mid, a)
      BY ONLY <1>4, <3>5, AppendOne
    <3>7. toApi' = Append(mid, a)
      BY ONLY <3>3, <3>4, <3>6
    <3>8. Between(mid)
      BY <1>5, <1>7, <3>4 DEF Between
    <3>9. AnswersWith(mid, a)
      BY <1>3, <3>7, <3>8 DEF AnswersWith
    <3> QED BY <2>2, <3>9
  <2> QED BY <2>3, <2>4
<1>8. CASE ~ device.control
  <2>1. device' = device /\ toApi' = Append(toApi, a)
    BY <1>2, <1>8 DEF Sets
  <2>2. DeviceKeeps
    BY <1>1, <1>3, <2>1 DEF DeviceKeeps
  <2>3. Between(toApi)
    BY <2>1 DEF Between
  <2>4. AnswersWith(toApi, a)
    BY <1>3, <2>1, <2>3 DEF AnswersWith
  <2> QED BY <2>2, <2>4
<1> QED BY <1>7, <1>8

(* A step of the volume keeps it in its range.                              *)
LEMMA ClampedIs == ASSUME NEW n \in Level, NEW d \in {1, -1, 0} PROVE Clamped(n + d) \in Level
BY ControlsAssumption DEF Clamped, Level

(* What a request does to the keys.                                         *)
KeysAfter(r) ==
    /\ r.does = "press" => keys' = keys \cup {r.of}
    /\ r.does = "release" => keys' = keys \ {r.of}
    /\ r.does = "touch" => keys' = IF r.of \in {"press", "hold"} THEN keys \cup {"finger"} ELSE keys \ {"finger"}
    /\ r.does \notin {"press", "release", "touch"} => keys' = keys

(* A request is answered, and its event sent, or it is one nobody answers.  *)
LEMMA DeviceHandlesIs ==
    ASSUME ControlTypes, DeviceHandles
    PROVE  /\ toDevice # <<>> /\ toDevice' = Tail(toDevice) /\ Head(toDevice) \in RequestOf
           /\ UNCHANGED <<program, awaits, handlers, woken, known, left, missed>>
           /\ KeysAfter(Head(toDevice)) /\ DeviceKeeps
           /\ \/ Head(toDevice).does \notin {"touch", "type"} /\ \E mid, a : AnswersWith(mid, a)
              \/ Head(toDevice).does \in {"touch", "type"} /\ toApi' = toApi /\ device' = device
<1>1. toDevice # <<>> /\ toDevice' = Tail(toDevice)
      /\ UNCHANGED <<program, awaits, handlers, woken, known, left, missed>>
  BY DEF DeviceHandles, callVars
<1>2. toDevice \in Seq(RequestOf)
      /\ device \in [control : BOOLEAN, level : Level, focused : BOOLEAN, session : BOOLEAN, awake : BOOLEAN]
  BY DEF ControlTypes
<1>3. PICK r : r = Head(toDevice)
  OBVIOUS
<1>4. r \in RequestOf
  BY <1>1, <1>2, <1>3
<1>5. CASE r.does = "press"
  <2>1. PICK d : d = CASE r.of = "volumeUp" -> 1 [] r.of = "volumeDown" -> -1 [] OTHER -> 0
    OBVIOUS
  <2>2. d \in {1, -1, 0}
    BY <2>1
  <2>3. keys' = keys \cup {r.of} /\ Sets(r, Clamped(device.level + d), "ok")
    BY <1>3, <1>5, <2>1, Zenon DEF DeviceHandles
  <2>4. Clamped(device.level + d) \in Level
    BY <1>2, <2>2, ClampedIs
  <2>5. DeviceKeeps /\ \E mid, a : AnswersWith(mid, a)
    BY <1>1, <1>3, <1>4, <1>5, <2>3, <2>4, SetsIs
  <2>6. KeysAfter(r)
    BY <1>5, <2>3 DEF KeysAfter
  <2> QED BY <1>1, <1>3, <1>4, <1>5, <2>5, <2>6
<1>6. CASE r.does = "set"
  <2>1. keys' = keys /\ Sets(r, r.of, "ok")
    BY <1>3, <1>6, Zenon DEF DeviceHandles
  <2>2. r.of \in Level
    BY <1>4, <1>6, RequestsAre
  <2>3. DeviceKeeps /\ \E mid, a : AnswersWith(mid, a)
    BY <1>1, <1>3, <1>4, <1>6, <2>1, <2>2, SetsIs
  <2>4. KeysAfter(r)
    BY <1>6, <2>1 DEF KeysAfter
  <2> QED BY <1>1, <1>3, <1>4, <1>6, <2>3, <2>4
<1>7. CASE r.does \in {"release", "get", "command", "stop", "start"}
  <2>1. /\ r.does = "release" => keys' = keys \ {r.of} /\ toApi' = Append(toApi, Answers(r, "ok")) /\ device' = device
        /\ r.does \in {"get", "command"} => toApi' = Append(toApi, Answers(r, device.level)) /\ device' = device /\ keys' = keys
        /\ r.does \in {"stop", "start"} =>
              device' = [device EXCEPT !.session = (r.does = "start")] /\ toApi' = Append(toApi, Answers(r, device.focused)) /\ keys' = keys
    BY <1>3, <1>7 DEF DeviceHandles
  <2>2. PICK a : a = Answers(r, IF r.does = "release" THEN "ok" ELSE IF r.does \in {"get", "command"} THEN device.level ELSE device.focused)
    OBVIOUS
  <2>3. a.to = r.to /\ a.does = r.does /\ (r.does = "get" => a.of = device.level) /\ (r.does = "start" => a.of = device.focused)
    BY <2>2 DEF Answers
  <2>4. a \in AnswerOf
    <3>1. CASE r.does = "release"
      BY <1>4, <2>2, <3>1 DEF Answers, RequestOf, AnswerOf
    <3>2. CASE r.does = "get"
      BY <1>2, <1>4, <2>2, <3>2 DEF Answers, RequestOf, AnswerOf, LevelOf
    <3>3. CASE r.does = "command"
      BY <1>2, <1>4, <2>2, <3>3 DEF Answers, RequestOf, AnswerOf
    <3>4. CASE r.does = "stop"
      BY <1>2, <1>4, <2>2, <3>4 DEF Answers, RequestOf, AnswerOf
    <3>5. CASE r.does = "start"
      BY <1>2, <1>4, <2>2, <3>5 DEF Answers, RequestOf, AnswerOf, StartOf
    <3> QED BY <1>7, <3>1, <3>2, <3>3, <3>4, <3>5
  <2>5. toApi' = Append(toApi, a)
    BY <1>7, <2>1, <2>2
  <2>6. DeviceKeeps /\ device'.level = device.level
    BY <1>2, <1>3, <1>7, <2>1 DEF DeviceKeeps
  <2>7. Between(toApi)
    BY <2>6 DEF Between
  <2>8. AnswersWith(toApi, a)
    BY <1>3, <2>3, <2>4, <2>5, <2>7 DEF AnswersWith
  <2>9. KeysAfter(r)
    BY <1>7, <2>1 DEF KeysAfter
  <2> QED BY <1>1, <1>3, <1>4, <1>7, <2>6, <2>8, <2>9
<1>8. CASE r.does \in {"touch", "type"}
  <2>1. /\ toApi' = toApi /\ device' = device
        /\ r.does = "touch" => keys' = IF r.of \in {"press", "hold"} THEN keys \cup {"finger"} ELSE keys \ {"finger"}
        /\ r.does = "type" => keys' = keys
    BY <1>3, <1>8 DEF DeviceHandles
  <2>2. KeysAfter(r)
    BY <1>8, <2>1 DEF KeysAfter
  <2>3. DeviceKeeps
    BY <1>2, <1>3, <1>8, <2>1 DEF DeviceKeeps
  <2> QED BY <1>1, <1>3, <1>4, <1>8, <2>1, <2>2, <2>3
<1>9. r.does \in {"press", "release", "set", "stop", "start", "command", "touch", "type", "get"}
  BY <1>4, RequestsAre
<1> QED BY <1>5, <1>6, <1>7, <1>8, <1>9
(* An event of the flags reaches no call.                                   *)
LEMMA BetweenIs ==
    ASSUME ControlTypes, NEW mid, Between(mid)
    PROVE  /\ mid \in Seq(EventOf \cup AnswerOf) /\ mid \in Seq(Frames)
           /\ \A x \in Range(mid) : x \in Range(toApi) \/ (x.to = "event" /\ x.does = "flags")
           /\ \A c \in Caller : (Reaches(mid, c) <=> Reaches(toApi, c)) /\ (Once(toApi, c) => Once(mid, c))
<1>1. toApi \in Seq(EventOf \cup AnswerOf) /\ toApi \in Seq(Frames)
  BY QueuesAre DEF ControlTypes
<1>2. PICK e : e = Says("flags", TRUE)
  OBVIOUS
<1>3. e \in EventOf /\ e.to = "event" /\ e.does = "flags" /\ e \in Frames
  <2>1. e \in EventOf /\ e.to = "event" /\ e.does = "flags"
    BY <1>2 DEF Says, EventOf
  <2> QED BY <2>1, EventsAre
<1>4. "event" \notin Caller
  BY ControlsAssumption
<1>5. CASE mid = toApi
  BY <1>1, <1>5
<1>6. CASE mid = Append(toApi, e)
  <2>1. mid \in Seq(EventOf \cup AnswerOf) /\ mid \in Seq(Frames)
    BY <1>1, <1>3, <1>6
  <2>2. \A x : x \in Range(mid) <=> x \in Range(toApi) \/ x = e
    BY <1>1, <1>3, <1>6, OneMoreIn
  <2>3. \A c : (Reaches(mid, c) <=> Reaches(toApi, c) \/ e.to = c)
               /\ (Once(toApi, c) /\ (e.to = c => ~ Reaches(toApi, c)) => Once(mid, c))
    BY <1>1, <1>3, <1>6, MoreReaches
  <2> QED BY <1>3, <1>4, <2>1, <2>2, <2>3
<1> QED BY <1>2, <1>5, <1>6 DEF Between

(* The device keeps the types.                                              *)
LEMMA DeviceHandlesTypes ==
    ASSUME ControlTypes, DeviceHandles PROVE ControlTypes'
<1>1. /\ toDevice # <<>> /\ toDevice' = Tail(toDevice) /\ Head(toDevice) \in RequestOf
      /\ UNCHANGED <<program, awaits, handlers, woken, known, left, missed>>
      /\ KeysAfter(Head(toDevice)) /\ DeviceKeeps
      /\ \/ Head(toDevice).does \notin {"touch", "type"} /\ \E mid, a : AnswersWith(mid, a)
         \/ Head(toDevice).does \in {"touch", "type"} /\ toApi' = toApi /\ device' = device
  BY DeviceHandlesIs
<1>2. toDevice' \in Seq(RequestOf)
  <2>1. toDevice \in Seq(RequestOf)
    BY DEF ControlTypes
  <2> QED BY ONLY <1>1, <2>1
<1>3. toApi' \in Seq(EventOf \cup AnswerOf)
  <2>1. ASSUME NEW mid, NEW a, AnswersWith(mid, a) PROVE toApi' \in Seq(EventOf \cup AnswerOf)
    <3>1. Between(mid) /\ toApi' = Append(mid, a) /\ a \in AnswerOf
      BY <2>1 DEF AnswersWith
    <3>2. mid \in Seq(EventOf \cup AnswerOf)
      BY <3>1, BetweenIs
    <3> QED BY ONLY <3>1, <3>2
  <2>2. toApi \in Seq(EventOf \cup AnswerOf)
    BY DEF ControlTypes
  <2> QED BY <1>1, <2>1, <2>2
<1>4. keys' \subseteq Buttons \cup {"finger"}
  <2>1. keys \subseteq Buttons \cup {"finger"}
    BY DEF ControlTypes
  <2>2. Head(toDevice).does = "press" => Head(toDevice).of \in Buttons
    BY <1>1, RequestsAre
  <2>3. PICK r : r = Head(toDevice)
    OBVIOUS
  <2>4. CASE r.does = "press"
    BY <1>1, <2>1, <2>2, <2>3, <2>4 DEF KeysAfter
  <2>5. CASE r.does = "release"
    BY <1>1, <2>1, <2>3, <2>5 DEF KeysAfter
  <2>6. CASE r.does = "touch"
    BY <1>1, <2>1, <2>3, <2>6 DEF KeysAfter
  <2>7. CASE r.does \notin {"press", "release", "touch"}
    BY <1>1, <2>1, <2>3, <2>7 DEF KeysAfter
  <2> QED BY <2>4, <2>5, <2>6, <2>7
<1>5. device' \in [control : BOOLEAN, level : Level, focused : BOOLEAN, session : BOOLEAN, awake : BOOLEAN]
  BY <1>1 DEF DeviceKeeps
<1> QED BY <1>1, <1>2, <1>3, <1>4, <1>5 DEF ControlTypes

(* The answer to a request goes to who sent it.                             *)
LEMMA DeviceHandlesCalls ==
    ASSUME CallInv, DeviceHandles PROVE CallInv'
<1>1. ControlTypes /\ AtItsStage /\ OneFrame
  BY DEF CallInv
<1>2. /\ toDevice # <<>> /\ toDevice' = Tail(toDevice) /\ Head(toDevice) \in RequestOf
      /\ UNCHANGED <<program, awaits, handlers, woken, known, left, missed>>
      /\ \/ Head(toDevice).does \notin {"touch", "type"} /\ \E mid, a : AnswersWith(mid, a)
         \/ Head(toDevice).does \in {"touch", "type"} /\ toApi' = toApi /\ device' = device
  BY <1>1, DeviceHandlesIs
<1>3. toDevice \in Seq(Frames) /\ toApi \in Seq(Frames) /\ toDevice \in Seq(RequestOf)
  BY <1>1, QueuesAre DEF ControlTypes
<1>4. PICK r : r = Head(toDevice)
  OBVIOUS
<1>5. \A x : x \in Range(toDevice) <=> x \in Range(toDevice') \/ x = r
  BY <1>2, <1>3, <1>4, OneLess
<1>6. \A c : (Reaches(toDevice, c) <=> Reaches(toDevice', c) \/ r.to = c)
             /\ (Once(toDevice, c) => Once(toDevice', c) /\ (r.to = c => ~ Reaches(toDevice', c)))
  BY <1>2, <1>3, <1>4, LessReaches
<1>7. AtItsStage'
  BY <1>1, <1>2 DEF AtItsStage, Asks
<1>8. \A f : ForHead(f) => ForHead(f)'
  BY <1>2 DEF ForHead
<1>9. /\ \A f \in Range(toDevice') : ForHead(f)' /\ (f.to \in Caller => f.of = Head(program'[f.to]).of)
      /\ \A f \in Range(woken') : ForHead(f)'
      /\ \A f \in Range(toApi) : ForHead(f)'
      /\ ForHead(r)
  BY <1>1, <1>2, <1>5, <1>8 DEF OneFrame
<1>10. ASSUME NEW mid, NEW a, AnswersWith(mid, a)
       PROVE  /\ \A f \in Range(toApi') : ForHead(f)'
              /\ \A c \in Caller : /\ Reaches(toApi', c) <=> Reaches(toApi, c) \/ r.to = c
                                   /\ Once(toApi, c) /\ (r.to = c => ~ Reaches(toApi, c)) => Once(toApi', c)
  <2>1. Between(mid) /\ toApi' = Append(mid, a) /\ a \in AnswerOf /\ a.to = r.to /\ a.does = r.does
    BY <1>4, <1>10 DEF AnswersWith
  <2>2. /\ mid \in Seq(Frames)
        /\ \A x \in Range(mid) : x \in Range(toApi) \/ (x.to = "event" /\ x.does = "flags")
        /\ \A c \in Caller : (Reaches(mid, c) <=> Reaches(toApi, c)) /\ (Once(toApi, c) => Once(mid, c))
    BY <1>1, <2>1, BetweenIs
  <2>3. a \in Frames
    BY <2>1, AnswersAre
  <2>4. \A x : x \in Range(toApi') <=> x \in Range(mid) \/ x = a
    BY <2>1, <2>2, <2>3, OneMoreIn
  <2>5. \A c : (Reaches(toApi', c) <=> Reaches(mid, c) \/ a.to = c)
               /\ (Once(mid, c) /\ (a.to = c => ~ Reaches(mid, c)) => Once(toApi', c))
    BY <2>1, <2>2, <2>3, MoreReaches
  <2>6. ForHead(a)'
    BY <1>2, <1>9, <2>1 DEF ForHead
  <2>7. \A f : f.to = "event" => ForHead(f)'
    BY ControlsAssumption DEF ForHead
  <2> QED BY <1>9, <2>1, <2>2, <2>4, <2>5, <2>6, <2>7
<1>11. /\ \A f \in Range(toApi') : ForHead(f)'
       /\ \A c \in Caller : /\ Reaches(toApi', c) => Reaches(toApi, c) \/ r.to = c
                            /\ Once(toApi, c) /\ (r.to = c => ~ Reaches(toApi, c)) => Once(toApi', c)
  BY <1>2, <1>4, <1>9, <1>10
<1>12. \A c \in Caller : /\ Once(toDevice', c) /\ Once(toApi', c) /\ Once(woken', c)
                         /\ ~ (Reaches(toDevice', c) /\ Reaches(toApi', c))
                         /\ ~ (Reaches(toDevice', c) /\ Reaches(woken', c))
                         /\ ~ (Reaches(toApi', c) /\ Reaches(woken', c))
  BY <1>1, <1>2, <1>6, <1>11 DEF OneFrame
<1> QED BY <1>1, <1>7, <1>9, <1>11, <1>12, DeviceHandlesTypes DEF CallInv, OneFrame

(* The device tells of what it changes.                                     *)
LEMMA DeviceHandlesAgree ==
    ASSUME CallInv, AgreeInv, DeviceHandles PROVE AgreeInv'
<1>1. ControlTypes /\ OneFrame /\ FlagsAgree /\ StatusAgree /\ LevelAgrees /\ FocusAgrees
  BY DEF CallInv, AgreeInv
<1>2. /\ toDevice # <<>> /\ toDevice' = Tail(toDevice) /\ Head(toDevice) \in RequestOf
      /\ UNCHANGED <<handlers, woken, known, missed>>
      /\ DeviceKeeps
      /\ \/ Head(toDevice).does \notin {"touch", "type"} /\ \E mid, a : AnswersWith(mid, a)
         \/ Head(toDevice).does \in {"touch", "type"} /\ toApi' = toApi /\ device' = device
  BY <1>1, DeviceHandlesIs
<1>3. toDevice \in Seq(Frames) /\ toApi \in Seq(Frames)
  BY <1>1, QueuesAre
<1>4. PICK r : r = Head(toDevice)
  OBVIOUS
<1>5. \A x : x \in Range(toDevice) <=> x \in Range(toDevice') \/ x = r
  BY <1>2, <1>3, <1>4, OneLess
<1>6. Has(toDevice, {"get"}) <=> r.does \in {"get"} \/ Has(toDevice', {"get"})
  BY <1>2, <1>3, <1>4, LessIsSaid
<1>7. \A f \in Range(toDevice') : f.does = "start" /\ f.to = "nobody" => "focus" \in missed'
  BY <1>1, <1>2, <1>5 DEF FocusAgrees
<1>8. CASE r.does \in {"touch", "type"}
  <2>1. toApi' = toApi /\ device' = device
    BY <1>2, <1>4, <1>8
  <2>2. FlagsAgree' /\ StatusAgree'
    BY <1>1, <1>2, <2>1 DEF FlagsAgree, StatusAgree
  <2>3. LevelAgrees'
    BY <1>1, <1>2, <1>6, <1>8, <2>1 DEF LevelAgrees, LevelAsked
  <2>4. FocusAgrees'
    BY <1>1, <1>2, <1>7, <2>1 DEF FocusAgrees, NotOvertaken
  <2> QED BY <2>2, <2>3, <2>4 DEF AgreeInv
<1>9. CASE r.does \notin {"touch", "type"}
  <2>1. PICK mid, a : AnswersWith(mid, a)
    BY <1>2, <1>4, <1>9
  <2>2. /\ Between(mid) /\ toApi' = Append(mid, a) /\ a \in AnswerOf /\ a.to = r.to /\ a.does = r.does
        /\ r.does = "get" => a.of = device.level /\ mid = toApi
        /\ r.does = "start" => a.of = device.focused
    BY <1>4, <2>1 DEF AnswersWith
  <2>3. mid \in Seq(Frames) /\ \A x \in Range(mid) : x \in Range(toApi) \/ (x.to = "event" /\ x.does = "flags")
    BY <1>1, <2>2, BetweenIs
  <2>4. a \in Frames /\ a.does \in {"press", "release", "set", "stop", "start", "command", "get"}
    BY <2>2, AnswersAre
  <2>m. mid \in Seq(Frames) /\ a \in Frames /\ toApi' = Append(mid, a)
    BY <2>2, <2>3, <2>4
  <2>5. PICK e : e = Says("flags", TRUE)
    OBVIOUS
  <2>6. e \in Frames /\ e.does = "flags" /\ e.of = TRUE /\ e.to = "event"
    <3>1. e \in EventOf /\ e.does = "flags" /\ e.of = TRUE /\ e.to = "event"
      BY <2>5 DEF Says, EventOf
    <3> QED BY <3>1, EventsAre
  <2>7. (mid = toApi /\ device'.level = device.level) \/ (mid = Append(toApi, e) /\ device.control)
    BY <2>2, <2>5 DEF Between
  <2>8. /\ device'.control = device.control /\ device'.focused = device.focused /\ device'.awake = device.awake
        /\ r.does \notin {"stop", "start"} => device'.session = device.session
        /\ r.does = "stop" => device'.session = FALSE
        /\ device \in [control : BOOLEAN, level : Level, focused : BOOLEAN, session : BOOLEAN, awake : BOOLEAN]
    BY <1>1, <1>2, <1>4 DEF DeviceKeeps, ControlTypes
  <2>9. ASSUME NEW D, "flags" \notin D, NEW v, NEW k, NEW q
        PROVE  /\ InTheEnd(toApi, q, D, v, k) => InTheEnd(mid, q, D, v, k)
               /\ Has(mid, D) <=> Has(toApi, D)
               /\ LastSays(mid, D, v) <=> LastSays(toApi, D, v)
    <3>1. CASE mid = toApi
      BY <3>1
    <3>2. CASE mid = Append(toApi, e)
      <4>1. /\ Has(mid, D) <=> Has(toApi, D) \/ e.does \in D
            /\ e.does \notin D => (LastSays(mid, D, v) <=> LastSays(toApi, D, v))
        BY <1>3, <2>6, <3>2, MoreIsSaid
      <4>2. InTheEnd(toApi, q, D, v, k) => InTheEnd(mid, q, D, v, k)
        <5>1. e.does \notin D
          BY <2>6, <2>9
        <5> QED BY ONLY <1>3, <2>6, <3>2, <5>1, EndMore
      <4> QED BY <2>6, <2>9, <4>1, <4>2
    <3> QED BY <2>7, <3>1, <3>2
  <2>10. ASSUME NEW D, a.does \notin D, NEW v, NEW k, NEW q
         PROVE  /\ InTheEnd(mid, q, D, v, k) => InTheEnd(toApi', q, D, v, k)
                /\ Has(toApi', D) <=> Has(mid, D)
                /\ LastSays(toApi', D, v) <=> LastSays(mid, D, v)
    <3>1. /\ Has(toApi', D) <=> Has(mid, D) \/ a.does \in D
          /\ a.does \notin D => (LastSays(toApi', D, v) <=> LastSays(mid, D, v))
      BY <2>2, <2>3, <2>4, MoreIsSaid
    <3>2. InTheEnd(mid, q, D, v, k) => InTheEnd(toApi', q, D, v, k)
      BY <2>2, <2>3, <2>4, <2>10, EndMore
    <3> QED BY <2>10, <3>1, <3>2
  <2>11. FlagsAgree'
    <3>1. PICK v, k : v = device.control /\ k = known.control
      OBVIOUS
    <3>2. InTheEnd(toApi, handlers, {"flags"}, v, k)
      BY <1>1, <3>1 DEF FlagsAgree
    <3>3. InTheEnd(mid, handlers, {"flags"}, v, k)
      <4>1. CASE mid = toApi
        BY <3>2, <4>1
      <4>2. CASE mid = Append(toApi, e) /\ device.control
        <5>1. e.does \in {"flags"} /\ e.of = v
          BY <2>6, <2>8, <3>1, <4>2
        <5> QED BY ONLY <1>3, <2>6, <4>2, <5>1, EndMore
      <4> QED BY <2>7, <4>1, <4>2
    <3>4. a.does \notin {"flags"}
      BY <2>4
    <3>5. InTheEnd(toApi', handlers, {"flags"}, v, k)
      BY ONLY <2>10, <3>3, <3>4
    <3> QED BY <1>2, <2>8, <3>1, <3>5 DEF FlagsAgree
  <2>12. StatusAgree'
    <3>1. PICK v, k : v = device.awake /\ k = known.awake
      OBVIOUS
    <3>2. InTheEnd(toApi, handlers, {"status"}, v, k)
      BY <1>1, <3>1 DEF StatusAgree
    <3>3. "flags" \notin {"status"} /\ a.does \notin {"status"}
      BY <2>4
    <3>5. InTheEnd(toApi', handlers, {"status"}, v, k)
      BY ONLY <2>9, <2>10, <3>2, <3>3
    <3> QED BY <1>2, <2>8, <3>1, <3>5 DEF StatusAgree
  <2>13. LevelAgrees'
    <3>1. Has(toApi', {"flags"}) <=> Has(mid, {"flags"}) \/ a.does \in {"flags"}
      BY <2>2, <2>3, <2>4, MoreIsSaid
    <3>2. mid = Append(toApi, e) => Has(mid, {"flags"})
      <4>1. mid = Append(toApi, e) => (Has(mid, {"flags"}) <=> Has(toApi, {"flags"}) \/ e.does \in {"flags"})
        BY <1>3, <2>6, MoreIsSaid
      <4> QED BY <2>6, <4>1
    <3>3. CASE mid = Append(toApi, e)
      BY <3>1, <3>2, <3>3 DEF LevelAgrees, LevelAsked
    <3>4. CASE mid = toApi /\ device'.level = device.level /\ r.does # "get"
      <4>1. PICK v, k : v = device.level /\ k = known.level
        OBVIOUS
      <4>2. a.does \notin {"get"}
        BY <2>2, <3>4
      <4>3. InTheEnd(mid, woken, {"get"}, v, k) => InTheEnd(toApi', woken, {"get"}, v, k)
        BY ONLY <2>10, <4>2
      <4>4. Has(toDevice', {"get"}) <=> Has(toDevice, {"get"})
        BY <1>6, <3>4
      <4>5. Has(toApi', {"flags"}) <=> Has(toApi, {"flags"})
        BY <2>4, <3>1, <3>4
      <4> QED BY <1>1, <1>2, <2>8, <3>4, <4>1, <4>3, <4>4, <4>5 DEF LevelAgrees, LevelAsked
    <3>5. CASE mid = toApi /\ device'.level = device.level /\ r.does = "get"
      <4>1. PICK v, k : v = device.level /\ k = known.level
        OBVIOUS
      <4>2. a.does \in {"get"} /\ a.of = v
        BY <2>2, <3>5, <4>1
      <4>3. InTheEnd(toApi', woken, {"get"}, v, k)
        BY ONLY <2>2, <2>3, <2>4, <4>2, EndMore
      <4> QED BY <1>2, <3>5, <4>1, <4>3 DEF LevelAgrees
    <3> QED BY <2>7, <3>3, <3>4, <3>5
  <2>14. FocusAgrees'
    <3>1. \A x : x \in Range(toApi') <=> x \in Range(mid) \/ x = a
      BY ONLY <2>m, OneMoreIn
    <3>2. r.does = "start" /\ r.to = "nobody" => "focus" \in missed
      BY <1>1, <1>5 DEF FocusAgrees
    <3>3. \A f \in Range(toApi') : f.does = "start" /\ f.to = "nobody" => "focus" \in missed
      BY <1>1, <2>2, <2>3, <3>1, <3>2 DEF FocusAgrees
    <3>4. CASE r.does = "stop"
      BY <1>1, <1>2, <1>7, <2>8, <3>3, <3>4 DEF FocusAgrees
    <3>5. CASE r.does = "start"
      <4>1. PICK v : v = device.focused
        OBVIOUS
      <4>2. a.does \in {"focus", "start"} /\ a.of = v
        BY <2>2, <3>5, <4>1
      <4>3. Has(toApi', {"focus", "start"}) /\ LastSays(toApi', {"focus", "start"}, v)
        BY ONLY <2>m, <4>2, MoreIsSaid
      <4> QED BY <1>1, <1>2, <1>7, <2>8, <3>3, <4>1, <4>3 DEF FocusAgrees
    <3>6. CASE r.does \notin {"stop", "start"}
      <4>1. a.does \notin {"focus", "start"} /\ "flags" \notin {"focus", "start"}
        BY <2>2, <2>4, <3>6
      <4>2. \A v : /\ Has(toApi', {"focus", "start"}) <=> Has(toApi, {"focus", "start"})
                   /\ LastSays(toApi', {"focus", "start"}, v) <=> LastSays(toApi, {"focus", "start"}, v)
        BY ONLY <2>9, <2>10, <4>1
      <4> QED BY <1>1, <1>2, <1>7, <2>8, <3>3, <3>6, <4>2 DEF FocusAgrees, NotOvertaken
    <3> QED BY <3>4, <3>5, <3>6
  <2> QED BY <2>11, <2>12, <2>13, <2>14 DEF AgreeInv
<1> QED BY <1>8, <1>9
(* A key that goes down by a press has a call that will release it.         *)
LEMMA DeviceHandlesKeys ==
    ASSUME CallInv, KeyInv, DeviceHandles PROVE KeyInv'
<1>1. ControlTypes /\ AtItsStage /\ OneFrame /\ KeysComeUp /\ FingerComesUp
  BY DEF CallInv, KeyInv
<1>2. /\ toDevice # <<>> /\ toDevice' = Tail(toDevice) /\ Head(toDevice) \in RequestOf
      /\ UNCHANGED <<program, awaits, left>>
      /\ KeysAfter(Head(toDevice))
  BY <1>1, DeviceHandlesIs
<1>3. toDevice \in Seq(Frames) /\ program \in [Caller -> Seq(StageOf)]
  BY <1>1, QueuesAre DEF ControlTypes
<1>4. PICK r : r = Head(toDevice)
  OBVIOUS
<1>5. \A x : x \in Range(toDevice) <=> x \in Range(toDevice') \/ x = r
  BY <1>2, <1>3, <1>4, OneLess
<1>6. \A c : Reaches(toDevice, c) <=> Reaches(toDevice', c) \/ r.to = c
  BY <1>2, <1>3, <1>4, LessReaches
<1>7. /\ r.to \in Caller \cup {"nobody", "volume"}
      /\ r.does = "get" <=> r.to = "volume"
      /\ r.does = "press" => r.of \in Buttons
      /\ r.does = "touch" => r.of \in {"press", "hold", "release", "click"}
  BY <1>2, <1>4, RequestsAre
<1>8. ForHead(r) /\ (r.to \in Caller => r.of = Head(program[r.to]).of)
  BY <1>1, <1>5 DEF OneFrame
<1>k. KeysAfter(r)
  BY <1>2, <1>4
(* A release that has not been asked for yet is still to come.               *)
<1>9. ASSUME NEW c \in Caller, NEW k, ToRelease(c, k), ~ (r.does = "release" /\ r.of = k)
      PROVE  ToRelease(c, k)'
  <2>1. PICK j \in 1..Len(program[c]) : /\ program[c][j] = Release(k)
                                        /\ j > 1 \/ awaits[c] # "answer" \/ Reaches(toDevice, c)
    BY <1>9 DEF ToRelease
  <2>2. CASE j > 1 \/ awaits[c] # "answer"
    BY <1>2, <2>1, <2>2 DEF ToRelease
  <2>3. CASE ~ (j > 1) /\ Reaches(toDevice, c)
    <3>1. PICK p : p = program[c]
      OBVIOUS
    <3>2. p \in Seq(StageOf) /\ Len(p) \in Nat /\ j \in 1..Len(p) /\ p[j] = Release(k)
      BY <1>3, <2>1, <3>1
    <3>3. j = 1 /\ Head(p) = p[1]
      BY ONLY <2>3, <3>2
    <3>4. Head(program[c]) = Release(k)
      BY <3>1, <3>2, <3>3
    <3>5. Head(program[c]).does = "release" /\ Head(program[c]).of = k
      BY <3>4 DEF Release, Stage
    <3>6. r.to # c
      BY <1>8, <1>9, <3>5 DEF ForHead
    <3>7. Reaches(toDevice', c)
      BY <1>6, <2>3, <3>6
    <3> QED BY <1>2, <2>1, <3>7 DEF ToRelease
  <2> QED BY <2>1, <2>2, <2>3
<1>10. ASSUME r.does = "press" PROVE r.of \in left \/ \E c \in Caller : ToRelease(c, r.of)'
  <2>1. CASE r.to = "nobody"
    BY <1>1, <1>5, <1>10, <2>1 DEF KeysComeUp
  <2>2. CASE r.to \in Caller
    <3>1. PICK c, p : c = r.to /\ p = program[c]
      OBVIOUS
    <3>2. p # <<>> /\ Head(p).does = "press" /\ Head(p).of = r.of /\ p \in Seq(StageOf) /\ Paired(p)
      BY <1>1, <1>3, <1>8, <1>10, <2>2, <3>1 DEF ForHead, KeysComeUp
    <3>3. Len(p) \in Nat /\ 1 \in 1..Len(p) /\ Head(p) = p[1]
      BY <3>2
    <3>4. PICK j \in 1 + 1..Len(p) : p[j] = Release(r.of)
      BY <3>2, <3>3 DEF Paired
    <3>5. j \in 1..Len(p) /\ j > 1
      BY <3>3
    <3> QED BY <1>2, <2>2, <3>1, <3>4, <3>5 DEF ToRelease
  <2> QED BY <1>7, <1>10, <2>1, <2>2
<1>11. KeysComeUp'
  <2>1. ASSUME NEW k \in keys' PROVE k = "finger" \/ k \in left \/ \E c \in Caller : ToRelease(c, k)'
    <3>1. CASE k \in keys /\ ~ (r.does = "release" /\ r.of = k)
      BY <1>1, <1>9, <3>1 DEF KeysComeUp
    <3>2. CASE r.does = "press" /\ k = r.of
      BY <1>10, <3>2
    <3>3. k \in keys \/ k = "finger" \/ (r.does = "press" /\ k = r.of)
      <4>1. CASE r.does = "press"
        BY <1>k, <2>1, <4>1 DEF KeysAfter
      <4>2. CASE r.does = "touch"
        BY <1>k, <2>1, <4>2 DEF KeysAfter
      <4>3. CASE r.does = "release"
        BY <1>k, <2>1, <4>3 DEF KeysAfter
      <4>4. CASE r.does \notin {"press", "release", "touch"}
        BY <1>k, <2>1, <4>4 DEF KeysAfter
      <4> QED BY <4>1, <4>2, <4>3, <4>4
    <3>4. r.does = "release" => k # r.of
      BY <1>k, <2>1 DEF KeysAfter
    <3> QED BY <3>1, <3>2, <3>3, <3>4
  <2> QED BY <1>1, <1>2, <1>5, <2>1 DEF KeysComeUp
<1>12. FingerComesUp'
  <2> SUFFICES ASSUME "finger" \notin left, \A c \in Caller : Lifts \notin Range(program[c])
               PROVE  Settled(toDevice') /\ (~ Has(toDevice', {"touch"}) => "finger" \notin keys')
    BY <1>2 DEF FingerComesUp
  <2>1. Settled(toDevice) /\ (~ Has(toDevice, {"touch"}) => "finger" \notin keys)
    BY <1>1 DEF FingerComesUp
  <2>2. Settled(toDevice') /\ (Head(toDevice).does = "touch" /\ Head(toDevice).of \in Down => Has(toDevice', {"touch"}))
    BY <1>2, <1>3, <2>1, LessSettles
  <2>3. Has(toDevice, {"touch"}) <=> r.does \in {"touch"} \/ Has(toDevice', {"touch"})
    BY <1>2, <1>3, <1>4, LessIsSaid
  <2>4. CASE r.does = "touch"
    <3>1. r.of \notin Down => "finger" \notin keys'
      BY <1>k, <2>4 DEF KeysAfter, Down
    <3> QED BY <1>4, <2>2, <2>4, <3>1
  <2>5. CASE r.does # "touch"
    <3>1. "finger" \notin keys => "finger" \notin keys'
      <4>1. "finger" \notin Buttons
        BY DEF Buttons
      <4>2. CASE r.does = "press"
        BY <1>k, <1>7, <4>1, <4>2 DEF KeysAfter
      <4>3. CASE r.does = "release"
        BY <1>k, <4>3 DEF KeysAfter
      <4>4. CASE r.does \notin {"press", "release", "touch"}
        BY <1>k, <4>4 DEF KeysAfter
      <4> QED BY <2>5, <4>2, <4>3, <4>4
    <3> QED BY <2>1, <2>2, <2>3, <2>5, <3>1
  <2> QED BY <2>4, <2>5
<1> QED BY <1>11, <1>12 DEF KeyInv

(* Nothing happens to the keys.                                             *)
LEMMA KeysStay ==
    ASSUME KeyInv, UNCHANGED <<program, awaits, toDevice, keys, left>> PROVE KeyInv'
BY DEF KeyInv, KeysComeUp, FingerComesUp, ToRelease

(* Something changes at the device itself.                                  *)
Changes(e) ==
    /\ toApi' = Append(toApi, e) /\ e.to = "event"
    /\ \/ /\ e.does = "flags" /\ e.of = device'.control
          /\ device'.focused = device.focused /\ device'.awake = device.awake
       \/ /\ e.does = "focus" /\ e.of = device'.focused
          /\ device'.control = device.control /\ device'.awake = device.awake /\ device'.level = device.level
       \/ /\ e.does = "status" /\ e.of = device'.awake
          /\ device'.control = device.control /\ device'.focused = device.focused /\ device'.level = device.level

(* A change at the device is told in an event, if anything is to be told.   *)
LEMMA DeviceChangesIs ==
    ASSUME ControlTypes, DeviceChanges
    PROVE  /\ UNCHANGED <<program, awaits, toDevice, handlers, woken, known, keys, left, missed>>
           /\ device' \in [control : BOOLEAN, level : Level, focused : BOOLEAN, session : BOOLEAN, awake : BOOLEAN]
           /\ device'.session = device.session
           /\ \/ \E e \in EventOf : Changes(e)
              \/ /\ toApi' = toApi /\ ~ device.session
                 /\ device'.control = device.control /\ device'.awake = device.awake /\ device'.level = device.level
<1>1. device \in [control : BOOLEAN, level : Level, focused : BOOLEAN, session : BOOLEAN, awake : BOOLEAN]
      /\ toApi \in Seq(Frames)
  BY QueuesAre DEF ControlTypes
<1>2. UNCHANGED <<program, awaits, toDevice, handlers, woken, known, keys, left, missed>>
  BY DEF DeviceChanges, callVars
<1>3. \/ /\ device' = [device EXCEPT !.control = ~ @]
         /\ toApi' = Append(toApi, Says("flags", ~ device.control))
      \/ /\ device.control
         /\ \E level \in Level \ {device.level} :
               /\ device' = [device EXCEPT !.level = level]
               /\ toApi' = toApi \o Told(level)
      \/ /\ device' = [device EXCEPT !.focused = ~ @]
         /\ toApi' = IF device.session THEN Append(toApi, Says("focus", ~ device.focused)) ELSE toApi
      \/ /\ device' = [device EXCEPT !.awake = ~ @]
         /\ toApi' = Append(toApi, Says("status", ~ device.awake))
  BY DEF DeviceChanges
<1>4. CASE device' = [device EXCEPT !.control = ~ @] /\ toApi' = Append(toApi, Says("flags", ~ device.control))
  <2>1. PICK e : e = Says("flags", ~ device.control)
    OBVIOUS
  <2>2. e \in EventOf /\ Changes(e)
    BY <1>1, <1>4, <2>1 DEF Says, EventOf, Changes
  <2> QED BY <1>1, <1>2, <1>4, <2>2
<1>5. ASSUME device.control, NEW level \in Level, level # device.level, device' = [device EXCEPT !.level = level],
             toApi' = toApi \o Told(level)
      PROVE  (\E e \in EventOf : Changes(e)) /\ device'.session = device.session
             /\ device' \in [control : BOOLEAN, level : Level, focused : BOOLEAN, session : BOOLEAN, awake : BOOLEAN]
  <2>1. PICK e : e = Says("flags", TRUE)
    OBVIOUS
  <2>2. e \in EventOf /\ e.to = "event" /\ e.does = "flags" /\ e.of = TRUE
    BY <2>1 DEF Says, EventOf
  <2>3. e \in Frames
    BY <2>2, EventsAre
  <2>4. toApi' = toApi \o <<e>>
    BY <1>5, <2>1 DEF Told
  <2>5. toApi' = Append(toApi, e)
    BY ONLY <1>1, <2>3, <2>4, AppendOne
  <2>6. Changes(e)
    BY <1>1, <1>5, <2>2, <2>5 DEF Changes
  <2> QED BY <1>1, <1>5, <2>2, <2>6
<1>6. CASE device' = [device EXCEPT !.focused = ~ @]
           /\ toApi' = IF device.session THEN Append(toApi, Says("focus", ~ device.focused)) ELSE toApi
  <2>1. PICK e : e = Says("focus", ~ device.focused)
    OBVIOUS
  <2>2. e \in EventOf /\ (device.session => Changes(e))
    BY <1>1, <1>6, <2>1 DEF Says, EventOf, Changes
  <2>3. ~ device.session => toApi' = toApi
    BY <1>6
  <2> QED BY <1>1, <1>2, <1>6, <2>2, <2>3
<1>7. CASE device' = [device EXCEPT !.awake = ~ @] /\ toApi' = Append(toApi, Says("status", ~ device.awake))
  <2>1. PICK e : e = Says("status", ~ device.awake)
    OBVIOUS
  <2>2. e \in EventOf /\ Changes(e)
    BY <1>1, <1>7, <2>1 DEF Says, EventOf, Changes
  <2> QED BY <1>1, <1>2, <1>7, <2>2
<1> QED BY <1>2, <1>3, <1>4, <1>5, <1>6, <1>7

(* A change at the device is no answer.                                     *)
LEMMA DeviceChangesCalls ==
    ASSUME CallInv, DeviceChanges PROVE CallInv'
<1>1. ControlTypes /\ AtItsStage /\ OneFrame
  BY DEF CallInv
<1>2. /\ UNCHANGED <<program, awaits, toDevice, handlers, woken, known, keys, left, missed>>
      /\ device' \in [control : BOOLEAN, level : Level, focused : BOOLEAN, session : BOOLEAN, awake : BOOLEAN]
      /\ (\E e \in EventOf : toApi' = Append(toApi, e)) \/ toApi' = toApi
  BY <1>1, DeviceChangesIs DEF Changes
<1>3. AtItsStage'
  BY <1>1, <1>2 DEF AtItsStage, Asks
<1>4. CASE toApi' = toApi
  BY <1>1, <1>2, <1>3, <1>4 DEF CallInv, ControlTypes, OneFrame, ForHead
<1>5. ASSUME NEW e \in EventOf, toApi' = Append(toApi, e) PROVE CallInv'
  <2>1. toApi \in Seq(Frames) /\ toApi \in Seq(EventOf \cup AnswerOf) /\ e \in Frames /\ e.to = "event"
    BY <1>1, QueuesAre, EventsAre DEF ControlTypes
  <2>2. "event" \notin Caller
    BY ControlsAssumption
  <2>3. \A x : x \in Range(toApi') <=> x \in Range(toApi) \/ x = e
    BY <1>5, <2>1, OneMoreIn
  <2>4. \A c : (Reaches(toApi', c) <=> Reaches(toApi, c) \/ e.to = c)
               /\ (Once(toApi, c) /\ (e.to = c => ~ Reaches(toApi, c)) => Once(toApi', c))
    BY <1>5, <2>1, MoreReaches
  <2>5. toApi' \in Seq(EventOf \cup AnswerOf)
    BY <1>5, <2>1
  <2>6. ControlTypes'
    BY <1>1, <1>2, <2>5 DEF ControlTypes
  <2>7. \A f : ForHead(f) => ForHead(f)'
    BY <1>2 DEF ForHead
  <2>8. ForHead(e)'
    BY <2>1, <2>2 DEF ForHead
  <2>9. \A c \in Caller : c # "event"
    BY <2>2
  <2> QED BY <1>1, <1>2, <1>3, <2>1, <2>3, <2>4, <2>6, <2>7, <2>8, <2>9 DEF CallInv, OneFrame
<1> QED BY <1>2, <1>4, <1>5
(* A change at the device is told last of its kind.                         *)
LEMMA DeviceChangesAgree ==
    ASSUME CallInv, AgreeInv, DeviceChanges PROVE AgreeInv'
<1>1. ControlTypes /\ FlagsAgree /\ StatusAgree /\ LevelAgrees /\ FocusAgrees
  BY DEF CallInv, AgreeInv
<1>2. /\ UNCHANGED <<toDevice, handlers, woken, known, missed>>
      /\ device'.session = device.session
      /\ \/ \E e \in EventOf : Changes(e)
         \/ /\ toApi' = toApi /\ ~ device.session
            /\ device'.control = device.control /\ device'.awake = device.awake /\ device'.level = device.level
  BY <1>1, DeviceChangesIs
<1>3. toApi \in Seq(Frames)
  BY <1>1, QueuesAre
<1>4. CASE /\ toApi' = toApi /\ ~ device.session
           /\ device'.control = device.control /\ device'.awake = device.awake /\ device'.level = device.level
  BY <1>1, <1>2, <1>4 DEF AgreeInv, FlagsAgree, StatusAgree, LevelAgrees, LevelAsked, FocusAgrees
<1>5. ASSUME NEW e \in EventOf, Changes(e) PROVE AgreeInv'
  <2>1. /\ toApi' = Append(toApi, e) /\ e.to = "event" /\ e \in Frames
        /\ e.does = "flags" \/ e.does = "focus" \/ e.does = "status"
        /\ e.does = "flags" =>
              e.of = device'.control /\ device'.focused = device.focused /\ device'.awake = device.awake
        /\ e.does = "focus" =>
              /\ e.of = device'.focused
              /\ device'.control = device.control /\ device'.awake = device.awake /\ device'.level = device.level
        /\ e.does = "status" =>
              /\ e.of = device'.awake
              /\ device'.control = device.control /\ device'.focused = device.focused /\ device'.level = device.level
    BY <1>5, EventsAre DEF Changes
  <2>m. e \in Frames /\ toApi' = Append(toApi, e)
    BY <2>1
  <2>2. \A D, v : /\ Has(toApi', D) <=> Has(toApi, D) \/ e.does \in D
                  /\ e.does \in D => (LastSays(toApi', D, v) <=> e.of = v)
                  /\ e.does \notin D => (LastSays(toApi', D, v) <=> LastSays(toApi, D, v))
    BY ONLY <1>3, <2>m, MoreIsSaid
  <2>3. \A q, D, v, k : /\ e.does \in D /\ e.of = v => InTheEnd(toApi', q, D, v, k)
                        /\ e.does \notin D /\ InTheEnd(toApi, q, D, v, k) => InTheEnd(toApi', q, D, v, k)
    BY ONLY <1>3, <2>m, EndMore
  <2>4. FlagsAgree'
    <3>1. PICK v, k : v = device'.control /\ k = known.control
      OBVIOUS
    <3>2. e.does = "flags" => e.does \in {"flags"} /\ e.of = v
      BY <2>1, <3>1
    <3>3. e.does # "flags" => e.does \notin {"flags"} /\ InTheEnd(toApi, handlers, {"flags"}, v, k)
      BY <1>1, <2>1, <3>1 DEF FlagsAgree
    <3>4. InTheEnd(toApi', handlers, {"flags"}, v, k)
      BY ONLY <2>3, <3>2, <3>3
    <3> QED BY <1>2, <3>1, <3>4 DEF FlagsAgree
  <2>5. StatusAgree'
    <3>1. PICK v, k : v = device'.awake /\ k = known.awake
      OBVIOUS
    <3>2. e.does = "status" => e.does \in {"status"} /\ e.of = v
      BY <2>1, <3>1
    <3>3. e.does # "status" => e.does \notin {"status"} /\ InTheEnd(toApi, handlers, {"status"}, v, k)
      BY <1>1, <2>1, <3>1 DEF StatusAgree
    <3>4. InTheEnd(toApi', handlers, {"status"}, v, k)
      BY ONLY <2>3, <3>2, <3>3
    <3> QED BY <1>2, <3>1, <3>4 DEF StatusAgree
  <2>6. LevelAgrees'
    <3>1. Has(toApi', {"flags"}) <=> Has(toApi, {"flags"}) \/ e.does \in {"flags"}
      BY ONLY <2>2
    <3>2. CASE e.does = "flags"
      <4>1. Has(toApi', {"flags"})
        BY <3>1, <3>2
      <4> QED BY <4>1 DEF LevelAgrees, LevelAsked
    <3>3. CASE e.does # "flags"
      <4>1. PICK v, k : v = device.level /\ k = known.level
        OBVIOUS
      <4>2. e.does \notin {"get"}
        BY <2>1
      <4>3. InTheEnd(toApi, woken, {"get"}, v, k) => InTheEnd(toApi', woken, {"get"}, v, k)
        BY ONLY <2>3, <4>2
      <4>4. device'.level = device.level /\ device'.control = device.control /\ (Has(toApi', {"flags"}) <=> Has(toApi, {"flags"}))
        BY <2>1, <3>1, <3>3
      <4> QED BY <1>1, <1>2, <4>1, <4>3, <4>4 DEF LevelAgrees, LevelAsked
    <3> QED BY <3>2, <3>3
  <2>7. FocusAgrees'
    <3>1. \A x : x \in Range(toApi') <=> x \in Range(toApi) \/ x = e
      BY ONLY <1>3, <2>m, OneMoreIn
    <3>2. \A f \in Range(toApi') \cup Range(woken) : f.does = "start" /\ f.to = "nobody" => "focus" \in missed
      BY <1>1, <2>1, <3>1 DEF FocusAgrees
    <3>3. CASE e.does = "focus"
      <4>1. PICK v : v = device'.focused
        OBVIOUS
      <4>2. e.does \in {"focus", "start"} /\ e.of = v
        BY <2>1, <3>3, <4>1
      <4>3. Has(toApi', {"focus", "start"}) /\ LastSays(toApi', {"focus", "start"}, v)
        BY ONLY <2>2, <4>2
      <4> QED BY <1>1, <1>2, <3>2, <4>1, <4>3 DEF FocusAgrees
    <3>4. CASE e.does # "focus"
      <4>1. e.does \notin {"focus", "start"} /\ device'.focused = device.focused
        BY <2>1, <3>4
      <4>2. \A v : /\ Has(toApi', {"focus", "start"}) <=> Has(toApi, {"focus", "start"})
                   /\ LastSays(toApi', {"focus", "start"}, v) <=> LastSays(toApi, {"focus", "start"}, v)
        BY ONLY <2>2, <4>1
      <4> QED BY <1>1, <1>2, <3>2, <4>1, <4>2 DEF FocusAgrees, NotOvertaken
    <3> QED BY <3>3, <3>4
  <2> QED BY <2>4, <2>5, <2>6, <2>7 DEF AgreeInv
<1> QED BY <1>2, <1>4, <1>5
-----------------------------------------------------------------------------
(* The steps of the event loop.                                             *)
LEMMA ReceivesIs ==
    ASSUME ControlTypes, Receives
    PROVE  /\ toApi # <<>> /\ toApi' = Tail(toApi)
           /\ UNCHANGED <<program, awaits, toDevice, known, device, keys, left, missed>>
           /\ \/ Head(toApi) \in EventOf /\ handlers' = Append(handlers, Head(toApi)) /\ woken' = woken
              \/ Head(toApi) \in AnswerOf /\ Head(toApi).to = "nobody" /\ handlers' = handlers /\ woken' = woken
              \/ Head(toApi) \in AnswerOf /\ Head(toApi).to # "nobody" /\ handlers' = handlers /\ woken' = Append(woken, Head(toApi))
<1>1. toApi \in Seq(EventOf \cup AnswerOf)
  BY DEF ControlTypes
<1>2. /\ toApi # <<>> /\ toApi' = Tail(toApi)
      /\ UNCHANGED <<program, awaits, toDevice, known, device, keys, left, missed>>
  BY DEF Receives, callVars
<1>3. PICK f : f = Head(toApi)
  OBVIOUS
<1>4. f \in EventOf \/ f \in AnswerOf
  BY <1>1, <1>2, <1>3
<1>5. (f \in EventOf => f.to = "event") /\ (f \in AnswerOf => f.to # "event")
  BY EventsAre, AnswersAre
<1>6. /\ f.to = "event" => handlers' = Append(handlers, f) /\ woken' = woken
      /\ f.to = "nobody" => woken' = woken /\ handlers' = handlers
      /\ f.to # "event" /\ f.to # "nobody" => woken' = Append(woken, f) /\ handlers' = handlers
  BY <1>3 DEF Receives
<1>7. \/ f \in EventOf /\ handlers' = Append(handlers, f) /\ woken' = woken
      \/ f \in AnswerOf /\ f.to = "nobody" /\ handlers' = handlers /\ woken' = woken
      \/ f \in AnswerOf /\ f.to # "nobody" /\ handlers' = handlers /\ woken' = Append(woken, f)
  BY ONLY <1>4, <1>5, <1>6
<1> QED BY <1>2, <1>3, <1>7

(* A frame that is received wakes who it is for.                            *)
LEMMA ReceivesCalls ==
    ASSUME CallInv, Receives PROVE CallInv'
<1>1. ControlTypes /\ AtItsStage /\ OneFrame
  BY DEF CallInv
<1>2. PICK f : f = Head(toApi)
  OBVIOUS
<1>3. /\ toApi # <<>> /\ toApi' = Tail(toApi)
      /\ UNCHANGED <<program, awaits, toDevice, known, device, keys, left, missed>>
      /\ \/ f \in EventOf /\ handlers' = Append(handlers, f) /\ woken' = woken
         \/ f \in AnswerOf /\ f.to = "nobody" /\ handlers' = handlers /\ woken' = woken
         \/ f \in AnswerOf /\ f.to # "nobody" /\ handlers' = handlers /\ woken' = Append(woken, f)
  BY <1>1, <1>2, ReceivesIs
<1>4. toApi \in Seq(EventOf \cup AnswerOf) /\ handlers \in Seq(EventOf \cup StartOf(Caller)) /\ woken \in Seq(AnswerOf)
      /\ toApi \in Seq(Frames) /\ woken \in Seq(Frames)
  BY <1>1, QueuesAre DEF ControlTypes
<1>5. f \in Frames
  BY <1>3, EventsAre, AnswersAre
<1>6. ControlTypes'
  <2>1. toApi' \in Seq(EventOf \cup AnswerOf)
    BY ONLY <1>3, <1>4
  <2>2. handlers' \in Seq(EventOf \cup StartOf(Caller))
    <3>1. f \in EventOf => Append(handlers, f) \in Seq(EventOf \cup StartOf(Caller))
      BY <1>4
    <3> QED BY ONLY <1>3, <1>4, <3>1
  <2>3. woken' \in Seq(AnswerOf)
    <3>1. f \in AnswerOf => Append(woken, f) \in Seq(AnswerOf)
      BY <1>4
    <3> QED BY ONLY <1>3, <1>4, <3>1
  <2> QED BY <1>1, <1>3, <2>1, <2>2, <2>3 DEF ControlTypes
<1>7. AtItsStage'
  BY <1>1, <1>3 DEF AtItsStage, Asks
<1>8. \A x : x \in Range(toApi) <=> x \in Range(toApi') \/ x = f
  BY <1>2, <1>3, <1>4, OneLess
<1>9. \A c : (Reaches(toApi, c) <=> Reaches(toApi', c) \/ f.to = c)
             /\ (Once(toApi, c) => Once(toApi', c) /\ (f.to = c => ~ Reaches(toApi', c)))
  BY <1>2, <1>3, <1>4, LessReaches
<1>10. \A g : ForHead(g) => ForHead(g)'
  BY <1>3 DEF ForHead
<1>11. /\ \A g \in Range(woken') : ForHead(g)'
       /\ \A c \in Caller : /\ Reaches(woken', c) => Reaches(woken, c) \/ f.to = c
                            /\ Once(woken, c) /\ (f.to = c => ~ Reaches(woken, c)) => Once(woken', c)
  <2>1. CASE woken' = woken
    BY <1>1, <1>10, <2>1 DEF OneFrame
  <2>2. CASE woken' = Append(woken, f)
    <3>0. woken \in Seq(Frames) /\ f \in Frames
      BY <1>4, <1>5
    <3>1. \A x : x \in Range(woken') <=> x \in Range(woken) \/ x = f
      BY ONLY <2>2, <3>0, OneMoreIn
    <3>2. \A c : (Reaches(woken', c) <=> Reaches(woken, c) \/ f.to = c)
                 /\ (Once(woken, c) /\ (f.to = c => ~ Reaches(woken, c)) => Once(woken', c))
      BY ONLY <1>4, <1>5, <2>2, MoreReaches
    <3> QED BY <1>1, <1>8, <1>10, <3>1, <3>2 DEF OneFrame
  <2> QED BY <1>3, <2>1, <2>2
<1>12. \A c \in Caller : /\ Once(toDevice', c) /\ Once(toApi', c) /\ Once(woken', c)
                         /\ ~ (Reaches(toDevice', c) /\ Reaches(toApi', c))
                         /\ ~ (Reaches(toDevice', c) /\ Reaches(woken', c))
                         /\ ~ (Reaches(toApi', c) /\ Reaches(woken', c))
  BY <1>1, <1>3, <1>9, <1>11 DEF OneFrame
<1>13. /\ \A g \in Range(toDevice') : ForHead(g)' /\ (g.to \in Caller => g.of = Head(program'[g.to]).of)
       /\ \A g \in Range(toApi') : ForHead(g)'
  BY <1>1, <1>3, <1>8, <1>10 DEF OneFrame
<1> QED BY <1>6, <1>7, <1>11, <1>12, <1>13 DEF CallInv, OneFrame

(* A frame that is received is in the next queue, in its order.             *)
LEMMA ReceivesAgree ==
    ASSUME CallInv, AgreeInv, Receives PROVE AgreeInv'
<1>1. ControlTypes /\ FlagsAgree /\ StatusAgree /\ LevelAgrees /\ FocusAgrees
  BY DEF CallInv, AgreeInv
<1>2. PICK f : f = Head(toApi)
  OBVIOUS
<1>3. /\ toApi # <<>> /\ toApi' = Tail(toApi)
      /\ UNCHANGED <<toDevice, known, device, missed>>
      /\ \/ f \in EventOf /\ handlers' = Append(handlers, f) /\ woken' = woken
         \/ f \in AnswerOf /\ f.to = "nobody" /\ handlers' = handlers /\ woken' = woken
         \/ f \in AnswerOf /\ f.to # "nobody" /\ handlers' = handlers /\ woken' = Append(woken, f)
  BY <1>1, <1>2, ReceivesIs
<1>4. /\ toApi \in Seq(Frames) /\ handlers \in Seq(Frames) /\ woken \in Seq(Frames)
      /\ \A g \in Range(handlers) : g \in EventOf \/ g \in StartOf(Caller)
      /\ \A g \in Range(woken) : g \in AnswerOf
  BY <1>1, QueuesAre
<1>5. f \in Frames
  BY <1>3, EventsAre, AnswersAre
<1>e. f \in EventOf => f.does \in {"flags", "focus", "status"}
  BY EventsAre
<1>a. f \in AnswerOf => /\ f.does \notin {"flags", "focus", "status"}
                        /\ f.does = "get" => f.to = "volume"
  BY AnswersAre
<1>q. toApi # <<>> /\ toApi' = Tail(toApi) /\ f = Head(toApi)
  BY <1>2, <1>3
<1>6. \A x : x \in Range(toApi) <=> x \in Range(toApi') \/ x = f
  BY ONLY <1>4, <1>q, OneLess
<1>7. \A D, v : /\ Has(toApi, D) <=> f.does \in D \/ Has(toApi', D)
                /\ Has(toApi', D) => (LastSays(toApi, D, v) <=> LastSays(toApi', D, v))
                /\ ~ Has(toApi', D) /\ f.does \in D => (LastSays(toApi, D, v) <=> f.of = v)
                /\ ~ Has(toApi', D) => LastSays(toApi', D, v)
  BY ONLY <1>4, <1>q, LessIsSaid
<1>8. \A D, v, k, s : f.does \notin D /\ InTheEnd(toApi, s, D, v, k) => InTheEnd(toApi', s, D, v, k)
  BY ONLY <1>4, <1>q, EndLess
(* What the answers and the events tell of is taken from toApi as it was said. *)
<1>9. ASSUME NEW D, f.does \in D => f \in EventOf, NEW v, NEW k, InTheEnd(toApi, handlers, D, v, k)
      PROVE  InTheEnd(toApi', handlers', D, v, k)
  <2>1. CASE f.does \in D
    <3>1. handlers' = Append(handlers, Head(toApi)) /\ toApi' = Tail(toApi) /\ toApi # <<>>
      BY <1>2, <1>3, <1>9, <1>a, <1>e, <2>1, AnswersAre, EventsAre
    <3> QED BY ONLY <1>4, <1>9, <3>1, EndMoves
  <2>2. CASE f.does \notin D
    <3>1. InTheEnd(toApi', handlers, D, v, k)
      BY ONLY <1>8, <1>9, <2>2
    <3>2. CASE handlers' = handlers
      BY <3>1, <3>2
    <3>3. CASE handlers' = Append(handlers, f)
      BY ONLY <1>4, <1>5, <2>2, <3>1, <3>3, EndMoreSooner
    <3> QED BY <1>3, <3>2, <3>3
  <2> QED BY <2>1, <2>2
<1>10. FlagsAgree'
  <2>1. PICK v, k : v = device.control /\ k = known.control
    OBVIOUS
  <2>2. InTheEnd(toApi, handlers, {"flags"}, v, k)
    BY <1>1, <2>1 DEF FlagsAgree
  <2>3. f.does \in {"flags"} => f \in EventOf
    BY <1>3, <1>a
  <2>4. InTheEnd(toApi', handlers', {"flags"}, v, k)
    BY ONLY <1>9, <2>2, <2>3
  <2> QED BY <1>3, <2>1, <2>4 DEF FlagsAgree
<1>11. StatusAgree'
  <2>1. PICK v, k : v = device.awake /\ k = known.awake
    OBVIOUS
  <2>2. InTheEnd(toApi, handlers, {"status"}, v, k)
    BY <1>1, <2>1 DEF StatusAgree
  <2>3. f.does \in {"status"} => f \in EventOf
    BY <1>3, <1>a
  <2>4. InTheEnd(toApi', handlers', {"status"}, v, k)
    BY ONLY <1>9, <2>2, <2>3
  <2> QED BY <1>3, <2>1, <2>4 DEF StatusAgree
<1>12. LevelAgrees'
  <2>1. Has(handlers', {"flags"}) <=> Has(handlers, {"flags"}) \/ (f \in EventOf /\ f.does = "flags")
    <3>1. handlers' = Append(handlers, f) => (Has(handlers', {"flags"}) <=> Has(handlers, {"flags"}) \/ f.does \in {"flags"})
      BY ONLY <1>4, <1>5, MoreIsSaid
    <3>2. CASE f \in EventOf
      <4>1. handlers' = Append(handlers, f)
        BY <1>3, <3>2, EventsAre, AnswersAre
      <4> QED BY <3>1, <3>2, <4>1
    <3>3. CASE f \notin EventOf
      BY <1>3, <3>3
    <3> QED BY <3>2, <3>3
  <2>2. Has(toApi, {"flags"}) <=> f.does \in {"flags"} \/ Has(toApi', {"flags"})
    BY ONLY <1>7
  <2>3. f.does = "flags" => f \in EventOf
    BY <1>3, <1>a
  <2>4. LevelAsked => LevelAsked'
    BY <1>3, <2>1, <2>2, <2>3 DEF LevelAsked
  <2>5. PICK v, k : v = device.level /\ k = known.level
    OBVIOUS
  <2>6. ASSUME InTheEnd(toApi, woken, {"get"}, v, k) PROVE InTheEnd(toApi', woken', {"get"}, v, k)
    <3>1. CASE f.does = "get"
      <4>1. f \in AnswerOf /\ f.to = "volume"
        BY <1>3, <1>a, <1>e, <3>1
      <4>2. woken' = Append(woken, Head(toApi))
        BY <1>2, <1>3, <4>1, EventsAre
      <4> QED BY ONLY <1>4, <1>q, <2>6, <4>2, EndMoves
    <3>2. CASE f.does # "get"
      <4>1. f.does \notin {"get"}
        BY <3>2
      <4>2. InTheEnd(toApi', woken, {"get"}, v, k)
        BY ONLY <1>8, <2>6, <4>1
      <4>3. CASE woken' = woken
        BY <4>2, <4>3
      <4>4. CASE woken' = Append(woken, f)
        BY ONLY <1>4, <1>5, <4>1, <4>2, <4>4, EndMoreSooner
      <4> QED BY <1>3, <4>3, <4>4
    <3> QED BY <3>1, <3>2
  <2> QED BY <1>1, <1>3, <2>4, <2>5, <2>6 DEF LevelAgrees
<1>13. FocusAgrees'
  <2>1. \A x \in Range(woken') : x \in Range(woken) \/ (x = f /\ f.to # "nobody")
    <3>1. woken' = Append(woken, f) => \A x : x \in Range(woken') <=> x \in Range(woken) \/ x = f
      BY ONLY <1>4, <1>5, OneMoreIn
    <3> QED BY <1>3, <3>1
  <2>2. \A g \in Range(toApi') \cup Range(woken') : g.does = "start" /\ g.to = "nobody" => "focus" \in missed
    BY <1>1, <1>6, <2>1 DEF FocusAgrees
  <2>3. ASSUME device.session, "focus" \notin missed
        PROVE  /\ LastSays(toApi', {"focus", "start"}, device.focused)
               /\ ~ Has(toApi', {"focus", "start"}) /\ NotOvertaken' =>
                    InTheEnd(woken', handlers', {"focus", "start"}, device.focused, known.focused)
    <3>1. PICK v, k, D : v = device.focused /\ k = known.focused /\ D = {"focus", "start"}
      OBVIOUS
    <3>2. /\ LastSays(toApi, D, v)
          /\ ~ Has(toApi, D) /\ NotOvertaken => InTheEnd(woken, handlers, D, v, k)
      BY <1>1, <2>3, <3>1 DEF FocusAgrees
    <3>3. LastSays(toApi', D, v)
      BY ONLY <1>7, <3>2
    <3>4. ASSUME ~ Has(toApi', D), NotOvertaken' PROVE InTheEnd(woken', handlers', D, v, k)
      <4>1. Has(toApi, D) <=> f.does \in D
        BY ONLY <1>7, <3>4
      <4>2. CASE f.does = "focus"
        <5>1. f.does \in D
          BY <3>1, <4>2
        <5>2. f.of = v
          BY ONLY <1>7, <3>2, <3>4, <5>1
        <5>3. handlers' = Append(handlers, f) /\ woken' = woken
          BY <1>3, <1>a, <4>2
        <5>4. Has(handlers', D) /\ LastSays(handlers', D, v) /\ Has(handlers', {"focus"})
          <6>1. f.does \in {"focus"}
            BY <4>2
          <6> QED BY ONLY <1>4, <1>5, <5>1, <5>2, <5>3, <6>1, MoreIsSaid
        <5>5. ~ Has(woken', {"start"})
          BY <3>4, <5>4 DEF NotOvertaken
        <5>6. ~ Has(woken', D)
          <6>1. DOMAIN woken = 1..Len(woken)
            BY <1>4
          <6>2. \A i \in 1..Len(woken) : woken[i] \in AnswerOf
            BY <1>4, <6>1 DEF Range
          <6>3. \A i \in 1..Len(woken) : woken[i].does # "focus"
            BY <6>2, AnswersAre
          <6> QED BY <3>1, <5>3, <5>5, <6>3 DEF Has
        <5>7. LastSays(woken', D, v)
          BY <5>6 DEF LastSays, Has
        <5> QED BY ONLY <5>4, <5>6, <5>7, Zenon DEF InTheEnd
      <4>3. CASE f.does = "start" /\ f.to # "nobody"
        <5>1. f.does \in D
          BY <3>1, <4>3
        <5>2. f.of = v
          BY ONLY <1>7, <3>2, <3>4, <5>1
        <5>3. woken' = Append(woken, f)
          BY <1>3, <1>e, <4>3
        <5> QED BY ONLY <1>4, <1>5, <5>1, <5>2, <5>3, EndMore
      <4>4. CASE f.does = "start" /\ f.to = "nobody"
        BY <1>1, <1>6, <2>3, <4>4 DEF FocusAgrees
      <4>5. CASE f.does \notin {"focus", "start"}
        <5>1. f.does \notin D /\ f.does \notin {"start"} /\ f.does \notin {"focus"}
          BY <3>1, <4>5
        <5>2. woken' = Append(woken, f) => (Has(woken', {"start"}) <=> Has(woken, {"start"}) \/ f.does \in {"start"})
          BY ONLY <1>4, <1>5, MoreIsSaid
        <5>3. handlers' = Append(handlers, f) => (Has(handlers', {"focus"}) <=> Has(handlers, {"focus"}) \/ f.does \in {"focus"})
          BY ONLY <1>4, <1>5, MoreIsSaid
        <5>4. NotOvertaken
          BY <1>3, <3>4, <5>1, <5>2, <5>3 DEF NotOvertaken
        <5>5. InTheEnd(woken, handlers, D, v, k)
          BY <3>2, <4>1, <5>1, <5>4
        <5>6. InTheEnd(woken, handlers', D, v, k)
          <6>1. CASE handlers' = handlers
            BY <5>5, <6>1
          <6>2. CASE handlers' = Append(handlers, f)
            BY ONLY <1>4, <1>5, <5>1, <5>5, <6>2, EndMoreSooner
          <6> QED BY <1>3, <6>1, <6>2
        <5>7. CASE woken' = woken
          BY <5>6, <5>7
        <5>8. CASE woken' = Append(woken, f)
          BY ONLY <1>4, <1>5, <5>1, <5>6, <5>8, EndMore
        <5> QED BY <1>3, <5>7, <5>8
      <4> QED BY <4>2, <4>3, <4>4, <4>5
    <3> QED BY <3>1, <3>3, <3>4
  <2>4. \A g \in Range(toDevice) : g.does = "start" /\ g.to = "nobody" => "focus" \in missed
    BY <1>1 DEF FocusAgrees
  <2> QED BY <1>3, <2>2, <2>3, <2>4 DEF FocusAgrees
<1> QED BY <1>10, <1>11, <1>12, <1>13 DEF AgreeInv
AsksLevel == [to |-> "volume", does |-> "get", of |-> ""]
(* The request of CompanionAudio's handler.                                 *)
LEMMA AsksLevelIs ==
    AsksLevel \in RequestOf /\ AsksLevel \in Frames /\ AsksLevel.to = "volume" /\ AsksLevel.does = "get"
<1>1. AsksLevel \in RequestOf /\ AsksLevel.to = "volume" /\ AsksLevel.does = "get"
  BY DEF AsksLevel, RequestOf
<1> QED BY <1>1, RequestsAre

(* A handler that runs makes known what its event says.                     *)
LEMMA HandlerRunsIs ==
    ASSUME ControlTypes, HandlerRuns, NEW f, f = Head(handlers)
    PROVE  /\ handlers # <<>> /\ handlers' = Tail(handlers) /\ f \in EventOf \cup StartOf(Caller)
           /\ UNCHANGED <<program, awaits, toApi, woken, device, keys, left>>
           /\ missed' = (IF f.does = "focus" /\ Has(woken, {"start"}) THEN missed \cup {"focus"} ELSE missed)
           /\ known' \in [control : BOOLEAN, level : Level, focused : BOOLEAN, awake : BOOLEAN]
           /\ \/ /\ f.does = "flags" /\ known'.control = f.of
                 /\ known'.focused = known.focused /\ known'.awake = known.awake
                 /\ f.of => toDevice' = Append(toDevice, AsksLevel)
                 /\ ~ f.of => toDevice' = toDevice
              \/ /\ f.does \in {"focus", "start"} /\ known'.focused = f.of /\ toDevice' = toDevice
                 /\ known'.control = known.control /\ known'.awake = known.awake /\ known'.level = known.level
              \/ /\ f.does = "status" /\ known'.awake = f.of /\ toDevice' = toDevice
                 /\ known'.control = known.control /\ known'.focused = known.focused /\ known'.level = known.level
<1>1. handlers \in Seq(EventOf \cup StartOf(Caller)) /\ woken \in Seq(AnswerOf)
      /\ known \in [control : BOOLEAN, level : Level, focused : BOOLEAN, awake : BOOLEAN]
  BY DEF ControlTypes
<1>2. /\ handlers # <<>> /\ handlers' = Tail(handlers)
      /\ UNCHANGED <<program, awaits, toApi, woken, device, keys, left>>
      /\ NotesOvertaking(<<f>>, woken)
      /\ \/ f.does = "flags" /\ HandlesFlags(f.of)
         \/ f.does \in {"focus", "start"} /\ known' = [known EXCEPT !.focused = f.of] /\ UNCHANGED toDevice
         \/ f.does = "status" /\ known' = [known EXCEPT !.awake = f.of] /\ UNCHANGED toDevice
  BY DEF HandlerRuns, callVars
<1>3. f \in EventOf \cup StartOf(Caller)
  BY <1>1, <1>2
<1>4. f.of \in BOOLEAN
  BY <1>3, EventsAre, StartsAre
<1>5. Overtakes(<<f>>, woken) <=> f.does = "focus" /\ Has(woken, {"start"})
  <2>1. DOMAIN woken = 1..Len(woken) /\ DOMAIN <<f>> = {1} /\ <<f>>[1] = f
    BY <1>1
  <2>2. (\E i \in DOMAIN woken : woken[i].does = "start") <=> Has(woken, {"start"})
    BY <2>1 DEF Has
  <2>3. (\E i \in DOMAIN <<f>> : <<f>>[i].does = "focus") <=> f.does = "focus"
    BY <2>1
  <2> QED BY <2>2, <2>3 DEF Overtakes
<1>6. missed' = (IF f.does = "focus" /\ Has(woken, {"start"}) THEN missed \cup {"focus"} ELSE missed)
  BY <1>2, <1>5 DEF NotesOvertaking
<1>7. CASE f.does = "flags" /\ HandlesFlags(f.of)
  <2>1. 0 \in Level
    BY ControlsAssumption DEF Level
  <2>2. /\ known' = [known EXCEPT !.control = f.of, !.level = IF f.of THEN @ ELSE 0]
        /\ f.of => toDevice' = Append(toDevice, AsksLevel)
        /\ ~ f.of => toDevice' = toDevice
    BY <1>7 DEF HandlesFlags, AsksLevel
  <2>3. /\ known' \in [control : BOOLEAN, level : Level, focused : BOOLEAN, awake : BOOLEAN]
        /\ known'.control = f.of /\ known'.focused = known.focused /\ known'.awake = known.awake
    BY <1>1, <1>4, <2>1, <2>2
  <2> QED BY <1>2, <1>3, <1>6, <1>7, <2>2, <2>3
<1>8. CASE f.does \in {"focus", "start"} /\ known' = [known EXCEPT !.focused = f.of] /\ UNCHANGED toDevice
  BY <1>1, <1>2, <1>3, <1>4, <1>6, <1>8
<1>9. CASE f.does = "status" /\ known' = [known EXCEPT !.awake = f.of] /\ UNCHANGED toDevice
  BY <1>1, <1>2, <1>3, <1>4, <1>6, <1>9
<1> QED BY <1>2, <1>7, <1>8, <1>9

(* A request for the volume is on its way to the device.                    *)
LEMMA AskedCalls ==
    ASSUME CallInv, toDevice' = toDevice \/ toDevice' = Append(toDevice, AsksLevel),
           UNCHANGED <<program, awaits, toApi, woken, device, keys>>, handlers' \in Seq(EventOf \cup StartOf(Caller)),
           known' \in [control : BOOLEAN, level : Level, focused : BOOLEAN, awake : BOOLEAN]
    PROVE  CallInv'
<1>1. ControlTypes /\ AtItsStage /\ OneFrame
  BY DEF CallInv
<1>2. AtItsStage'
  BY <1>1 DEF AtItsStage, Asks
<1>3. toDevice \in Seq(RequestOf) /\ toDevice \in Seq(Frames)
  BY <1>1, QueuesAre DEF ControlTypes
<1>4. toDevice' \in Seq(RequestOf)
  <2>1. Append(toDevice, AsksLevel) \in Seq(RequestOf)
    BY <1>3, AsksLevelIs
  <2> QED BY <1>3, <2>1
<1>5. ControlTypes'
  BY <1>1, <1>4 DEF ControlTypes
<1>6. CASE toDevice' = toDevice
  BY <1>1, <1>2, <1>5, <1>6 DEF CallInv, OneFrame, ForHead
<1>7. CASE toDevice' = Append(toDevice, AsksLevel)
  <2>1. PICK r : r = AsksLevel
    OBVIOUS
  <2>2. r \in Frames /\ r.to = "volume" /\ toDevice' = Append(toDevice, r) /\ toDevice \in Seq(Frames)
    BY <1>3, <1>7, <2>1, AsksLevelIs
  <2>3. \A x : x \in Range(toDevice') <=> x \in Range(toDevice) \/ x = r
    BY ONLY <2>2, OneMoreIn
  <2>4. \A c : (Reaches(toDevice', c) <=> Reaches(toDevice, c) \/ r.to = c)
               /\ (Once(toDevice, c) /\ (r.to = c => ~ Reaches(toDevice, c)) => Once(toDevice', c))
    BY ONLY <2>2, MoreReaches
  <2>5. "volume" \notin Caller
    BY ControlsAssumption
  <2>6. \A g : ForHead(g) => ForHead(g)'
    BY DEF ForHead
  <2>7. ForHead(r)'
    BY <2>2, <2>5 DEF ForHead
  <2>8. \A c \in Caller : r.to # c
    BY <2>2, <2>5
  <2>9. \A g \in Range(toDevice') : ForHead(g)' /\ (g.to \in Caller => g.of = Head(program'[g.to]).of)
    BY <1>1, <2>2, <2>3, <2>5, <2>6, <2>7 DEF OneFrame
  <2>10. \A c \in Caller : /\ Once(toDevice', c) /\ Once(toApi', c) /\ Once(woken', c)
                           /\ ~ (Reaches(toDevice', c) /\ Reaches(toApi', c))
                           /\ ~ (Reaches(toDevice', c) /\ Reaches(woken', c))
                           /\ ~ (Reaches(toApi', c) /\ Reaches(woken', c))
    BY <1>1, <2>4, <2>8 DEF OneFrame
  <2>11. (\A g \in Range(toApi') : ForHead(g)') /\ (\A g \in Range(woken') : ForHead(g)')
    BY <1>1, <2>6 DEF OneFrame
  <2> QED BY <1>2, <1>5, <2>9, <2>10, <2>11 DEF CallInv, OneFrame
<1> QED BY <1>6, <1>7

(* To ask for the volume moves no key.                                      *)
LEMMA AskedKeys ==
    ASSUME CallInv, KeyInv, toDevice' = toDevice \/ toDevice' = Append(toDevice, AsksLevel),
           UNCHANGED <<program, awaits, keys, left>>
    PROVE  KeyInv'
<1>1. ControlTypes /\ KeysComeUp /\ FingerComesUp
  BY DEF CallInv, KeyInv
<1>2. CASE toDevice' = toDevice
  BY <1>2, KeysStay
<1>3. CASE toDevice' = Append(toDevice, AsksLevel)
  <2>1. PICK r : r = AsksLevel
    OBVIOUS
  <2>2. r \in Frames /\ toDevice' = Append(toDevice, r) /\ toDevice \in Seq(Frames)
    BY <1>1, <1>3, <2>1, AsksLevelIs, QueuesAre
  <2>r. r.to = "volume" /\ r.does = "get"
    BY <2>1, AsksLevelIs
  <2>3. \A x : x \in Range(toDevice') <=> x \in Range(toDevice) \/ x = r
    BY ONLY <2>2, OneMoreIn
  <2>4. \A c : Reaches(toDevice', c) <=> Reaches(toDevice, c) \/ r.to = c
    BY ONLY <2>2, MoreReaches
  <2>5. Has(toDevice', {"touch"}) <=> Has(toDevice, {"touch"}) \/ r.does \in {"touch"}
    BY ONLY <2>2, MoreIsSaid
  <2>6. r.does # "touch" /\ Settled(toDevice) => Settled(toDevice')
    BY ONLY <2>2, MoreSettles
  <2>7. \A c \in Caller : \A k : ToRelease(c, k) => ToRelease(c, k)'
    BY <2>4 DEF ToRelease
  <2>8. KeysComeUp'
    BY <1>1, <2>3, <2>7, <2>r DEF KeysComeUp
  <2>9. FingerComesUp'
    BY <1>1, <2>5, <2>6, <2>r DEF FingerComesUp
  <2> QED BY <2>8, <2>9 DEF KeyInv
<1> QED BY <1>2, <1>3

(* A handler that runs is no call.                                          *)
LEMMA HandlerRunsCalls ==
    ASSUME CallInv, KeyInv, HandlerRuns PROVE CallInv' /\ KeyInv'
<1>1. ControlTypes
  BY DEF CallInv
<1>2. PICK f : f = Head(handlers)
  OBVIOUS
<1>3. /\ handlers # <<>> /\ handlers' = Tail(handlers) /\ f \in EventOf \cup StartOf(Caller)
      /\ UNCHANGED <<program, awaits, toApi, woken, device, keys, left>>
      /\ known' \in [control : BOOLEAN, level : Level, focused : BOOLEAN, awake : BOOLEAN]
      /\ toDevice' = toDevice \/ toDevice' = Append(toDevice, AsksLevel)
  <2>1. f \in EventOf \cup StartOf(Caller)
    BY <1>1, <1>2, HandlerRunsIs
  <2>2. f.of \in BOOLEAN
    BY <2>1, EventsAre, StartsAre
  <2> QED BY <1>1, <1>2, <2>2, HandlerRunsIs
<1>4. handlers' \in Seq(EventOf \cup StartOf(Caller))
  <2>1. handlers \in Seq(EventOf \cup StartOf(Caller))
    BY <1>1 DEF ControlTypes
  <2> QED BY ONLY <1>3, <2>1
<1> QED BY <1>3, <1>4, AskedCalls, AskedKeys

(* A handler that runs takes the last of what is said, or leaves it in the  *)
(* queue.                                                                   *)
LEMMA HandlerRunsAgree ==
    ASSUME CallInv, AgreeInv, HandlerRuns PROVE AgreeInv'
<1>1. ControlTypes /\ FlagsAgree /\ StatusAgree /\ LevelAgrees /\ FocusAgrees
  BY DEF CallInv, AgreeInv
<1>2. PICK f : f = Head(handlers)
  OBVIOUS
<1>3. /\ handlers # <<>> /\ handlers' = Tail(handlers) /\ f \in EventOf \cup StartOf(Caller)
      /\ UNCHANGED <<toApi, woken, device>>
      /\ missed' = (IF f.does = "focus" /\ Has(woken, {"start"}) THEN missed \cup {"focus"} ELSE missed)
      /\ \/ /\ f.does = "flags" /\ known'.control = f.of
            /\ known'.focused = known.focused /\ known'.awake = known.awake
            /\ f.of => toDevice' = Append(toDevice, AsksLevel)
            /\ ~ f.of => toDevice' = toDevice
         \/ /\ f.does \in {"focus", "start"} /\ known'.focused = f.of /\ toDevice' = toDevice
            /\ known'.control = known.control /\ known'.awake = known.awake /\ known'.level = known.level
         \/ /\ f.does = "status" /\ known'.awake = f.of /\ toDevice' = toDevice
            /\ known'.control = known.control /\ known'.focused = known.focused /\ known'.level = known.level
  BY <1>1, <1>2, HandlerRunsIs
<1>4. handlers \in Seq(Frames) /\ toDevice \in Seq(Frames)
  BY <1>1, QueuesAre
<1>5. f.of \in BOOLEAN
  BY <1>3, EventsAre, StartsAre
<1>q. handlers # <<>> /\ handlers' = Tail(handlers) /\ f = Head(handlers)
  BY <1>2, <1>3
<1>6. ASSUME NEW D, NEW v, NEW k, NEW m, NEW s, f.does \in D => m = f.of, f.does \notin D => m = k,
             InTheEnd(s, handlers, D, v, k)
      PROVE  InTheEnd(s, handlers', D, v, m)
  <2>1. (Head(handlers).does \in D => m = Head(handlers).of) /\ (Head(handlers).does \notin D => m = k)
    BY <1>6, <1>q
  <2> QED BY ONLY <1>4, <1>6, <1>q, <2>1, EndTaken
<1>7. \A D : Has(handlers, D) <=> f.does \in D \/ Has(handlers', D)
  BY ONLY <1>4, <1>q, LessIsSaid
<1>8. FlagsAgree'
  <2>1. PICK v, k, m : v = device.control /\ k = known.control /\ m = known'.control
    OBVIOUS
  <2>2. InTheEnd(toApi, handlers, {"flags"}, v, k)
    BY <1>1, <2>1 DEF FlagsAgree
  <2>3. (f.does \in {"flags"} => m = f.of) /\ (f.does \notin {"flags"} => m = k)
    BY <1>3, <2>1
  <2>4. InTheEnd(toApi, handlers', {"flags"}, v, m)
    BY ONLY <1>6, <2>2, <2>3
  <2> QED BY <1>3, <2>1, <2>4 DEF FlagsAgree
<1>9. StatusAgree'
  <2>1. PICK v, k, m : v = device.awake /\ k = known.awake /\ m = known'.awake
    OBVIOUS
  <2>2. InTheEnd(toApi, handlers, {"status"}, v, k)
    BY <1>1, <2>1 DEF StatusAgree
  <2>3. (f.does \in {"status"} => m = f.of) /\ (f.does \notin {"status"} => m = k)
    BY <1>3, <2>1
  <2>4. InTheEnd(toApi, handlers', {"status"}, v, m)
    BY ONLY <1>6, <2>2, <2>3
  <2> QED BY <1>3, <2>1, <2>4 DEF StatusAgree
<1>10. LevelAgrees'
  <2>1. CASE f.does = "flags" /\ f.of
    <3>1. PICK r : r = AsksLevel
      OBVIOUS
    <3>2. toDevice' = Append(toDevice, r) /\ r \in Frames /\ r.does \in {"get"}
      BY <1>3, <2>1, <3>1, AsksLevelIs
    <3>3. Has(toDevice', {"get"})
      BY ONLY <1>4, <3>2, MoreIsSaid
    <3> QED BY <3>3 DEF LevelAgrees, LevelAsked
  <2>2. CASE f.does = "flags" /\ ~ f.of
    <3>1. ASSUME ~ LevelAsked', device'.control PROVE FALSE
      <4>1. ~ Has(handlers', {"flags"}) /\ ~ Has(toApi', {"flags"})
        BY <3>1 DEF LevelAsked
      <4>2. device'.control = known'.control
        BY <1>8, <4>1 DEF FlagsAgree, InTheEnd
      <4>3. ~ known'.control
        BY <1>3, <2>2
      <4> QED BY <3>1, <4>2, <4>3
    <3> QED BY <3>1 DEF LevelAgrees
  <2>3. CASE f.does # "flags"
    <3>1. Has(handlers, {"flags"}) <=> f.does \in {"flags"} \/ Has(handlers', {"flags"})
      BY ONLY <1>7
    <3>2. LevelAsked' <=> LevelAsked
      BY <1>3, <2>3, <3>1 DEF LevelAsked
    <3>3. known'.level = known.level /\ ("level" \in missed' <=> "level" \in missed)
      BY <1>3, <2>3
    <3> QED BY <1>1, <1>3, <3>2, <3>3 DEF LevelAgrees
  <2> QED BY <1>5, <2>1, <2>2, <2>3
<1>11. FocusAgrees'
  <2>1. missed \subseteq missed'
    BY <1>3
  <2>2. \A g \in Range(toDevice') : g.does = "start" /\ g.to = "nobody" => "focus" \in missed
    <3>1. CASE toDevice' = toDevice
      BY <1>1, <3>1 DEF FocusAgrees
    <3>2. CASE toDevice' = Append(toDevice, AsksLevel)
      <4>1. PICK r : r = AsksLevel
        OBVIOUS
      <4>2. toDevice' = Append(toDevice, r) /\ r \in Frames
        BY <3>2, <4>1, AsksLevelIs
      <4>3. \A x : x \in Range(toDevice') <=> x \in Range(toDevice) \/ x = r
        BY ONLY <1>4, <4>2, OneMoreIn
      <4>4. r.does # "start"
        BY <4>1, AsksLevelIs
      <4> QED BY <1>1, <4>3, <4>4 DEF FocusAgrees
    <3> QED BY <1>3, <1>5, <3>1, <3>2
  <2>3. ASSUME device.session, "focus" \notin missed'
        PROVE  /\ LastSays(toApi, {"focus", "start"}, device.focused)
               /\ ~ Has(toApi, {"focus", "start"}) /\ NotOvertaken' =>
                    InTheEnd(woken, handlers', {"focus", "start"}, device.focused, known'.focused)
    <3>1. PICK v, k, m : v = device.focused /\ k = known.focused /\ m = known'.focused
      OBVIOUS
    <3>2. /\ LastSays(toApi, {"focus", "start"}, v)
          /\ ~ Has(toApi, {"focus", "start"}) /\ NotOvertaken => InTheEnd(woken, handlers, {"focus", "start"}, v, k)
      BY <1>1, <2>1, <2>3, <3>1 DEF FocusAgrees
    <3>3. Has(handlers, {"focus"}) <=> f.does \in {"focus"} \/ Has(handlers', {"focus"})
      BY ONLY <1>7
    <3>4. NotOvertaken' => NotOvertaken
      BY <1>3, <2>3, <3>3 DEF NotOvertaken
    <3>5. (f.does \in {"focus", "start"} => m = f.of) /\ (f.does \notin {"focus", "start"} => m = k)
      BY <1>3, <3>1
    <3>6. InTheEnd(woken, handlers, {"focus", "start"}, v, k) => InTheEnd(woken, handlers', {"focus", "start"}, v, m)
      BY ONLY <1>6, <3>5
    <3> QED BY <3>1, <3>2, <3>4, <3>6
  <2>4. \A g \in Range(toApi) \cup Range(woken) : g.does = "start" /\ g.to = "nobody" => "focus" \in missed'
    BY <1>1, <2>1 DEF FocusAgrees
  <2>5. \A g \in Range(toDevice') : g.does = "start" /\ g.to = "nobody" => "focus" \in missed'
    BY <2>1, <2>2
  <2> QED BY <1>3, <2>3, <2>4, <2>5 DEF FocusAgrees
<1> QED BY <1>8, <1>9, <1>10, <1>11 DEF AgreeInv
(* Who awaited an answer runs again.                                        *)
CallGoesOn(c, f) ==
    /\ c \in Caller /\ awaits' = [awaits EXCEPT ![c] = "nothing"]
    /\ program' = [program EXCEPT ![c] = IF f.does = "start" /\ ~ f.of THEN <<>> ELSE Tail(@)]
    /\ handlers' = (IF f.does = "start" THEN Append(handlers, f) ELSE handlers)
    /\ missed' = (IF f.does = "start" /\ Has(handlers, {"focus"}) THEN missed \cup {"focus"} ELSE missed)
    /\ known' = known
(* The handler gets its volume, a call goes on, or nobody is there.         *)
LEMMA ResumesIs ==
    ASSUME ControlTypes, Resumes, NEW f, f = Head(woken)
    PROVE  /\ woken # <<>> /\ woken' = Tail(woken) /\ f \in AnswerOf
           /\ UNCHANGED <<toDevice, toApi, device, keys, left>>
           /\ \/ /\ f.to = "volume" /\ f.does = "get" /\ f.of \in Level
                 /\ known' \in [control : BOOLEAN, level : Level, focused : BOOLEAN, awake : BOOLEAN]
                 /\ known'.control = known.control /\ known'.focused = known.focused /\ known'.awake = known.awake
                 /\ known'.level = f.of
                 /\ UNCHANGED <<program, awaits, handlers, missed>>
              \/ CallGoesOn(f.to, f)
              \/ f.to = "nobody" /\ UNCHANGED <<program, awaits, handlers, missed, known>>
<1>1. /\ handlers \in Seq(EventOf \cup StartOf(Caller)) /\ woken \in Seq(AnswerOf)
      /\ known \in [control : BOOLEAN, level : Level, focused : BOOLEAN, awake : BOOLEAN]
  BY DEF ControlTypes
<1>2. /\ woken # <<>> /\ woken' = Tail(woken)
      /\ UNCHANGED <<toDevice, toApi, device, keys, left>>
      /\ \/ /\ f.to = "volume" /\ known' = [known EXCEPT !.level = f.of]
            /\ UNCHANGED <<program, awaits, handlers, missed>>
         \/ /\ f.to \in Caller
            /\ awaits' = [awaits EXCEPT ![f.to] = "nothing"]
            /\ program' = [program EXCEPT ![f.to] = IF f.does = "start" /\ ~ f.of THEN <<>> ELSE Tail(@)]
            /\ handlers' = (IF f.does = "start" THEN Append(handlers, f) ELSE handlers)
            /\ NotesOvertaking(handlers, <<f>>)
            /\ known' = known
         \/ f.to = "nobody" /\ UNCHANGED <<program, awaits, handlers, missed, known>>
  BY DEF Resumes, callVars
<1>3. f \in AnswerOf
  BY <1>1, <1>2
<1>4. f.to = "volume" => f.does = "get" /\ f.of \in Level
  BY <1>3, AnswersAre
<1>5. Overtakes(handlers, <<f>>) <=> f.does = "start" /\ Has(handlers, {"focus"})
  <2>1. DOMAIN handlers = 1..Len(handlers) /\ DOMAIN <<f>> = {1} /\ <<f>>[1] = f
    BY <1>1
  <2>2. (\E i \in DOMAIN handlers : handlers[i].does = "focus") <=> Has(handlers, {"focus"})
    BY <2>1 DEF Has
  <2>3. (\E i \in DOMAIN <<f>> : <<f>>[i].does = "start") <=> f.does = "start"
    BY <2>1
  <2> QED BY <2>2, <2>3 DEF Overtakes
<1>6. CASE f.to = "volume" /\ known' = [known EXCEPT !.level = f.of] /\ UNCHANGED <<program, awaits, handlers, missed>>
  BY <1>1, <1>2, <1>3, <1>4, <1>6
<1>7. CASE /\ f.to \in Caller
           /\ awaits' = [awaits EXCEPT ![f.to] = "nothing"]
           /\ program' = [program EXCEPT ![f.to] = IF f.does = "start" /\ ~ f.of THEN <<>> ELSE Tail(@)]
           /\ handlers' = (IF f.does = "start" THEN Append(handlers, f) ELSE handlers)
           /\ NotesOvertaking(handlers, <<f>>)
           /\ known' = known
  <2>1. missed' = (IF f.does = "start" /\ Has(handlers, {"focus"}) THEN missed \cup {"focus"} ELSE missed)
    BY <1>5, <1>7 DEF NotesOvertaking
  <2>2. CallGoesOn(f.to, f)
    BY <1>7, <2>1 DEF CallGoesOn
  <2> QED BY <1>2, <1>3, <2>2
<1>8. CASE f.to = "nobody" /\ UNCHANGED <<program, awaits, handlers, missed, known>>
  BY <1>2, <1>3, <1>8
<1> QED BY <1>2, <1>6, <1>7, <1>8

(* Who runs again keeps the types.                                          *)
LEMMA ResumesTypes ==
    ASSUME CallInv, Resumes PROVE ControlTypes'
<1>1. ControlTypes /\ OneFrame
  BY DEF CallInv
<1>2. PICK f : f = Head(woken)
  OBVIOUS
<1>3. /\ woken # <<>> /\ woken' = Tail(woken) /\ f \in AnswerOf
      /\ UNCHANGED <<toDevice, toApi, device, keys, left>>
      /\ \/ /\ known' \in [control : BOOLEAN, level : Level, focused : BOOLEAN, awake : BOOLEAN]
            /\ UNCHANGED <<program, awaits, handlers>>
         \/ CallGoesOn(f.to, f)
         \/ UNCHANGED <<program, awaits, handlers, known>>
  BY <1>1, <1>2, ResumesIs
<1>4. woken' \in Seq(AnswerOf)
  <2>1. woken \in Seq(AnswerOf)
    BY <1>1 DEF ControlTypes
  <2> QED BY ONLY <1>3, <2>1
<1>5. CASE CallGoesOn(f.to, f)
  <2>1. PICK c : c = f.to
    OBVIOUS
  <2>2. c \in Caller /\ f \in Range(woken)
    <3>1. woken \in Seq(Frames)
      BY <1>1, QueuesAre
    <3>2. f \in Range(woken)
      BY <1>2, <1>3, <3>1, OneLess
    <3> QED BY <1>5, <2>1, <3>2 DEF CallGoesOn
  <2>3. program[c] # <<>> /\ program[c] \in Seq(StageOf) /\ program \in [Caller -> Seq(StageOf)]
        /\ awaits \in [Caller -> {"nothing", "answer", "time", "volume"}]
    BY <1>1, <2>1, <2>2 DEF ControlTypes, OneFrame, ForHead
  <2>4. Tail(program[c]) \in Seq(StageOf) /\ <<>> \in Seq(StageOf)
    BY <2>3, TheRest
  <2>5. program' = [program EXCEPT ![c] = IF f.does = "start" /\ ~ f.of THEN <<>> ELSE Tail(program[c])]
        /\ awaits' = [awaits EXCEPT ![c] = "nothing"] /\ known' = known
    BY <1>5, <2>1 DEF CallGoesOn
  <2>6. program' \in [Caller -> Seq(StageOf)] /\ awaits' \in [Caller -> {"nothing", "answer", "time", "volume"}]
    BY <2>3, <2>4, <2>5
  <2>7. handlers' \in Seq(EventOf \cup StartOf(Caller))
    <3>1. handlers \in Seq(EventOf \cup StartOf(Caller))
      BY <1>1 DEF ControlTypes
    <3>2. f.does = "start" => f \in StartOf(Caller)
      BY <1>3, <2>1, <2>2, AnswersAre
    <3>3. handlers' = (IF f.does = "start" THEN Append(handlers, f) ELSE handlers)
      BY <1>5 DEF CallGoesOn
    <3>4. f \in StartOf(Caller) => Append(handlers, f) \in Seq(EventOf \cup StartOf(Caller))
      BY <3>1
    <3> QED BY <3>1, <3>2, <3>3, <3>4
  <2> QED BY <1>1, <1>3, <1>4, <2>5, <2>6, <2>7 DEF ControlTypes
<1> QED BY <1>1, <1>3, <1>4, <1>5 DEF ControlTypes

(* A call that goes on has had the one frame to it.                         *)
LEMMA ResumesCalls ==
    ASSUME CallInv, Resumes PROVE CallInv'
<1>1. ControlTypes /\ AtItsStage /\ OneFrame
  BY DEF CallInv
<1>2. PICK f : f = Head(woken)
  OBVIOUS
<1>3. /\ woken # <<>> /\ woken' = Tail(woken)
      /\ UNCHANGED <<toDevice, toApi, device, keys, left>>
      /\ CallGoesOn(f.to, f) \/ UNCHANGED <<program, awaits>>
  BY <1>1, <1>2, ResumesIs
<1>4. woken \in Seq(Frames)
  BY <1>1, QueuesAre
<1>q. woken # <<>> /\ woken' = Tail(woken) /\ f = Head(woken)
  BY <1>2, <1>3
<1>5. \A x : x \in Range(woken) <=> x \in Range(woken') \/ x = f
  BY ONLY <1>4, <1>q, OneLess
<1>6. \A c : (Reaches(woken, c) <=> Reaches(woken', c) \/ f.to = c)
             /\ (Once(woken, c) => Once(woken', c) /\ (f.to = c => ~ Reaches(woken', c)))
  BY ONLY <1>4, <1>q, LessReaches
<1>7. \A c \in Caller : /\ Once(toDevice', c) /\ Once(toApi', c) /\ Once(woken', c)
                        /\ ~ (Reaches(toDevice', c) /\ Reaches(toApi', c))
                        /\ ~ (Reaches(toDevice', c) /\ Reaches(woken', c))
                        /\ ~ (Reaches(toApi', c) /\ Reaches(woken', c))
  BY <1>1, <1>3, <1>6 DEF OneFrame
<1>8. CASE UNCHANGED <<program, awaits>>
  <2>1. AtItsStage'
    BY <1>1, <1>8 DEF AtItsStage, Asks
  <2>2. \A g : ForHead(g) => ForHead(g)'
    BY <1>8 DEF ForHead
  <2>3. /\ \A g \in Range(toApi') : ForHead(g)'
        /\ \A g \in Range(woken') : ForHead(g)'
        /\ \A g \in Range(toDevice') : ForHead(g)' /\ (g.to \in Caller => g.of = Head(program'[g.to]).of)
    BY <1>1, <1>3, <1>5, <1>8, <2>2 DEF OneFrame
  <2> QED BY <1>7, <2>1, <2>3, ResumesTypes DEF CallInv, OneFrame
<1>9. CASE CallGoesOn(f.to, f)
  <2>1. PICK c : c = f.to
    OBVIOUS
  <2>2. c \in Caller /\ awaits'[c] = "nothing" /\ \A a \in Caller : a # c => awaits'[a] = awaits[a] /\ program'[a] = program[a]
    BY <1>1, <1>9, <2>1 DEF CallGoesOn, ControlTypes
  <2>3. AtItsStage'
    BY <1>1, <2>2 DEF AtItsStage, Asks
  <2>4. ~ Reaches(toDevice, c) /\ ~ Reaches(toApi, c) /\ ~ Reaches(woken', c)
    BY <1>1, <1>6, <2>1, <2>2 DEF OneFrame
  <2>5. \A g : g.to # c /\ ForHead(g) => ForHead(g)'
    BY <2>2, OthersStay
  <2>6. /\ \A g \in Range(toApi') : ForHead(g)'
        /\ \A g \in Range(woken') : ForHead(g)'
        /\ \A g \in Range(toDevice') : ForHead(g)' /\ (g.to \in Caller => g.of = Head(program'[g.to]).of)
    BY <1>1, <1>3, <1>5, <2>2, <2>4, <2>5 DEF OneFrame, Reaches
  <2> QED BY <1>7, <2>3, <2>6, ResumesTypes DEF CallInv, OneFrame
<1> QED BY <1>3, <1>8, <1>9

(* A call that is dropped when no text field has the focus has no key to    *)
(* release.                                                                 *)
LEMMA TypingHoldsNothing ==
    ASSUME NEW p \in Seq(StageOf), p # <<>>, Head(p).does = "start", OfAKind(p)
    PROVE  Lifts \notin Range(p) /\ \A k : Release(k) \notin Range(p)
<1>1. p[1] = Head(p) /\ 1 \in 1..Len(p) /\ DOMAIN p = 1..Len(p)
  OBVIOUS
<1>2. \A i \in 1..Len(p) : p[i].does \in {"stop", "start", "type"}
  BY <1>1 DEF OfAKind
<1>3. \A x \in Range(p) : x.does \in {"stop", "start", "type"}
  BY <1>1, <1>2 DEF Range
<1> QED BY <1>3 DEF Lifts, Release, Stage

(* A call that goes on, or is dropped without a text field, will still      *)
(* release its keys.                                                        *)
LEMMA ResumesKeys ==
    ASSUME CallInv, KeyInv, Resumes PROVE KeyInv'
<1>1. ControlTypes /\ AtItsStage /\ OneFrame /\ KeysComeUp /\ FingerComesUp
  BY DEF CallInv, KeyInv
<1>2. PICK f : f = Head(woken)
  OBVIOUS
<1>3. /\ woken # <<>> /\ woken' = Tail(woken) /\ f \in AnswerOf
      /\ UNCHANGED <<toDevice, toApi, device, keys, left>>
      /\ CallGoesOn(f.to, f) \/ UNCHANGED <<program, awaits>>
  BY <1>1, <1>2, ResumesIs
<1>4. woken \in Seq(Frames)
  BY <1>1, QueuesAre
<1>5. f \in Range(woken)
  BY <1>2, <1>3, <1>4, OneLess
<1>6. CASE UNCHANGED <<program, awaits>>
  BY <1>3, <1>6, KeysStay
<1>7. CASE CallGoesOn(f.to, f)
  <2>1. PICK c, p, q : c = f.to /\ p = program[c] /\ q = Tail(p)
    OBVIOUS
  <2>2. c \in Caller /\ \A a \in Caller : a # c => awaits'[a] = awaits[a] /\ program'[a] = program[a]
    BY <1>1, <1>7, <2>1 DEF CallGoesOn, ControlTypes
  <2>3. awaits[c] = "answer" /\ p # <<>> /\ p \in Seq(StageOf) /\ f.does = Head(p).does
    BY <1>1, <1>5, <2>1, <2>2 DEF OneFrame, ForHead, ControlTypes
  <2>4. awaits'[c] = "nothing" /\ program'[c] = (IF f.does = "start" /\ ~ f.of THEN <<>> ELSE q)
    BY <1>1, <1>7, <2>1, <2>2 DEF CallGoesOn, ControlTypes
  <2>5. Paired(p) /\ OfAKind(p)
    BY <1>1, <2>1, <2>2 DEF KeysComeUp
  <2>6. Paired(q) /\ OfAKind(q) /\ q \in Seq(StageOf) /\ (Lifts \in Range(p) <=> Lifts \in Range(q) \/ Lifts = Head(p))
    BY ONLY <2>1, <2>3, <2>5, TheRest
  <2>7. Paired(<<>>) /\ OfAKind(<<>>) /\ Range(<<>>) = {}
    BY DEF Paired, OfAKind, Range
  <2>8. \A a \in Caller : Paired(program'[a]) /\ OfAKind(program'[a])
    <3>1. Paired(program'[c]) /\ OfAKind(program'[c])
      BY <2>4, <2>6, <2>7
    <3> QED BY <1>1, <2>2, <3>1 DEF KeysComeUp
  <2>9. f.does = "start" => Lifts \notin Range(p) /\ \A k : Release(k) \notin Range(p)
    BY <2>3, <2>5, TypingHoldsNothing
  <2>10. ~ Reaches(toDevice, c)
    BY <1>1, <1>5, <2>1, <2>2 DEF OneFrame, Reaches
  <2>11. ASSUME NEW k, ToRelease(c, k) PROVE ToRelease(c, k)'
    <3>0. DOMAIN p = 1..Len(p)
      BY <2>3
    <3>1. PICK j \in DOMAIN p : p[j] = Release(k) /\ j > 1
      BY <2>1, <2>3, <2>10, <2>11, <3>0 DEF ToRelease
    <3>2. f.does # "start"
      BY <2>9, <3>1 DEF Range
    <3>3. PICK x : x = Release(k)
      OBVIOUS
    <3>4. p \in Seq(StageOf) /\ p # <<>> /\ q = Tail(p) /\ p[j] = x
      BY <2>1, <2>3, <3>1, <3>3
    <3>5. \E i \in 1..Len(q) : q[i] = x
      <4>1. Len(q) \in Nat /\ Len(p) = Len(q) + 1 /\ \A i \in 1..Len(q) : q[i] = p[i + 1]
        BY ONLY <3>4, OneLess
      <4>2. j \in 1..Len(p) /\ j > 1
        BY <3>0, <3>1, <3>4
      <4>3. j - 1 \in 1..Len(q) /\ (j - 1) + 1 = j
        BY ONLY <4>1, <4>2
      <4> QED BY <3>4, <4>1, <4>3
    <3> QED BY <2>4, <3>2, <3>3, <3>5 DEF ToRelease
  <2>12. ASSUME NEW a \in Caller, NEW k, ToRelease(a, k) PROVE ToRelease(a, k)'
    <3>1. a # c => ToRelease(a, k)'
      BY <1>3, <2>2, <2>12 DEF ToRelease
    <3> QED BY <2>11, <2>12, <3>1
  <2>13. KeysComeUp'
    BY <1>1, <1>3, <2>8, <2>12 DEF KeysComeUp
  <2>14. FingerComesUp'
    <3>1. Lifts # Head(p)
      <4>1. f.does # "touch"
        BY <1>3, AnswersAre
      <4> QED BY <2>3, <4>1 DEF Lifts, Stage
    <3>2. Lifts \in Range(p) => Lifts \in Range(program'[c])
      BY <2>4, <2>6, <2>9, <3>1
    <3>3. (\A a \in Caller : Lifts \notin Range(program'[a])) => \A a \in Caller : Lifts \notin Range(program[a])
      BY <2>1, <2>2, <3>2
    <3> QED BY <1>1, <1>3, <3>3 DEF FingerComesUp
  <2> QED BY <2>13, <2>14 DEF KeyInv
<1> QED BY <1>3, <1>6, <1>7
(* The volume is known as it was said; the focus is handed on.              *)
LEMMA ResumesAgree ==
    ASSUME CallInv, AgreeInv, Resumes PROVE AgreeInv'
<1>1. ControlTypes /\ FlagsAgree /\ StatusAgree /\ LevelAgrees /\ FocusAgrees
  BY DEF CallInv, AgreeInv
<1>2. PICK f : f = Head(woken)
  OBVIOUS
<1>3. /\ woken # <<>> /\ woken' = Tail(woken) /\ f \in AnswerOf
      /\ UNCHANGED <<toDevice, toApi, device, keys, left>>
      /\ \/ /\ f.to = "volume" /\ f.does = "get"
            /\ known'.control = known.control /\ known'.focused = known.focused /\ known'.awake = known.awake
            /\ known'.level = f.of
            /\ UNCHANGED <<handlers, missed>>
         \/ CallGoesOn(f.to, f)
         \/ f.to = "nobody" /\ UNCHANGED <<handlers, missed, known>>
  BY <1>1, <1>2, ResumesIs
<1>4. handlers \in Seq(Frames) /\ woken \in Seq(Frames) /\ f \in Frames
  BY <1>1, <1>3, QueuesAre, AnswersAre
<1>5. f.does \notin {"flags", "focus", "status"} /\ (f.does = "get" <=> f.to = "volume")
  BY <1>3, AnswersAre
<1>6. f.to \in Caller => f.to # "volume" /\ f.to # "nobody"
  BY ControlsAssumption
<1>7. /\ f.to = "volume" => known'.level = f.of
      /\ f.to # "volume" => known'.level = known.level
      /\ known'.control = known.control /\ known'.focused = known.focused /\ known'.awake = known.awake
  BY <1>3, <1>6 DEF CallGoesOn
<1>8. /\ handlers' = handlers \/ (f.does = "start" /\ f.to \in Caller /\ handlers' = Append(handlers, f))
      /\ f.does = "start" /\ f.to # "nobody" => handlers' = Append(handlers, f)
      /\ f.does = "start" /\ f.to # "nobody" /\ Has(handlers, {"focus"}) => "focus" \in missed'
      /\ missed' = missed \/ missed' = missed \cup {"focus"}
  BY <1>3, <1>5 DEF CallGoesOn
<1>q. woken # <<>> /\ woken' = Tail(woken) /\ f = Head(woken)
  BY <1>2, <1>3
<1>9. ASSUME NEW D, D = {"flags"} \/ D = {"status"}, NEW s, NEW v, NEW k, InTheEnd(s, handlers, D, v, k)
      PROVE  InTheEnd(s, handlers', D, v, k)
  <2>1. f.does \notin D
    BY <1>5, <1>9
  <2>2. CASE handlers' = Append(handlers, f)
    BY ONLY <1>4, <1>9, <2>1, <2>2, EndMoreSooner
  <2> QED BY <1>8, <1>9, <2>2
<1>10. FlagsAgree'
  <2>1. PICK v, k : v = device.control /\ k = known.control
    OBVIOUS
  <2>2. InTheEnd(toApi, handlers, {"flags"}, v, k)
    BY <1>1, <2>1 DEF FlagsAgree
  <2>3. InTheEnd(toApi, handlers', {"flags"}, v, k)
    BY ONLY <1>9, <2>2
  <2> QED BY <1>3, <1>7, <2>1, <2>3 DEF FlagsAgree
<1>11. StatusAgree'
  <2>1. PICK v, k : v = device.awake /\ k = known.awake
    OBVIOUS
  <2>2. InTheEnd(toApi, handlers, {"status"}, v, k)
    BY <1>1, <2>1 DEF StatusAgree
  <2>3. InTheEnd(toApi, handlers', {"status"}, v, k)
    BY ONLY <1>9, <2>2
  <2> QED BY <1>3, <1>7, <2>1, <2>3 DEF StatusAgree
<1>12. LevelAgrees'
  <2>1. Has(handlers', {"flags"}) <=> Has(handlers, {"flags"})
    <3>1. f.does \notin {"flags"}
      BY <1>5
    <3>2. handlers' = Append(handlers, f) => (Has(handlers', {"flags"}) <=> Has(handlers, {"flags"}) \/ f.does \in {"flags"})
      BY ONLY <1>4, MoreIsSaid
    <3> QED BY <1>8, <3>1, <3>2
  <2>2. LevelAsked' <=> LevelAsked
    BY <1>3, <2>1 DEF LevelAsked
  <2>3. "level" \in missed => "level" \in missed'
    BY <1>8
  <2>4. PICK v, k, m : v = device.level /\ k = known.level /\ m = known'.level
    OBVIOUS
  <2>5. (Head(woken).does \in {"get"} => m = Head(woken).of) /\ (Head(woken).does \notin {"get"} => m = k)
    BY <1>2, <1>5, <1>7, <2>4
  <2>6. InTheEnd(toApi, woken, {"get"}, v, k) => InTheEnd(toApi, woken', {"get"}, v, m)
    BY ONLY <1>4, <1>q, <2>5, EndTaken
  <2> QED BY <1>1, <1>3, <2>2, <2>3, <2>4, <2>6 DEF LevelAgrees
<1>13. FocusAgrees'
  <2>1. missed \subseteq missed'
    BY <1>8
  <2>2. \A x : x \in Range(woken) <=> x \in Range(woken') \/ x = f
    BY ONLY <1>4, <1>q, OneLess
  <2>3. \A g \in Range(toDevice') : g.does = "start" /\ g.to = "nobody" => "focus" \in missed'
    BY <1>1, <1>3, <2>1 DEF FocusAgrees
  <2>4. \A g \in Range(toApi') \cup Range(woken') : g.does = "start" /\ g.to = "nobody" => "focus" \in missed'
    BY <1>1, <1>3, <2>1, <2>2 DEF FocusAgrees
  <2>5. ASSUME device.session, "focus" \notin missed', ~ Has(toApi, {"focus", "start"}), NotOvertaken'
        PROVE  InTheEnd(woken', handlers', {"focus", "start"}, device.focused, known.focused)
    <3>1. PICK v, k, D : v = device.focused /\ k = known.focused /\ D = {"focus", "start"}
      OBVIOUS
    <3>2. NotOvertaken => InTheEnd(woken, handlers, D, v, k)
      BY <1>1, <2>1, <2>5, <3>1 DEF FocusAgrees
    <3>3. CASE f.does = "start"
      <4>1. f.to # "nobody"
        BY <1>1, <2>1, <2>2, <2>5, <3>3 DEF FocusAgrees
      <4>2. ~ Has(handlers, {"focus"}) /\ handlers' = Append(handlers, Head(woken))
        BY <1>2, <1>8, <2>5, <3>3, <4>1
      <4>3. InTheEnd(woken, handlers, D, v, k)
        BY <3>2, <4>2 DEF NotOvertaken
      <4>4. InTheEnd(woken', handlers', D, v, k)
        BY ONLY <1>4, <1>q, <4>2, <4>3, EndMoves
      <4> QED BY <3>1, <4>4
    <3>4. CASE f.does # "start"
      <4>1. handlers' = handlers
        BY <1>8, <3>4
      <4>2. Has(woken, {"start"}) <=> f.does \in {"start"} \/ Has(woken', {"start"})
        BY ONLY <1>4, <1>q, LessIsSaid
      <4>3. InTheEnd(woken, handlers, D, v, k)
        BY <2>5, <3>2, <3>4, <4>1, <4>2 DEF NotOvertaken
      <4>4. Head(woken).does \notin D
        BY <1>2, <1>5, <3>1, <3>4
      <4>5. InTheEnd(woken', handlers, D, v, k)
        BY ONLY <1>4, <1>q, <4>3, <4>4, EndLess
      <4> QED BY <3>1, <4>1, <4>5
    <3> QED BY <3>3, <3>4
  <2>6. device.session /\ "focus" \notin missed' => LastSays(toApi, {"focus", "start"}, device.focused)
    BY <1>1, <2>1 DEF FocusAgrees
  <2> QED BY <1>3, <1>7, <2>3, <2>4, <2>5, <2>6 DEF FocusAgrees
<1> QED BY <1>10, <1>11, <1>12, <1>13 DEF AgreeInv

-----------------------------------------------------------------------------
(* The request of a handler fails.                                          *)
LEMMA HandlerFailsIs ==
    ASSUME ControlTypes, HandlerFails
    PROVE  /\ toDevice' \in Seq(Frames) /\ Fewer(toDevice', toDevice, "volume")
           /\ \A f \in Range(toDevice') : f \in Range(toDevice) /\ f.to # "volume"
           /\ missed' = missed \cup {"level"}
           /\ UNCHANGED <<program, awaits, toApi, handlers, woken, known, device, keys, left>>
<1>1. toDevice \in Seq(Frames)
  BY QueuesAre
<1>2. /\ toDevice' = Without(toDevice, "volume") /\ missed' = missed \cup {"level"}
      /\ UNCHANGED <<program, awaits, toApi, handlers, woken, known, device, keys, left>>
  BY DEF HandlerFails, callVars
<1>3. PICK t, w : t = toDevice' /\ w = "volume"
  OBVIOUS
<1>4. t = Without(toDevice, w)
  BY <1>2, <1>3
<1>5. t \in Seq(Frames) /\ Fewer(t, toDevice, w) /\ \A f \in Range(t) : f \in Range(toDevice) /\ f.to # w
  BY ONLY <1>1, <1>4, WithoutIsFewer
<1> QED BY <1>2, <1>3, <1>5

(* A handler whose request fails knows no volume, and nothing else changes. *)
LEMMA HandlerFailsKeeps ==
    ASSUME CallInv, AgreeInv, KeyInv, HandlerFails PROVE CallInv' /\ AgreeInv' /\ KeyInv'
<1>1. ControlTypes /\ AtItsStage /\ OneFrame /\ FlagsAgree /\ StatusAgree /\ FocusAgrees /\ KeysComeUp /\ FingerComesUp
  BY DEF CallInv, AgreeInv, KeyInv
<1>2. /\ toDevice' \in Seq(Frames) /\ Fewer(toDevice', toDevice, "volume")
      /\ \A f \in Range(toDevice') : f \in Range(toDevice) /\ f.to # "volume"
      /\ missed' = missed \cup {"level"}
      /\ UNCHANGED <<program, awaits, toApi, handlers, woken, known, device, keys, left>>
  BY <1>1, HandlerFailsIs
<1>3. toDevice \in Seq(Frames) /\ \A f \in Range(toDevice) : f \in RequestOf
  BY <1>1, QueuesAre
<1>4. \A c \in Caller : c # "nobody" /\ c # "volume"
  BY ControlsAssumption
<1>5. toDevice' \in Seq(RequestOf)
  BY <1>2, <1>3, SeqWhen
<1>6. ControlTypes'
  BY <1>1, <1>2, <1>5 DEF ControlTypes
<1>7. AtItsStage'
  BY <1>1, <1>2 DEF AtItsStage, Asks
<1>8. \A c \in Caller : (Reaches(toDevice', c) <=> Reaches(toDevice, c)) /\ (Once(toDevice, c) => Once(toDevice', c))
  <2>1. PICK w : w = "volume"
    OBVIOUS
  <2>2. \A c : c # "nobody" => (c # w => (Reaches(toDevice', c) <=> Reaches(toDevice, c)))
                               /\ (Once(toDevice, c) => Once(toDevice', c))
    BY <1>2, <1>3, <2>1, FewerReach
  <2> QED BY <1>4, <2>1, <2>2
<1>9. \A g : ForHead(g) => ForHead(g)'
  BY <1>2 DEF ForHead
<1>10. OneFrame'
  <2>1. \A f \in Range(toDevice') : ForHead(f)' /\ (f.to \in Caller => f.of = Head(program'[f.to]).of)
    BY <1>1, <1>2, <1>9 DEF OneFrame
  <2>2. (\A f \in Range(toApi') : ForHead(f)') /\ (\A f \in Range(woken') : ForHead(f)')
    BY <1>1, <1>2, <1>9 DEF OneFrame
  <2>3. \A c \in Caller : /\ Once(toDevice', c) /\ Once(toApi', c) /\ Once(woken', c)
                          /\ ~ (Reaches(toDevice', c) /\ Reaches(toApi', c))
                          /\ ~ (Reaches(toDevice', c) /\ Reaches(woken', c))
                          /\ ~ (Reaches(toApi', c) /\ Reaches(woken', c))
    BY <1>1, <1>2, <1>8 DEF OneFrame
  <2> QED BY <2>1, <2>2, <2>3 DEF OneFrame
<1>11. FlagsAgree' /\ StatusAgree' /\ LevelAgrees'
  BY <1>1, <1>2 DEF FlagsAgree, StatusAgree, LevelAgrees
<1>12. FocusAgrees'
  <2>1. "focus" \in missed' <=> "focus" \in missed
    BY <1>2
  <2> QED BY <1>1, <1>2, <2>1 DEF FocusAgrees, NotOvertaken
<1>13. KeysComeUp'
  <2>1. \A a \in Caller : \A k : ToRelease(a, k) => ToRelease(a, k)'
    BY <1>2, <1>8 DEF ToRelease
  <2> QED BY <1>1, <1>2, <2>1 DEF KeysComeUp
<1>14. FingerComesUp'
  <2>1. \A f \in Range(toDevice) : f.does = "touch" => f.to # "volume"
    <3>1. \A f \in RequestOf : f.does = "touch" => f.to = "nobody"
      BY RequestsAre
    <3> QED BY <1>3, <3>1
  <2>2. PICK w : w = "volume"
    OBVIOUS
  <2>3. \A f \in Range(toDevice) : f.does \in {"touch"} => f.to # w
    BY <2>1, <2>2
  <2>4. toDevice' \in Seq(Frames) /\ Fewer(toDevice', toDevice, w)
    BY <1>2, <2>2
  <2>5. Has(toDevice', {"touch"}) <=> Has(toDevice, {"touch"})
    BY ONLY <1>3, <2>3, <2>4, FewerSay
  <2>6. Settled(toDevice) => Settled(toDevice')
    BY <1>3, <2>1, <2>2, <2>4, FewerSettle
  <2> QED BY <1>1, <1>2, <2>5, <2>6 DEF FingerComesUp
<1> QED BY <1>6, <1>7, <1>10, <1>11, <1>12, <1>13, <1>14 DEF CallInv, AgreeInv, KeyInv
-----------------------------------------------------------------------------
(* Nothing has been said yet, and what is known is so.                      *)
LEMMA ControlsStartWell == ControlInit => ControlInv
<1> SUFFICES ASSUME ControlInit PROVE ControlInv
  OBVIOUS
<1>1. /\ program = [c \in Caller |-> <<>>] /\ awaits = [c \in Caller |-> "nothing"]
      /\ toDevice = <<>> /\ toApi = <<>> /\ handlers = <<>> /\ woken = <<>>
      /\ device = [control |-> TRUE, level |-> 1, focused |-> FALSE, session |-> TRUE, awake |-> TRUE]
      /\ known = [control |-> TRUE, level |-> 1, focused |-> FALSE, awake |-> TRUE]
      /\ keys = {} /\ left = {} /\ missed = {}
  BY DEF ControlInit
<1>2. 1 \in Level
  BY ControlsAssumption DEF Level
<1>3. \A c \in Caller : program[c] = <<>> /\ awaits[c] = "nothing"
  BY <1>1
<1>4. Range(<<>>) = {} /\ Len(<<>>) = 0 /\ 1..0 = {}
  BY DEF Range
<1>5. ControlTypes
  <2>1. program \in [Caller -> Seq(StageOf)] /\ awaits \in [Caller -> {"nothing", "answer", "time", "volume"}]
    BY <1>1
  <2>2. /\ toDevice \in Seq(RequestOf) /\ toApi \in Seq(EventOf \cup AnswerOf)
        /\ handlers \in Seq(EventOf \cup StartOf(Caller)) /\ woken \in Seq(AnswerOf) /\ keys \subseteq Buttons \cup {"finger"}
    BY <1>1
  <2>3. /\ device \in [control : BOOLEAN, level : Level, focused : BOOLEAN, session : BOOLEAN, awake : BOOLEAN]
        /\ known \in [control : BOOLEAN, level : Level, focused : BOOLEAN, awake : BOOLEAN]
    BY <1>1, <1>2
  <2> QED BY <2>1, <2>2, <2>3 DEF ControlTypes
<1>6. AtItsStage
  BY <1>3 DEF AtItsStage
<1>7. OneFrame
  BY <1>1, <1>4 DEF OneFrame, Once, Reaches
<1>8. \A D, v : ~ Has(<<>>, D) /\ LastSays(<<>>, D, v)
  BY <1>4 DEF Has, LastSays
<1>9. FlagsAgree /\ StatusAgree /\ LevelAgrees
  BY <1>1, <1>8 DEF FlagsAgree, StatusAgree, LevelAgrees, InTheEnd
<1>10. FocusAgrees
  BY <1>1, <1>4, <1>8 DEF FocusAgrees, InTheEnd
<1>11. KeysComeUp
  <2>1. Paired(<<>>) /\ OfAKind(<<>>)
    BY <1>4 DEF Paired, OfAKind
  <2> QED BY <1>1, <1>3, <1>4, <2>1 DEF KeysComeUp
<1>12. FingerComesUp
  <2>1. Settled(<<>>)
    BY <1>4 DEF Settled
  <2> QED BY <1>1, <2>1 DEF FingerComesUp
<1> QED BY <1>5, <1>6, <1>7, <1>9, <1>10, <1>11, <1>12 DEF ControlInv, CallInv, AgreeInv, KeyInv

(* Each step of the controls keeps what is on the way in line with what is   *)
(* so, and a call that will release it with each key that is down.           *)
LEMMA ControlsGoWell == ControlInv /\ ControlNext => ControlInv'
<1> SUFFICES ASSUME ControlInv, ControlNext PROVE ControlInv'
  OBVIOUS
<1>1. CallInv /\ AgreeInv /\ KeyInv
  BY DEF ControlInv
<1>2. ASSUME NEW c \in Caller, NEW p \in Programs, Calls(c, p) PROVE ControlInv'
  <2>1. UNCHANGED <<toDevice, toApi, handlers, woken, known, device, missed>>
    BY <1>2 DEF Calls, netVars
  <2>2. CallInv' /\ KeyInv'
    BY <1>1, <1>2, CallsCalls
  <2> QED BY <1>1, <2>1, <2>2, StillAgree DEF ControlInv
<1>3. ASSUME NEW c \in Caller, Does(c) PROVE ControlInv'
  BY <1>1, <1>3, DoesCalls, DoesAgree, DoesKeys, DoesFinger DEF ControlInv, KeyInv
<1>4. ASSUME NEW c \in Caller, WaitEnds(c) PROVE ControlInv'
  <2>1. UNCHANGED <<toDevice, toApi, handlers, woken, known, device, missed>>
    BY <1>4 DEF WaitEnds, netVars
  <2>2. CallInv' /\ KeyInv'
    BY <1>1, <1>4, WaitEndsCalls, WaitEndsKeys
  <2> QED BY <1>1, <2>1, <2>2, StillAgree DEF ControlInv
<1>5. ASSUME NEW c \in Caller, Fails(c) PROVE ControlInv'
  BY <1>1, <1>5, FailsCalls, FailsAgree, FailsKeys DEF ControlInv
<1>6. CASE DeviceHandles
  BY <1>1, <1>6, DeviceHandlesCalls, DeviceHandlesAgree, DeviceHandlesKeys DEF ControlInv
<1>7. CASE DeviceChanges
  <2>1. KeyInv'
    BY <1>1, <1>7, KeysStay DEF DeviceChanges, callVars
  <2> QED BY <1>1, <1>7, <2>1, DeviceChangesCalls, DeviceChangesAgree DEF ControlInv
<1>8. CASE Receives
  <2>1. KeyInv'
    BY <1>1, <1>8, KeysStay DEF Receives, callVars
  <2> QED BY <1>1, <1>8, <2>1, ReceivesCalls, ReceivesAgree DEF ControlInv
<1>9. CASE HandlerRuns
  BY <1>1, <1>9, HandlerRunsCalls, HandlerRunsAgree DEF ControlInv
<1>10. CASE Resumes
  BY <1>1, <1>10, ResumesCalls, ResumesAgree, ResumesKeys DEF ControlInv
<1>11. CASE HandlerFails
  BY <1>1, <1>11, HandlerFailsKeeps DEF ControlInv
<1> QED BY <1>2, <1>3, <1>4, <1>5, <1>6, <1>7, <1>8, <1>9, <1>10, <1>11 DEF ControlNext

(* Where the controls do not change, their invariant holds.                 *)
LEMMA ControlsRest == ControlInv /\ UNCHANGED controlVars => ControlInv'
<1> SUFFICES ASSUME ControlInv, UNCHANGED controlVars PROVE ControlInv'
  OBVIOUS
<1>1. UNCHANGED <<program, awaits, toDevice, toApi, handlers, woken, known, device, keys, left, missed>>
  BY DEF controlVars, callVars, netVars
<1>2. ControlTypes' /\ AtItsStage' /\ OneFrame'
  BY <1>1 DEF ControlInv, CallInv, ControlTypes, AtItsStage, Asks, OneFrame, ForHead
<1>3. AgreeInv'
  BY <1>1, StillAgree DEF ControlInv
<1>4. KeyInv'
  BY <1>1, KeysStay DEF ControlInv
<1> QED BY <1>2, <1>3, <1>4 DEF ControlInv, CallInv

(* When nothing is on the way, the last of what was said is what is known.   *)
LEMMA QuietTellsTheTruth == ControlInv => KnownIsTrue
<1> SUFFICES ASSUME ControlInv, Quiet
             PROVE  /\ known.control = device.control /\ known.awake = device.awake
                    /\ device.control => known.level = device.level \/ "level" \in missed
                    /\ device.session => known.focused = device.focused \/ "focus" \in missed
                    /\ (\A c \in Caller : program[c] = <<>>) => keys \subseteq left
  BY DEF KnownIsTrue
<1>1. toDevice = <<>> /\ toApi = <<>> /\ handlers = <<>> /\ woken = <<>>
  BY DEF Quiet
<1>2. FlagsAgree /\ StatusAgree /\ LevelAgrees /\ FocusAgrees /\ KeysComeUp /\ FingerComesUp
  BY DEF ControlInv, AgreeInv, KeyInv
<1>3. \A D : ~ Has(<<>>, D)
  BY DEF Has
<1>4. known.control = device.control /\ known.awake = device.awake
  BY <1>1, <1>2, <1>3 DEF FlagsAgree, StatusAgree, InTheEnd
<1>5. device.control => known.level = device.level \/ "level" \in missed
  BY <1>1, <1>2, <1>3 DEF LevelAgrees, LevelAsked, InTheEnd
<1>6. device.session => known.focused = device.focused \/ "focus" \in missed
  BY <1>1, <1>2, <1>3 DEF FocusAgrees, NotOvertaken, InTheEnd
<1>7. ASSUME \A c \in Caller : program[c] = <<>> PROVE keys \subseteq left
  <2>1. \A c \in Caller : \A k : ~ ToRelease(c, k)
    BY <1>7 DEF ToRelease
  <2>2. Range(<<>>) = {}
    BY DEF Range
  <2>3. "finger" \in left \/ "finger" \notin keys
    BY <1>1, <1>2, <1>3, <1>7, <2>2 DEF FingerComesUp
  <2> QED BY <1>2, <2>1, <2>3 DEF KeysComeUp
<1> QED BY <1>4, <1>5, <1>6, <1>7

(* When nothing is on the way and nobody has to run, what the interfaces of  *)
(* protocols/companion/__init__.py know of the device is so, in whatever     *)
(* order the event loop ran what the frames had started, and each key that   *)
(* is down was left by a call that failed.                                   *)
THEOREM WhatIsKnownIsTrue == CompanionSpec => []KnownIsTrue
<1>1. CompanionInit => ControlInv
  BY ControlsStartWell DEF CompanionInit
<1>2. ControlInv /\ [CompanionNext]_controlsOrConnection => ControlInv'
  <2> SUFFICES ASSUME ControlInv, [CompanionNext]_controlsOrConnection PROVE ControlInv'
    OBVIOUS
  <2>1. CASE CompanionNext
    BY <2>1, ControlsGoWell, ControlsRest DEF CompanionNext
  <2>2. CASE UNCHANGED controlsOrConnection
    BY <2>2, ControlsRest DEF controlsOrConnection
  <2> QED BY <2>1, <2>2
<1>3. ControlInv => KnownIsTrue
  BY QuietTellsTheTruth
<1> QED BY <1>1, <1>2, <1>3, PTL DEF CompanionSpec
=============================================================================

----------------------------- MODULE Wire_proofs -----------------------------
(***************************************************************************)
(* Theorems about atvproxy and the HTTP server, of the module Wire.        *)
(***************************************************************************)
EXTENDS Wire, FiniteSetTheorems, SequenceTheorems, WellFoundedInduction, TLAPS

(***************************************************************************)
(* Natural numbers: a set of them has a least one.                          *)
(***************************************************************************)
Less == {p \in Nat \X Nat : p[1] < p[2]}

LEMMA LessIsWellFounded == IsWellFoundedOn(Less, Nat)
<1>1. Less = OpToRel(<, Nat)
  BY DEF Less, OpToRel
<1> QED
  BY <1>1, NatLessThanWellFounded

LEMMA Least ==
    ASSUME NEW T \in SUBSET Nat, T # {}
    PROVE  \E x \in T : \A y \in T : x <= y
<1>1. PICK x \in T : \A y \in T : <<y, x>> \notin Less
  BY LessIsWellFounded, WFMin
<1>2. ASSUME NEW y \in T PROVE x <= y
  <2>1. <<y, x>> \notin Less
    BY <1>1
  <2>2. x \in Nat /\ y \in Nat
    OBVIOUS
  <2>3. ~ (y < x)
    BY <2>1, <2>2 DEF Less
  <2> QED BY <2>2, <2>3
<1> QED BY <1>2

(* And a greatest one if it is bounded.                                     *)
LEMMA Greatest ==
    ASSUME NEW n \in Nat, NEW T \in SUBSET (1..n), T # {}
    PROVE  \E x \in T : \A y \in T : y <= x
<1> DEFINE D == {d \in Nat : n - d \in T}
<1>1. PICK t \in T : TRUE
  OBVIOUS
<1>2. n - t \in D
  BY <1>1
<1>3. PICK d \in D : \A e \in D : d <= e
  BY <1>2, Least
<1>4. n - d \in T
  BY <1>3
<1>5. ASSUME NEW y \in T PROVE y <= n - d
  <2>1. n - y \in D
    OBVIOUS
  <2>2. d <= n - y
    BY <2>1, <1>3
  <2>3. d \in Nat /\ y \in Int
    BY <1>3
  <2> QED BY <2>2, <2>3
<1> QED BY <1>4, <1>5

(***************************************************************************)
(* The servers of the proxy for AirPlay.                                    *)
(***************************************************************************)
State == {"waits", "sent", "creates", "done", "failed"}
Asks == [path : Paths, channels : Seq(Channel)]

ProxyType ==
    /\ peer \in {"open", "closed"} /\ link \in {"none", "open", "closed"}
    /\ asked \in Seq(Asks)
    /\ handler \in Seq(State) /\ Len(handler) = Len(asked)
    /\ queue \in Seq(DOMAIN asked)
    /\ replies \in Seq(DOMAIN asked)
    /\ servers \in [Channel -> Nat]
    /\ open \subseteq (DOMAIN asked) \X Channel

(* A request that changes a channel is finished before the next one about   *)
(* it is made, and between two SETUPs of a channel there is a TEARDOWN.      *)
Finished(j) == IF IsTeardown(j) THEN handler[j] = "done" ELSE Contains(replies, j)
InTurn ==
    \A i, j \in DOMAIN asked : \A c \in About(i) \cap About(j) : i < j =>
        /\ Finished(i)
        /\ ~ IsTeardown(i) /\ ~ IsTeardown(j) => \E k \in (i + 1)..(j - 1) : IsTeardown(k) /\ c \in About(k)

(* What a server that listens is of: a SETUP that was not torn down, and no  *)
(* other server of its channel is known.                                     *)
Listens ==
    \A s \in open :
        /\ s[2] \in About(s[1]) /\ ~ IsTeardown(s[1])
        /\ servers[s[2]] = s[1]
        /\ handler[s[1]] \in {"creates", "done", "failed"}

CreatesSetup == \A i \in DOMAIN asked : handler[i] = "creates" => ~ IsTeardown(i)

Answered1 == \A i \in DOMAIN asked : Contains(replies, i) => handler[i] = "done"

AfterPeer ==
    peer = "closed" =>
        /\ link \in {"none", "open"} => DOMAIN asked \subseteq late
        /\ \A i \in DOMAIN asked : handler[i] = "creates" => i \in late

ServersInv ==
    ProxyType /\ InTurn /\ Listens /\ CreatesSetup /\ Answered1 /\ AfterPeer /\ ServersAreWanted

-----------------------------------------------------------------------------
(* The channels of a request are channels.                                  *)
LEMMA ChannelsAre == Channels \subseteq Seq(Channel)
<1>1. <<"event">> \in Seq(Channel)
  BY DEF Channel
<1>2. ASSUME NEW S \in SUBSET Stream PROVE SetToSeq(S) \in Seq(Channel)
  <2>1. IsFiniteSet(S)
    BY ProxyAssumption, FS_Subset
  <2>2. Cardinality(S) \in Nat /\ ExistsBijection(1..Cardinality(S), S)
    BY <2>1, FS_CardinalityType
  <2>3. \E f \in [1..Cardinality(S) -> S] : IsInjective(f)
    BY <2>2 DEF ExistsBijection, Bijection, Injection
  <2>4. SetToSeq(S) \in [1..Cardinality(S) -> S]
    BY <2>3 DEF SetToSeq
  <2>5. SetToSeq(S) \in Seq(S)
    BY <2>2, <2>4
  <2>6. S \subseteq Channel
    BY DEF Channel
  <2> QED BY <2>5, <2>6
<1> QED BY <1>1, <1>2 DEF Channels

LEMMA AboutIs ==
    ASSUME ProxyType, NEW i \in DOMAIN asked
    PROVE  /\ About(i) \subseteq Channel
           /\ \A n \in DOMAIN asked[i].channels : asked[i].channels[n] \in About(i)
           /\ asked[i].channels \in Seq(Channel)
<1>1. asked[i] \in Asks
  BY DEF ProxyType
<1>2. asked[i].channels \in Seq(Channel)
  BY <1>1 DEF Asks
<1> QED BY <1>2 DEF About, ToSet

(* What is done stays done, and what was answered stays answered.           *)
Later ==
    /\ asked' = asked
    /\ \A i \in DOMAIN asked : handler[i] = "done" => handler'[i] = "done"
    /\ \A i \in DOMAIN asked : Contains(replies, i) => Contains(replies', i)

LEMMA TurnsStay == ASSUME InTurn, Later PROVE InTurn'
BY DEF InTurn, Later, Finished, IsTeardown, About

(* One handler goes on.                                                     *)
LEMMA OneGoesOn ==
    ASSUME ProxyType, NEW i \in DOMAIN asked, NEW next \in State, handler[i] # "done",
           handler' = [handler EXCEPT ![i] = next]
    PROVE  /\ handler' \in Seq(State) /\ Len(handler') = Len(handler)
           /\ handler'[i] = next
           /\ \A j \in DOMAIN asked \ {i} : handler'[j] = handler[j]
           /\ \A j \in DOMAIN asked : handler[j] = "done" => handler'[j] = "done"
<1>1. handler \in Seq(State) /\ Len(handler) = Len(asked) /\ i \in 1..Len(handler) /\ asked \in Seq(Asks)
  BY DEF ProxyType
<1>2. handler' \in Seq(State) /\ Len(handler') = Len(handler)
  BY <1>1
<1> QED BY <1>1, <1>2

(* An answer more.                                                          *)
LEMMA OneIsAnswered ==
    ASSUME ProxyType, NEW i \in DOMAIN asked, Replies(i)
    PROVE  /\ replies' \in Seq(DOMAIN asked)
           /\ \A j \in DOMAIN asked : Contains(replies, j) => Contains(replies', j)
           /\ \A j \in DOMAIN asked : Contains(replies', j) => j = i \/ Contains(replies, j)
           /\ peer = "open" => Contains(replies', i)
<1>1. replies \in Seq(DOMAIN asked)
  BY DEF ProxyType
<1>2. CASE peer = "open"
  <2>1. replies' = Append(replies, i)
    BY <1>2 DEF Replies
  <2>2. replies' \in Seq(DOMAIN asked) /\ Len(replies') = Len(replies) + 1 /\ replies'[Len(replies) + 1] = i
        /\ \A n \in 1..Len(replies) : replies'[n] = replies[n]
    BY <1>1, <2>1
  <2>3. Len(replies) \in Nat
    BY <1>1
  <2>4. ASSUME NEW j, Contains(replies, j) PROVE Contains(replies', j)
    <3>1. PICK n \in 1..Len(replies) : replies[n] = j
      BY <2>4 DEF Contains
    <3>2. n \in 1..Len(replies') /\ replies'[n] = j
      BY <3>1, <2>2, <2>3
    <3> QED BY <3>2 DEF Contains
  <2>5. ASSUME NEW j, Contains(replies', j) PROVE j = i \/ Contains(replies, j)
    <3>1. PICK n \in 1..Len(replies') : replies'[n] = j
      BY <2>5 DEF Contains
    <3>2. n \in 1..Len(replies) \/ n = Len(replies) + 1
      BY <2>2, <2>3
    <3> QED BY <3>1, <3>2, <2>2 DEF Contains
  <2>6. Contains(replies', i)
    <3>1. Len(replies) + 1 \in 1..Len(replies')
      BY <2>2, <2>3
    <3> QED BY <3>1, <2>2 DEF Contains
  <2> QED BY <2>2, <2>4, <2>5, <2>6
<1>3. CASE peer # "open"
  <2>1. replies' = replies
    BY <1>3 DEF Replies
  <2> QED BY <1>1, <1>3, <2>1
<1> QED BY <1>2, <1>3

-----------------------------------------------------------------------------
(* A TEARDOWN closes the servers of its channels, all of them.              *)
LEMMA TeardownKeeps ==
    ASSUME ServersInv, NEW i \in DOMAIN asked, IsTeardown(i), handler[i] \in {"waits", "sent"},
           Done(i), Destroys(i), asked' = asked, peer' = peer, link' = link, late' = late,
           queue' \in Seq(DOMAIN asked), Replies(i) \/ replies' = replies
    PROVE  ServersInv'
<1>1. ProxyType /\ InTurn /\ Listens /\ CreatesSetup /\ Answered1 /\ AfterPeer /\ ServersAreWanted
  BY DEF ServersInv
<1>2. /\ handler' \in Seq(State) /\ Len(handler') = Len(handler)
      /\ handler'[i] = "done"
      /\ \A j \in DOMAIN asked \ {i} : handler'[j] = handler[j]
      /\ \A j \in DOMAIN asked : handler[j] = "done" => handler'[j] = "done"
  BY <1>1, OneGoesOn DEF Done, State
<1>3. /\ replies' \in Seq(DOMAIN asked)
      /\ \A j \in DOMAIN asked : Contains(replies, j) => Contains(replies', j)
      /\ \A j \in DOMAIN asked : Contains(replies', j) => j = i \/ Contains(replies, j)
  <2>1. CASE Replies(i)
    BY <1>1, <2>1, OneIsAnswered
  <2>2. CASE replies' = replies
    BY <1>1, <2>2 DEF ProxyType
  <2> QED BY <2>1, <2>2
<1>4. /\ open' = {s \in open : s[2] \notin About(i) \/ servers[s[2]] # s[1]}
      /\ servers' = [c \in Channel |-> IF c \in About(i) THEN 0 ELSE servers[c]]
  BY DEF Destroys
<1>5. open' = {s \in open : s[2] \notin About(i)}
  BY <1>1, <1>4 DEF Listens
<1>6. ProxyType'
  <2>1. servers' \in [Channel -> Nat]
    BY <1>1, <1>4 DEF ProxyType
  <2> QED BY <1>1, <1>2, <1>3, <1>5, <2>1 DEF ProxyType
<1>7. InTurn'
  BY <1>1, <1>2, <1>3, TurnsStay DEF Later
<1>8. Listens'
  <2>1. ASSUME NEW s \in open'
        PROVE /\ s[2] \in About(s[1]) /\ ~ IsTeardown(s[1])
              /\ servers'[s[2]] = s[1]
              /\ handler'[s[1]] \in {"creates", "done", "failed"}
    <3>1. s \in open /\ s[2] \notin About(i) /\ s[1] \in DOMAIN asked /\ s[2] \in Channel
      BY <1>1, <1>5 DEF ProxyType
    <3>2. s[2] \in About(s[1]) /\ ~ IsTeardown(s[1]) /\ servers[s[2]] = s[1]
          /\ handler[s[1]] \in {"creates", "done", "failed"}
      BY <1>1, <3>1 DEF Listens
    <3>3. s[1] # i
      BY <3>2
    <3>4. handler'[s[1]] = handler[s[1]]
      BY <1>2, <3>1, <3>3
    <3> QED BY <1>4, <3>1, <3>2, <3>4
  <2> QED BY <2>1 DEF Listens, About, IsTeardown
<1>9. CreatesSetup' /\ Answered1' /\ AfterPeer'
  <2>1. CreatesSetup'
    BY <1>1, <1>2 DEF CreatesSetup, IsTeardown
  <2>2. Answered1'
    BY <1>1, <1>2, <1>3 DEF Answered1
  <2>3. AfterPeer'
    BY <1>1, <1>2 DEF AfterPeer
  <2> QED BY <2>1, <2>2, <2>3
<1>10. ServersAreWanted'
  <2>1. ASSUME NEW s \in open', NEW j \in (s[1] + 1)..Len(asked), IsTeardown(j), s[2] \in About(j)
        PROVE  handler'[j] # "done"
    <3>1. s \in open /\ s[2] \notin About(i)
      BY <1>5
    <3>2. j # i /\ j \in DOMAIN asked
      <4>1. s[1] \in Nat
        BY <3>1, <1>1 DEF ProxyType
      <4> QED BY <2>1, <3>1, <4>1, <1>1 DEF ProxyType
    <3>3. handler[j] # "done"
      BY <1>1, <2>1, <3>1 DEF ServersAreWanted
    <3> QED BY <1>2, <3>2, <3>3
  <2>2. ASSUME NEW s \in open'
        PROVE  IF peer = "open" THEN Contains(replies', s[1]) \/ handler'[s[1]] \in {"creates", "failed"}
               ELSE s[1] \in late
    <3>1. s \in open /\ s[1] \in DOMAIN asked /\ s[1] # i
      <4>1. s \in open /\ s[2] \notin About(i)
        BY <1>5
      <4>2. s[1] \in DOMAIN asked /\ s[2] \in About(s[1])
        BY <4>1, <1>1 DEF ProxyType, Listens
      <4> QED BY <4>1, <4>2
    <3>2. IF peer = "open" THEN Contains(replies, s[1]) \/ handler[s[1]] \in {"creates", "failed"}
          ELSE s[1] \in late
      BY <1>1, <3>1 DEF ServersAreWanted
    <3> QED BY <3>1, <3>2, <1>2, <1>3
  <2> QED BY <2>1, <2>2 DEF ServersAreWanted, About, IsTeardown
<1> QED BY <1>6, <1>7, <1>8, <1>9, <1>10 DEF ServersInv

(* A handler goes on without a change of the servers.                       *)
LEMMA HandlerKeeps ==
    ASSUME ServersInv, NEW i \in DOMAIN asked, NEW next \in State,
           handler[i] \in {"waits", "sent"} \/ (handler[i] = "creates" /\ next = "failed"),
           handler' = [handler EXCEPT ![i] = next],
           next = "creates" => ~ IsTeardown(i) /\ link = "open",
           IsTeardown(i) => next # "done",
           asked' = asked, peer' = peer, link' = link, late' = late, servers' = servers, open' = open,
           queue' \in Seq(DOMAIN asked), (Replies(i) /\ next = "done") \/ replies' = replies
    PROVE  ServersInv'
<1>1. ProxyType /\ InTurn /\ Listens /\ CreatesSetup /\ Answered1 /\ AfterPeer /\ ServersAreWanted
  BY DEF ServersInv
<1>2. /\ handler' \in Seq(State) /\ Len(handler') = Len(handler)
      /\ handler'[i] = next
      /\ \A j \in DOMAIN asked \ {i} : handler'[j] = handler[j]
      /\ \A j \in DOMAIN asked : handler[j] = "done" => handler'[j] = "done"
  BY <1>1, OneGoesOn
<1>3. /\ replies' \in Seq(DOMAIN asked)
      /\ \A j \in DOMAIN asked : Contains(replies, j) => Contains(replies', j)
      /\ \A j \in DOMAIN asked : Contains(replies', j) => (j = i /\ next = "done") \/ Contains(replies, j)
  <2>1. CASE Replies(i) /\ next = "done"
    BY <1>1, <2>1, OneIsAnswered
  <2>2. CASE replies' = replies
    BY <1>1, <2>2 DEF ProxyType
  <2> QED BY <2>1, <2>2
<1>6. ProxyType'
  BY <1>1, <1>2, <1>3 DEF ProxyType
<1>7. InTurn'
  BY <1>1, <1>2, <1>3, TurnsStay DEF Later
<1>8. Listens'
  <2>1. ASSUME NEW s \in open PROVE handler'[s[1]] \in {"creates", "done", "failed"}
    <3>1. s[1] \in DOMAIN asked /\ handler[s[1]] \in {"creates", "done", "failed"}
      BY <1>1 DEF ProxyType, Listens
    <3> QED BY <3>1, <1>2
  <2> QED BY <1>1, <2>1 DEF Listens, About, IsTeardown
<1>9. CreatesSetup' /\ Answered1' /\ AfterPeer'
  <2>1. CreatesSetup'
    BY <1>1, <1>2 DEF CreatesSetup, IsTeardown
  <2>2. Answered1'
    BY <1>1, <1>2, <1>3 DEF Answered1
  <2>3. AfterPeer'
    BY <1>1, <1>2 DEF AfterPeer
  <2> QED BY <2>1, <2>2, <2>3
<1>10. ServersAreWanted'
  <2>1. ASSUME NEW s \in open, NEW j \in (s[1] + 1)..Len(asked), IsTeardown(j), s[2] \in About(j)
        PROVE  handler'[j] # "done"
    <3>1. s[1] \in Nat
      BY <1>1 DEF ProxyType
    <3>2. j \in DOMAIN asked /\ handler[j] # "done"
      BY <3>1, <1>1, <2>1 DEF ServersAreWanted, ProxyType
    <3> QED BY <1>2, <2>1, <3>2
  <2>2. ASSUME NEW s \in open
        PROVE  IF peer = "open" THEN Contains(replies', s[1]) \/ handler'[s[1]] \in {"creates", "failed"}
               ELSE s[1] \in late
    <3>1. s[1] \in DOMAIN asked
      BY <1>1 DEF ProxyType
    <3>2. IF peer = "open" THEN Contains(replies, s[1]) \/ handler[s[1]] \in {"creates", "failed"}
          ELSE s[1] \in late
      BY <1>1 DEF ServersAreWanted
    <3>3. handler[s[1]] \in {"creates", "failed"} => handler'[s[1]] \in {"creates", "failed"}
      <4>1. CASE s[1] = i
        BY <4>1, <1>2
      <4>2. CASE s[1] # i
        BY <4>2, <3>1, <1>2
      <4> QED BY <4>1, <4>2
    <3> QED BY <3>1, <3>2, <3>3, <1>3
  <2> QED BY <2>1, <2>2 DEF ServersAreWanted, About, IsTeardown
<1> QED BY <1>6, <1>7, <1>8, <1>9, <1>10 DEF ServersInv

-----------------------------------------------------------------------------
(* The steps.                                                               *)
LEMMA RequestKeeps ==
    ASSUME ServersInv, NEW r \in [path : Paths, channels : Channels \cup {<<>>}], Requests(r)
    PROVE  ServersInv'
<1>1. ProxyType /\ InTurn /\ Listens /\ CreatesSetup /\ Answered1 /\ AfterPeer /\ ServersAreWanted
  BY DEF ServersInv
<1>0. PICK n \in Nat : n = Len(asked) + 1
  <2>1. Len(asked) \in Nat
    BY <1>1 DEF ProxyType
  <2> QED BY <2>1
<1> DEFINE state == IF r.path = "/auth-setup" THEN "done" ELSE "waits"
<1>2. r \in Asks /\ Len(asked) \in Nat /\ asked \in Seq(Asks) /\ handler \in Seq(State) /\ Len(handler) = Len(asked)
      /\ replies \in Seq(DOMAIN asked) /\ state \in State
  <2>1. r.channels \in Seq(Channel)
    <3>1. CASE r.channels = <<>>
      BY <3>1
    <3>2. CASE r.channels \in Channels
      BY <3>2, ChannelsAre
    <3> QED BY <3>1, <3>2
  <2> QED BY <1>1, <2>1 DEF ProxyType, Asks, State
<1>3. /\ asked' = Append(asked, r) /\ handler' = Append(handler, state)
      /\ replies' = (IF r.path = "/auth-setup" THEN Append(replies, n) ELSE replies)
      /\ peer = "open" /\ UNCHANGED <<start, peer, link, queue, servers, open, late>>
      /\ r.path \in {"SETUP", "TEARDOWN"} <=> r.channels # <<>>
      /\ \A c \in ToSet(r.channels) : May(r.path, c)
  BY <1>0 DEF Requests
<1> HIDE DEF state
<1>4. /\ asked' \in Seq(Asks) /\ Len(asked') = n /\ asked'[n] = r
      /\ \A i \in DOMAIN asked : asked'[i] = asked[i]
      /\ handler' \in Seq(State) /\ Len(handler') = n /\ handler'[n] = state
      /\ \A i \in DOMAIN asked : handler'[i] = handler[i]
      /\ DOMAIN asked = 1..Len(asked) /\ DOMAIN asked' = 1..n /\ n = Len(asked) + 1
  BY <1>0, <1>2, <1>3
<1>5. /\ replies' \in Seq(DOMAIN asked')
      /\ \A j : Contains(replies, j) => Contains(replies', j)
      /\ \A j : Contains(replies', j) => (j = n /\ state = "done") \/ Contains(replies, j)
  <2>1. CASE r.path = "/auth-setup"
    <3>1. replies' = Append(replies, n) /\ replies \in Seq(1..n) /\ n \in 1..n
      BY <1>2, <1>3, <1>4, <2>1
    <3>2. replies' \in Seq(1..n) /\ Len(replies') = Len(replies) + 1 /\ replies'[Len(replies) + 1] = n
          /\ \A m \in 1..Len(replies) : replies'[m] = replies[m]
      BY <3>1
    <3>3. Len(replies) \in Nat
      BY <1>2
    <3>4. ASSUME NEW j, Contains(replies, j) PROVE Contains(replies', j)
      <4>1. PICK m \in 1..Len(replies) : replies[m] = j
        BY <3>4 DEF Contains
      <4>2. m \in 1..Len(replies') /\ replies'[m] = j
        BY <4>1, <3>2, <3>3
      <4> QED BY <4>2 DEF Contains
    <3>5. ASSUME NEW j, Contains(replies', j) PROVE j = n \/ Contains(replies, j)
      <4>1. PICK m \in 1..Len(replies') : replies'[m] = j
        BY <3>5 DEF Contains
      <4>2. m \in 1..Len(replies) \/ m = Len(replies) + 1
        BY <3>2, <3>3
      <4> QED BY <4>1, <4>2, <3>2 DEF Contains
    <3>6. state = "done"
      BY <2>1 DEF state
    <3> QED BY <1>4, <3>2, <3>4, <3>5, <3>6
  <2>2. CASE r.path # "/auth-setup"
    <3>1. replies' = replies
      BY <1>3, <2>2
    <3>2. replies \in Seq(DOMAIN asked')
      BY <1>2, <1>4
    <3> QED BY <3>1, <3>2
  <2> QED BY <2>1, <2>2
<1>6. /\ \A i \in DOMAIN asked : About(i)' = About(i) /\ (IsTeardown(i)' <=> IsTeardown(i))
      /\ About(n)' = ToSet(r.channels) /\ (IsTeardown(n)' <=> r.path = "TEARDOWN")
  BY <1>4 DEF About, IsTeardown
<1>7. ProxyType'
  <2>1. DOMAIN asked \subseteq DOMAIN asked'
    BY <1>2, <1>4
  <2>2. queue \in Seq(DOMAIN asked')
    <3>1. queue \in Seq(DOMAIN asked)
      BY <1>1 DEF ProxyType
    <3> QED BY <2>1, <3>1, SeqMonotonic
  <2>3. open \subseteq (DOMAIN asked') \X Channel
    BY <1>1, <2>1 DEF ProxyType
  <2> QED BY <1>1, <1>3, <1>4, <1>5, <2>2, <2>3 DEF ProxyType
<1>8. InTurn'
  <2>1. ASSUME NEW i \in DOMAIN asked, Finished(i) PROVE Finished(i)'
    BY <2>1, <1>4, <1>5 DEF Finished, IsTeardown
  <2>2. ASSUME NEW i \in DOMAIN asked, NEW c \in About(i), c \in ToSet(r.channels)
        PROVE  /\ Finished(i)
               /\ ~ IsTeardown(i) /\ r.path # "TEARDOWN" => \E k \in (i + 1)..(n - 1) : IsTeardown(k) /\ c \in About(k)
    <3>1. i \in {j \in DOMAIN asked : c \in About(j)}
      BY <2>2
    <3>2. PICK g \in {j \in DOMAIN asked : c \in About(j)} : \A j \in DOMAIN asked : c \in About(j) => j <= g
      <4>1. {j \in DOMAIN asked : c \in About(j)} \in SUBSET (1..Len(asked))
        BY <1>4
      <4>2. \E x \in {j \in DOMAIN asked : c \in About(j)} : \A y \in {j \in DOMAIN asked : c \in About(j)} : y <= x
        BY <4>1, <3>1, <1>2, Greatest
      <4> QED BY <4>2
    <3>3. LastOf(c) = {g}
      <4>1. g \in LastOf(c)
        BY <3>2 DEF LastOf
      <4>2. ASSUME NEW h \in LastOf(c) PROVE h = g
        <5>1. h \in DOMAIN asked /\ c \in About(h) /\ g <= h
          BY <3>2, <4>2 DEF LastOf
        <5>2. h <= g
          BY <3>2, <5>1
        <5> QED BY <5>1, <5>2, <1>4
      <4> QED BY <4>1, <4>2
    <3>4. r.path \in {"SETUP", "TEARDOWN"}
      <4>1. r.channels # <<>>
        BY <2>2 DEF ToSet
      <4> QED BY <1>3, <4>1
    <3>5. Finished(g) /\ (r.path = "SETUP" => IsTeardown(g))
      <4>1. May(r.path, c)
        BY <1>3, <2>2
      <4>2. CASE r.path = "SETUP"
        BY <4>1, <4>2, <3>3 DEF May, Finished
      <4>3. CASE r.path = "TEARDOWN"
        BY <4>1, <4>3, <3>3 DEF May, Finished, IsTeardown
      <4> QED BY <4>2, <4>3, <3>4
    <3>6. i <= g /\ g \in DOMAIN asked /\ c \in About(g)
      BY <3>1, <3>2
    <3>7. CASE i = g
      BY <3>4, <3>5, <3>7
    <3>8. CASE i < g
      <4>1. Finished(i)
        BY <1>1, <2>2, <3>6, <3>8 DEF InTurn
      <4>2. r.path = "SETUP" => g \in (i + 1)..(n - 1) /\ IsTeardown(g)
        BY <1>2, <1>4, <3>5, <3>6, <3>8
      <4> QED BY <3>4, <3>6, <4>1, <4>2
    <3> QED BY <3>6, <3>7, <3>8, <1>4
  <2>3. ASSUME NEW i \in DOMAIN asked', NEW j \in DOMAIN asked', NEW c \in About(i)' \cap About(j)', i < j
        PROVE  /\ Finished(i)'
               /\ ~ IsTeardown(i)' /\ ~ IsTeardown(j)' => \E k \in (i + 1)..(j - 1) : IsTeardown(k)' /\ c \in About(k)'
    <3>1. i \in DOMAIN asked
      BY <2>3, <1>2, <1>4
    <3>2. c \in About(i) /\ c \in About(j)'
      BY <2>3, <3>1, <1>6
    <3>3. CASE j = n
      <4>1. c \in ToSet(r.channels)
        BY <3>2, <3>3, <1>6
      <4>2. /\ Finished(i)
            /\ ~ IsTeardown(i) /\ r.path # "TEARDOWN" => \E k \in (i + 1)..(n - 1) : IsTeardown(k) /\ c \in About(k)
        BY <3>1, <3>2, <4>1, <2>2
      <4>3. \A k \in (i + 1)..(n - 1) : k \in DOMAIN asked
        BY <1>2, <1>4, <3>1
      <4> QED BY <2>1, <3>1, <3>3, <4>2, <4>3, <1>6
    <3>4. CASE j # n
      <4>1. j \in DOMAIN asked
        BY <3>4, <1>2, <1>4
      <4>2. c \in About(i) \cap About(j)
        BY <3>2, <4>1, <1>6
      <4>3. /\ Finished(i)
            /\ ~ IsTeardown(i) /\ ~ IsTeardown(j) => \E k \in (i + 1)..(j - 1) : IsTeardown(k) /\ c \in About(k)
        BY <1>1, <2>3, <3>1, <4>1, <4>2 DEF InTurn
      <4>4. \A k \in (i + 1)..(j - 1) : k \in DOMAIN asked
        BY <1>2, <1>4, <3>1, <4>1
      <4> QED BY <2>1, <3>1, <4>1, <4>3, <4>4, <1>6
    <3> QED BY <3>3, <3>4
  <2> QED BY <2>3 DEF InTurn
<1>9. Listens'
  <2>1. ASSUME NEW s \in open
        PROVE /\ s[2] \in About(s[1])' /\ ~ IsTeardown(s[1])'
              /\ servers[s[2]] = s[1]
              /\ handler'[s[1]] \in {"creates", "done", "failed"}
    <3>1. s[1] \in DOMAIN asked
      BY <1>1 DEF ProxyType
    <3> QED BY <1>1, <1>4, <1>6, <3>1 DEF Listens
  <2> QED BY <1>3, <2>1 DEF Listens
<1>10. CreatesSetup' /\ Answered1' /\ AfterPeer'
  <2>1. n \notin DOMAIN asked
    BY <1>2, <1>4
  <2>2. state # "creates"
    BY DEF state
  <2>3. \A i \in DOMAIN asked' : i \in DOMAIN asked \/ i = n
    BY <1>2, <1>4
  <2>4. CreatesSetup'
    BY <1>1, <1>4, <1>6, <2>2, <2>3 DEF CreatesSetup
  <2>5. Answered1'
    <3>1. ASSUME NEW i \in DOMAIN asked', Contains(replies', i) PROVE handler'[i] = "done"
      <4>1. CASE i = n
        <5>1. ~ Contains(replies, n)
          <6>1. \A m \in 1..Len(replies) : replies[m] \in DOMAIN asked
            BY <1>2
          <6> QED BY <6>1, <2>1 DEF Contains
        <5> QED BY <3>1, <4>1, <5>1, <1>4, <1>5
      <4>2. CASE i \in DOMAIN asked
        <5>1. Contains(replies, i)
          BY <3>1, <4>2, <1>5, <2>1
        <5> QED BY <1>1, <1>4, <4>2, <5>1 DEF Answered1
      <4> QED BY <2>3, <4>1, <4>2
    <3> QED BY <3>1 DEF Answered1
  <2>6. AfterPeer'
    BY <1>3 DEF AfterPeer
  <2> QED BY <2>4, <2>5, <2>6
<1>11. ServersAreWanted'
  <2>1. ASSUME NEW s \in open, NEW j \in (s[1] + 1)..n, IsTeardown(j)', s[2] \in About(j)'
        PROVE  handler'[j] # "done"
    <3>1. s[1] \in Nat
      BY <1>1 DEF ProxyType
    <3>2. CASE j = n
      <4>1. r.path = "TEARDOWN"
        BY <2>1, <3>2, <1>6
      <4>2. handler'[n] = "waits"
        BY <4>1, <1>4 DEF state
      <4> QED BY <3>2, <4>2
    <3>3. CASE j # n
      <4>1. j \in (s[1] + 1)..Len(asked) /\ j \in DOMAIN asked
        BY <3>1, <3>3, <1>2, <1>4
      <4>2. handler[j] # "done"
        BY <1>1, <1>6, <2>1, <4>1 DEF ServersAreWanted
      <4> QED BY <1>4, <4>1, <4>2
    <3> QED BY <3>2, <3>3
  <2>2. ASSUME NEW s \in open
        PROVE  Contains(replies', s[1]) \/ handler'[s[1]] \in {"creates", "failed"}
    <3>1. s[1] \in DOMAIN asked
      BY <1>1 DEF ProxyType
    <3>2. Contains(replies, s[1]) \/ handler[s[1]] \in {"creates", "failed"}
      BY <1>1, <1>3 DEF ServersAreWanted
    <3> QED BY <3>1, <3>2, <1>4, <1>5
  <2> QED BY <1>3, <1>4, <2>1, <2>2 DEF ServersAreWanted
<1> QED BY <1>7, <1>8, <1>9, <1>10, <1>11 DEF ServersInv

LEMMA CreatesKeeps ==
    ASSUME ServersInv, NEW i \in DOMAIN asked, CreatesServer(i)
    PROVE  ServersInv'
<1>1. ProxyType /\ InTurn /\ Listens /\ CreatesSetup /\ Answered1 /\ AfterPeer /\ ServersAreWanted
  BY DEF ServersInv
<1> DEFINE cs == asked[i].channels
<1>2. PICK n \in DOMAIN cs :
        /\ open' = open \cup {<<i, cs[n]>>} /\ servers' = [servers EXCEPT ![cs[n]] = i]
        /\ (Done(i) /\ Replies(i)) \/ UNCHANGED <<handler, replies>>
  BY Zenon DEF CreatesServer
<1> DEFINE c == cs[n]
<1>3. handler[i] = "creates" /\ UNCHANGED <<start, peer, link, asked, queue, late>> /\ ~ IsTeardown(i)
  BY <1>1 DEF CreatesServer, CreatesSetup
<1>4. c \in About(i) /\ c \in Channel
  BY <1>1, AboutIs
<1> HIDE DEF c
<1>5. /\ handler' \in Seq(State) /\ Len(handler') = Len(handler)
      /\ handler'[i] \in {"creates", "done"}
      /\ \A j \in DOMAIN asked \ {i} : handler'[j] = handler[j]
      /\ \A j \in DOMAIN asked : handler[j] = "done" => handler'[j] = "done"
      /\ replies' \in Seq(DOMAIN asked)
      /\ \A j \in DOMAIN asked : Contains(replies, j) => Contains(replies', j)
      /\ \A j \in DOMAIN asked : Contains(replies', j) => (j = i /\ handler'[i] = "done") \/ Contains(replies, j)
      /\ peer = "open" /\ handler'[i] = "done" => Contains(replies', i)
  <2>1. CASE Done(i) /\ Replies(i)
    <3>1. /\ handler' \in Seq(State) /\ Len(handler') = Len(handler)
          /\ handler'[i] = "done"
          /\ \A j \in DOMAIN asked \ {i} : handler'[j] = handler[j]
          /\ \A j \in DOMAIN asked : handler[j] = "done" => handler'[j] = "done"
      BY <1>1, <1>3, <2>1, OneGoesOn DEF Done, State
    <3> QED BY <1>1, <2>1, <3>1, OneIsAnswered
  <2>2. CASE UNCHANGED <<handler, replies>>
    BY <1>1, <1>3, <2>2 DEF ProxyType
  <2> QED BY <1>2, <2>1, <2>2
<1>6. servers' \in [Channel -> Nat] /\ servers'[c] = i /\ \A d \in Channel \ {c} : servers'[d] = servers[d]
  BY <1>1, <1>2, <1>4 DEF ProxyType, c
<1>7. open' = open \cup {<<i, c>>}
  BY <1>2 DEF c
<1>8. ProxyType'
  <2>1. open' \subseteq (DOMAIN asked) \X Channel
    BY <1>1, <1>4, <1>7 DEF ProxyType
  <2> QED BY <1>1, <1>3, <1>5, <1>6, <2>1 DEF ProxyType
<1>9. InTurn'
  BY <1>1, <1>3, <1>5, TurnsStay DEF Later
<1>10. ~ Finished(i) /\ \A j \in DOMAIN asked : i < j => c \notin About(j)
  <2>1. ~ Finished(i)
    BY <1>1, <1>3 DEF Finished, Answered1
  <2> QED BY <1>1, <1>4, <2>1 DEF InTurn
<1>11. ASSUME NEW k, <<k, c>> \in open PROVE k = i
  <2>1. k \in DOMAIN asked /\ k \in Int /\ i \in Int /\ Len(asked) \in Nat /\ DOMAIN asked = 1..Len(asked)
    BY <1>1, <1>11 DEF ProxyType
  <2>2. c \in About(k) /\ ~ IsTeardown(k)
    BY <1>1, <1>11 DEF Listens
  <2>3. ~ (i < k)
    BY <1>10, <2>1, <2>2
  <2>4. ASSUME k < i PROVE FALSE
    <3>1. PICK j \in (k + 1)..(i - 1) : IsTeardown(j) /\ c \in About(j)
      BY <1>1, <1>3, <1>4, <2>1, <2>2, <2>4 DEF InTurn
    <3>2. j \in DOMAIN asked /\ j < i /\ j \in (k + 1)..Len(asked)
      BY <2>1, <3>1
    <3>3. handler[j] = "done"
      <4>1. Finished(j)
        BY <1>1, <1>4, <3>1, <3>2 DEF InTurn
      <4> QED BY <3>1, <4>1 DEF Finished
    <3>4. handler[j] # "done"
      BY <1>1, <1>11, <3>1, <3>2 DEF ServersAreWanted
    <3> QED BY <3>3, <3>4
  <2> QED BY <2>1, <2>3, <2>4
<1>12. Listens'
  <2>1. ASSUME NEW s \in open'
        PROVE /\ s[2] \in About(s[1]) /\ ~ IsTeardown(s[1])
              /\ servers'[s[2]] = s[1]
              /\ handler'[s[1]] \in {"creates", "done", "failed"}
    <3>1. CASE s = <<i, c>>
      BY <1>3, <1>4, <1>5, <1>6, <3>1
    <3>2. CASE s \in open
      <4>1. s[1] \in DOMAIN asked /\ s[2] \in Channel /\ s = <<s[1], s[2]>>
        BY <1>1, <3>2 DEF ProxyType
      <4>2. /\ s[2] \in About(s[1]) /\ ~ IsTeardown(s[1]) /\ servers[s[2]] = s[1]
            /\ handler[s[1]] \in {"creates", "done", "failed"}
        BY <1>1, <3>2 DEF Listens
      <4>3. servers'[s[2]] = s[1]
        <5>1. CASE s[2] = c
          BY <1>6, <1>11, <3>2, <4>1, <5>1
        <5>2. CASE s[2] # c
          BY <1>6, <4>1, <4>2, <5>2
        <5> QED BY <5>1, <5>2
      <4>4. handler'[s[1]] \in {"creates", "done", "failed"}
        BY <1>5, <4>1, <4>2
      <4> QED BY <4>2, <4>3, <4>4
    <3> QED BY <1>7, <3>1, <3>2
  <2> QED BY <1>3, <2>1 DEF Listens, About, IsTeardown
<1>13. CreatesSetup' /\ Answered1' /\ AfterPeer'
  <2>1. CreatesSetup'
    BY <1>1, <1>3, <1>5 DEF CreatesSetup, IsTeardown
  <2>2. Answered1'
    BY <1>1, <1>3, <1>5 DEF Answered1
  <2>3. AfterPeer'
    BY <1>1, <1>3, <1>5 DEF AfterPeer
  <2> QED BY <2>1, <2>2, <2>3
<1>14. ServersAreWanted'
  <2>1. ASSUME NEW s \in open', NEW j \in (s[1] + 1)..Len(asked), IsTeardown(j), s[2] \in About(j)
        PROVE  handler'[j] # "done"
    <3>1. CASE s = <<i, c>>
      <4>1. j \in DOMAIN asked /\ i < j
        BY <2>1, <3>1, <1>1 DEF ProxyType
      <4> QED BY <1>10, <2>1, <3>1, <4>1
    <3>2. CASE s \in open
      <4>1. s[1] \in Nat
        BY <1>1, <3>2 DEF ProxyType
      <4>2. j \in DOMAIN asked /\ handler[j] # "done"
        BY <4>1, <1>1, <2>1, <3>2 DEF ServersAreWanted, ProxyType
      <4>3. j # i
        BY <2>1, <1>3
      <4> QED BY <1>5, <4>2, <4>3
    <3> QED BY <1>7, <3>1, <3>2
  <2>2. ASSUME NEW s \in open'
        PROVE  IF peer = "open" THEN Contains(replies', s[1]) \/ handler'[s[1]] \in {"creates", "failed"}
               ELSE s[1] \in late
    <3>1. CASE s = <<i, c>>
      <4>1. peer # "open" => i \in late
        BY <1>1, <1>3 DEF AfterPeer, ProxyType
      <4> QED BY <3>1, <4>1, <1>5
    <3>2. CASE s \in open
      <4>1. s[1] \in DOMAIN asked
        BY <1>1, <3>2 DEF ProxyType
      <4>2. IF peer = "open" THEN Contains(replies, s[1]) \/ handler[s[1]] \in {"creates", "failed"}
            ELSE s[1] \in late
        BY <1>1, <3>2 DEF ServersAreWanted
      <4>3. CASE peer = "open"
        <5>1. CASE s[1] = i
          BY <1>5, <4>3, <5>1
        <5>2. CASE s[1] # i
          BY <1>5, <4>1, <4>2, <4>3, <5>2
        <5> QED BY <5>1, <5>2
      <4>4. CASE peer # "open"
        BY <4>2, <4>4
      <4> QED BY <4>3, <4>4
    <3> QED BY <1>7, <3>1, <3>2
  <2> QED BY <1>3, <2>1, <2>2 DEF ServersAreWanted, About, IsTeardown
<1> QED BY <1>8, <1>9, <1>12, <1>13, <1>14 DEF ServersInv

-----------------------------------------------------------------------------
(* A handler is asked of the client, and what is sent stays a queue.        *)
LEMMA QueueIs ==
    ASSUME ProxyType
    PROVE  /\ \A i \in DOMAIN asked : Append(queue, i) \in Seq(DOMAIN asked)
           /\ queue # <<>> => Head(queue) \in DOMAIN asked /\ Tail(queue) \in Seq(DOMAIN asked)
<1>1. queue \in Seq(DOMAIN asked)
  BY DEF ProxyType
<1> QED BY <1>1, HeadTailProperties

LEMMA SendKeeps ==
    ASSUME ServersInv, NEW i \in DOMAIN asked, SendToAtv(i)
    PROVE  ServersInv'
<1>1. ProxyType
  BY DEF ServersInv
<1>2. handler[i] = "waits" /\ UNCHANGED <<start, peer, link, asked, replies, late>>
  BY DEF SendToAtv
<1>3. CASE link = "open"
  <2>1. /\ handler' = [handler EXCEPT ![i] = "sent"] /\ queue' = Append(queue, i)
        /\ UNCHANGED <<servers, open>>
    BY <1>3 DEF SendToAtv
  <2>2. queue' \in Seq(DOMAIN asked)
    BY <1>1, <2>1, QueueIs
  <2>3. "sent" \in State /\ "sent" # "creates" /\ "sent" # "done"
    BY DEF State
  <2>4. /\ asked' = asked /\ peer' = peer /\ link' = link /\ late' = late
        /\ servers' = servers /\ open' = open /\ replies' = replies
    BY <1>2, <2>1
  <2> QED BY <1>2, <2>1, <2>2, <2>3, <2>4, HandlerKeeps
<1>4. CASE link # "open"
  <2>1. /\ Done(i) /\ UNCHANGED queue
        /\ IF IsTeardown(i) THEN Destroys(i) ELSE UNCHANGED <<servers, open>>
    BY <1>4 DEF SendToAtv
  <2>2. queue' \in Seq(DOMAIN asked)
    BY <1>1, <2>1 DEF ProxyType
  <2>3. CASE IsTeardown(i)
    BY <1>2, <2>1, <2>2, <2>3, TeardownKeeps
  <2>4. CASE ~ IsTeardown(i)
    <3>1. handler' = [handler EXCEPT ![i] = "done"] /\ UNCHANGED <<servers, open>>
      BY <2>1, <2>4 DEF Done
    <3>2. "done" \in State /\ "done" # "creates"
      BY DEF State
    <3>3. /\ asked' = asked /\ peer' = peer /\ link' = link /\ late' = late
          /\ servers' = servers /\ open' = open /\ replies' = replies
      BY <1>2, <3>1
    <3> QED BY <1>2, <2>2, <2>4, <3>1, <3>2, <3>3, HandlerKeeps
  <2> QED BY <2>3, <2>4
<1> QED BY <1>3, <1>4

LEMMA FailsKeepsServers ==
    ASSUME ServersInv, NEW i \in DOMAIN asked, Fails(i) \/ CreatingFails(i)
    PROVE  ServersInv'
<1>1. ProxyType
  BY DEF ServersInv
<1>2. CASE Fails(i)
  <2>1. /\ handler[i] = "sent" /\ Done(i) /\ UNCHANGED <<start, peer, link, asked, queue, replies, late>>
        /\ IF IsTeardown(i) THEN Destroys(i) ELSE UNCHANGED <<servers, open>>
    BY <1>2 DEF Fails
  <2>2. queue' \in Seq(DOMAIN asked)
    BY <1>1, <2>1 DEF ProxyType
  <2>3. CASE IsTeardown(i)
    BY <2>1, <2>2, <2>3, TeardownKeeps
  <2>4. CASE ~ IsTeardown(i)
    <3>1. handler' = [handler EXCEPT ![i] = "done"] /\ UNCHANGED <<servers, open>>
      BY <2>1, <2>4 DEF Done
    <3>2. "done" \in State /\ "done" # "creates"
      BY DEF State
    <3>3. /\ asked' = asked /\ peer' = peer /\ link' = link /\ late' = late
          /\ servers' = servers /\ open' = open /\ replies' = replies
      BY <2>1, <3>1
    <3> QED BY <2>1, <2>2, <2>4, <3>1, <3>2, <3>3, HandlerKeeps
  <2> QED BY <2>3, <2>4
<1>3. CASE CreatingFails(i)
  <2>1. /\ handler[i] = "creates" /\ handler' = [handler EXCEPT ![i] = "failed"]
        /\ UNCHANGED <<start, peer, link, asked, queue, replies, servers, open, late>>
    BY <1>3 DEF CreatingFails
  <2>2. queue' \in Seq(DOMAIN asked) /\ "failed" \in State
    BY <1>1, <2>1 DEF ProxyType, State
  <2> QED BY <2>1, <2>2, HandlerKeeps
<1> QED BY <1>2, <1>3

LEMMA AnswerKeeps ==
    ASSUME ServersInv, DeviceAnswers
    PROVE  ServersInv'
<1>1. ProxyType
  BY DEF ServersInv
<1>2. /\ link = "open" /\ queue # <<>> /\ queue' = Tail(queue)
      /\ UNCHANGED <<start, peer, link, asked, late>>
  BY DEF DeviceAnswers
<1>3. PICK i \in DOMAIN asked : i = Head(queue)
  BY <1>1, <1>2, QueueIs
<1>4. queue' \in Seq(DOMAIN asked)
  BY <1>1, <1>2, QueueIs
<1>5. CASE handler[i] = "sent" /\ asked[i].path = "SETUP"
  <2>1. Answered(i)
    BY <1>3, <1>5 DEF DeviceAnswers
  <2>2. /\ \E next \in {"creates", "failed"} : handler' = [handler EXCEPT ![i] = next]
        /\ UNCHANGED <<replies, servers, open>>
    BY <1>5, <2>1 DEF Answered, IsTeardown
  <2>3. PICK next \in {"creates", "failed"} : handler' = [handler EXCEPT ![i] = next]
    BY <2>2
  <2>4. next \in State /\ next # "done" /\ ~ IsTeardown(i)
    BY <1>5 DEF State, IsTeardown
  <2>5. /\ asked' = asked /\ peer' = peer /\ link' = link /\ late' = late
        /\ servers' = servers /\ open' = open /\ replies' = replies
    BY <1>2, <2>2
  <2> QED BY <1>2, <1>4, <1>5, <2>3, <2>4, <2>5, HandlerKeeps
<1>6. CASE handler[i] = "sent" /\ IsTeardown(i)
  <2>1. Answered(i)
    BY <1>3, <1>6 DEF DeviceAnswers
  <2>2. Done(i) /\ Replies(i) /\ Destroys(i)
    BY <1>6, <2>1 DEF Answered, IsTeardown
  <2> QED BY <1>2, <1>4, <1>6, <2>2, TeardownKeeps
<1>7. CASE handler[i] = "sent" /\ asked[i].path # "SETUP" /\ ~ IsTeardown(i)
  <2>1. Answered(i)
    BY <1>3, <1>7 DEF DeviceAnswers
  <2>2. handler' = [handler EXCEPT ![i] = "done"] /\ Replies(i) /\ UNCHANGED <<servers, open>>
    BY <1>7, <2>1 DEF Answered, Done
  <2>3. "done" \in State /\ "done" # "creates"
    BY DEF State
  <2>4. /\ asked' = asked /\ peer' = peer /\ link' = link /\ late' = late
        /\ servers' = servers /\ open' = open
    BY <1>2, <2>2
  <2> QED BY <1>2, <1>4, <1>7, <2>2, <2>3, <2>4, HandlerKeeps
<1>8. CASE handler[i] # "sent"
  <2>1. UNCHANGED <<handler, replies, servers, open>>
    BY <1>3, <1>8 DEF DeviceAnswers
  <2>2. ProxyType'
    BY <1>1, <1>2, <1>4, <2>1 DEF ProxyType
  <2>3. InTurn' /\ Listens' /\ CreatesSetup' /\ Answered1'
    BY <1>2, <2>1 DEF ServersInv, InTurn, Finished, Listens, CreatesSetup, Answered1, About, IsTeardown
  <2>4. AfterPeer' /\ ServersAreWanted'
    BY <1>2, <2>1 DEF ServersInv, AfterPeer, ServersAreWanted, About, IsTeardown
  <2> QED BY <2>2, <2>3, <2>4 DEF ServersInv
<1> QED BY <1>5, <1>6, <1>7, <1>8

LEMMA PeerGoesKeeps ==
    ASSUME ServersInv, PeerGoes
    PROVE  ServersInv'
<1>1. ProxyType /\ InTurn /\ Listens /\ CreatesSetup /\ Answered1 /\ ServersAreWanted
  BY DEF ServersInv
<1>2. /\ peer' = "closed" /\ link' = (IF link = "open" THEN "closed" ELSE link) /\ queue' = <<>>
      /\ open' = (IF link = "none" THEN open ELSE {s \in open : servers[s[2]] # s[1]})
      /\ late' = {i \in DOMAIN asked : handler[i] = "creates" \/ link = "none"}
      /\ UNCHANGED <<start, asked, handler, replies, servers>>
  BY DEF PeerGoes
<1>3. open' = IF link = "none" THEN open ELSE {}
  BY <1>1, <1>2 DEF Listens
<1>4. ProxyType'
  BY <1>1, <1>2, <1>3 DEF ProxyType
<1>5. InTurn' /\ CreatesSetup' /\ Answered1'
  BY <1>1, <1>2 DEF InTurn, Finished, CreatesSetup, Answered1, About, IsTeardown
<1>6. Listens'
  BY <1>1, <1>2, <1>3 DEF Listens, About, IsTeardown
<1>7. AfterPeer'
  BY <1>2 DEF AfterPeer
<1>8. ServersAreWanted'
  <2>1. ASSUME NEW s \in open' PROVE s \in open /\ s[1] \in late'
    BY <1>1, <1>2, <1>3 DEF ProxyType
  <2> QED BY <1>1, <1>2, <2>1 DEF ServersAreWanted, About, IsTeardown
<1> QED BY <1>4, <1>5, <1>6, <1>7, <1>8 DEF ServersInv

(* The connections come and go, and other parts of the wire have their own  *)
(* variables.                                                               *)
LEMMA OthersKeep ==
    ASSUME ServersInv, Starts \/ LinkGoes \/ UNCHANGED proxyVars
    PROVE  ServersInv'
<1>1. ProxyType /\ AfterPeer
  BY DEF ServersInv
<1>2. /\ UNCHANGED <<peer, asked, handler, replies, servers, open, late>>
      /\ queue' \in {queue, <<>>}
      /\ link' \in {"none", "open", "closed"} /\ (link' \in {"none", "open"} => link \in {"none", "open"})
  BY <1>1 DEF Starts, LinkGoes, proxyVars, ProxyType
<1>3. ProxyType'
  <2>1. queue' \in Seq(DOMAIN asked)
    <3>1. queue \in Seq(DOMAIN asked) /\ <<>> \in Seq(DOMAIN asked)
      BY <1>1 DEF ProxyType
    <3> QED BY <1>2, <3>1
  <2> QED BY <1>1, <1>2, <2>1 DEF ProxyType
<1>4. AfterPeer'
  BY <1>1, <1>2 DEF AfterPeer
<1> QED BY <1>2, <1>3, <1>4 DEF ServersInv, InTurn, Finished, Listens, CreatesSetup, Answered1,
           ServersAreWanted, About, IsTeardown

LEMMA ProxyStepKeeps ==
    ASSUME ServersInv, ProxyNext \/ UNCHANGED proxyVars
    PROVE  ServersInv'
<1>1. ASSUME NEW p \in Paths, NEW cs \in Channels \cup {<<>>}, Requests([path |-> p, channels |-> cs])
      PROVE  ServersInv'
  <2>1. [path |-> p, channels |-> cs] \in [path : Paths, channels : Channels \cup {<<>>}]
    OBVIOUS
  <2> QED BY <1>1, <2>1, RequestKeeps
<1>2. ASSUME NEW i \in DOMAIN asked, SendToAtv(i) \/ CreatesServer(i) \/ CreatingFails(i) \/ Fails(i)
      PROVE  ServersInv'
  BY <1>2, SendKeeps, CreatesKeeps, FailsKeepsServers
<1> QED BY <1>1, <1>2, AnswerKeeps, PeerGoesKeeps, OthersKeep DEF ProxyNext, HandlersRun

LEMMA ProxyInitHolds == ASSUME ProxyInit PROVE ServersInv
<1>1. ProxyType
  BY DEF ProxyInit, ProxyType
<1>2. InTurn /\ Listens /\ CreatesSetup /\ Answered1 /\ AfterPeer /\ ServersAreWanted
  BY DEF ProxyInit, InTurn, Listens, CreatesSetup, Answered1, AfterPeer, ServersAreWanted
<1> QED BY <1>1, <1>2 DEF ServersInv

-----------------------------------------------------------------------------
(***************************************************************************)
(* What TCP cuts.                                                           *)
(***************************************************************************)
PartAt(ms, i) == [m |-> ms[(i + 1) \div 2], part |-> 2 - (i % 2)]
PartsIn(S) == [m : S, part : {1, 2}]

(* s is what follows the first o parts of the messages ms.                  *)
Follows(s, ms, o) ==
    /\ o + Len(s) <= 2 * Len(ms)
    /\ \A i \in 1..Len(s) : s[i] = PartAt(ms, o + i)

LEMMA PartsAre ==
    ASSUME NEW S, NEW ms \in Seq(S), NEW i \in 1..(2 * Len(ms))
    PROVE  PartAt(ms, i) \in PartsIn(S)
<1>1. Len(ms) \in Nat /\ i \in Int /\ 1 <= i /\ i <= 2 * Len(ms)
  OBVIOUS
<1>2. (i + 1) \div 2 \in 1..Len(ms) /\ 2 - (i % 2) \in {1, 2}
  BY <1>1
<1>3. ms[(i + 1) \div 2] \in S
  BY <1>2
<1> QED BY <1>2, <1>3 DEF PartAt, PartsIn

(* A message more is sent: what follows is the same, and its parts are next. *)
LEMMA MoreIsSent ==
    ASSUME NEW S, NEW ms \in Seq(S), NEW m \in S, NEW s \in Seq(PartsIn(S)), NEW o \in Nat,
           Follows(s, ms, o)
    PROVE  /\ Follows(s, Append(ms, m), o)
           /\ s \o Parts(m) \in Seq(PartsIn(S)) /\ Len(s \o Parts(m)) = Len(s) + 2
           /\ o + Len(s) = 2 * Len(ms) => Follows(s \o Parts(m), Append(ms, m), o)
<1> DEFINE ns == Append(ms, m)
           t == s \o Parts(m)
<1>1. /\ Len(ms) \in Nat /\ Len(s) \in Nat /\ Len(ns) = Len(ms) + 1 /\ ns[Len(ms) + 1] = m
      /\ \A i \in 1..Len(ms) : ns[i] = ms[i]
  OBVIOUS
<1>2. ASSUME NEW i \in 1..(2 * Len(ms)) PROVE PartAt(ns, i) = PartAt(ms, i)
  <2>1. (i + 1) \div 2 \in 1..Len(ms)
    BY <1>1
  <2> QED BY <1>1, <2>1 DEF PartAt
<1>3. Follows(s, ns, o)
  <2>1. \A i \in 1..Len(s) : o + i \in 1..(2 * Len(ms))
    BY <1>1 DEF Follows
  <2>2. o + Len(s) <= 2 * Len(ns)
    BY <1>1 DEF Follows
  <2> HIDE DEF ns
  <2> QED BY <1>2, <2>1, <2>2 DEF Follows
<1>4. /\ Parts(m) \in Seq(PartsIn(S)) /\ Len(Parts(m)) = 2
      /\ Parts(m)[1] = [m |-> m, part |-> 1] /\ Parts(m)[2] = [m |-> m, part |-> 2]
  BY DEF Parts, PartsIn
<1>5. /\ t \in Seq(PartsIn(S)) /\ Len(t) = Len(s) + 2
      /\ \A i \in 1..Len(s) : t[i] = s[i]
      /\ t[Len(s) + 1] = [m |-> m, part |-> 1] /\ t[Len(s) + 2] = [m |-> m, part |-> 2]
  <2> HIDE DEF ns
  <2>1. PICK p : p = Parts(m)
    OBVIOUS
  <2>2. p \in Seq(PartsIn(S)) /\ Len(p) = 2
    BY <1>4, <2>1
  <2>3. /\ s \o p \in Seq(PartsIn(S)) /\ Len(s \o p) = Len(s) + Len(p)
        /\ \A i \in 1..(Len(s) + Len(p)) : (s \o p)[i] = IF i <= Len(s) THEN s[i] ELSE p[i - Len(s)]
    BY ONLY s \in Seq(PartsIn(S)), <2>2, ConcatProperties
  <2>4. t = s \o p
    BY <2>1
  <2> HIDE DEF t
  <2>5. t \in Seq(PartsIn(S)) /\ Len(t) = Len(s) + 2
    BY <2>2, <2>3, <2>4
  <2>6. \A i \in 1..Len(s) : t[i] = s[i]
    BY <1>1, <2>2, <2>3, <2>4
  <2>7. t[Len(s) + 1] = p[1] /\ t[Len(s) + 2] = p[2]
    BY <1>1, <2>2, <2>3, <2>4
  <2> QED BY <1>4, <2>1, <2>5, <2>6, <2>7
<1>6. ASSUME o + Len(s) = 2 * Len(ms) PROVE Follows(t, ns, o)
  <2> HIDE DEF t, ns
  <2>1. (2 * Len(ms) + 1 + 1) \div 2 = Len(ms) + 1 /\ (2 * Len(ms) + 2 + 1) \div 2 = Len(ms) + 1
        /\ (2 * Len(ms) + 1) % 2 = 1 /\ (2 * Len(ms) + 2) % 2 = 0
    BY <1>1
  <2>2. PartAt(ns, 2 * Len(ms) + 1) = [m |-> m, part |-> 1] /\ PartAt(ns, 2 * Len(ms) + 2) = [m |-> m, part |-> 2]
    BY <1>1, <2>1 DEF PartAt
  <2>3. \A i \in 1..Len(t) : t[i] = PartAt(ns, o + i)
    <3>1. ASSUME NEW i \in 1..Len(t) PROVE t[i] = PartAt(ns, o + i)
      <4>1. CASE i \in 1..Len(s)
        BY <1>3, <1>5, <4>1 DEF Follows
      <4>2. CASE i = Len(s) + 1
        <5>1. o + i = 2 * Len(ms) + 1
          BY ONLY <1>1, <1>6, <4>2, o \in Nat
        <5> QED BY <1>5, <2>2, <4>2, <5>1
      <4>3. CASE i = Len(s) + 2
        <5>1. o + i = 2 * Len(ms) + 2
          BY ONLY <1>1, <1>6, <4>3, o \in Nat
        <5> QED BY <1>5, <2>2, <4>3, <5>1
      <4> QED BY <1>1, <1>5, <3>1, <4>1, <4>2, <4>3
    <3> QED BY <3>1
  <2> QED BY <1>1, <1>5, <1>6, <2>3 DEF Follows
<1> QED BY <1>3, <1>5, <1>6

(* What is read may end anywhere.                                           *)
LEMMA CutAnywhere ==
    ASSUME NEW S, NEW ms \in Seq(S), NEW s \in Seq(PartsIn(S)), NEW o \in Nat,
           Follows(s, ms, o), NEW n \in 0..Len(s)
    PROVE  /\ SubSeq(s, 1, n) \in Seq(PartsIn(S)) /\ Len(SubSeq(s, 1, n)) = n
           /\ Follows(SubSeq(s, 1, n), ms, o)
           /\ From(s, n + 1) \in Seq(PartsIn(S)) /\ Len(From(s, n + 1)) = Len(s) - n
           /\ Follows(From(s, n + 1), ms, o + n)
<1>1. Len(ms) \in Nat /\ Len(s) \in Nat /\ n \in Nat
  OBVIOUS
<1>2. SubSeq(s, 1, n) \in Seq(PartsIn(S)) /\ Len(SubSeq(s, 1, n)) = n /\ \A i \in 1..n : SubSeq(s, 1, n)[i] = s[i]
  BY <1>1
<1>3. /\ From(s, n + 1) \in Seq(PartsIn(S)) /\ Len(From(s, n + 1)) = Len(s) - n
      /\ \A i \in 1..(Len(s) - n) : From(s, n + 1)[i] = s[n + i]
  <2>1. SubSeq(s, n + 1, Len(s)) \in Seq(PartsIn(S)) /\ Len(SubSeq(s, n + 1, Len(s))) = Len(s) - n
        /\ \A i \in 1..(Len(s) - n) : SubSeq(s, n + 1, Len(s))[i] = s[n + i]
    BY <1>1
  <2> QED BY <2>1 DEF From
<1>4. Follows(SubSeq(s, 1, n), ms, o)
  <2>1. ASSUME NEW i \in 1..n PROVE SubSeq(s, 1, n)[i] = PartAt(ms, o + i)
    <3>1. i \in 1..Len(s)
      BY <1>1
    <3> QED BY <1>2, <3>1 DEF Follows
  <2>2. o + Len(SubSeq(s, 1, n)) <= 2 * Len(ms)
    BY <1>1, <1>2 DEF Follows
  <2> QED BY <1>2, <2>1, <2>2 DEF Follows
<1>5. Follows(From(s, n + 1), ms, o + n)
  <2>1. ASSUME NEW i \in 1..(Len(s) - n) PROVE From(s, n + 1)[i] = PartAt(ms, o + n + i)
    <3>1. n + i \in 1..Len(s) /\ o + (n + i) = o + n + i
      BY <1>1
    <3> QED BY <1>3, <3>1 DEF Follows
  <2>2. o + n + Len(From(s, n + 1)) <= 2 * Len(ms)
    BY <1>1, <1>3 DEF Follows
  <2> QED BY <1>3, <2>1, <2>2 DEF Follows
<1> QED BY <1>2, <1>3, <1>4, <1>5

LEMMA JoinedAgain ==
    ASSUME NEW S, NEW ms \in Seq(S), NEW s \in Seq(PartsIn(S)), NEW t \in Seq(PartsIn(S)), NEW o \in Nat,
           Follows(s, ms, o), Follows(t, ms, o + Len(s))
    PROVE  s \o t \in Seq(PartsIn(S)) /\ Len(s \o t) = Len(s) + Len(t) /\ Follows(s \o t, ms, o)
<1>1. Len(ms) \in Nat /\ Len(s) \in Nat /\ Len(t) \in Nat
  OBVIOUS
<1>2. /\ s \o t \in Seq(PartsIn(S)) /\ Len(s \o t) = Len(s) + Len(t)
      /\ \A i \in 1..Len(s \o t) : (s \o t)[i] = IF i <= Len(s) THEN s[i] ELSE t[i - Len(s)]
  BY ConcatProperties
<1>3. ASSUME NEW i \in 1..Len(s \o t) PROVE (s \o t)[i] = PartAt(ms, o + i)
  <2>1. CASE i <= Len(s)
    <3>1. i \in 1..Len(s)
      BY <1>1, <1>2, <2>1
    <3> QED BY <1>2, <2>1, <3>1 DEF Follows
  <2>2. CASE ~ (i <= Len(s))
    <3>1. i - Len(s) \in 1..Len(t) /\ o + Len(s) + (i - Len(s)) = o + i
      BY <1>1, <1>2, <2>2
    <3> QED BY <1>2, <2>2, <3>1 DEF Follows
  <2> QED BY <2>1, <2>2
<1> QED BY <1>1, <1>2, <1>3 DEF Follows

(* The messages that are whole are those that follow.                       *)
LEMMA WholeMessages ==
    ASSUME NEW S, NEW ms \in Seq(S), NEW s \in Seq(PartsIn(S)), NEW h \in Nat, Follows(s, ms, 2 * h)
    PROVE  /\ Messages(s) \in Seq(S) /\ Len(Messages(s)) = Len(s) \div 2
           /\ h + Len(Messages(s)) <= Len(ms)
           /\ \A i \in 1..Len(Messages(s)) : Messages(s)[i] = ms[h + i]
           /\ Len(s) - 2 * Len(Messages(s)) \in {0, 1}
<1>1. Len(ms) \in Nat /\ Len(s) \in Nat /\ h \in Nat
  OBVIOUS
<1> DEFINE n == Len(s) \div 2
<1>2. n \in Nat /\ Len(s) - 2 * n \in {0, 1} /\ 2 * n <= Len(s)
  BY <1>1
<1>3. Messages(s) = [i \in 1..n |-> s[2 * i].m]
  BY DEF Messages
<1> HIDE DEF n
<1>4. ASSUME NEW i \in 1..n PROVE s[2 * i].m = ms[h + i] /\ s[2 * i].m \in S
  <2>1. 2 * i \in 1..Len(s)
    BY <1>1, <1>2
  <2>2. (2 * h + 2 * i + 1) \div 2 = h + i
    BY <1>1, <1>2
  <2>3. s[2 * i] = PartAt(ms, 2 * h + 2 * i)
    BY <2>1 DEF Follows
  <2>4. s[2 * i] \in PartsIn(S)
    BY <2>1
  <2> QED BY <2>2, <2>3, <2>4 DEF PartAt, PartsIn
<1>5. Messages(s) \in Seq(S) /\ Len(Messages(s)) = n
  <2>1. [i \in 1..n |-> s[2 * i].m] \in [1..n -> S]
    BY <1>4
  <2>2. Messages(s) \in Seq(S)
    BY <1>2, <1>3, <2>1
  <2>3. DOMAIN Messages(s) = 1..n
    BY <1>3
  <2> QED BY <1>2, <2>2, <2>3
<1>6. h + n <= Len(ms)
  BY <1>1, <1>2 DEF Follows
<1>7. \A i \in 1..n : Messages(s)[i] = ms[h + i]
  BY <1>3, <1>4
<1> QED BY <1>2, <1>5, <1>6, <1>7 DEF n

-----------------------------------------------------------------------------
(***************************************************************************)
(* A channel of AirPlay.                                                    *)
(***************************************************************************)
NearMsgs ==
    {m \in [k : {"info", "volume", "configure", "other"}, x : Nat, sync : BOOLEAN, of : SUBSET {"client", "proxy"}] :
        /\ m.k = "info" => m.of = {"client"}
        /\ m.k = "volume" => m.of = {"proxy"}
        /\ m.k \in {"configure", "other"} => m.of = {}
        /\ channel = "event" => m.k = "other"
        /\ channel = "data" => m.sync}
FarMsgs ==
    {m \in [k : {"info", "outputs", "volume", "other"}, x : Nat, sync : {TRUE}, of : SUBSET {"device", "speaker"}] :
        /\ m.k = "other" => m.of = {}
        /\ channel = "event" => m.k \in {"info", "other"}}
Name == {"client", "proxy", "shifted", "device", "speaker"}
SentMsgs == [k : {"info", "outputs", "volume", "configure", "other", "reply"}, x : Nat, sync : BOOLEAN, of : SUBSET Name]

ChannelType ==
    /\ channel \in {"event", "data"} /\ joined \in {"no", "made", "yes", "failed"}
    /\ near \in {"open", "closed"} /\ far \in {"none", "open", "closed"}
    /\ nearSent \in Seq(NearMsgs) /\ \A i \in 1..Len(nearSent) : nearSent[i].x = i
    /\ farSent \in Seq(FarMsgs) /\ \A i \in 1..Len(farSent) : farSent[i].x = i
    /\ nearNet \in Seq(PartsIn(NearMsgs)) /\ early \in Seq(PartsIn(NearMsgs)) /\ localBuffer \in Seq(PartsIn(NearMsgs))
    /\ farNet \in Seq(PartsIn(FarMsgs)) /\ remoteBuffer \in Seq(PartsIn(FarMsgs))
    /\ ignored \in BOOLEAN
    /\ toFar \in Seq(SentMsgs) /\ toNear \in Seq(SentMsgs)

(* What was sent on of the first h messages of the client: all of them that *)
(* are not ignored, as long as the device is there.                         *)
ToFarIs(h) ==
    /\ \A i \in 1..Len(toFar) :
        LET n == toFar[i].x
        IN  /\ n \in 1..h /\ ~Ignores(nearSent[n]) /\ toFar[i] = OfClient(nearSent[n])
            /\ \A j \in 1..(i - 1) : toFar[j].x < n
            /\ \A e \in 1..n : ReachesFar(e)
    /\ far = "open" => \A e \in 1..h : ReachesFar(e)

(* All that the client sent is where its order puts it.                     *)
NearIs(h) ==
    /\ Follows(localBuffer, nearSent, 2 * h)
    /\ Follows(early, nearSent, 2 * h + Len(localBuffer))
    /\ Follows(nearNet, nearSent, 2 * h + Len(localBuffer) + Len(early))
    /\ near = "open" => 2 * h + Len(localBuffer) + Len(early) + Len(nearNet) = 2 * Len(nearSent)
    /\ joined # "yes" => h = 0
    /\ joined = "yes" => early = <<>> /\ (Len(localBuffer) >= 2 => ignored)
RepliesAre(h) == \A i \in 1..Len(toNear) : toNear[i].k = "reply" => toNear[i].x <= h

FarIs(g) ==
    /\ Follows(remoteBuffer, farSent, 2 * g)
    /\ Follows(farNet, farSent, 2 * g + Len(remoteBuffer))
    /\ far # "closed" => 2 * g + Len(remoteBuffer) + Len(farNet) = 2 * Len(farSent)
    /\ joined = "no" => far = "none"
    /\ \A i \in 1..Len(toNear) : toNear[i].k # "reply" => toNear[i].x <= g

ChannelInv ==
    /\ ChannelType /\ NamesAreKept
    /\ \E h \in 0..Len(nearSent) : NearIs(h) /\ ToFarIs(h) /\ RepliesAre(h)
    /\ \E g \in 0..Len(farSent) : FarIs(g)

-----------------------------------------------------------------------------
(* What the proxy makes of a message.                                       *)
LEMMA ToTheDevice ==
    ASSUME channel \in {"event", "data"}, NEW m \in NearMsgs
    PROVE  /\ OfClient(m) \in SentMsgs /\ OfClient(m).x = m.x
           /\ ~Ignores(m) => OfClient(m).of \cap {"client", "proxy"} = {}
<1>1. /\ m \in [k : {"info", "volume", "configure", "other"}, x : Nat, sync : BOOLEAN, of : SUBSET {"client", "proxy"}]
      /\ m.k = "info" => m.of = {"client"}
      /\ m.k = "volume" => m.of = {"proxy"}
      /\ m.k \in {"configure", "other"} => m.of = {}
      /\ channel = "event" => m.k = "other"
      /\ channel = "data" => m.sync
  BY DEF NearMsgs
<1>2. CASE channel = "data" /\ m.k = "info"
  <2>1. OfClient(m) = [m EXCEPT !.of = {"shifted"}]
    <3>1. Swap(m.of, "client", "shifted") = {"shifted"}
      BY <1>1, <1>2 DEF Swap
    <3> QED BY <1>1, <1>2, <3>1 DEF OfClient, Rewritten, RewriteClient
  <2> QED BY <1>1, <2>1 DEF SentMsgs, Name
<1>3. CASE channel = "data" /\ m.k = "volume"
  <2>1. OfClient(m) = [m EXCEPT !.of = {"device"}]
    <3>1. Swap(m.of, "proxy", "device") = {"device"}
      BY <1>1, <1>3 DEF Swap
    <3> QED BY <1>1, <1>3, <3>1 DEF OfClient, Rewritten, RewriteClient
  <2> QED BY <1>1, <2>1 DEF SentMsgs, Name
<1>4. CASE channel = "event" \/ m.k \notin {"info", "volume"}
  <2>1. OfClient(m) = m
    BY <1>1, <1>4 DEF OfClient, Rewritten, RewriteClient
  <2>2. m.of = {}
    BY <1>1, <1>4
  <2> QED BY <1>1, <2>1, <2>2 DEF SentMsgs, Name
<1> QED BY <1>1, <1>2, <1>3, <1>4

LEMMA ToTheClient ==
    ASSUME channel \in {"event", "data"}, NEW m \in FarMsgs
    PROVE  /\ OfRemote(m) \in SentMsgs /\ OfRemote(m).x = m.x /\ OfRemote(m).k # "reply"
           /\ "device" \notin OfRemote(m).of
<1>1. /\ m \in [k : {"info", "outputs", "volume", "other"}, x : Nat, sync : {TRUE}, of : SUBSET {"device", "speaker"}]
      /\ m.k = "other" => m.of = {}
      /\ channel = "event" => m.k \in {"info", "other"}
  BY DEF FarMsgs
<1>2. CASE m.k # "other"
  <2>1. OfRemote(m) = [m EXCEPT !.of = Swap(m.of, "device", "proxy")]
    BY <1>1, <1>2 DEF OfRemote, Rewritten, RewriteRemote, RewriteEvent
  <2>2. "device" \notin Swap(m.of, "device", "proxy") /\ Swap(m.of, "device", "proxy") \subseteq Name
    BY <1>1 DEF Swap, Name
  <2> HIDE DEF Swap
  <2> QED BY <1>1, <2>1, <2>2 DEF SentMsgs
<1>3. CASE m.k = "other"
  <2>1. OfRemote(m) = m
    BY <1>1, <1>3 DEF OfRemote, Rewritten, RewriteRemote, RewriteEvent
  <2> QED BY <1>1, <1>3, <2>1 DEF SentMsgs, Name
<1> QED BY <1>2, <1>3

(* Which messages the loop of handle_received passes: up to the first that  *)
(* is ignored.                                                              *)
LEMMA PassesUpTo ==
    ASSUME NEW ms, Len(ms) \in Nat, DOMAIN ms = 1..Len(ms)
    PROVE  /\ Passed(ms) \in 0..Len(ms)
           /\ \A j \in 1..(Passed(ms) - 1) : ~Ignores(ms[j])
           /\ Passed(ms) < Len(ms) => Passed(ms) > 0 /\ Ignores(ms[Passed(ms)])
<1>1. CASE \E i \in DOMAIN ms : Ignores(ms[i])
  <2> DEFINE T == {i \in DOMAIN ms : Ignores(ms[i])}
  <2>1. T \in SUBSET Nat /\ T # {}
    BY <1>1
  <2>2. PICK f \in T : \A y \in T : f <= y
    BY <2>1, Least
  <2>3. f \in DOMAIN ms /\ Ignores(ms[f]) /\ \A j \in 1..(f - 1) : ~Ignores(ms[j])
    BY <2>2
  <2>4. /\ Passed(ms) \in DOMAIN ms /\ Ignores(ms[Passed(ms)])
        /\ \A j \in 1..(Passed(ms) - 1) : ~Ignores(ms[j])
    BY <1>1, <2>3 DEF Passed
  <2> QED BY <2>4
<1>2. CASE ~ \E i \in DOMAIN ms : Ignores(ms[i])
  <2>1. Passed(ms) = Len(ms)
    BY <1>2 DEF Passed
  <2> QED BY <1>2, <2>1
<1> QED BY <1>1, <1>2


(* handle_received with what has come so far.                               *)
LEMMA HandlesInOrder ==
    ASSUME ChannelType, NamesAreKept, NEW h \in 0..Len(nearSent), ToFarIs(h), RepliesAre(h),
           NEW parts \in Seq(PartsIn(NearMsgs)), Follows(parts, nearSent, 2 * h), HandleReceived(parts),
           channel' = channel, near' = near, far' = far, nearSent' = nearSent
    PROVE  \E e \in h..Len(nearSent) :
             /\ localBuffer' \in Seq(PartsIn(NearMsgs)) /\ Len(localBuffer') = Len(parts) - 2 * (e - h)
             /\ Follows(localBuffer', nearSent, 2 * e)
             /\ early' = <<>> /\ ignored' \in BOOLEAN /\ (Len(localBuffer') >= 2 => ignored')
             /\ toFar' \in Seq(SentMsgs) /\ toNear' \in Seq(SentMsgs)
             /\ ToFarIs(e)' /\ RepliesAre(e)' /\ NamesAreKept'
             /\ \A i \in 1..Len(toNear') : toNear'[i].k # "reply" =>
                    i \in 1..Len(toNear) /\ toNear'[i] = toNear[i]
<1> DEFINE ms == Messages(parts)
           n == Passed(Messages(parts))
           last == n > 0 /\ Ignores(Messages(parts)[n])
           q == IF last THEN n - 1 ELSE n
           whole == SubSeq(Messages(parts), 1, q)
           on == [i \in DOMAIN whole |-> OfClient(whole[i])]
<1>1. /\ ms \in Seq(NearMsgs) /\ Len(ms) = Len(parts) \div 2 /\ h + Len(ms) <= Len(nearSent)
      /\ \A i \in 1..Len(ms) : ms[i] = nearSent[h + i]
      /\ Len(parts) - 2 * Len(ms) \in {0, 1}
      /\ Len(ms) \in Nat /\ DOMAIN ms = 1..Len(ms) /\ h \in Nat /\ Len(nearSent) \in Nat /\ Len(parts) \in Nat
      /\ nearSent \in Seq(NearMsgs) /\ \A i \in 1..Len(nearSent) : nearSent[i].x = i
      /\ channel \in {"event", "data"}
  <2>1. nearSent \in Seq(NearMsgs) /\ h \in Nat /\ Len(nearSent) \in Nat /\ Len(parts) \in Nat
    BY DEF ChannelType
  <2>2. /\ ms \in Seq(NearMsgs) /\ Len(ms) = Len(parts) \div 2 /\ h + Len(ms) <= Len(nearSent)
        /\ \A i \in 1..Len(ms) : ms[i] = nearSent[h + i]
        /\ Len(parts) - 2 * Len(ms) \in {0, 1}
    BY <2>1, WholeMessages
  <2> HIDE DEF ms
  <2>3. Len(ms) \in Nat /\ DOMAIN ms = 1..Len(ms)
    BY <2>2
  <2>4. \A i \in 1..Len(nearSent) : nearSent[i].x = i
    BY DEF ChannelType
  <2>5. channel \in {"event", "data"}
    BY DEF ChannelType
  <2> QED BY ONLY <2>1, <2>2, <2>3, <2>4, <2>5
<1>2. /\ n \in 0..Len(ms) /\ \A j \in 1..(n - 1) : ~Ignores(ms[j])
      /\ n < Len(ms) => n > 0 /\ Ignores(ms[n])
  BY <1>1, PassesUpTo
<1>3. /\ early' = <<>> /\ localBuffer' = From(parts, 2 * n + 1)
      /\ toFar' = (IF far = "open" THEN toFar \o on ELSE toFar)
      /\ toNear' = (IF last /\ near = "open" THEN Append(toNear, Reply(ms[n])) ELSE toNear)
      /\ ignored' = (IF n = 0 THEN ignored ELSE last)
  BY DEF HandleReceived, PassesOn
<1> HIDE DEF ms, n
<1>0. /\ h \in Nat /\ n \in Nat /\ Len(ms) \in Nat /\ Len(nearSent) \in Nat
      /\ n <= Len(ms) /\ h + n <= Len(nearSent)
  BY ONLY <1>1, <1>2
<1>4. /\ q \in 0..n /\ q \in 0..Len(ms) /\ (last => q = n - 1 /\ n \in 1..Len(ms)) /\ (~last => q = n)
      /\ \A j \in 1..q : ~Ignores(ms[j])
  <2>1. CASE last
    <3>1. n > 0 /\ q = n - 1
      BY <2>1
    <3> HIDE DEF q, last
    <3>2. q \in 0..n /\ q \in 0..Len(ms) /\ n \in 1..Len(ms) /\ \A j \in 1..q : j \in 1..(n - 1)
      BY ONLY <1>0, <3>1
    <3> QED BY <1>2, <2>1, <3>1, <3>2
  <2>2. CASE ~last
    <3>1. n # 0 => ~Ignores(ms[n])
      BY <1>1, <1>2, <2>2 DEF ms, n
    <3>2. \A j \in 1..n : j \in 1..(n - 1) \/ j = n
      BY <1>1, <1>2
    <3> QED BY <1>1, <1>2, <2>2, <3>1, <3>2
  <2> QED BY ONLY <2>1, <2>2
<1>5. whole \in Seq(NearMsgs) /\ Len(whole) = q /\ \A j \in 1..q : whole[j] = nearSent[h + j]
  <2>1. PICK s \in Seq(NearMsgs) : s = ms
    BY <1>1
  <2>2. PICK k \in 0..Len(s) : k = q
    BY <1>4, <2>1
  <2>3. SubSeq(s, 1, k) \in Seq(NearMsgs) /\ Len(SubSeq(s, 1, k)) = k /\ \A j \in 1..k : SubSeq(s, 1, k)[j] = s[j]
    OBVIOUS
  <2>4. whole = SubSeq(s, 1, k)
    BY <2>1, <2>2 DEF ms
  <2>5. \A j \in 1..k : s[j] = nearSent[h + j]
    BY <1>1, <2>1, <2>2
  <2> HIDE DEF q, whole
  <2> QED BY <2>2, <2>3, <2>4, <2>5
<1> HIDE DEF last, q, whole
<1>q. /\ q \in Nat /\ q <= n /\ n <= q + 1 /\ (n # q => last)
      /\ h \in Nat /\ n \in Nat /\ Len(ms) \in Nat /\ Len(nearSent) \in Nat
      /\ n <= Len(ms) /\ h + n <= Len(nearSent) /\ (last => n > 0 /\ n \in 1..Len(ms))
  BY ONLY <1>0, <1>4
<1>6. /\ on \in Seq(SentMsgs) /\ Len(on) = q
      /\ \A j \in 1..q : on[j] = OfClient(nearSent[h + j]) /\ on[j].x = h + j /\ ~Ignores(nearSent[h + j])
                         /\ on[j].of \cap {"client", "proxy"} = {}
  <2>1. DOMAIN whole = 1..q /\ q \in Nat
    BY <1>1, <1>2, <1>4, <1>5
  <2>2. ASSUME NEW j \in 1..q
        PROVE /\ whole[j] = nearSent[h + j] /\ OfClient(whole[j]) \in SentMsgs /\ OfClient(whole[j]).x = h + j
              /\ ~Ignores(nearSent[h + j]) /\ OfClient(whole[j]).of \cap {"client", "proxy"} = {}
    <3>1. j \in 1..Len(ms) /\ h + j \in 1..Len(nearSent) /\ whole[j] = nearSent[h + j] /\ ms[j] = nearSent[h + j]
      BY <1>1, <1>4, <1>5, <2>1, SMTT(30)
    <3>2. nearSent[h + j] \in NearMsgs /\ nearSent[h + j].x = h + j /\ ~Ignores(nearSent[h + j])
      BY <1>1, <1>4, <3>1, SMTT(30)
    <3>3. /\ OfClient(nearSent[h + j]) \in SentMsgs /\ OfClient(nearSent[h + j]).x = nearSent[h + j].x
          /\ OfClient(nearSent[h + j]).of \cap {"client", "proxy"} = {}
      BY <1>1, <3>2, ToTheDevice
    <3> QED BY <3>1, <3>2, <3>3
  <2>3. on \in [1..q -> SentMsgs] /\ \A j \in 1..q : on[j] = OfClient(whole[j])
    BY <2>1, <2>2
  <2> HIDE DEF on
  <2>4. on \in Seq(SentMsgs) /\ Len(on) = q
    BY <2>1, <2>3
  <2> QED BY <2>2, <2>3, <2>4
<1> HIDE DEF on
<1>7. /\ localBuffer' \in Seq(PartsIn(NearMsgs)) /\ Len(localBuffer') = Len(parts) - 2 * n
      /\ Follows(localBuffer', nearSent, 2 * (h + n))
  <2>1. PICK k \in 0..Len(parts) : k = 2 * n
    BY <1>1, <1>2
  <2>2. 2 * h \in Nat /\ 2 * h + k = 2 * (h + n)
    BY <1>1, <1>2, <2>1
  <2>3. /\ From(parts, k + 1) \in Seq(PartsIn(NearMsgs)) /\ Len(From(parts, k + 1)) = Len(parts) - k
        /\ Follows(From(parts, k + 1), nearSent, 2 * h + k)
    BY <1>1, <2>2, CutAnywhere
  <2> QED BY <1>3, <2>1, <2>2, <2>3
<1>8. ignored' \in BOOLEAN /\ (Len(localBuffer') >= 2 => ignored')
  <2>1. ignored' \in BOOLEAN
    BY <1>3 DEF ChannelType, last
  <2>2. ASSUME Len(localBuffer') >= 2 PROVE ignored'
    <3>1. n < Len(ms)
      BY <1>1, <1>2, <1>7, <2>2
    <3>2. n # 0 /\ n > 0 /\ Ignores(ms[n])
      BY <1>0, <1>2, <3>1
    <3>3. last
      BY <3>2 DEF last, ms, n
    <3> QED BY <1>3, <3>2, <3>3
  <2> QED BY <2>1, <2>2
<1>r. h + n \in h..Len(nearSent) /\ h + n - h = n
  BY ONLY <1>q
<1>s. PICK e : e = h + n
  OBVIOUS
<1>9. e \in h..Len(nearSent) /\ e = h + n /\ e - h = n
  BY ONLY <1>q, <1>s
<1>10. /\ toFar' \in Seq(SentMsgs)
       /\ far = "open" => /\ Len(toFar') = Len(toFar) + q
                          /\ \A i \in 1..Len(toFar) : toFar'[i] = toFar[i]
                          /\ \A j \in 1..q : toFar'[Len(toFar) + j] = on[j]
       /\ far # "open" => toFar' = toFar
       /\ Len(toFar) \in Nat
  <2>1. toFar \in Seq(SentMsgs)
    BY DEF ChannelType
  <2>2. /\ toFar \o on \in Seq(SentMsgs) /\ Len(toFar \o on) = Len(toFar) + Len(on)
        /\ \A i \in 1..(Len(toFar) + Len(on)) : (toFar \o on)[i] = IF i <= Len(toFar) THEN toFar[i] ELSE on[i - Len(toFar)]
    <3>1. PICK a \in Seq(SentMsgs), b \in Seq(SentMsgs) : a = toFar /\ b = on
      BY <1>6, <2>1
    <3>2. /\ a \o b \in Seq(SentMsgs) /\ Len(a \o b) = Len(a) + Len(b)
          /\ \A i \in 1..(Len(a) + Len(b)) : (a \o b)[i] = IF i <= Len(a) THEN a[i] ELSE b[i - Len(a)]
      BY ONLY a \in Seq(SentMsgs), b \in Seq(SentMsgs), ConcatProperties
    <3> QED BY <3>1, <3>2
  <2>3. Len(toFar) \in Nat /\ Len(on) \in Nat
    BY <1>6, <2>1
  <2>4. CASE far = "open"
    <3>1. toFar' = toFar \o on
      BY <1>3, <2>4
    <3>2. \A j \in 1..q : ~(Len(toFar) + j <= Len(toFar)) /\ Len(toFar) + j - Len(toFar) = j
                          /\ Len(toFar) + j \in 1..(Len(toFar) + Len(on))
      BY <1>6, <2>3
    <3>3. \A i \in 1..Len(toFar) : i \in 1..(Len(toFar) + Len(on)) /\ i <= Len(toFar)
      BY <2>3
    <3> QED BY ONLY <1>6, <2>2, <2>3, <2>4, <3>1, <3>2, <3>3
  <2>5. CASE far # "open"
    BY <1>3, <2>1, <2>3, <2>5
  <2> QED BY <2>4, <2>5
<1>11. \A f \in 1..Len(nearSent) : ReachesFar(f) => ReachesFar(f)'
  <2>1. ASSUME NEW f \in 1..Len(nearSent), ReachesFar(f) PROVE ReachesFar(f)'
    <3>1. CASE Ignores(nearSent[f])
      BY <3>1 DEF ReachesFar, Ignores
    <3>2. ASSUME NEW i \in DOMAIN toFar, toFar[i].x = f PROVE ReachesFar(f)'
      <4>1. i \in DOMAIN toFar' /\ toFar'[i] = toFar[i]
        <5>1. DOMAIN toFar = 1..Len(toFar) /\ DOMAIN toFar' = 1..Len(toFar')
          BY <1>10 DEF ChannelType
        <5>2. i \in 1..Len(toFar) /\ i \in 1..Len(toFar')
          <6>1. i \in 1..Len(toFar)
            BY <3>2, <5>1
          <6>2. CASE far = "open"
            BY ONLY <1>q, <1>10, <6>1, <6>2
          <6>3. CASE far # "open"
            BY ONLY <1>10, <6>1, <6>3
          <6> QED BY <6>1, <6>2, <6>3
        <5> QED BY <1>10, <5>1, <5>2
      <4> QED BY <3>2, <4>1 DEF ReachesFar
    <3> QED BY <2>1, <3>1, <3>2 DEF ReachesFar
  <2> QED BY <2>1
<1>12. far = "open" => \A f \in 1..(h + n) : ReachesFar(f)'
  <2>1. ASSUME far = "open", NEW f \in 1..(h + n) PROVE ReachesFar(f)'
    <3>1. CASE f <= h
      <4>1. f \in 1..h /\ f \in 1..Len(nearSent)
        BY <1>1, <1>9, <3>1
      <4>2. ReachesFar(f)
        BY <2>1, <4>1 DEF ToFarIs
      <4> QED BY <1>11, <4>1, <4>2
    <3>2. CASE f > h /\ f - h <= q
      <4>1. PICK j \in 1..q : f = h + j
        <5>1. f - h \in 1..q /\ f = h + (f - h)
          BY <1>1, <1>2, <1>4, <3>2
        <5> QED BY <5>1
      <4>2. toFar'[Len(toFar) + j].x = f /\ Len(toFar) + j \in 1..Len(toFar')
        <5>1. Len(toFar) + j \in 1..Len(toFar')
          BY ONLY <1>q, <1>10, <2>1, <4>1, SMTT(30)
        <5>2. toFar'[Len(toFar) + j] = on[j] /\ on[j].x = h + j
          BY <1>6, <1>10, <2>1, <4>1
        <5> QED BY <4>1, <5>1, <5>2
      <4>3. DOMAIN toFar' = 1..Len(toFar')
        BY <1>10
      <4> QED BY <4>2, <4>3 DEF ReachesFar
    <3>3. CASE f > h /\ ~(f - h <= q)
      <4>1. last /\ f = h + n /\ n \in 1..Len(ms)
        BY <1>1, <1>2, <1>4, <3>3
      <4>2. Ignores(nearSent[f])
        BY <1>1, <4>1 DEF last, ms, n
      <4> QED BY <4>2 DEF ReachesFar, Ignores
    <3> QED BY <1>1, <1>2, <3>1, <3>2, <3>3
  <2> QED BY <2>1
<1>13. ToFarIs(e)'
  <2>1. ASSUME NEW i \in 1..Len(toFar')
        PROVE  /\ toFar'[i].x \in 1..(h + n) /\ ~Ignores(nearSent[toFar'[i].x])
               /\ toFar'[i] = OfClient(nearSent[toFar'[i].x])
               /\ \A j \in 1..(i - 1) : toFar'[j].x < toFar'[i].x
               /\ \A f \in 1..toFar'[i].x : ReachesFar(f)'
    <3>1. CASE i \in 1..Len(toFar)
      <4>1. \A j \in 1..i : toFar'[j] = toFar[j]
        BY <1>10, <3>1
      <4>2. i \in 1..i /\ \A j \in 1..(i - 1) : j \in 1..i
        BY <1>10, <3>1
      <4>3. /\ toFar[i].x \in 1..h /\ ~Ignores(nearSent[toFar[i].x])
            /\ toFar[i] = OfClient(nearSent[toFar[i].x])
            /\ \A j \in 1..(i - 1) : toFar[j].x < toFar[i].x
            /\ \A f \in 1..toFar[i].x : ReachesFar(f)
        BY <3>1 DEF ToFarIs
      <4>4. toFar[i].x \in 1..(h + n) /\ \A f \in 1..toFar[i].x : f \in 1..Len(nearSent)
        BY ONLY <1>q, <4>3, SMTT(30)
      <4>5. toFar'[i] = toFar[i]
        BY <4>1, <4>2
      <4> QED BY <1>11, <4>1, <4>2, <4>3, <4>4, <4>5
    <3>2. CASE i \notin 1..Len(toFar)
      <4>1. far = "open"
        BY <1>10, <3>2
      <4>2. PICK j \in 1..q : i = Len(toFar) + j
        <5>1. i - Len(toFar) \in 1..q /\ i = Len(toFar) + (i - Len(toFar))
          BY ONLY <1>q, <1>10, <2>1, <3>2, <4>1
        <5> QED BY <5>1
      <4>3. toFar'[i] = OfClient(nearSent[h + j]) /\ toFar'[i].x = h + j /\ ~Ignores(nearSent[h + j])
        BY <1>6, <1>10, <4>1, <4>2
      <4>4. h + j \in 1..(h + n)
        BY <1>1, <1>2, <1>4
      <4>5. ASSUME NEW l \in 1..(i - 1) PROVE toFar'[l].x < h + j
        <5>1. CASE l \in 1..Len(toFar)
          <6>1. toFar'[l].x \in 1..h
            BY <1>10, <4>1, <5>1 DEF ToFarIs
          <6> QED BY <1>1, <6>1, SMTT(30)
        <5>2. CASE l \notin 1..Len(toFar)
          <6>1. PICK r \in 1..q : l = Len(toFar) + r /\ r < j
            <7>1. l - Len(toFar) \in 1..q /\ l = Len(toFar) + (l - Len(toFar)) /\ l - Len(toFar) < j
              BY ONLY <1>q, <1>10, <4>2, <4>5, <5>2, i \in 1..Len(toFar')
            <7> QED BY <7>1
          <6>2. toFar'[l].x = h + r
            BY <1>6, <1>10, <4>1, <6>1
          <6> QED BY <1>1, <6>1, <6>2
        <5> QED BY <5>1, <5>2
      <4>6. \A f \in 1..(h + j) : f \in 1..(h + n)
        BY ONLY <1>q, <4>2, <4>4
      <4> QED BY <1>12, <4>1, <4>3, <4>4, <4>5, <4>6
    <3> QED BY <3>1, <3>2
  <2>2. /\ \A m : Ignores(m)' <=> Ignores(m)
        /\ \A m : OfClient(m)' = OfClient(m)
    BY DEF Ignores, OfClient
  <2> QED BY <1>9, <1>12, <2>1, <2>2 DEF ToFarIs
<1>14. /\ toNear' \in Seq(SentMsgs) /\ RepliesAre(e)'
       /\ \A i \in 1..Len(toNear') : toNear'[i].k # "reply" => i \in 1..Len(toNear) /\ toNear'[i] = toNear[i]
       /\ \A i \in 1..Len(toNear') :
            \/ i \in 1..Len(toNear) /\ toNear'[i] = toNear[i]
            \/ i = Len(toNear) + 1 /\ toNear'[i].k = "reply" /\ toNear'[i].x = h + n /\ toNear'[i].of = {}
               /\ n > 0
       /\ Len(toNear) \in Nat
  <2>1. toNear \in Seq(SentMsgs) /\ Len(toNear) \in Nat
    BY DEF ChannelType
  <2>2. CASE last /\ near = "open"
    <3>1. ms[n] \in NearMsgs /\ ms[n].x = h + n /\ n > 0 /\ h + n \in Nat
      <4>1. n \in 1..Len(ms) /\ n > 0 /\ h + n \in Nat /\ h + n \in 1..Len(nearSent)
        BY ONLY <1>q, <2>2
      <4>2. ms[n] = nearSent[h + n] /\ nearSent[h + n].x = h + n /\ nearSent[h + n] \in NearMsgs
        BY <1>1, <4>1
      <4> QED BY <4>1, <4>2
    <3>2. PICK r \in SentMsgs : r = Reply(ms[n]) /\ r.k = "reply" /\ r.x = h + n /\ r.of = {}
      <4>1. Reply(ms[n]) \in SentMsgs
        BY <3>1 DEF Reply, SentMsgs
      <4> QED BY <3>1, <4>1 DEF Reply
    <3>3. toNear' = Append(toNear, r)
      BY <1>3, <2>2, <3>2
    <3>4. /\ toNear' \in Seq(SentMsgs) /\ Len(toNear') = Len(toNear) + 1 /\ toNear'[Len(toNear) + 1] = r
          /\ \A i \in 1..Len(toNear) : toNear'[i] = toNear[i]
      BY <2>1, <3>3
    <3>5. \A i \in 1..Len(toNear') : i \in 1..Len(toNear) \/ i = Len(toNear) + 1
      BY <2>1, <3>4
    <3>6. ASSUME NEW i \in 1..Len(toNear'), toNear'[i].k = "reply" PROVE toNear'[i].x <= h + n
      <4>1. CASE i \in 1..Len(toNear)
        <5>1. toNear[i] \in SentMsgs /\ toNear'[i] = toNear[i]
          BY <2>1, <3>4, <4>1
        <5>2. toNear[i].x <= h /\ toNear[i].x \in Nat
          BY <3>6, <4>1, <5>1 DEF RepliesAre, SentMsgs
        <5> QED BY ONLY <1>q, <5>1, <5>2
      <4>2. CASE i = Len(toNear) + 1
        BY <3>1, <3>2, <3>4, <4>2
      <4> QED BY <3>5, <4>1, <4>2
    <3>7. RepliesAre(e)'
      BY <1>9, <3>6 DEF RepliesAre
    <3> QED BY ONLY <2>1, <3>1, <3>2, <3>4, <3>5, <3>7
  <2>3. CASE ~(last /\ near = "open")
    <3>1. toNear' = toNear
      BY <1>3, <2>3
    <3>2. ASSUME NEW i \in 1..Len(toNear'), toNear'[i].k = "reply" PROVE toNear'[i].x <= h + n
      <4>1. toNear[i] \in SentMsgs /\ toNear'[i] = toNear[i] /\ i \in 1..Len(toNear)
        BY <2>1, <3>1, <3>2
      <4>2. toNear[i].x <= h /\ toNear[i].x \in Nat
        BY <3>2, <4>1 DEF RepliesAre, SentMsgs
      <4> QED BY ONLY <1>q, <4>1, <4>2
    <3>3. RepliesAre(e)'
      BY <1>9, <3>2 DEF RepliesAre
    <3> QED BY ONLY <2>1, <3>1, <3>3
  <2> QED BY <2>2, <2>3
<1>15. NamesAreKept'
  <2>1. DOMAIN toNear' = 1..Len(toNear') /\ DOMAIN toFar' = 1..Len(toFar') /\ DOMAIN toNear = 1..Len(toNear)
        /\ DOMAIN toFar = 1..Len(toFar) /\ \A i \in 1..Len(toNear') : toNear'[i] \in SentMsgs
    BY <1>10, <1>14, SMTT(30) DEF ChannelType
  <2>2. \A i \in DOMAIN toNear' : "device" \notin toNear'[i].of
    BY <1>14, <2>1 DEF NamesAreKept
  <2>3. ASSUME NEW i \in DOMAIN toFar' PROVE toFar'[i].of \cap {"client", "proxy"} = {}
    <3>1. CASE i \in 1..Len(toFar)
      <4>1. toFar'[i] = toFar[i]
        BY <1>10, <3>1
      <4> QED BY <2>1, <3>1, <4>1 DEF NamesAreKept
    <3>2. CASE i \notin 1..Len(toFar)
      <4>1. far = "open"
        BY <1>10, <2>1, <2>3, <3>2
      <4>2. PICK j \in 1..q : i = Len(toFar) + j
        <5>1. i - Len(toFar) \in 1..q /\ i = Len(toFar) + (i - Len(toFar))
          BY ONLY <1>q, <1>10, <2>1, <3>2, <4>1, i \in DOMAIN toFar', SMTT(30)
        <5> QED BY <5>1
      <4> QED BY <1>6, <1>10, <4>1, <4>2
    <3> QED BY <3>1, <3>2
  <2>4. ASSUME NEW i \in DOMAIN toNear', NEW j \in DOMAIN toNear', i < j,
               toNear'[i].k = "reply" <=> toNear'[j].k = "reply"
        PROVE  toNear'[i].x < toNear'[j].x
    <3>1. CASE j \in 1..Len(toNear)
      <4>1. i \in 1..Len(toNear) /\ j \in 1..Len(toNear)
        BY <1>14, <2>1, <2>4, <3>1
      <4>2. toNear'[i] = toNear[i] /\ toNear'[j] = toNear[j]
        BY <1>14, <2>1, <2>4, <4>1
      <4> QED BY <2>1, <2>4, <4>1, <4>2 DEF NamesAreKept
    <3>2. CASE j \notin 1..Len(toNear)
      <4>1. j = Len(toNear) + 1 /\ toNear'[j].k = "reply" /\ toNear'[j].x = h + n /\ n > 0
        BY <1>14, <2>1, <3>2
      <4>2. i \in 1..Len(toNear)
        BY <1>14, <2>1, <2>4, <4>1
      <4>3. toNear'[i] = toNear[i] /\ toNear[i].k = "reply"
        BY <1>14, <2>1, <2>4, <4>1, <4>2
      <4>4. toNear[i].x <= h /\ toNear[i].x \in Nat
        BY <2>1, <4>2, <4>3 DEF RepliesAre, ChannelType, SentMsgs
      <4> QED BY <1>1, <1>2, <4>1, <4>3, <4>4
    <3> QED BY <3>1, <3>2
  <2> QED BY <2>2, <2>3, <2>4 DEF NamesAreKept
<1>16. \A i \in 1..Len(toNear') : toNear'[i].k # "reply" => i \in 1..Len(toNear) /\ toNear'[i] = toNear[i]
  BY <1>14
<1> QED BY <1>3, <1>7, <1>8, <1>9, <1>10, <1>13, <1>14, <1>15, <1>16


(* What does not touch what was whole on.                                    *)
LEMMA SameSent ==
    ASSUME ChannelType, NEW h \in Nat, ToFarIs(h), toFar' = toFar, channel' = channel,
           Len(nearSent) \in Nat, h <= Len(nearSent),
           \A i \in 1..Len(nearSent) : nearSent'[i] = nearSent[i], far' = "open" => far = "open" \/ h = 0
    PROVE  ToFarIs(h)'
<1>1. \A m : (Ignores(m)' <=> Ignores(m)) /\ OfClient(m)' = OfClient(m)
  BY DEF Ignores, OfClient
<1>2. \A e \in 1..h : ReachesFar(e) => ReachesFar(e)'
  <2>1. \A e \in 1..h : e \in 1..Len(nearSent)
    OBVIOUS
  <2> QED BY <1>1, <2>1 DEF ReachesFar, Ignores
<1>3. ASSUME NEW i \in 1..Len(toFar)
      PROVE  /\ toFar[i].x \in 1..h /\ ~Ignores(nearSent'[toFar[i].x]) /\ toFar[i] = OfClient(nearSent'[toFar[i].x])
             /\ \A j \in 1..(i - 1) : toFar[j].x < toFar[i].x
             /\ \A e \in 1..toFar[i].x : ReachesFar(e)'
  <2>1. /\ toFar[i].x \in 1..h /\ ~Ignores(nearSent[toFar[i].x]) /\ toFar[i] = OfClient(nearSent[toFar[i].x])
        /\ \A j \in 1..(i - 1) : toFar[j].x < toFar[i].x
        /\ \A e \in 1..toFar[i].x : ReachesFar(e)
    BY DEF ToFarIs
  <2>2. toFar[i].x \in 1..Len(nearSent) /\ \A e \in 1..toFar[i].x : e \in 1..h
    BY <2>1
  <2> QED BY <1>2, <2>1, <2>2
<1>4. far' = "open" => \A e \in 1..h : ReachesFar(e)'
  BY <1>2 DEF ToFarIs
<1> QED BY <1>1, <1>3, <1>4 DEF ToFarIs

LEMMA NearSendsKeeps ==
    ASSUME ChannelInv, NEW k \in {"info", "volume", "configure", "other"}, NearSends(k)
    PROVE  ChannelInv'
<1>1. ChannelType /\ NamesAreKept
  BY DEF ChannelInv
<1>2. PICK h \in 0..Len(nearSent) : NearIs(h) /\ ToFarIs(h) /\ RepliesAre(h)
  BY DEF ChannelInv
<1>3. PICK g \in 0..Len(farSent) : FarIs(g)
  BY DEF ChannelInv
<1>4. PICK m : m = [k |-> k, x |-> Len(nearSent) + 1, sync |-> channel = "data",
                    of |-> CASE k = "info" -> {"client"} [] k = "volume" -> {"proxy"} [] OTHER -> {}]
  OBVIOUS
<1>5. /\ near = "open" /\ (channel = "event" => k = "other")
      /\ nearSent' = Append(nearSent, m) /\ nearNet' = nearNet \o Parts(m)
      /\ UNCHANGED <<channel, joined, near, far, farSent, farNet, early, localBuffer, remoteBuffer, ignored, toFar, toNear>>
  BY <1>4 DEF NearSends
<1>6. nearSent \in Seq(NearMsgs) /\ Len(nearSent) \in Nat /\ h \in Nat /\ channel \in {"event", "data"}
  BY <1>1 DEF ChannelType
<1>7. m \in NearMsgs /\ m.x = Len(nearSent) + 1
  <2>1. m.of \in SUBSET {"client", "proxy"} /\ m.k = k /\ m.x = Len(nearSent) + 1
        /\ (k = "info" => m.of = {"client"}) /\ (k = "volume" => m.of = {"proxy"})
        /\ (k \in {"configure", "other"} => m.of = {})
    BY <1>4
  <2>2. m.sync \in BOOLEAN /\ (channel = "data" => m.sync)
    BY <1>4, Zenon
  <2>3. m \in [k : {"info", "volume", "configure", "other"}, x : Nat, sync : BOOLEAN, of : SUBSET {"client", "proxy"}]
    <3>1. m = [k |-> m.k, x |-> m.x, sync |-> m.sync, of |-> m.of]
      BY <1>4, Zenon
    <3>2. m.k \in {"info", "volume", "configure", "other"} /\ m.x \in Nat
      BY <1>6, <2>1
    <3> QED BY <2>1, <2>2, <3>1, <3>2
  <2> QED BY <1>5, <2>1, <2>2, <2>3 DEF NearMsgs
<1>8. /\ nearSent' \in Seq(NearMsgs) /\ Len(nearSent') = Len(nearSent) + 1
      /\ nearSent'[Len(nearSent) + 1] = m /\ \A i \in 1..Len(nearSent) : nearSent'[i] = nearSent[i]
  BY <1>5, <1>6, <1>7
<1>9. \A i \in 1..Len(nearSent') : nearSent'[i].x = i
  <2>1. \A i \in 1..Len(nearSent') : i \in 1..Len(nearSent) \/ i = Len(nearSent) + 1
    BY <1>6, <1>8
  <2>2. \A i \in 1..Len(nearSent) : nearSent[i].x = i
    BY <1>1 DEF ChannelType
  <2> QED BY <1>7, <1>8, <2>1, <2>2
<1>10. NearMsgs' = NearMsgs /\ FarMsgs' = FarMsgs
  BY <1>5 DEF NearMsgs, FarMsgs
<1>11. /\ localBuffer \in Seq(PartsIn(NearMsgs)) /\ early \in Seq(PartsIn(NearMsgs)) /\ nearNet \in Seq(PartsIn(NearMsgs))
       /\ Len(localBuffer) \in Nat /\ Len(early) \in Nat /\ Len(nearNet) \in Nat
       /\ 2 * h \in Nat /\ 2 * h + Len(localBuffer) \in Nat /\ 2 * h + Len(localBuffer) + Len(early) \in Nat
  <2>1. /\ localBuffer \in Seq(PartsIn(NearMsgs)) /\ early \in Seq(PartsIn(NearMsgs)) /\ nearNet \in Seq(PartsIn(NearMsgs))
    BY <1>1 DEF ChannelType
  <2>2. Len(localBuffer) \in Nat /\ Len(early) \in Nat /\ Len(nearNet) \in Nat
    BY <2>1
  <2> QED BY ONLY <1>6, <2>1, <2>2
<1>12. Follows(localBuffer, nearSent', 2 * h) /\ Follows(early, nearSent', 2 * h + Len(localBuffer))
  <2>1. Follows(localBuffer, nearSent, 2 * h) /\ Follows(early, nearSent, 2 * h + Len(localBuffer))
    BY <1>2 DEF NearIs
  <2> QED BY <1>5, <1>6, <1>7, <1>11, <2>1, MoreIsSent
<1>13. /\ nearNet' \in Seq(PartsIn(NearMsgs)) /\ Len(nearNet') = Len(nearNet) + 2
       /\ Follows(nearNet', nearSent', 2 * h + Len(localBuffer) + Len(early))
       /\ 2 * h + Len(localBuffer) + Len(early) + Len(nearNet) = 2 * Len(nearSent)
  <2>1. /\ Follows(nearNet, nearSent, 2 * h + Len(localBuffer) + Len(early))
        /\ 2 * h + Len(localBuffer) + Len(early) + Len(nearNet) = 2 * Len(nearSent)
    BY <1>2, <1>5 DEF NearIs
  <2>2. PICK o \in Nat : o = 2 * h + Len(localBuffer) + Len(early)
    BY <1>11
  <2>3. Follows(nearNet, nearSent, o) /\ o + Len(nearNet) = 2 * Len(nearSent)
    BY <2>1, <2>2
  <2>4. /\ nearNet \o Parts(m) \in Seq(PartsIn(NearMsgs)) /\ Len(nearNet \o Parts(m)) = Len(nearNet) + 2
        /\ Follows(nearNet \o Parts(m), Append(nearSent, m), o)
    BY <1>6, <1>7, <1>11, <2>3, MoreIsSent
  <2> QED BY <1>5, <2>1, <2>2, <2>4
<1>14. NearIs(h)'
  <2>1. 2 * h + Len(localBuffer) + Len(early) + Len(nearNet') = 2 * Len(nearSent')
    <3>1. PICK a \in Nat, b \in Nat, c \in Nat :
            a = Len(nearSent) /\ b = Len(nearNet) /\ c = 2 * h + Len(localBuffer) + Len(early)
      BY <1>6, <1>11
    <3>2. Len(nearSent') = a + 1 /\ Len(nearNet') = b + 2 /\ c + b = 2 * a
      BY <1>8, <1>13, <3>1
    <3>3. c + (b + 2) = 2 * (a + 1)
      BY ONLY <3>1, <3>2
    <3> QED BY <3>1, <3>2, <3>3
  <2>2. (joined # "yes" => h = 0) /\ (joined = "yes" => early = <<>> /\ (Len(localBuffer) >= 2 => ignored))
    BY <1>2 DEF NearIs
  <2> QED BY <1>5, <1>12, <1>13, <2>1, <2>2 DEF NearIs
<1>15. ToFarIs(h)' /\ RepliesAre(h)'
  <2>1. ToFarIs(h)'
    BY <1>1, <1>2, <1>5, <1>6, <1>8, SameSent
  <2> QED BY <1>2, <1>5, <2>1 DEF RepliesAre
<1>16. ChannelType'
  BY <1>1, <1>5, <1>8, <1>9, <1>10, <1>13 DEF ChannelType
<1>17. NamesAreKept' /\ FarIs(g)'
  BY <1>1, <1>3, <1>5 DEF NamesAreKept, FarIs
<1>18. h \in 0..Len(nearSent') /\ g \in 0..Len(farSent')
  BY <1>5, <1>6, <1>8
<1> QED BY <1>14, <1>15, <1>16, <1>17, <1>18 DEF ChannelInv

LEMMA FarSendsKeeps ==
    ASSUME ChannelInv, NEW k \in {"info", "outputs", "volume", "other"}, NEW names \in SUBSET {"device", "speaker"},
           FarSends(k, names)
    PROVE  ChannelInv'
<1>1. ChannelType /\ NamesAreKept
  BY DEF ChannelInv
<1>2. PICK h \in 0..Len(nearSent) : NearIs(h) /\ ToFarIs(h) /\ RepliesAre(h)
  BY DEF ChannelInv
<1>3. PICK g \in 0..Len(farSent) : FarIs(g)
  BY DEF ChannelInv
<1>4. PICK m : m = [k |-> k, x |-> Len(farSent) + 1, sync |-> TRUE, of |-> names]
  OBVIOUS
<1>5. /\ far = "open" /\ (k = "other" => names = {}) /\ (channel = "event" => k \in {"info", "other"})
      /\ farSent' = Append(farSent, m) /\ farNet' = farNet \o Parts(m)
      /\ UNCHANGED <<channel, joined, near, far, nearSent, nearNet, early, localBuffer, remoteBuffer, ignored, toFar, toNear>>
  BY <1>4 DEF FarSends
<1>6. farSent \in Seq(FarMsgs) /\ Len(farSent) \in Nat /\ g \in Nat /\ channel \in {"event", "data"}
  BY <1>1 DEF ChannelType
<1>7. m \in FarMsgs /\ m.x = Len(farSent) + 1
  <2>1. m.k = k /\ m.x = Len(farSent) + 1 /\ m.of = names
    BY <1>4
  <2>2. m \in [k : {"info", "outputs", "volume", "other"}, x : Nat, sync : {TRUE}, of : SUBSET {"device", "speaker"}]
    <3>1. Len(farSent) + 1 \in Nat
      BY <1>6
    <3> QED BY <1>4, <3>1, Zenon
  <2>3. (m.k = "other" => m.of = {}) /\ (channel = "event" => m.k \in {"info", "other"})
    BY <1>5, <2>1
  <2> QED BY <2>1, <2>2, <2>3 DEF FarMsgs
<1>8. /\ farSent' \in Seq(FarMsgs) /\ Len(farSent') = Len(farSent) + 1
      /\ farSent'[Len(farSent) + 1] = m /\ \A i \in 1..Len(farSent) : farSent'[i] = farSent[i]
  BY <1>5, <1>6, <1>7
<1>9. \A i \in 1..Len(farSent') : farSent'[i].x = i
  <2>1. \A i \in 1..Len(farSent') : i \in 1..Len(farSent) \/ i = Len(farSent) + 1
    BY <1>6, <1>8
  <2>2. \A i \in 1..Len(farSent) : farSent[i].x = i
    BY <1>1 DEF ChannelType
  <2> QED BY <1>7, <1>8, <2>1, <2>2
<1>10. NearMsgs' = NearMsgs /\ FarMsgs' = FarMsgs
  BY <1>5 DEF NearMsgs, FarMsgs
<1>11. /\ remoteBuffer \in Seq(PartsIn(FarMsgs)) /\ farNet \in Seq(PartsIn(FarMsgs))
       /\ Len(remoteBuffer) \in Nat /\ Len(farNet) \in Nat /\ 2 * g \in Nat /\ 2 * g + Len(remoteBuffer) \in Nat
  <2>1. remoteBuffer \in Seq(PartsIn(FarMsgs)) /\ farNet \in Seq(PartsIn(FarMsgs))
    BY <1>1 DEF ChannelType
  <2>2. Len(remoteBuffer) \in Nat /\ Len(farNet) \in Nat
    BY <2>1
  <2> QED BY ONLY <1>6, <2>1, <2>2
<1>12. /\ Follows(remoteBuffer, farSent, 2 * g) /\ Follows(farNet, farSent, 2 * g + Len(remoteBuffer))
       /\ 2 * g + Len(remoteBuffer) + Len(farNet) = 2 * Len(farSent)
       /\ \A i \in 1..Len(toNear) : toNear[i].k # "reply" => toNear[i].x <= g
  BY <1>3, <1>5 DEF FarIs
<1>13. Follows(remoteBuffer, farSent', 2 * g)
  BY <1>5, <1>6, <1>7, <1>11, <1>12, MoreIsSent
<1>14. /\ farNet' \in Seq(PartsIn(FarMsgs)) /\ Len(farNet') = Len(farNet) + 2
       /\ Follows(farNet', farSent', 2 * g + Len(remoteBuffer))
  <2>1. PICK o \in Nat : o = 2 * g + Len(remoteBuffer)
    BY <1>11
  <2>2. Follows(farNet, farSent, o) /\ o + Len(farNet) = 2 * Len(farSent)
    BY <1>12, <2>1
  <2>3. /\ farNet \o Parts(m) \in Seq(PartsIn(FarMsgs)) /\ Len(farNet \o Parts(m)) = Len(farNet) + 2
        /\ Follows(farNet \o Parts(m), Append(farSent, m), o)
    BY <1>6, <1>7, <1>11, <2>2, MoreIsSent
  <2> QED BY <1>5, <2>1, <2>3
<1>15. FarIs(g)'
  <2>1. 2 * g + Len(remoteBuffer) + Len(farNet') = 2 * Len(farSent')
    <3>1. PICK a \in Nat, b \in Nat, c \in Nat :
            a = Len(farSent) /\ b = Len(farNet) /\ c = 2 * g + Len(remoteBuffer)
      BY <1>6, <1>11
    <3>2. Len(farSent') = a + 1 /\ Len(farNet') = b + 2 /\ c + b = 2 * a
      BY <1>8, <1>12, <1>14, <3>1
    <3>3. c + (b + 2) = 2 * (a + 1)
      BY ONLY <3>1, <3>2
    <3> QED BY <3>1, <3>2, <3>3
  <2>2. joined = "no" => far = "none"
    BY <1>3 DEF FarIs
  <2> QED BY <1>5, <1>12, <1>13, <1>14, <2>1, <2>2 DEF FarIs
<1>16. ChannelType'
  BY <1>1, <1>5, <1>8, <1>9, <1>10, <1>14 DEF ChannelType
<1>17. NamesAreKept' /\ NearIs(h)' /\ RepliesAre(h)'
  BY <1>1, <1>2, <1>5 DEF NamesAreKept, NearIs, RepliesAre
<1>18. ToFarIs(h)'
  <2>1. h \in Nat /\ Len(nearSent) \in Nat /\ h <= Len(nearSent)
    BY <1>1 DEF ChannelType
  <2> QED BY <1>1, <1>2, <1>5, <2>1, SameSent
<1>19. h \in 0..Len(nearSent') /\ g \in 0..Len(farSent')
  BY <1>5, <1>6, <1>8
<1> QED BY <1>15, <1>16, <1>17, <1>18, <1>19 DEF ChannelInv


(* Of parts that came after b, which were r and n more, 2 m are taken.       *)
LEMMA PartsAreCounted ==
    ASSUME NEW e \in Nat, NEW g \in Nat, NEW m \in Nat, NEW r \in Nat, NEW n \in Nat, NEW b \in Nat,
           NEW f \in Nat, NEW t \in Nat, e = g + m, b = 2 * g + r, b + f = 2 * t
    PROVE  2 * e + (r + n - 2 * m) = b + n /\ b + n + (f - n) = 2 * t
OBVIOUS

LEMMA NearDataKeeps ==
    ASSUME ChannelInv, NearData
    PROVE  ChannelInv'
<1>1. ChannelType /\ NamesAreKept
  BY DEF ChannelInv
<1>2. PICK h \in 0..Len(nearSent) : NearIs(h) /\ ToFarIs(h) /\ RepliesAre(h)
  BY DEF ChannelInv
<1>3. PICK g \in 0..Len(farSent) : FarIs(g)
  BY DEF ChannelInv
<1>4. PICK n \in 1..Len(nearNet) :
        /\ IF joined = "yes" THEN HandleReceived(localBuffer \o early \o SubSeq(nearNet, 1, n))
           ELSE early' = early \o SubSeq(nearNet, 1, n) /\ UNCHANGED <<localBuffer, ignored, toFar, toNear>>
        /\ nearNet' = From(nearNet, n + 1)
  BY DEF NearData
<1>5. near = "open" /\ UNCHANGED <<channel, joined, near, far, nearSent, farSent, farNet, remoteBuffer>>
  BY DEF NearData
<1>6. /\ nearSent \in Seq(NearMsgs) /\ Len(nearSent) \in Nat /\ h \in Nat
      /\ localBuffer \in Seq(PartsIn(NearMsgs)) /\ early \in Seq(PartsIn(NearMsgs)) /\ nearNet \in Seq(PartsIn(NearMsgs))
  BY <1>1 DEF ChannelType
<1>7. /\ Len(localBuffer) \in Nat /\ Len(early) \in Nat /\ Len(nearNet) \in Nat /\ n \in 0..Len(nearNet) /\ n \in Nat
      /\ 2 * h \in Nat
  <2>1. Len(localBuffer) \in Nat /\ Len(early) \in Nat /\ Len(nearNet) \in Nat
    BY <1>6
  <2> QED BY ONLY <1>6, <2>1, n \in 1..Len(nearNet)
<1>8. PICK b \in Nat, c \in Nat : b = 2 * h + Len(localBuffer) /\ c = 2 * h + Len(localBuffer) + Len(early)
  BY ONLY <1>7
<1> DEFINE new == SubSeq(nearNet, 1, n)
<1>9. /\ Follows(localBuffer, nearSent, 2 * h) /\ Follows(early, nearSent, b) /\ Follows(nearNet, nearSent, c)
      /\ c + Len(nearNet) = 2 * Len(nearSent)
      /\ (joined # "yes" => h = 0) /\ (joined = "yes" => early = <<>> /\ (Len(localBuffer) >= 2 => ignored))
  BY <1>2, <1>5, <1>8 DEF NearIs
<1>10. /\ new \in Seq(PartsIn(NearMsgs)) /\ Len(new) = n /\ Follows(new, nearSent, c)
       /\ nearNet' \in Seq(PartsIn(NearMsgs)) /\ Len(nearNet') = Len(nearNet) - n /\ Follows(nearNet', nearSent, c + n)
  <2>1. /\ SubSeq(nearNet, 1, n) \in Seq(PartsIn(NearMsgs)) /\ Len(SubSeq(nearNet, 1, n)) = n
        /\ Follows(SubSeq(nearNet, 1, n), nearSent, c)
        /\ From(nearNet, n + 1) \in Seq(PartsIn(NearMsgs)) /\ Len(From(nearNet, n + 1)) = Len(nearNet) - n
        /\ Follows(From(nearNet, n + 1), nearSent, c + n)
    BY ONLY <1>6, <1>7, c \in Nat, <1>9, CutAnywhere
  <2> QED BY <1>4, <2>1
<1> HIDE DEF new
<1>11. NearMsgs' = NearMsgs /\ FarMsgs' = FarMsgs
  BY <1>5 DEF NearMsgs, FarMsgs
<1>12. FarIs(g)' <=> (\A i \in 1..Len(toNear') : toNear'[i].k # "reply" => toNear'[i].x <= g)
  BY <1>3, <1>5 DEF FarIs
<1>13. CASE joined = "yes"
  <2> DEFINE parts == localBuffer \o early \o new
  <2>1. /\ localBuffer \o early \in Seq(PartsIn(NearMsgs)) /\ Len(localBuffer \o early) = Len(localBuffer) + Len(early)
        /\ Follows(localBuffer \o early, nearSent, 2 * h)
    BY <1>6, <1>7, <1>8, <1>9, JoinedAgain
  <2>2. 2 * h + Len(localBuffer \o early) = c
    BY <1>7, <1>8, <2>1
  <2>3. parts \in Seq(PartsIn(NearMsgs)) /\ Len(parts) = Len(localBuffer) + Len(early) + n /\ Follows(parts, nearSent, 2 * h)
    <3>1. Follows(new, nearSent, 2 * h + Len(localBuffer \o early))
      BY <1>10, <2>2
    <3>2. PICK p : p = localBuffer \o early
      OBVIOUS
    <3>3. p \in Seq(PartsIn(NearMsgs)) /\ Follows(p, nearSent, 2 * h) /\ Follows(new, nearSent, 2 * h + Len(p))
          /\ new \in Seq(PartsIn(NearMsgs)) /\ nearSent \in Seq(NearMsgs) /\ 2 * h \in Nat
      BY <1>6, <1>7, <1>10, <2>1, <3>1, <3>2
    <3>4. p \o new \in Seq(PartsIn(NearMsgs)) /\ Len(p \o new) = Len(p) + Len(new) /\ Follows(p \o new, nearSent, 2 * h)
      BY ONLY <3>3, JoinedAgain
    <3> QED BY <1>10, <2>1, <3>2, <3>4
  <2>4. HandleReceived(parts)
    BY <1>4, <1>13 DEF new
  <2> HIDE DEF parts
  <2>5. PICK e \in h..Len(nearSent) :
          /\ localBuffer' \in Seq(PartsIn(NearMsgs)) /\ Len(localBuffer') = Len(parts) - 2 * (e - h)
          /\ Follows(localBuffer', nearSent, 2 * e)
          /\ early' = <<>> /\ ignored' \in BOOLEAN /\ (Len(localBuffer') >= 2 => ignored')
          /\ toFar' \in Seq(SentMsgs) /\ toNear' \in Seq(SentMsgs)
          /\ ToFarIs(e)' /\ RepliesAre(e)' /\ NamesAreKept'
          /\ \A i \in 1..Len(toNear') : toNear'[i].k # "reply" =>
                    i \in 1..Len(toNear) /\ toNear'[i] = toNear[i]
    BY <1>1, <1>2, <1>5, <2>3, <2>4, HandlesInOrder
  <2>6. /\ e \in Nat /\ Len(localBuffer') \in Nat /\ 2 * e + Len(localBuffer') = c + n
        /\ c + n + Len(nearNet') = 2 * Len(nearSent)
    <3>1. e \in Nat
      BY <1>6
    <3>2. Len(localBuffer') \in Nat
      BY <2>5
    <3>3. 2 * e + Len(localBuffer') = c + n /\ c + n + Len(nearNet') = 2 * Len(nearSent)
      <4>1. /\ Len(localBuffer') = Len(localBuffer) + Len(early) + n - 2 * (e - h)
            /\ Len(nearNet') = Len(nearNet) - n /\ c + Len(nearNet) = 2 * Len(nearSent)
            /\ c = 2 * h + Len(localBuffer) + Len(early)
        BY <1>8, <1>9, <1>10, <2>3, <2>5
      <4>2. h \in Nat /\ Len(nearSent) \in Nat
        BY <1>6
      <4>3. PICK l \in Nat, y \in Nat, f \in Nat, t \in Nat :
              l = Len(localBuffer) /\ y = Len(early) /\ f = Len(nearNet) /\ t = Len(nearSent)
        BY <1>7, <4>2
      <4>4. PICK r \in Nat, m \in Nat : r = l + y /\ m = e - h
        <5>1. l + y \in Nat /\ e - h \in Nat
          BY ONLY <4>2, e \in h..Len(nearSent), l \in Nat, y \in Nat
        <5> QED BY <5>1
      <4>5. Len(localBuffer') = r + n - 2 * m /\ Len(nearNet') = f - n /\ c + f = 2 * t
        BY <4>1, <4>3, <4>4
      <4>6. c = 2 * h + r /\ e = h + m
        <5>1. c = 2 * h + l + y
          BY <4>1, <4>3
        <5> QED BY ONLY <3>1, <4>2, <4>4, <5>1, l \in Nat, y \in Nat
      <4>7. 2 * e + (r + n - 2 * m) = c + n /\ c + n + (f - n) = 2 * t
        BY <1>7, <3>1, <4>2, <4>5, <4>6, PartsAreCounted
      <4> QED BY <4>3, <4>5, <4>7
    <3> QED BY <3>1, <3>2, <3>3
  <2>7. NearIs(e)'
    <3>1. Len(early') = 0 /\ early' = <<>>
      BY <2>5
    <3>2. 2 * e + Len(localBuffer') + Len(early') = c + n
      BY <2>6, <3>1
    <3>3. Follows(early', nearSent, 2 * e + Len(localBuffer'))
      BY <1>6, <1>10, <2>6, <3>1 DEF Follows
    <3>4. Follows(nearNet', nearSent, 2 * e + Len(localBuffer') + Len(early'))
      BY <1>10, <3>2
    <3>5. 2 * e + Len(localBuffer') + Len(early') + Len(nearNet') = 2 * Len(nearSent)
      BY <2>6, <3>2
    <3> QED BY <1>5, <1>13, <2>5, <3>3, <3>4, <3>5 DEF NearIs
  <2>8. ChannelType'
    <3>1. early' \in Seq(PartsIn(NearMsgs))
      BY <2>5
    <3> QED BY <1>1, <1>5, <1>10, <1>11, <2>5, <3>1 DEF ChannelType
  <2>9. FarIs(g)'
    <3>1. \A i \in 1..Len(toNear') : toNear'[i].k # "reply" => toNear'[i].x <= g
      BY <1>3, <2>5 DEF FarIs
    <3> QED BY <1>12, <3>1
  <2>10. e \in 0..Len(nearSent') /\ g \in 0..Len(farSent')
    BY <1>5, <1>6, <2>6
  <2> QED BY <2>5, <2>7, <2>8, <2>9, <2>10 DEF ChannelInv
<1>14. CASE joined # "yes"
  <2>1. early' = early \o new /\ UNCHANGED <<localBuffer, ignored, toFar, toNear>>
    BY <1>4, <1>14 DEF new
  <2>2. b + Len(early) = c
    BY ONLY <1>7, <1>8
  <2>3. /\ early' \in Seq(PartsIn(NearMsgs)) /\ Len(early') = Len(early) + n /\ Follows(early', nearSent, b)
    <3>1. Follows(new, nearSent, b + Len(early))
      BY <1>10, <2>2
    <3>2. /\ early \o new \in Seq(PartsIn(NearMsgs)) /\ Len(early \o new) = Len(early) + Len(new)
          /\ Follows(early \o new, nearSent, b)
      BY ONLY <1>6, b \in Nat, <1>9, <1>10, <3>1, JoinedAgain
    <3> QED BY <1>10, <2>1, <3>2
  <2>4. b + Len(early') = c + n /\ c + n + Len(nearNet') = 2 * Len(nearSent)
    <3>1. Len(early') = Len(early) + n /\ Len(nearNet') = Len(nearNet) - n /\ c + Len(nearNet) = 2 * Len(nearSent)
      BY <1>9, <1>10, <2>3
    <3> QED BY ONLY <1>7, <2>2, <3>1, b \in Nat, c \in Nat, SMTT(30)
  <2>5. NearIs(h)'
    <3>1. 2 * h + Len(localBuffer) + Len(early') = c + n
      BY <1>8, <2>4
    <3> QED BY <1>5, <1>8, <1>9, <1>10, <1>14, <2>1, <2>3, <2>4, <3>1 DEF NearIs
  <2>6. ToFarIs(h)'
    <3>1. h <= Len(nearSent)
      BY <1>6
    <3> QED BY <1>1, <1>2, <1>5, <1>6, <2>1, <3>1, SameSent
  <2>7. RepliesAre(h)' /\ NamesAreKept' /\ FarIs(g)'
    BY <1>1, <1>2, <1>3, <1>5, <2>1 DEF RepliesAre, NamesAreKept, FarIs
  <2>8. ChannelType'
    BY <1>1, <1>5, <1>10, <1>11, <2>1, <2>3 DEF ChannelType
  <2> QED BY <1>5, <2>5, <2>6, <2>7, <2>8 DEF ChannelInv
<1> QED BY <1>13, <1>14

LEMMA ConnectedKeeps ==
    ASSUME ChannelInv, Connected
    PROVE  ChannelInv'
<1>1. ChannelType /\ NamesAreKept
  BY DEF ChannelInv
<1>2. PICK h \in 0..Len(nearSent) : NearIs(h) /\ ToFarIs(h) /\ RepliesAre(h)
  BY DEF ChannelInv
<1>3. PICK g \in 0..Len(farSent) : FarIs(g)
  BY DEF ChannelInv
<1>4. /\ joined = "made" /\ joined' = "yes" /\ HandleReceived(localBuffer \o early)
      /\ UNCHANGED <<channel, near, far, nearSent, farSent, nearNet, farNet, remoteBuffer>>
  BY DEF Connected
<1>5. /\ nearSent \in Seq(NearMsgs) /\ Len(nearSent) \in Nat /\ h \in Nat /\ 2 * h \in Nat
      /\ localBuffer \in Seq(PartsIn(NearMsgs)) /\ early \in Seq(PartsIn(NearMsgs)) /\ nearNet \in Seq(PartsIn(NearMsgs))
  BY <1>1 DEF ChannelType
<1>6. Len(localBuffer) \in Nat /\ Len(early) \in Nat /\ Len(nearNet) \in Nat
  BY <1>5
<1>7. PICK b \in Nat, c \in Nat : b = 2 * h + Len(localBuffer) /\ c = 2 * h + Len(localBuffer) + Len(early)
  <2>1. 2 * h + Len(localBuffer) \in Nat /\ 2 * h + Len(localBuffer) + Len(early) \in Nat
    BY ONLY <1>5, <1>6
  <2> QED BY <2>1
<1>8. /\ Follows(localBuffer, nearSent, 2 * h) /\ Follows(early, nearSent, b) /\ Follows(nearNet, nearSent, c)
      /\ near = "open" => c + Len(nearNet) = 2 * Len(nearSent)
  BY <1>2, <1>7 DEF NearIs
<1> DEFINE parts == localBuffer \o early
<1>9. parts \in Seq(PartsIn(NearMsgs)) /\ Len(parts) = Len(localBuffer) + Len(early) /\ Follows(parts, nearSent, 2 * h)
  BY <1>5, <1>7, <1>8, JoinedAgain
<1>10. HandleReceived(parts)
  BY <1>4
<1> HIDE DEF parts
<1>11. PICK e \in h..Len(nearSent) :
         /\ localBuffer' \in Seq(PartsIn(NearMsgs)) /\ Len(localBuffer') = Len(parts) - 2 * (e - h)
         /\ Follows(localBuffer', nearSent, 2 * e)
         /\ early' = <<>> /\ ignored' \in BOOLEAN /\ (Len(localBuffer') >= 2 => ignored')
         /\ toFar' \in Seq(SentMsgs) /\ toNear' \in Seq(SentMsgs)
         /\ ToFarIs(e)' /\ RepliesAre(e)' /\ NamesAreKept'
         /\ \A i \in 1..Len(toNear') : toNear'[i].k # "reply" =>
                    i \in 1..Len(toNear) /\ toNear'[i] = toNear[i]
  BY <1>1, <1>2, <1>4, <1>9, <1>10, HandlesInOrder
<1>12. e \in Nat /\ Len(localBuffer') \in Nat /\ 2 * e + Len(localBuffer') = c
  <2>1. e \in Nat
    BY <1>5
  <2>2. Len(localBuffer') \in Nat
    BY <1>11
  <2>3. 2 * e + Len(localBuffer') = c
    BY ONLY <1>5, <1>6, <1>7, <1>9, <1>11, <2>1, <2>2
  <2> QED BY <2>1, <2>2, <2>3
<1>13. NearIs(e)'
  <2>1. Len(early') = 0 /\ early' = <<>>
    BY <1>11
  <2>2. 2 * e + Len(localBuffer') + Len(early') = c
    BY <1>12, <2>1
  <2>3. Follows(early', nearSent, 2 * e + Len(localBuffer'))
    BY <1>5, <1>8, <1>12, <2>1, <1>6 DEF Follows
  <2>4. Follows(nearNet', nearSent, 2 * e + Len(localBuffer') + Len(early'))
    BY <1>4, <1>8, <2>2
  <2>5. near = "open" => 2 * e + Len(localBuffer') + Len(early') + Len(nearNet') = 2 * Len(nearSent)
    BY <1>4, <1>8, <2>2
  <2> QED BY <1>4, <1>11, <2>3, <2>4, <2>5 DEF NearIs
<1>14. NearMsgs' = NearMsgs /\ FarMsgs' = FarMsgs
  BY <1>4 DEF NearMsgs, FarMsgs
<1>15. ChannelType'
  <2>1. early' \in Seq(PartsIn(NearMsgs))
    BY <1>11
  <2> QED BY <1>1, <1>4, <1>11, <1>14, <2>1 DEF ChannelType
<1>16. FarIs(g)'
  <2>1. \A i \in 1..Len(toNear') : toNear'[i].k # "reply" => toNear'[i].x <= g
    BY <1>3, <1>11 DEF FarIs
  <2> QED BY <1>3, <1>4, <2>1 DEF FarIs
<1>17. e \in 0..Len(nearSent') /\ g \in 0..Len(farSent')
  BY <1>4, <1>5, <1>12
<1> QED BY <1>11, <1>13, <1>15, <1>16, <1>17 DEF ChannelInv

LEMMA RemoteReceivedKeeps ==
    ASSUME ChannelInv, RemoteReceived
    PROVE  ChannelInv'
<1>1. ChannelType /\ NamesAreKept
  BY DEF ChannelInv
<1>2. PICK h \in 0..Len(nearSent) : NearIs(h) /\ ToFarIs(h) /\ RepliesAre(h)
  BY DEF ChannelInv
<1>3. PICK g \in 0..Len(farSent) : FarIs(g)
  BY DEF ChannelInv
<1>4. far = "open" /\ UNCHANGED <<channel, joined, near, far, nearSent, farSent, nearNet, early, localBuffer, ignored, toFar>>
  BY DEF RemoteReceived
<1>5. PICK n \in 1..Len(farNet) :
        LET parts == remoteBuffer \o SubSeq(farNet, 1, n)
            ms == Messages(parts)
        IN  /\ remoteBuffer' = From(parts, 2 * Len(ms) + 1)
            /\ toNear' = IF near = "open" THEN toNear \o [i \in DOMAIN ms |-> OfRemote(ms[i])] ELSE toNear
            /\ farNet' = From(farNet, n + 1)
  BY DEF RemoteReceived
<1> DEFINE new == SubSeq(farNet, 1, n)
           parts == remoteBuffer \o new
           ms == Messages(parts)
           on == [i \in DOMAIN ms |-> OfRemote(ms[i])]
<1>6. /\ remoteBuffer' = From(parts, 2 * Len(ms) + 1)
      /\ toNear' = (IF near = "open" THEN toNear \o on ELSE toNear)
      /\ farNet' = From(farNet, n + 1)
  BY <1>5
<1>7. /\ farSent \in Seq(FarMsgs) /\ Len(farSent) \in Nat /\ g \in Nat /\ 2 * g \in Nat
      /\ remoteBuffer \in Seq(PartsIn(FarMsgs)) /\ farNet \in Seq(PartsIn(FarMsgs))
      /\ channel \in {"event", "data"} /\ \A i \in 1..Len(farSent) : farSent[i].x = i
  BY <1>1 DEF ChannelType
<1>8. Len(remoteBuffer) \in Nat /\ Len(farNet) \in Nat /\ n \in Nat /\ n \in 0..Len(farNet)
  BY <1>7
<1>9. PICK b \in Nat : b = 2 * g + Len(remoteBuffer)
  BY ONLY <1>7, <1>8
<1>10. /\ Follows(remoteBuffer, farSent, 2 * g) /\ Follows(farNet, farSent, b)
       /\ b + Len(farNet) = 2 * Len(farSent)
       /\ \A i \in 1..Len(toNear) : toNear[i].k # "reply" => toNear[i].x <= g
  BY <1>3, <1>4, <1>9 DEF FarIs
<1>11. /\ new \in Seq(PartsIn(FarMsgs)) /\ Len(new) = n /\ Follows(new, farSent, b)
       /\ farNet' \in Seq(PartsIn(FarMsgs)) /\ Len(farNet') = Len(farNet) - n /\ Follows(farNet', farSent, b + n)
  <2>1. /\ SubSeq(farNet, 1, n) \in Seq(PartsIn(FarMsgs)) /\ Len(SubSeq(farNet, 1, n)) = n
        /\ Follows(SubSeq(farNet, 1, n), farSent, b)
        /\ From(farNet, n + 1) \in Seq(PartsIn(FarMsgs)) /\ Len(From(farNet, n + 1)) = Len(farNet) - n
        /\ Follows(From(farNet, n + 1), farSent, b + n)
    BY ONLY <1>7, <1>8, b \in Nat, <1>10, CutAnywhere
  <2> HIDE DEF parts, ms, on
  <2> QED BY <1>6, <2>1
<1> HIDE DEF new
<1>12. parts \in Seq(PartsIn(FarMsgs)) /\ Len(parts) = Len(remoteBuffer) + n /\ Follows(parts, farSent, 2 * g)
  <2>1. Follows(new, farSent, 2 * g + Len(remoteBuffer))
    BY <1>9, <1>11
  <2>2. /\ remoteBuffer \o new \in Seq(PartsIn(FarMsgs)) /\ Len(remoteBuffer \o new) = Len(remoteBuffer) + Len(new)
        /\ Follows(remoteBuffer \o new, farSent, 2 * g)
    BY ONLY <1>7, <1>10, <1>11, <2>1, JoinedAgain
  <2> QED BY <1>11, <2>2
<1> HIDE DEF parts
<1>13. /\ ms \in Seq(FarMsgs) /\ g + Len(ms) <= Len(farSent) /\ \A i \in 1..Len(ms) : ms[i] = farSent[g + i]
       /\ Len(parts) - 2 * Len(ms) \in {0, 1}
  <2>1. PICK p : p = parts
    OBVIOUS
  <2>2. p \in Seq(PartsIn(FarMsgs)) /\ Follows(p, farSent, 2 * g) /\ farSent \in Seq(FarMsgs) /\ g \in Nat
    BY <1>7, <1>12, <2>1
  <2>3. /\ Messages(p) \in Seq(FarMsgs) /\ g + Len(Messages(p)) <= Len(farSent)
        /\ \A i \in 1..Len(Messages(p)) : Messages(p)[i] = farSent[g + i]
        /\ Len(p) - 2 * Len(Messages(p)) \in {0, 1}
    BY ONLY <2>2, WholeMessages
  <2> QED BY <2>1, <2>3
<1> HIDE DEF ms
<1>14. Len(ms) \in Nat /\ DOMAIN ms = 1..Len(ms)
  BY <1>13
<1>15. PICK e \in 0..Len(farSent) : e = g + Len(ms)
  BY ONLY <1>7, <1>13, <1>14
<1>16. /\ on \in Seq(SentMsgs) /\ Len(on) = Len(ms)
       /\ \A j \in 1..Len(ms) : on[j].x = g + j /\ on[j].k # "reply" /\ "device" \notin on[j].of
  <2>1. ASSUME NEW j \in 1..Len(ms)
        PROVE  OfRemote(ms[j]) \in SentMsgs /\ OfRemote(ms[j]).x = g + j /\ OfRemote(ms[j]).k # "reply"
               /\ "device" \notin OfRemote(ms[j]).of
    <3>1. ms[j] \in FarMsgs /\ ms[j] = farSent[g + j] /\ g + j \in 1..Len(farSent)
      <4>1. g + j \in 1..Len(farSent) /\ ms[j] = farSent[g + j]
        BY ONLY <1>7, <1>13, <1>14, j \in 1..Len(ms)
      <4>2. ms[j] \in FarMsgs
        BY ONLY <1>13, j \in 1..Len(ms)
      <4> QED BY <4>1, <4>2
    <3>2. farSent[g + j].x = g + j
      BY <1>7, <3>1
    <3> QED BY <1>7, <3>1, <3>2, ToTheClient
  <2>2. on \in [1..Len(ms) -> SentMsgs] /\ \A j \in 1..Len(ms) : on[j] = OfRemote(ms[j])
    BY <1>14, <2>1
  <2> HIDE DEF on
  <2>3. on \in Seq(SentMsgs) /\ Len(on) = Len(ms)
    BY <1>14, <2>2
  <2> QED BY <2>1, <2>2, <2>3
<1> HIDE DEF on
<1>17. /\ remoteBuffer' \in Seq(PartsIn(FarMsgs)) /\ Len(remoteBuffer') = Len(parts) - 2 * Len(ms)
       /\ Follows(remoteBuffer', farSent, 2 * e)
  <2>1. PICK k \in 0..Len(parts) : k = 2 * Len(ms)
    <3>1. Len(parts) \in Nat
      BY <1>12
    <3> QED BY ONLY <1>13, <1>14, <3>1
  <2>2. 2 * g + k = 2 * e
    BY ONLY <1>7, <1>14, <1>15, <2>1
  <2>3. PICK p : p = parts
    OBVIOUS
  <2>4. p \in Seq(PartsIn(FarMsgs)) /\ Follows(p, farSent, 2 * g) /\ k \in 0..Len(p) /\ farSent \in Seq(FarMsgs)
    BY <1>7, <1>12, <2>1, <2>3
  <2>5. /\ From(p, k + 1) \in Seq(PartsIn(FarMsgs)) /\ Len(From(p, k + 1)) = Len(p) - k
        /\ Follows(From(p, k + 1), farSent, 2 * g + k)
    BY ONLY 2 * g \in Nat, <1>7, <2>4, CutAnywhere
  <2> QED BY <1>6, <2>1, <2>2, <2>3, <2>5
<1>18. /\ toNear' \in Seq(SentMsgs) /\ Len(toNear) \in Nat
       /\ \A i \in 1..Len(toNear') :
            \/ i \in 1..Len(toNear) /\ toNear'[i] = toNear[i]
            \/ \E j \in 1..Len(ms) : i = Len(toNear) + j /\ toNear'[i].x = g + j /\ toNear'[i].k # "reply"
                                    /\ "device" \notin toNear'[i].of
  <2>1. toNear \in Seq(SentMsgs)
    BY <1>1 DEF ChannelType
  <2>2. /\ toNear \o on \in Seq(SentMsgs) /\ Len(toNear \o on) = Len(toNear) + Len(on)
        /\ \A i \in 1..(Len(toNear) + Len(on)) : (toNear \o on)[i] = IF i <= Len(toNear) THEN toNear[i] ELSE on[i - Len(toNear)]
    <3>1. PICK s \in Seq(SentMsgs), t \in Seq(SentMsgs) : s = toNear /\ t = on
      BY <1>16, <2>1
    <3>2. /\ s \o t \in Seq(SentMsgs) /\ Len(s \o t) = Len(s) + Len(t)
          /\ \A i \in 1..(Len(s) + Len(t)) : (s \o t)[i] = IF i <= Len(s) THEN s[i] ELSE t[i - Len(s)]
      BY ONLY s \in Seq(SentMsgs), t \in Seq(SentMsgs), ConcatProperties
    <3> QED BY <3>1, <3>2
  <2>3. Len(toNear) \in Nat
    BY <2>1
  <2>4. CASE near = "open"
    <3>1. toNear' = toNear \o on
      BY <1>6, <2>4
    <3>2. ASSUME NEW i \in 1..Len(toNear'), i \notin 1..Len(toNear)
          PROVE  \E j \in 1..Len(ms) : i = Len(toNear) + j /\ toNear'[i] = on[j]
      <4>1. i - Len(toNear) \in 1..Len(ms) /\ i = Len(toNear) + (i - Len(toNear)) /\ ~(i <= Len(toNear))
            /\ i \in 1..(Len(toNear) + Len(on))
        BY ONLY <1>14, <1>16, <2>2, <2>3, <3>1, <3>2, i \in 1..Len(toNear')
      <4> QED BY <2>2, <3>1, <4>1
    <3>3. ASSUME NEW i \in 1..Len(toNear) PROVE toNear'[i] = toNear[i]
      <4>1. i \in 1..(Len(toNear) + Len(on)) /\ i <= Len(toNear)
        BY ONLY <1>14, <1>16, <2>3, i \in 1..Len(toNear)
      <4> QED BY <2>2, <3>1, <4>1
    <3>4. ASSUME NEW i \in 1..Len(toNear')
          PROVE  \/ i \in 1..Len(toNear) /\ toNear'[i] = toNear[i]
                 \/ \E j \in 1..Len(ms) : i = Len(toNear) + j /\ toNear'[i].x = g + j /\ toNear'[i].k # "reply"
                                    /\ "device" \notin toNear'[i].of
      <4>1. CASE i \in 1..Len(toNear)
        BY <3>3, <4>1
      <4>2. CASE i \notin 1..Len(toNear)
        <5>1. PICK j \in 1..Len(ms) : i = Len(toNear) + j /\ toNear'[i] = on[j]
          BY <3>2, <4>2
        <5> QED BY <1>16, <5>1
      <4> QED BY <4>1, <4>2
    <3> QED BY <2>2, <2>3, <3>1, <3>4
  <2>5. CASE near # "open"
    BY <1>6, <2>1, <2>3, <2>5
  <2> QED BY <2>4, <2>5
<1>19. NamesAreKept'
  <2>1. DOMAIN toNear' = 1..Len(toNear') /\ DOMAIN toNear = 1..Len(toNear)
    BY <1>1, <1>18 DEF ChannelType
  <2>2. \A i \in DOMAIN toNear' : "device" \notin toNear'[i].of
    BY <1>1, <1>18, <2>1 DEF NamesAreKept
  <2>3. ASSUME NEW i \in DOMAIN toNear', NEW j \in DOMAIN toNear', i < j,
               toNear'[i].k = "reply" <=> toNear'[j].k = "reply"
        PROVE  toNear'[i].x < toNear'[j].x
    <3>1. CASE j \in 1..Len(toNear)
      <4>1. i \in 1..Len(toNear) /\ ~ \E l \in 1..Len(ms) : j = Len(toNear) + l
        BY ONLY <1>14, <1>18, <2>1, <2>3, <3>1, i \in DOMAIN toNear'
      <4>2. i \notin {Len(toNear) + l : l \in 1..Len(ms)}
        BY ONLY <1>14, <1>18, <4>1
      <4>3. toNear'[i] = toNear[i] /\ toNear'[j] = toNear[j]
        BY <1>18, <2>1, <4>1, <4>2
      <4> QED BY <1>1, <2>1, <2>3, <3>1, <4>1, <4>3 DEF NamesAreKept
    <3>2. CASE j \notin 1..Len(toNear)
      <4>1. PICK l \in 1..Len(ms) : j = Len(toNear) + l /\ toNear'[j].x = g + l /\ toNear'[j].k # "reply"
        BY <1>18, <2>1, <3>2
      <4>2. CASE i \in 1..Len(toNear) /\ toNear'[i] = toNear[i]
        <5>1. toNear[i].x <= g /\ toNear[i] \in SentMsgs
          <6>1. toNear[i].k # "reply"
            BY <2>3, <4>1, <4>2
          <6>2. toNear \in Seq(SentMsgs)
            BY <1>1 DEF ChannelType
          <6> QED BY ONLY <1>10, <4>2, <6>1, <6>2, SMTT(30)
        <5>2. toNear[i].x \in Nat
          BY <5>1 DEF SentMsgs
        <5> QED BY ONLY <1>7, <1>14, <4>1, <4>2, <5>1, <5>2, SMTT(30)
      <4>3. CASE \E r \in 1..Len(ms) : i = Len(toNear) + r /\ toNear'[i].x = g + r
        <5>1. PICK r \in 1..Len(ms) : i = Len(toNear) + r /\ toNear'[i].x = g + r
          BY <4>3
        <5> QED BY ONLY <1>7, <1>14, <1>18, <2>3, <4>1, <5>1
      <4> QED BY <1>18, <2>1, <4>2, <4>3
    <3> QED BY <3>1, <3>2
  <2> QED BY <1>1, <1>4, <2>2, <2>3 DEF NamesAreKept
<1>20. FarIs(e)' /\ RepliesAre(h)'
  <2>1. ASSUME NEW i \in 1..Len(toNear'), toNear'[i].k # "reply" PROVE toNear'[i].x <= e
    <3>1. CASE i \in 1..Len(toNear) /\ toNear'[i] = toNear[i]
      <4>1. toNear[i].x <= g /\ toNear[i] \in SentMsgs
        BY <1>1, <1>10, <2>1, <3>1, SMTT(30) DEF ChannelType
      <4>2. toNear[i].x \in Nat
        BY <4>1 DEF SentMsgs
      <4> QED BY ONLY <1>7, <1>14, <1>15, <3>1, <4>1, <4>2
    <3>2. CASE \E r \in 1..Len(ms) : toNear'[i].x = g + r
      BY ONLY <1>7, <1>14, <1>15, <3>2
    <3> QED BY <1>18, <3>1, <3>2
  <2>2. 2 * e + Len(remoteBuffer') = b + n /\ b + n + Len(farNet') = 2 * Len(farSent)
    <3>1. Len(remoteBuffer') = Len(remoteBuffer) + n - 2 * Len(ms) /\ Len(farNet') = Len(farNet) - n
      BY <1>11, <1>12, <1>17
    <3>2. b = 2 * g + Len(remoteBuffer) /\ b + Len(farNet) = 2 * Len(farSent) /\ e = g + Len(ms) /\ g \in Nat
          /\ Len(farSent) \in Nat
      BY <1>7, <1>9, <1>10, <1>15
    <3>3. e \in Nat /\ b \in Nat
      BY ONLY <1>7, <1>14, <1>15, b \in Nat
    <3>4. PICK r \in Nat, m \in Nat, f \in Nat, t \in Nat :
            r = Len(remoteBuffer) /\ m = Len(ms) /\ f = Len(farNet) /\ t = Len(farSent)
      BY <1>8, <1>14, <3>2
    <3>5. Len(remoteBuffer') = r + n - 2 * m /\ Len(farNet') = f - n /\ b = 2 * g + r /\ b + f = 2 * t /\ e = g + m
      BY <3>1, <3>2, <3>4
    <3>6. 2 * e + (r + n - 2 * m) = b + n /\ b + n + (f - n) = 2 * t
      BY <1>7, <1>8, <3>3, <3>5, PartsAreCounted
    <3> QED BY <3>4, <3>5, <3>6
  <2>3. FarIs(e)'
    <3>1. joined = "no" => far = "none"
      BY <1>3 DEF FarIs
    <3> QED BY <1>4, <1>11, <1>17, <2>1, <2>2, <3>1 DEF FarIs
  <2>4. RepliesAre(h)'
    BY <1>2, <1>18 DEF RepliesAre
  <2> QED BY <2>3, <2>4
<1>21. NearMsgs' = NearMsgs /\ FarMsgs' = FarMsgs
  BY <1>4 DEF NearMsgs, FarMsgs
<1>22. ChannelType'
  BY <1>1, <1>4, <1>11, <1>17, <1>18, <1>21 DEF ChannelType
<1>23. NearIs(h)'
  BY <1>2, <1>4 DEF NearIs
<1>24. ToFarIs(h)'
  <2>1. h \in Nat /\ Len(nearSent) \in Nat /\ h <= Len(nearSent)
    BY <1>1 DEF ChannelType
  <2> QED BY <1>1, <1>2, <1>4, <2>1, SameSent
<1> QED BY <1>4, <1>15, <1>19, <1>20, <1>22, <1>23, <1>24 DEF ChannelInv


(* The connection to the device is made, and the ends.                      *)
LEMMA EndsKeep ==
    ASSUME ChannelInv, ConnectionMade \/ NearGoes \/ FarGoes \/ UNCHANGED channelVars
    PROVE  ChannelInv'
<1>1. ChannelType /\ NamesAreKept
  BY DEF ChannelInv
<1>2. PICK h \in 0..Len(nearSent) : NearIs(h) /\ ToFarIs(h) /\ RepliesAre(h)
  BY DEF ChannelInv
<1>3. PICK g \in 0..Len(farSent) : FarIs(g)
  BY DEF ChannelInv
<1>4. /\ UNCHANGED <<channel, nearSent, farSent, early, localBuffer, remoteBuffer, ignored, toFar, toNear>>
      /\ joined' \in {"no", "made", "yes", "failed"} /\ (joined' = "yes" <=> joined = "yes")
      /\ near' \in {"open", "closed"} /\ far' \in {"none", "open", "closed"}
      /\ nearNet' = nearNet \/ (near' = "closed" /\ nearNet' = <<>>)
      /\ farNet' = farNet \/ (far' = "closed" /\ farNet' = <<>>)
      /\ near' = "open" => near = "open"
  BY <1>1 DEF ConnectionMade, NearGoes, FarGoes, channelVars, ChannelType
<1>f. (far' = "open" => far = "open" \/ joined = "no") /\ (joined' = "no" => joined = "no" /\ far' = far)
      /\ (far' # "closed" => (far # "closed" \/ joined = "no"))
  <2>1. joined = "no" => far = "none"
    BY <1>3 DEF FarIs
  <2> QED BY <1>1, <2>1 DEF ConnectionMade, NearGoes, FarGoes, channelVars, ChannelType
<1>5. h \in Nat /\ g \in Nat /\ Len(nearSent) \in Nat /\ Len(farSent) \in Nat /\ h <= Len(nearSent)
  BY <1>1 DEF ChannelType
<1>6. NearMsgs' = NearMsgs /\ FarMsgs' = FarMsgs
  BY <1>4 DEF NearMsgs, FarMsgs
<1>7. ChannelType'
  <2>1. nearNet' \in Seq(PartsIn(NearMsgs)) /\ farNet' \in Seq(PartsIn(FarMsgs))
    <3>1. \A S : <<>> \in Seq(S)
      OBVIOUS
    <3>2. nearNet \in Seq(PartsIn(NearMsgs)) /\ farNet \in Seq(PartsIn(FarMsgs))
      BY <1>1 DEF ChannelType
    <3>3. <<>> \in Seq(PartsIn(NearMsgs)) /\ <<>> \in Seq(PartsIn(FarMsgs))
      BY <3>1
    <3> QED BY <1>4, <3>2, <3>3
  <2> QED BY <1>1, <1>4, <1>6, <2>1 DEF ChannelType
<1>8. NearIs(h)'
  BY <1>1, <1>2, <1>4 DEF NearIs, Follows
<1>9. ToFarIs(h)'
  BY <1>1, <1>2, <1>4, <1>f, <1>5, SameSent DEF NearIs
<1>10. NamesAreKept' /\ RepliesAre(h)'
  BY <1>1, <1>2, <1>4 DEF NamesAreKept, RepliesAre
<1>11. FarIs(g)'
  <2>1. /\ Follows(remoteBuffer, farSent, 2 * g) /\ Follows(farNet, farSent, 2 * g + Len(remoteBuffer))
        /\ far # "closed" => 2 * g + Len(remoteBuffer) + Len(farNet) = 2 * Len(farSent)
        /\ joined = "no" => far = "none"
    BY <1>3 DEF FarIs
  <2>2. Follows(farNet', farSent, 2 * g + Len(remoteBuffer))
    <3>1. CASE farNet' = farNet
      BY <2>1, <3>1
    <3>2. CASE farNet' = <<>>
      <4>1. Len(farNet) \in Nat /\ Len(remoteBuffer) \in Nat /\ Len(<<>>) = 0
        BY <1>1 DEF ChannelType
      <4>2. 2 * g + Len(remoteBuffer) + Len(farNet) <= 2 * Len(farSent)
        BY <2>1 DEF Follows
      <4>3. 2 * g + Len(remoteBuffer) + 0 <= 2 * Len(farSent)
        BY <1>5, <4>1, <4>2
      <4> QED BY <3>2, <4>1, <4>3 DEF Follows
    <3> QED BY <1>4, <3>1, <3>2
  <2>3. far' # "closed" => farNet' = farNet /\ far # "closed"
    BY <1>4, <1>f, <2>1
  <2>4. joined' = "no" => far' = "none"
    BY <1>f, <2>1
  <2> QED BY <1>3, <1>4, <2>1, <2>2, <2>3, <2>4 DEF FarIs
<1> QED BY <1>4, <1>7, <1>8, <1>9, <1>10, <1>11 DEF ChannelInv

LEMMA ChannelStepKeeps ==
    ASSUME ChannelInv, ChannelNext \/ UNCHANGED channelVars
    PROVE  ChannelInv'
BY NearSendsKeeps, FarSendsKeeps, NearDataKeeps, ConnectedKeeps, RemoteReceivedKeeps, EndsKeep DEF ChannelNext, ChannelRuns

LEMMA ChannelInitHolds == ASSUME ChannelInit PROVE ChannelInv
<1>1. ChannelType /\ NamesAreKept
  <2>1. \A S : <<>> \in Seq(S)
    OBVIOUS
  <2>2. /\ <<>> \in Seq(NearMsgs) /\ <<>> \in Seq(FarMsgs) /\ <<>> \in Seq(SentMsgs)
        /\ <<>> \in Seq(PartsIn(NearMsgs)) /\ <<>> \in Seq(PartsIn(FarMsgs)) /\ 1..Len(<<>>) = {}
    BY <2>1
  <2>3. ChannelType
    BY <2>2 DEF ChannelInit, ChannelType
  <2>4. NamesAreKept
    BY DEF ChannelInit, NamesAreKept
  <2> QED BY <2>3, <2>4
<1>2. NearIs(0) /\ ToFarIs(0) /\ RepliesAre(0) /\ FarIs(0)
  BY DEF ChannelInit, NearIs, ToFarIs, RepliesAre, FarIs, Follows
<1> QED BY <1>1, <1>2 DEF ChannelInit, ChannelInv

LEMMA ChannelIsInOrder == ASSUME ChannelInv PROVE ChannelInOrder
<1>1. ChannelType /\ NamesAreKept
  BY DEF ChannelInv
<1>2. PICK h \in 0..Len(nearSent) : NearIs(h) /\ ToFarIs(h) /\ RepliesAre(h)
  BY DEF ChannelInv
<1>3. /\ nearSent \in Seq(NearMsgs) /\ Len(nearSent) \in Nat /\ h \in Nat /\ h <= Len(nearSent)
      /\ localBuffer \in Seq(PartsIn(NearMsgs)) /\ DOMAIN nearSent = 1..Len(nearSent) /\ DOMAIN toFar = 1..Len(toFar)
  BY <1>1 DEF ChannelType
<1>4. ASSUME NEW i \in DOMAIN toFar
      PROVE  LET n == toFar[i].x
             IN  /\ n \in DOMAIN nearSent /\ ~Ignores(nearSent[n]) /\ toFar[i] = OfClient(nearSent[n])
                 /\ \A j \in 1..(i - 1) : toFar[j].x < n
                 /\ \A e \in 1..n : ReachesFar(e)
  <2>1. 1..h \subseteq DOMAIN nearSent
    BY <1>3
  <2> QED BY <1>2, <1>3, <2>1 DEF ToFarIs
<1>5. ASSUME joined = "yes", near = "open", far = "open", nearNet = <<>>
      PROVE  LET waiting == Messages(localBuffer)
                 looked == Len(nearSent) - Len(waiting)
             IN  /\ \A n \in 1..looked : ReachesFar(n)
                 /\ waiting = From(nearSent, looked + 1)
                 /\ waiting # <<>> => ignored
  <2>1. PICK w \in Seq(NearMsgs) : w = Messages(localBuffer)
    BY <1>2, <1>3, WholeMessages DEF NearIs
  <2>2. /\ Len(w) = Len(localBuffer) \div 2 /\ \A i \in 1..Len(w) : w[i] = nearSent[h + i]
        /\ Len(localBuffer) - 2 * Len(w) \in {0, 1}
    BY <1>2, <1>3, <2>1, WholeMessages DEF NearIs
  <2>3. 2 * h + Len(localBuffer) = 2 * Len(nearSent) /\ Len(localBuffer) \in Nat
    <3>1. Len(early) = 0 /\ Len(nearNet) = 0 /\ Len(localBuffer) \in Nat
      BY <1>2, <1>3, <1>5 DEF NearIs
    <3>2. 2 * h + Len(localBuffer) + Len(early) + Len(nearNet) = 2 * Len(nearSent)
      BY <1>2, <1>5 DEF NearIs
    <3> QED BY <1>3, <3>1, <3>2
  <2>4. Len(w) \in Nat /\ h + Len(w) = Len(nearSent)
    <3>1. Len(w) \in Nat
      BY <2>1
    <3>2. PICK a \in Nat, b \in Nat, c \in Nat : a = Len(localBuffer) /\ b = Len(w) /\ c = Len(nearSent)
      BY <1>3, <2>3, <3>1
    <3>3. 2 * h + a = 2 * c /\ a - 2 * b \in {0, 1}
      BY <2>2, <2>3, <3>2
    <3>4. h + b = c
      BY ONLY <3>2, <3>3, h \in Nat
    <3> QED BY <3>1, <3>2, <3>4
  <2>5. PICK l \in Nat : l = Len(nearSent) - Len(w) /\ l = h
    <3>1. h = Len(nearSent) - Len(w)
      <4>1. PICK a \in Nat, b \in Nat : a = Len(nearSent) /\ b = Len(w)
        BY <1>3, <2>4
      <4>2. h + b = a
        BY <2>4, <4>1
      <4>3. h = a - b
        <5>1. h \in Nat
          BY <1>3
        <5> QED BY ONLY <4>2, <5>1, a \in Nat, b \in Nat
      <4> QED BY <4>1, <4>3
    <3> QED BY <1>3, <3>1
  <2>6. \A n \in 1..l : ReachesFar(n)
    BY <1>2, <1>5, <2>5 DEF ToFarIs
  <2>7. w = From(nearSent, l + 1)
    <3>1. /\ From(nearSent, l + 1) \in Seq(NearMsgs) /\ Len(From(nearSent, l + 1)) = Len(nearSent) - l
          /\ \A i \in 1..(Len(nearSent) - l) : From(nearSent, l + 1)[i] = nearSent[l + i]
      <4>1. /\ SubSeq(nearSent, l + 1, Len(nearSent)) \in Seq(NearMsgs)
            /\ Len(SubSeq(nearSent, l + 1, Len(nearSent))) = Len(nearSent) - l
            /\ \A i \in 1..(Len(nearSent) - l) : SubSeq(nearSent, l + 1, Len(nearSent))[i] = nearSent[l + i]
        BY <1>3, <2>5
      <4> QED BY <4>1 DEF From
    <3>2. Len(w) = Len(nearSent) - l
      BY <1>3, <2>4, <2>5
    <3>3. PICK v \in Seq(NearMsgs) : v = From(nearSent, l + 1)
      BY <3>1
    <3>4. Len(v) = Len(w) /\ \A i \in 1..Len(v) : v[i] = w[i]
      BY <2>2, <2>5, <3>1, <3>2, <3>3
    <3>5. v = w
      BY ONLY <2>1, <3>3, <3>4, SeqEqual
    <3> QED BY <3>3, <3>5
  <2>8. w # <<>> => ignored
    <3>1. ASSUME w # <<>> PROVE ignored
      <4>1. Len(w) # 0
        BY <2>1, <3>1
      <4>2. Len(localBuffer) >= 2
        BY <2>2, <2>3, <2>4, <4>1
      <4> QED BY <1>2, <1>5, <4>2 DEF NearIs
    <3> QED BY <3>1
  <2> QED BY <2>1, <2>5, <2>6, <2>7, <2>8
<1> QED BY <1>1, <1>4, <1>5 DEF ChannelInOrder

-----------------------------------------------------------------------------
(***************************************************************************)
(* Which messages OfSorts takes.                                            *)
(***************************************************************************)
LEMMA EveryNatural == ASSUME NEW T \in SUBSET Nat, 0 \in T, \A n \in T : n + 1 \in T PROVE T = Nat
<1>1. SUFFICES ASSUME Nat \ T # {} PROVE FALSE
  OBVIOUS
<1>2. PICK x \in Nat \ T : \A y \in Nat \ T : x <= y
  <2>1. Nat \ T \in SUBSET Nat
    OBVIOUS
  <2> QED BY <1>1, <2>1, Least
<1>3. x # 0 /\ x \in Nat
  OBVIOUS
<1>4. x - 1 \in Nat /\ ~(x <= x - 1)
  BY <1>3
<1>5. x - 1 \in T
  BY <1>2, <1>4
<1>6. (x - 1) + 1 = x
  BY <1>3
<1> QED BY <1>5, <1>6

(* f[n] are those of the first n messages of ms that are of the sorts.      *)
Kept(f, ms, sorts) ==
    f = [n \in 0..Len(ms) |->
            IF n = 0 THEN <<>>
            ELSE IF ms[n].k \in sorts THEN Append(f[n - 1], ms[n]) ELSE f[n - 1]]

(* The recursion is well founded: there is such a function.                 *)
LEMMA KeptExists ==
    ASSUME NEW ms, NEW sorts, Len(ms) \in Nat
    PROVE  \E f : Kept(f, ms, sorts) /\ OfSorts(ms, sorts) = f[Len(ms)]
<1> DEFINE Upto(f, N) == f = [n \in 0..N |->
                                IF n = 0 THEN <<>>
                                ELSE IF ms[n].k \in sorts THEN Append(f[n - 1], ms[n]) ELSE f[n - 1]]
           T == {N \in Nat : \E f : Upto(f, N)}
<1>1. 0 \in T
  <2>1. PICK f : f = [n \in 0..0 |-> <<>>]
    OBVIOUS
  <2>2. Upto(f, 0)
    <3>1. 0..0 = {0}
      OBVIOUS
    <3> QED BY <2>1, <3>1
  <2> QED BY <2>2
<1>2. ASSUME NEW N \in T PROVE N + 1 \in T
  <2>1. N \in Nat /\ N + 1 \in Nat
    OBVIOUS
  <2>2. PICK f : Upto(f, N)
    OBVIOUS
  <2>3. PICK g : g = [n \in 0..(N + 1) |->
                        IF n <= N THEN f[n]
                        ELSE IF ms[n].k \in sorts THEN Append(f[n - 1], ms[n]) ELSE f[n - 1]]
    OBVIOUS
  <2>4. ASSUME NEW n \in 0..(N + 1)
        PROVE  g[n] = IF n = 0 THEN <<>>
                      ELSE IF ms[n].k \in sorts THEN Append(g[n - 1], ms[n]) ELSE g[n - 1]
    <3>1. CASE n = 0
      <4>1. n \in 0..N /\ n <= N
        BY <2>1, <3>1
      <4>2. f[n] = <<>>
        BY <2>2, <3>1, <4>1
      <4> QED BY <2>3, <3>1, <4>1, <4>2
    <3>2. CASE n # 0 /\ n <= N
      <4>1. n \in 0..N /\ n - 1 \in 0..(N + 1) /\ n - 1 <= N
        BY <2>1, <3>2
      <4>2. g[n] = f[n] /\ g[n - 1] = f[n - 1]
        BY <2>3, <3>2, <4>1
      <4>3. f[n] = IF ms[n].k \in sorts THEN Append(f[n - 1], ms[n]) ELSE f[n - 1]
        BY <2>2, <3>2, <4>1
      <4> QED BY <3>2, <4>2, <4>3
    <3>3. CASE n # 0 /\ ~(n <= N)
      <4>1. n - 1 \in 0..(N + 1) /\ n - 1 <= N
        BY <2>1, <3>3
      <4>2. g[n - 1] = f[n - 1]
        BY <2>3, <4>1
      <4>3. g[n] = IF ms[n].k \in sorts THEN Append(f[n - 1], ms[n]) ELSE f[n - 1]
        BY <2>3, <3>3
      <4> QED BY <3>3, <4>2, <4>3
    <3> QED BY <3>1, <3>2, <3>3
  <2>5. Upto(g, N + 1)
    <3>1. DOMAIN g = 0..(N + 1) /\ g = [n \in 0..(N + 1) |-> g[n]]
      BY <2>3
    <3> HIDE <2>3
    <3>2. g = [n \in 0..(N + 1) |->
                 IF n = 0 THEN <<>>
                 ELSE IF ms[n].k \in sorts THEN Append(g[n - 1], ms[n]) ELSE g[n - 1]]
      BY ONLY <2>4, <3>1
    <3> QED BY <3>2
  <2> QED BY <2>1, <2>5
<1>3. PICK f : Upto(f, Len(ms))
  <2>1. T \in SUBSET Nat
    OBVIOUS
  <2> HIDE DEF T
  <2>2. T = Nat
    BY <1>1, <1>2, <2>1, EveryNatural
  <2> QED BY <2>2 DEF T
<1>4. OfSorts(ms, sorts) = (CHOOSE g : Kept(g, ms, sorts))[Len(ms)]
  BY DEF OfSorts, Kept
<1>5. Kept(f, ms, sorts)
  BY <1>3 DEF Kept
<1>6. Kept(CHOOSE g : Kept(g, ms, sorts), ms, sorts)
  BY <1>5, Zenon
<1> QED BY <1>4, <1>6

(* The messages are those from the one after b on.                          *)
CountsFrom(ms, b) == \A i \in 1..Len(ms) : ms[i].x = b + i
HasAt(o, m, j) == j \in 1..Len(o) /\ o[j] = m

(* What is kept, with messages that count from b + 1 on: in order, and all. *)
LEMMA SortsAreKept ==
    ASSUME NEW X, NEW ms \in Seq(X), NEW sorts, NEW b \in Nat,
           CountsFrom(ms, b), NEW o, o = OfSorts(ms, sorts)
    PROVE  /\ o \in Seq(X)
           /\ \A j \in 1..Len(o) : \E i \in 1..Len(ms) : o[j] = ms[i] /\ ms[i].k \in sorts
           /\ \A i, j \in 1..Len(o) : i < j => o[i].x < o[j].x
           /\ \A i \in 1..Len(ms) : ms[i].k \in sorts => \E j : HasAt(o, ms[i], j)
<1>1. PICK f : Kept(f, ms, sorts) /\ OfSorts(ms, sorts) = f[Len(ms)]
  <2>1. Len(ms) \in Nat
    OBVIOUS
  <2> QED BY <2>1, KeptExists
<1> DEFINE Good(n) ==
        /\ f[n] \in Seq(X)
        /\ \A j \in 1..Len(f[n]) : \E i \in 1..n : f[n][j] = ms[i] /\ ms[i].k \in sorts
        /\ \A i, j \in 1..Len(f[n]) : i < j => f[n][i].x < f[n][j].x
        /\ \A i \in 1..n : ms[i].k \in sorts => \E j \in 1..Len(f[n]) : f[n][j] = ms[i]
    T == {n \in Nat : n <= Len(ms) => Good(n)}
<1>2. 0 \in T
  <2>1. f[0] = <<>>
    BY <1>1 DEF Kept
  <2>2. <<>> \in Seq(X) /\ 1..Len(<<>>) = {} /\ 1..0 = {}
    OBVIOUS
  <2>3. Good(0)
    BY <2>1, <2>2
  <2> QED BY <2>3
<1>3. ASSUME NEW n \in T PROVE n + 1 \in T
  <2>n. n \in Nat /\ n + 1 \in Nat /\ (n <= Len(ms) => Good(n))
    OBVIOUS
  <2>1. SUFFICES ASSUME n + 1 <= Len(ms) PROVE Good(n + 1)
    <3> HIDE DEF Good
    <3> QED BY <2>n
  <2>2. n \in Nat /\ n + 1 \in 1..Len(ms) /\ n + 1 # 0 /\ n + 1 - 1 = n
    BY <2>1
  <2>3. Good(n)
    <3> HIDE DEF Good
    <3>1. n <= Len(ms)
      BY <2>2
    <3> QED BY <2>n, <3>1
  <2>4. f[n + 1] = IF ms[n + 1].k \in sorts THEN Append(f[n], ms[n + 1]) ELSE f[n]
    <3>1. PICK k \in 0..Len(ms) : k = n + 1
      BY <2>2
    <3>2. f[k] = IF k = 0 THEN <<>> ELSE IF ms[k].k \in sorts THEN Append(f[k - 1], ms[k]) ELSE f[k - 1]
      BY ONLY <1>1, k \in 0..Len(ms) DEF Kept
    <3> HIDE DEF T
    <3> QED BY ONLY <2>2, <3>1, <3>2
  <2>5. PICK p \in Seq(X) : p = f[n]
    BY <2>3
  <2>6. Len(p) \in Nat /\ \A i \in 1..(n + 1) : i \in 1..n \/ i = n + 1
    BY <2>2
  <2>7. CASE ms[n + 1].k \notin sorts
    <3>1. f[n + 1] = p
      BY <2>4, <2>5, <2>7
    <3>2. \A i \in 1..n : i \in 1..(n + 1)
      BY <2>2
    <3> QED BY <2>3, <2>5, <2>6, <2>7, <3>1, <3>2
  <2>8. CASE ms[n + 1].k \in sorts
    <3>1. PICK m \in X : m = ms[n + 1]
      BY <2>2
    <3>2. /\ Append(p, m) \in Seq(X) /\ Len(Append(p, m)) = Len(p) + 1
          /\ Append(p, m)[Len(p) + 1] = m /\ \A i \in 1..Len(p) : Append(p, m)[i] = p[i]
      OBVIOUS
    <3>3. PICK q : q = Append(p, m)
      OBVIOUS
    <3>4. /\ f[n + 1] = q /\ q \in Seq(X) /\ Len(q) = Len(p) + 1 /\ q[Len(p) + 1] = m
          /\ \A i \in 1..Len(p) : q[i] = p[i]
      BY <2>4, <2>5, <2>8, <3>1, <3>2, <3>3
    <3>5. \A i \in 1..Len(q) : i \in 1..Len(p) \/ i = Len(p) + 1
      BY <2>6, <3>4
    <3>6. Len(p) + 1 \in 1..Len(q) /\ \A i \in 1..Len(p) : i \in 1..Len(q)
      BY <2>6, <3>4
    <3>7. \A j \in 1..Len(q) : \E i \in 1..(n + 1) : q[j] = ms[i] /\ ms[i].k \in sorts
      <4>1. ASSUME NEW j \in 1..Len(p) PROVE \E i \in 1..(n + 1) : q[j] = ms[i] /\ ms[i].k \in sorts
        <5>1. PICK i \in 1..n : p[j] = ms[i] /\ ms[i].k \in sorts
          BY <2>3, <2>5
        <5>2. i \in 1..(n + 1)
          BY <2>2
        <5> QED BY <3>4, <5>1, <5>2
      <4>2. n + 1 \in 1..(n + 1)
        BY <2>2
      <4>3. \E i \in 1..(n + 1) : q[Len(p) + 1] = ms[i] /\ ms[i].k \in sorts
        BY <2>8, <3>1, <3>4, <4>2
      <4> HIDE DEF T
      <4> QED BY ONLY <3>5, <4>1, <4>3
    <3>8. \A i, j \in 1..Len(q) : i < j => q[i].x < q[j].x
      <4>1. ASSUME NEW i \in 1..Len(q), NEW j \in 1..Len(q), i < j PROVE q[i].x < q[j].x
        <5>1. i \in 1..Len(p)
          BY ONLY <2>6, <3>4, <4>1, i \in 1..Len(q), j \in 1..Len(q)
        <5>2. CASE j \in 1..Len(p)
          BY <2>3, <2>5, <3>4, <4>1, <5>1, <5>2
        <5>3. CASE j = Len(p) + 1
          <6>1. PICK l \in 1..n : p[i] = ms[l]
            BY <2>3, <2>5, <5>1
          <6>2. l \in 1..Len(ms) /\ b + l < b + (n + 1)
            BY <2>2
          <6>3. q[i].x = b + l /\ q[j].x = b + (n + 1)
            BY <2>2, <3>1, <3>4, <5>1, <5>3, <6>1, <6>2 DEF CountsFrom
          <6> QED BY <6>2, <6>3
        <5> QED BY <3>5, <5>2, <5>3
      <4> QED BY <4>1
    <3>9. \A i \in 1..(n + 1) : ms[i].k \in sorts => \E j \in 1..Len(q) : q[j] = ms[i]
      <4>1. ASSUME NEW i \in 1..n, ms[i].k \in sorts PROVE \E j \in 1..Len(q) : q[j] = ms[i]
        <5>1. PICK j \in 1..Len(p) : p[j] = ms[i]
          BY <2>3, <2>5, <4>1
        <5> QED BY <3>4, <3>6, <5>1
      <4> QED BY <2>6, <3>1, <3>4, <3>6, <4>1
    <3> QED BY <3>4, <3>7, <3>8, <3>9
  <2> QED BY <2>7, <2>8
<1>4. Good(Len(ms))
  <2>1. T \in SUBSET Nat
    OBVIOUS
  <2> HIDE DEF T
  <2>2. T = Nat
    BY <1>2, <1>3, <2>1, EveryNatural
  <2>3. Len(ms) \in Nat /\ Len(ms) <= Len(ms)
    OBVIOUS
  <2> HIDE DEF Good
  <2> QED BY <2>2, <2>3 DEF T
<1>5. o = f[Len(ms)]
  BY <1>1
<1> HIDE DEF T
<1>6. \A i \in 1..Len(ms) : ms[i].k \in sorts => \E j : HasAt(o, ms[i], j)
  BY <1>4, <1>5 DEF HasAt
<1> QED BY <1>4, <1>5, <1>6

-----------------------------------------------------------------------------
(***************************************************************************)
(* A link of MRP, Companion or the relay.                                   *)
(***************************************************************************)
LinkMsgs == [k : Sorts, x : Nat, as : {"client"}]
OnMsgs == [k : Sorts, x : Nat, as : {"client", "proxy"}]
DownMsgs == [k : {"response", "event"}, x : Nat, as : {"device"}]
SaidMsgs == [k : {"response", "event"}, x : Nat, as : {"device", "proxy"}]

LinkType ==
    /\ kind \in Kinds /\ stage \in {"connecting", "greeting", "started", "failed"}
    /\ client \in {"open", "closed"} /\ device \in {"none", "open", "closed"}
    /\ task \in {"none", "runs", "cancelled"} /\ event \in BOOLEAN /\ xid \in Nat
    /\ clientSent \in Seq(LinkMsgs) /\ \A i \in 1..Len(clientSent) : clientSent[i].x = i
    /\ toProxy \in Seq(PartsIn(LinkMsgs)) /\ buffer \in Seq(PartsIn(LinkMsgs))
    /\ deviceSent \in Seq(DownMsgs) /\ fromDevice \in Seq(DownMsgs)
    /\ toDevice \in Seq(PartsIn(OnMsgs)) /\ toClient \in Seq(SaidMsgs)
OneInfo ==
    \A i, j \in 1..Len(clientSent) : clientSent[i].k = "info" /\ clientSent[j].k = "info" => i = j

(* How far start has come, and what that says of the other state.           *)
Stages ==
    /\ kind = "relay" => stage = "started" /\ device # "none" /\ buffer = <<>>
    /\ stage = "connecting" => device = "none" /\ task = "none"
    /\ stage = "greeting" => task = "none"
    /\ task # "none" => kind = "companion" /\ device # "none"
    /\ kind = "companion" /\ stage = "started" /\ client = "open" => task = "runs"
    /\ stage = "started" /\ device = "open" /\ (kind = "mrp" \/ (kind = "companion" /\ ~event)) => Len(buffer) < 2

(* Where the parts of the client are, of which the first h were taken.      *)
BufferIs(h) ==
    /\ Follows(buffer, clientSent, h)
    /\ Follows(toProxy, clientSent, h + Len(buffer))
    /\ client = "open" => h + Len(buffer) + Len(toProxy) = 2 * Len(clientSent)
    /\ kind # "relay" => \E g \in 0..Len(clientSent) : h = 2 * g

(* What was sent on of these.                                               *)
AllUpTo(c) ==
    \A n \in 1..Len(clientSent), r \in {1, 2} : IsDue(clientSent[n]) /\ 2 * n + r <= c => Reaches(2 * n + r)
IsPartOf(p, o, h) ==
    /\ p.m.x \in 1..Len(clientSent) /\ IsDue(clientSent[p.m.x]) /\ p.m = SentOn(clientSent[p.m.x])
    /\ o + 2 < Place(p) /\ Place(p) <= h + 2
SentAre(h) ==
    /\ \A i \in 1..Len(toDevice) : IsPartOf(toDevice[i], 0, h) /\ AllUpTo(Place(toDevice[i]))
    /\ \A i, j \in 1..Len(toDevice) : i < j => Place(toDevice[i]) < Place(toDevice[j])
    /\ device # "closed" => AllUpTo(h + 2)

(* s is what is to be sent on of the parts between o and h.                 *)
Chosen(s, o, h) ==
    /\ \A i \in 1..Len(s) : IsPartOf(s[i], o, h)
    /\ \A i, j \in 1..Len(s) : i < j => Place(s[i]) < Place(s[j])
    /\ \A n \in 1..Len(clientSent), r \in {1, 2} :
        IsDue(clientSent[n]) /\ o + 2 < 2 * n + r /\ 2 * n + r <= h + 2 => \E i \in 1..Len(s) : Place(s[i]) = 2 * n + r

(* Who was asked by which identifier, and what is to come of it.            *)
WasSentOn(n) == \E i \in 1..Len(toDevice) : toDevice[i].m.x = n
Response(n) == [k |-> "response", x |-> n, as |-> "device"]
Pending(n) ==
    \/ \E i \in 1..Len(fromDevice) : fromDevice[i] = Response(n)
    \/ ~ \E i \in 1..Len(deviceSent) : deviceSent[i] = Response(n)
IsOf(m) ==
    IF m.k = "response"
    THEN m.x \in 1..Len(clientSent) /\ (m.as = "proxy" <=> clientSent[m.x].k \in {"info", "auth"})
    ELSE m.as = "device"
Answers ==
    kind = "companion" =>
        /\ \A i \in 1..Len(toClient) : IsOf(toClient[i])
        /\ xid # 0 => xid \in 1..Len(clientSent) /\ clientSent[xid].k = "info"
        /\ \A i \in 1..Len(fromDevice) :
            /\ fromDevice[i].k = "response" => WasSentOn(fromDevice[i].x)
            /\ \E j \in 1..Len(deviceSent) : deviceSent[j] = fromDevice[i]
        /\ \A i, j \in 1..Len(fromDevice) : i < j => fromDevice[i] # fromDevice[j]
        /\ \A n \in 1..Len(clientSent) : clientSent[n].k = "info" /\ WasSentOn(n) /\ Pending(n) => xid = n

LinkInv ==
    /\ LinkType /\ OneInfo /\ Stages /\ Answers
    /\ \E h \in 0..(2 * Len(clientSent)) : BufferIs(h) /\ SentAre(h)

-----------------------------------------------------------------------------
LEMMA HalfAndRest == ASSUME NEW i \in Nat PROVE 2 * ((i + 1) \div 2) + (2 - (i % 2)) = i + 2
OBVIOUS

LEMMA PlaceOfPart ==
    ASSUME NEW S, NEW ms \in Seq(S), NEW b \in Nat, \A i \in 1..Len(ms) : ms[i].x = b + i,
           NEW i \in 1..(2 * Len(ms))
    PROVE  /\ PartAt(ms, i).m \in S /\ PartAt(ms, i).part \in {1, 2}
           /\ Place(PartAt(ms, i)) = 2 * b + i + 2
           /\ PartAt(ms, i).m.x \in 1..(b + Len(ms)) /\ PartAt(ms, i).m = ms[PartAt(ms, i).m.x - b]
<1> DEFINE n == (i + 1) \div 2
           r == 2 - (i % 2)
<1>1. Len(ms) \in Nat /\ i \in Int /\ 1 <= i /\ i <= 2 * Len(ms)
  OBVIOUS
<1>2. n \in 1..Len(ms) /\ r \in {1, 2} /\ 2 * n + r = i + 2
  <2>1. n \in 1..Len(ms) /\ r \in {1, 2}
    BY <1>1
  <2>2. i \in Nat
    BY <1>1
  <2>3. 2 * ((i + 1) \div 2) + (2 - (i % 2)) = i + 2
    BY <2>2, HalfAndRest
  <2> QED BY <2>1, <2>3
<1>3. PartAt(ms, i) = [m |-> ms[n], part |-> r]
  BY DEF PartAt
<1> HIDE DEF n, r
<1>4. ms[n] \in S /\ ms[n].x = b + n
  BY <1>2
<1>5. 2 * (b + n) + r = 2 * b + i + 2 /\ b + n \in 1..(b + Len(ms)) /\ b + n - b = n
  BY <1>1, <1>2
<1>6. Place(PartAt(ms, i)) = 2 * (b + n) + r
  BY <1>3, <1>4 DEF Place
<1> QED BY <1>2, <1>3, <1>4, <1>5, <1>6

(* The sender goes on: what is chosen of what is taken is sent.             *)
LEMMA ChosenIsSent ==
    ASSUME LinkType, NEW o \in Nat, NEW h \in Nat, o <= h, SentAre(o), device # "closed",
           NEW s \in Seq(PartsIn(OnMsgs)), Chosen(s, o, h),
           toDevice' = toDevice \o s, UNCHANGED <<clientSent, kind>>
    PROVE  /\ SentAre(h)' /\ toDevice' \in Seq(PartsIn(OnMsgs))
           /\ \A i \in 1..Len(toDevice) : i \in 1..Len(toDevice') /\ toDevice'[i] = toDevice[i]
           /\ \A i \in 1..Len(toDevice') :
                (i \in 1..Len(toDevice) /\ toDevice'[i] = toDevice[i]) \/ (\E j \in 1..Len(s) : toDevice'[i] = s[j])
<1>1. PICK t \in Seq(PartsIn(OnMsgs)), l \in Nat, k \in Nat : t = toDevice /\ l = Len(t) /\ k = Len(s)
  <2>1. toDevice \in Seq(PartsIn(OnMsgs))
    BY DEF LinkType
  <2>2. Len(toDevice) \in Nat /\ Len(s) \in Nat
    BY <2>1
  <2> QED BY <2>1, <2>2
<1>2. /\ t \o s \in Seq(PartsIn(OnMsgs)) /\ Len(t \o s) = Len(t) + Len(s)
      /\ \A i \in 1..(Len(t) + Len(s)) : (t \o s)[i] = IF i <= Len(t) THEN t[i] ELSE s[i - Len(t)]
  BY ONLY t \in Seq(PartsIn(OnMsgs)), s \in Seq(PartsIn(OnMsgs)), ConcatProperties
<1>3. PICK u \in Seq(PartsIn(OnMsgs)) : u = t \o s
  BY <1>2
<1>4. /\ Len(u) = l + k /\ \A i \in 1..l : i \in 1..(l + k) /\ u[i] = t[i]
      /\ \A i \in 1..(l + k) : (i \in 1..l /\ u[i] = t[i]) \/ (i \notin 1..l /\ i - l \in 1..k /\ u[i] = s[i - l])
      /\ \A j \in 1..k : l + j \in 1..(l + k) /\ u[l + j] = s[j]
  <2>1. \A i \in 1..(l + k) : u[i] = IF i <= l THEN t[i] ELSE s[i - l]
    BY <1>1, <1>2, <1>3
  <2>2. \A i \in 1..(l + k) : (i \in 1..l /\ i <= l) \/ (i \notin 1..l /\ ~(i <= l) /\ i - l \in 1..k)
    BY <1>1
  <2>3. \A j \in 1..k : l + j \in 1..(l + k) /\ ~(l + j <= l) /\ l + j - l = j
    BY <1>1
  <2>4. \A i \in 1..l : i \in 1..(l + k) /\ i <= l
    BY <1>1
  <2> QED BY <1>1, <1>2, <1>3, <2>1, <2>2, <2>3, <2>4
<1>5. toDevice' = u
  BY <1>1, <1>3
<1>6. /\ \A m : IsDue(m)' = IsDue(m) /\ SentOn(m)' = SentOn(m) /\ Place(m)' = Place(m)
      /\ \A c : Reaches(c) => Reaches(c)'
      /\ \A j \in 1..k : Reaches(Place(s[j]))'
      /\ \A p, a, b : IsPartOf(p, a, b)' <=> IsPartOf(p, a, b)
  <2>1. \A m : IsDue(m)' = IsDue(m) /\ SentOn(m)' = SentOn(m) /\ Place(m)' = Place(m)
    BY DEF IsDue, SentOn, Outgoing, Place, IsOwn, OwnSorts
  <2>2. DOMAIN toDevice = 1..l /\ DOMAIN u = 1..(l + k)
    BY <1>1, <1>4
  <2>3. \A c : Reaches(c)' <=> \E i \in 1..(l + k) : Place(u[i]) = c
    BY <1>5, <2>2 DEF Reaches, Place
  <2>4. \A c : Reaches(c) <=> \E i \in 1..l : Place(t[i]) = c
    BY <1>1, <2>2 DEF Reaches
  <2>5. \A c : Reaches(c) => Reaches(c)'
    BY <1>4, <2>3, <2>4
  <2>6. \A j \in 1..k : Reaches(Place(s[j]))'
    BY <1>4, <2>3
  <2>7. \A p, a, b : IsPartOf(p, a, b)' <=> IsPartOf(p, a, b)
    BY DEF IsPartOf, IsDue, SentOn, Outgoing, Place, IsOwn, OwnSorts
  <2> QED BY <2>1, <2>5, <2>6, <2>7
<1>7. ASSUME NEW c \in Int, c <= h + 2 PROVE AllUpTo(c)'
  <2>1. ASSUME NEW n \in 1..Len(clientSent), NEW r \in {1, 2}, IsDue(clientSent[n]), 2 * n + r <= c
        PROVE  Reaches(2 * n + r)'
    <3>1. CASE 2 * n + r <= o + 2
      <4>1. AllUpTo(o + 2)
        BY DEF SentAre
      <4> QED BY <1>6, <2>1, <3>1, <4>1 DEF AllUpTo
    <3>2. CASE ~(2 * n + r <= o + 2)
      <4>1. o + 2 < 2 * n + r /\ 2 * n + r <= h + 2
        BY <1>7, <2>1, <3>2
      <4>2. PICK j \in 1..k : Place(s[j]) = 2 * n + r
        BY <1>1, <2>1, <4>1 DEF Chosen
      <4> QED BY <1>6, <4>2
    <3> QED BY <3>1, <3>2
  <2> QED BY <1>6, <2>1 DEF AllUpTo
<1>8. \A p \in PartsIn(OnMsgs) : Place(p) \in Nat
  BY DEF PartsIn, OnMsgs, Place
<1>9. ASSUME NEW i \in 1..(l + k) PROVE IsPartOf(u[i], 0, h)
  <2>1. u[i] \in PartsIn(OnMsgs)
    BY <1>4
  <2>2. Place(u[i]) \in Nat
    BY <1>8, <2>1
  <2>3. CASE i \in 1..l /\ u[i] = t[i]
    <3>1. IsPartOf(u[i], 0, o)
      BY <1>1, <2>3 DEF SentAre
    <3> QED BY <2>2, <3>1 DEF IsPartOf
  <2>4. CASE i \notin 1..l /\ i - l \in 1..k /\ u[i] = s[i - l]
    <3>1. IsPartOf(u[i], o, h)
      BY <1>1, <2>4 DEF Chosen
    <3> QED BY <2>2, <3>1 DEF IsPartOf
  <2> QED BY <1>4, <2>3, <2>4
<1>10. ASSUME NEW i \in 1..(l + k), NEW j \in 1..(l + k), i < j PROVE Place(u[i]) < Place(u[j])
  <2>1. CASE j \in 1..l
    <3>1. i \in 1..l
      BY <1>10, <2>1
    <3> QED BY <1>1, <1>4, <1>10, <2>1, <3>1 DEF SentAre
  <2>2. CASE i \in 1..l /\ j \notin 1..l
    <3>1. u[i] = t[i] /\ u[j] = s[j - l] /\ j - l \in 1..k
      BY <1>4, <2>2
    <3>2. Place(u[i]) <= o + 2 /\ o + 2 < Place(u[j])
      <4>1. IsPartOf(t[i], 0, o) /\ IsPartOf(s[j - l], o, h)
        BY <1>1, <2>2, <3>1 DEF SentAre, Chosen
      <4> QED BY <3>1, <4>1 DEF IsPartOf
    <3>3. Place(u[i]) \in Nat /\ Place(u[j]) \in Nat
      <4>1. u[i] \in PartsIn(OnMsgs) /\ u[j] \in PartsIn(OnMsgs)
        BY <1>4
      <4> QED BY <1>8, <4>1
    <3> QED BY ONLY <3>2, <3>3, o \in Nat
  <2>3. CASE i \notin 1..l /\ j \notin 1..l
    <3>1. u[i] = s[i - l] /\ u[j] = s[j - l] /\ i - l \in 1..k /\ j - l \in 1..k
      BY <1>4, <2>3
    <3>2. i - l < j - l
      BY <1>10
    <3> QED BY <1>1, <3>1, <3>2 DEF Chosen
  <2> QED BY <2>1, <2>2, <2>3
<1>11. SentAre(h)'
  <2>1. Len(u) = l + k
    BY <1>4
  <2>2. ASSUME NEW i \in 1..(l + k) PROVE IsPartOf(u[i], 0, h)' /\ AllUpTo(Place(u[i]))'
    <3>1. Place(u[i]) \in Int /\ Place(u[i]) <= h + 2
      <4>1. u[i] \in PartsIn(OnMsgs)
        BY <1>4
      <4> QED BY <1>8, <1>9, <4>1 DEF IsPartOf
    <3>2. PICK c \in Int : c = Place(u[i]) /\ c <= h + 2
      BY <3>1
    <3>3. AllUpTo(c)'
      BY <1>7, <3>2
    <3> QED BY <1>6, <1>9, <3>2, <3>3 DEF AllUpTo
  <2>3. AllUpTo(h + 2)'
    BY <1>7
  <2> QED BY <1>5, <1>6, <1>10, <2>1, <2>2, <2>3 DEF SentAre, AllUpTo
<1> QED BY <1>1, <1>4, <1>5, <1>11, SMTT(30)

-----------------------------------------------------------------------------
(* The parts of messages.                                                   *)
LEMMA PartsOfAre ==
    ASSUME NEW S, NEW ms \in Seq(S)
    PROVE  /\ PartsOf(ms) \in Seq(PartsIn(S)) /\ Len(PartsOf(ms)) = 2 * Len(ms)
           /\ \A i \in 1..(2 * Len(ms)) : \E n \in 1..Len(ms), r \in {1, 2} :
                2 * n + r = i + 2 /\ PartsOf(ms)[i] = [m |-> ms[n], part |-> r]
           /\ \A n \in 1..Len(ms), r \in {1, 2} : \E i \in 1..(2 * Len(ms)) :
                2 * n + r = i + 2 /\ PartsOf(ms)[i] = [m |-> ms[n], part |-> r]
<1> DEFINE f == [i \in 1..(2 * Len(ms)) |-> [m |-> ms[(i + 1) \div 2], part |-> 2 - (i % 2)]]
<1>1. PartsOf(ms) = f /\ Len(ms) \in Nat
  BY DEF PartsOf
<1>2. ASSUME NEW i \in 1..(2 * Len(ms))
      PROVE  \E n \in 1..Len(ms), r \in {1, 2} : 2 * n + r = i + 2 /\ f[i] = [m |-> ms[n], part |-> r]
  <2>1. i \in Nat /\ (i + 1) \div 2 \in 1..Len(ms) /\ 2 - (i % 2) \in {1, 2}
    BY <1>1
  <2>2. 2 * ((i + 1) \div 2) + (2 - (i % 2)) = i + 2
    BY <2>1, HalfAndRest
  <2> QED BY <2>1, <2>2
<1>3. DOMAIN f = 1..(2 * Len(ms))
  OBVIOUS
<1> HIDE DEF f
<1>4. f \in Seq(PartsIn(S)) /\ Len(f) = 2 * Len(ms)
  <2>1. \A i \in 1..(2 * Len(ms)) : f[i] \in PartsIn(S)
    <3>1. \A n \in 1..Len(ms), r \in {1, 2} : [m |-> ms[n], part |-> r] \in PartsIn(S)
      BY DEF PartsIn
    <3> QED BY <1>2, <3>1
  <2>2. f \in [1..(2 * Len(ms)) -> PartsIn(S)]
    BY <1>3, <2>1 DEF f
  <2>3. 2 * Len(ms) \in Nat
    BY <1>1
  <2> QED BY <1>3, <2>2, <2>3
<1>5. ASSUME NEW n \in 1..Len(ms), NEW r \in {1, 2}
      PROVE  \E i \in 1..(2 * Len(ms)) : 2 * n + r = i + 2 /\ f[i] = [m |-> ms[n], part |-> r]
  <2>1. PICK i \in 1..(2 * Len(ms)) : 2 * n + r = i + 2
    <3>1. 2 * n + r - 2 \in 1..(2 * Len(ms)) /\ 2 * n + r = (2 * n + r - 2) + 2
      BY <1>1
    <3> QED BY <3>1
  <2>2. PICK a \in 1..Len(ms), c \in {1, 2} : 2 * a + c = i + 2 /\ f[i] = [m |-> ms[a], part |-> c]
    BY <1>2
  <2>3. a = n /\ c = r
    BY ONLY <1>1, <2>1, <2>2, n \in 1..Len(ms), r \in {1, 2}
  <2> QED BY <2>1, <2>2, <2>3
<1> QED BY <1>1, <1>2, <1>4, <1>5

(* MRP sends on the whole messages that are not its own.                    *)
LEMMA WholeAreChosen ==
    ASSUME LinkType, kind = "mrp", NEW g \in Nat, NEW s \in Seq(PartsIn(LinkMsgs)), Follows(s, clientSent, 2 * g),
           NEW ps, ps = PartsOf(OfSorts(Messages(s), Sorts \ OwnSorts)),
           NEW e \in Nat, e = g + Len(Messages(s))
    PROVE  ps \in Seq(PartsIn(OnMsgs)) /\ Chosen(ps, 2 * g, 2 * e)
<1>1. clientSent \in Seq(LinkMsgs) /\ Len(clientSent) \in Nat /\ \A i \in 1..Len(clientSent) : clientSent[i].x = i
  BY DEF LinkType
<1>2. PICK ms \in Seq(LinkMsgs) : ms = Messages(s)
  BY <1>1, WholeMessages
<1>3. /\ g + Len(ms) <= Len(clientSent) /\ \A i \in 1..Len(ms) : ms[i] = clientSent[g + i]
      /\ Len(ms) \in Nat /\ e = g + Len(ms)
  BY <1>1, <1>2, WholeMessages
<1>4. \A i \in 1..Len(ms) : g + i \in 1..Len(clientSent) /\ ms[i].x = g + i
  BY <1>1, <1>3, SMTT(30)
<1>5. PICK t : t = OfSorts(ms, Sorts \ OwnSorts)
  OBVIOUS
<1>6. /\ t \in Seq(LinkMsgs)
      /\ \A j \in 1..Len(t) : \E i \in 1..Len(ms) : t[j] = ms[i] /\ ms[i].k \in Sorts \ OwnSorts
      /\ \A i, j \in 1..Len(t) : i < j => t[i].x < t[j].x
      /\ \A i \in 1..Len(ms) : ms[i].k \in Sorts \ OwnSorts => \E j \in 1..Len(t) : t[j] = ms[i]
  <2>1. CountsFrom(ms, g)
    BY <1>4 DEF CountsFrom
  <2>2. PICK S : S = Sorts \ OwnSorts
    OBVIOUS
  <2>3. t = OfSorts(ms, S)
    BY <1>5, <2>2
  <2>4. /\ t \in Seq(LinkMsgs)
        /\ \A j \in 1..Len(t) : \E i \in 1..Len(ms) : t[j] = ms[i] /\ ms[i].k \in S
        /\ \A i, j \in 1..Len(t) : i < j => t[i].x < t[j].x
        /\ \A i \in 1..Len(ms) : ms[i].k \in S => \E j \in 1..Len(t) : t[j] = ms[i]
    <3>1. PICK X : X = LinkMsgs
      OBVIOUS
    <3>2. ms \in Seq(X)
      BY <3>1
    <3>3. t \in Seq(X)
      BY ONLY <2>1, <2>3, <3>2, g \in Nat, SortsAreKept
    <3>4. \A j \in 1..Len(t) : \E i \in 1..Len(ms) : t[j] = ms[i] /\ ms[i].k \in S
      BY ONLY <2>1, <2>3, <3>2, g \in Nat, SortsAreKept
    <3>5. \A i, j \in 1..Len(t) : i < j => t[i].x < t[j].x
      BY ONLY <2>1, <2>3, <3>2, g \in Nat, SortsAreKept
    <3>6. \A i \in 1..Len(ms) : ms[i].k \in S => \E j : HasAt(t, ms[i], j)
      BY ONLY <2>1, <2>3, <3>2, g \in Nat, SortsAreKept
    <3> QED BY <3>1, <3>3, <3>4, <3>5, <3>6 DEF HasAt
  <2> QED BY <2>2, <2>4
<1>7. /\ t \in Seq(OnMsgs) /\ Len(t) \in Nat /\ ps = PartsOf(t)
  <2>1. LinkMsgs \subseteq OnMsgs
    BY DEF LinkMsgs, OnMsgs
  <2>2. t \in Seq(OnMsgs)
    BY <1>6, <2>1, SeqMonotonic
  <2> QED BY <1>2, <1>5, <2>2
<1>8. /\ ps \in Seq(PartsIn(OnMsgs)) /\ Len(ps) = 2 * Len(t)
      /\ \A i \in 1..Len(ps) : \E n \in 1..Len(t), r \in {1, 2} : 2 * n + r = i + 2 /\ ps[i] = [m |-> t[n], part |-> r]
      /\ \A n \in 1..Len(t), r \in {1, 2} : \E i \in 1..Len(ps) : ps[i] = [m |-> t[n], part |-> r]
  <2>1. /\ PartsOf(t) \in Seq(PartsIn(OnMsgs)) /\ Len(PartsOf(t)) = 2 * Len(t)
        /\ \A i \in 1..(2 * Len(t)) : \E n \in 1..Len(t), r \in {1, 2} :
             2 * n + r = i + 2 /\ PartsOf(t)[i] = [m |-> t[n], part |-> r]
        /\ \A n \in 1..Len(t), r \in {1, 2} : \E i \in 1..(2 * Len(t)) :
             2 * n + r = i + 2 /\ PartsOf(t)[i] = [m |-> t[n], part |-> r]
    BY ONLY <1>7, PartsOfAre
  <2>2. PICK v, z : v = PartsOf(t) /\ z = 2 * Len(t)
    OBVIOUS
  <2>3. /\ v \in Seq(PartsIn(OnMsgs)) /\ Len(v) = z
        /\ \A i \in 1..z : \E n \in 1..Len(t), r \in {1, 2} : 2 * n + r = i + 2 /\ v[i] = [m |-> t[n], part |-> r]
        /\ \A n \in 1..Len(t), r \in {1, 2} : \E i \in 1..z : 2 * n + r = i + 2 /\ v[i] = [m |-> t[n], part |-> r]
    BY ONLY <2>1, <2>2
  <2>4. ps = v
    BY <1>7, <2>2
  <2>5. \A n \in 1..Len(t), r \in {1, 2} : \E i \in 1..z : v[i] = [m |-> t[n], part |-> r]
    BY ONLY <2>3
  <2>6. /\ ps \in Seq(PartsIn(OnMsgs)) /\ Len(ps) = z
        /\ \A i \in 1..z : \E n \in 1..Len(t), r \in {1, 2} : 2 * n + r = i + 2 /\ ps[i] = [m |-> t[n], part |-> r]
    BY ONLY <2>3, <2>4
  <2>7. \A n \in 1..Len(t), r \in {1, 2} : \E i \in 1..z : ps[i] = [m |-> t[n], part |-> r]
    BY ONLY <2>4, <2>5
  <2>8. z = 2 * Len(t) /\ 1..z = 1..Len(ps)
    BY ONLY <2>2, <2>6
  <2> QED BY ONLY <2>6, <2>7, <2>8
<1>9. \A m : IsDue(m) <=> m.k \notin OwnSorts
  BY DEF IsDue, IsOwn
<1>10. \A m : SentOn(m) = m
  BY DEF SentOn
<1>11. ASSUME NEW i \in 1..Len(ps) PROVE IsPartOf(ps[i], 2 * g, 2 * e)
  <2>1. PICK n \in 1..Len(t), r \in {1, 2} : ps[i] = [m |-> t[n], part |-> r]
    BY <1>8
  <2>2. PICK l \in 1..Len(ms) : t[n] = ms[l] /\ ms[l].k \in Sorts \ OwnSorts
    BY <1>6
  <2>3. /\ ps[i].m = clientSent[g + l] /\ ps[i].m.x = g + l /\ g + l \in 1..Len(clientSent)
        /\ IsDue(clientSent[g + l]) /\ Place(ps[i]) = 2 * (g + l) + r
    <3>1. ps[i].m = ms[l] /\ ps[i].part = r
      BY <2>1, <2>2
    <3>2. ms[l] = clientSent[g + l] /\ ms[l].x = g + l /\ g + l \in 1..Len(clientSent)
      BY <1>3, <1>4
    <3>3. IsDue(ms[l])
      BY <1>9, <2>2
    <3> QED BY <3>1, <3>2, <3>3 DEF Place
  <2>4. 2 * g + 2 < 2 * (g + l) + r /\ 2 * (g + l) + r <= 2 * e + 2
    BY ONLY <1>3, l \in 1..Len(ms), r \in {1, 2}, g \in Nat, SMTT(30)
  <2> QED BY <1>10, <2>3, <2>4 DEF IsPartOf
<1>12. ASSUME NEW i \in 1..Len(ps), NEW j \in 1..Len(ps), i < j PROVE Place(ps[i]) < Place(ps[j])
  <2>1. PICK n \in 1..Len(t), r \in {1, 2} : 2 * n + r = i + 2 /\ ps[i] = [m |-> t[n], part |-> r]
    BY <1>8
  <2>2. PICK k \in 1..Len(t), c \in {1, 2} : 2 * k + c = j + 2 /\ ps[j] = [m |-> t[k], part |-> c]
    BY <1>8
  <2>3. t[n].x \in Nat /\ t[k].x \in Nat
    <3>1. t[n] \in LinkMsgs /\ t[k] \in LinkMsgs
      BY <1>6
    <3> QED BY <3>1 DEF LinkMsgs
  <2>4. Place(ps[i]) = 2 * t[n].x + r /\ Place(ps[j]) = 2 * t[k].x + c
    BY <2>1, <2>2, SMTT(30) DEF Place
  <2>5. n < k \/ (n = k /\ r < c)
    BY ONLY <1>7, <1>8, <1>12, <2>1, <2>2, i \in 1..Len(ps), j \in 1..Len(ps), n \in 1..Len(t), k \in 1..Len(t),
            r \in {1, 2}, c \in {1, 2}
  <2>6. t[n].x < t[k].x \/ (t[n].x = t[k].x /\ r < c)
    BY <1>6, <2>5
  <2>7. PICK a \in Nat, b \in Nat : a = t[n].x /\ b = t[k].x
    BY <2>3
  <2>8. a < b \/ (a = b /\ r < c)
    BY <2>6, <2>7
  <2>9. 2 * a + r < 2 * b + c
    BY ONLY <2>8, a \in Nat, b \in Nat, r \in {1, 2}, c \in {1, 2}
  <2> QED BY <2>4, <2>7, <2>9
<1>13. ASSUME NEW n \in 1..Len(clientSent), NEW r \in {1, 2}, IsDue(clientSent[n]),
              2 * g + 2 < 2 * n + r, 2 * n + r <= 2 * e + 2
       PROVE  \E i \in 1..Len(ps) : Place(ps[i]) = 2 * n + r
  <2>1. PICK l \in 1..Len(ms) : n = g + l
    <3>1. n - g \in 1..Len(ms) /\ n = g + (n - g)
      BY ONLY <1>1, <1>3, <1>13, n \in 1..Len(clientSent), r \in {1, 2}, g \in Nat
    <3> QED BY <3>1
  <2>2. ms[l] = clientSent[n] /\ ms[l].k \in Sorts \ OwnSorts
    <3>1. ms[l] = clientSent[n] /\ ms[l] \in LinkMsgs
      BY <1>3, <2>1
    <3>2. ms[l].k \in Sorts
      BY <3>1 DEF LinkMsgs
    <3> QED BY <1>9, <1>13, <3>1, <3>2
  <2>3. PICK j \in 1..Len(t) : t[j] = ms[l]
    BY <1>6, <2>2
  <2>4. PICK i \in 1..Len(ps) : ps[i] = [m |-> t[j], part |-> r]
    BY <1>8
  <2>5. Place(ps[i]) = 2 * n + r
    <3>1. clientSent[n].x = n
      BY <1>1
    <3>2. ps[i].m.x = n /\ ps[i].part = r
      BY <2>2, <2>3, <2>4, <3>1, SMTT(30)
    <3> QED BY <3>2 DEF Place
  <2> QED BY <2>5
<1> QED BY <1>8, <1>11, <1>12, <1>13 DEF Chosen

(* A relay sends on everything.                                             *)
LEMMA EverythingIsChosen ==
    ASSUME LinkType, kind = "relay", NEW h \in Nat, NEW s \in Seq(PartsIn(LinkMsgs)), Follows(s, clientSent, h),
           NEW e \in Nat, e = h + Len(s)
    PROVE  s \in Seq(PartsIn(OnMsgs)) /\ Chosen(s, h, e)
<1>1. clientSent \in Seq(LinkMsgs) /\ Len(clientSent) \in Nat /\ \A i \in 1..Len(clientSent) : clientSent[i].x = i
  BY DEF LinkType
<1>2. s \in Seq(PartsIn(OnMsgs)) /\ Len(s) \in Nat
  <2>1. PartsIn(LinkMsgs) \subseteq PartsIn(OnMsgs)
    BY DEF LinkMsgs, OnMsgs, PartsIn
  <2> QED BY <2>1, SeqMonotonic
<1>3. \A m : IsDue(m) /\ SentOn(m) = m
  BY DEF IsDue, SentOn
<1>4. ASSUME NEW i \in 1..Len(s)
      PROVE  /\ h + i \in 1..(2 * Len(clientSent)) /\ s[i].m.x \in 1..Len(clientSent)
             /\ s[i].m = clientSent[s[i].m.x] /\ Place(s[i]) = h + i + 2
  <2>1. h + i \in 1..(2 * Len(clientSent)) /\ s[i] = PartAt(clientSent, h + i)
    BY <1>1, <1>2 DEF Follows
  <2>2. PICK q \in 1..(2 * Len(clientSent)) : q = h + i
    BY <2>1
  <2>3. \A j \in 1..Len(clientSent) : clientSent[j].x = 0 + j
    BY <1>1
  <2>4. /\ Place(PartAt(clientSent, q)) = 2 * 0 + q + 2
        /\ PartAt(clientSent, q).m.x \in 1..(0 + Len(clientSent))
        /\ PartAt(clientSent, q).m = clientSent[PartAt(clientSent, q).m.x - 0]
    BY ONLY <1>1, <2>3, 0 \in Nat, q \in 1..(2 * Len(clientSent)), PlaceOfPart
  <2>5. PICK c \in 1..Len(clientSent) : c = s[i].m.x
    BY <1>1, <2>1, <2>2, <2>4
  <2>6. c - 0 = c
    BY <2>5
  <2> QED BY <2>1, <2>2, <2>4, <2>5, <2>6
<1>5. ASSUME NEW i \in 1..Len(s) PROVE IsPartOf(s[i], h, e)
  <2>1. h + 2 < h + i + 2 /\ h + i + 2 <= e + 2
    BY <1>2
  <2> QED BY <1>3, <1>4, <2>1 DEF IsPartOf
<1>6. ASSUME NEW i \in 1..Len(s), NEW j \in 1..Len(s), i < j PROVE Place(s[i]) < Place(s[j])
  BY <1>4, <1>6
<1>7. ASSUME NEW n \in 1..Len(clientSent), NEW r \in {1, 2}, h + 2 < 2 * n + r, 2 * n + r <= e + 2
      PROVE  \E i \in 1..Len(s) : Place(s[i]) = 2 * n + r
  <2>1. PICK i \in 1..Len(s) : h + i + 2 = 2 * n + r
    <3>1. 2 * n + r - 2 - h \in 1..Len(s) /\ h + (2 * n + r - 2 - h) + 2 = 2 * n + r
      BY <1>1, <1>2, <1>7
    <3> QED BY <3>1
  <2> QED BY <1>4, <2>1
<1> QED BY <1>2, <1>5, <1>6, <1>7 DEF Chosen

(* A round of Companion: the next message, unless it is its own.            *)
LEMMA NextIsChosen ==
    ASSUME LinkType, kind = "companion", NEW g \in Nat, g + 1 \in 1..Len(clientSent)
    PROVE  LET m == clientSent[g + 1]
           IN  /\ IsOwn(m) => Chosen(<<>>, 2 * g, 2 * (g + 1))
               /\ Parts(Outgoing(m)) \in Seq(PartsIn(OnMsgs))
               /\ ~IsOwn(m) => Chosen(Parts(Outgoing(m)), 2 * g, 2 * (g + 1))
               /\ Outgoing(m).x = g + 1 /\ \A i \in 1..Len(Parts(Outgoing(m))) : Parts(Outgoing(m))[i].m = Outgoing(m)
<1>1. clientSent \in Seq(LinkMsgs) /\ Len(clientSent) \in Nat /\ \A i \in 1..Len(clientSent) : clientSent[i].x = i
  BY DEF LinkType
<1>2. PICK m : m = clientSent[g + 1]
  OBVIOUS
<1>3. m \in LinkMsgs /\ m.x = g + 1
  BY <1>1, <1>2
<1>4. \A a : IsDue(a) <=> ~IsOwn(a)
  BY DEF IsDue
<1>5. ASSUME NEW n \in 1..Len(clientSent), NEW r \in {1, 2}, 2 * g + 2 < 2 * n + r, 2 * n + r <= 2 * (g + 1) + 2
      PROVE  n = g + 1
  BY <1>5
<1>6. IsOwn(m) => Chosen(<<>>, 2 * g, 2 * (g + 1))
  <2>1. 1..Len(<<>>) = {}
    OBVIOUS
  <2> QED BY <1>2, <1>4, <1>5, <2>1 DEF Chosen
<1>7. PICK o : o = Outgoing(m)
  OBVIOUS
<1>8. o \in OnMsgs /\ o.x = g + 1
  BY <1>3, <1>7 DEF Outgoing, LinkMsgs, OnMsgs, Sorts
<1>9. PICK p : p = Parts(o)
  OBVIOUS
<1>10. /\ p \in Seq(PartsIn(OnMsgs)) /\ Len(p) = 2 /\ p[1] = [m |-> o, part |-> 1] /\ p[2] = [m |-> o, part |-> 2]
  BY <1>8, <1>9 DEF Parts, PartsIn
<1>11. Place(p[1]) = 2 * g + 3 /\ Place(p[2]) = 2 * g + 4 /\ p[1].m = o /\ p[2].m = o
  BY <1>8, <1>10 DEF Place
<1>12. 1..Len(p) = {1, 2}
  BY <1>10
<1>13. ASSUME ~IsOwn(m) PROVE Chosen(p, 2 * g, 2 * (g + 1))
  <2>1. ASSUME NEW i \in {1, 2} PROVE IsPartOf(p[i], 2 * g, 2 * (g + 1))
    <3>1. 2 * g + 2 < Place(p[i]) /\ Place(p[i]) <= 2 * (g + 1) + 2
      BY <1>11
    <3>2. p[i].m = o /\ p[i].m.x = g + 1 /\ o = SentOn(m)
      BY <1>7, <1>8, <1>11 DEF SentOn
    <3> QED BY <1>2, <1>4, <1>13, <3>1, <3>2 DEF IsPartOf
  <2>2. \A i, j \in {1, 2} : i < j => Place(p[i]) < Place(p[j])
    BY <1>11
  <2>3. ASSUME NEW n \in 1..Len(clientSent), NEW r \in {1, 2}, 2 * g + 2 < 2 * n + r, 2 * n + r <= 2 * (g + 1) + 2
        PROVE  \E i \in {1, 2} : Place(p[i]) = 2 * n + r
    <3>1. n = g + 1
      BY <1>5, <2>3
    <3>2. CASE r = 1
      BY <1>11, <3>1, <3>2
    <3>3. CASE r = 2
      BY <1>11, <3>1, <3>3
    <3> QED BY <3>2, <3>3
  <2> QED BY <1>12, <2>1, <2>2, <2>3 DEF Chosen
<1> QED BY <1>2, <1>6, <1>7, <1>8, <1>9, <1>10, <1>11, <1>12, <1>13

-----------------------------------------------------------------------------
(* What was sent on stays what it is.                                       *)
LEMMA SendsUntouched ==
    ASSUME NEW h, SentAre(h), UNCHANGED <<toDevice, clientSent, kind>>, device' # "closed" => device # "closed"
    PROVE  SentAre(h)'
<1>1. \A m : IsDue(m)' = IsDue(m) /\ SentOn(m)' = SentOn(m) /\ Place(m)' = Place(m)
  BY DEF IsDue, SentOn, Outgoing, Place, IsOwn, OwnSorts
<1>2. \A c : AllUpTo(c)' <=> AllUpTo(c)
  BY <1>1 DEF AllUpTo, Reaches
<1>3. \A p, a, b : IsPartOf(p, a, b)' <=> IsPartOf(p, a, b)
  BY <1>1 DEF IsPartOf
<1>4. ASSUME NEW i \in 1..Len(toDevice)
      PROVE  (IsPartOf(toDevice[i], 0, h) /\ AllUpTo(Place(toDevice[i])))'
  <2>1. PICK p, c : p = toDevice[i] /\ c = Place(p)
    OBVIOUS
  <2>2. IsPartOf(p, 0, h)' /\ AllUpTo(c)'
    BY <1>2, <1>3, <2>1 DEF SentAre
  <2>3. toDevice'[i] = p /\ Place(p)' = c
    BY <1>1, <2>1
  <2> QED BY <2>2, <2>3 DEF IsPartOf, AllUpTo, Place
<1>5. (\A i, j \in 1..Len(toDevice) : i < j => Place(toDevice[i]) < Place(toDevice[j]))'
  BY DEF SentAre, Place
<1>6. device' # "closed" => AllUpTo(h + 2)'
  BY <1>2 DEF SentAre
<1> QED BY <1>4, <1>5, <1>6 DEF SentAre

LEMMA AnswersUntouched ==
    ASSUME Answers, UNCHANGED <<kind, clientSent, toClient, xid, fromDevice, deviceSent, toDevice>>
    PROVE  Answers'
BY DEF Answers, IsOf, WasSentOn, Pending, Response

(* MRP processes its buffer with what came.                                 *)
LEMMA MrpProcesses ==
    ASSUME LinkType, kind = "mrp", UNCHANGED <<clientSent, kind>>, device # "closed",
           NEW g \in 0..Len(clientSent), SentAre(2 * g),
           NEW s \in Seq(PartsIn(LinkMsgs)), Follows(s, clientSent, 2 * g), ProcessAll(s)
    PROVE  \E e \in 0..Len(clientSent) :
             /\ buffer' \in Seq(PartsIn(LinkMsgs)) /\ Follows(buffer', clientSent, 2 * e) /\ Len(buffer') < 2
             /\ 2 * e + Len(buffer') = 2 * g + Len(s)
             /\ SentAre(2 * e)' /\ toDevice' \in Seq(PartsIn(OnMsgs)) /\ toClient' \in Seq(SaidMsgs)
<1>1. /\ clientSent \in Seq(LinkMsgs) /\ Len(clientSent) \in Nat /\ g \in Nat /\ 2 * g \in Nat /\ Len(s) \in Nat
      /\ \A i \in 1..Len(clientSent) : clientSent[i].x = i
  <2>1. clientSent \in Seq(LinkMsgs) /\ \A i \in 1..Len(clientSent) : clientSent[i].x = i
    BY DEF LinkType
  <2> QED BY <2>1
<1>2. PICK ms \in Seq(LinkMsgs) : ms = Messages(s)
  BY <1>1, WholeMessages
<1>3. /\ g + Len(ms) <= Len(clientSent) /\ \A i \in 1..Len(ms) : ms[i] = clientSent[g + i]
      /\ Len(s) - 2 * Len(ms) \in {0, 1} /\ Len(ms) \in Nat
  BY <1>1, <1>2, WholeMessages
<1>4. PICK e \in 0..Len(clientSent) : e = g + Len(ms)
  BY ONLY <1>1, <1>3
<1>5. /\ buffer' = From(s, 2 * Len(ms) + 1)
      /\ toDevice' = toDevice \o PartsOf(OfSorts(ms, Sorts \ OwnSorts))
      /\ toClient' = toClient \o [i \in DOMAIN OfSorts(ms, OwnSorts) |-> Answer(OfSorts(ms, OwnSorts)[i])]
  BY <1>2 DEF ProcessAll
<1>6. /\ buffer' \in Seq(PartsIn(LinkMsgs)) /\ Len(buffer') = Len(s) - 2 * Len(ms) /\ Follows(buffer', clientSent, 2 * e)
  <2>1. PICK k \in 0..Len(s) : k = 2 * Len(ms)
    BY ONLY <1>1, <1>3
  <2>2. 2 * g + k = 2 * e
    BY ONLY <1>1, <1>3, <1>4, <2>1
  <2>3. /\ From(s, k + 1) \in Seq(PartsIn(LinkMsgs)) /\ Len(From(s, k + 1)) = Len(s) - k
        /\ Follows(From(s, k + 1), clientSent, 2 * g + k)
    BY ONLY <1>1, s \in Seq(PartsIn(LinkMsgs)), Follows(s, clientSent, 2 * g), k \in 0..Len(s), CutAnywhere
  <2> QED BY <1>5, <2>1, <2>2, <2>3
<1>7. SentAre(2 * e)' /\ toDevice' \in Seq(PartsIn(OnMsgs))
  <2>1. PICK ps : ps = PartsOf(OfSorts(ms, Sorts \ OwnSorts))
    OBVIOUS
  <2>2. ps \in Seq(PartsIn(OnMsgs)) /\ Chosen(ps, 2 * g, 2 * e)
    <3>1. e \in Nat /\ e = g + Len(Messages(s)) /\ ps = PartsOf(OfSorts(Messages(s), Sorts \ OwnSorts))
      BY <1>1, <1>2, <1>4, <2>1
    <3> QED BY <1>1, <3>1, WholeAreChosen
  <2>3. 2 * g \in Nat /\ 2 * e \in Nat /\ 2 * g <= 2 * e
    BY ONLY <1>1, <1>3, <1>4
  <2>4. PICK a \in Nat, c \in Nat : a = 2 * g /\ c = 2 * e /\ a <= c
    BY <2>3
  <2>5. SentAre(c)' /\ toDevice' \in Seq(PartsIn(OnMsgs))
    BY <1>5, <2>1, <2>2, <2>4, ChosenIsSent
  <2> QED BY <2>4, <2>5
<1>8. toClient' \in Seq(SaidMsgs)
  <2>1. PICK S, t : S = OwnSorts /\ t = OfSorts(ms, S)
    OBVIOUS
  <2>2. CountsFrom(ms, g)
    <3>1. ASSUME NEW i \in 1..Len(ms) PROVE ms[i].x = g + i
      <4>1. g + i \in 1..Len(clientSent)
        BY ONLY <1>1, <1>3, i \in 1..Len(ms)
      <4> QED BY <1>1, <1>3, <4>1
    <3> QED BY <3>1 DEF CountsFrom
  <2>3. t \in Seq(LinkMsgs)
    BY ONLY <1>1, ms \in Seq(LinkMsgs), <2>1, <2>2, SortsAreKept
  <2>4. \A m \in LinkMsgs : Answer(m) \in SaidMsgs
    BY DEF Answer, LinkMsgs, SaidMsgs
  <2>5. PICK u : u = [i \in DOMAIN t |-> Answer(t[i])]
    OBVIOUS
  <2>6. u \in Seq(SaidMsgs)
    <3>1. DOMAIN t = 1..Len(t) /\ Len(t) \in Nat
      BY <2>3
    <3>2. \A i \in 1..Len(t) : Answer(t[i]) \in SaidMsgs
      BY <2>3, <2>4
    <3>3. u \in [1..Len(t) -> SaidMsgs]
      BY <2>5, <3>1, <3>2
    <3> QED BY <3>1, <3>3
  <2>7. toClient \in Seq(SaidMsgs)
    BY DEF LinkType
  <2>8. PICK v \in Seq(SaidMsgs) : v = toClient
    BY <2>7
  <2>9. v \o u \in Seq(SaidMsgs)
    BY ONLY <2>6, v \in Seq(SaidMsgs), ConcatProperties
  <2> QED BY <1>5, <2>1, <2>5, <2>8, <2>9
<1>9. Len(buffer') < 2 /\ 2 * e + Len(buffer') = 2 * g + Len(s)
  <2>1. PICK l \in Nat, k \in Nat : l = Len(s) /\ k = Len(ms)
    BY <1>1, <1>3
  <2>2. Len(buffer') = l - 2 * k /\ e = g + k /\ l - 2 * k \in {0, 1}
    BY <1>3, <1>4, <1>6, <2>1
  <2>3. 2 * e + (l - 2 * k) = 2 * g + l
    BY ONLY <1>1, <2>2, l \in Nat, k \in Nat
  <2> QED BY <2>1, <2>2, <2>3
<1> QED BY <1>6, <1>7, <1>8, <1>9

-----------------------------------------------------------------------------
LEMMA ClientSendsKeeps ==
    ASSUME LinkInv, NEW k \in Sorts, ClientSends(k)
    PROVE  LinkInv'
<1>1. LinkType /\ OneInfo /\ Stages /\ Answers
  BY DEF LinkInv
<1>2. PICK h \in 0..(2 * Len(clientSent)) : BufferIs(h) /\ SentAre(h)
  BY DEF LinkInv
<1>3. PICK m : m = [k |-> k, x |-> Len(clientSent) + 1, as |-> "client"]
  OBVIOUS
<1>4. /\ client = "open" /\ clientSent' = Append(clientSent, m) /\ toProxy' = toProxy \o Parts(m)
      /\ UNCHANGED <<kind, stage, client, device, deviceSent, fromDevice, buffer, event, task, xid, toDevice, toClient>>
      /\ k = "info" => \A i \in DOMAIN clientSent : clientSent[i].k # "info"
  BY <1>3 DEF ClientSends
<1>5. /\ clientSent \in Seq(LinkMsgs) /\ Len(clientSent) \in Nat /\ DOMAIN clientSent = 1..Len(clientSent)
      /\ \A i \in 1..Len(clientSent) : clientSent[i].x = i
      /\ toProxy \in Seq(PartsIn(LinkMsgs)) /\ buffer \in Seq(PartsIn(LinkMsgs))
      /\ Len(toProxy) \in Nat /\ Len(buffer) \in Nat /\ h \in Nat
  <2>1. /\ clientSent \in Seq(LinkMsgs) /\ \A i \in 1..Len(clientSent) : clientSent[i].x = i
        /\ toProxy \in Seq(PartsIn(LinkMsgs)) /\ buffer \in Seq(PartsIn(LinkMsgs))
    BY <1>1 DEF LinkType
  <2> QED BY <2>1
<1>6. m \in LinkMsgs /\ m.x = Len(clientSent) + 1 /\ m.k = k
  BY <1>3, <1>5 DEF LinkMsgs
<1>7. /\ clientSent' \in Seq(LinkMsgs) /\ Len(clientSent') = Len(clientSent) + 1
      /\ \A i \in 1..Len(clientSent) : clientSent'[i] = clientSent[i]
      /\ clientSent'[Len(clientSent) + 1] = m
      /\ \A i \in 1..Len(clientSent') : i \in 1..Len(clientSent) \/ i = Len(clientSent) + 1
      /\ \A i \in 1..Len(clientSent) : i \in 1..Len(clientSent')
  BY <1>4, <1>5, <1>6
<1>8. /\ Follows(buffer, clientSent', h)
      /\ toProxy' \in Seq(PartsIn(LinkMsgs)) /\ Len(toProxy') = Len(toProxy) + 2
      /\ Follows(toProxy', clientSent', h + Len(buffer))
  <2>1. PICK o \in Nat : o = h + Len(buffer)
    BY <1>5
  <2>2. Follows(buffer, clientSent, h) /\ Follows(toProxy, clientSent, o) /\ o + Len(toProxy) = 2 * Len(clientSent)
    BY <1>2, <1>4, <2>1 DEF BufferIs
  <2>3. Follows(buffer, Append(clientSent, m), h)
    BY ONLY <1>5, <1>6, <2>2, MoreIsSent
  <2>4. /\ toProxy \o Parts(m) \in Seq(PartsIn(LinkMsgs)) /\ Len(toProxy \o Parts(m)) = Len(toProxy) + 2
        /\ o + Len(toProxy) = 2 * Len(clientSent) => Follows(toProxy \o Parts(m), Append(clientSent, m), o)
    BY ONLY <1>5, <1>6, <2>2, o \in Nat, MoreIsSent
  <2> QED BY <1>4, <2>1, <2>2, <2>3, <2>4
<1>9. LinkType'
  <2>1. \A i \in 1..Len(clientSent') : clientSent'[i].x = i
    BY <1>5, <1>6, <1>7
  <2> QED BY <1>1, <1>4, <1>7, <1>8, <2>1 DEF LinkType
<1>10. OneInfo' /\ Stages'
  <2>1. OneInfo'
    <3>1. ASSUME NEW i \in 1..Len(clientSent'), NEW j \in 1..Len(clientSent'),
                 clientSent'[i].k = "info", clientSent'[j].k = "info"
          PROVE  i = j
      <4>1. CASE i \in 1..Len(clientSent) /\ j \in 1..Len(clientSent)
        BY <1>1, <1>7, <3>1, <4>1 DEF OneInfo
      <4>2. CASE i = Len(clientSent) + 1 /\ j \in 1..Len(clientSent)
        BY <1>4, <1>5, <1>6, <1>7, <3>1, <4>2, SMTT(30)
      <4>3. CASE j = Len(clientSent) + 1 /\ i \in 1..Len(clientSent)
        BY <1>4, <1>5, <1>6, <1>7, <3>1, <4>3
      <4> QED BY <1>7, <4>1, <4>2, <4>3
    <3> QED BY <3>1 DEF OneInfo
  <2>2. Stages'
    BY <1>1, <1>4 DEF Stages
  <2> QED BY <2>1, <2>2
<1>11. BufferIs(h)'
  <2>1. h + Len(buffer) + Len(toProxy') = 2 * Len(clientSent')
    <3>1. h + Len(buffer) + Len(toProxy) = 2 * Len(clientSent)
      BY <1>2, <1>4 DEF BufferIs
    <3>2. PICK b \in Nat, p \in Nat, c \in Nat : b = Len(buffer) /\ p = Len(toProxy) /\ c = Len(clientSent)
      BY <1>5
    <3>3. h + b + p = 2 * c /\ h \in Nat
      BY <1>5, <3>1, <3>2
    <3>4. h + b + (p + 2) = 2 * (c + 1)
      BY ONLY <3>3, b \in Nat, p \in Nat, c \in Nat
    <3> QED BY <1>7, <1>8, <3>2, <3>4
  <2>2. ASSUME kind # "relay" PROVE \E g \in 0..Len(clientSent') : h = 2 * g
    <3>1. PICK g \in 0..Len(clientSent) : h = 2 * g
      BY <1>2, <2>2 DEF BufferIs
    <3>2. g \in 0..Len(clientSent')
      BY <1>5, <1>7
    <3> QED BY <3>1, <3>2
  <2> QED BY <1>4, <1>8, <2>1, <2>2 DEF BufferIs
<1>12. \A i \in 1..Len(toDevice) : toDevice[i].m.x \in 1..Len(clientSent)
  BY <1>2 DEF SentAre, IsPartOf
<1>13. SentAre(h)'
  <2>1. \A a : IsDue(a)' = IsDue(a) /\ SentOn(a)' = SentOn(a) /\ Place(a)' = Place(a)
    BY <1>4 DEF IsDue, SentOn, Outgoing, Place, IsOwn, OwnSorts
  <2>2. \A c : Reaches(c)' <=> Reaches(c)
    BY <1>4 DEF Reaches, Place
  <2>3. ASSUME NEW p, NEW a, NEW b, IsPartOf(p, a, b) PROVE IsPartOf(p, a, b)'
    BY <1>4, <1>7, <2>1, <2>3 DEF IsPartOf
  <2>4. ASSUME NEW c \in Int, c <= h + 2, AllUpTo(c) PROVE AllUpTo(c)'
    <3>1. ASSUME NEW n \in 1..Len(clientSent'), NEW r \in {1, 2}, IsDue(clientSent'[n]), 2 * n + r <= c
          PROVE  Reaches(2 * n + r)
      <4>1. n # Len(clientSent) + 1
        <5>1. h <= 2 * Len(clientSent)
          BY <1>5
        <5> QED BY ONLY <1>5, <2>4, <3>1, <5>1, c \in Int, r \in {1, 2}
      <4>2. n \in 1..Len(clientSent) /\ clientSent'[n] = clientSent[n]
        BY <1>7, <4>1
      <4> QED BY <2>4, <3>1, <4>2 DEF AllUpTo
    <3> QED BY <2>1, <2>2, <3>1 DEF AllUpTo
  <2>5. ASSUME NEW i \in 1..Len(toDevice) PROVE IsPartOf(toDevice[i], 0, h)' /\ AllUpTo(Place(toDevice[i]))'
    <3>1. IsPartOf(toDevice[i], 0, h) /\ AllUpTo(Place(toDevice[i]))
      BY <1>2 DEF SentAre
    <3>2. Place(toDevice[i]) \in Int /\ Place(toDevice[i]) <= h + 2
      <4>1. toDevice[i] \in PartsIn(OnMsgs)
        BY <1>1 DEF LinkType
      <4>2. Place(toDevice[i]) \in Nat
        BY <4>1 DEF PartsIn, OnMsgs, Place
      <4> QED BY <3>1, <4>2 DEF IsPartOf
    <3>3. PICK c \in Int : c = Place(toDevice[i])
      BY <3>2
    <3>4. AllUpTo(c)'
      BY <2>4, <3>1, <3>2, <3>3
    <3>5. PICK p : p = toDevice[i]
      OBVIOUS
    <3>6. IsPartOf(p, 0, h)'
      BY <2>3, <3>1, <3>5
    <3>7. Place(toDevice[i])' = c
      BY <1>4, <3>3 DEF Place
    <3> QED BY <1>4, <3>4, <3>5, <3>6, <3>7 DEF AllUpTo, IsPartOf, Reaches, Place
  <2>6. device # "closed" => AllUpTo(h + 2)'
    <3>1. device # "closed" => AllUpTo(h + 2)
      BY <1>2 DEF SentAre
    <3>2. h + 2 \in Int /\ h + 2 <= h + 2
      BY <1>5
    <3>3. PICK c \in Int : c = h + 2
      BY <3>2
    <3> QED BY <2>4, <3>1, <3>2, <3>3
  <2>7. \A i, j \in 1..Len(toDevice) : i < j => Place(toDevice[i]) < Place(toDevice[j])
    BY <1>2 DEF SentAre
  <2> QED BY <1>4, <2>5, <2>6, <2>7 DEF SentAre, AllUpTo, Place
<1>14. Answers'
  <2>1. ASSUME kind = "companion" PROVE Answers'
    <3>1. ~WasSentOn(Len(clientSent) + 1)
      <4>1. Len(clientSent) + 1 \notin 1..Len(clientSent)
        BY <1>5
      <4> QED BY <1>12, <4>1 DEF WasSentOn
    <3>2. \A a : IsOf(a) => IsOf(a)'
      BY <1>7 DEF IsOf
    <3>3. \A n : WasSentOn(n)' <=> WasSentOn(n)
      BY <1>4 DEF WasSentOn
    <3>4. \A n : Pending(n)' <=> Pending(n)
      BY <1>4 DEF Pending, Response
    <3>5. \A i \in 1..Len(toClient) : IsOf(toClient[i])'
      BY <1>1, <1>4, <2>1, <3>2 DEF Answers, IsOf
    <3>6. xid # 0 => xid \in 1..Len(clientSent') /\ clientSent'[xid].k = "info"
      BY <1>1, <1>7, <2>1 DEF Answers
    <3>7. ASSUME NEW n \in 1..Len(clientSent'), clientSent'[n].k = "info", WasSentOn(n), Pending(n)
          PROVE  xid = n
      <4>1. n \in 1..Len(clientSent) /\ clientSent'[n] = clientSent[n]
        BY <1>7, <3>1, <3>7
      <4> QED BY <1>1, <2>1, <3>7, <4>1 DEF Answers
    <3>8. \A i \in 1..Len(fromDevice) :
            /\ fromDevice[i].k = "response" => WasSentOn(fromDevice[i].x)'
            /\ \E j \in 1..Len(deviceSent) : deviceSent[j] = fromDevice[i]
      BY <1>1, <1>4, <2>1 DEF Answers, WasSentOn
    <3>9. \A i, j \in 1..Len(fromDevice) : i < j => fromDevice[i] # fromDevice[j]
      BY <1>1, <2>1 DEF Answers
    <3> QED BY <1>4, <3>3, <3>4, <3>5, <3>6, <3>7, <3>8, <3>9 DEF Answers, IsOf, WasSentOn
  <2>2. CASE kind # "companion"
    BY <1>4, <2>2 DEF Answers
  <2> QED BY <2>1, <2>2
<1>15. h \in 0..(2 * Len(clientSent'))
  BY <1>5, <1>7
<1> QED BY <1>9, <1>10, <1>11, <1>13, <1>14, <1>15 DEF LinkInv

LEMMA DeviceSendsKeeps ==
    ASSUME LinkInv, NEW m \in DownMsgs, DeviceSends(m)
    PROVE  LinkInv'
<1>1. LinkType /\ OneInfo /\ Stages /\ Answers
  BY DEF LinkInv
<1>2. PICK h \in 0..(2 * Len(clientSent)) : BufferIs(h) /\ SentAre(h)
  BY DEF LinkInv
<1>3. /\ deviceSent' = Append(deviceSent, m) /\ fromDevice' = Append(fromDevice, m)
      /\ UNCHANGED <<kind, stage, client, device, clientSent, toProxy, buffer, event, task, xid, toDevice, toClient>>
      /\ ~ \E j \in 1..Len(deviceSent) : deviceSent[j] = m
      /\ m.k = "response" => WasSentOn(m.x)
  <2>1. ~ \E j \in 1..Len(deviceSent) : deviceSent[j] = m
    BY DEF DeviceSends, Contains
  <2>2. DOMAIN toDevice = 1..Len(toDevice)
    BY <1>1 DEF LinkType
  <2>3. m.k = "response" => WasSentOn(m.x)
    BY <2>2 DEF DeviceSends, WasSentOn
  <2> QED BY <2>1, <2>3 DEF DeviceSends
<1>4. /\ deviceSent \in Seq(DownMsgs) /\ fromDevice \in Seq(DownMsgs)
      /\ Len(deviceSent) \in Nat /\ Len(fromDevice) \in Nat
  <2>1. deviceSent \in Seq(DownMsgs) /\ fromDevice \in Seq(DownMsgs)
    BY <1>1 DEF LinkType
  <2> QED BY <2>1
<1>5. /\ fromDevice' \in Seq(DownMsgs) /\ Len(fromDevice') = Len(fromDevice) + 1
      /\ fromDevice'[Len(fromDevice) + 1] = m /\ \A i \in 1..Len(fromDevice) : fromDevice'[i] = fromDevice[i]
      /\ \A i \in 1..Len(fromDevice') : i \in 1..Len(fromDevice) \/ i = Len(fromDevice) + 1
  BY <1>3, <1>4
<1>6. /\ deviceSent' \in Seq(DownMsgs) /\ Len(deviceSent') = Len(deviceSent) + 1
      /\ deviceSent'[Len(deviceSent) + 1] = m /\ \A i \in 1..Len(deviceSent) : deviceSent'[i] = deviceSent[i]
      /\ Len(deviceSent) + 1 \in 1..Len(deviceSent') /\ \A i \in 1..Len(deviceSent) : i \in 1..Len(deviceSent')
  BY <1>3, <1>4
<1>7. LinkType' /\ OneInfo' /\ Stages'
  <2>1. LinkType'
    BY <1>1, <1>3, <1>5, <1>6 DEF LinkType
  <2> QED BY <1>1, <1>3, <2>1 DEF OneInfo, Stages
<1>8. BufferIs(h)' /\ SentAre(h)'
  <2>1. BufferIs(h)'
    BY <1>2, <1>3 DEF BufferIs
  <2> QED BY <1>2, <1>3, <2>1, SendsUntouched
<1>9. Answers'
  <2>1. ASSUME kind = "companion" PROVE Answers'
    <3>1. /\ \A i \in 1..Len(toClient) : IsOf(toClient[i])
          /\ xid # 0 => xid \in 1..Len(clientSent) /\ clientSent[xid].k = "info"
          /\ \A i \in 1..Len(fromDevice) :
               /\ fromDevice[i].k = "response" => WasSentOn(fromDevice[i].x)
               /\ \E j \in 1..Len(deviceSent) : deviceSent[j] = fromDevice[i]
          /\ \A i, j \in 1..Len(fromDevice) : i < j => fromDevice[i] # fromDevice[j]
          /\ \A n \in 1..Len(clientSent) : clientSent[n].k = "info" /\ WasSentOn(n) /\ Pending(n) => xid = n
      BY <1>1, <2>1 DEF Answers
    <3>2. \A n : WasSentOn(n)' <=> WasSentOn(n)
      BY <1>3 DEF WasSentOn
    <3>3. (\A i \in 1..Len(toClient) : IsOf(toClient[i]))'
      BY <1>3, <3>1 DEF IsOf
    <3>4. ASSUME NEW i \in 1..Len(fromDevice')
          PROVE  /\ fromDevice'[i].k = "response" => WasSentOn(fromDevice'[i].x)
                 /\ \E j \in 1..Len(deviceSent') : deviceSent'[j] = fromDevice'[i]
      <4>1. CASE i \in 1..Len(fromDevice)
        BY <1>5, <1>6, <3>1, <4>1
      <4>2. CASE i = Len(fromDevice) + 1
        BY <1>3, <1>5, <1>6, <4>2
      <4> QED BY <1>5, <4>1, <4>2
    <3>5. ASSUME NEW i \in 1..Len(fromDevice'), NEW j \in 1..Len(fromDevice'), i < j
          PROVE  fromDevice'[i] # fromDevice'[j]
      <4>1. i \in 1..Len(fromDevice)
        BY <1>4, <1>5, <3>5
      <4>2. CASE j \in 1..Len(fromDevice)
        BY <1>5, <3>1, <3>5, <4>1, <4>2
      <4>3. CASE j = Len(fromDevice) + 1
        BY <1>3, <1>5, <3>1, <4>1, <4>3, SMTT(30)
      <4> QED BY <1>5, <4>2, <4>3
    <3>6. ASSUME NEW n, Pending(n)' PROVE Pending(n)
      <4>1. CASE \E i \in 1..Len(fromDevice') : fromDevice'[i] = Response(n)
        <5>1. PICK i \in 1..Len(fromDevice') : fromDevice'[i] = Response(n)
          BY <4>1
        <5>2. CASE i \in 1..Len(fromDevice)
          BY <1>5, <5>1, <5>2 DEF Pending
        <5>3. CASE i = Len(fromDevice) + 1
          BY <1>3, <1>5, <5>1, <5>3 DEF Pending
        <5> QED BY <1>5, <5>2, <5>3
      <4>2. CASE ~ \E i \in 1..Len(deviceSent') : deviceSent'[i] = Response(n)
        BY <1>6, <4>2 DEF Pending
      <4> QED BY <3>6, <4>1, <4>2 DEF Pending, Response
    <3> QED BY <1>3, <3>1, <3>2, <3>3, <3>4, <3>5, <3>6 DEF Answers, WasSentOn
  <2>2. CASE kind # "companion"
    BY <1>3, <2>2 DEF Answers
  <2> QED BY <2>1, <2>2
<1> QED BY <1>3, <1>7, <1>8, <1>9 DEF LinkInv

(* start goes on or fails, the ends go.                                     *)
LEMMA LinkEndsKeep ==
    ASSUME LinkInv, Connects \/ StartFails \/ ClientGoes \/ DeviceGoes \/ UNCHANGED linkVars
    PROVE  LinkInv'
<1>1. LinkType /\ OneInfo /\ Stages /\ Answers
  BY DEF LinkInv
<1>2. PICK h \in 0..(2 * Len(clientSent)) : BufferIs(h) /\ SentAre(h)
  BY DEF LinkInv
<1>3. /\ UNCHANGED <<kind, clientSent, deviceSent, buffer, event, xid, toDevice, toClient>>
      /\ stage' \in {"connecting", "greeting", "started", "failed"}
      /\ client' \in {"open", "closed"} /\ device' \in {"none", "open", "closed"}
      /\ task' \in {"none", "runs", "cancelled"}
      /\ client' = "open" => client = "open"
      /\ device' # "closed" => device # "closed"
      /\ toProxy' = toProxy \/ (client' = "closed" /\ toProxy' = <<>>)
      /\ fromDevice' = fromDevice \/ fromDevice' = <<>>
  BY <1>1 DEF Connects, StartFails, ClientGoes, DeviceGoes, linkVars, LinkType, Stages
<1>4. Stages'
  BY <1>1 DEF Connects, StartFails, ClientGoes, DeviceGoes, linkVars, LinkType, Stages, Kinds
<1>5. \A S : <<>> \in Seq(S) /\ Len(<<>>) = 0 /\ 1..Len(<<>>) = {}
  OBVIOUS
<1>6. LinkType' /\ OneInfo'
  <2>1. toProxy' \in Seq(PartsIn(LinkMsgs)) /\ fromDevice' \in Seq(DownMsgs)
    BY <1>1, <1>3, <1>5 DEF LinkType
  <2> QED BY <1>1, <1>3, <2>1 DEF LinkType, OneInfo
<1>7. BufferIs(h)'
  <2>1. Follows(toProxy', clientSent, h + Len(buffer))
    <3>1. CASE toProxy' = toProxy
      BY <1>2, <3>1 DEF BufferIs
    <3>2. CASE toProxy' = <<>>
      <4>1. h + Len(buffer) <= 2 * Len(clientSent) /\ h + Len(buffer) + 0 = h + Len(buffer)
        <5>1. Len(buffer) \in Nat /\ h \in Nat
          BY <1>1 DEF LinkType
        <5> QED BY <1>2, <5>1 DEF BufferIs, Follows
      <4> QED BY <1>5, <3>2, <4>1 DEF Follows
    <3> QED BY <1>3, <3>1, <3>2
  <2>2. client' = "open" => toProxy' = toProxy
    BY <1>3
  <2> QED BY <1>2, <1>3, <2>1, <2>2 DEF BufferIs
<1>8. SentAre(h)'
  BY <1>2, <1>3, SendsUntouched
<1>9. Answers'
  <2>1. CASE fromDevice' = fromDevice
    BY <1>1, <1>3, <2>1, AnswersUntouched
  <2>2. CASE fromDevice' = <<>>
    BY <1>1, <1>3, <1>5, <2>2 DEF Answers, IsOf, WasSentOn, Pending, Response
  <2> QED BY <1>3, <2>1, <2>2
<1> QED BY <1>3, <1>4, <1>6, <1>7, <1>8, <1>9 DEF LinkInv

LEMMA DataFromDeviceKeeps ==
    ASSUME LinkInv, DataFromDevice
    PROVE  LinkInv'
<1>1. LinkType /\ OneInfo /\ Stages /\ Answers
  BY DEF LinkInv
<1>2. PICK h \in 0..(2 * Len(clientSent)) : BufferIs(h) /\ SentAre(h)
  BY DEF LinkInv
<1>3. PICK m : m = Head(fromDevice)
  OBVIOUS
<1>4. /\ fromDevice # <<>> /\ xid' = (IF IsSystemInfo(m) THEN 0 ELSE xid)
      /\ toClient' = (IF client = "open" THEN Append(toClient, Incoming(m)) ELSE toClient)
      /\ fromDevice' = Tail(fromDevice)
      /\ UNCHANGED <<kind, stage, client, device, clientSent, deviceSent, toProxy, buffer, event, task, toDevice>>
  BY <1>3 DEF DataFromDevice
<1>5. fromDevice \in Seq(DownMsgs) /\ toClient \in Seq(SaidMsgs)
  BY <1>1 DEF LinkType
<1>6. /\ Len(fromDevice) \in Nat /\ Len(fromDevice) > 0 /\ m = fromDevice[1] /\ m \in DownMsgs
      /\ fromDevice' \in Seq(DownMsgs) /\ Len(fromDevice') = Len(fromDevice) - 1
      /\ \A i \in 1..Len(fromDevice') : i + 1 \in 1..Len(fromDevice) /\ 1 < i + 1 /\ fromDevice'[i] = fromDevice[i + 1]
      /\ 1 \in 1..Len(fromDevice)
  <2>1. Len(fromDevice) \in Nat /\ Len(fromDevice) > 0
    BY <1>4, <1>5
  <2>2. Tail(fromDevice) \in Seq(DownMsgs) /\ Len(Tail(fromDevice)) = Len(fromDevice) - 1
        /\ \A i \in 1..Len(Tail(fromDevice)) : Tail(fromDevice)[i] = fromDevice[i + 1]
    BY <1>4, <1>5, HeadTailProperties
  <2>3. m = fromDevice[1] /\ 1 \in 1..Len(fromDevice)
    BY <1>3, <1>4, <1>5, <2>1
  <2>4. m \in DownMsgs
    BY <1>5, <2>3
  <2>5. \A i \in 1..(Len(fromDevice) - 1) : i + 1 \in 1..Len(fromDevice) /\ 1 < i + 1
    BY <2>1
  <2> QED BY <1>4, <2>1, <2>2, <2>3, <2>4, <2>5
<1>7. Incoming(m) \in SaidMsgs /\ Incoming(m).k = m.k /\ Incoming(m).x = m.x
      /\ (Incoming(m).as = "proxy" <=> IsSystemInfo(m))
  BY <1>6 DEF Incoming, DownMsgs, SaidMsgs
<1>8. /\ toClient' \in Seq(SaidMsgs)
      /\ \A i \in 1..Len(toClient') : (i \in 1..Len(toClient) /\ toClient'[i] = toClient[i]) \/ toClient'[i] = Incoming(m)
  <2>1. CASE client = "open"
    <3>1. toClient' = Append(toClient, Incoming(m))
      BY <1>4, <2>1
    <3> QED BY <1>5, <1>7, <3>1
  <2>2. CASE client # "open"
    BY <1>4, <1>5, <2>2
  <2> QED BY <2>1, <2>2
<1>9. LinkType' /\ OneInfo' /\ Stages'
  <2>1. xid' \in Nat
    BY <1>1, <1>4 DEF LinkType
  <2> QED BY <1>1, <1>4, <1>6, <1>8, <2>1 DEF LinkType, OneInfo, Stages
<1>10. BufferIs(h)' /\ SentAre(h)'
  <2>1. BufferIs(h)'
    BY <1>2, <1>4 DEF BufferIs
  <2> QED BY <1>2, <1>4, <2>1, SendsUntouched
<1>11. Answers'
  <2>1. ASSUME kind = "companion" PROVE Answers'
    <3>1. /\ \A i \in 1..Len(toClient) : IsOf(toClient[i])
          /\ xid # 0 => xid \in 1..Len(clientSent) /\ clientSent[xid].k = "info"
          /\ \A i \in 1..Len(fromDevice) :
               /\ fromDevice[i].k = "response" => WasSentOn(fromDevice[i].x)
               /\ \E j \in 1..Len(deviceSent) : deviceSent[j] = fromDevice[i]
          /\ \A i, j \in 1..Len(fromDevice) : i < j => fromDevice[i] # fromDevice[j]
          /\ \A n \in 1..Len(clientSent) : clientSent[n].k = "info" /\ WasSentOn(n) /\ Pending(n) => xid = n
      BY <1>1, <2>1 DEF Answers
    <3>2. \A n : WasSentOn(n)' <=> WasSentOn(n)
      BY <1>4 DEF WasSentOn
    <3>3. \A a : IsOf(a)' <=> IsOf(a)
      BY <1>4 DEF IsOf
    <3>4. ASSUME m.k = "response"
          PROVE  /\ m.x \in 1..Len(clientSent) /\ clientSent[m.x].k # "auth" /\ m = Response(m.x)
                 /\ (IsSystemInfo(m) <=> clientSent[m.x].k = "info")
      <4>1. PICK i \in 1..Len(toDevice) : toDevice[i].m.x = m.x
        BY <1>6, <3>1, <3>4 DEF WasSentOn
      <4>2. m.x \in 1..Len(clientSent) /\ IsDue(clientSent[m.x])
        BY <1>2, <4>1 DEF SentAre, IsPartOf
      <4>3. clientSent[m.x].k # "auth"
        BY <2>1, <4>2 DEF IsDue, IsOwn, OwnSorts
      <4>4. m = Response(m.x)
        BY <1>6, <3>4 DEF DownMsgs, Response
      <4>5. clientSent[m.x].k = "info" => xid = m.x
        <5>1. Pending(m.x)
          BY <1>6, <4>4 DEF Pending
        <5> QED BY <1>6, <3>1, <3>4, <4>2, <5>1
      <4>6. m.x # 0
        BY <4>2
      <4> QED BY <2>1, <3>1, <3>4, <4>2, <4>3, <4>4, <4>5, <4>6 DEF IsSystemInfo
    <3>5. IsOf(Incoming(m))
      <4>1. CASE m.k = "response"
        BY <1>7, <3>4, <4>1 DEF IsOf
      <4>2. CASE m.k # "response"
        <5>1. ~IsSystemInfo(m) /\ Incoming(m) = m
          BY <4>2 DEF IsSystemInfo, Incoming
        <5> QED BY <1>6, <4>2, <5>1 DEF IsOf, DownMsgs
      <4> QED BY <4>1, <4>2
    <3>6. \A i \in 1..Len(toClient') : IsOf(toClient'[i])
      BY <1>8, <3>1, <3>5
    <3>7. xid' # 0 => xid' \in 1..Len(clientSent) /\ clientSent[xid'].k = "info"
      BY <1>4, <3>1
    <3>8. \A i \in 1..Len(fromDevice') :
            /\ fromDevice'[i].k = "response" => WasSentOn(fromDevice'[i].x)
            /\ \E j \in 1..Len(deviceSent) : deviceSent[j] = fromDevice'[i]
      <4>1. ASSUME NEW i \in 1..Len(fromDevice')
            PROVE  /\ fromDevice'[i].k = "response" => WasSentOn(fromDevice'[i].x)
                   /\ \E j \in 1..Len(deviceSent) : deviceSent[j] = fromDevice'[i]
        <5>1. PICK l \in 1..Len(fromDevice) : fromDevice'[i] = fromDevice[l]
          BY <1>6
        <5> QED BY <3>1, <5>1
      <4> QED BY <4>1
    <3>9. \A i, j \in 1..Len(fromDevice') : i < j => fromDevice'[i] # fromDevice'[j]
      <4>1. ASSUME NEW i \in 1..Len(fromDevice'), NEW j \in 1..Len(fromDevice'), i < j
            PROVE  fromDevice'[i] # fromDevice'[j]
        <5>1. i + 1 < j + 1
          BY <4>1
        <5> QED BY <1>6, <3>1, <5>1
      <4> QED BY <4>1
    <3>10. ASSUME NEW n \in 1..Len(clientSent), clientSent[n].k = "info", WasSentOn(n), Pending(n)'
           PROVE  xid' = n
      <4>1. Pending(n)
        BY <1>4, <1>6, <3>10 DEF Pending, Response
      <4>2. xid = n
        BY <3>1, <3>10, <4>1
      <4>3. ASSUME IsSystemInfo(m) PROVE FALSE
        <5>1. m.k = "response" /\ m.x = n
          BY <4>2, <4>3 DEF IsSystemInfo
        <5>2. m = Response(n)
          BY <3>4, <5>1
        <5>3. \E j \in 1..Len(deviceSent) : deviceSent[j] = Response(n)
          BY <1>6, <3>1, <5>2
        <5>4. PICK i \in 1..Len(fromDevice') : fromDevice'[i] = Response(n)
          BY <1>4, <3>10, <5>3 DEF Pending, Response
        <5>5. PICK l \in 1..Len(fromDevice) : 1 < l /\ fromDevice[l] = Response(n)
          BY <1>6, <5>4
        <5>6. fromDevice[1] # fromDevice[l]
          BY ONLY <1>6, <3>1, <5>5
        <5> QED BY <1>6, <5>2, <5>5, <5>6
      <4> QED BY <1>4, <4>2, <4>3
    <3> QED BY <1>4, <3>2, <3>3, <3>6, <3>7, <3>8, <3>9, <3>10 DEF Answers, IsOf, WasSentOn
  <2>2. CASE kind # "companion"
    BY <1>4, <2>2 DEF Answers
  <2> QED BY <2>1, <2>2
<1> QED BY <1>4, <1>9, <1>10, <1>11 DEF LinkInv

-----------------------------------------------------------------------------
(* MRP has no answers to look for.                                          *)
LEMMA StartedKeepsLink ==
    ASSUME LinkInv, Started
    PROVE  LinkInv'
<1>1. LinkType /\ OneInfo /\ Stages /\ Answers
  BY DEF LinkInv
<1>2. PICK h \in 0..(2 * Len(clientSent)) : BufferIs(h) /\ SentAre(h)
  BY DEF LinkInv
<1>3. /\ stage = "greeting" /\ device = "open" /\ stage' = "started" /\ kind # "relay"
      /\ UNCHANGED <<kind, client, device, clientSent, deviceSent, toProxy, fromDevice, xid>>
  BY <1>1 DEF Started, Stages
<1>4. CASE kind = "mrp"
  <2>1. ProcessAll(buffer) /\ UNCHANGED <<event, task>>
    BY <1>4 DEF Started
  <2>2. PICK g \in 0..Len(clientSent) : h = 2 * g
    BY <1>2, <1>3 DEF BufferIs
  <2>3. buffer \in Seq(PartsIn(LinkMsgs)) /\ Follows(buffer, clientSent, 2 * g) /\ SentAre(2 * g)
    BY <1>1, <1>2, <2>2 DEF BufferIs, LinkType
  <2>4. PICK e \in 0..Len(clientSent) :
             /\ buffer' \in Seq(PartsIn(LinkMsgs)) /\ Follows(buffer', clientSent, 2 * e) /\ Len(buffer') < 2
             /\ 2 * e + Len(buffer') = 2 * g + Len(buffer)
             /\ SentAre(2 * e)' /\ toDevice' \in Seq(PartsIn(OnMsgs)) /\ toClient' \in Seq(SaidMsgs)
    BY <1>1, <1>3, <1>4, <2>1, <2>3, MrpProcesses
  <2>5. PICK f \in 0..(2 * Len(clientSent)) : f = 2 * e
    <3>1. Len(clientSent) \in Nat
      BY <1>1 DEF LinkType
    <3>2. 2 * e \in 0..(2 * Len(clientSent))
      BY <3>1
    <3> QED BY <3>2
  <2>6. BufferIs(f)'
    BY <1>2, <1>3, <2>2, <2>4, <2>5 DEF BufferIs
  <2>7. LinkType' /\ OneInfo' /\ Stages'
    <3>1. LinkType' /\ OneInfo'
      BY <1>1, <1>3, <2>1, <2>4 DEF LinkType, OneInfo
    <3>2. Stages'
      BY <1>1, <1>3, <1>4, <2>1, <2>4 DEF Stages
    <3> QED BY <3>1, <3>2
  <2>8. Answers'
    BY <1>3, <1>4 DEF Answers
  <2>9. SentAre(f)'
    BY <2>4, <2>5
  <2> QED BY <1>3, <2>5, <2>6, <2>7, <2>8, <2>9 DEF LinkInv
<1>5. CASE kind = "companion"
  <2>1. event' = TRUE /\ task' = "runs" /\ UNCHANGED <<buffer, toDevice, toClient>>
    BY <1>5 DEF Started
  <2>2. LinkType' /\ OneInfo' /\ Stages'
    BY <1>1, <1>3, <1>5, <2>1 DEF LinkType, OneInfo, Stages
  <2>3. BufferIs(h)'
    BY <1>2, <1>3, <2>1 DEF BufferIs
  <2>4. SentAre(h)'
    BY <1>2, <1>3, <2>1, SendsUntouched
  <2>5. Answers'
    BY <1>1, <1>3, <2>1, AnswersUntouched
  <2> QED BY <1>3, <2>2, <2>3, <2>4, <2>5 DEF LinkInv
<1> QED BY <1>1, <1>3, <1>4, <1>5 DEF LinkType, Kinds

(* A relay drops what comes for a device that is gone, and so does Companion. *)
LEMMA NothingIsSent ==
    ASSUME LinkType, NEW o \in Nat, NEW h \in Nat, o <= h, SentAre(o), device' = "closed",
           UNCHANGED <<toDevice, clientSent, kind>>
    PROVE  SentAre(h)'
<1>1. SentAre(o)'
  BY SendsUntouched
<1>2. ASSUME NEW i \in 1..Len(toDevice) PROVE Place(toDevice[i])' \in Nat
  <2>1. toDevice'[i] \in PartsIn(OnMsgs)
    BY DEF LinkType
  <2> QED BY <2>1 DEF PartsIn, OnMsgs, Place
<1>3. ASSUME NEW i \in 1..Len(toDevice) PROVE IsPartOf(toDevice[i], 0, h)'
  <2>1. IsPartOf(toDevice[i], 0, o)'
    BY <1>1 DEF SentAre
  <2>2. (Place(toDevice[i]) <= o + 2)'
    BY <2>1 DEF IsPartOf
  <2>3. PICK c \in Nat : c = Place(toDevice[i])'
    BY <1>2
  <2>4. c <= o + 2
    BY <2>2, <2>3
  <2>5. c <= h + 2
    BY ONLY <2>4, o \in Nat, h \in Nat, o <= h, c \in Nat
  <2>6. (Place(toDevice[i]) <= h + 2)'
    BY <2>3, <2>5
  <2> QED BY <2>1, <2>6 DEF IsPartOf
<1> QED BY <1>1, <1>3 DEF SentAre

LEMMA ClientDataKeeps ==
    ASSUME LinkInv, ClientData
    PROVE  LinkInv'
<1>1. LinkType /\ OneInfo /\ Stages /\ Answers
  BY DEF LinkInv
<1>2. PICK h \in 0..(2 * Len(clientSent)) : BufferIs(h) /\ SentAre(h)
  BY DEF LinkInv
<1>3. client = "open" /\ UNCHANGED <<kind, stage, client, device, clientSent, deviceSent, fromDevice, task, xid>>
  BY DEF ClientData
<1>4. PICK n \in 1..Len(toProxy) :
        /\ LET parts == SubSeq(toProxy, 1, n) IN MrpData(parts) \/ CompanionData(parts) \/ RelayData(parts)
        /\ toProxy' = From(toProxy, n + 1)
  BY DEF ClientData
<1>5. PICK new : new = SubSeq(toProxy, 1, n)
  OBVIOUS
<1>6. (MrpData(new) \/ CompanionData(new) \/ RelayData(new)) /\ toProxy' = From(toProxy, n + 1)
  BY <1>4, <1>5
<1>7. /\ clientSent \in Seq(LinkMsgs) /\ Len(clientSent) \in Nat /\ h \in Nat
      /\ toProxy \in Seq(PartsIn(LinkMsgs)) /\ buffer \in Seq(PartsIn(LinkMsgs))
      /\ Len(toProxy) \in Nat /\ Len(buffer) \in Nat /\ n \in 0..Len(toProxy) /\ n \in Nat
  <2>1. clientSent \in Seq(LinkMsgs) /\ toProxy \in Seq(PartsIn(LinkMsgs)) /\ buffer \in Seq(PartsIn(LinkMsgs))
    BY <1>1 DEF LinkType
  <2> QED BY <2>1
<1>8. PICK o \in Nat : o = h + Len(buffer)
  BY <1>7
<1>9. /\ Follows(buffer, clientSent, h) /\ Follows(toProxy, clientSent, o)
      /\ o + Len(toProxy) = 2 * Len(clientSent)
  BY <1>2, <1>3, <1>8 DEF BufferIs
<1>10. /\ new \in Seq(PartsIn(LinkMsgs)) /\ Len(new) = n /\ Follows(new, clientSent, o)
       /\ toProxy' \in Seq(PartsIn(LinkMsgs)) /\ Len(toProxy') = Len(toProxy) - n /\ Follows(toProxy', clientSent, o + n)
  <2>1. /\ SubSeq(toProxy, 1, n) \in Seq(PartsIn(LinkMsgs)) /\ Len(SubSeq(toProxy, 1, n)) = n
        /\ Follows(SubSeq(toProxy, 1, n), clientSent, o)
        /\ From(toProxy, n + 1) \in Seq(PartsIn(LinkMsgs)) /\ Len(From(toProxy, n + 1)) = Len(toProxy) - n
        /\ Follows(From(toProxy, n + 1), clientSent, o + n)
    BY ONLY <1>7, <1>9, o \in Nat, CutAnywhere
  <2> QED BY <1>5, <1>6, <2>1
<1>11. PICK s \in Seq(PartsIn(LinkMsgs)) : s = buffer \o new /\ Len(s) = Len(buffer) + n /\ Follows(s, clientSent, h)
  <2>1. Follows(new, clientSent, h + Len(buffer))
    BY <1>8, <1>10
  <2>2. /\ buffer \o new \in Seq(PartsIn(LinkMsgs)) /\ Len(buffer \o new) = Len(buffer) + Len(new)
        /\ Follows(buffer \o new, clientSent, h)
    BY ONLY <1>7, <1>9, <1>10, <2>1, JoinedAgain
  <2> QED BY <1>10, <2>2
<1>12. h + Len(s) = o + n /\ o + n + Len(toProxy') = 2 * Len(clientSent)
  <2>1. PICK a \in Nat, b \in Nat, c \in Nat : a = Len(buffer) /\ b = Len(toProxy) /\ c = Len(clientSent)
    BY <1>7
  <2>2. Len(s) = a + n /\ o = h + a /\ o + b = 2 * c /\ Len(toProxy') = b - n
    BY <1>8, <1>9, <1>10, <1>11, <2>1
  <2>3. h + (a + n) = o + n /\ o + n + (b - n) = 2 * c
    BY ONLY <2>2, <1>7, a \in Nat, b \in Nat, c \in Nat, o \in Nat
  <2> QED BY <2>1, <2>2, <2>3
<1>13. ASSUME UNCHANGED <<toDevice, toClient>>, buffer' = s, kind # "relay", Stages', event' \in BOOLEAN
       PROVE  LinkInv'
  <2>1. LinkType' /\ OneInfo'
    BY <1>1, <1>3, <1>10, <1>13 DEF LinkType, OneInfo
  <2>2. BufferIs(h)'
    BY <1>2, <1>3, <1>10, <1>11, <1>12, <1>13 DEF BufferIs
  <2>3. SentAre(h)'
    BY <1>2, <1>3, <1>13, SendsUntouched
  <2>4. Answers'
    BY <1>1, <1>3, <1>13, AnswersUntouched
  <2> QED BY <1>3, <1>13, <2>1, <2>2, <2>3, <2>4 DEF LinkInv
<1>14. CASE MrpData(new)
  <2>1. kind = "mrp" /\ event' = event
    BY <1>14 DEF MrpData
  <2>2. CASE device = "open"
    <3>1. ProcessAll(s)
      BY <1>11, <1>14, <2>2 DEF MrpData
    <3>2. PICK g \in 0..Len(clientSent) : h = 2 * g
      BY <1>2, <2>1 DEF BufferIs
    <3>3. Follows(s, clientSent, 2 * g) /\ SentAre(2 * g) /\ device # "closed"
      BY <1>2, <1>11, <2>2, <3>2
    <3>4. PICK e \in 0..Len(clientSent) :
             /\ buffer' \in Seq(PartsIn(LinkMsgs)) /\ Follows(buffer', clientSent, 2 * e) /\ Len(buffer') < 2
             /\ 2 * e + Len(buffer') = 2 * g + Len(s)
             /\ SentAre(2 * e)' /\ toDevice' \in Seq(PartsIn(OnMsgs)) /\ toClient' \in Seq(SaidMsgs)
      BY <1>1, <1>3, <2>1, <3>1, <3>3, MrpProcesses
    <3>5. PICK f \in 0..(2 * Len(clientSent)) : f = 2 * e
      <4>1. 2 * e \in 0..(2 * Len(clientSent))
        BY <1>7
      <4> QED BY <4>1
    <3>6. f + Len(buffer') = o + n
      BY <1>12, <3>2, <3>4, <3>5
    <3>7. BufferIs(f)'
      BY <1>3, <1>10, <1>12, <3>4, <3>5, <3>6 DEF BufferIs
    <3>8. LinkType' /\ OneInfo' /\ Stages'
      <4>1. LinkType' /\ OneInfo'
        BY <1>1, <1>3, <1>10, <2>1, <3>4 DEF LinkType, OneInfo
      <4>2. Stages'
        BY <1>1, <1>3, <2>1, <3>4 DEF Stages
      <4> QED BY <4>1, <4>2
    <3>9. Answers'
      BY <1>3, <2>1 DEF Answers
    <3>10. SentAre(f)'
      BY <3>4, <3>5
    <3> QED BY <1>3, <3>5, <3>7, <3>8, <3>9, <3>10 DEF LinkInv
  <2>3. CASE device # "open"
    <3>1. buffer' = s /\ UNCHANGED <<toDevice, toClient>>
      BY <1>11, <1>14, <2>3 DEF MrpData
    <3>2. Stages'
      BY <1>1, <1>3, <2>1, <2>3 DEF Stages
    <3>3. event' \in BOOLEAN
      BY <1>1, <2>1 DEF LinkType
    <3> QED BY <1>13, <2>1, <3>1, <3>2, <3>3
  <2> QED BY <2>2, <2>3
<1>15. CASE CompanionData(new)
  <2>1. kind = "companion" /\ buffer' = s /\ event' = (event \/ device = "open") /\ UNCHANGED <<toDevice, toClient>>
    BY <1>11, <1>15 DEF CompanionData
  <2>2. Stages'
    BY <1>1, <1>3, <2>1 DEF Stages
  <2>3. event' \in BOOLEAN
    BY <1>1, <2>1 DEF LinkType
  <2> QED BY <1>13, <2>1, <2>2, <2>3
<1>16. CASE RelayData(new)
  <2>1. /\ kind = "relay" /\ UNCHANGED <<buffer, event, toClient>> /\ buffer = <<>>
        /\ toDevice' = (IF device = "open" THEN toDevice \o new ELSE toDevice)
    BY <1>1, <1>16 DEF RelayData, Stages
  <2>2. Len(buffer) = 0 /\ o = h
    BY <1>7, <1>8, <2>1
  <2>3. PICK f \in 0..(2 * Len(clientSent)) : f = h + n
    <3>1. h + n \in 0..(2 * Len(clientSent))
      BY <1>7, <1>9, <2>2
    <3> QED BY <3>1
  <2>4. SentAre(f)' /\ toDevice' \in Seq(PartsIn(OnMsgs))
    <3>1. CASE device = "open"
      <4>1. new \in Seq(PartsIn(OnMsgs)) /\ Chosen(new, h, f)
        <5>1. f \in Nat /\ f = h + Len(new) /\ Follows(new, clientSent, h)
          BY <1>7, <1>10, <2>2, <2>3
        <5> QED BY <1>1, <1>7, <1>10, <2>1, <5>1, EverythingIsChosen
      <4>2. f \in Nat /\ h <= f /\ toDevice' = toDevice \o new /\ device # "closed"
        BY <1>7, <2>1, <2>3, <3>1
      <4> QED BY <1>1, <1>2, <1>3, <1>7, <4>1, <4>2, ChosenIsSent
    <3>2. CASE device # "open"
      <4>1. device = "closed" /\ toDevice' = toDevice
        BY <1>1, <2>1, <3>2 DEF Stages, LinkType
      <4>2. f \in Nat /\ h <= f /\ device' = "closed"
        BY <1>3, <1>7, <2>3, <4>1
      <4>3. toDevice' \in Seq(PartsIn(OnMsgs))
        BY <1>1, <4>1 DEF LinkType
      <4> QED BY <1>1, <1>2, <1>3, <1>7, <4>1, <4>2, <4>3, NothingIsSent
    <3> QED BY <3>1, <3>2
  <2>5. BufferIs(f)'
    <3>1. Len(buffer') = 0 /\ f + Len(buffer') = f /\ Follows(buffer', clientSent, f)
      <4>1. f \in Nat /\ f <= 2 * Len(clientSent) /\ Len(buffer') = 0
        BY <1>7, <2>1, <2>2, <2>3
      <4>2. 1..0 = {} /\ f + 0 = f
        BY <4>1
      <4> QED BY <4>1, <4>2 DEF Follows
    <3>2. Follows(toProxy', clientSent, f) /\ f + Len(toProxy') = 2 * Len(clientSent)
      BY <1>10, <1>12, <2>2, <2>3
    <3> QED BY <1>3, <2>1, <3>1, <3>2 DEF BufferIs
  <2>6. LinkType' /\ OneInfo' /\ Stages'
    BY <1>1, <1>3, <1>10, <2>1, <2>4 DEF LinkType, OneInfo, Stages
  <2>7. Answers'
    BY <1>3, <2>1 DEF Answers
  <2> QED BY <1>3, <2>3, <2>4, <2>5, <2>6, <2>7 DEF LinkInv
<1> QED BY <1>6, <1>14, <1>15, <1>16

(* A round of the task of Companion.                                        *)
LEMMA ProcessTaskKeeps ==
    ASSUME LinkInv, ProcessTask
    PROVE  LinkInv'
<1>1. LinkType /\ OneInfo /\ Stages /\ Answers
  BY DEF LinkInv
<1>2. PICK h \in 0..(2 * Len(clientSent)) : BufferIs(h) /\ SentAre(h)
  BY DEF LinkInv
<1>3. /\ task = "runs" /\ event /\ kind = "companion" /\ device # "none"
      /\ UNCHANGED <<kind, stage, client, device, clientSent, deviceSent, toProxy, fromDevice, task>>
  BY <1>1 DEF ProcessTask, Stages
<1>4. /\ clientSent \in Seq(LinkMsgs) /\ Len(clientSent) \in Nat /\ h \in Nat
      /\ \A i \in 1..Len(clientSent) : clientSent[i].x = i
      /\ toProxy \in Seq(PartsIn(LinkMsgs)) /\ buffer \in Seq(PartsIn(LinkMsgs))
      /\ Len(toProxy) \in Nat /\ Len(buffer) \in Nat
  <2>1. /\ clientSent \in Seq(LinkMsgs) /\ toProxy \in Seq(PartsIn(LinkMsgs)) /\ buffer \in Seq(PartsIn(LinkMsgs))
        /\ \A i \in 1..Len(clientSent) : clientSent[i].x = i
    BY <1>1 DEF LinkType
  <2> QED BY <2>1
<1>5. CASE Waits
  <2>1. Len(buffer) < 2 /\ event' = FALSE /\ UNCHANGED <<buffer, xid, toDevice, toClient>>
    BY <1>5 DEF Waits
  <2>2. LinkType' /\ OneInfo' /\ Stages'
    BY <1>1, <1>3, <2>1 DEF LinkType, OneInfo, Stages
  <2>3. BufferIs(h)' /\ SentAre(h)'
    <3>1. BufferIs(h)'
      BY <1>2, <1>3, <2>1 DEF BufferIs
    <3> QED BY <1>2, <1>3, <2>1, <3>1, SendsUntouched
  <2>4. Answers'
    BY <1>1, <1>3, <2>1, AnswersUntouched
  <2> QED BY <1>3, <2>2, <2>3, <2>4 DEF LinkInv
<1>6. CASE HandlesAuth \/ SendsToAtv
  <2>1. Len(buffer) >= 2 /\ event' = event /\ buffer' = From(buffer, 3)
    BY <1>6 DEF HandlesAuth, SendsToAtv
  <2>2. PICK g \in 0..Len(clientSent) : h = 2 * g
    BY <1>2, <1>3 DEF BufferIs
  <2>3. g \in Nat /\ g + 1 \in 1..Len(clientSent)
    <3>1. Follows(buffer, clientSent, h)
      BY <1>2 DEF BufferIs
    <3>2. 2 * g + Len(buffer) <= 2 * Len(clientSent)
      BY <2>2, <3>1 DEF Follows
    <3>3. PICK b \in Nat, c \in Nat : b = Len(buffer) /\ c = Len(clientSent)
      BY <1>4
    <3>4. 2 * g + b <= 2 * c /\ b >= 2 /\ g \in 0..c
      BY <2>1, <3>2, <3>3
    <3>5. g \in Nat /\ g + 1 \in 1..c
      BY ONLY <3>4, b \in Nat, c \in Nat
    <3> QED BY <3>3, <3>5
  <2>4. PICK m \in LinkMsgs : m = clientSent[g + 1] /\ m.x = g + 1
    BY <1>4, <2>3
  <2>5. buffer[1].m = m
    <3>1. Follows(buffer, clientSent, 2 * g) /\ 1 \in 1..Len(buffer)
      BY <1>2, <1>4, <2>1, <2>2 DEF BufferIs
    <3>2. buffer[1] = PartAt(clientSent, 2 * g + 1)
      BY <3>1 DEF Follows
    <3>3. (2 * g + 1 + 1) \div 2 = g + 1
      BY <2>3
    <3> QED BY <2>4, <3>2, <3>3 DEF PartAt
  <2>6. PICK f \in 0..(2 * Len(clientSent)) : f = 2 * (g + 1) /\ f = h + 2 /\ f \in Nat /\ h <= f
    <3>1. 2 * (g + 1) \in 0..(2 * Len(clientSent)) /\ 2 * (g + 1) = h + 2 /\ 2 * (g + 1) \in Nat /\ h <= 2 * (g + 1)
      BY <1>4, <2>2, <2>3
    <3> QED BY <3>1
  <2>7. buffer' \in Seq(PartsIn(LinkMsgs)) /\ Len(buffer') = Len(buffer) - 2 /\ Follows(buffer', clientSent, f)
    <3>1. PICK k \in 0..Len(buffer) : k = 2
      BY <1>4, <2>1
    <3>2. Follows(buffer, clientSent, h)
      BY <1>2 DEF BufferIs
    <3>3. /\ From(buffer, k + 1) \in Seq(PartsIn(LinkMsgs)) /\ Len(From(buffer, k + 1)) = Len(buffer) - k
          /\ Follows(From(buffer, k + 1), clientSent, h + k)
      BY ONLY <1>4, k \in 0..Len(buffer), <3>2, CutAnywhere
    <3> QED BY <2>1, <2>6, <3>1, <3>3
  <2>8. BufferIs(f)'
    <3>1. f + Len(buffer') = h + Len(buffer)
      <4>1. PICK b \in Nat : b = Len(buffer)
        BY <1>4
      <4>2. Len(buffer') = b - 2 /\ f = h + 2
        BY <2>6, <2>7, <4>1
      <4>3. f + (b - 2) = h + b
        BY ONLY <1>4, <4>2, b \in Nat
      <4> QED BY <4>1, <4>2, <4>3
    <3> QED BY <1>2, <1>3, <2>3, <2>6, <2>7, <3>1, SMTT(30) DEF BufferIs
  <2>9. Stages'
    BY <1>1, <1>3, <2>1 DEF Stages
  <2>10. /\ IsOwn(m) => Chosen(<<>>, 2 * g, 2 * (g + 1))
         /\ Parts(Outgoing(m)) \in Seq(PartsIn(OnMsgs))
         /\ ~IsOwn(m) => Chosen(Parts(Outgoing(m)), 2 * g, 2 * (g + 1))
         /\ Outgoing(m).x = g + 1 /\ \A i \in 1..Len(Parts(Outgoing(m))) : Parts(Outgoing(m))[i].m = Outgoing(m)
    BY <1>1, <1>3, <2>3, <2>4, NextIsChosen
  <2>11. CASE HandlesAuth
    <3>1. /\ IsOwn(m) /\ toClient' = Append(toClient, Answer(m)) /\ UNCHANGED <<xid, toDevice>>
      BY <2>5, <2>11 DEF HandlesAuth
    <3>2. m.k = "auth" /\ Answer(m) \in SaidMsgs /\ Answer(m).k = "response" /\ Answer(m).x = g + 1 /\ Answer(m).as = "proxy"
      BY <1>3, <2>4, <3>1 DEF IsOwn, OwnSorts, Answer, LinkMsgs, SaidMsgs
    <3>3. toClient \in Seq(SaidMsgs) /\ toDevice \in Seq(PartsIn(OnMsgs))
      BY <1>1 DEF LinkType
    <3>4. /\ toClient' \in Seq(SaidMsgs)
          /\ \A i \in 1..Len(toClient') : (i \in 1..Len(toClient) /\ toClient'[i] = toClient[i]) \/ toClient'[i] = Answer(m)
      BY <3>1, <3>2, <3>3
    <3>5. SentAre(f)'
      <4>1. CASE device = "open"
        <5>1. toDevice' = toDevice \o <<>> /\ <<>> \in Seq(PartsIn(OnMsgs))
          BY <3>1, <3>3
        <5>2. Chosen(<<>>, h, f) /\ device # "closed"
          BY <2>2, <2>6, <2>10, <3>1, <4>1
        <5> QED BY <1>1, <1>2, <1>3, <1>4, <2>6, <5>1, <5>2, ChosenIsSent
      <4>2. CASE device = "closed"
        BY <1>1, <1>2, <1>3, <1>4, <2>6, <3>1, <4>2, NothingIsSent
      <4> QED BY <1>1, <1>3, <4>1, <4>2 DEF LinkType
    <3>6. LinkType' /\ OneInfo'
      BY <1>1, <1>3, <2>1, <2>7, <3>1, <3>4 DEF LinkType, OneInfo
    <3>7. Answers'
      <4>1. IsOf(Answer(m))
        BY <2>3, <2>4, <3>2 DEF IsOf
      <4>2. \A i \in 1..Len(toClient) : IsOf(toClient[i])
        BY <1>1, <1>3 DEF Answers
      <4>3. \A i \in 1..Len(toClient') : IsOf(toClient'[i])
        BY <3>4, <4>1, <4>2
      <4> QED BY <1>1, <1>3, <3>1, <4>3 DEF Answers, IsOf, WasSentOn, Pending, Response
    <3> QED BY <1>3, <2>6, <2>8, <2>9, <3>5, <3>6, <3>7 DEF LinkInv
  <2>12. CASE SendsToAtv
    <3>1. /\ ~IsOwn(m) /\ toClient' = toClient /\ xid' = (IF m.k = "info" THEN m.x ELSE xid)
          /\ toDevice' = (IF device = "open" THEN toDevice \o Parts(Outgoing(m)) ELSE toDevice)
      BY <2>5, <2>12 DEF SendsToAtv
    <3>2. toDevice \in Seq(PartsIn(OnMsgs)) /\ xid' \in Nat
      BY <1>1, <2>3, <2>4, <3>1 DEF LinkType
    <3>3. /\ SentAre(f)' /\ toDevice' \in Seq(PartsIn(OnMsgs))
          /\ \A i \in 1..Len(toDevice) : i \in 1..Len(toDevice') /\ toDevice'[i] = toDevice[i]
          /\ \A i \in 1..Len(toDevice') :
               (i \in 1..Len(toDevice) /\ toDevice'[i] = toDevice[i]) \/ toDevice'[i].m.x = g + 1
      <4>1. CASE device = "open"
        <5>1. PICK p \in Seq(PartsIn(OnMsgs)) : p = Parts(Outgoing(m))
          BY <2>10
        <5>2. Chosen(p, h, f) /\ device # "closed" /\ toDevice' = toDevice \o p
          BY <2>2, <2>6, <2>10, <3>1, <4>1, <5>1
        <5>3. /\ SentAre(f)' /\ toDevice' \in Seq(PartsIn(OnMsgs))
              /\ \A i \in 1..Len(toDevice) : i \in 1..Len(toDevice') /\ toDevice'[i] = toDevice[i]
              /\ \A i \in 1..Len(toDevice') :
                   (i \in 1..Len(toDevice) /\ toDevice'[i] = toDevice[i]) \/ (\E j \in 1..Len(p) : toDevice'[i] = p[j])
          <6>1. LinkType /\ SentAre(h) /\ h \in Nat /\ f \in Nat /\ h <= f /\ UNCHANGED <<clientSent, kind>>
            BY <1>1, <1>2, <1>3, <1>4, <2>6
          <6> QED BY ONLY <5>2, <6>1, p \in Seq(PartsIn(OnMsgs)), ChosenIsSent
        <5>4. \A j \in 1..Len(p) : p[j].m.x = g + 1
          BY <2>10, <5>1
        <5> QED BY <5>3, <5>4
      <4>2. CASE device = "closed"
        <5>1. toDevice' = toDevice
          BY <3>1, <4>2
        <5>2. SentAre(f)'
          BY <1>1, <1>2, <1>3, <1>4, <2>6, <4>2, <5>1, NothingIsSent
        <5> QED BY <3>2, <5>1, <5>2
      <4> QED BY <1>1, <1>3, <4>1, <4>2 DEF LinkType
    <3>4. LinkType' /\ OneInfo'
      BY <1>1, <1>3, <2>1, <2>7, <3>1, <3>2, <3>3 DEF LinkType, OneInfo
    <3>5. Answers'
      <4>1. /\ \A i \in 1..Len(toClient) : IsOf(toClient[i])
            /\ xid # 0 => xid \in 1..Len(clientSent) /\ clientSent[xid].k = "info"
            /\ \A i \in 1..Len(fromDevice) :
                 /\ fromDevice[i].k = "response" => WasSentOn(fromDevice[i].x)
                 /\ \E j \in 1..Len(deviceSent) : deviceSent[j] = fromDevice[i]
            /\ \A i, j \in 1..Len(fromDevice) : i < j => fromDevice[i] # fromDevice[j]
            /\ \A n \in 1..Len(clientSent) : clientSent[n].k = "info" /\ WasSentOn(n) /\ Pending(n) => xid = n
        BY <1>1, <1>3 DEF Answers
      <4>2. \A n : WasSentOn(n) => WasSentOn(n)'
        BY <3>3 DEF WasSentOn
      <4>3. \A n : WasSentOn(n)' => WasSentOn(n) \/ n = g + 1
        BY <3>3 DEF WasSentOn
      <4>4. xid' # 0 => xid' \in 1..Len(clientSent) /\ clientSent[xid'].k = "info"
        BY <2>3, <2>4, <3>1, <4>1
      <4>5. ASSUME NEW n \in 1..Len(clientSent), clientSent[n].k = "info", WasSentOn(n)', Pending(n)
            PROVE  xid' = n
        <5>1. CASE n = g + 1
          BY <2>4, <3>1, <4>5, <5>1
        <5>2. CASE n # g + 1
          <6>1. m.k # "info"
            BY <1>1, <2>3, <2>4, <4>5, <5>2 DEF OneInfo
          <6> QED BY <3>1, <4>1, <4>3, <4>5, <5>2, <6>1
        <5> QED BY <5>1, <5>2
      <4>6. \A n : Pending(n)' <=> Pending(n)
        BY <1>3 DEF Pending, Response
      <4>7. \A a : IsOf(a)' <=> IsOf(a)
        BY <1>3 DEF IsOf
      <4>8. \A i \in 1..Len(toClient) : IsOf(toClient'[i])
        BY <3>1, <4>1
      <4>9. \A i \in 1..Len(fromDevice) : fromDevice[i].k = "response" => WasSentOn(fromDevice[i].x)'
        BY <1>3, <4>1, <4>2 DEF WasSentOn
      <4> QED BY <1>3, <3>1, <4>1, <4>4, <4>5, <4>6, <4>8, <4>9 DEF Answers, IsOf, WasSentOn
    <3> QED BY <1>3, <2>6, <2>8, <2>9, <3>3, <3>4, <3>5 DEF LinkInv
  <2> QED BY <1>6, <2>11, <2>12
<1> QED BY <1>5, <1>6 DEF ProcessTask

LEMMA LinkStepKeeps ==
    ASSUME LinkInv, LinkNext \/ UNCHANGED linkVars
    PROVE  LinkInv'
<1>1. \A x \in Nat : [k |-> "response", x |-> x, as |-> "device"] \in DownMsgs
  BY DEF DownMsgs
<1>2. \A x \in Nat : [k |-> "event", x |-> x, as |-> "device"] \in DownMsgs
  BY DEF DownMsgs
<1>3. 1..MaxFromClient \subseteq Nat /\ 1..MaxEvents \subseteq Nat
  BY LinkAssumption
<1>4. ASSUME NEW x \in Nat, DeviceSends([k |-> "response", x |-> x, as |-> "device"]) PROVE LinkInv'
  BY <1>1, <1>4, DeviceSendsKeeps
<1>5. ASSUME NEW x \in Nat, DeviceSends([k |-> "event", x |-> x, as |-> "device"]) PROVE LinkInv'
  BY <1>2, <1>5, DeviceSendsKeeps
<1> QED BY <1>3, <1>4, <1>5, ClientSendsKeeps, LinkEndsKeep, StartedKeepsLink, ClientDataKeeps, ProcessTaskKeeps,
           DataFromDeviceKeeps DEF LinkNext, ProxyRuns

LEMMA LinkInitHolds == ASSUME LinkInit PROVE LinkInv
<1>1. \A S : <<>> \in Seq(S) /\ Len(<<>>) = 0 /\ 1..Len(<<>>) = {}
  OBVIOUS
<1>2. LinkType /\ OneInfo /\ Stages /\ Answers
  <2>1. LinkType
    BY <1>1 DEF LinkInit, LinkType
  <2>2. OneInfo /\ Answers
    BY <1>1 DEF LinkInit, OneInfo, Answers
  <2>3. Stages
    BY <1>1 DEF LinkInit, Stages
  <2> QED BY <2>1, <2>2, <2>3
<1>3. BufferIs(0) /\ SentAre(0)
  BY <1>1 DEF LinkInit, BufferIs, SentAre, Follows, AllUpTo
<1>4. 0 \in 0..(2 * Len(clientSent))
  BY <1>1 DEF LinkInit
<1> QED BY <1>2, <1>3, <1>4 DEF LinkInv

LEMMA LinkIsInOrder == ASSUME LinkInv PROVE SentOnInOrder
<1>1. LinkType /\ OneInfo /\ Stages /\ Answers
  BY DEF LinkInv
<1>2. PICK h \in 0..(2 * Len(clientSent)) : BufferIs(h) /\ SentAre(h)
  BY DEF LinkInv
<1>3. /\ DOMAIN toDevice = 1..Len(toDevice) /\ DOMAIN toClient = 1..Len(toClient)
      /\ DOMAIN clientSent = 1..Len(clientSent) /\ Len(clientSent) \in Nat /\ Len(buffer) \in Nat
      /\ Len(toProxy) \in Nat /\ h \in Nat
  BY <1>1 DEF LinkType
<1>4. OnlySystemInfoIsRewritten
  <2>1. ASSUME kind = "companion", NEW i \in 1..Len(toClient)
        PROVE  LET m == toClient[i]
                   own == m.k = "response" /\ clientSent[m.x].k = "info"
               IN  own \/ (m.k = "response" /\ clientSent[m.x].k = "auth") <=> m.as = "proxy"
    <3>1. IsOf(toClient[i])
      BY <1>1, <2>1 DEF Answers
    <3> QED BY <3>1 DEF IsOf
  <2> QED BY <1>3, <2>1 DEF OnlySystemInfoIsRewritten
<1>5. ASSUME NEW i \in DOMAIN toDevice
      PROVE  LET p == toDevice[i]
             IN  /\ p.m.x \in DOMAIN clientSent /\ IsDue(clientSent[p.m.x]) /\ p.m = SentOn(clientSent[p.m.x])
                 /\ \A j \in 1..(i - 1) : Place(toDevice[j]) < Place(p)
                 /\ \A n \in 1..p.m.x, r \in {1, 2} :
                      IsDue(clientSent[n]) /\ 2 * n + r < Place(p) => Reaches(2 * n + r)
  <2>1. IsPartOf(toDevice[i], 0, h) /\ AllUpTo(Place(toDevice[i]))
    BY <1>2, <1>3 DEF SentAre
  <2>2. \A j \in 1..(i - 1) : j \in 1..Len(toDevice) /\ j < i
    BY <1>3
  <2>3. \A j \in 1..(i - 1) : Place(toDevice[j]) < Place(toDevice[i])
    BY <1>2, <1>3, <2>2 DEF SentAre
  <2>4. PICK x \in 1..Len(clientSent) : x = toDevice[i].m.x
    BY <2>1 DEF IsPartOf
  <2>5. PICK c \in Nat : c = Place(toDevice[i])
    <3>1. toDevice[i] \in PartsIn(OnMsgs)
      BY <1>1, <1>3 DEF LinkType
    <3>2. Place(toDevice[i]) \in Nat
      BY <3>1 DEF PartsIn, OnMsgs, Place
    <3> QED BY <3>2
  <2>6. ASSUME NEW n \in 1..x, NEW r \in {1, 2}, IsDue(clientSent[n]), 2 * n + r < c PROVE Reaches(2 * n + r)
    <3>1. n \in 1..Len(clientSent)
      BY <1>3
    <3>2. 2 * n + r <= c
      BY <2>6
    <3> QED BY <2>1, <2>5, <2>6, <3>1, <3>2 DEF AllUpTo
  <2> QED BY <1>3, <2>1, <2>3, <2>4, <2>5, <2>6 DEF IsPartOf
<1>6. ASSUME stage = "started", client = "open", device = "open", toProxy = <<>>, ~(task = "runs" /\ event),
             NEW n \in DOMAIN clientSent, NEW r \in {1, 2}, IsDue(clientSent[n])
      PROVE  Reaches(2 * n + r)
  <2>1. AllUpTo(h + 2)
    BY <1>2, <1>6 DEF SentAre
  <2>2. h + Len(buffer) = 2 * Len(clientSent)
    <3>1. Len(toProxy) = 0 /\ h + Len(buffer) + Len(toProxy) = 2 * Len(clientSent)
      BY <1>2, <1>6 DEF BufferIs
    <3> QED BY <1>3, <3>1
  <2>3. CASE kind = "relay"
    <3>1. Len(buffer) = 0
      BY <1>1, <2>3 DEF Stages
    <3> QED BY <1>3, <1>6, <2>1, <2>2, <3>1 DEF AllUpTo
  <2>4. CASE kind # "relay"
    <3>1. Len(buffer) < 2
      BY <1>1, <1>6, <2>4 DEF Stages, LinkType, Kinds
    <3>2. PICK g \in 0..Len(clientSent) : h = 2 * g
      BY <1>2, <2>4 DEF BufferIs
    <3>3. h = 2 * Len(clientSent)
      <4>1. PICK b \in Nat, c \in Nat : b = Len(buffer) /\ c = Len(clientSent)
        BY <1>3
      <4>2. 2 * g + b = 2 * c /\ b < 2 /\ g \in Nat
        BY <1>3, <2>2, <3>1, <3>2, <4>1
      <4>3. g = c
        BY ONLY <4>2, b \in Nat, c \in Nat
      <4> QED BY <3>2, <4>1, <4>3
    <3>4. n \in 1..Len(clientSent) /\ 2 * n + r <= h + 2
      BY <1>3, <1>6, <3>3
    <3> QED BY <1>6, <2>1, <3>4 DEF AllUpTo
  <2> QED BY <2>3, <2>4
<1> QED BY <1>4, <1>5, <1>6 DEF SentOnInOrder

-----------------------------------------------------------------------------
(***************************************************************************)
(* The theorems.                                                            *)
(***************************************************************************)
(* The servers that AirPlayAppleTVProxy has listening are those of channels *)
(* that are set up and not torn down, and the client was told of them or    *)
(* will be, or nobody can close them any more, for any number of requests   *)
(* and of data streams.                                                     *)
THEOREM ServersAreThoseWanted == Spec => []ServersAreWanted
<1>1. Init => ServersInv
  BY ProxyInitHolds DEF Init
<1>2. ServersInv /\ [Next]_vars => ServersInv'
  <2>1. ASSUME [Next]_vars PROVE ProxyNext \/ UNCHANGED proxyVars
    BY <2>1 DEF Next, vars
  <2> QED BY <2>1, ProxyStepKeeps
<1>3. ServersInv => ServersAreWanted
  BY DEF ServersInv
<1> QED BY <1>1, <1>2, <1>3, PTL DEF Spec

(* What a channel of AirPlay hands to the device is what the client sent, in*)
(* its order and rewritten, but for what is ignored, and what the client is *)
(* told of the device has the names of the proxy: for messages of any number*)
(* that TCP cuts anywhere, and whenever the connections are lost.           *)
THEOREM ChannelKeepsOrder == Spec => []ChannelInOrder
<1>1. Init => ChannelInv
  BY ChannelInitHolds DEF Init
<1>2. ChannelInv /\ [Next]_vars => ChannelInv'
  <2>1. ASSUME [Next]_vars PROVE ChannelNext \/ UNCHANGED channelVars
    BY <2>1 DEF Next, vars
  <2> QED BY <2>1, ChannelStepKeeps
<1>3. ChannelInv => ChannelInOrder
  BY ChannelIsInOrder
<1> QED BY <1>1, <1>2, <1>3, PTL DEF Spec

(* A link sends on what the client sent, in its order and unchanged but for *)
(* who the client is, cut anywhere and whenever the device is connected, and *)
(* nothing waits when it is idle; of what the device sends, Companion        *)
(* rewrites the answer to _systemInfo and nothing else.                      *)
THEOREM LinkKeepsOrder == Spec => []SentOnInOrder
<1>1. Init => LinkInv
  BY LinkInitHolds DEF Init
<1>2. LinkInv /\ [Next]_vars => LinkInv'
  <2>1. ASSUME [Next]_vars PROVE LinkNext \/ UNCHANGED linkVars
    BY <2>1 DEF Next, vars
  <2> QED BY <2>1, LinkStepKeeps
<1>3. LinkInv => SentOnInOrder
  BY LinkIsInOrder
<1> QED BY <1>1, <1>2, <1>3, PTL DEF Spec

-----------------------------------------------------------------------------
(* ----------------------------- the HTTP server --------------------------- *)

CellOf(n) == [i : 1..n, is : {"head", "end", "body"}, n : 0..1]

(* The cells of messages, in order: each head has its end and its body behind *)
(* it.                                                                      *)
Laid(w) ==
    \A k \in 1..Len(w) :
        /\ w[k].is = "head" =>
            /\ k + 1 <= Len(w) /\ w[k + 1].is = "end" /\ w[k + 1].i = w[k].i
            /\ w[k].n = 1 => k + 2 <= Len(w) /\ w[k + 2].i = w[k].i /\ w[k + 2].is = "body"
            /\ w[k].n = 1 /\ k + 3 <= Len(w) => w[k + 3].is = "head"
            /\ w[k].n = 0 /\ k + 2 <= Len(w) => w[k + 2].is = "head"
        /\ \A j \in 1..Len(w) : j < k /\ w[j].is = "end" /\ w[k].is = "end" => w[j].i < w[k].i

(* Every message whose end is at p or behind it came after i.               *)
Before(w, p, i) == \A k \in p..Len(w) : w[k].is = "end" => i < w[k].i
BadBefore(i) == \E j \in 1..i - 1 : sent[j].wellFormed = FALSE
InStep(w, p) == p <= Len(w) => w[p].is = "head"
OutOfStep(w, p) == \E m \in 1..Len(sent) : sent[m].wellFormed = FALSE /\ Before(w, p, m)

Codes == {200, 404, 500}
Expected(i) ==
    IF ~ sent[i].wellFormed THEN 500
    ELSE CASE RouteOf(sent[i]) = "none" -> 404
           [] RouteOf(sent[i]) = "raises" -> 500
           [] OTHER -> 200
AnsweredIn(r) == {r[a][1] : a \in 1..Len(r)}

(* With the cells before p of w read, the requests in h handled, and r        *)
(* answered.                                                                *)
Served(w, p, h, r) ==
    /\ p \in 1..Len(w) + 1 /\ r \in Seq((1..Len(sent)) \X Codes) /\ h \subseteq 1..Len(sent)
    /\ InStep(w, p) \/ OutOfStep(w, p)
    /\ \A i \in AnsweredIn(r) \cup h \cup silent : Before(w, p, i)
    /\ \A i \in 1..Len(sent) :
          i \in AnsweredIn(r) \cup h \cup silent \/ BadBefore(i)
            \/ \E k \in p..Len(w) : w[k].is = "end" /\ w[k].i = i
    /\ \A a, b \in 1..Len(r) : a # b => r[a][1] # r[b][1]
    /\ AnsweredIn(r) \cap (h \cup silent) = {} /\ h \cap silent = {}
    /\ \A i \in h : RouteOf(sent[i]) = "task" /\ sent[i].wellFormed
    /\ \A a, b \in 1..Len(r) :
          a < b /\ RouteOf(sent[r[a][1]]) # "task" /\ RouteOf(sent[r[b][1]]) # "task" => r[a][1] < r[b][1]
    /\ \A a \in 1..Len(r) : BadBefore(r[a][1]) \/ r[a][2] = Expected(r[a][1])

Buffered == received \o onWire
(* What is buffered awaits more.                                            *)
AwaitsMore ==
    received # <<>> => OutOfStep(Buffered, 1) \/ (received[1].is = "head" /\ Len(received) <= 1 + received[1].n)
HttpInv ==
    /\ sent \in Seq(Asked) /\ silent \subseteq 1..Len(sent)
    /\ received \in Seq(CellOf(Len(sent))) /\ onWire \in Seq(CellOf(Len(sent)))
    /\ Laid(Buffered) /\ Served(Buffered, 1, handling, responses) /\ AwaitsMore
(* Each request is answered, handled, unknown, or its handler raises.       *)
LEMMA RouteIs == ASSUME NEW r PROVE RouteOf(r) \in {"none", "response", "raises", "task"}
<1> DEFINE fits == {i \in DOMAIN Routes : Routes[i].method = r.method /\ IsPrefix(Routes[i].path, r.path)}
<1>1. DOMAIN Routes = 1..4 /\ \A i \in 1..4 : Routes[i].handler \in {"response", "raises", "task"}
  BY DEF Routes
<1>2. fits \in SUBSET Nat /\ fits \subseteq 1..4
  BY <1>1
<1>3. RouteOf(r) = IF fits = {} THEN "none" ELSE Routes[CHOOSE i \in fits : \A j \in fits : i <= j].handler
  BY DEF RouteOf
<1> HIDE DEF fits
<1>4. CASE fits = {}
  BY <1>3, <1>4
<1>5. CASE fits # {}
  <2>1. \E i \in fits : \A j \in fits : i <= j
    BY <1>2, <1>5, Least
  <2>2. (CHOOSE i \in fits : \A j \in fits : i <= j) \in fits
    BY <2>1
  <2> QED BY <1>1, <1>2, <1>3, <1>5, <2>2
<1> QED BY <1>4, <1>5

(* The code of a request that can be read and has no task.                  *)
LEMMA CodeIs ==
    ASSUME NEW i, RouteOf(sent[i]) # "task", sent[i].wellFormed
    PROVE  CodeFor(i) \in Codes /\ CodeFor(i) = Expected(i)
<1>1. RouteOf(sent[i]) \in {"none", "response", "raises"}
  BY RouteIs
<1> QED BY <1>1 DEF CodeFor, Expected, Codes

(* A head at p of what was received, and its end.                           *)
LEMMA EndIsNext ==
    ASSUME NEW X, NEW c \in Seq(X), NEW p \in 1..Len(c), p + 1 <= Len(c), c[p].is = "head", c[p + 1].is = "end"
    PROVE  EndAt(c, p) = {p + 1} /\ ContentLength(c, p, p + 1) = c[p].n
<1>1. p \in Nat /\ Len(c) \in Nat /\ p..(p + 1) - 1 = {p}
  OBVIOUS
<1>2. ASSUME NEW q \in EndAt(c, p) PROVE q = p + 1
  <2>1. q \in p..Len(c) /\ c[q].is = "end" /\ \A k \in p..q - 1 : c[k].is # "end"
    BY <1>2 DEF EndAt
  <2>2. q # p
    BY <2>1
  <2>3. q > p + 1 => p + 1 \in p..q - 1
    BY <1>1, <2>1
  <2> QED BY <1>1, <2>1, <2>2, <2>3
<1>3. p + 1 \in EndAt(c, p)
  BY <1>1 DEF EndAt
<1>4. HeadsIn(c, p, p + 1) = {p}
  BY <1>1 DEF HeadsIn
<1> QED BY <1>2, <1>3, <1>4 DEF ContentLength

(* What the parser finds from p on, when c are the first cells of w.        *)
BeginsWith(c, w) == Len(c) <= Len(w) /\ \A k \in 1..Len(c) : c[k] = w[k]
FindsNothing(w, L, p) == InStep(w, p) => p > L \/ L <= p + w[p].n
FindsError(w, L, p, i) ==
    \E q \in p..L : w[q].is = "end" /\ i = w[q].i /\ (\A k \in p..q - 1 : w[k].is # "end")
                    /\ (InStep(w, p) => ~ sent[i].wellFormed)
FindsRequest(w, L, p, i, next) ==
    /\ p + 1 <= L /\ w[p].is = "head" /\ i = w[p].i /\ sent[i].wellFormed
    /\ next = p + 2 + w[p].n /\ next <= L + 1
LEMMA ParsedIs ==
    ASSUME NEW n \in Nat, NEW w \in Seq(CellOf(n)), Laid(w), NEW c \in Seq(CellOf(n)), BeginsWith(c, w),
           NEW p \in 1..Len(c) + 1, NEW m, m = Parsed(c, p)
    PROVE  \/ m.got = "nothing" /\ FindsNothing(w, Len(c), p)
           \/ m.got = "error" /\ FindsError(w, Len(c), p, m.i)
           \/ m.got = "request" /\ FindsRequest(w, Len(c), p, m.i, m.next)
<1>1. Len(w) \in Nat /\ Len(c) \in Nat /\ Len(c) <= Len(w) /\ (\A k \in 1..Len(c) : c[k] = w[k])
      /\ (\A k \in 1..Len(w) : w[k] \in CellOf(n)) /\ p \in Nat \ {0}
  BY DEF BeginsWith
<1>n. \A k \in 1..Len(w) : w[k].n \in 0..1
  BY <1>1 DEF CellOf
<1>2. CASE p <= Len(c) /\ w[p].is = "head" /\ p + 1 <= Len(c)
  <2>1. w[p + 1].is = "end" /\ w[p + 1].i = w[p].i
    BY <1>1, <1>2 DEF Laid
  <2>2. p \in 1..Len(c) /\ c[p] = w[p] /\ c[p + 1] = w[p + 1] /\ c[p].is = "head" /\ c[p + 1].is = "end"
    BY <1>1, <1>2, <2>1
  <2>3. EndAt(c, p) = {p + 1} /\ ContentLength(c, p, p + 1) = c[p].n
    BY <1>2, <2>2, EndIsNext
  <2>4. (CHOOSE x \in EndAt(c, p) : TRUE) = p + 1
    BY <2>3
  <2>5. m = IF p + 1 + w[p].n > Len(c) \/ p = p + 1 THEN [got |-> "nothing"]
            ELSE IF p + 1 = p + 1 /\ w[p].is = "head" /\ sent[w[p].i].wellFormed
            THEN [got |-> "request", i |-> w[p].i, next |-> p + 1 + w[p].n + 1]
            ELSE [got |-> "error", i |-> w[p].i]
    BY <2>1, <2>2, <2>3, <2>4 DEF Parsed
  <2>6. w[p].n \in 0..1 /\ p # p + 1
    BY <1>1, <1>n, <1>2
  <2>7. CASE p + 1 + w[p].n > Len(c)
    <3>1. m.got = "nothing"
      BY <2>5, <2>7
    <3>2. Len(c) <= p + w[p].n
      BY <1>1, <2>6, <2>7
    <3> QED BY <3>1, <3>2 DEF FindsNothing
  <2>8. CASE ~ (p + 1 + w[p].n > Len(c)) /\ sent[w[p].i].wellFormed
    <3>1. m.got = "request" /\ m.i = w[p].i /\ m.next = p + 1 + w[p].n + 1
      BY <1>2, <2>5, <2>6, <2>8
    <3>2. p + 1 + w[p].n + 1 = p + 2 + w[p].n /\ p + 2 + w[p].n <= Len(c) + 1
      BY <1>1, <2>6, <2>8
    <3> QED BY <1>2, <2>8, <3>1, <3>2 DEF FindsRequest
  <2>9. CASE ~ (p + 1 + w[p].n > Len(c)) /\ ~ sent[w[p].i].wellFormed
    <3>1. m.got = "error" /\ m.i = w[p].i
      BY <1>2, <2>5, <2>6, <2>9
    <3>2. p + 1 \in p..Len(c) /\ \A k \in p..(p + 1) - 1 : k = p
      BY <1>1, <1>2
    <3> QED BY <1>2, <2>1, <2>9, <3>1, <3>2 DEF FindsError
  <2> QED BY <2>7, <2>8, <2>9
<1>3. CASE p = Len(c) + 1 \/ p = Len(c)
  <2>1. FindsNothing(w, Len(c), p)
    BY <1>1, <1>n, <1>3 DEF FindsNothing, InStep
  <2>2. ASSUME NEW q \in EndAt(c, p) PROVE q = p
    BY <1>1, <1>3, <2>2 DEF EndAt
  <2>3. m.got = "nothing"
    <3>1. CASE EndAt(c, p) = {}
      BY <3>1 DEF Parsed
    <3>2. CASE EndAt(c, p) # {}
      <4>1. (CHOOSE x \in EndAt(c, p) : TRUE) = p
        BY <2>2, <3>2
      <4> QED BY <3>2, <4>1 DEF Parsed
    <3> QED BY <3>1, <3>2
  <2> QED BY <2>1, <2>3
<1>4. CASE p < Len(c) /\ w[p].is # "head"
  <2>1. ~ InStep(w, p)
    BY <1>1, <1>4 DEF InStep
  <2>2. CASE EndAt(c, p) = {}
    BY <2>1, <2>2 DEF Parsed, FindsNothing
  <2>3. CASE EndAt(c, p) # {}
    <3>1. PICK q : q = (CHOOSE x \in EndAt(c, p) : TRUE)
      OBVIOUS
    <3>2. q \in EndAt(c, p)
      BY <2>3, <3>1
    <3>3. q \in p..Len(c) /\ c[q].is = "end" /\ \A k \in p..q - 1 : c[k].is # "end"
      BY <3>2 DEF EndAt
    <3>4. c[p].is # "head" /\ c[q] = w[q] /\ \A k \in p..q - 1 : w[k].is # "end"
      BY <1>1, <1>4, <3>3
    <3>5. m = [got |-> "nothing"] \/ m = [got |-> "error", i |-> c[q].i]
      BY <2>3, <3>1, <3>4 DEF Parsed
    <3>6. m.got = "nothing" \/ (m.got = "error" /\ m.i = w[q].i)
      BY <3>4, <3>5
    <3> QED BY <2>1, <3>3, <3>4, <3>6 DEF FindsNothing, FindsError
  <2> QED BY <2>2, <2>3
<1> QED BY <1>1, <1>2, <1>3, <1>4
(* The message whose end is at q is the next that is answered or handled;   *)
(* what is read with it is behind one that could not be.                    *)
Takes(w, p, q, next) ==
    /\ q \in p..Len(w) /\ w[q].is = "end" /\ next \in q + 1..Len(w) + 1
    /\ \A k \in p..next - 1 : w[k].is = "end" /\ k # q => BadBefore(w[k].i)
    /\ InStep(w, next) \/ OutOfStep(w, next)
(* The message that is taken came after all that were served.                *)
LEMMA TakenIs ==
    ASSUME sent \in Seq(Asked), silent \subseteq 1..Len(sent),
           NEW w \in Seq(CellOf(Len(sent))), Laid(w), NEW p, NEW h, NEW r, Served(w, p, h, r),
           NEW q, NEW next, Takes(w, p, q, next), NEW i, i = w[q].i
    PROVE  /\ i \in 1..Len(sent) /\ next \in 1..Len(w) + 1
           /\ \A e \in AnsweredIn(r) \cup h \cup silent : e < i /\ Before(w, next, e)
           /\ Before(w, next, i)
           /\ \A e \in 1..Len(sent) :
                e \in AnsweredIn(r) \cup h \cup silent \/ e = i \/ BadBefore(e)
                  \/ \E k \in next..Len(w) : w[k].is = "end" /\ w[k].i = e
<1>1. Len(w) \in Nat /\ p \in 1..Len(w) + 1 /\ q \in p..Len(w) /\ w[q].is = "end" /\ next \in q + 1..Len(w) + 1
      /\ \A k \in 1..Len(w) : w[k] \in CellOf(Len(sent))
  BY DEF Served, Takes
<1>2. i \in 1..Len(sent) /\ next \in 1..Len(w) + 1 /\ q \in 1..Len(w) /\ p \in Nat /\ next \in Nat
  BY <1>1 DEF CellOf
<1>3. \A e \in AnsweredIn(r) \cup h \cup silent : Before(w, p, e)
  BY DEF Served
<1>4. \A e : Before(w, p, e) => e < i /\ Before(w, next, e)
  <2>1. \A k \in next..Len(w) : k \in p..Len(w)
    BY <1>1, <1>2
  <2> QED BY <1>1, <2>1 DEF Before
<1>5. Before(w, next, i)
  <2>1. \A k \in next..Len(w) : k \in 1..Len(w) /\ q < k
    BY <1>1, <1>2
  <2> QED BY <1>1, <1>2, <2>1 DEF Before, Laid
<1>6. ASSUME NEW e \in 1..Len(sent), NEW k \in p..Len(w), w[k].is = "end", w[k].i = e
      PROVE  e = i \/ BadBefore(e) \/ \E j \in next..Len(w) : w[j].is = "end" /\ w[j].i = e
  <2>1. k \in p..next - 1 \/ k \in next..Len(w)
    BY <1>1, <1>2
  <2> QED BY <1>6, <2>1 DEF Takes
<1> QED BY <1>2, <1>3, <1>4, <1>5, <1>6 DEF Served

(* If it has a task the task runs.                                          *)
LEMMA TaskBegins ==
    ASSUME sent \in Seq(Asked), silent \subseteq 1..Len(sent),
           NEW w \in Seq(CellOf(Len(sent))), Laid(w), NEW p, NEW h, NEW r, Served(w, p, h, r),
           NEW q, NEW next, Takes(w, p, q, next), NEW i, i = w[q].i,
           RouteOf(sent[i]) = "task", sent[i].wellFormed
    PROVE  Served(w, next, h \cup {i}, r)
<1>1. /\ i \in 1..Len(sent) /\ next \in 1..Len(w) + 1
      /\ \A e \in AnsweredIn(r) \cup h \cup silent : e < i /\ Before(w, next, e)
      /\ Before(w, next, i)
      /\ \A e \in 1..Len(sent) :
           e \in AnsweredIn(r) \cup h \cup silent \/ e = i \/ BadBefore(e)
             \/ \E k \in next..Len(w) : w[k].is = "end" /\ w[k].i = e
  BY TakenIs
<1>2. i \notin AnsweredIn(r) \cup silent
  BY <1>1
<1> QED BY <1>1, <1>2 DEF Served, Takes

(* t is r and the answer x.                                                 *)
OneMore(t, r, x) ==
    /\ Len(r) \in Nat /\ Len(t) = Len(r) + 1 /\ (\A a \in 1..Len(r) : t[a] = r[a]) /\ t[Len(r) + 1] = x
    /\ AnsweredIn(t) = AnsweredIn(r) \cup {x[1]}
LEMMA AnsweredMore ==
    ASSUME NEW X, NEW r \in Seq(X), NEW x \in X
    PROVE  Append(r, x) \in Seq(X) /\ OneMore(Append(r, x), r, x)
<1>t. PICK t : t = Append(r, x)
  OBVIOUS
<1>1. /\ t \in Seq(X) /\ Len(r) \in Nat /\ Len(t) = Len(r) + 1
      /\ (\A a \in 1..Len(r) : t[a] = r[a]) /\ t[Len(r) + 1] = x
  BY <1>t
<1>2. \A a : a \in 1..Len(t) <=> a \in 1..Len(r) \/ a = Len(r) + 1
  BY ONLY <1>1
<1>3. AnsweredIn(t) = AnsweredIn(r) \cup {x[1]}
  BY ONLY <1>1, <1>2 DEF AnsweredIn
<1> QED BY <1>t, <1>1, <1>3 DEF OneMore

(* Else its answer is written.                                              *)
LEMMA AnswerIsWritten ==
    ASSUME sent \in Seq(Asked), silent \subseteq 1..Len(sent),
           NEW w \in Seq(CellOf(Len(sent))), Laid(w), NEW p, NEW h, NEW r, Served(w, p, h, r),
           NEW q, NEW next, Takes(w, p, q, next), NEW i, i = w[q].i,
           NEW code \in Codes, BadBefore(i) \/ code = Expected(i), NEW t, t = Append(r, <<i, code>>)
    PROVE  Served(w, next, h, t)
<1>1. /\ i \in 1..Len(sent) /\ next \in 1..Len(w) + 1
      /\ \A e \in AnsweredIn(r) \cup h \cup silent : e < i /\ Before(w, next, e)
      /\ Before(w, next, i)
      /\ \A e \in 1..Len(sent) :
           e \in AnsweredIn(r) \cup h \cup silent \/ e = i \/ BadBefore(e)
             \/ \E k \in next..Len(w) : w[k].is = "end" /\ w[k].i = e
  BY TakenIs
<1>2. r \in Seq((1..Len(sent)) \X Codes) /\ <<i, code>> \in (1..Len(sent)) \X Codes
  BY <1>1 DEF Served
<1>3. PICK x : x = <<i, code>>
  OBVIOUS
<1>x. x \in (1..Len(sent)) \X Codes /\ t = Append(r, x) /\ x[1] = i /\ x[2] = code
  BY <1>2, <1>3
<1>4. /\ t \in Seq((1..Len(sent)) \X Codes) /\ Len(r) \in Nat /\ Len(t) = Len(r) + 1
      /\ (\A a \in 1..Len(r) : t[a] = r[a]) /\ t[Len(r) + 1] = x
      /\ AnsweredIn(t) = AnsweredIn(r) \cup {x[1]}
  <2>1. PICK X : X = (1..Len(sent)) \X Codes
    OBVIOUS
  <2>2. r \in Seq(X) /\ x \in X /\ t = Append(r, x)
    BY <1>2, <1>x, <2>1
  <2>3. r \in Seq(X) /\ x \in X
    BY <2>2
  <2>4. Append(r, x) \in Seq(X) /\ OneMore(Append(r, x), r, x)
    BY ONLY <2>3, AnsweredMore
  <2> QED BY <2>1, <2>2, <2>4 DEF OneMore
<1>5. \A a : a \in 1..Len(t) <=> a \in 1..Len(r) \/ a = Len(r) + 1
  BY <1>4
<1>6. i \notin AnsweredIn(r) \cup h \cup silent /\ \A a \in 1..Len(r) : r[a][1] \in AnsweredIn(r) /\ r[a][1] < i
  BY <1>1 DEF AnsweredIn
<1>7. \A a, b \in 1..Len(t) : a # b => t[a][1] # t[b][1]
  BY <1>4, <1>5, <1>6, <1>x DEF Served
<1>8. \A a, b \in 1..Len(t) : a < b => \/ a \in 1..Len(r) /\ b \in 1..Len(r)
                                       \/ a \in 1..Len(r) /\ b = Len(r) + 1
  BY <1>4
<1>9. \A a, b \in 1..Len(t) :
          a < b /\ RouteOf(sent[t[a][1]]) # "task" /\ RouteOf(sent[t[b][1]]) # "task" => t[a][1] < t[b][1]
  <2>1. \A a, b \in 1..Len(r) :
          a < b /\ RouteOf(sent[r[a][1]]) # "task" /\ RouteOf(sent[r[b][1]]) # "task" => r[a][1] < r[b][1]
    BY DEF Served
  <2>2. ASSUME NEW a \in 1..Len(t), NEW b \in 1..Len(t), a < b,
               RouteOf(sent[t[a][1]]) # "task", RouteOf(sent[t[b][1]]) # "task"
        PROVE  t[a][1] < t[b][1]
    <3>1. CASE a \in 1..Len(r) /\ b \in 1..Len(r)
      <4>1. t[a] = r[a] /\ t[b] = r[b]
        BY <1>4, <3>1
      <4> QED BY <2>1, <2>2, <3>1, <4>1
    <3>2. CASE a \in 1..Len(r) /\ b = Len(r) + 1
      <4>1. t[a] = r[a] /\ t[b] = x
        BY <1>4, <3>2
      <4> QED BY <1>6, <1>x, <3>2, <4>1
    <3> QED BY <1>8, <2>2, <3>1, <3>2
  <2> QED BY <2>2
<1>10. \A a \in 1..Len(t) : BadBefore(t[a][1]) \/ t[a][2] = Expected(t[a][1])
  BY <1>4, <1>5, <1>x DEF Served
<1>11. AnsweredIn(t) \cap (h \cup silent) = {}
  <2>1. AnsweredIn(r) \cap (h \cup silent) = {} /\ AnsweredIn(t) = AnsweredIn(r) \cup {i}
    BY <1>4, <1>x DEF Served
  <2> QED BY <1>6, <2>1
<1>12. /\ h \subseteq 1..Len(sent) /\ h \cap silent = {}
       /\ \A e \in h : RouteOf(sent[e]) = "task" /\ sent[e].wellFormed
  BY DEF Served
<1>13. InStep(w, next) \/ OutOfStep(w, next)
  BY DEF Takes
<1>14. \A e \in AnsweredIn(t) \cup h \cup silent : Before(w, next, e)
  BY <1>1, <1>4, <1>x
<1>15. \A e \in 1..Len(sent) :
          e \in AnsweredIn(t) \cup h \cup silent \/ BadBefore(e)
            \/ \E k \in next..Len(w) : w[k].is = "end" /\ w[k].i = e
  BY <1>1, <1>4, <1>x
<1> QED BY <1>1, <1>4, <1>7, <1>9, <1>10, <1>11, <1>12, <1>13, <1>14, <1>15 DEF Served

(* A request that is found is the next; an error takes with it what is       *)
(* behind a request that could not be read.                                 *)
LEMMA RequestIsNext ==
    ASSUME sent \in Seq(Asked), NEW w \in Seq(CellOf(Len(sent))), Laid(w), NEW L \in 0..Len(w),
           NEW p \in 1..L + 1, InStep(w, p) \/ OutOfStep(w, p), NEW i, NEW next, FindsRequest(w, L, p, i, next)
    PROVE  Takes(w, p, p + 1, next) /\ i = w[p + 1].i /\ next \in 1..L + 1 /\ p < next
<1>1. /\ p + 1 <= L /\ w[p].is = "head" /\ i = w[p].i
      /\ next = p + 2 + w[p].n /\ next <= L + 1
      /\ Len(w) \in Nat /\ p \in 1..Len(w) /\ L <= Len(w) /\ L \in Nat
  BY DEF FindsRequest
<1>2. w[p].n \in 0..1
  <2>1. w[p] \in CellOf(Len(sent))
    BY <1>1
  <2> QED BY <2>1 DEF CellOf
<1>3. /\ p + 1 <= Len(w) /\ w[p + 1].is = "end" /\ w[p + 1].i = w[p].i
      /\ w[p].n = 1 => p + 2 <= Len(w) /\ w[p + 2].i = w[p].i /\ w[p + 2].is = "body"
      /\ w[p].n = 1 /\ p + 3 <= Len(w) => w[p + 3].is = "head"
      /\ w[p].n = 0 /\ p + 2 <= Len(w) => w[p + 2].is = "head"
  BY <1>1 DEF Laid
<1>4. p + 1 \in p..Len(w) /\ next \in (p + 1) + 1..Len(w) + 1 /\ next \in 1..L + 1 /\ p < next
  BY <1>1, <1>2
<1>5. InStep(w, next)
  <2>1. (next = p + 2 /\ w[p].n = 0) \/ (next = p + 3 /\ w[p].n = 1)
    BY <1>1, <1>2
  <2> QED BY <1>3, <2>1 DEF InStep
<1>6. \A k \in p..next - 1 : w[k].is = "end" => k = p + 1
  <2>1. \A k \in p..next - 1 : k = p \/ k = p + 1 \/ (k = p + 2 /\ w[p].n = 1)
    BY <1>1, <1>2
  <2> QED BY <1>1, <1>3, <2>1
<1> QED BY <1>1, <1>3, <1>4, <1>5, <1>6 DEF Takes

LEMMA ErrorIsNext ==
    ASSUME sent \in Seq(Asked), NEW w \in Seq(CellOf(Len(sent))), Laid(w), NEW L \in 0..Len(w),
           NEW p \in 1..L + 1, InStep(w, p) \/ OutOfStep(w, p), NEW i, FindsError(w, L, p, i)
    PROVE  \E q : Takes(w, p, q, L + 1) /\ i = w[q].i /\ p < L + 1 /\ (BadBefore(i) \/ ~ sent[i].wellFormed)
<1>1. PICK q \in p..L : w[q].is = "end" /\ i = w[q].i /\ (\A k \in p..q - 1 : w[k].is # "end")
                        /\ (InStep(w, p) => ~ sent[i].wellFormed)
  BY DEF FindsError
<1>2. Len(w) \in Nat /\ L \in Nat /\ L <= Len(w) /\ p \in Nat \ {0} /\ q \in 1..Len(w) /\ q \in p..Len(w)
      /\ L + 1 \in q + 1..Len(w) + 1 /\ p < L + 1
  BY <1>1
<1>3. \A k \in 1..Len(w) : w[k].i \in 1..Len(sent)
  <2>1. \A k \in 1..Len(w) : w[k] \in CellOf(Len(sent))
    OBVIOUS
  <2> QED BY <2>1 DEF CellOf
<1>4. i \in 1..Len(sent) /\ Len(sent) \in Nat
  BY <1>1, <1>2, <1>3
<1>w. \A m \in 1..Len(sent) : sent[m].wellFormed \in BOOLEAN
  <2>1. \A m \in 1..Len(sent) : sent[m] \in Asked
    OBVIOUS
  <2>2. \A x \in Asked : x.wellFormed \in BOOLEAN
    <3>1. \A method, path : Request(method, path, TRUE).wellFormed \in BOOLEAN
            /\ Request(method, path, FALSE).wellFormed \in BOOLEAN
      BY DEF Request
    <3> QED BY <3>1 DEF Asked
  <2> QED BY <2>1, <2>2
(* The request that could not be read is this one, or one before it.        *)
<1>5. PICK m \in 1..Len(sent) : sent[m].wellFormed = FALSE /\ m <= i
        /\ \A k \in q + 1..Len(w) : w[k].is = "end" => m < w[k].i
  <2>1. CASE InStep(w, p)
    <3>1. \A k \in q + 1..Len(w) : w[k].is = "end" => i < w[k].i
      <4>1. \A k \in q + 1..Len(w) : k \in 1..Len(w) /\ q < k
        BY <1>2
      <4>2. \A j, k \in 1..Len(w) : j < k /\ w[j].is = "end" /\ w[k].is = "end" => w[j].i < w[k].i
        BY DEF Laid
      <4>3. ASSUME NEW k \in q + 1..Len(w), w[k].is = "end" PROVE i < w[k].i
        <5>1. k \in 1..Len(w) /\ q < k
          BY <4>1, <4>3
        <5>2. q \in 1..Len(w) /\ w[q].is = "end" /\ i = w[q].i
          BY <1>1, <1>2
        <5> QED BY ONLY <4>2, <4>3, <5>1, <5>2
      <4> QED BY ONLY <4>3
    <3>2. ~ sent[i].wellFormed /\ sent[i].wellFormed \in BOOLEAN
      BY <1>1, <1>4, <1>w, <2>1
    <3>3. sent[i].wellFormed = FALSE
      BY <3>2
    <3>4. i <= i
      BY <1>4
    <3> QED BY <1>4, <3>1, <3>3, <3>4
  <2>2. CASE OutOfStep(w, p)
    <3>1. PICK m \in 1..Len(sent) : sent[m].wellFormed = FALSE /\ Before(w, p, m)
      BY <2>2 DEF OutOfStep
    <3>2. m < i /\ \A k \in q + 1..Len(w) : w[k].is = "end" => m < w[k].i
      <4>1. \A k \in q + 1..Len(w) : k \in p..Len(w)
        BY <1>2
      <4> QED BY <1>1, <1>2, <3>1, <4>1 DEF Before
    <3> QED BY <1>4, <3>1, <3>2
  <2> QED BY <2>1, <2>2
<1>6. \A k \in q + 1..Len(w) : w[k].is = "end" => BadBefore(w[k].i)
  <2>1. \A k \in q + 1..Len(w) : w[k].i \in 1..Len(sent)
    BY <1>2, <1>3
  <2>2. \A e \in 1..Len(sent) : m < e => m \in 1..e - 1
    BY <1>4
  <2> QED BY <1>5, <2>1, <2>2 DEF BadBefore
<1>7. OutOfStep(w, L + 1)
  <2>1. \A k \in L + 1..Len(w) : k \in q + 1..Len(w)
    BY <1>1, <1>2
  <2> QED BY <1>5, <2>1 DEF OutOfStep, Before
<1>8. \A k \in p..(L + 1) - 1 : w[k].is = "end" /\ k # q => BadBefore(w[k].i)
  <2>1. \A k \in p..(L + 1) - 1 : k \in p..q - 1 \/ k = q \/ k \in q + 1..Len(w)
    BY <1>1, <1>2
  <2> QED BY <1>1, <1>6, <2>1
<1>9. BadBefore(i) \/ ~ sent[i].wellFormed
  <2>1. m = i \/ m \in 1..i - 1
    BY <1>4, <1>5
  <2> QED BY <1>5, <2>1 DEF BadBefore
<1> QED BY <1>1, <1>2, <1>7, <1>8, <1>9 DEF Takes
(* The state of the loop of data_received: where it is, what it began and    *)
(* what it answered.                                                        *)
Loops(L) == [p : 1..L + 1, tasks : SUBSET (1..Len(sent)), answers : Seq((1..Len(sent)) \X Codes)]

LEMMA AppendBehind ==
    ASSUME NEW X, NEW r \in Seq(X), NEW a \in Seq(X), NEW x \in X
    PROVE  r \o Append(a, x) = Append(r \o a, x) /\ Append(a, x) \in Seq(X)
<1>1. r \o Append(a, x) \in Seq(X) /\ Append(r \o a, x) \in Seq(X) /\ Append(a, x) \in Seq(X)
  OBVIOUS
<1>2. Len(r \o Append(a, x)) = Len(r) + Len(a) + 1 /\ Len(Append(r \o a, x)) = Len(r) + Len(a) + 1
  OBVIOUS
<1>3. ASSUME NEW k \in 1..Len(r) + Len(a) + 1 PROVE (r \o Append(a, x))[k] = Append(r \o a, x)[k]
  OBVIOUS
<1> QED BY <1>1, <1>2, <1>3

(* A turn of the loop keeps what is served so, and goes on unless nothing    *)
(* more can be read.                                                        *)
LEMMA TurnServes ==
    ASSUME sent \in Seq(Asked), silent \subseteq 1..Len(sent),
           NEW w \in Seq(CellOf(Len(sent))), Laid(w), NEW c \in Seq(CellOf(Len(sent))), BeginsWith(c, w),
           NEW h, NEW r \in Seq((1..Len(sent)) \X Codes), NEW at \in Loops(Len(c)),
           Served(w, at.p, h \cup at.tasks, r \o at.answers), NEW t, t = Turn(c, at)
    PROVE  /\ t \in Loops(Len(c)) /\ Served(w, t.p, h \cup t.tasks, r \o t.answers)
           /\ (t = at /\ Parsed(c, at.p).got = "nothing") \/ at.p < t.p
<1>1. PICK m : m = Parsed(c, at.p)
  OBVIOUS
<1>2. PICK p, L, H, R, a, T : p = at.p /\ L = Len(c) /\ H = h \cup at.tasks /\ R = r \o at.answers
                              /\ a = at.answers /\ T = at.tasks
  OBVIOUS
<1>3. /\ L \in 0..Len(w) /\ p \in 1..L + 1 /\ p \in 1..Len(c) + 1 /\ Len(w) \in Nat
      /\ a \in Seq((1..Len(sent)) \X Codes) /\ T \in SUBSET (1..Len(sent)) /\ Len(sent) \in Nat
      /\ Served(w, p, H, R)
  BY <1>2 DEF Loops, BeginsWith
<1>4. InStep(w, p) \/ OutOfStep(w, p)
  BY <1>3 DEF Served
<1>b. ASSUME NEW x \in (1..Len(sent)) \X Codes
      PROVE  r \o Append(a, x) = Append(R, x) /\ Append(a, x) \in Seq((1..Len(sent)) \X Codes)
  <2>1. PICK X : X = (1..Len(sent)) \X Codes
    OBVIOUS
  <2>2. r \in Seq(X) /\ a \in Seq(X) /\ x \in X
    BY <1>3, <1>b, <2>1
  <2>3. r \o Append(a, x) = Append(r \o a, x) /\ Append(a, x) \in Seq(X)
    BY ONLY <2>2, AppendBehind
  <2> QED BY <1>2, <2>1, <2>3
<1>5. \/ m.got = "nothing" /\ FindsNothing(w, L, p)
      \/ m.got = "error" /\ FindsError(w, L, p, m.i)
      \/ m.got = "request" /\ FindsRequest(w, L, p, m.i, m.next)
  <2>1. m = Parsed(c, p) /\ p \in 1..Len(c) + 1
    BY <1>1, <1>2, <1>3
  <2>2. \/ m.got = "nothing" /\ FindsNothing(w, Len(c), p)
        \/ m.got = "error" /\ FindsError(w, Len(c), p, m.i)
        \/ m.got = "request" /\ FindsRequest(w, Len(c), p, m.i, m.next)
    BY <1>3, <2>1, ParsedIs
  <2> QED BY <1>2, <2>2
<1>6. at = [p |-> p, tasks |-> T, answers |-> a]
  BY <1>2 DEF Loops
<1>7. CASE m.got = "nothing"
  <2>1. t = at
    BY <1>1, <1>7 DEF Turn
  <2> QED BY <1>1, <1>7, <2>1
<1>8. CASE m.got = "error"
  <2>1. PICK i : i = m.i
    OBVIOUS
  <2>2. FindsError(w, L, p, i)
    BY <1>5, <1>8, <2>1
  <2>3. PICK q : Takes(w, p, q, L + 1) /\ i = w[q].i /\ p < L + 1 /\ (BadBefore(i) \/ ~ sent[i].wellFormed)
    BY <1>3, <1>4, <2>2, ErrorIsNext
  <2>4. 500 \in Codes /\ (BadBefore(i) \/ 500 = Expected(i))
    BY <2>3 DEF Codes, Expected
  <2>5. PICK next : next = L + 1
    OBVIOUS
  <2>6. Takes(w, p, q, next) /\ i = w[q].i
    BY <2>3, <2>5
  <2>7. i \in 1..Len(sent) /\ next \in 1..Len(w) + 1
    BY <1>3, <2>6, TakenIs
  <2>8. PICK x : x = <<i, 500>>
    OBVIOUS
  <2>9. x \in (1..Len(sent)) \X Codes
    BY <2>4, <2>7, <2>8
  <2>10. r \o Append(a, x) = Append(R, x) /\ Append(a, x) \in Seq((1..Len(sent)) \X Codes)
    BY <1>b, <2>9
  <2>c. PICK code : code = 500
    OBVIOUS
  <2>d. code \in Codes /\ (BadBefore(i) \/ code = Expected(i))
    BY <2>4, <2>c
  <2>11. PICK s : s = Append(R, <<i, code>>)
    OBVIOUS
  <2>12. Served(w, next, H, s)
    BY <1>3, <2>d, <2>6, <2>11, AnswerIsWritten
  <2>13. t = [at EXCEPT !.p = L + 1, !.answers = Append(@, x)]
    BY <1>1, <1>2, <1>8, <2>1, <2>8 DEF Turn
  <2>14. t = [p |-> next, tasks |-> T, answers |-> Append(a, x)]
    BY <1>6, <2>5, <2>13
  <2>15. t.p = next /\ t.tasks = T /\ t.answers = Append(a, x)
    BY <2>14
  <2>16. t \in Loops(Len(c)) /\ at.p < t.p
    <3>1. next \in 1..Len(c) + 1 /\ p < next
      BY <1>2, <1>3, <2>3, <2>5
    <3> QED BY <1>2, <1>3, <2>10, <2>14, <2>15, <3>1 DEF Loops
  <2>17. h \cup t.tasks = H /\ r \o t.answers = s
    BY <1>2, <2>8, <2>10, <2>11, <2>15, <2>c
  <2> QED BY <2>12, <2>15, <2>16, <2>17
<1>9. CASE m.got = "request"
  <2>1. PICK i, next : i = m.i /\ next = m.next
    OBVIOUS
  <2>2. FindsRequest(w, L, p, i, next)
    BY <1>5, <1>9, <2>1
  <2>3. Takes(w, p, p + 1, next) /\ i = w[p + 1].i /\ next \in 1..L + 1 /\ p < next
    BY <1>3, <1>4, <2>2, RequestIsNext
  <2>4. PICK q : q = p + 1
    OBVIOUS
  <2>5. Takes(w, p, q, next) /\ i = w[q].i /\ sent[i].wellFormed
    BY <2>2, <2>3, <2>4 DEF FindsRequest
  <2>6. i \in 1..Len(sent) /\ next \in 1..Len(w) + 1
    BY <1>3, <2>5, TakenIs
  <2>7. CASE RouteOf(sent[i]) = "task"
    <3>1. Served(w, next, H \cup {i}, R)
      BY <1>3, <2>5, <2>7, TaskBegins
    <3>2. t = [at EXCEPT !.p = next, !.tasks = @ \cup {i}]
      BY <1>1, <1>9, <2>1, <2>7 DEF Turn
    <3>3. t = [p |-> next, tasks |-> T \cup {i}, answers |-> a]
      BY <1>6, <3>2
    <3>4. t.p = next /\ t.tasks = T \cup {i} /\ t.answers = a
      BY <3>3
    <3>5. t \in Loops(Len(c)) /\ at.p < t.p
      BY <1>2, <1>3, <2>3, <2>6, <3>3, <3>4 DEF Loops
    <3>6. h \cup t.tasks = H \cup {i} /\ r \o t.answers = R
      BY <1>2, <3>4
    <3> QED BY <3>1, <3>4, <3>5, <3>6
  <2>8. CASE RouteOf(sent[i]) # "task"
    <3>1. PICK code : code = CodeFor(i)
      OBVIOUS
    <3>2. code \in Codes /\ (BadBefore(i) \/ code = Expected(i))
      BY <2>5, <2>8, <3>1, CodeIs
    <3>3. PICK x : x = <<i, code>>
      OBVIOUS
    <3>4. x \in (1..Len(sent)) \X Codes
      BY <2>6, <3>2, <3>3
    <3>5. r \o Append(a, x) = Append(R, x) /\ Append(a, x) \in Seq((1..Len(sent)) \X Codes)
      BY <1>b, <3>4
    <3>6. PICK s : s = Append(R, <<i, code>>)
      OBVIOUS
    <3>7. Served(w, next, H, s)
      BY <1>3, <2>5, <3>2, <3>6, AnswerIsWritten
    <3>8. t = [at EXCEPT !.p = next, !.answers = Append(@, x)]
      BY <1>1, <1>9, <2>1, <2>8, <3>1, <3>3 DEF Turn
    <3>9. t = [p |-> next, tasks |-> T, answers |-> Append(a, x)]
      BY <1>6, <3>8
    <3>10. t.p = next /\ t.tasks = T /\ t.answers = Append(a, x)
      BY <3>9
    <3>11. t \in Loops(Len(c)) /\ at.p < t.p
      BY <1>2, <1>3, <2>3, <3>5, <3>9, <3>10 DEF Loops
    <3>12. h \cup t.tasks = H /\ r \o t.answers = s
      BY <1>2, <3>3, <3>5, <3>6, <3>10
    <3> QED BY <3>7, <3>10, <3>11, <3>12
  <2> QED BY <2>7, <2>8
<1> QED BY <1>5, <1>7, <1>8, <1>9
(* f[n] is where the loop of data_received is after n turns.                *)
TurnsOf(f, c, N) == f = [n \in 0..N |-> IF n = 0 THEN AtStart ELSE Turn(c, f[n - 1])]

(* The recursion is well founded: there is such a function.                 *)
LEMMA TurnsExist ==
    ASSUME NEW c, Len(c) \in Nat
    PROVE  \E f : TurnsOf(f, c, Len(c)) /\ ParsedAll(c) = f[Len(c)]
<1> DEFINE T == {N \in Nat : \E f : TurnsOf(f, c, N)}
<1>1. 0 \in T
  <2>1. PICK f : f = [n \in 0..0 |-> AtStart]
    OBVIOUS
  <2>2. TurnsOf(f, c, 0)
    <3>1. 0..0 = {0}
      OBVIOUS
    <3> QED BY <2>1, <3>1 DEF TurnsOf
  <2> QED BY <2>2
<1>2. ASSUME NEW N \in T PROVE N + 1 \in T
  <2>1. N \in Nat /\ N + 1 \in Nat
    OBVIOUS
  <2>2. PICK f : TurnsOf(f, c, N)
    OBVIOUS
  <2>3. PICK g : g = [n \in 0..(N + 1) |-> IF n <= N THEN f[n] ELSE Turn(c, f[n - 1])]
    OBVIOUS
  <2>4. ASSUME NEW n \in 0..(N + 1) PROVE g[n] = IF n = 0 THEN AtStart ELSE Turn(c, g[n - 1])
    <3>1. CASE n = 0
      <4>1. n \in 0..N /\ n <= N
        BY <2>1, <3>1
      <4>2. f[n] = AtStart
        BY <2>2, <3>1, <4>1 DEF TurnsOf
      <4> QED BY <2>3, <3>1, <4>1, <4>2
    <3>2. CASE n # 0 /\ n <= N
      <4>1. n \in 0..N /\ n - 1 \in 0..(N + 1) /\ n - 1 <= N
        BY <2>1, <3>2
      <4>2. g[n] = f[n] /\ g[n - 1] = f[n - 1]
        BY <2>3, <3>2, <4>1
      <4>3. f[n] = Turn(c, f[n - 1])
        BY <2>2, <3>2, <4>1 DEF TurnsOf
      <4> QED BY <3>2, <4>2, <4>3
    <3>3. CASE n # 0 /\ ~(n <= N)
      <4>1. n - 1 \in 0..(N + 1) /\ n - 1 <= N
        BY <2>1, <3>3
      <4>2. g[n - 1] = f[n - 1]
        BY <2>3, <4>1
      <4>3. g[n] = Turn(c, f[n - 1])
        BY <2>3, <3>3
      <4> QED BY <3>3, <4>2, <4>3
    <3> QED BY <3>1, <3>2, <3>3
  <2>5. TurnsOf(g, c, N + 1)
    <3>1. DOMAIN g = 0..(N + 1) /\ g = [n \in 0..(N + 1) |-> g[n]]
      BY <2>3
    <3> HIDE <2>3
    <3>2. g = [n \in 0..(N + 1) |-> IF n = 0 THEN AtStart ELSE Turn(c, g[n - 1])]
      BY ONLY <2>4, <3>1
    <3> QED BY <3>2 DEF TurnsOf
  <2> QED BY <2>1, <2>5
<1>3. PICK f : TurnsOf(f, c, Len(c))
  <2>1. T \in SUBSET Nat
    OBVIOUS
  <2> HIDE DEF T
  <2>2. T = Nat
    BY <1>1, <1>2, <2>1, EveryNatural
  <2>3. Len(c) \in T
    BY <2>2
  <2> USE DEF T
  <2> QED BY <2>3
<1>4. ParsedAll(c) = (CHOOSE g : TurnsOf(g, c, Len(c)))[Len(c)]
  BY DEF ParsedAll, TurnsOf
<1>5. TurnsOf(CHOOSE g : TurnsOf(g, c, Len(c)), c, Len(c))
  BY <1>3
<1> QED BY <1>4, <1>5
(* When the loop ends all that can be read is.                              *)
LEMMA AllAreServed ==
    ASSUME sent \in Seq(Asked), silent \subseteq 1..Len(sent),
           NEW w \in Seq(CellOf(Len(sent))), Laid(w), NEW c \in Seq(CellOf(Len(sent))), BeginsWith(c, w),
           NEW h, NEW r, Served(w, 1, h, r), NEW t, t = ParsedAll(c)
    PROVE  /\ t \in Loops(Len(c)) /\ Served(w, t.p, h \cup t.tasks, r \o t.answers)
           /\ FindsNothing(w, Len(c), t.p)
<1> DEFINE Good(a, n) == /\ a \in Loops(Len(c)) /\ Served(w, a.p, h \cup a.tasks, r \o a.answers)
                         /\ (n < a.p \/ Parsed(c, a.p).got = "nothing")
<1>1. PICK f : TurnsOf(f, c, Len(c)) /\ t = f[Len(c)]
  <2>1. Len(c) \in Nat
    OBVIOUS
  <2> QED BY <2>1, TurnsExist
<1>2. Len(c) \in Nat /\ Len(w) \in Nat /\ Len(sent) \in Nat /\ r \in Seq((1..Len(sent)) \X Codes)
      /\ h \subseteq 1..Len(sent)
  BY DEF Served
<1>3. f[0] = AtStart /\ \A n \in 0..Len(c) : n # 0 => f[n] = Turn(c, f[n - 1])
  <2>1. 0 \in 0..Len(c)
    BY <1>2
  <2> QED BY <1>1, <2>1 DEF TurnsOf
<1>4. Good(f[0], 0)
  <2>1. h \cup {} = h /\ r \o <<>> = r
    BY <1>2
  <2>2. AtStart \in Loops(Len(c))
    <3>1. 1 \in 1..Len(c) + 1 /\ <<>> \in Seq((1..Len(sent)) \X Codes)
      BY <1>2
    <3> QED BY <3>1 DEF AtStart, Loops
  <2>3. AtStart.p = 1 /\ AtStart.tasks = {} /\ AtStart.answers = <<>> /\ 0 < 1
    BY DEF AtStart
  <2> QED BY <1>3, <2>1, <2>2, <2>3
<1>5. ASSUME NEW n \in Nat, n + 1 <= Len(c), Good(f[n], n) PROVE Good(f[n + 1], n + 1)
  <2>1. PICK at : at = f[n]
    OBVIOUS
  <2>2. PICK u : u = f[n + 1]
    OBVIOUS
  <2>3. u = Turn(c, at)
    <3>1. n + 1 \in 0..Len(c) /\ n + 1 # 0 /\ (n + 1) - 1 = n
      BY <1>2, <1>5
    <3> QED BY <1>3, <2>1, <2>2, <3>1
  <2>4. at \in Loops(Len(c)) /\ Served(w, at.p, h \cup at.tasks, r \o at.answers)
        /\ (n < at.p \/ Parsed(c, at.p).got = "nothing")
    BY <1>5, <2>1
  <2>5. /\ u \in Loops(Len(c)) /\ Served(w, u.p, h \cup u.tasks, r \o u.answers)
        /\ (u = at /\ Parsed(c, at.p).got = "nothing") \/ at.p < u.p
    BY <1>2, <2>3, <2>4, TurnServes
  <2>6. n + 1 < u.p \/ Parsed(c, u.p).got = "nothing"
    <3>1. CASE u = at /\ Parsed(c, at.p).got = "nothing"
      BY <3>1
    <3>2. CASE at.p < u.p /\ n < at.p
      <4>1. at.p \in Nat /\ u.p \in Nat
        BY <1>2, <2>4, <2>5 DEF Loops
      <4> QED BY <3>2, <4>1
    <3>3. CASE at.p < u.p /\ Parsed(c, at.p).got = "nothing"
      <4>1. u = at
        BY <2>3, <3>3 DEF Turn
      <4>2. at.p \in Nat
        BY <1>2, <2>4 DEF Loops
      <4> QED BY <3>3, <4>1, <4>2
    <3> QED BY <2>4, <2>5, <3>1, <3>2, <3>3
  <2> QED BY <2>2, <2>5, <2>6
<1> DEFINE T == {n \in Nat : n <= Len(c) => Good(f[n], n)}
<1> HIDE DEF Good
<1>6. T = Nat
  <2>1. 0 \in T
    BY <1>4
  <2>2. ASSUME NEW n \in T PROVE n + 1 \in T
    <3>1. n \in Nat /\ n + 1 \in Nat /\ (n + 1 <= Len(c) => n <= Len(c))
      BY <1>2
    <3>2. n + 1 <= Len(c) => Good(f[n], n)
      BY <3>1
    <3>3. n + 1 <= Len(c) => Good(f[n + 1], n + 1)
      BY <1>5, <3>1, <3>2
    <3> QED BY <3>1, <3>3
  <2>3. T \in SUBSET Nat
    OBVIOUS
  <2> HIDE DEF T
  <2> QED BY <2>1, <2>2, <2>3, EveryNatural
<1>7. Good(t, Len(c))
  <2>1. Len(c) \in T /\ Len(c) <= Len(c)
    BY <1>2, <1>6
  <2> QED BY <1>1, <2>1
<1>8. t \in Loops(Len(c)) /\ Served(w, t.p, h \cup t.tasks, r \o t.answers)
      /\ (Len(c) < t.p \/ Parsed(c, t.p).got = "nothing")
  BY <1>7 DEF Good
<1>9. FindsNothing(w, Len(c), t.p)
  <2>1. CASE Parsed(c, t.p).got = "nothing"
    <3>1. PICK p, m : p = t.p /\ m = Parsed(c, p)
      OBVIOUS
    <3>2. p \in 1..Len(c) + 1
      BY <1>8, <3>1 DEF Loops
    <3>3. \/ m.got = "nothing" /\ FindsNothing(w, Len(c), p)
          \/ m.got = "error" /\ FindsError(w, Len(c), p, m.i)
          \/ m.got = "request" /\ FindsRequest(w, Len(c), p, m.i, m.next)
      BY <1>2, <3>1, <3>2, ParsedIs
    <3> QED BY <2>1, <3>1, <3>3
  <2>2. CASE Len(c) < t.p
    <3>1. t.p \in Nat
      BY <1>2, <1>8 DEF Loops
    <3> QED BY <1>2, <2>2, <3>1 DEF FindsNothing
  <2> QED BY <1>8, <2>1, <2>2
<1> QED BY <1>8, <1>9

(* v are the cells of w from p on.                                          *)
Remains(v, w, p) == Len(v) = Len(w) - (p - 1) /\ \A j \in 1..Len(v) : v[j] = w[p - 1 + j]
LEMMA RemainsInStep ==
    ASSUME NEW X, NEW w \in Seq(X), NEW v \in Seq(X), NEW p \in 1..Len(w) + 1, Remains(v, w, p)
    PROVE  /\ InStep(v, 1) <=> InStep(w, p)
           /\ \A i : Before(v, 1, i) <=> Before(w, p, i)
           /\ OutOfStep(v, 1) <=> OutOfStep(w, p)
           /\ \A k \in p..Len(w) : k - (p - 1) \in 1..Len(v) /\ v[k - (p - 1)] = w[k]
<1>1. Len(w) \in Nat /\ Len(v) \in Nat /\ p \in Nat \ {0} /\ Len(v) = Len(w) - (p - 1)
      /\ \A j \in 1..Len(v) : v[j] = w[p - 1 + j]
  BY DEF Remains
<1>2. \A j \in 1..Len(v) : p - 1 + j \in p..Len(w)
  BY <1>1
<1>3. \A k \in p..Len(w) : k - (p - 1) \in 1..Len(v) /\ v[k - (p - 1)] = w[k]
  <2>1. ASSUME NEW k \in p..Len(w) PROVE k - (p - 1) \in 1..Len(v) /\ v[k - (p - 1)] = w[k]
    <3>1. k - (p - 1) \in 1..Len(v) /\ p - 1 + (k - (p - 1)) = k
      BY <1>1
    <3> QED BY <1>1, <3>1
  <2> QED BY <2>1
<1>4. \A i : Before(v, 1, i) <=> Before(w, p, i)
  <2>1. ASSUME NEW i, Before(v, 1, i) PROVE Before(w, p, i)
    BY <1>3, <2>1 DEF Before
  <2>2. ASSUME NEW i, Before(w, p, i) PROVE Before(v, 1, i)
    BY <1>1, <1>2, <2>2 DEF Before
  <2> QED BY <2>1, <2>2
<1>5. InStep(v, 1) <=> InStep(w, p)
  <2>1. 1 <= Len(v) <=> p <= Len(w)
    BY <1>1
  <2>2. p <= Len(w) => v[1] = w[p]
    <3>1. p - 1 + 1 = p /\ (p <= Len(w) => 1 \in 1..Len(v))
      BY <1>1
    <3> QED BY <1>1, <3>1
  <2> QED BY <2>1, <2>2 DEF InStep
<1> QED BY <1>3, <1>4, <1>5 DEF OutOfStep

LEMMA RemainsLaid ==
    ASSUME NEW n \in Nat, NEW w \in Seq(CellOf(n)), Laid(w), NEW v \in Seq(CellOf(n)),
           NEW p \in 1..Len(w) + 1, Remains(v, w, p)
    PROVE  Laid(v)
<1>1. Len(w) \in Nat /\ Len(v) \in Nat /\ p \in Nat \ {0} /\ Len(v) = Len(w) - (p - 1)
      /\ \A j \in 1..Len(v) : v[j] = w[p - 1 + j]
  BY DEF Remains
<1>2. SUFFICES ASSUME NEW k \in 1..Len(v)
               PROVE /\ v[k].is = "head" =>
                        /\ k + 1 <= Len(v) /\ v[k + 1].is = "end" /\ v[k + 1].i = v[k].i
                        /\ v[k].n = 1 => k + 2 <= Len(v) /\ v[k + 2].i = v[k].i /\ v[k + 2].is = "body"
                        /\ v[k].n = 1 /\ k + 3 <= Len(v) => v[k + 3].is = "head"
                        /\ v[k].n = 0 /\ k + 2 <= Len(v) => v[k + 2].is = "head"
                     /\ \A j \in 1..Len(v) : j < k /\ v[j].is = "end" /\ v[k].is = "end" => v[j].i < v[k].i
  BY DEF Laid
<1>3. PICK x \in 1..Len(w) : x = p - 1 + k
  BY <1>1
<1>4. v[k] = w[x] /\ k \in Nat /\ x \in Nat
  <2>1. v[k] = w[p - 1 + k]
    BY <1>1
  <2>2. k \in Nat /\ x \in Nat
    BY <1>1, <1>3
  <2> QED BY ONLY <1>3, <2>1, <2>2
<1>5. \A d \in {1, 2, 3} : (k + d <= Len(v) <=> x + d <= Len(w)) /\ (k + d <= Len(v) => v[k + d] = w[x + d])
  <2>1. ASSUME NEW d \in {1, 2, 3}
        PROVE (k + d <= Len(v) <=> x + d <= Len(w)) /\ (k + d <= Len(v) => v[k + d] = w[x + d])
    <3>1. d \in Nat /\ (k + d <= Len(v) <=> x + d <= Len(w)) /\ p - 1 + (k + d) = x + d
      BY <1>1, <1>3, <1>4
    <3>2. k + d <= Len(v) => k + d \in 1..Len(v)
      BY <1>1, <1>4, <3>1
    <3> QED BY <1>1, <3>1, <3>2
  <2> QED BY <2>1
<1>6. v[k].is = "head" =>
        /\ k + 1 <= Len(v) /\ v[k + 1].is = "end" /\ v[k + 1].i = v[k].i
        /\ v[k].n = 1 => k + 2 <= Len(v) /\ v[k + 2].i = v[k].i /\ v[k + 2].is = "body"
        /\ v[k].n = 1 /\ k + 3 <= Len(v) => v[k + 3].is = "head"
        /\ v[k].n = 0 /\ k + 2 <= Len(v) => v[k + 2].is = "head"
  <2>1. w[x].is = "head" =>
        /\ x + 1 <= Len(w) /\ w[x + 1].is = "end" /\ w[x + 1].i = w[x].i
        /\ w[x].n = 1 => x + 2 <= Len(w) /\ w[x + 2].i = w[x].i /\ w[x + 2].is = "body"
        /\ w[x].n = 1 /\ x + 3 <= Len(w) => w[x + 3].is = "head"
        /\ w[x].n = 0 /\ x + 2 <= Len(w) => w[x + 2].is = "head"
    BY DEF Laid
  <2>2. (k + 1 <= Len(v) <=> x + 1 <= Len(w)) /\ (k + 1 <= Len(v) => v[k + 1] = w[x + 1])
        /\ (k + 2 <= Len(v) <=> x + 2 <= Len(w)) /\ (k + 2 <= Len(v) => v[k + 2] = w[x + 2])
        /\ (k + 3 <= Len(v) <=> x + 3 <= Len(w)) /\ (k + 3 <= Len(v) => v[k + 3] = w[x + 3])
    BY <1>5
  <2> QED BY ONLY <1>4, <2>1, <2>2
<1>7. ASSUME NEW j \in 1..Len(v), j < k, v[j].is = "end", v[k].is = "end" PROVE v[j].i < v[k].i
  <2>1. p - 1 + j \in 1..Len(w) /\ p - 1 + j < x /\ v[j] = w[p - 1 + j]
    BY <1>1, <1>3, <1>4, <1>7
  <2>2. \A y, z \in 1..Len(w) : y < z /\ w[y].is = "end" /\ w[z].is = "end" => w[y].i < w[z].i
    BY DEF Laid
  <2> QED BY ONLY <1>3, <1>4, <1>7, <2>1, <2>2
<1> QED BY <1>6, <1>7

(* What is served stays so with the cells that are left.                    *)
LEMMA RemainsServed ==
    ASSUME sent \in Seq(Asked), NEW w \in Seq(CellOf(Len(sent))), NEW v \in Seq(CellOf(Len(sent))),
           NEW p, NEW h, NEW r, Served(w, p, h, r), Remains(v, w, p)
    PROVE  Served(v, 1, h, r)
<1>1. p \in 1..Len(w) + 1 /\ Len(v) \in Nat
  BY DEF Served
<1>2. /\ InStep(v, 1) <=> InStep(w, p)
      /\ \A i : Before(v, 1, i) <=> Before(w, p, i)
      /\ OutOfStep(v, 1) <=> OutOfStep(w, p)
      /\ \A k \in p..Len(w) : k - (p - 1) \in 1..Len(v) /\ v[k - (p - 1)] = w[k]
  BY <1>1, RemainsInStep
<1>3. 1 \in 1..Len(v) + 1
  BY <1>1
<1>4. \A i \in 1..Len(sent) :
          i \in AnsweredIn(r) \cup h \cup silent \/ BadBefore(i)
            \/ \E k \in 1..Len(v) : v[k].is = "end" /\ v[k].i = i
  <2>1. ASSUME NEW i \in 1..Len(sent), NEW k \in p..Len(w), w[k].is = "end", w[k].i = i
        PROVE  \E j \in 1..Len(v) : v[j].is = "end" /\ v[j].i = i
    <3>1. k - (p - 1) \in 1..Len(v) /\ v[k - (p - 1)] = w[k]
      BY <1>2
    <3> QED BY <2>1, <3>1
  <2>2. \A i \in 1..Len(sent) :
          i \in AnsweredIn(r) \cup h \cup silent \/ BadBefore(i)
            \/ \E k \in p..Len(w) : w[k].is = "end" /\ w[k].i = i
    BY DEF Served
  <2> QED BY <2>1, <2>2
<1> QED BY <1>2, <1>3, <1>4 DEF Served
(* With the same requests and the same that are silent, it is the same.     *)
LEMMA ServedNext ==
    ASSUME NEW v, NEW H, NEW R, Served(v, 1, H, R), sent' = sent, silent' = silent,
           Buffered' = v, handling' = H, responses' = R
    PROVE  Served(Buffered, 1, handling, responses)'
BY DEF Served, OutOfStep, BadBefore, Expected

LEMMA HttpStutters == ASSUME HttpInv, UNCHANGED httpServerVars PROVE HttpInv'
<1>1. PICK v, H, R : v = Buffered /\ H = handling /\ R = responses
  OBVIOUS
<1>2. sent' = sent /\ silent' = silent /\ onWire' = onWire /\ received' = received /\ Buffered' = v
      /\ handling' = H /\ responses' = R
  BY <1>1 DEF httpServerVars, Buffered
<1>3. Served(v, 1, H, R)
  BY <1>1 DEF HttpInv
<1>4. Served(Buffered, 1, handling, responses)'
  BY ONLY <1>2, <1>3, ServedNext
<1>5. AwaitsMore'
  BY <1>1, <1>2 DEF HttpInv, AwaitsMore, OutOfStep
<1> QED BY <1>1, <1>2, <1>4, <1>5 DEF HttpInv

LEMMA HttpInitHolds == ASSUME HttpServerInit PROVE HttpInv
<1>1. sent = <<>> /\ onWire = <<>> /\ received = <<>> /\ handling = {} /\ silent = {} /\ responses = <<>>
  BY DEF HttpServerInit
<1>2. Len(sent) = 0 /\ Len(responses) = 0 /\ sent \in Seq(Asked) /\ responses \in Seq((1..0) \X Codes)
  BY <1>1
<1>3. received \in Seq(CellOf(0)) /\ onWire \in Seq(CellOf(0)) /\ Buffered = <<>> /\ Len(Buffered) = 0
  BY <1>1 DEF Buffered
<1>4. 1..0 = {} /\ 1 \in 1..0 + 1 /\ ~ (1 <= 0)
  OBVIOUS
<1>5. Laid(Buffered)
  BY <1>3, <1>4 DEF Laid
<1>6. AnsweredIn(responses) = {}
  BY <1>2, <1>4 DEF AnsweredIn
<1>7. Served(Buffered, 1, handling, responses)
  BY <1>1, <1>2, <1>3, <1>4, <1>6 DEF Served, InStep
<1>8. AwaitsMore
  BY <1>1 DEF AwaitsMore
<1> QED BY <1>1, <1>2, <1>3, <1>5, <1>7, <1>8 DEF HttpInv

LEMMA JoinedIs ==
    ASSUME NEW X, NEW a \in Seq(X), NEW b \in Seq(X)
    PROVE  /\ a \o b \in Seq(X) /\ Len(a \o b) = Len(a) + Len(b)
           /\ \A j \in 1..Len(a) + Len(b) : (a \o b)[j] = IF j <= Len(a) THEN a[j] ELSE b[j - Len(a)]
OBVIOUS

LEMMA FromIs ==
    ASSUME NEW X, NEW b \in Seq(X), NEW q \in 1..Len(b) + 1, NEW y, y = SubSeq(b, q, Len(b))
    PROVE  y \in Seq(X) /\ Len(y) = Len(b) - q + 1 /\ \A j \in 1..Len(y) : y[j] = b[q + j - 1]
OBVIOUS

(* The server takes k cells of b behind those of a, and reads those before p: *)
(* x and y are left.                                                        *)
Cut(a, b, k, c, p, x, y) ==
    /\ k \in 1..Len(b) /\ c = a \o SubSeq(b, 1, k) /\ p \in 1..Len(c) + 1
    /\ x = SubSeq(c, p, Len(c)) /\ y = SubSeq(b, k + 1, Len(b))
IsLeft(X, a, b, c, p, x, y) ==
    /\ c \in Seq(X) /\ BeginsWith(c, a \o b) /\ x \in Seq(X) /\ y \in Seq(X) /\ a \o b \in Seq(X)
      /\ x \o y \in Seq(X)
    /\ Remains(x \o y, a \o b, p) /\ p \in 1..Len(a \o b) + 1
    /\ Len(x) = Len(c) - (p - 1) /\ (Len(x) > 0 => x[1] = (a \o b)[p])
LEMMA PieceIs ==
    ASSUME NEW X, NEW a \in Seq(X), NEW b \in Seq(X), NEW k, NEW c, NEW p, NEW x, NEW y,
           Cut(a, b, k, c, p, x, y)
    PROVE  IsLeft(X, a, b, c, p, x, y)
<1>d. /\ k \in 1..Len(b) /\ c = a \o SubSeq(b, 1, k) /\ p \in 1..Len(c) + 1
      /\ x = SubSeq(c, p, Len(c)) /\ y = SubSeq(b, k + 1, Len(b))
  BY DEF Cut
<1>1. Len(a) \in Nat /\ Len(b) \in Nat /\ k \in Nat /\ k <= Len(b) /\ 1 <= k
  BY <1>d
<1>2. SubSeq(b, 1, k) \in Seq(X) /\ Len(SubSeq(b, 1, k)) = k /\ \A j \in 1..k : SubSeq(b, 1, k)[j] = b[j]
  BY <1>1
<1>3. c \in Seq(X) /\ Len(c) = Len(a) + k
      /\ \A j \in 1..Len(c) : c[j] = IF j <= Len(a) THEN a[j] ELSE b[j - Len(a)]
  <2>1. c \in Seq(X) /\ Len(c) = Len(a) + k
    BY <1>1, <1>2, <1>d
  <2>2. ASSUME NEW j \in 1..Len(c) PROVE c[j] = IF j <= Len(a) THEN a[j] ELSE b[j - Len(a)]
    <3>1. c[j] = IF j <= Len(a) THEN a[j] ELSE SubSeq(b, 1, k)[j - Len(a)]
      BY <1>1, <1>2, <1>d, <2>1
    <3>2. ~ (j <= Len(a)) => j - Len(a) \in 1..k
      BY <1>1, <2>1
    <3> QED BY <1>2, <3>1, <3>2
  <2> QED BY <2>1, <2>2
<1>4. a \o b \in Seq(X) /\ Len(a \o b) = Len(a) + Len(b)
      /\ \A j \in 1..Len(a) + Len(b) : (a \o b)[j] = IF j <= Len(a) THEN a[j] ELSE b[j - Len(a)]
  BY <1>1
<1>5. p \in Nat /\ p <= Len(a) + k + 1 /\ 1 <= p
  BY <1>1, <1>3, <1>d
<1>6. x \in Seq(X) /\ Len(x) = Len(a) + k - (p - 1) /\ \A j \in 1..Len(x) : x[j] = c[p - 1 + j]
  <2>1. x = SubSeq(c, p, Len(c)) /\ p \in 1..Len(c) + 1 /\ Len(c) \in Nat
    BY <1>1, <1>3, <1>d
  <2>2. x \in Seq(X) /\ Len(x) = Len(c) - p + 1 /\ \A j \in 1..Len(x) : x[j] = c[p + j - 1]
    BY <1>3, <2>1
  <2>3. \A j \in 1..Len(x) : p + j - 1 = p - 1 + j
    BY <1>5, <2>2
  <2> QED BY <1>1, <1>3, <1>5, <2>2, <2>3
<1>7. y \in Seq(X) /\ Len(y) = Len(b) - k /\ \A j \in 1..Len(y) : y[j] = b[k + j]
  <2>1. PICK q : q = k + 1
    OBVIOUS
  <2>2. y = SubSeq(b, q, Len(b)) /\ q \in 1..Len(b) + 1 /\ Len(b) \in Nat /\ b \in Seq(X)
    BY <1>1, <1>d, <2>1
  <2>3. y \in Seq(X) /\ Len(y) = Len(b) - q + 1 /\ \A j \in 1..Len(y) : y[j] = b[q + j - 1]
    BY ONLY <2>2, FromIs
  <2>4. \A j \in 1..Len(y) : q + j - 1 = k + j
    BY ONLY <1>1, <2>1, <2>3
  <2> QED BY ONLY <1>1, <2>1, <2>3, <2>4
<1>l. Len(x) \in Nat /\ Len(y) \in Nat /\ Len(x) = Len(a) + k - (p - 1) /\ Len(y) = Len(b) - k
      /\ Len(a \o b) = Len(a) + Len(b) /\ Len(c) = Len(a) + k /\ p \in Nat /\ p <= Len(a) + k + 1 /\ 1 <= p
      /\ Len(a) \in Nat /\ Len(b) \in Nat /\ k \in Nat /\ k <= Len(b) /\ 1 <= k
  BY <1>1, <1>3, <1>4, <1>5, <1>6, <1>7
<1>8. x \o y \in Seq(X) /\ Len(x \o y) = Len(x) + Len(y)
      /\ \A j \in 1..Len(x) + Len(y) : (x \o y)[j] = IF j <= Len(x) THEN x[j] ELSE y[j - Len(x)]
  BY ONLY <1>6, <1>7, JoinedIs
<1>9. BeginsWith(c, a \o b)
  BY <1>1, <1>3, <1>4 DEF BeginsWith
<1>10. ASSUME NEW j \in 1..Len(x) + Len(y) PROVE (x \o y)[j] = (a \o b)[p - 1 + j]
  <2>1. p - 1 + j \in 1..Len(a) + Len(b) /\ j \in Nat /\ Len(x) \in Nat
    BY ONLY <1>l, <1>10
  <2>2. CASE j <= Len(x)
    <3>1. (x \o y)[j] = x[j] /\ x[j] = c[p - 1 + j] /\ p - 1 + j \in 1..Len(c)
      BY ONLY <1>l, <1>6, <1>8, <1>10, <2>1, <2>2
    <3> QED BY <1>3, <1>4, <2>1, <3>1
  <2>3. CASE ~ (j <= Len(x))
    <3>1. (x \o y)[j] = y[j - Len(x)] /\ j - Len(x) \in 1..Len(y)
      BY ONLY <1>l, <1>8, <1>10, <2>1, <2>3
    <3>2. y[j - Len(x)] = b[k + (j - Len(x))]
      BY <1>7, <3>1
    <3>3. p - 1 + j - Len(a) = k + (j - Len(x)) /\ ~ (p - 1 + j <= Len(a))
      BY ONLY <1>l, <2>1, <2>3
    <3>4. (a \o b)[p - 1 + j] = b[p - 1 + j - Len(a)]
      <4>1. PICK z : z = p - 1 + j
        OBVIOUS
      <4>2. z \in 1..Len(a) + Len(b) /\ ~ (z <= Len(a))
        BY <2>1, <3>3, <4>1
      <4>3. (a \o b)[z] = b[z - Len(a)]
        BY ONLY <1>4, <4>2
      <4>4. z - Len(a) = p - 1 + j - Len(a)
        BY <1>1, <1>5, <2>1, <4>1
      <4> QED BY ONLY <4>1, <4>3, <4>4, Zenon
    <3> QED BY <3>1, <3>2, <3>3, <3>4
  <2> QED BY <2>2, <2>3
<1>11. Remains(x \o y, a \o b, p)
  <2>1. Len(x \o y) = Len(x) + Len(y)
    BY <1>8
  <2>2. Len(x) + Len(y) = Len(a \o b) - (p - 1)
    BY ONLY <1>l
  <2> QED BY ONLY <1>10, <2>1, <2>2 DEF Remains
<1>12. Len(x) > 0 => x[1] = (a \o b)[p]
  <2>1. Len(x) > 0 => 1 \in 1..Len(x) /\ 1 \in 1..Len(x) + Len(y) /\ 1 <= Len(x)
    BY ONLY <1>l
  <2>2. p - 1 + 1 = p
    BY <1>5
  <2> QED BY <1>8, <1>10, <2>1, <2>2
<1>13. p \in 1..Len(a \o b) + 1 /\ Len(x) = Len(c) - (p - 1)
  BY ONLY <1>l
<1> QED BY <1>3, <1>4, <1>6, <1>7, <1>8, <1>9, <1>11, <1>12, <1>13 DEF IsLeft
(* The cells of request i.                                                  *)
IsMessage(m, i, body) ==
    /\ m \in Seq(CellOf(i)) /\ Len(m) = 2 + body /\ \A j \in 1..Len(m) : m[j].i = i
    /\ m[1].is = "head" /\ m[1].n = body /\ m[2].is = "end" /\ (body = 1 => m[3].is = "body")
LEMMA MessageIs ==
    ASSUME NEW n \in Nat, NEW body \in 0..1
    PROVE  IsMessage(MessageCells(n + 1, body), n + 1, body)
<1>m. PICK m : m = MessageCells(n + 1, body)
  OBVIOUS
<1>1. PICK a, b, c : /\ a = HttpCell(n + 1, "head", body) /\ b = HttpCell(n + 1, "end", 0)
        /\ c = HttpCell(n + 1, "body", 1)
  OBVIOUS
<1>2. a \in CellOf(n + 1) /\ b \in CellOf(n + 1) /\ c \in CellOf(n + 1)
  <2>1. n + 1 \in 1..n + 1 /\ 0 \in 0..1 /\ 1 \in 0..1
    OBVIOUS
  <2> QED BY <1>1, <2>1 DEF HttpCell, CellOf
<1>3. /\ a.i = n + 1 /\ b.i = n + 1 /\ c.i = n + 1 /\ a.is = "head" /\ a.n = body /\ b.is = "end"
        /\ c.is = "body"
  BY <1>1 DEF HttpCell
<1>4. CASE body = 0
  <2>1. [k \in 1..body |-> HttpCell(n + 1, "body", k)] = <<>>
    <3>1. 1..body = {}
      BY <1>4
    <3> QED BY <3>1
  <2>2. m = <<a, b>>
    <3>1. m = <<a, b>> \o <<>>
      BY <1>m, <1>1, <2>1 DEF MessageCells
    <3> QED BY <3>1
  <2>3. Len(m) = 2 /\ m[1] = a /\ m[2] = b
    BY <2>2
  <2>4. m \in Seq(CellOf(n + 1))
    <3>1. PICK X : X = CellOf(n + 1)
      OBVIOUS
    <3>2. a \in X /\ b \in X
      BY <1>2, <3>1
    <3>3. <<a, b>> \in Seq(X)
      BY ONLY <3>2
    <3> QED BY <2>2, <3>1, <3>3
  <2> QED BY <1>m, <1>3, <1>4, <2>3, <2>4 DEF IsMessage
<1>5. CASE body = 1
  <2>1. [k \in 1..body |-> HttpCell(n + 1, "body", k)] = <<c>>
    <3>1. 1..body = {1} /\ \A k \in {1} : k = 1
      BY <1>5
    <3>2. [k \in 1..body |-> HttpCell(n + 1, "body", k)] = [k \in 1..1 |-> c]
      BY <1>1, <1>5, <3>1
    <3> QED BY <3>2
  <2>2. m = <<a, b>> \o <<c>>
    BY <1>m, <1>1, <2>1 DEF MessageCells
  <2>3. PICK X, s, t : X = CellOf(n + 1) /\ s = <<a, b>> /\ t = <<c>>
    OBVIOUS
  <2>4. s \in Seq(X) /\ t \in Seq(X) /\ Len(s) = 2 /\ Len(t) = 1 /\ s[1] = a /\ s[2] = b /\ t[1] = c
          /\ m = s \o t
    <3>1. a \in X /\ b \in X /\ c \in X
      BY <1>2, <2>3
    <3>2. <<a, b>> \in Seq(X) /\ <<c>> \in Seq(X)
      BY ONLY <3>1
    <3> QED BY <2>2, <2>3, <3>2
  <2>5. s \o t \in Seq(X) /\ Len(s \o t) = Len(s) + Len(t)
        /\ \A j \in 1..Len(s) + Len(t) : (s \o t)[j] = IF j <= Len(s) THEN s[j] ELSE t[j - Len(s)]
    BY ONLY <2>4, JoinedIs
  <2>6. m \in Seq(X) /\ Len(m) = 3 /\ m[1] = a /\ m[2] = b /\ m[3] = c
    BY ONLY <2>4, <2>5
  <2>7. \A j \in 1..Len(m) : m[j].i = n + 1
    <3>1. 1..Len(m) = {1, 2, 3}
      BY <2>6
    <3> QED BY <1>3, <2>6, <3>1
  <2> QED BY <1>m, <1>3, <1>5, <2>3, <2>6, <2>7 DEF IsMessage
<1> QED BY <1>4, <1>5

(* A request is behind those that are there.                                *)
IsBehind(v, w, i, body) ==
    /\ Laid(v) /\ Len(v) = Len(w) + 2 + body /\ \A k \in 1..Len(w) : v[k] = w[k]
    /\ v[Len(w) + 1].is = "head" /\ v[Len(w) + 1].i = i /\ v[Len(w) + 1].n = body
    /\ \A k \in 1..Len(v) : v[k].is = "end" /\ ~ (k <= Len(w)) => k = Len(w) + 2
    /\ v[Len(w) + 2].is = "end" /\ v[Len(w) + 2].i = i
LEMMA MoreIsLaid ==
    ASSUME NEW n \in Nat, NEW w \in Seq(CellOf(n)), Laid(w), NEW body \in 0..1
    PROVE  IsBehind(w \o MessageCells(n + 1, body), w, n + 1, body)
<1>m. PICK m, v : m = MessageCells(n + 1, body) /\ v = w \o m
  OBVIOUS
<1>1. /\ m \in Seq(CellOf(n + 1)) /\ Len(m) = 2 + body /\ \A j \in 1..Len(m) : m[j].i = n + 1
      /\ m[1].is = "head" /\ m[1].n = body /\ m[2].is = "end" /\ (body = 1 => m[3].is = "body")
  <2>1. IsMessage(m, n + 1, body)
    BY <1>m, MessageIs
  <2> QED BY <2>1 DEF IsMessage
<1>2. Len(w) \in Nat /\ w \in Seq(CellOf(n + 1)) /\ \A k \in 1..Len(w) : w[k] \in CellOf(n)
  <2>1. CellOf(n) \subseteq CellOf(n + 1)
    BY DEF CellOf
  <2> QED BY <2>1
<1>3. Len(v) = Len(w) + Len(m)
      /\ \A k \in 1..Len(w) + Len(m) : v[k] = IF k <= Len(w) THEN w[k] ELSE m[k - Len(w)]
  BY <1>m, <1>1, <1>2, JoinedIs
<1>4. PICK L : L = Len(w)
  OBVIOUS
<1>5. L \in Nat /\ Len(v) = L + 2 + body /\ \A k \in 1..L : v[k] = w[k]
  BY <1>1, <1>2, <1>3, <1>4
<1>6. /\ v[L + 1] = m[1] /\ v[L + 2] = m[2] /\ (body = 1 => v[L + 3] = m[3])
  <2>1. L + 1 \in 1..Len(w) + Len(m) /\ L + 2 \in 1..Len(w) + Len(m)
          /\ (body = 1 => L + 3 \in 1..Len(w) + Len(m))
    BY <1>1, <1>4, <1>5
  <2>2. ~ (L + 1 <= Len(w)) /\ ~ (L + 2 <= Len(w)) /\ ~ (L + 3 <= Len(w))
    BY <1>4, <1>5
  <2>3. (L + 1) - Len(w) = 1 /\ (L + 2) - Len(w) = 2 /\ (L + 3) - Len(w) = 3
    BY <1>4, <1>5
  <2>4. \A k \in 1..Len(w) + Len(m) : ~ (k <= Len(w)) => v[k] = m[k - Len(w)]
    BY <1>3
  <2>5. v[L + 1] = m[(L + 1) - Len(w)] /\ v[L + 2] = m[(L + 2) - Len(w)]
          /\ (body = 1 => v[L + 3] = m[(L + 3) - Len(w)])
    <3>1. v[L + 1] = m[(L + 1) - Len(w)]
      BY ONLY <2>1, <2>2, <2>4
    <3>2. v[L + 2] = m[(L + 2) - Len(w)]
      BY ONLY <2>1, <2>2, <2>4
    <3>3. ASSUME body = 1 PROVE v[L + 3] = m[(L + 3) - Len(w)]
      <4>1. L + 3 \in 1..Len(w) + Len(m) /\ ~ (L + 3 <= Len(w))
        BY <2>1, <2>2, <3>3
      <4> QED BY ONLY <2>4, <4>1
    <3> QED BY <3>1, <3>2, <3>3
  <2> QED BY ONLY <2>3, <2>5
<1>7. /\ v[L + 1].is = "head" /\ v[L + 1].i = n + 1 /\ v[L + 1].n = body
      /\ v[L + 2].is = "end" /\ v[L + 2].i = n + 1
      /\ (body = 1 => v[L + 3].is = "body" /\ v[L + 3].i = n + 1)
  <2>1. 1 \in 1..Len(m) /\ 2 \in 1..Len(m) /\ (body = 1 => 3 \in 1..Len(m))
    BY <1>1
  <2> QED BY <1>1, <1>6, <2>1
<1>8. \A k \in 1..Len(v) : k \in 1..L \/ k = L + 1 \/ k = L + 2 \/ (k = L + 3 /\ body = 1)
  BY <1>5
<1>9. \A k \in 1..Len(v) : v[k].is = "end" /\ ~ (k <= L) => k = L + 2
  BY <1>7, <1>8
<1>10. ASSUME NEW k \in 1..Len(v)
       PROVE  v[k].is = "head" =>
                /\ k + 1 <= Len(v) /\ v[k + 1].is = "end" /\ v[k + 1].i = v[k].i
                /\ v[k].n = 1 => k + 2 <= Len(v) /\ v[k + 2].i = v[k].i /\ v[k + 2].is = "body"
                /\ v[k].n = 1 /\ k + 3 <= Len(v) => v[k + 3].is = "head"
                /\ v[k].n = 0 /\ k + 2 <= Len(v) => v[k + 2].is = "head"
  <2>1. CASE k \in 1..L
    <3>1. w[k].is = "head" =>
            /\ k + 1 <= L /\ w[k + 1].is = "end" /\ w[k + 1].i = w[k].i
            /\ w[k].n = 1 => k + 2 <= L /\ w[k + 2].i = w[k].i /\ w[k + 2].is = "body"
            /\ w[k].n = 1 /\ k + 3 <= L => w[k + 3].is = "head"
            /\ w[k].n = 0 /\ k + 2 <= L => w[k + 2].is = "head"
      BY <1>4, <2>1 DEF Laid
    <3>2. SUFFICES ASSUME v[k].is = "head"
                   PROVE  /\ k + 1 <= Len(v) /\ v[k + 1].is = "end" /\ v[k + 1].i = v[k].i
                          /\ v[k].n = 1 => k + 2 <= Len(v) /\ v[k + 2].i = v[k].i /\ v[k + 2].is = "body"
                          /\ v[k].n = 1 /\ k + 3 <= Len(v) => v[k + 3].is = "head"
                          /\ v[k].n = 0 /\ k + 2 <= Len(v) => v[k + 2].is = "head"
      OBVIOUS
    <3>3. v[k] = w[k] /\ w[k].is = "head" /\ k \in Nat
      BY <1>5, <2>1, <3>2
    <3>4. k + 1 <= Len(v) /\ v[k + 1].is = "end" /\ v[k + 1].i = v[k].i
      <4>1. k + 1 \in 1..L /\ k + 1 <= Len(v)
        BY <1>5, <3>1, <3>3
      <4> QED BY <1>5, <3>1, <3>3, <4>1
    <3>5. ASSUME v[k].n = 1 PROVE k + 2 <= Len(v) /\ v[k + 2].i = v[k].i /\ v[k + 2].is = "body"
      <4>1. k + 2 \in 1..L /\ k + 2 <= Len(v)
        BY <1>5, <3>1, <3>3, <3>5
      <4> QED BY <1>5, <3>1, <3>3, <3>5, <4>1
    <3>6. ASSUME v[k].n = 1, k + 3 <= Len(v) PROVE v[k + 3].is = "head"
      <4>1. k + 2 <= L
        BY <3>1, <3>3, <3>6
      <4>2. CASE k + 3 <= L
        <5>1. k + 3 \in 1..L
          BY <1>5, <3>3, <4>2
        <5> QED BY <1>5, <3>1, <3>3, <3>6, <4>2, <5>1
      <4>3. CASE ~ (k + 3 <= L)
        <5>1. k + 3 = L + 1
          BY <1>5, <3>3, <4>1, <4>3
        <5> QED BY <1>7, <5>1
      <4> QED BY <4>2, <4>3
    <3>7. ASSUME v[k].n = 0, k + 2 <= Len(v) PROVE v[k + 2].is = "head"
      <4>1. k + 1 <= L
        BY <3>1, <3>3
      <4>2. CASE k + 2 <= L
        <5>1. k + 2 \in 1..L
          BY <1>5, <3>3, <4>2
        <5> QED BY <1>5, <3>1, <3>3, <3>7, <4>2, <5>1
      <4>3. CASE ~ (k + 2 <= L)
        <5>1. k + 2 = L + 1
          BY <1>5, <3>3, <4>1, <4>3
        <5> QED BY <1>7, <5>1
      <4> QED BY <4>2, <4>3
    <3> QED BY <3>4, <3>5, <3>6, <3>7
  <2>2. CASE k = L + 1
    <3>1. k + 1 = L + 2 /\ k + 2 = L + 3 /\ k + 3 = L + 4 /\ k + 1 <= Len(v) /\ ~ (k + 3 <= Len(v))
          /\ (body = 1 <=> k + 2 <= Len(v))
      BY <1>5, <2>2
    <3> QED BY ONLY <1>7, <2>2, <3>1
  <2>3. CASE k = L + 2 \/ (k = L + 3 /\ body = 1)
    BY <1>7, <2>3
  <2> QED BY <1>8, <2>1, <2>2, <2>3
<1>11. ASSUME NEW k \in 1..Len(v), NEW j \in 1..Len(v), j < k, v[j].is = "end", v[k].is = "end"
       PROVE v[j].i < v[k].i
  <2>1. CASE k <= L
    <3>1. k \in 1..L /\ j \in 1..L
      BY <1>5, <1>11, <2>1
    <3>2. v[k] = w[k] /\ v[j] = w[j]
      BY <1>5, <3>1
    <3>3. \A y, z \in 1..Len(w) : y < z /\ w[y].is = "end" /\ w[z].is = "end" => w[y].i < w[z].i
      BY DEF Laid
    <3> QED BY ONLY <1>4, <1>11, <3>1, <3>2, <3>3
  <2>2. CASE ~ (k <= L)
    <3>1. k = L + 2
      BY <1>9, <1>11, <2>2
    <3>2. j \in 1..L
      <4>1. j # L + 1
        BY <1>7, <1>11
      <4> QED BY <1>5, <1>8, <1>11, <3>1, <4>1
    <3>3. v[j] = w[j] /\ w[j] \in CellOf(n)
      BY <1>2, <1>4, <1>5, <3>2
    <3>4. w[j].i \in 1..n
      BY <3>3 DEF CellOf
    <3>5. v[k].i = n + 1
      BY <1>7, <3>1
    <3> QED BY <3>3, <3>4, <3>5
  <2> QED BY <2>1, <2>2
<1>12. Laid(v)
  <2>1. \A k \in 1..Len(v) : \A j \in 1..Len(v) : j < k /\ v[j].is = "end" /\ v[k].is = "end" => v[j].i < v[k].i
    BY <1>11
  <2> QED BY ONLY <1>10, <2>1 DEF Laid
<1> QED BY <1>m, <1>4, <1>5, <1>7, <1>9, <1>12 DEF IsBehind

LEMMA JoinsJoin == ASSUME NEW X, NEW a \in Seq(X), NEW b \in Seq(X), NEW c \in Seq(X)
PROVE a \o (b \o c) = (a \o b) \o c
OBVIOUS
(* Each step of the connection keeps the invariant.                         *)
LEMMA HttpReceives == ASSUME HttpInv, ServerReceives PROVE HttpInv'
<1>1. PICK k \in 1..Len(onWire) :
        LET cells == received \o SubSeq(onWire, 1, k)
            done == ParsedAll(cells)
        IN  /\ onWire' = SubSeq(onWire, k + 1, Len(onWire))
            /\ received' = SubSeq(cells, done.p, Len(cells))
            /\ handling' = handling \cup done.tasks
            /\ responses' = responses \o done.answers
  BY DEF ServerReceives
<1>2. PICK a, b, w, X : a = received /\ b = onWire /\ w = Buffered /\ X = CellOf(Len(sent))
  OBVIOUS
<1>3. PICK h, r : h = handling /\ r = responses
  OBVIOUS
<1>4. PICK c : c = a \o SubSeq(b, 1, k)
  OBVIOUS
<1>5. PICK t : t = ParsedAll(c)
  OBVIOUS
<1>6. PICK x, y, H, R : /\ x = SubSeq(c, t.p, Len(c)) /\ y = SubSeq(b, k + 1, Len(b))
                        /\ H = h \cup t.tasks /\ R = r \o t.answers
  OBVIOUS
<1>7. sent' = sent /\ silent' = silent /\ onWire' = y /\ received' = x /\ handling' = H /\ responses' = R
  BY <1>1, <1>2, <1>3, <1>4, <1>5, <1>6 DEF ServerReceives
<1>8. /\ sent \in Seq(Asked) /\ silent \subseteq 1..Len(sent) /\ Len(sent) \in Nat
      /\ a \in Seq(X) /\ b \in Seq(X) /\ w = a \o b /\ Laid(w) /\ Served(w, 1, h, r) /\ k \in 1..Len(b)
  BY <1>2, <1>3 DEF HttpInv, Buffered
<1>9. SubSeq(b, 1, k) \in Seq(X)
  BY <1>8
<1>10. c \in Seq(X) /\ w \in Seq(X) /\ BeginsWith(c, w)
  <2>1. c \in Seq(X) /\ w \in Seq(X)
    BY <1>4, <1>8, <1>9
  <2>2. PICK p, e : p = 1 /\ e = SubSeq(c, p, Len(c))
    OBVIOUS
  <2>3. p \in 1..Len(c) + 1
    <3>1. Len(c) \in Nat
      BY <2>1
    <3> QED BY <2>2, <3>1
  <2>4. /\ c \in Seq(X) /\ BeginsWith(c, a \o b) /\ e \in Seq(X) /\ y \in Seq(X) /\ a \o b \in Seq(X)
          /\ e \o y \in Seq(X)
        /\ Remains(e \o y, a \o b, p) /\ p \in 1..Len(a \o b) + 1
        /\ Len(e) = Len(c) - (p - 1) /\ (Len(e) > 0 => e[1] = (a \o b)[p])
    <3>1. a \in Seq(X) /\ b \in Seq(X) /\ Cut(a, b, k, c, p, e, y)
      BY <1>4, <1>6, <1>8, <2>2, <2>3 DEF Cut
    <3>2. IsLeft(X, a, b, c, p, e, y)
      BY ONLY <3>1, PieceIs
    <3> QED BY <3>2 DEF IsLeft
  <2> QED BY <1>8, <2>1, <2>4
<1>11. /\ t \in Loops(Len(c)) /\ Served(w, t.p, h \cup t.tasks, r \o t.answers)
       /\ FindsNothing(w, Len(c), t.p)
  <2>1. w \in Seq(CellOf(Len(sent))) /\ c \in Seq(CellOf(Len(sent)))
    BY <1>2, <1>10
  <2> QED BY <1>5, <1>8, <1>10, <2>1, AllAreServed
<1>12. PICK p : p = t.p
  OBVIOUS
<1>13. p \in 1..Len(c) + 1 /\ Served(w, p, H, R) /\ FindsNothing(w, Len(c), p)
  BY <1>6, <1>11, <1>12 DEF Loops
<1>14. PICK v : v = x \o y
  OBVIOUS
<1>15. /\ x \in Seq(X) /\ y \in Seq(X) /\ v \in Seq(X) /\ Remains(v, w, p) /\ p \in 1..Len(w) + 1
       /\ Len(x) = Len(c) - (p - 1) /\ (Len(x) > 0 => x[1] = w[p])
  <2>1. x = SubSeq(c, p, Len(c)) /\ y = SubSeq(b, k + 1, Len(b))
    BY <1>6, <1>12
  <2>2. /\ c \in Seq(X) /\ BeginsWith(c, a \o b) /\ x \in Seq(X) /\ y \in Seq(X) /\ a \o b \in Seq(X)
          /\ x \o y \in Seq(X)
        /\ Remains(x \o y, a \o b, p) /\ p \in 1..Len(a \o b) + 1
        /\ Len(x) = Len(c) - (p - 1) /\ (Len(x) > 0 => x[1] = (a \o b)[p])
    <3>1. a \in Seq(X) /\ b \in Seq(X) /\ Cut(a, b, k, c, p, x, y)
      BY <1>4, <1>8, <1>13, <2>1 DEF Cut
    <3>2. IsLeft(X, a, b, c, p, x, y)
      BY ONLY <3>1, PieceIs
    <3> QED BY <3>2 DEF IsLeft
  <2> QED BY <1>8, <1>14, <2>2
<1>16. Laid(v)
  <2>1. w \in Seq(CellOf(Len(sent))) /\ v \in Seq(CellOf(Len(sent)))
    BY <1>2, <1>10, <1>15
  <2> QED BY <1>8, <1>15, <2>1, RemainsLaid
<1>17. Served(v, 1, H, R)
  <2>1. w \in Seq(CellOf(Len(sent))) /\ v \in Seq(CellOf(Len(sent)))
    BY <1>2, <1>10, <1>15
  <2> QED BY <1>8, <1>13, <1>15, <2>1, RemainsServed
<1>18. Buffered' = v
  BY <1>7, <1>14 DEF Buffered
<1>19. Served(Buffered, 1, handling, responses)'
  BY ONLY <1>7, <1>17, <1>18, ServedNext
<1>20. x # <<>> => OutOfStep(v, 1) \/ (x[1].is = "head" /\ Len(x) <= 1 + x[1].n)
  <2>1. SUFFICES ASSUME x # <<>>, ~ OutOfStep(v, 1) PROVE x[1].is = "head" /\ Len(x) <= 1 + x[1].n
    OBVIOUS
  <2>2. Len(x) > 0 /\ x[1] = w[p] /\ Len(c) \in Nat /\ p \in Nat /\ p <= Len(c) /\ Len(c) <= Len(w)
    BY <1>10, <1>13, <1>15, <2>1 DEF BeginsWith
  <2>3. ~ OutOfStep(w, p)
    BY <1>10, <1>15, <2>1, RemainsInStep
  <2>4. InStep(w, p)
    BY <1>13, <2>3 DEF Served
  <2>5. Len(c) <= p + w[p].n
    BY <1>13, <2>2, <2>4 DEF FindsNothing
  <2>6. w[p].is = "head"
    BY <1>10, <2>2, <2>4 DEF InStep
  <2>7. w[p].n \in Int
    <3>1. w[p] \in CellOf(Len(sent))
      BY <1>2, <1>10, <1>15, <2>2
    <3> QED BY <3>1 DEF CellOf
  <2> QED BY <1>15, <2>2, <2>5, <2>6, <2>7
<1>21. AwaitsMore'
  BY <1>7, <1>18, <1>20 DEF AwaitsMore, OutOfStep
<1> QED BY <1>2, <1>7, <1>8, <1>15, <1>16, <1>18, <1>19, <1>21 DEF HttpInv

LEMMA HttpHandlerEnds == ASSUME HttpInv, HandlerEnds PROVE HttpInv'
<1>1. PICK i \in handling :
        /\ handling' = handling \ {i}
        /\ \/ responses' = Append(responses, <<i, 200>>) /\ UNCHANGED silent
           \/ silent' = silent \cup {i} /\ UNCHANGED responses
  BY DEF HandlerEnds
<1>2. sent' = sent /\ onWire' = onWire /\ received' = received /\ Buffered' = Buffered
  BY DEF HandlerEnds, Buffered
<1>3. PICK w, h, r, n : w = Buffered /\ h = handling /\ r = responses /\ n = Len(sent)
  OBVIOUS
<1>4. /\ 1 \in 1..Len(w) + 1 /\ r \in Seq((1..n) \X Codes) /\ h \subseteq 1..n /\ n \in Nat
        /\ silent \subseteq 1..n
      /\ InStep(w, 1) \/ OutOfStep(w, 1)
      /\ \A e \in AnsweredIn(r) \cup h \cup silent : Before(w, 1, e)
      /\ \A e \in 1..n :
            e \in AnsweredIn(r) \cup h \cup silent \/ BadBefore(e)
              \/ \E k \in 1..Len(w) : w[k].is = "end" /\ w[k].i = e
      /\ \A a, b \in 1..Len(r) : a # b => r[a][1] # r[b][1]
      /\ AnsweredIn(r) \cap (h \cup silent) = {} /\ h \cap silent = {}
      /\ \A e \in h : RouteOf(sent[e]) = "task" /\ sent[e].wellFormed
      /\ \A a, b \in 1..Len(r) :
            a < b /\ RouteOf(sent[r[a][1]]) # "task" /\ RouteOf(sent[r[b][1]]) # "task" => r[a][1] < r[b][1]
      /\ \A a \in 1..Len(r) : BadBefore(r[a][1]) \/ r[a][2] = Expected(r[a][1])
  BY <1>3 DEF HttpInv, Served
<1>5. i \in h /\ i \in 1..n /\ RouteOf(sent[i]) = "task" /\ sent[i].wellFormed
        /\ i \notin silent /\ i \notin AnsweredIn(r)
  BY <1>1, <1>3, <1>4
<1>d. \A a, b \in 1..Len(r) : a # b => r[a][1] # r[b][1]
  BY <1>4
<1>o. \A a, b \in 1..Len(r) :
        a < b /\ RouteOf(sent[r[a][1]]) # "task" /\ RouteOf(sent[r[b][1]]) # "task" => r[a][1] < r[b][1]
  BY <1>4
<1>c. \A a \in 1..Len(r) : BadBefore(r[a][1]) \/ r[a][2] = Expected(r[a][1])
  BY <1>4
<1>s. AnsweredIn(r) \cap (h \cup silent) = {} /\ h \cap silent = {} /\ h \subseteq 1..n
  BY <1>4
<1>6. AwaitsMore'
  BY <1>2 DEF HttpInv, AwaitsMore, OutOfStep
<1>7. CASE responses' = Append(responses, <<i, 200>>) /\ UNCHANGED silent
  <2>1. PICK x, H, t : x = <<i, 200>> /\ H = h \ {i} /\ t = Append(r, x)
    OBVIOUS
  <2>2. x \in (1..n) \X Codes /\ x[1] = i /\ x[2] = 200
    BY <1>5, <2>1 DEF Codes
  <2>3. /\ t \in Seq((1..n) \X Codes) /\ Len(r) \in Nat /\ Len(t) = Len(r) + 1
        /\ (\A a \in 1..Len(r) : t[a] = r[a]) /\ t[Len(r) + 1] = x
        /\ AnsweredIn(t) = AnsweredIn(r) \cup {x[1]}
    <3>1. PICK X : X = (1..n) \X Codes
      OBVIOUS
    <3>2. r \in Seq(X) /\ x \in X /\ t = Append(r, x)
      BY <1>4, <2>1, <2>2, <3>1
    <3>3. r \in Seq(X) /\ x \in X
      BY <3>2
    <3>4. Append(r, x) \in Seq(X) /\ OneMore(Append(r, x), r, x)
      BY ONLY <3>3, AnsweredMore
    <3> QED BY <3>1, <3>2, <3>4 DEF OneMore
  <2>4. \A a : a \in 1..Len(t) <=> a \in 1..Len(r) \/ a = Len(r) + 1
    BY ONLY <2>3
  <2>5. 200 = Expected(i)
    BY <1>5 DEF Expected
  <2>6. \A a \in 1..Len(t) : BadBefore(t[a][1]) \/ t[a][2] = Expected(t[a][1])
    BY ONLY <1>c, <2>2, <2>3, <2>4, <2>5
  <2>7. \A a \in 1..Len(r) : r[a][1] \in AnsweredIn(r)
    BY DEF AnsweredIn
  <2>8. \A a, b \in 1..Len(t) : a # b => t[a][1] # t[b][1]
    <3>1. \A a \in 1..Len(r) : r[a][1] # i
      BY <1>5, <2>7
    <3>2. ASSUME NEW a \in 1..Len(t), NEW b \in 1..Len(t), a # b PROVE t[a][1] # t[b][1]
      <4>1. t[Len(r) + 1][1] = i
        BY <2>2, <2>3
      <4>2. CASE a \in 1..Len(r) /\ b \in 1..Len(r)
        <5>1. t[a] = r[a] /\ t[b] = r[b]
          BY <2>3, <4>2
        <5> QED BY <1>d, <3>2, <4>2, <5>1
      <4>3. CASE a \in 1..Len(r) /\ b = Len(r) + 1
        <5>1. t[a] = r[a]
          BY <2>3, <4>3
        <5> QED BY <3>1, <4>1, <4>3, <5>1
      <4>4. CASE b \in 1..Len(r) /\ a = Len(r) + 1
        <5>1. t[b] = r[b]
          BY <2>3, <4>4
        <5> QED BY <3>1, <4>1, <4>4, <5>1
      <4> QED BY <2>4, <3>2, <4>2, <4>3, <4>4
    <3> QED BY <3>2
  <2>9. \A a, b \in 1..Len(t) :
          a < b /\ RouteOf(sent[t[a][1]]) # "task" /\ RouteOf(sent[t[b][1]]) # "task" => t[a][1] < t[b][1]
    <3>1. ASSUME NEW a \in 1..Len(t), NEW b \in 1..Len(t), a < b,
                 RouteOf(sent[t[a][1]]) # "task", RouteOf(sent[t[b][1]]) # "task"
          PROVE  t[a][1] < t[b][1]
      <4>1. t[Len(r) + 1][1] = i
        BY <2>2, <2>3
      <4>2. a # Len(r) + 1 /\ b # Len(r) + 1
        BY <1>5, <3>1, <4>1
      <4>3. a \in 1..Len(r) /\ b \in 1..Len(r) /\ t[a] = r[a] /\ t[b] = r[b]
        BY <2>3, <2>4, <3>1, <4>2
      <4> QED BY <1>o, <3>1, <4>3
    <3> QED BY <3>1
  <2>h. H = h \ {i}
    BY <2>1
  <2>t. AnsweredIn(t) = AnsweredIn(r) \cup {i}
    BY <2>2, <2>3
  <2>10. AnsweredIn(t) \cup H \cup silent = AnsweredIn(r) \cup h \cup silent
    BY ONLY <1>5, <2>h, <2>t
  <2>11. AnsweredIn(t) \cap (H \cup silent) = {} /\ H \cap silent = {} /\ H \subseteq 1..n
    BY ONLY <1>s, <1>5, <2>h, <2>t
  <2>12. \A e \in H : RouteOf(sent[e]) = "task" /\ sent[e].wellFormed
    BY <1>4, <2>1
  <2>13. Served(w, 1, H, t)
    BY <1>3, <1>4, <2>3, <2>6, <2>8, <2>9, <2>10, <2>11, <2>12 DEF Served
  <2>14. sent' = sent /\ silent' = silent /\ Buffered' = w /\ handling' = H /\ responses' = t
    BY <1>1, <1>2, <1>3, <1>7, <2>1
  <2>15. Served(Buffered, 1, handling, responses)'
    BY ONLY <2>13, <2>14, ServedNext
  <2> QED BY <1>2, <1>6, <1>7, <2>15 DEF HttpInv
<1>8. CASE silent' = silent \cup {i} /\ UNCHANGED responses
  <2>1. PICK H, s : H = h \ {i} /\ s = silent \cup {i}
    OBVIOUS
  <2>2. AnsweredIn(r) \cup H \cup s = AnsweredIn(r) \cup h \cup silent
    BY <1>5, <2>1
  <2>3. AnsweredIn(r) \cap (H \cup s) = {} /\ H \cap s = {} /\ H \subseteq 1..n /\ s \subseteq 1..n
    BY <1>4, <1>5, <2>1
  <2>4. \A e \in H : RouteOf(sent[e]) = "task" /\ sent[e].wellFormed
    BY <1>4, <2>1
  <2>5. sent' = sent /\ silent' = s /\ Buffered' = w /\ handling' = H /\ responses' = r
    BY <1>1, <1>2, <1>3, <1>8, <2>1
  <2>6. /\ 1 \in 1..Len(w) + 1 /\ r \in Seq((1..n) \X Codes) /\ H \subseteq 1..n
        /\ InStep(w, 1) \/ OutOfStep(w, 1)
        /\ \A e \in AnsweredIn(r) \cup H \cup s : Before(w, 1, e)
        /\ \A e \in 1..n :
            e \in AnsweredIn(r) \cup H \cup s \/ BadBefore(e)
              \/ \E k \in 1..Len(w) : w[k].is = "end" /\ w[k].i = e
        /\ \A a, b \in 1..Len(r) : a # b => r[a][1] # r[b][1]
        /\ AnsweredIn(r) \cap (H \cup s) = {} /\ H \cap s = {}
        /\ \A e \in H : RouteOf(sent[e]) = "task" /\ sent[e].wellFormed
        /\ \A a, b \in 1..Len(r) :
            a < b /\ RouteOf(sent[r[a][1]]) # "task" /\ RouteOf(sent[r[b][1]]) # "task" => r[a][1] < r[b][1]
        /\ \A a \in 1..Len(r) : BadBefore(r[a][1]) \/ r[a][2] = Expected(r[a][1])
    BY <1>4, <2>2, <2>3, <2>4
  <2>7. Served(Buffered, 1, handling, responses)'
    BY ONLY <1>3, <2>5, <2>6 DEF Served, OutOfStep, BadBefore, Expected
  <2> QED BY <1>2, <1>3, <1>6, <2>3, <2>5, <2>7 DEF HttpInv
<1> QED BY <1>1, <1>7, <1>8
LEMMA HttpRequests == ASSUME HttpInv, ClientRequests PROVE HttpInv'
<1>1. PICK req \in Asked, body \in 0..1 :
        sent' = Append(sent, req) /\ onWire' = onWire \o MessageCells(Len(sent'), body)
  BY DEF ClientRequests
<1>2. received' = received /\ handling' = handling /\ silent' = silent /\ responses' = responses
  BY DEF ClientRequests
<1>3. PICK a, b, w, h, r, n : a = received /\ b = onWire /\ w = Buffered /\ h = handling /\ r = responses
        /\ n = Len(sent)
  OBVIOUS
<1>4. PICK s, c : s = Append(sent, req) /\ c = silent
  OBVIOUS
<1>5. PICK m : m = MessageCells(n + 1, body)
  OBVIOUS
<1>6. PICK v : v = w \o m
  OBVIOUS
<1>7. /\ n \in Nat /\ sent \in Seq(Asked) /\ s \in Seq(Asked) /\ Len(s) = n + 1
        /\ \A e \in 1..n : s[e] = sent[e]
  BY <1>3, <1>4 DEF HttpInv
<1>8. /\ a \in Seq(CellOf(n)) /\ b \in Seq(CellOf(n)) /\ w = a \o b /\ w \in Seq(CellOf(n)) /\ Laid(w)
      /\ Served(w, 1, h, r) /\ c \subseteq 1..n
  BY <1>3, <1>4 DEF HttpInv, Buffered
<1>9. /\ Laid(v) /\ Len(v) = Len(w) + 2 + body /\ \A k \in 1..Len(w) : v[k] = w[k]
      /\ v[Len(w) + 1].is = "head" /\ v[Len(w) + 1].i = n + 1 /\ v[Len(w) + 1].n = body
      /\ \A k \in 1..Len(v) : v[k].is = "end" /\ ~ (k <= Len(w)) => k = Len(w) + 2
      /\ v[Len(w) + 2].is = "end" /\ v[Len(w) + 2].i = n + 1
  <2>1. IsBehind(v, w, n + 1, body)
    BY <1>5, <1>6, <1>7, <1>8, MoreIsLaid
  <2> QED BY <2>1 DEF IsBehind
<1>10. m \in Seq(CellOf(n + 1)) /\ a \in Seq(CellOf(n + 1)) /\ b \in Seq(CellOf(n + 1))
  <2>1. IsMessage(m, n + 1, body)
    BY <1>5, <1>7, MessageIs
  <2>2. CellOf(n) \subseteq CellOf(n + 1)
    BY <1>7 DEF CellOf
  <2> QED BY <1>8, <2>1, <2>2 DEF IsMessage
<1>11. sent' = s /\ onWire' = b \o m /\ received' = a /\ handling' = h /\ responses' = r /\ silent' = c
         /\ Buffered' = v
  <2>1. sent' = s /\ Len(sent') = n + 1
    BY <1>1, <1>4, <1>7
  <2>2. onWire' = b \o m
    BY <1>1, <1>3, <1>5, <2>1
  <2>3. a \o (b \o m) = (a \o b) \o m
    <3>1. PICK X : X = CellOf(n + 1)
      OBVIOUS
    <3>2. a \in Seq(X) /\ b \in Seq(X) /\ m \in Seq(X)
      BY <1>10, <3>1
    <3> QED BY ONLY <3>2, JoinsJoin
  <2>4. Buffered' = a \o (b \o m)
    BY <1>2, <1>3, <2>2 DEF Buffered
  <2> QED BY <1>2, <1>3, <1>4, <1>6, <1>8, <2>1, <2>2, <2>3, <2>4
<1>12. b \o m \in Seq(CellOf(n + 1))
  BY <1>10
<1>13. PICK L : L = Len(w) /\ L \in Nat
  BY <1>8
<1>14. /\ r \in Seq((1..n) \X Codes) /\ h \subseteq 1..n
       /\ (\A e \in AnsweredIn(r) \cup h \cup c : Before(w, 1, e))
       /\ AnsweredIn(r) \cap (h \cup c) = {} /\ h \cap c = {}
       /\ (\A e \in h : RouteOf(sent[e]) = "task" /\ sent[e].wellFormed)
  BY <1>3, <1>4, <1>8 DEF Served
<1>15. \A j \in 1..Len(r) : r[j][1] \in 1..n /\ r[j][1] \in AnsweredIn(r)
  <2>1. \A j \in 1..Len(r) : r[j] \in (1..n) \X Codes
    BY <1>14
  <2> QED BY <2>1 DEF AnsweredIn
<1>16. AnsweredIn(r) \subseteq 1..n
  BY <1>15 DEF AnsweredIn
<1>17. \A k \in 1..Len(v) : v[k].is = "end" => (k \in 1..L /\ w[k].is = "end" /\ v[k] = w[k]) \/ v[k].i = n + 1
  <2>1. \A k \in 1..Len(v) : k <= L => k \in 1..L
    BY <1>13
  <2> QED BY <1>9, <1>13, <2>1
<1>18. \A e \in 1..n : Before(w, 1, e) => Before(v, 1, e)
  <2>1. \A e \in 1..n : e < n + 1
    BY <1>7
  <2> QED BY <1>13, <1>17, <2>1 DEF Before
<1>19. 1 \in 1..Len(v) + 1 /\ Len(v) \in Nat /\ (L = 0 => v[1].is = "head")
         /\ (L # 0 => v[1] = w[1] /\ 1 <= Len(w))
       /\ L + 2 \in 1..Len(v) /\ \A k \in 1..L : k \in 1..Len(v)
  BY <1>9, <1>13
<1>20. \A e \in 1..n : (\E j \in 1..e - 1 : s[j].wellFormed = FALSE) <=> BadBefore(e)
  <2>1. \A e \in 1..n : \A j \in 1..e - 1 : s[j] = sent[j]
    BY <1>7
  <2> QED BY <2>1 DEF BadBefore
<1>21. (1 <= Len(v) => v[1].is = "head") \/ \E e \in 1..Len(s) : s[e].wellFormed = FALSE /\ Before(v, 1, e)
  <2>1. CASE InStep(w, 1)
    BY <1>19, <2>1 DEF InStep
  <2>2. CASE OutOfStep(w, 1)
    <3>1. PICK e \in 1..n : sent[e].wellFormed = FALSE /\ Before(w, 1, e)
      BY <1>3, <2>2 DEF OutOfStep
    <3>2. e \in 1..Len(s) /\ s[e] = sent[e]
      BY <1>7
    <3> QED BY <1>18, <3>1, <3>2
  <2> QED BY <1>8, <2>1, <2>2 DEF Served
<1>22. \A e \in 1..Len(s) :
         e \in AnsweredIn(r) \cup h \cup c \/ (\E j \in 1..e - 1 : s[j].wellFormed = FALSE)
           \/ \E k \in 1..Len(v) : v[k].is = "end" /\ v[k].i = e
  <2>1. SUFFICES ASSUME NEW e \in 1..Len(s), e \notin AnsweredIn(r) \cup h \cup c,
                        ~ \E j \in 1..e - 1 : s[j].wellFormed = FALSE
                 PROVE  \E k \in 1..Len(v) : v[k].is = "end" /\ v[k].i = e
    OBVIOUS
  <2>2. CASE e = n + 1
    BY <1>9, <1>13, <1>19, <2>2
  <2>3. CASE e # n + 1
    <3>1. e \in 1..n
      BY <1>7, <2>3
    <3>2. ~ BadBefore(e)
      BY <1>20, <2>1, <3>1
    <3>3. PICK k \in 1..Len(w) : w[k].is = "end" /\ w[k].i = e
      BY <1>3, <1>4, <1>8, <2>1, <3>1, <3>2 DEF Served
    <3>4. k \in 1..Len(v) /\ v[k] = w[k]
      BY <1>9, <1>13, <1>19
    <3> QED BY <3>3, <3>4
  <2> QED BY <2>2, <2>3
<1>23. \A j, k \in 1..Len(r) :
          j < k /\ RouteOf(s[r[j][1]]) # "task" /\ RouteOf(s[r[k][1]]) # "task" => r[j][1] < r[k][1]
  <2>1. \A j \in 1..Len(r) : s[r[j][1]] = sent[r[j][1]]
    BY <1>7, <1>15
  <2>2. \A j, k \in 1..Len(r) :
          j < k /\ RouteOf(sent[r[j][1]]) # "task" /\ RouteOf(sent[r[k][1]]) # "task" => r[j][1] < r[k][1]
    BY <1>8 DEF Served
  <2> QED BY <2>1, <2>2
<1>24. \A j \in 1..Len(r) :
          \/ \E k \in 1..r[j][1] - 1 : s[k].wellFormed = FALSE
          \/ r[j][2] = IF ~ s[r[j][1]].wellFormed THEN 500
                       ELSE CASE RouteOf(s[r[j][1]]) = "none" -> 404
                              [] RouteOf(s[r[j][1]]) = "raises" -> 500
                              [] OTHER -> 200
  <2>1. SUFFICES ASSUME NEW j \in 1..Len(r)
                 PROVE  \/ \E k \in 1..r[j][1] - 1 : s[k].wellFormed = FALSE
                        \/ r[j][2] = IF ~ s[r[j][1]].wellFormed THEN 500
                                     ELSE CASE RouteOf(s[r[j][1]]) = "none" -> 404
                                            [] RouteOf(s[r[j][1]]) = "raises" -> 500
                                            [] OTHER -> 200
    OBVIOUS
  <2>2. PICK e : e = r[j][1]
    OBVIOUS
  <2>3. e \in 1..n /\ s[e] = sent[e] /\ (BadBefore(e) \/ r[j][2] = Expected(e))
    BY <1>7, <1>8, <1>15, <2>2 DEF Served
  <2> QED BY <1>20, <2>2, <2>3 DEF Expected
<1>25. \A e \in h : RouteOf(s[e]) = "task" /\ s[e].wellFormed
  BY <1>7, <1>14
<1>26. \A e \in AnsweredIn(r) \cup h \cup c : Before(v, 1, e)
  BY <1>8, <1>14, <1>16, <1>18
<1>27. r \in Seq((1..Len(s)) \X Codes) /\ h \subseteq 1..Len(s) /\ c \subseteq 1..Len(s)
  <2>1. 1..n \subseteq 1..Len(s)
    BY <1>7
  <2>2. (1..n) \X Codes \subseteq (1..Len(s)) \X Codes
    BY <2>1
  <2>3. r \in Seq((1..Len(s)) \X Codes)
    <3>1. PICK X, Y : X = (1..n) \X Codes /\ Y = (1..Len(s)) \X Codes
      OBVIOUS
    <3>2. r \in Seq(X) /\ X \subseteq Y
      BY <1>14, <2>2, <3>1
    <3>3. r \in Seq(Y)
      BY ONLY <3>2
    <3> QED BY <3>1, <3>3
  <2> QED BY <1>8, <1>14, <2>1, <2>3
<1>28. \A j, k \in 1..Len(r) : j # k => r[j][1] # r[k][1]
  BY <1>8 DEF Served
<1>29. Served(Buffered, 1, handling, responses)'
  <2>1. 1 \in 1..Len(v) + 1 /\ r \in Seq((1..Len(s)) \X Codes) /\ h \subseteq 1..Len(s)
        /\ \A e \in AnsweredIn(r) \cup h \cup c : Before(v, 1, e)
    BY <1>19, <1>26, <1>27
  <2>2. (InStep(Buffered, 1) \/ OutOfStep(Buffered, 1))'
    BY ONLY <1>11, <1>21 DEF InStep, OutOfStep
  <2>3. (\A i \in 1..Len(sent) :
          i \in AnsweredIn(responses) \cup handling \cup silent \/ BadBefore(i)
            \/ \E k \in 1..Len(Buffered) : Buffered[k].is = "end" /\ Buffered[k].i = i)'
    BY ONLY <1>11, <1>22 DEF BadBefore
  <2>4. (\A j \in 1..Len(responses) :
          BadBefore(responses[j][1]) \/ responses[j][2] = Expected(responses[j][1]))'
    BY ONLY <1>11, <1>24 DEF BadBefore, Expected
  <2>5. AnsweredIn(r) \cap (h \cup c) = {} /\ h \cap c = {}
    BY <1>14
  <2> QED BY ONLY <1>11, <1>23, <1>25, <1>28, <2>1, <2>2, <2>3, <2>4, <2>5 DEF Served
<1>30. a # <<>> =>
         \/ \E e \in 1..Len(s) : s[e].wellFormed = FALSE /\ Before(v, 1, e)
         \/ a[1].is = "head" /\ Len(a) <= 1 + a[1].n
  <2>1. CASE OutOfStep(w, 1)
    <3>1. PICK e \in 1..n : sent[e].wellFormed = FALSE /\ Before(w, 1, e)
      BY <1>3, <2>1 DEF OutOfStep
    <3>2. e \in 1..Len(s) /\ s[e] = sent[e]
      BY <1>7
    <3> QED BY <1>18, <3>1, <3>2
  <2> QED BY <1>3, <2>1 DEF HttpInv, AwaitsMore
<1>31. AwaitsMore'
  BY ONLY <1>11, <1>30 DEF AwaitsMore, OutOfStep
<1> QED BY <1>7, <1>9, <1>10, <1>11, <1>12, <1>27, <1>29, <1>31 DEF HttpInv

LEMMA HttpStepKeeps == ASSUME HttpInv, HttpServerNext \/ UNCHANGED httpServerVars PROVE HttpInv'
BY HttpRequests, HttpReceives, HttpHandlerEnds, HttpStutters DEF HttpServerNext

LEMMA HttpIsAnswered == ASSUME HttpInv PROVE EachIsAnswered
<1>1. PICK w, n, h, r : w = Buffered /\ n = Len(sent) /\ h = handling /\ r = responses
  OBVIOUS
<1>2. /\ n \in Nat /\ received \in Seq(CellOf(n)) /\ onWire \in Seq(CellOf(n)) /\ w = received \o onWire
        /\ Laid(w)
      /\ Served(w, 1, h, r) /\ AwaitsMore /\ sent \in Seq(Asked) /\ DOMAIN sent = 1..n
  BY <1>1 DEF HttpInv, Buffered
<1>3. r \in Seq((1..n) \X Codes) /\ DOMAIN r = 1..Len(r) /\ Len(r) \in Nat /\ h \subseteq 1..n
  BY <1>1, <1>2 DEF Served
<1>4. Range(r) = {r[a] : a \in 1..Len(r)} /\ {a[1] : a \in Range(r)} = AnsweredIn(r)
  BY <1>3 DEF Range, AnsweredIn
<1>5. \A x \in Range(onWire) : \E j \in 1..Len(onWire) : x = onWire[j]
  BY <1>2 DEF Range
<1>r. \A j \in 1..Len(onWire) : onWire[j] \in Range(onWire)
  BY <1>2 DEF Range
<1>6. ASSUME NEW i \in 1..n, \A c \in Range(onWire) : c.i # i, i \notin AnsweredIn(r) \cup h \cup silent
      PROVE  BadBefore(i)
  <2>1. SUFFICES ASSUME ~ BadBefore(i) PROVE FALSE
    OBVIOUS
  <2>2. PICK k \in 1..Len(w) : w[k].is = "end" /\ w[k].i = i
    BY <1>1, <1>2, <1>6, <2>1 DEF Served
  <2>3. PICK L : L = Len(received)
    OBVIOUS
  <2>4. L \in Nat /\ Len(w) = L + Len(onWire) /\ Len(onWire) \in Nat
        /\ \A j \in 1..L + Len(onWire) : w[j] = IF j <= L THEN received[j] ELSE onWire[j - L]
    BY <1>2, <2>3, JoinedIs
  <2>5. \A j \in 1..Len(w) : w[j].i = i => j <= L
    <3>1. \A j \in 1..Len(w) : ~ (j <= L) => j - L \in 1..Len(onWire)
      BY <2>4
    <3> QED BY <1>6, <1>r, <2>4, <3>1
  <2>6. k <= L /\ L # 0 /\ w[k] \in CellOf(n)
    BY <1>2, <2>2, <2>4, <2>5
  <2>7. received # <<>> /\ 1 \in 1..Len(w) /\ w[1] = received[1]
    BY <1>2, <2>3, <2>4, <2>6
  <2>8. ~ OutOfStep(w, 1)
    <3>1. ASSUME NEW e \in 1..n, sent[e].wellFormed = FALSE, Before(w, 1, e) PROVE FALSE
      <4>1. e < i
        BY <2>2, <3>1 DEF Before
      <4>2. e \in 1..i - 1
        BY <4>1
      <4> QED BY <2>1, <3>1, <4>2 DEF BadBefore
    <3> QED BY <1>1, <3>1 DEF OutOfStep
  <2>9. w[1].is = "head" /\ L <= 1 + w[1].n
    BY <1>1, <1>2, <2>3, <2>7, <2>8 DEF AwaitsMore
  <2>10. w[1].n \in 0..1
    <3>1. w[1] \in CellOf(n)
      <4>1. w \in Seq(CellOf(n))
        BY <1>2
      <4> QED BY <2>7, <4>1
    <3> QED BY <3>1 DEF CellOf
  <2>11. k = 2 /\ L = 2 /\ w[1].n = 1
    <3>1. k # 1
      BY <2>2, <2>9
    <3> QED BY <2>4, <2>6, <2>9, <2>10, <3>1
  <2>12. w[1 + 1].i = w[1].i /\ 1 + 2 <= Len(w) /\ w[1 + 2].i = w[1].i
    BY <1>2, <2>7, <2>9, <2>11 DEF Laid
  <2>13. w[3].i = i /\ 3 \in 1..Len(w)
    <3>1. 1 + 1 = 2 /\ 1 + 2 = 3
      OBVIOUS
    <3> QED BY <2>2, <2>4, <2>11, <2>12, <3>1
  <2> QED BY <2>5, <2>11, <2>13
<1>7. \A i \in 1..n :
        (\A c \in Range(onWire) : c.i # i) => i \in AnsweredIn(r) \cup h \cup silent \/ BadBefore(i)
  BY <1>6
<1>8. /\ \A a, b \in 1..Len(r) : a # b => r[a][1] # r[b][1]
      /\ AnsweredIn(r) \cap (h \cup silent) = {}
      /\ \A a, b \in 1..Len(r) :
            a < b /\ RouteOf(sent[r[a][1]]) # "task" /\ RouteOf(sent[r[b][1]]) # "task" => r[a][1] < r[b][1]
      /\ \A a \in 1..Len(r) : BadBefore(r[a][1]) \/ r[a][2] = Expected(r[a][1])
  BY <1>2 DEF Served
<1>9. \A a \in Range(r) : BadBefore(a[1]) \/ a[2] = Expected(a[1])
  BY <1>4, <1>8
<1>10. /\ \A i \in {i \in DOMAIN sent : \A c \in Range(onWire) : c.i # i} :
              i \in AnsweredIn(r) \cup h \cup silent \/ BadBefore(i)
       /\ \A a, b \in DOMAIN r : a # b => r[a][1] # r[b][1]
       /\ AnsweredIn(r) \cap (h \cup silent) = {}
       /\ \A a, b \in DOMAIN r :
            a < b /\ RouteOf(sent[r[a][1]]) # "task" /\ RouteOf(sent[r[b][1]]) # "task" => r[a][1] < r[b][1]
       /\ \A a \in Range(r) : BadBefore(a[1]) \/ a[2] = Expected(a[1])
  BY <1>2, <1>3, <1>7, <1>8, <1>9
<1> QED BY ONLY <1>1, <1>4, <1>10 DEF EachIsAnswered, BadBefore, Expected

(* However the requests are cut, the server of BasicHttpServer handles each   *)
(* that came whole once and answers it as its route says, unless it is behind *)
(* one that could not be read, and those answered at once in the order they   *)
(* came.                                                                    *)
THEOREM EachRequestIsAnswered == Spec => []EachIsAnswered
<1>1. Init => HttpInv
  BY HttpInitHolds DEF Init
<1>2. HttpInv /\ [Next]_vars => HttpInv'
  <2>1. ASSUME [Next]_vars PROVE HttpServerNext \/ UNCHANGED httpServerVars
    BY <2>1 DEF Next, vars
  <2> QED BY <2>1, HttpStepKeeps
<1>3. HttpInv => EachIsAnswered
  BY HttpIsAnswered
<1> QED BY <1>1, <1>2, <1>3, PTL DEF Spec
=============================================================================

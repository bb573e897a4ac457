--------------------------- MODULE AirPlay_proofs ---------------------------
(***************************************************************************)
(* The player of AirPlay gives back what a play took, and pairing and       *)
(* verification are sound: for any calls, retries and attempts, any PINs   *)
(* that are typed and any number of begin(), finish() and connections.     *)
(***************************************************************************)
EXTENDS AirPlayPlayer, HapPairing, SequenceTheorems, TLAPS

(* ------------------------------- the player ------------------------------ *)
PlayerSpec == PlayerInit /\ [][PlayerNext]_playerVars

Ends == {"close server", "ended"}
PlayState ==
    [pc : {"called", "start server", "http_connect"} \cup InPlayer \cup Ends,
     conn : {"none", "open", "closed", "lost"}, server : BOOLEAN, cancelled : BOOLEAN,
     retry : Int, attempts : Int, refused : Int, code : {"ok", "500", "4xx"},
     left : SUBSET {"timing", "events", "feedback"},
     outcome : {"none", "refused", "raised", "returned", "cancelled"}]

(* What the variables of the player hold. *)
PlayerType ==
    /\ version \in {1, 2}
    /\ plays \in [Call -> PlayState]
    /\ stream \in [connection : Call \cup {None}, task : Call \cup {None}]
    /\ taken \in Call \cup {None, Other}
    /\ media \in [Call -> {"loading", "playing", "over"}]

(* Who plays has taken over, the connection and the task that the stream   *)
(* remembers are of who plays, and no other connection is open.             *)
OnePlays ==
    /\ \A c \in Call : taken = c <=> plays[c].pc \in InPlayer \cup {"http_connect"}
    /\ \A c \in Call : stream.connection = c \/ stream.task = c => plays[c].pc \in InPlayer
    /\ \A c \in Call : plays[c].conn = "open" => stream.connection = c

(* What a play that ended keeps. *)
EndedWell ==
    \A c \in Call :
        /\ plays[c].pc \in Ends /\ plays[c].outcome = "returned" => "timing" \notin plays[c].left
        /\ plays[c].pc = "ended" /\ plays[c].outcome # "refused" => ~plays[c].server

PlayerInv == PlayerType /\ OnePlays /\ EndedWell

-----------------------------------------------------------------------------
(* The first step and those after it are steps of the player. *)
LEMMA StepsOfPlayer ==
    ASSUME version \in {1, 2}
    PROVE  Steps[1] = "verify" /\ Len(Steps) \in Nat /\ \A i \in 1..Len(Steps) : Steps[i] \in InPlayer
<1>1. CASE version = 1
  BY <1>1 DEF Steps, StepsV1, InPlayer, Requests, Waits
<1>2. CASE version = 2
  <2> DEFINE r == <<"record", "play", "properties">>
             b == <<"verify", "setup", "events">>
  <2>1. r \in Seq(InPlayer) /\ b \in Seq(InPlayer) /\ Len(b) = 3 /\ b[1] = "verify"
    BY DEF InPlayer, Requests, Waits
  <2>2. Steps = b \o r
    BY <1>2 DEF Steps, StepsV2, SetupBase
  <2> HIDE DEF r, b
  <2>3. /\ Steps \in Seq(InPlayer) /\ Len(Steps) = Len(b) + Len(r)
        /\ \A i \in 1..(Len(b) + Len(r)) : Steps[i] = IF i <= Len(b) THEN b[i] ELSE r[i - Len(b)]
    BY <2>1, <2>2, ConcatProperties, Zenon
  <2>4. Len(r) \in Nat
    BY <2>1
  <2> QED BY <2>1, <2>3, <2>4
<1> QED BY <1>1, <1>2

(* The numbers of a play. *)
LEMMA PlayNumbers == ASSUME NEW p \in PlayState
 PROVE p.refused \in Int /\ p.retry \in Int /\ p.attempts \in Int
<1>1. p.refused \in Int BY DEF PlayState
<1>2. p.retry \in Int BY DEF PlayState
<1>3. p.attempts \in Int BY DEF PlayState
<1> QED BY <1>1, <1>2, <1>3
(* A play that has not begun. *)
LEMMA CalledIsPlay == Called \in PlayState
<1>1. WAIT_RETRIES \in Int
  BY PlayerAssumption
<1>2. 0 \in Int
  OBVIOUS
<1>3. \A x \in Int, y \in Int :
         [pc |-> "called", conn |-> "none", server |-> FALSE, cancelled |-> FALSE,
          retry |-> y, attempts |-> x, refused |-> y, code |-> "ok",
          left |-> {}, outcome |-> "none"] \in PlayState
  BY DEF PlayState
<1> QED BY <1>1, <1>2, <1>3 DEF Called

(* What a play is that is over. *)
LEMMA OverIs == ASSUME NEW p \in PlayState, NEW outcome \in {"raised", "returned", "cancelled"}, NEW conn \in {"none", "open", "closed", "lost"}
 PROVE  LET q == Over(p, outcome, conn)
        IN /\ q \in PlayState /\ q.pc \in Ends /\ q.conn = IF p.conn = "open" THEN conn ELSE p.conn
           /\ q.left = p.left /\ q.outcome = outcome
           /\ q.pc = "ended" => ~q.server
<1> DEFINE pc == IF p.server THEN "close server" ELSE "ended"
           co == IF p.conn = "open" THEN conn ELSE p.conn
           a == [Called EXCEPT !.pc = pc]
           b == [a EXCEPT !.server = p.server]
           c == [b EXCEPT !.conn = co]
           d == [c EXCEPT !.left = p.left]
           e == [d EXCEPT !.outcome = outcome]
<1>01. Called \in PlayState
  BY CalledIsPlay
<1>02. pc \in Ends /\ pc \in {"called", "start server", "http_connect"} \cup InPlayer \cup Ends
  BY DEF Ends
<1>03. co \in {"none", "open", "closed", "lost"}
  BY DEF PlayState
<1>04. p.left \in SUBSET {"timing", "events", "feedback"}
  BY DEF PlayState
<1>0. /\ Called \in PlayState /\ pc \in Ends /\ co \in {"none", "open", "closed", "lost"}
      /\ p.left \in SUBSET {"timing", "events", "feedback"}
      /\ pc \in {"called", "start server", "http_connect"} \cup InPlayer \cup Ends
  BY <1>01, <1>02, <1>03, <1>04
<1>00. p.server \in BOOLEAN /\ (pc = "ended" => ~p.server)
  BY DEF PlayState
<1> HIDE DEF pc, co
<1>1. a \in PlayState /\ a.pc = pc
  BY <1>0 DEF PlayState
<1> HIDE DEF a
<1>2. b \in PlayState /\ b.pc = pc 
  BY <1>1, <1>00 DEF PlayState
<1>2a. b.server = p.server
  BY <1>1, <1>00 DEF PlayState
<1> HIDE DEF b
<1>3. c \in PlayState /\ c.pc = pc /\ c.conn = co
  BY <1>0, <1>2 DEF PlayState
<1>3a. c.server = p.server
  BY <1>2, <1>2a DEF PlayState
<1> HIDE DEF c
<1>4. d \in PlayState /\ d.pc = pc /\ d.conn = co /\ d.left = p.left
  BY <1>0, <1>3 DEF PlayState
<1>4a. d.server = p.server
  BY <1>3, <1>3a DEF PlayState
<1> HIDE DEF d
<1>5. e \in PlayState /\ e.pc = pc /\ e.conn = co /\ e.left = p.left /\ e.outcome = outcome
  BY <1>0, <1>4 DEF PlayState
<1>5a. e.server = p.server
  BY <1>4, <1>4a DEF PlayState
<1> HIDE DEF e
<1>6. Over(p, outcome, conn) = e
  BY Zenon DEF Over, a, b, c, d, e, pc, co
<1>7. co = IF p.conn = "open" THEN conn ELSE p.conn
  BY DEF co
<1> QED BY <1>0, <1>00, <1>5, <1>5a, <1>6, <1>7
(* Booleans of a play. *)
LEMMA PlayFlags ==
    ASSUME NEW p \in PlayState, NEW x \in BOOLEAN
    PROVE  /\ [p EXCEPT !.server = x] \in PlayState
           /\ [p EXCEPT !.server = x].pc = p.pc
           /\ [p EXCEPT !.server = x].conn = p.conn
           /\ [p EXCEPT !.server = x].left = p.left
           /\ [p EXCEPT !.server = x].outcome = p.outcome
           /\ [p EXCEPT !.server = x].server = x
<1>1. [p EXCEPT !.server = x].server = x
  BY DEF PlayState
<1> QED BY <1>1 DEF PlayState

(* A connection that is closed or lost, and a task that is cancelled. *)
LEMMA PlayCut ==
    ASSUME NEW p \in PlayState, NEW x \in {"none", "closed", "lost"},
           NEW q \in {[p EXCEPT !.conn = x], [p EXCEPT !.cancelled = TRUE]}
    PROVE  /\ q \in PlayState /\ q.pc = p.pc /\ q.left = p.left /\ q.outcome = p.outcome
           /\ q.server = p.server /\ q.conn \in {x, p.conn}
           /\ q = [p EXCEPT !.conn = x] => q.conn = x
<1>1. CASE q = [p EXCEPT !.conn = x]
  <2>1. q.server = p.server
    BY <1>1 DEF PlayState
  <2> QED BY <1>1, <2>1 DEF PlayState
<1>2. CASE q = [p EXCEPT !.cancelled = TRUE] /\ q # [p EXCEPT !.conn = x]
  <2>1. q.server = p.server
    BY <1>2 DEF PlayState
  <2> QED BY <1>2, <2>1 DEF PlayState
<1> QED BY <1>1, <1>2

(* A task that is cancelled is the same play. *)
LEMMA PlayCancelled ==
    ASSUME NEW p \in PlayState, NEW q, q = [p EXCEPT !.cancelled = TRUE]
    PROVE  /\ q \in PlayState /\ q.pc = p.pc /\ q.left = p.left /\ q.outcome = p.outcome
           /\ q.server = p.server /\ q.conn = p.conn
<1>1. q \in PlayState
  BY DEF PlayState
<1>2. q.pc = p.pc /\ q.left = p.left
  BY DEF PlayState
<1>3. q.outcome = p.outcome /\ q.conn = p.conn
  BY DEF PlayState
<1>4. q.server = p.server
  BY DEF PlayState
<1> QED BY <1>1, <1>2, <1>3, <1>4

(* A play at another step is the same otherwise. *)
LEMMA PlayStep ==
    ASSUME NEW p \in PlayState, NEW x \in InPlayer \cup Ends, NEW q, q = [p EXCEPT !.pc = x]
    PROVE  /\ q \in PlayState /\ q.pc = x /\ q.left = p.left /\ q.outcome = p.outcome
           /\ q.server = p.server /\ q.conn = p.conn
<1>1. q \in PlayState
  BY DEF PlayState
<1>2. q.pc = x /\ q.left = p.left
  BY DEF PlayState
<1>3. q.outcome = p.outcome /\ q.conn = p.conn
  BY DEF PlayState
<1>4. q.server = p.server
  BY DEF PlayState
<1> QED BY <1>1, <1>2, <1>3, <1>4

(* A step of a play that goes on. *)
LEMMA GoesOnKeepsInv ==
    ASSUME PlayerInv, NEW c \in Call, NEW p \in PlayState,
           plays[c].pc \in InPlayer, p.pc \in InPlayer, p.conn = plays[c].conn,
           Becomes(c, p), UNCHANGED <<version, stream, taken, media>>
    PROVE  PlayerInv'
<1>0. plays' = [plays EXCEPT ![c] = p] /\ plays \in [Call -> PlayState]
  BY DEF Becomes, PlayerInv, PlayerType
<1>1. \A d \in Call : plays'[d] = IF d = c THEN p ELSE plays[d]
  BY <1>0
<1>2. PlayerType'
  BY <1>0 DEF PlayerInv, PlayerType
<1>3. OnePlays'
  BY <1>1 DEF PlayerInv, OnePlays
<1>4. EndedWell'
  BY <1>1 DEF PlayerInv, EndedWell, Ends, InPlayer, Requests, Waits
<1> QED BY <1>2, <1>3, <1>4 DEF PlayerInv

(* The "finally" clause gives everything back. *)
LEMMA FinallyKeepsInv ==
    ASSUME PlayerInv, NEW c \in Call, NEW p \in PlayState,
           NEW outcome \in {"raised", "returned", "cancelled"},
           plays[c].pc \in InPlayer \cup {"http_connect"}, p.conn = plays[c].conn,
           outcome = "returned" => "timing" \notin p.left,
           Finally(c, p, outcome), UNCHANGED <<version, media>>
    PROVE  PlayerInv'
<1> DEFINE conn == IF stream.connection = None THEN "open" ELSE "closed"
           q == Over(p, outcome, conn)
<1>1. /\ plays' = [plays EXCEPT ![c] = q] /\ plays \in [Call -> PlayState]
      /\ taken' = None /\ stream' = [connection |-> None, task |-> None]
  BY DEF Finally, Becomes, PlayerInv, PlayerType
<1>2. /\ q \in PlayState /\ q.pc \in Ends /\ q.outcome = outcome /\ q.left = p.left
      /\ q.pc = "ended" => ~q.server
  <2>1. conn \in {"none", "open", "closed", "lost"}
    OBVIOUS
  <2> HIDE DEF conn
  <2> QED BY <2>1, OverIs
<1>3. p.conn = "open" => stream.connection # None
  BY PlayerAssumption DEF PlayerInv, OnePlays
<1>4. q.conn # "open"
  <2>1. conn \in {"none", "open", "closed", "lost"}
    OBVIOUS
  <2>2. q.conn = IF p.conn = "open" THEN conn ELSE p.conn
    <3> HIDE DEF conn
    <3> QED BY <2>1, OverIs
  <2> QED BY <1>3, <2>2
<1>5. taken = c /\ None # c
  BY PlayerAssumption DEF PlayerInv, OnePlays
<1> HIDE DEF q
<1>6. \A d \in Call : plays'[d] = IF d = c THEN q ELSE plays[d]
  BY <1>1
<1>7. PlayerType'
  BY <1>1, <1>2 DEF PlayerInv, PlayerType
<1>8. \A d \in Call : d # c => plays[d].pc \notin InPlayer \cup {"http_connect"} /\ plays[d].conn # "open"
  BY <1>5 DEF PlayerInv, OnePlays
<1>9. OnePlays'
  BY <1>1, <1>2, <1>4, <1>6, <1>8, PlayerAssumption DEF OnePlays, Ends, InPlayer, Requests, Waits
<1>10. EndedWell'
  BY <1>2, <1>6 DEF PlayerInv, EndedWell
<1> QED BY <1>7, <1>9, <1>10 DEF PlayerInv

(* The media ended: no timing server is left. *)
LEMMA ReturnsKeepsInv ==
    ASSUME PlayerInv, NEW c \in Call, NEW p \in PlayState,
           NEW outcome \in {"raised", "returned", "cancelled"},
           plays[c].pc \in InPlayer, p.conn = plays[c].conn,
           Returns(c, p, outcome), UNCHANGED <<version, media>>
    PROVE  PlayerInv'
<1> DEFINE q == [p EXCEPT !.left = @ \ {"timing"}]
<1>1. q \in PlayState /\ q.conn = p.conn /\ "timing" \notin q.left
  BY DEF PlayState
<1>2. Finally(c, q, outcome)
  BY DEF Returns
<1> HIDE DEF q
<1> QED BY <1>1, <1>2, FinallyKeepsInv

(* A play that goes to a step, and one that cannot. *)
LEMMA GoesToKeepsInv ==
    ASSUME PlayerInv, NEW c \in Call, NEW p \in PlayState, NEW step \in InPlayer,
           plays[c].pc \in InPlayer, p.conn = plays[c].conn,
           GoesTo(c, p, step), UNCHANGED <<version, media>>
    PROVE  PlayerInv'
<1>1. CASE step \notin Requests \/ p.conn = "open"
  <2> DEFINE q == [p EXCEPT !.pc = step]
  <2>1. q \in PlayState /\ q.pc \in InPlayer /\ q.conn = p.conn
    BY DEF PlayState
  <2>2. Becomes(c, q) /\ UNCHANGED <<stream, taken>>
    BY <1>1 DEF GoesTo
  <2> HIDE DEF q
  <2> QED BY <2>1, <2>2, GoesOnKeepsInv
<1>2. CASE ~(step \notin Requests \/ p.conn = "open") /\ step = "playback-info"
  <2>1. Returns(c, p, "returned")
    BY <1>2 DEF GoesTo
  <2> QED BY <2>1, ReturnsKeepsInv
<1>3. CASE ~(step \notin Requests \/ p.conn = "open") /\ step # "playback-info"
  <2>1. Finally(c, p, "raised")
    BY <1>3 DEF GoesTo
  <2> QED BY <2>1, FinallyKeepsInv
<1> QED BY <1>1, <1>2, <1>3

(* The first states. *)
LEMMA PlayerInitInv == PlayerInit => PlayerInv
<1> SUFFICES ASSUME PlayerInit PROVE PlayerInv
  OBVIOUS
<1>1. Called \in PlayState
  BY CalledIsPlay
<1>2. PlayerType
  BY <1>1 DEF PlayerInit, PlayerType
<1>3. OnePlays /\ EndedWell
  BY PlayerAssumption DEF PlayerInit, OnePlays, EndedWell, Called, Ends, InPlayer, Requests, Waits
<1> QED BY <1>2, <1>3 DEF PlayerInv

(* What is a play is one with other fields, too. *)
LEMMA PlayFields ==
    ASSUME PlayerInv, NEW c \in Call
    PROVE  plays[c] \in PlayState
BY DEF PlayerInv, PlayerType

(* A step of a play that is not in the player before and after, and that   *)
(* leaves what it has taken alone.                                          *)
LEMMA OutsideKeepsInv ==
    ASSUME PlayerInv, NEW c \in Call, NEW p \in PlayState,
           plays[c].pc \in {"called", "start server", "close server"},
           p.pc \in {"called", "start server", "ended"}, p.conn = plays[c].conn,
           p.pc = "ended" => /\ p.outcome # "refused" => ~p.server
                             /\ p.outcome = "returned" => "timing" \notin p.left,
           Becomes(c, p), UNCHANGED <<version, stream, taken, media>>
    PROVE  PlayerInv'
<1>0. plays' = [plays EXCEPT ![c] = p] /\ plays \in [Call -> PlayState]
  BY DEF Becomes, PlayerInv, PlayerType
<1>1. \A d \in Call : plays'[d] = IF d = c THEN p ELSE plays[d]
  BY <1>0
<1>2. PlayerType'
  BY <1>0 DEF PlayerInv, PlayerType
<1>3. OnePlays'
  BY <1>1 DEF PlayerInv, OnePlays, InPlayer, Requests, Waits
<1>4. EndedWell'
  BY <1>1 DEF PlayerInv, EndedWell, Ends, InPlayer, Requests, Waits
<1> QED BY <1>2, <1>3, <1>4 DEF PlayerInv

(* Calls of play_url up to the connection. *)
LEMMA StartsKeepInv ==
    ASSUME PlayerInv, NEW c \in Call, StartServer(c) \/ Takeover(c) \/ Connected(c) \/ ConnectFails(c)
    PROVE  PlayerInv'
<1>0. plays[c] \in PlayState /\ plays \in [Call -> PlayState]
  BY PlayFields DEF PlayerInv, PlayerType
<1>1. CASE StartServer(c)
  <2> DEFINE p == [plays[c] EXCEPT !.pc = "start server", !.server = TRUE]
  <2>1. p \in PlayState /\ p.pc = "start server" /\ p.conn = plays[c].conn
    BY <1>0 DEF PlayState
  <2>2. plays[c].pc = "called" /\ Becomes(c, p) /\ UNCHANGED <<version, stream, taken, media>>
    BY <1>1 DEF StartServer
  <2> HIDE DEF p
  <2> QED BY <2>1, <2>2, OutsideKeepsInv
<1>2. CASE Takeover(c) /\ taken = None
  <2> DEFINE p == [plays[c] EXCEPT !.pc = "http_connect"]
  <2>1. p \in PlayState /\ p.pc = "http_connect" /\ p.conn = plays[c].conn
    BY <1>0 DEF PlayState
  <2>2. /\ plays' = [plays EXCEPT ![c] = p] /\ taken' = c /\ UNCHANGED <<version, stream, media>>
        /\ plays[c].pc \in {"called", "start server"}
    BY <1>2 DEF Takeover, Becomes
  <2> HIDE DEF p
  <2>3. \A d \in Call : plays'[d] = IF d = c THEN p ELSE plays[d]
    BY <1>0, <2>2
  <2>4. PlayerType'
    BY <1>0, <2>1, <2>2 DEF PlayerInv, PlayerType
  <2>5. \A d \in Call : /\ plays[d].pc \notin InPlayer \cup {"http_connect"} /\ stream.connection # d
                        /\ stream.task # d /\ plays[d].conn # "open"
    BY <1>2, PlayerAssumption DEF PlayerInv, OnePlays
  <2>6. OnePlays'
    BY <2>1, <2>2, <2>3, <2>5 DEF OnePlays
  <2>7. EndedWell'
    BY <2>1, <2>3 DEF PlayerInv, EndedWell, Ends
  <2> QED BY <2>4, <2>6, <2>7 DEF PlayerInv
<1>3. CASE Takeover(c) /\ taken # None
  <2> DEFINE p == [plays[c] EXCEPT !.pc = "ended", !.outcome = "refused"]
  <2>1. p \in PlayState /\ p.pc = "ended" /\ p.conn = plays[c].conn /\ p.outcome = "refused"
    BY <1>0 DEF PlayState, Ends
  <2>2. /\ plays[c].pc \in {"called", "start server"}
        /\ Becomes(c, p) /\ UNCHANGED <<version, stream, taken, media>>
    BY <1>3 DEF Takeover
  <2> HIDE DEF p
  <2> QED BY <2>1, <2>2, OutsideKeepsInv
<1>4. CASE Connected(c)
  <2> DEFINE p == [plays[c] EXCEPT !.pc = "timing", !.conn = "open"]
  <2>1. p \in PlayState /\ p.pc = "timing" /\ p.pc \in InPlayer
    BY <1>0 DEF PlayState, InPlayer, Waits
  <2>2. /\ plays' = [plays EXCEPT ![c] = p] /\ stream' = [connection |-> c, task |-> c]
        /\ UNCHANGED <<version, taken, media>> /\ plays[c].pc = "http_connect"
    BY <1>4 DEF Connected, Becomes
  <2> HIDE DEF p
  <2>3. \A d \in Call : plays'[d] = IF d = c THEN p ELSE plays[d]
    BY <1>0, <2>2
  <2>4. PlayerType'
    BY <1>0, <2>1, <2>2 DEF PlayerInv, PlayerType
  <2>5. \A d \in Call : d # c => plays[d].pc \notin InPlayer \cup {"http_connect"} /\ plays[d].conn # "open"
    BY <2>2, PlayerAssumption DEF PlayerInv, OnePlays
  <2>6. OnePlays'
    BY <2>1, <2>2, <2>3, <2>5 DEF PlayerInv, OnePlays
  <2>7. EndedWell'
    BY <2>1, <2>3 DEF PlayerInv, EndedWell, Ends
  <2> QED BY <2>4, <2>6, <2>7 DEF PlayerInv
<1>5. CASE ConnectFails(c)
  <2>1. plays[c].pc = "http_connect" /\ Finally(c, plays[c], "raised") /\ UNCHANGED <<version, media>>
    BY <1>5 DEF ConnectFails
  <2> QED BY <1>0, <2>1, FinallyKeepsInv
<1> QED BY <1>1, <1>2, <1>3, <1>4, <1>5

(* The step of a play is done, and the response to /play. *)
LEMMA StepKeepsInv ==
    ASSUME PlayerInv, NEW c \in Call, Step(c)
    PROVE  PlayerInv'
<1>0. plays[c] \in PlayState /\ version \in {1, 2}
  BY PlayFields DEF PlayerInv, PlayerType
<1>1. PICK i \in 1..Len(Steps), code \in {"ok", "500", "4xx"} :
         LET p == [plays[c] EXCEPT !.code = code, !.refused = 0,
                                   !.left = IF Steps[i] = "events"
                                            THEN @ \cup {"events", "feedback"} ELSE @]
         IN /\ Steps[i] = plays[c].pc
            /\ IF i = Len(Steps) THEN Response(c, p) ELSE GoesTo(c, p, Steps[i + 1])
  BY <1>0 DEF Step, PlayState
<1>2. UNCHANGED <<version, media>>
  BY DEF Step
<1> DEFINE p == [plays[c] EXCEPT !.code = code, !.refused = 0,
                                 !.left = IF Steps[i] = "events"
                                          THEN @ \cup {"events", "feedback"} ELSE @]
<1>3. p \in PlayState /\ p.conn = plays[c].conn /\ p.pc = plays[c].pc
  <2> DEFINE x == IF Steps[i] = "events" THEN plays[c].left \cup {"events", "feedback"} ELSE plays[c].left
             q == [plays[c] EXCEPT !.code = code]
             r == [q EXCEPT !.refused = 0]
             s == [r EXCEPT !.left = x]
  <2>1. x \in SUBSET {"timing", "events", "feedback"}
    <3>1. plays[c].left \in SUBSET {"timing", "events", "feedback"}
      BY <1>0 DEF PlayState
    <3> QED BY <3>1
  <2>2. p = [plays[c] EXCEPT !.code = code, !.refused = 0, !.left = x]
    BY DEF x
  <2> HIDE DEF x
  <2>3. p = s
    BY <2>2, Zenon DEF q, r, s
  <2>4. q \in PlayState /\ q.conn = plays[c].conn /\ q.pc = plays[c].pc
    BY <1>0 DEF PlayState
  <2> HIDE DEF q
  <2>5. r \in PlayState /\ r.conn = plays[c].conn /\ r.pc = plays[c].pc
    <3>1. 0 \in Int
      OBVIOUS
    <3>2. r \in PlayState
      BY <2>4, <3>1 DEF PlayState
    <3>3. r.conn = q.conn /\ r.pc = q.pc
      BY <2>4 DEF PlayState
    <3> HIDE DEF r
    <3> QED BY <2>4, <3>2, <3>3
  <2> HIDE DEF r
  <2>6. s \in PlayState /\ s.conn = plays[c].conn /\ s.pc = plays[c].pc
    BY <2>1, <2>5 DEF PlayState
  <2> HIDE DEF s, p
  <2> QED BY <2>3, <2>6
<1>4. IF i = Len(Steps) THEN Response(c, p) ELSE GoesTo(c, p, Steps[i + 1])
  BY <1>1
<1>5. plays[c].pc \in InPlayer /\ (i # Len(Steps) => Steps[i + 1] \in InPlayer)
  BY <1>0, <1>1, StepsOfPlayer
<1> HIDE DEF p
<1>6. CASE i # Len(Steps)
  BY <1>2, <1>3, <1>4, <1>5, <1>6, GoesToKeepsInv
<1>7. CASE i = Len(Steps)
  <2>1. Response(c, p)
    BY <1>4, <1>7
  <2>2. CASE p.code = "500"
    <3> DEFINE q == [p EXCEPT !.pc = "retry", !.retry = @ + 1]
    <3>1. q \in PlayState /\ q.pc \in InPlayer /\ q.conn = p.conn
      <4> DEFINE r == [p EXCEPT !.pc = "retry"]
                 n == p.retry + 1
                 s == [r EXCEPT !.retry = n]
      <4>1. n \in Int /\ "retry" \in InPlayer
        BY <1>3, PlayNumbers DEF InPlayer, Waits
      <4>2. q = s
        BY Zenon DEF q, r, s, n
      <4> HIDE DEF n, q
      <4>3. r \in PlayState /\ r.pc = "retry" /\ r.conn = p.conn
        BY <1>3, <4>1 DEF PlayState
      <4> HIDE DEF r
      <4>4. s \in PlayState /\ s.pc = "retry" /\ s.conn = p.conn
        BY <4>1, <4>3 DEF PlayState
      <4> HIDE DEF s
      <4> QED BY <4>1, <4>2, <4>4
    <3>2. Becomes(c, q) /\ UNCHANGED <<stream, taken>>
      BY <2>1, <2>2 DEF Response
    <3> HIDE DEF q
    <3> QED BY <1>2, <1>3, <1>5, <3>1, <3>2, GoesOnKeepsInv
  <2>3. CASE p.code = "4xx"
    <3>1. Finally(c, p, "raised")
      BY <2>1, <2>3 DEF Response
    <3> QED BY <1>2, <1>3, <1>5, <3>1, FinallyKeepsInv
  <2>4. CASE p.code = "ok"
    <3> DEFINE q == [p EXCEPT !.attempts = WAIT_RETRIES]
    <3>1. q \in PlayState /\ q.conn = p.conn /\ "playback-info" \in InPlayer
      <4>1. WAIT_RETRIES \in Int
        BY PlayerAssumption
      <4>2. q \in PlayState /\ q.conn = p.conn
        BY <1>3, <4>1 DEF PlayState
      <4> QED BY <4>2 DEF InPlayer, Requests
    <3>2. GoesTo(c, q, "playback-info")
      BY <2>1, <2>4 DEF Response
    <3> HIDE DEF q
    <3> QED BY <1>2, <1>3, <1>5, <3>1, <3>2, GoesToKeepsInv
  <2> QED BY <2>1, <2>2, <2>3, <2>4 DEF Response
<1> QED BY <1>6, <1>7

(* The other steps of a play that is in the player. *)
LEMMA RunsKeepInv ==
    ASSUME PlayerInv, NEW c \in Call,
           \/ TimingServer(c) \/ EventsRefused(c) \/ Fails(c) \/ Retry(c) \/ Sleeps(c)
           \/ Cancelled(c) \/ CallerCancelled(c) \/ PlaybackInfo(c) \/ PlaybackInfoError(c)
    PROVE  PlayerInv'
<1>0. plays[c] \in PlayState /\ version \in {1, 2} /\ Steps[1] \in InPlayer /\ "playback-info" \in InPlayer
  BY PlayFields, StepsOfPlayer DEF PlayerInv, PlayerType, InPlayer, Requests
<1>1. CASE TimingServer(c)
  <2> DEFINE p == [plays[c] EXCEPT !.left = @ \cup {"timing"}]
  <2>1. p \in PlayState /\ p.conn = plays[c].conn
    BY <1>0 DEF PlayState
  <2>2. plays[c].pc \in InPlayer /\ GoesTo(c, p, Steps[1]) /\ UNCHANGED <<version, media>>
    BY <1>1 DEF TimingServer, Begins, InPlayer, Waits
  <2> HIDE DEF p
  <2> QED BY <1>0, <2>1, <2>2, GoesToKeepsInv
<1>2. CASE EventsRefused(c)
  <2>1. plays[c].pc \in InPlayer /\ UNCHANGED <<version, media>>
    BY <1>2 DEF EventsRefused, InPlayer, Waits
  <2>2. CASE Finally(c, plays[c], "raised")
    BY <1>0, <2>1, <2>2, FinallyKeepsInv
  <2>3. CASE /\ Becomes(c, [plays[c] EXCEPT !.refused = @ + 1]) /\ UNCHANGED <<stream, taken>>
    <3> DEFINE p == [plays[c] EXCEPT !.refused = @ + 1]
    <3>1. p \in PlayState /\ p.conn = plays[c].conn /\ p.pc = plays[c].pc
      <4> DEFINE n == plays[c].refused + 1
      <4>1. n \in Int
        BY <1>0, PlayNumbers
      <4> HIDE DEF n
      <4>2. /\ [plays[c] EXCEPT !.refused = n] \in PlayState
            /\ [plays[c] EXCEPT !.refused = n].conn = plays[c].conn
            /\ [plays[c] EXCEPT !.refused = n].pc = plays[c].pc
        BY <1>0, <4>1 DEF PlayState
      <4> QED BY <4>2 DEF n
    <3>2. Becomes(c, p) /\ UNCHANGED <<stream, taken>>
      BY <2>3
    <3> HIDE DEF p
    <3> QED BY <2>1, <3>1, <3>2, GoesOnKeepsInv
  <2> QED BY <1>2, <2>2, <2>3 DEF EventsRefused
<1>3. CASE Fails(c)
  <2>1. plays[c].pc \in InPlayer /\ UNCHANGED <<version, media>>
    BY <1>3 DEF Fails, InPlayer, Waits
  <2>2. Returns(c, plays[c], "returned") \/ Finally(c, plays[c], "raised")
    BY <1>3 DEF Fails
  <2>3. CASE Returns(c, plays[c], "returned")
    BY <1>0, <2>1, <2>3, ReturnsKeepsInv
  <2>4. CASE Finally(c, plays[c], "raised")
    BY <1>0, <2>1, <2>4, FinallyKeepsInv
  <2> QED BY <2>2, <2>3, <2>4
<1>4. CASE Retry(c)
  <2>1. plays[c].pc \in InPlayer /\ UNCHANGED <<version, media>>
    BY <1>4 DEF Retry, InPlayer, Waits
  <2>2. GoesTo(c, plays[c], Steps[1]) \/ Returns(c, plays[c], "raised")
    BY <1>4 DEF Retry, Begins
  <2>3. CASE GoesTo(c, plays[c], Steps[1])
    BY <1>0, <2>1, <2>3, GoesToKeepsInv
  <2>4. CASE Returns(c, plays[c], "raised")
    BY <1>0, <2>1, <2>4, ReturnsKeepsInv
  <2> QED BY <2>2, <2>3, <2>4
<1>5. CASE Sleeps(c)
  <2>1. plays[c].pc \in InPlayer /\ GoesTo(c, plays[c], "playback-info") /\ UNCHANGED <<version, media>>
    BY <1>5 DEF Sleeps, InPlayer, Waits
  <2> QED BY <1>0, <2>1, GoesToKeepsInv
<1>6. CASE Cancelled(c)
  <2>1. plays[c].pc \in InPlayer /\ Finally(c, plays[c], "cancelled") /\ UNCHANGED <<version, media>>
    BY <1>6 DEF Cancelled
  <2> QED BY <1>0, <2>1, FinallyKeepsInv
<1>7. CASE CallerCancelled(c)
  <2>1. UNCHANGED <<version, media>>
    BY <1>7 DEF CallerCancelled
  <2>2. CASE plays[c].pc = "http_connect" /\ Finally(c, plays[c], "cancelled")
    BY <1>0, <2>1, <2>2, FinallyKeepsInv
  <2>3. CASE /\ plays[c].pc \in InPlayer
             /\ Becomes(c, [plays[c] EXCEPT !.cancelled = TRUE]) /\ UNCHANGED <<stream, taken>>
    <3> DEFINE p == [plays[c] EXCEPT !.cancelled = TRUE]
    <3>1. p \in PlayState /\ p.conn = plays[c].conn /\ p.pc = plays[c].pc
      BY <1>0 DEF PlayState
    <3>2. Becomes(c, p) /\ UNCHANGED <<stream, taken>>
      BY <2>3
    <3> HIDE DEF p
    <3> QED BY <2>1, <2>3, <3>1, <3>2, GoesOnKeepsInv
  <2> QED BY <1>7, <2>2, <2>3 DEF CallerCancelled
<1>8. CASE PlaybackInfo(c)
  <2> DEFINE started == media[c] = "playing"
             p == [plays[c] EXCEPT !.attempts = AttemptsLeft(plays[c], started)]
             q == [p EXCEPT !.pc = "sleep"]
  <2>1. AttemptsLeft(plays[c], started) \in Int
    BY <1>0, PlayNumbers DEF AttemptsLeft
  <2>2. p \in PlayState /\ p.conn = plays[c].conn
    BY <1>0, <2>1 DEF PlayState
  <2>3. q \in PlayState /\ q.conn = plays[c].conn /\ q.pc \in InPlayer
    <3>1. "sleep" \in InPlayer
      BY DEF InPlayer, Waits
    <3>2. q = [p EXCEPT !.pc = "sleep"]
      OBVIOUS
    <3> HIDE DEF p, q
    <3> QED BY <2>2, <3>1, <3>2, PlayStep
  <2>4. plays[c].pc \in InPlayer /\ UNCHANGED <<version, media>>
    BY <1>8 DEF PlaybackInfo, InPlayer, Requests
  <2>5. Returns(c, p, "returned") \/ (Becomes(c, q) /\ UNCHANGED <<stream, taken>>)
    BY <1>8 DEF PlaybackInfo
  <2> HIDE DEF p, q
  <2>6. CASE Returns(c, p, "returned")
    BY <2>2, <2>4, <2>6, ReturnsKeepsInv
  <2>7. CASE Becomes(c, q) /\ UNCHANGED <<stream, taken>>
    BY <2>3, <2>4, <2>7, GoesOnKeepsInv
  <2> QED BY <2>5, <2>6, <2>7
<1>9. CASE PlaybackInfoError(c)
  <2>1. plays[c].pc \in InPlayer /\ Finally(c, plays[c], "raised") /\ UNCHANGED <<version, media>>
    BY <1>9 DEF PlaybackInfoError, InPlayer, Requests
  <2> QED BY <1>0, <2>1, FinallyKeepsInv
<1> QED BY <1>1, <1>2, <1>3, <1>4, <1>5, <1>6, <1>7, <1>8, <1>9

(* The user closes, the network fails, others play. *)
LEMMA OthersKeepInv ==
    ASSUME PlayerInv,
           \/ Stop \/ StreamClose \/ OtherTakesOver
           \/ \E c \in Call : ServerCloses(c) \/ DeviceGoesOn(c) \/ LoseConnection(c)
    PROVE  PlayerInv'
<1>0. plays \in [Call -> PlayState] /\ stream \in [connection : Call \cup {None}, task : Call \cup {None}]
  BY DEF PlayerInv, PlayerType
<1>1. /\ ConnectionClosed \in [Call -> PlayState]
      /\ \A d \in Call : /\ ConnectionClosed[d].pc = plays[d].pc /\ ConnectionClosed[d].conn # "open"
                          /\ ConnectionClosed[d].outcome = plays[d].outcome
                          /\ ConnectionClosed[d].left = plays[d].left
                          /\ ConnectionClosed[d].server = plays[d].server
  <2>1. CASE stream.connection = None
    BY <1>0, <2>1, PlayerAssumption DEF ConnectionClosed, PlayerInv, OnePlays
  <2>2. CASE stream.connection # None
    <3>1. stream.connection \in Call
      BY <1>0, <2>2
    <3>2. \A d \in Call : d # stream.connection => plays[d].conn # "open"
      BY DEF PlayerInv, OnePlays
    <3> DEFINE x == stream.connection
               p == plays[x]
               q == IF p.conn = "open" THEN [p EXCEPT !.conn = "closed"] ELSE p
    <3>3. p \in PlayState
      BY <1>0, <3>1
    <3>4. /\ q \in PlayState /\ q.pc = p.pc /\ q.left = p.left /\ q.outcome = p.outcome
          /\ q.server = p.server /\ q.conn # "open"
      BY <3>3, PlayCut
    <3>5. p.conn # "open" => [p EXCEPT !.conn = p.conn] = p
      BY <3>3 DEF PlayState
    <3>6. ConnectionClosed = [plays EXCEPT ![x] = q]
      BY <1>0, <2>2, <3>1, <3>5 DEF ConnectionClosed
    <3> HIDE DEF x, p, q
    <3>7. x \in Call /\ \A d \in Call : ConnectionClosed[d] = IF d = x THEN q ELSE plays[d]
      BY <1>0, <3>1, <3>6 DEF x
    <3>8. p = plays[x] /\ \A d \in Call : d # x => plays[d].conn # "open"
      BY <3>2 DEF p, x
    <3> QED BY <1>0, <3>4, <3>6, <3>7, <3>8
  <2> QED BY <2>1, <2>2
<1>2. ASSUME NEW f \in [Call -> PlayState], plays' = f, UNCHANGED <<version, taken, media>>,
             stream' \in {stream, [connection |-> None, task |-> None]},
             \A d \in Call : f[d].pc = plays[d].pc /\ f[d].conn # "open"
                             /\ f[d].outcome = plays[d].outcome /\ f[d].left = plays[d].left
                             /\ f[d].server = plays[d].server
      PROVE PlayerInv'
  <2>1. PlayerType'
    BY <1>0, <1>2 DEF PlayerInv, PlayerType
  <2>2. OnePlays'
    BY <1>2, PlayerAssumption DEF PlayerInv, OnePlays
  <2>3. EndedWell'
    BY <1>2 DEF PlayerInv, EndedWell
  <2> QED BY <2>1, <2>2, <2>3 DEF PlayerInv
<1>3. CASE Stop
  <2>1. plays' = ConnectionClosed /\ UNCHANGED <<version, stream, taken, media>>
    BY <1>3 DEF Stop
  <2> QED BY <1>1, <1>2, <2>1
<1>4. CASE StreamClose
  <2>1. /\ UNCHANGED <<version, taken, media>> /\ stream' = [connection |-> None, task |-> None]
        /\ plays' = IF stream.task = None THEN ConnectionClosed
                    ELSE [ConnectionClosed EXCEPT ![stream.task].cancelled = TRUE]
    BY <1>4 DEF StreamClose
  <2> DEFINE f == [ConnectionClosed EXCEPT ![stream.task].cancelled = TRUE]
  <2>2. /\ f \in [Call -> PlayState]
        /\ \A d \in Call : f[d].pc = plays[d].pc /\ f[d].conn # "open"
                            /\ f[d].outcome = plays[d].outcome /\ f[d].left = plays[d].left
                            /\ f[d].server = plays[d].server
    <3>1. CASE stream.task \notin Call
      BY <1>1, <3>1
    <3>2. CASE stream.task \in Call
      <4> DEFINE x == stream.task
                 p == ConnectionClosed[x]
                 q == [p EXCEPT !.cancelled = TRUE]
      <4>1. p \in PlayState
        BY <1>1, <3>2
      <4>2. /\ q \in PlayState /\ q.pc = p.pc /\ q.left = p.left /\ q.outcome = p.outcome
            /\ q.server = p.server /\ q.conn # "open"
        <5>1. p.conn # "open"
          BY <1>1, <3>2
        <5>2. q = [p EXCEPT !.cancelled = TRUE]
          OBVIOUS
        <5> HIDE DEF p, q
        <5> QED BY <4>1, <5>1, <5>2, PlayCancelled
      <4>3. f = [ConnectionClosed EXCEPT ![x] = q]
        BY <1>1, <3>2
      <4> HIDE DEF f, q, p, x
      <4>4. x \in Call /\ \A d \in Call : f[d] = IF d = x THEN q ELSE ConnectionClosed[d]
        BY <1>1, <3>2, <4>3 DEF x
      <4>5. p = ConnectionClosed[x]
        BY DEF p
      <4> QED BY <1>1, <4>2, <4>3, <4>4, <4>5
    <3> QED BY <3>1, <3>2
  <2> HIDE DEF f
  <2>3. CASE stream.task = None
    BY <1>1, <1>2, <2>1, <2>3
  <2>4. CASE stream.task # None
    <3>1. plays' = f
      BY <2>1, <2>4 DEF f
    <3> QED BY <1>2, <2>1, <2>2, <3>1
  <2> QED BY <2>3, <2>4
<1>5. CASE OtherTakesOver
  <2>1. /\ UNCHANGED <<version, plays, stream, media>> /\ taken \in {None, Other} /\ taken' \in {None, Other}
    BY <1>5 DEF OtherTakesOver
  <2>2. PlayerType'
    BY <2>1 DEF PlayerInv, PlayerType
  <2>3. OnePlays'
    BY <2>1, PlayerAssumption DEF PlayerInv, OnePlays
  <2>4. EndedWell'
    BY <2>1 DEF PlayerInv, EndedWell
  <2> QED BY <2>2, <2>3, <2>4 DEF PlayerInv
<1>6. ASSUME NEW c \in Call, ServerCloses(c) PROVE PlayerInv'
  <2> DEFINE p == [plays[c] EXCEPT !.pc = "ended", !.server = FALSE]
  <2>1. p \in PlayState /\ p.conn = plays[c].conn /\ p.pc = "ended" /\ ~p.server
        /\ p.outcome = plays[c].outcome /\ p.left = plays[c].left
    <3> DEFINE q == [plays[c] EXCEPT !.pc = "ended"]
               r == [q EXCEPT !.server = FALSE]
    <3>1. p = r
      BY Zenon DEF p, q, r
    <3>2. /\ q \in PlayState /\ q.pc = "ended" /\ q.conn = plays[c].conn
          /\ q.outcome = plays[c].outcome /\ q.left = plays[c].left
      <4>1. "ended" \in Ends /\ q = [plays[c] EXCEPT !.pc = "ended"]
        BY DEF Ends
      <4> HIDE DEF q
      <4> QED BY <1>0, <4>1, PlayStep
    <3> HIDE DEF p, q
    <3> QED BY <3>1, <3>2, PlayFlags
  <2>2. plays[c].pc = "close server" /\ Becomes(c, p) /\ UNCHANGED <<version, stream, taken, media>>
    BY <1>6 DEF ServerCloses
  <2> HIDE DEF p
  <2>3. p.outcome = "returned" => "timing" \notin p.left
    BY <2>1, <2>2 DEF PlayerInv, EndedWell, Ends
  <2> QED BY <2>1, <2>2, <2>3, OutsideKeepsInv
<1>7. ASSUME NEW c \in Call, DeviceGoesOn(c) PROVE PlayerInv'
  <2>1. UNCHANGED <<version, plays, stream, taken>> /\ media' \in [Call -> {"loading", "playing", "over"}]
    BY <1>7 DEF DeviceGoesOn, PlayerInv, PlayerType
  <2>2. PlayerType'
    BY <2>1 DEF PlayerInv, PlayerType
  <2>3. OnePlays' /\ EndedWell'
    BY <2>1 DEF PlayerInv, OnePlays, EndedWell
  <2> QED BY <2>2, <2>3 DEF PlayerInv
<1>8. ASSUME NEW c \in Call, LoseConnection(c) PROVE PlayerInv'
  <2> DEFINE f == [plays EXCEPT ![c].conn = "lost"]
  <2>1. plays[c].conn = "open" /\ plays' = f /\ UNCHANGED <<version, stream, taken, media>>
    BY <1>0, <1>8 DEF LoseConnection, Becomes
  <2>2. \A d \in Call : d # c => plays[d].conn # "open"
    BY <2>1 DEF PlayerInv, OnePlays
  <2>3. /\ f \in [Call -> PlayState]
        /\ \A d \in Call : f[d].pc = plays[d].pc /\ f[d].conn # "open"
                            /\ f[d].outcome = plays[d].outcome /\ f[d].left = plays[d].left
                            /\ f[d].server = plays[d].server
    <3> DEFINE p == plays[c]
               q == [p EXCEPT !.conn = "lost"]
    <3>1. /\ q \in PlayState /\ q.pc = p.pc /\ q.left = p.left /\ q.outcome = p.outcome
          /\ q.server = p.server /\ q.conn = "lost"
      BY <1>0, PlayCut
    <3>2. f = [plays EXCEPT ![c] = q]
      BY <1>0
    <3> HIDE DEF f, q
    <3>3. \A d \in Call : f[d] = IF d = c THEN q ELSE plays[d]
      BY <1>0, <3>2
    <3> QED BY <1>0, <2>2, <3>1, <3>2, <3>3
  <2> HIDE DEF f
  <2> QED BY <1>2, <2>1, <2>3
<1> QED BY <1>3, <1>4, <1>5, <1>6, <1>7, <1>8

(* What a play took is given back: for all calls, retries and attempts. *)
LEMMA PlayerInvHolds == PlayerSpec => []PlayerInv
<1>1. PlayerInv /\ [PlayerNext]_playerVars => PlayerInv'
  <2> SUFFICES ASSUME PlayerInv, [PlayerNext]_playerVars PROVE PlayerInv'
    OBVIOUS
  <2>1. CASE UNCHANGED playerVars
    <3>1. UNCHANGED <<version, plays, stream, taken, media>>
      BY <2>1 DEF playerVars
    <3> QED BY <3>1 DEF PlayerInv, PlayerType, OnePlays, EndedWell
  <2>2. CASE PlayerNext
    <3>1. ASSUME NEW c \in Call, PlayRuns(c) \/ StartServer(c) \/ Takeover(c) \/ CallerCancelled(c)
                                 \/ DeviceGoesOn(c) \/ LoseConnection(c)
          PROVE PlayerInv'
      BY <3>1, StartsKeepInv, StepKeepsInv, RunsKeepInv, OthersKeepInv DEF PlayRuns
    <3>2. CASE Stop \/ StreamClose \/ OtherTakesOver
      BY <3>2, OthersKeepInv
    <3> QED BY <2>2, <3>1, <3>2 DEF PlayerNext
  <2> QED BY <2>1, <2>2
<1> QED BY <1>1, PlayerInitInv, PTL DEF PlayerSpec

(* Calls of play_url, the stream of the player and what it has taken keep    *)
(* their types: a play only ever is at a step that the code has.           *)
THEOREM PlayerTypeCorrect == PlayerSpec => []PlayerType
<1>1. PlayerInv => PlayerType
  BY DEF PlayerInv
<1> QED BY <1>1, PlayerInvHolds, PTL

(* Whatever becomes of it - an address that is refused, a connection that   *)
(* fails, an error, a retry, stop(), another play or close() - a play that *)
(* is over has given back what it took: the interfaces, the connection,    *)
(* the server it started and, if it has returned, the timing server.       *)
THEOREM WhatAPlayTookIsReleased == PlayerSpec => []PlayReleases
<1>1. PlayerInv => PlayReleases
  <2> SUFFICES ASSUME PlayerInv, NEW c \in Call, plays[c].pc = "ended", plays[c].outcome # "refused"
               PROVE  /\ taken # c /\ plays[c].conn # "open" /\ ~plays[c].server
                      /\ plays[c].outcome = "returned" => "timing" \notin plays[c].left
    BY DEF PlayReleases
  <2>1. "ended" \notin InPlayer \cup {"http_connect"} /\ "ended" \in Ends
    BY DEF InPlayer, Requests, Waits, Ends
  <2> QED BY <2>1 DEF PlayerInv, OnePlays, EndedWell
<1> QED BY <1>1, PlayerInvHolds, PTL

(***************************************************************************)
(* Pairing and verification.                                               *)
(***************************************************************************)
HapSpec == HapInit /\ [][HapNext]_hapVars

(* Symbolic keys, what messages are encrypted with, and the messages.  An   *)
(* M6 carries the SRP key of a server, which knows its PIN.                 *)
Kind == {"M1", "M2", "M3", "M4", "M5", "M6", "V1", "V2", "V3", "V4", "T1", "T2", "T3", "T4",
         "L1", "L2", "L3", "L4", "L5", "L6", "LV1", "LV2", "LV3", "LV4",
         "pin", "pin-started", "D", "R", "Error", "500"}
Pair == (Pins \cup Devices \cup {Nil, "public"}) \X Nat
Key == Pair \cup {<<>>}
Cipher == ({"ClientEncrypt-main", "ServerEncrypt-main", "Write", "Read"} \X Key) \cup {Plain}
ProvenKey == ({PIN_CODE} \X Nat) \cup {<<>>}
Ask == [k : Kind, key : Pair, enc : Cipher]
Answer == {m \in [k : Kind, key : Key, enc : Cipher] : m.k = "M6" => m.key \in ProvenKey}

HapType ==
    /\ proto \in Protos
    /\ hnd \in [started : BOOLEAN, begun : BOOLEAN, pin : Pins \cup {Nil}, paired : BOOLEAN,
                keys : Nat, expired : BOOLEAN]
    /\ cred \in [dev : {Nil, "own"}, pin : Pins \cup {Nil}]
    /\ link \in [kind : {Nil, "pairing", "session"}, dev : Devices \cup {Nil}, out : Cipher, in : Cipher]
    /\ srv \in [key : ProvenKey, secret : Key, mode : {"setup", "verify"}, out : Cipher, in : Cipher,
                on : BOOLEAN]
    /\ toDevice \in Seq(Ask)
    /\ toClient \in Seq(Answer)

(* What may be awaited. *)
CallInTurn ==
    /\ call.op \in {Nil, "begin", "finish", "connect", "use"}
    /\ call.op = "begin" => call.at = (IF proto = "legacy" THEN "pin" ELSE "M1")
    /\ call.op = "finish" => call.at \in IF proto = "legacy" THEN {"L1", "L3", "L5"} ELSE {"M3", "M5", "V1", "V3"}
    /\ call.op = "finish" => hnd.begun
    /\ call.op = "begin" => ~hnd.begun
    /\ call.op \in {"begin", "finish"} => link.kind # "session"
    /\ call.op \in {"connect", "use"} => link.kind # "pairing"
    /\ link.kind = Nil => toDevice = <<>> /\ toClient = <<>>

(* The PIN was right as soon as MRP verifies what it paired, and as soon as *)
(* a legacy device has not refused it.                                      *)
PinProven ==
    /\ call.op = "finish" /\ call.at \in {"V1", "V3"} => hnd.pin = PIN_CODE
    /\ call.op = "finish" /\ call.at = "L5" /\ ~hnd.expired => hnd.pin = PIN_CODE

(* At most one message is under way. *)
Idle == toDevice = <<>> /\ toClient = <<>>
Asks == toClient = <<>> /\ toDevice = <<toDevice[1]>> /\ toDevice[1].k = call.at
Answers == toDevice = <<>> /\ toClient = <<toClient[1]>>

(* Requests and answers of a legacy pairing alternate until a time is up. *)
LegacyTurn ==
    proto = "legacy" /\ link.kind = "pairing" =>
        /\ call.op = "begin" => Idle \/ Asks \/ Answers
        /\ hnd.begun /\ ~hnd.expired =>
            /\ call.op = Nil => Idle
            /\ call.op = "finish" =>
                \/ Idle
                \/ Asks /\ (call.at = "L3" => toDevice[1].key[1] = hnd.pin)
                \/ Answers /\ (call.at = "L3" /\ toClient[1].k # "500" => hnd.pin = PIN_CODE)

(* Both ends of a session have the same keys, the device speaks in the     *)
(* clear until they are in use.                                            *)
InSync ==
    /\ srv.in = link.out /\ srv.out = link.in
    /\ srv.in = Plain => ~srv.on /\ srv.out = Plain

(* The device has enabled encryption, and the client has not yet. *)
SecretOfCall == IF call.at = "V3" THEN Shared(hnd.keys, link.dev) ELSE SrpKey(Nil, hnd.keys)
Enabled == srv.in = <<ClientWrites, SecretOfCall>> /\ srv.out = <<ClientReads, SecretOfCall>>
Clear == srv.in = Plain /\ srv.out = Plain

Connecting ==
    /\ link.out = Plain /\ link.in = Plain /\ ~srv.on
    /\ Asks \/ Answers
    /\ Asks => toDevice[1].enc = Plain /\ Clear
    /\ Answers => toClient[1].enc = Plain
    /\ call.at \in {"V1", "V3", "T1", "T3", "LV1", "LV3"}
    /\ call.at \in {"V1", "V3"} => cred # NoCredentials
    /\ call.at \in {"T1", "T3"} => cred = NoCredentials /\ proto # "companion"
    /\ call.at = "V1" => /\ Clear
                         /\ Asks => toDevice[1].key[2] = hnd.keys
                         /\ Answers => /\ toClient[1].key = Signature(link.dev)
                                       /\ srv.secret = Shared(hnd.keys, link.dev)
    /\ call.at = "V3" => /\ link.dev = cred.dev /\ srv.secret = Shared(hnd.keys, link.dev)
                         /\ Answers => Enabled
    /\ call.at \in {"T1", "LV1", "LV3"} => Clear
    /\ call.at = "T3" => /\ Asks => toDevice[1].key[2] = hnd.keys
                         /\ Answers => Enabled

SessionInTurn ==
    /\ ~garbled /\ OnlyOurDevice
    /\ link.kind = "session" =>
        /\ call.op = Nil => Idle /\ InSync
        /\ call.op = "use" => /\ call.at = "D" /\ InSync
                              /\ \/ Asks /\ toDevice[1].enc = link.out
                                 \/ Answers /\ toClient[1].enc = link.in
        /\ call.op = "connect" => Connecting

PairInv == HapType /\ CallInTurn /\ PairedIsProven /\ PinProven /\ LegacyTurn /\ SessionInTurn

-----------------------------------------------------------------------------
USE DEF Nil

(* A queue of one message. *)
LEMMA Single ==
    ASSUME NEW m
    PROVE  /\ <<m>> # <<>> /\ Head(<<m>>) = m /\ Tail(<<m>>) = <<>> /\ <<m>>[1] = m
           /\ Append(<<>>, m) = <<m>>
OBVIOUS

(* Messages that are taken and put. *)
LEMMA Queue ==
    ASSUME NEW S, NEW q \in Seq(S)
    PROVE  /\ q # <<>> => Head(q) \in S /\ Tail(q) \in Seq(S)
           /\ \A m \in S : Append(q, m) \in Seq(S) /\ Append(q, m) # <<>>
           /\ \A m \in S : <<m>> \in Seq(S)
           /\ <<>> \in Seq(S)
<1>1. q # <<>> => Head(q) \in S /\ Tail(q) \in Seq(S)
  OBVIOUS
<1>2. ASSUME NEW m \in S PROVE Append(q, m) \in Seq(S)
  OBVIOUS
<1>3. ASSUME NEW m \in S PROVE Append(q, m) # <<>>
  <2>1. Len(Append(q, m)) = Len(q) + 1 /\ Len(q) \in Nat /\ Len(<<>>) = 0
    BY <1>2
  <2> QED BY <2>1
<1>4. ASSUME NEW m \in S PROVE <<m>> \in Seq(S)
  OBVIOUS
<1>5. <<>> \in Seq(S)
  OBVIOUS
<1> QED BY <1>1, <1>2, <1>3, <1>4, <1>5

(* What is not about a session leaves the sessions alone. *)
LEMMA NoSession ==
    ASSUME PairInv, link'.kind # "session", garbled' = garbled
    PROVE  SessionInTurn'
BY DEF PairInv, SessionInTurn, OnlyOurDevice

(* Credentials that are not touched. *)
LEMMA SameCredentials ==
    ASSUME PairInv, UNCHANGED <<proto, cred>>, hnd'.paired \in {FALSE, hnd.paired},
           hnd.expired => hnd'.expired
    PROVE  PairedIsProven'
BY DEF PairInv, PairedIsProven

(* What is not about a pairing. *)
LEMMA NoPairing ==
    ASSUME PairInv, UNCHANGED proto, link'.kind # "pairing", call'.op # "finish"
    PROVE  LegacyTurn' /\ PinProven'
BY DEF LegacyTurn, PinProven

(* Types of what the handlers make. *)
LEMMA Made ==
    ASSUME HapType, NEW n \in Nat
    PROVE  /\ Public(n) \in Pair /\ NoKey \in Pair /\ SrpKey(Nil, n) \in Pair
           /\ SrpKey(hnd.pin, n) \in Pair /\ NewServerSession(n) \in ProvenKey
           /\ \A d \in Devices \cup {Nil} : Shared(n, d) \in Pair
           /\ Pair \subseteq Key /\ Plain \in Cipher /\ ProvenKey \subseteq Key
           /\ \A secret \in Key, p \in Protos :
                 ServerEnables(p, secret).out \in Cipher /\ ServerEnables(p, secret).in \in Cipher
<1>1. hnd.pin \in Pins \cup {Nil}
  BY DEF HapType
<1>2. /\ Public(n) \in Pair /\ NoKey \in Pair /\ SrpKey(Nil, n) \in Pair
      /\ \A d \in Devices \cup {Nil} : Shared(n, d) \in Pair
  BY DEF Public, NoKey, SrpKey, Shared, Pair
<1>3. SrpKey(hnd.pin, n) \in Pair
  BY <1>1 DEF SrpKey, Pair
<1>4. NewServerSession(n) \in ProvenKey
  BY DEF NewServerSession, SrpKey, ProvenKey
<1>5. Pair \subseteq Key /\ Plain \in Cipher /\ ProvenKey \subseteq Key
  BY PinAssumption DEF Key, Cipher, ProvenKey, Pair
<1>6. ASSUME NEW secret \in Key, NEW p \in Protos
      PROVE  ServerEnables(p, secret).out \in Cipher /\ ServerEnables(p, secret).in \in Cipher
  BY DEF ServerEnables, Cipher, Expand
<1> QED BY <1>2, <1>3, <1>4, <1>5, <1>6

(* A request that is sent. *)
LEMMA Asked1 ==
    ASSUME HapType, NEW k \in Kind, NEW key \in Pair
    PROVE  /\ Request(k, key) \in Ask /\ Request(k, key).k = k /\ Request(k, key).key = key
           /\ Request(k, key).enc = link.out
BY DEF HapType, Request, Ask

(* An answer that is sent. *)
LEMMA Answered1 ==
    ASSUME NEW k \in Kind, NEW key \in Key, NEW enc \in Cipher, k = "M6" => key \in ProvenKey
    PROVE  [k |-> k, key |-> key, enc |-> enc] \in Answer
BY DEF Answer

-----------------------------------------------------------------------------
(* The connection goes: nothing is under way. *)
LEMMA ClosedKeeps ==
    ASSUME PairInv, Closes, UNCHANGED <<proto, cred, garbled>>,
           \/ UNCHANGED <<call, hnd>>
           \/ call' = NoCall /\ (hnd' = hnd \/ hnd' = [hnd EXCEPT !.expired = TRUE])
    PROVE  PairInv'
<1>0. /\ link' = NoLink /\ srv' = NoServer /\ toDevice' = <<>> /\ toClient' = <<>>
      /\ proto' = proto /\ cred' = cred /\ garbled' = garbled
  BY DEF Closes
<1>1. NoLink.kind = Nil /\ NoLink.dev = Nil /\ NoLink.out = Plain /\ NoLink.in = Plain /\ NoCall.op = Nil
  BY DEF NoLink, Fresh, NoCall
<1>2. HapType'
  <2>1. hnd' \in [started : BOOLEAN, begun : BOOLEAN, pin : Pins \cup {Nil}, paired : BOOLEAN,
                 keys : Nat, expired : BOOLEAN]
    BY DEF PairInv, HapType
  <2>2. NoLink \in [kind : {Nil, "pairing", "session"}, dev : Devices \cup {Nil}, out : Cipher, in : Cipher]
    BY DEF NoLink, Fresh, Cipher
  <2>3. NoServer \in [key : ProvenKey, secret : Key, mode : {"setup", "verify"}, out : Cipher,
                     in : Cipher, on : BOOLEAN]
    BY DEF NoServer, Cipher, Key, ProvenKey
  <2>4. <<>> \in Seq(Ask) /\ <<>> \in Seq(Answer)
    OBVIOUS
  <2> QED BY <1>0, <2>1, <2>2, <2>3, <2>4 DEF PairInv, HapType
<1>3. CallInTurn'
  BY <1>0, <1>1 DEF PairInv, CallInTurn
<1>4. PairedIsProven'
  <2>1. hnd'.paired \in {FALSE, hnd.paired} /\ (hnd.expired => hnd'.expired)
    BY DEF PairInv, HapType
  <2> QED BY <1>0, <2>1, SameCredentials
<1>5. PinProven'
  BY <1>0, <1>1 DEF PairInv, PinProven
<1>6. LegacyTurn'
  BY <1>0, <1>1 DEF LegacyTurn
<1>7. SessionInTurn'
  BY <1>0, <1>1, NoSession
<1> QED BY <1>2, <1>3, <1>4, <1>5, <1>6, <1>7 DEF PairInv

(* begin of a protocol that has started only makes new keys. *)
LEMMA BeginAgainKeeps == ASSUME PairInv, BeginAgain PROVE PairInv'
<1>0. /\ call.op = Nil /\ proto \in {"mrp", "companion"}
      /\ UNCHANGED <<proto, cred, call, link, srv, toDevice, toClient, garbled>>
      /\ hnd' = [hnd EXCEPT !.keys = @ + 1]
  BY DEF BeginAgain, StartsAgain
<1>1. hnd \in [started : BOOLEAN, begun : BOOLEAN, pin : Pins \cup {Nil}, paired : BOOLEAN,
              keys : Nat, expired : BOOLEAN]
  BY DEF PairInv, HapType
<1>2. hnd' \in [started : BOOLEAN, begun : BOOLEAN, pin : Pins \cup {Nil}, paired : BOOLEAN,
              keys : Nat, expired : BOOLEAN]
  <2>1. hnd.keys + 1 \in Nat
    BY <1>1
  <2> QED BY <1>0, <1>1, <2>1
<1>3. hnd'.paired = hnd.paired /\ hnd'.expired = hnd.expired
  BY <1>0, <1>1
<1>4. HapType'
  BY <1>0, <1>2 DEF PairInv, HapType
<1>5. CallInTurn'
  BY <1>0 DEF PairInv, CallInTurn
<1>6. PairedIsProven'
  BY <1>0, <1>3, SameCredentials
<1>7. PinProven' /\ LegacyTurn'
  BY <1>0 DEF PinProven, LegacyTurn
<1>8. SessionInTurn'
  BY <1>0 DEF PairInv, SessionInTurn, OnlyOurDevice, InSync, Idle
<1> QED BY <1>4, <1>5, <1>6, <1>7, <1>8 DEF PairInv

(* begin opens a connection, on which its first request is the only message. *)
LEMMA BeginKeeps == ASSUME PairInv, Begin PROVE PairInv'
<1> DEFINE at == IF proto = "legacy" THEN "pin" ELSE "M1"
           m == [k |-> at, key |-> NoKey, enc |-> Plain]
           new == Fresh("pairing", "own")
<1>0. /\ call.op = Nil /\ UNCHANGED <<proto, cred, garbled>>
      /\ link' = new /\ srv' = NoServer /\ toDevice' = <<m>> /\ toClient' = <<>>
      /\ call' = [op |-> "begin", at |-> at]
      /\ hnd' = [hnd EXCEPT !.started = TRUE, !.begun = FALSE, !.keys = @ + 1,
                            !.paired = IF proto \in {"airplay", "legacy"} THEN FALSE ELSE @]
  BY DEF Begin, OpensLink
<1>1. hnd \in [started : BOOLEAN, begun : BOOLEAN, pin : Pins \cup {Nil}, paired : BOOLEAN,
              keys : Nat, expired : BOOLEAN]
  BY DEF PairInv, HapType
<1>2. hnd' \in [started : BOOLEAN, begun : BOOLEAN, pin : Pins \cup {Nil}, paired : BOOLEAN,
              keys : Nat, expired : BOOLEAN]
  <2>1. hnd.keys + 1 \in Nat
    BY <1>1
  <2>2. (IF proto \in {"airplay", "legacy"} THEN FALSE ELSE hnd.paired) \in BOOLEAN
    BY <1>1
  <2> QED BY <1>0, <1>1, <2>1, <2>2
<1>3. hnd'.paired \in {FALSE, hnd.paired}
  BY <1>0, <1>1
<1>3a. hnd'.expired = hnd.expired
  BY <1>0, <1>1
<1>3b. hnd'.begun = FALSE
  BY <1>0, <1>1
<1>4. /\ new.kind = "pairing" /\ new.out = Plain /\ call'.op = "begin" /\ call'.at = at
      /\ m.k = at /\ m \in Ask /\ Fresh("pairing", "own").kind = "pairing"
      /\ new \in [kind : {Nil, "pairing", "session"}, dev : Devices \cup {Nil}, out : Cipher, in : Cipher]
  <2>1. NoKey \in Pair
    BY DEF NoKey, Pair
  <2> QED BY <1>0, <2>1 DEF Fresh, Ask, Kind, Cipher, Devices
<1>5. NoServer \in [key : ProvenKey, secret : Key, mode : {"setup", "verify"}, out : Cipher,
                   in : Cipher, on : BOOLEAN]
  BY DEF NoServer, Cipher, Key, ProvenKey
<1>6. at = (IF proto = "legacy" THEN "pin" ELSE "M1")
  OBVIOUS
<1> HIDE DEF m, new, at
<1>7. HapType'
  <2>1. toDevice' \in Seq(Ask) /\ toClient' \in Seq(Answer)
    BY <1>0, <1>4, Queue DEF PairInv, HapType
  <2> QED BY <1>0, <1>2, <1>4, <1>5, <2>1 DEF PairInv, HapType
<1>8. CallInTurn'
  BY <1>0, <1>3b, <1>4, <1>6 DEF CallInTurn
<1>9. PairedIsProven'
  BY <1>0, <1>3, <1>3a, SameCredentials
<1>10. PinProven'
  BY <1>4 DEF PinProven
<1>11. LegacyTurn'
  <2>1. Asks'
    BY <1>0, <1>4, Single DEF Asks
  <2> QED BY <1>3b, <1>4, <2>1 DEF LegacyTurn
<1>12. SessionInTurn'
  BY <1>0, <1>4, NoSession
<1> QED BY <1>7, <1>8, <1>9, <1>10, <1>11, <1>12 DEF PairInv

(* Another PIN is typed while nothing is awaited. *)
LEMMA PinKeeps == ASSUME PairInv, NEW p \in Pins, Pin(p) PROVE PairInv'
<1>0. /\ call.op = Nil /\ hnd' = [hnd EXCEPT !.pin = p]
      /\ UNCHANGED <<proto, cred, call, link, srv, toDevice, toClient, garbled>>
  BY DEF Pin
<1>1. hnd \in [started : BOOLEAN, begun : BOOLEAN, pin : Pins \cup {Nil}, paired : BOOLEAN,
              keys : Nat, expired : BOOLEAN]
  BY DEF PairInv, HapType
<1>2. hnd' \in [started : BOOLEAN, begun : BOOLEAN, pin : Pins \cup {Nil}, paired : BOOLEAN,
              keys : Nat, expired : BOOLEAN]
  BY <1>0, <1>1
<1>3. hnd'.paired = hnd.paired /\ hnd'.expired = hnd.expired /\ hnd'.begun = hnd.begun
  BY <1>0, <1>1
<1>4. HapType'
  BY <1>0, <1>2 DEF PairInv, HapType
<1>5. CallInTurn'
  BY <1>0 DEF PairInv, CallInTurn
<1>6. PairedIsProven'
  BY <1>0, <1>3, SameCredentials
<1>7. PinProven'
  BY <1>0 DEF PinProven
<1>8. LegacyTurn'
  BY <1>0, <1>3 DEF PairInv, LegacyTurn, Idle
<1>9. SessionInTurn'
  BY <1>0 DEF PairInv, SessionInTurn, OnlyOurDevice, InSync, Idle
<1> QED BY <1>4, <1>5, <1>6, <1>7, <1>8, <1>9 DEF PairInv

(* finish sends M3 or L1 on the connection of begin. *)
LEMMA FinishKeeps == ASSUME PairInv, Finish PROVE PairInv'
<1>0. call.op = Nil /\ UNCHANGED <<proto, hnd, cred, link, srv, toClient, garbled>>
  BY DEF Finish
<1>1. CASE UNCHANGED <<call, toDevice>>
  BY <1>0, <1>1 DEF PairInv, HapType, CallInTurn, PairedIsProven, PinProven, LegacyTurn, SessionInTurn,
                    OnlyOurDevice, InSync, Idle, Asks, Answers
<1>2. CASE hnd.begun /\ link.kind = "pairing" /\ ~UNCHANGED <<call, toDevice>>
  <2> DEFINE k == IF proto = "legacy" THEN "L1" ELSE "M3"
             key == IF proto = "legacy" THEN Public(hnd.keys) ELSE SrpKey(hnd.pin, hnd.keys)
             m == Request(k, key)
  <2>1. call' = [op |-> "finish", at |-> k] /\ toDevice' = Append(toDevice, m)
    BY <1>2 DEF Finish, Awaits, Sends, Step2
  <2>2. hnd.keys \in Nat /\ HapType
    BY DEF PairInv, HapType
  <2>3. k \in Kind /\ key \in Pair
    BY <2>2, Made DEF Kind
  <2>4. k = IF proto = "legacy" THEN "L1" ELSE "M3"
    OBVIOUS
  <2> HIDE DEF k, key
  <2>5. m \in Ask /\ m.k = k
    BY <2>2, <2>3, Asked1
  <2> HIDE DEF m
  <2>6. HapType'
    <3>1. toDevice' \in Seq(Ask)
      BY <2>1, <2>2, <2>5, Queue DEF HapType
    <3> QED BY <1>0, <2>2, <3>1 DEF HapType
  <2>7. CallInTurn'
    BY <1>0, <1>2, <2>1, <2>4 DEF CallInTurn
  <2>8. PairedIsProven'
    BY <1>0, SameCredentials
  <2>9. PinProven'
    BY <2>1, <2>4 DEF PinProven
  <2>10. LegacyTurn'
    <3>1. CASE proto = "legacy" /\ ~hnd.expired
      <4>1. toDevice = <<>> /\ toClient = <<>>
        BY <1>0, <1>2, <3>1 DEF PairInv, LegacyTurn, Idle
      <4>2. Asks' /\ call'.at = "L1" /\ call'.op = "finish"
        BY <1>0, <2>1, <2>4, <2>5, <3>1, <4>1, Single DEF Asks
      <4> QED BY <4>2 DEF LegacyTurn
    <3>2. CASE ~(proto = "legacy" /\ ~hnd.expired)
      BY <1>0, <2>1, <3>2 DEF LegacyTurn
    <3> QED BY <3>1, <3>2
  <2>11. SessionInTurn'
    BY <1>0, <1>2, NoSession
  <2> QED BY <2>6, <2>7, <2>8, <2>9, <2>10, <2>11 DEF PairInv
<1> QED BY <1>0, <1>1, <1>2 DEF Finish

-----------------------------------------------------------------------------
(* A pairing takes an answer. *)
LEMMA TakesAnswer ==
    ASSUME PairInv, NEW op \in {"begin", "finish"}, NEW at, Takes(op, at), UNCHANGED <<proto, link, srv, garbled>>
    PROVE  /\ link.kind = "pairing" /\ toClient # <<>> /\ toClient' = Tail(toClient)
           /\ Message \in Answer /\ toClient' \in Seq(Answer) /\ call.op = op /\ call.at = at
           /\ SessionInTurn'
           /\ Idle \/ Asks \/ Answers => toClient = <<Message>> /\ toDevice = <<>> /\ toClient' = <<>> /\ Answers
<1>1. /\ toClient # <<>> /\ toClient' = Tail(toClient) /\ call.op = op /\ call.at = at
  BY DEF Takes
<1>2. link.kind = "pairing"
  BY <1>1 DEF PairInv, CallInTurn, HapType
<1>3. Message \in Answer /\ toClient' \in Seq(Answer)
  BY <1>1, Queue DEF PairInv, HapType, Message
<1>4. SessionInTurn'
  BY <1>2, NoSession
<1>5. Idle \/ Asks \/ Answers => toClient = <<Message>> /\ toDevice = <<>> /\ toClient' = <<>> /\ Answers
  BY <1>1, Single DEF Idle, Asks, Answers, Message
<1> QED BY <1>1, <1>2, <1>3, <1>4, <1>5

(* The answer to begin. *)
LEMMA BegunKeeps == ASSUME PairInv, Begun \/ LegacyBegun PROVE PairInv'
<1> DEFINE at == IF proto = "legacy" THEN "pin" ELSE "M1"
<1>0. /\ call.op = "begin" /\ call' = NoCall /\ UNCHANGED <<toDevice, proto, cred, link, srv, garbled>>
      /\ \E b \in BOOLEAN : hnd' = [hnd EXCEPT !.begun = b]
      /\ \E a \in {"M1", "pin"} : Takes("begin", a)
  BY DEF Begun, LegacyBegun, Raises, Takes
<1>1. PICK a \in {"M1", "pin"} : Takes("begin", a)
  BY <1>0
<1>1a. /\ link.kind = "pairing" /\ toClient' \in Seq(Answer) /\ SessionInTurn'
       /\ Idle \/ Asks \/ Answers => toDevice = <<>> /\ toClient' = <<>>
  BY <1>0, <1>1, TakesAnswer
<1>2. /\ hnd' \in [started : BOOLEAN, begun : BOOLEAN, pin : Pins \cup {Nil}, paired : BOOLEAN,
              keys : Nat, expired : BOOLEAN]
      /\ hnd'.pin = hnd.pin
  BY <1>0 DEF PairInv, HapType
<1>3. hnd'.paired = hnd.paired /\ hnd'.expired = hnd.expired
  BY <1>0 DEF PairInv, HapType
<1>4. call'.op = Nil
  BY <1>0 DEF NoCall
<1>5. HapType'
  BY <1>0, <1>1a, <1>2 DEF PairInv, HapType
<1>6. CallInTurn'
  BY <1>0, <1>1a, <1>4 DEF PairInv, CallInTurn
<1>7. PairedIsProven'
  BY <1>0, <1>3, SameCredentials
<1>8. PinProven'
  BY <1>4 DEF PinProven
<1>9. LegacyTurn'
  <2>1. proto = "legacy" => toDevice = <<>> /\ toClient' = <<>>
    BY <1>0, <1>1a DEF PairInv, LegacyTurn
  <2> QED BY <1>0, <1>4, <2>1 DEF LegacyTurn, Idle
<1> QED BY <1>1a, <1>5, <1>6, <1>7, <1>8, <1>9 DEF PairInv

(* An answer in finish after which nothing is stored: another request is    *)
(* sent, or it raises.                                                     *)
LEMMA GoesOnKeeps ==
    ASSUME PairInv, NEW at, Takes("finish", at), UNCHANGED <<proto, hnd, cred, link, srv, garbled>>,
           NEW k \in Kind, NEW key \in Pair,
           Raises \/ Awaits("finish", k, key),
           k \in IF proto = "legacy" THEN {"L3", "L5"} ELSE {"M5", "V3"},
           k = "V3" => at = "V1",
           k = "L3" => key[1] = hnd.pin,
           k = "L5" => at = "L3" /\ (Raises \/ Message.k # "500")
    PROVE  PairInv'
<1> DEFINE m == Request(k, key)
<1>0. /\ link.kind = "pairing" /\ toClient # <<>> /\ toClient' = Tail(toClient)
      /\ Message \in Answer /\ toClient' \in Seq(Answer) /\ call.op = "finish" /\ call.at = at
      /\ SessionInTurn'
      /\ Idle \/ Asks \/ Answers => toClient = <<Message>> /\ toDevice = <<>> /\ toClient' = <<>> /\ Answers
  BY TakesAnswer
<1>1. m \in Ask /\ m.k = k /\ m.key = key
  BY Asked1 DEF PairInv
<1>2. \/ call' = NoCall /\ toDevice' = toDevice
      \/ call' = [op |-> "finish", at |-> k] /\ toDevice' = Append(toDevice, m)
  BY DEF Raises, Awaits, Sends
<1> HIDE DEF m
<1>3. \/ (call'.op = Nil /\ toDevice' = toDevice)
      \/ (call'.op = "finish" /\ call'.at = k /\ toDevice' = Append(toDevice, m))
  BY <1>2 DEF NoCall
<1>4. HapType'
  <2>1. toDevice \in Seq(Ask)
    BY DEF PairInv, HapType
  <2>2. Append(toDevice, m) \in Seq(Ask)
    BY <1>1, <2>1, Queue
  <2>3. toDevice' \in Seq(Ask)
    BY <1>3, <2>1, <2>2
  <2> QED BY <1>0, <2>3 DEF PairInv, HapType
<1>5. CallInTurn'
  BY <1>0, <1>3 DEF PairInv, CallInTurn
<1>6. PairedIsProven'
  BY SameCredentials
<1>7. proto = "legacy" /\ hnd.begun /\ ~hnd.expired =>
         /\ toClient = <<Message>> /\ toDevice = <<>> /\ toClient' = <<>>
         /\ at = "L3" /\ Message.k # "500" => hnd.pin = PIN_CODE
  <2>1. proto = "legacy" /\ hnd.begun /\ ~hnd.expired =>
           (Answers /\ (call.at = "L3" /\ toClient[1].k # "500" => hnd.pin = PIN_CODE)) \/ Idle \/ Asks
    BY <1>0 DEF PairInv, LegacyTurn
  <2>2. ~(Idle \/ Asks)
    BY <1>0, Single DEF Idle, Asks
  <2> QED BY <1>0, <2>1, <2>2, Single
<1>8. PinProven'
  <2>1. call.op = "finish" /\ hnd.begun /\ hnd' = hnd /\ call.at = at
    BY <1>0 DEF PairInv, CallInTurn
  <2>2. k = "V3" => hnd.pin = PIN_CODE
    BY <2>1 DEF PairInv, PinProven
  <2>3. call'.op = "finish" /\ k = "L5" /\ ~hnd.expired => hnd.pin = PIN_CODE
    <3>1. call'.op = "finish" => ~Raises
      BY DEF Raises, NoCall
    <3> QED BY <1>7, <2>1, <3>1
  <2>4. k # "V1"
    OBVIOUS
  <2> QED BY <1>3, <2>1, <2>2, <2>3, <2>4 DEF PinProven
<1>9. LegacyTurn'
  <2>1. CASE proto = "legacy" /\ hnd.begun /\ ~hnd.expired
    <3>1. toDevice = <<>> /\ toClient' = <<>>
      BY <1>7, <2>1
    <3>2. CASE call'.op = Nil /\ toDevice' = toDevice
      BY <3>1, <3>2 DEF LegacyTurn, Idle
    <3>3. CASE call'.op = "finish" /\ call'.at = k /\ toDevice' = Append(toDevice, m)
      <4>1. toDevice' = <<m>> /\ toDevice'[1] = m
        BY <3>1, <3>3, Single
      <4>2. Asks'
        BY <1>1, <3>1, <3>3, <4>1 DEF Asks
      <4>3. call'.at = "L3" => toDevice'[1].key[1] = hnd'.pin
        BY <1>1, <3>3, <4>1
      <4> QED BY <3>3, <4>2, <4>3 DEF LegacyTurn
    <3> QED BY <1>3, <3>2, <3>3
  <2>2. CASE ~(proto = "legacy" /\ hnd.begun /\ ~hnd.expired)
    BY <1>3, <2>2 DEF LegacyTurn
  <2> QED BY <2>1, <2>2
<1> QED BY <1>0, <1>4, <1>5, <1>6, <1>8, <1>9 DEF PairInv

(* An answer in finish after which the credentials are stored. *)
LEMMA StoresKeeps ==
    ASSUME PairInv, NEW at, Takes("finish", at), UNCHANGED <<proto, link, srv, garbled>>, Raises, Stores,
           proto = "legacy" /\ ~hnd.expired => hnd.pin = PIN_CODE,
           proto # "legacy" => hnd.pin = PIN_CODE
    PROVE  PairInv'
<1>0. /\ link.kind = "pairing" /\ toClient' \in Seq(Answer) /\ call.op = "finish" /\ SessionInTurn'
      /\ Idle \/ Asks \/ Answers => toDevice = <<>> /\ toClient' = <<>>
  BY TakesAnswer
<1>1. /\ call'.op = Nil /\ toDevice' = toDevice /\ cred' = [dev |-> "own", pin |-> hnd.pin]
      /\ hnd' = [hnd EXCEPT !.paired = TRUE]
  BY DEF Raises, NoCall, Stores
<1>2. hnd' \in [started : BOOLEAN, begun : BOOLEAN, pin : Pins \cup {Nil}, paired : BOOLEAN,
                keys : Nat, expired : BOOLEAN]
  BY <1>1 DEF PairInv, HapType
<1>3. hnd'.expired = hnd.expired /\ hnd'.begun = hnd.begun /\ hnd'.pin = hnd.pin
  BY <1>1 DEF PairInv, HapType
<1>4. cred' \in [dev : {Nil, "own"}, pin : Pins \cup {Nil}]
  <2>1. hnd.pin \in Pins \cup {Nil}
    BY DEF PairInv, HapType
  <2> QED BY <1>1, <2>1
<1>5. HapType'
  BY <1>0, <1>1, <1>2, <1>4 DEF PairInv, HapType
<1>6. CallInTurn'
  BY <1>0, <1>1 DEF PairInv, CallInTurn
<1>7. PairedIsProven'
  <2>1. cred'.dev = "own" /\ cred'.pin = hnd.pin
    BY <1>1
  <2>2. cred' # NoCredentials
    BY <2>1 DEF NoCredentials
  <2> QED BY <1>3, <2>1, <2>2 DEF PairedIsProven
<1>8. PinProven'
  BY <1>1 DEF PinProven
<1>9. LegacyTurn'
  <2>1. proto = "legacy" /\ hnd.begun /\ ~hnd.expired => toDevice = <<>> /\ toClient' = <<>>
    BY <1>0 DEF PairInv, LegacyTurn
  <2> QED BY <1>1, <1>3, <2>1 DEF LegacyTurn, Idle
<1> QED BY <1>0, <1>5, <1>6, <1>7, <1>8, <1>9 DEF PairInv

(* The answers of finish, one after the other. *)
LEMMA FinishesKeep ==
    ASSUME PairInv, GotM4 \/ GotM6 \/ LegacyGoesOn \/ PairingGotV2 \/ PairingGotV4
    PROVE  PairInv'
<1>0. hnd.keys \in Nat /\ HapType
  BY DEF PairInv, HapType
<1>1. CASE GotM4
  <2>1. Takes("finish", "M3") /\ UNCHANGED <<proto, hnd, cred, link, srv, garbled>>
    BY <1>1 DEF GotM4
  <2>2. Raises \/ Awaits("finish", "M5", SrpKey(hnd.pin, hnd.keys))
    BY <1>1 DEF GotM4, Step3
  <2>3. SrpKey(hnd.pin, hnd.keys) \in Pair /\ "M5" \in Kind
    BY <1>0, Made DEF Kind
  <2>4. proto # "legacy"
    BY <2>1 DEF PairInv, CallInTurn, Takes
  <2> QED BY <2>1, <2>2, <2>3, <2>4, GoesOnKeeps
<1>2. CASE GotM6
  <2>1. Takes("finish", "M5") /\ UNCHANGED <<proto, link, srv, garbled>>
    BY <1>2 DEF GotM6
  <2>2. proto # "legacy" /\ call.op = "finish" /\ hnd.begun
    BY <2>1 DEF PairInv, CallInTurn, Takes
  <2>3. CASE Raises /\ UNCHANGED <<hnd, cred>>
    <3>1. SrpKey(hnd.pin, hnd.keys) \in Pair /\ "M5" \in Kind
      BY <1>0, Made DEF Kind
    <3> QED BY <2>1, <2>2, <2>3, <3>1, GoesOnKeeps
  <2>4. ASSUME Step4 PROVE hnd.pin = PIN_CODE
    <3>1. Message \in Answer /\ Message.k = "M6" /\ Message.key = SrpKey(hnd.pin, hnd.keys)
      BY <2>1, <2>4, TakesAnswer DEF Step4
    <3>2. Message.key \in ProvenKey
      BY <3>1 DEF Answer
    <3> QED BY <3>1, <3>2 DEF ProvenKey, SrpKey
  <2>5. CASE Step4 /\ proto # "mrp" /\ Raises /\ Stores
    BY <2>1, <2>2, <2>4, <2>5, StoresKeeps
  <2>6. CASE /\ Step4 /\ proto = "mrp" /\ Awaits("finish", "V1", Public(hnd.keys + 1))
             /\ hnd' = [hnd EXCEPT !.keys = @ + 1] /\ UNCHANGED cred
    <3> DEFINE m == Request("V1", Public(hnd.keys + 1))
    <3>1. /\ link.kind = "pairing" /\ toClient' \in Seq(Answer) /\ SessionInTurn'
      BY <2>1, TakesAnswer
    <3>2. m \in Ask
      <4>1. hnd.keys + 1 \in Nat
        BY <1>0
      <4>2. Public(hnd.keys + 1) \in Pair /\ "V1" \in Kind
        BY <1>0, <4>1, Made DEF Kind
      <4> QED BY <1>0, <4>2, Asked1
    <3>3. call'.op = "finish" /\ call'.at = "V1" /\ toDevice' = Append(toDevice, m)
      BY <2>6 DEF Awaits, Sends
    <3> HIDE DEF m
    <3>4. hnd \in [started : BOOLEAN, begun : BOOLEAN, pin : Pins \cup {Nil}, paired : BOOLEAN,
                  keys : Nat, expired : BOOLEAN]
      BY <1>0 DEF HapType
    <3>5. hnd' \in [started : BOOLEAN, begun : BOOLEAN, pin : Pins \cup {Nil}, paired : BOOLEAN,
                  keys : Nat, expired : BOOLEAN]
      <4>1. hnd.keys + 1 \in Nat
        BY <1>0
      <4> QED BY <2>6, <3>4, <4>1
    <3>6. hnd'.pin = hnd.pin
      BY <2>6, <3>4
    <3>7. hnd'.paired = hnd.paired /\ hnd'.expired = hnd.expired /\ hnd'.begun = hnd.begun
      BY <2>6, <3>4
    <3>8. HapType'
      <4>1. toDevice' \in Seq(Ask)
        BY <1>0, <3>2, <3>3, Queue DEF HapType
      <4> QED BY <1>0, <2>1, <2>6, <3>1, <3>5, <4>1 DEF HapType
    <3>9. CallInTurn'
      BY <2>1, <2>2, <3>1, <3>3, <3>7 DEF PairInv, CallInTurn
    <3>10. PairedIsProven'
      BY <2>1, <2>6, <3>7, SameCredentials
    <3>11. PinProven'
      BY <2>4, <2>6, <3>3, <3>6 DEF PinProven
    <3>12. LegacyTurn'
      BY <2>1, <2>2 DEF LegacyTurn
    <3> QED BY <3>1, <3>8, <3>9, <3>10, <3>11, <3>12 DEF PairInv
  <2> QED BY <1>2, <2>3, <2>5, <2>6 DEF GotM6
<1>3. CASE LegacyGoesOn
  <2>1. UNCHANGED <<proto, link, srv, garbled>>
    BY <1>3 DEF LegacyGoesOn
  <2>2. CASE /\ Takes("finish", "L1") /\ UNCHANGED <<hnd, cred>>
             /\ IF Message.k = "L2" THEN LegacyStep2 ELSE Raises
    <3>1. SrpKey(hnd.pin, hnd.keys) \in Pair /\ "L3" \in Kind /\ SrpKey(hnd.pin, hnd.keys)[1] = hnd.pin
      BY <1>0, Made DEF Kind, SrpKey
    <3>2. Raises \/ Awaits("finish", "L3", SrpKey(hnd.pin, hnd.keys))
      BY <2>2 DEF LegacyStep2
    <3>3. proto = "legacy"
      BY <2>2 DEF PairInv, CallInTurn, Takes
    <3> QED BY <2>1, <2>2, <3>1, <3>2, <3>3, GoesOnKeeps
  <2>3. CASE /\ Takes("finish", "L3") /\ UNCHANGED <<hnd, cred>>
             /\ IF Refused THEN Raises ELSE LegacyStep3
    <3>1. SrpKey(hnd.pin, hnd.keys) \in Pair /\ "L5" \in Kind
      BY <1>0, Made DEF Kind
    <3>2. Raises \/ Awaits("finish", "L5", SrpKey(hnd.pin, hnd.keys))
      BY <2>3 DEF LegacyStep3
    <3>3. proto = "legacy"
      BY <2>3 DEF PairInv, CallInTurn, Takes
    <3>4. Raises \/ Message.k # "500"
      BY <2>3 DEF Refused
    <3> QED BY <2>1, <2>3, <3>1, <3>2, <3>3, <3>4, GoesOnKeeps
  <2>4. CASE Takes("finish", "L5") /\ Raises /\ UNCHANGED <<hnd, cred>>
    <3>1. SrpKey(hnd.pin, hnd.keys)[1] = hnd.pin /\ SrpKey(hnd.pin, hnd.keys) \in Pair /\ "L3" \in Kind
      BY <1>0, Made DEF Kind, SrpKey
    <3>2. proto = "legacy"
      BY <2>4 DEF PairInv, CallInTurn, Takes
    <3> QED BY <2>1, <2>4, <3>1, <3>2, GoesOnKeeps
  <2>5. CASE Takes("finish", "L5") /\ Raises /\ Stores
    <3>1. proto = "legacy" /\ (~hnd.expired => hnd.pin = PIN_CODE)
      BY <2>5 DEF PairInv, CallInTurn, PinProven, Takes
    <3> QED BY <2>1, <2>5, <3>1, StoresKeeps
  <2> QED BY <1>3, <2>2, <2>3, <2>4, <2>5 DEF LegacyGoesOn
<1>4. CASE PairingGotV2
  <2>1. Takes("finish", "V1") /\ UNCHANGED <<proto, hnd, cred, link, srv, garbled>>
    BY <1>4 DEF PairingGotV2
  <2>2. Raises \/ Awaits("finish", "V3", Public(hnd.keys))
    BY <1>4 DEF PairingGotV2
  <2>3. Public(hnd.keys) \in Pair /\ "V3" \in Kind
    BY <1>0, Made DEF Kind
  <2>4. proto # "legacy"
    BY <2>1 DEF PairInv, CallInTurn, Takes
  <2> QED BY <2>1, <2>2, <2>3, <2>4, GoesOnKeeps
<1>5. CASE PairingGotV4
  <2>1. Takes("finish", "V3") /\ Raises /\ UNCHANGED <<proto, link, srv, garbled>>
    BY <1>5 DEF PairingGotV4
  <2>2. proto # "legacy" /\ hnd.pin = PIN_CODE
    BY <2>1 DEF PairInv, CallInTurn, PinProven, Takes
  <2>3. CASE UNCHANGED <<hnd, cred>>
    <3>1. SrpKey(hnd.pin, hnd.keys) \in Pair /\ "M5" \in Kind
      BY <1>0, Made DEF Kind
    <3> QED BY <2>1, <2>2, <2>3, <3>1, GoesOnKeeps
  <2>4. CASE Stores
    BY <2>1, <2>2, <2>4, StoresKeeps
  <2> QED BY <1>5, <2>3, <2>4 DEF PairingGotV4
<1> QED BY <1>1, <1>2, <1>3, <1>4, <1>5

-----------------------------------------------------------------------------
(* A session takes an answer: it is the only message under way. *)
LEMMA SessionTakes ==
    ASSUME PairInv, NEW op \in {"connect", "use"}, NEW at, Takes(op, at)
    PROVE  /\ link.kind = "session" /\ call.op = op /\ call.at = at
           /\ Answers /\ toClient = <<Message>> /\ toDevice = <<>> /\ toClient' = <<>> /\ toClient[1] = Message
           /\ op = "connect" => Connecting
           /\ op = "use" => InSync
<1>1. toClient # <<>> /\ toClient' = Tail(toClient) /\ call.op = op /\ call.at = at
  BY DEF Takes
<1>2. link.kind = "session"
  BY <1>1 DEF PairInv, CallInTurn, HapType
<1>3. (op = "connect" => Connecting) /\ (op = "use" => InSync /\ (Asks \/ Answers))
  BY <1>1, <1>2 DEF PairInv, SessionInTurn
<1>4. ~Asks
  BY <1>1 DEF Asks
<1>5. Answers
  BY <1>3, <1>4 DEF Connecting
<1>6. toClient = <<Message>> /\ toClient[1] = Message /\ toClient' = <<>> /\ toDevice = <<>>
  BY <1>1, <1>5, Single DEF Answers, Message
<1> QED BY <1>1, <1>2, <1>3, <1>5, <1>6

(* A session that sends the next request of its procedure. *)
LEMMA ConnectGoesOn ==
    ASSUME PairInv, NEW at \in {"V1", "T1", "LV1"}, Takes("connect", at),
           UNCHANGED <<proto, hnd, cred, link, srv, garbled>>,
           NEW k \in Kind, NEW key \in Pair, Awaits("connect", k, key),
           k = (CASE at = "V1" -> "V3" [] at = "T1" -> "T3" [] OTHER -> "LV3"),
           at = "V1" => Verify1(cred, Message.key[1]),
           at = "T1" => key[2] = hnd.keys
    PROVE  PairInv'
<1> DEFINE m == Request(k, key)
<1>0. /\ link.kind = "session" /\ call.op = "connect" /\ call.at = at
      /\ Answers /\ toClient = <<Message>> /\ toDevice = <<>> /\ toClient' = <<>> /\ toClient[1] = Message
      /\ Connecting
  BY SessionTakes
<1>1. m \in Ask /\ m.k = k /\ m.key = key /\ m.enc = link.out
  BY Asked1 DEF PairInv
<1>2. call'.op = "connect" /\ call'.at = k /\ toDevice' = Append(toDevice, m)
  BY DEF Awaits, Sends
<1> HIDE DEF m
<1>3. toDevice' = <<m>> /\ toDevice'[1] = m
  BY <1>0, <1>2, Single
<1>4. k \in {"V3", "T3", "LV3"} /\ (k = "V3" <=> at = "V1") /\ (k = "T3" <=> at = "T1") /\ (k = "LV3" <=> at = "LV1")
  OBVIOUS
<1>5. HapType'
  <2>1. toDevice' \in Seq(Ask) /\ toClient' \in Seq(Answer)
    BY <1>0, <1>1, <1>3, Queue DEF PairInv, HapType
  <2> QED BY <2>1 DEF PairInv, HapType
<1>6. CallInTurn'
  BY <1>0, <1>2 DEF CallInTurn
<1>7. PairedIsProven'
  BY SameCredentials
<1>8. LegacyTurn' /\ PinProven'
  BY <1>0, <1>2, NoPairing
<1>9. Asks' /\ ~Answers'
  BY <1>0, <1>1, <1>2, <1>3, Single DEF Asks, Answers
<1>10. Clear /\ link.out = Plain /\ link.in = Plain /\ ~srv.on
  BY <1>0 DEF Connecting
<1>11. k = "V3" => cred # NoCredentials /\ link.dev = cred.dev /\ srv.secret = Shared(hnd.keys, link.dev)
  <2>1. k = "V3" => Message.key = Signature(link.dev) /\ srv.secret = Shared(hnd.keys, link.dev) /\ cred # NoCredentials
    BY <1>0, <1>4 DEF Connecting
  <2> QED BY <1>4, <2>1 DEF Verify1, Signature
<1>12. k = "T3" => cred = NoCredentials /\ proto # "companion" /\ key[2] = hnd.keys
  BY <1>0, <1>4 DEF Connecting
<1>13. Connecting'
  BY <1>1, <1>2, <1>3, <1>4, <1>9, <1>10, <1>11, <1>12 DEF Connecting, Clear, Shared
<1>14. SessionInTurn'
  BY <1>0, <1>2, <1>13 DEF PairInv, SessionInTurn, OnlyOurDevice
<1> QED BY <1>5, <1>6, <1>7, <1>8, <1>14 DEF PairInv

(* A session is set up, or has its answer. *)
LEMMA SessionReady ==
    ASSUME PairInv, NEW op \in {"connect", "use"}, NEW at, Takes(op, at), Raises,
           UNCHANGED <<proto, hnd, cred, srv, garbled>>,
           link'.kind = link.kind, link'.dev = link.dev, link'.out \in Cipher, link'.in \in Cipher,
           link' \in [kind : {Nil, "pairing", "session"}, dev : Devices \cup {Nil}, out : Cipher, in : Cipher],
           InSync', OnlyOurDevice'
    PROVE  PairInv'
<1>0. /\ link.kind = "session" /\ call.op = op /\ call.at = at
      /\ toDevice = <<>> /\ toClient' = <<>>
  BY SessionTakes
<1>1. call'.op = Nil /\ toDevice' = <<>>
  BY <1>0 DEF Raises, NoCall
<1>2. HapType'
  <2>1. toDevice' \in Seq(Ask) /\ toClient' \in Seq(Answer)
    BY <1>0, <1>1
  <2> QED BY <2>1 DEF PairInv, HapType
<1>3. CallInTurn'
  BY <1>0, <1>1 DEF CallInTurn
<1>4. PairedIsProven'
  BY SameCredentials
<1>5. LegacyTurn' /\ PinProven'
  BY <1>0, <1>1, NoPairing
<1>6. SessionInTurn'
  BY <1>0, <1>1 DEF PairInv, SessionInTurn, Idle
<1> QED BY <1>2, <1>3, <1>4, <1>5, <1>6 DEF PairInv

(* The keys of a session are in use. *)
LEMMA SessionVerified ==
    ASSUME PairInv, NEW at \in {"V3", "T3"}, Takes("connect", at), Raises,
           UNCHANGED <<proto, hnd, cred, srv, garbled>>, Verified(SecretOfCall)
    PROVE  PairInv'
<1> DEFINE out == Expand(ClientWrites, SecretOfCall)
           in == Expand(ClientReads, SecretOfCall)
<1>0. /\ link.kind = "session" /\ call.op = "connect" /\ call.at = at
      /\ Answers /\ Connecting
  BY SessionTakes
<1>1. link' = [link EXCEPT !.out = out, !.in = in]
  BY DEF Verified
<1>2. out \in Cipher /\ in \in Cipher /\ out # Plain /\ out = <<ClientWrites, SecretOfCall>>
      /\ in = <<ClientReads, SecretOfCall>>
  <2>1. hnd.keys \in Nat /\ link.dev \in Devices \cup {Nil} /\ HapType
    BY DEF PairInv, HapType
  <2>2. SecretOfCall \in Key
    BY <2>1, Made DEF SecretOfCall
  <2> QED BY <2>2 DEF Expand, Cipher, ClientWrites, ClientReads, Plain
<1> HIDE DEF out, in
<1>3. link \in [kind : {Nil, "pairing", "session"}, dev : Devices \cup {Nil}, out : Cipher, in : Cipher]
  BY DEF PairInv, HapType
<1>4. /\ link' \in [kind : {Nil, "pairing", "session"}, dev : Devices \cup {Nil}, out : Cipher, in : Cipher]
      /\ link'.kind = link.kind /\ link'.dev = link.dev /\ link'.out = out /\ link'.in = in
  BY <1>1, <1>2, <1>3
<1>5. srv.in = out /\ srv.out = in
  BY <1>0, <1>2 DEF Connecting, Enabled
<1>6. InSync'
  BY <1>2, <1>4, <1>5 DEF InSync
<1>7. OnlyOurDevice'
  <2>1. cred # NoCredentials => link.dev = cred.dev
    BY <1>0 DEF Connecting
  <2> QED BY <1>4, <2>1 DEF OnlyOurDevice
<1> QED BY <1>2, <1>4, <1>6, <1>7, SessionReady

(* The answers of a session. *)
LEMMA SessionsKeep ==
    ASSUME PairInv, GotV2 \/ GotV4 \/ GotT2 \/ GotT4 \/ GotLegacyVerified \/ Used
    PROVE  PairInv'
<1>0. hnd.keys \in Nat /\ HapType
  BY DEF PairInv, HapType
<1>1. CASE GotV2
  <2>1. UNCHANGED <<proto, hnd, cred, garbled>>
    BY <1>1 DEF GotV2
  <2>2. CASE /\ Message.k = "V2" /\ Verify1(cred, Message.key[1])
             /\ Takes("connect", "V1") /\ Awaits("connect", "V3", Public(hnd.keys)) /\ UNCHANGED <<link, srv>>
    <3>1. Public(hnd.keys) \in Pair /\ "V3" \in Kind
      BY <1>0, Made DEF Kind
    <3> QED BY <2>1, <2>2, <3>1, ConnectGoesOn
  <2>3. CASE call' = NoCall /\ Closes
    BY <2>1, <2>3, ClosedKeeps
  <2> QED BY <1>1, <2>2, <2>3 DEF GotV2
<1>2. CASE GotV4
  <2>1. Takes("connect", "V3") /\ Raises /\ UNCHANGED <<proto, hnd, cred, srv, garbled>>
    BY <1>2 DEF GotV4
  <2>2. call.at = "V3"
    BY <2>1 DEF Takes
  <2>3. Verified(SecretOfCall)
    BY <1>2, <2>2 DEF GotV4, SecretOfCall
  <2> QED BY <2>1, <2>3, SessionVerified
<1>3. CASE GotT2
  <2>1. SrpKey(Nil, hnd.keys) \in Pair /\ "T3" \in Kind /\ SrpKey(Nil, hnd.keys)[2] = hnd.keys
    BY <1>0, Made DEF Kind, SrpKey
  <2> QED BY <1>3, <2>1, ConnectGoesOn DEF GotT2
<1>4. CASE GotT4
  <2>1. Takes("connect", "T3") /\ Raises /\ UNCHANGED <<proto, hnd, cred, srv, garbled>>
    BY <1>4 DEF GotT4
  <2>2. call.at = "T3"
    BY <2>1 DEF Takes
  <2>3. Verified(SecretOfCall)
    BY <1>4, <2>2 DEF GotT4, SecretOfCall
  <2> QED BY <2>1, <2>3, SessionVerified
<1>5. CASE GotLegacyVerified
  <2>1. UNCHANGED <<proto, hnd, cred, link, srv, garbled>>
    BY <1>5 DEF GotLegacyVerified
  <2>2. CASE Takes("connect", "LV1") /\ Awaits("connect", "LV3", NoKey)
    <3>1. NoKey \in Pair /\ "LV3" \in Kind
      BY <1>0, Made DEF Kind
    <3> QED BY <2>1, <2>2, <3>1, ConnectGoesOn
  <2>3. CASE Takes("connect", "LV3") /\ Raises
    <3>1. Connecting /\ call.at = "LV3"
      BY <2>3, SessionTakes
    <3>2. InSync' /\ OnlyOurDevice'
      BY <2>1, <3>1 DEF Connecting, Clear, InSync, OnlyOurDevice
    <3>3. link \in [kind : {Nil, "pairing", "session"}, dev : Devices \cup {Nil}, out : Cipher, in : Cipher]
      BY <1>0 DEF HapType
    <3>4. link.out \in Cipher /\ link.in \in Cipher
      BY <3>3
    <3> QED BY <2>1, <2>3, <3>2, <3>3, <3>4, SessionReady
  <2> QED BY <1>5, <2>2, <2>3 DEF GotLegacyVerified
<1>6. CASE Used
  <2>1. Takes("use", "D") /\ Raises /\ UNCHANGED <<proto, hnd, cred, link, srv, garbled>>
    BY <1>6 DEF Used
  <2>2. InSync
    BY <2>1, SessionTakes
  <2>3. InSync' /\ OnlyOurDevice'
    BY <2>1, <2>2 DEF InSync, OnlyOurDevice, PairInv, SessionInTurn
  <2>4. link \in [kind : {Nil, "pairing", "session"}, dev : Devices \cup {Nil}, out : Cipher, in : Cipher]
    BY <1>0 DEF HapType
  <2>5. link.out \in Cipher /\ link.in \in Cipher
    BY <2>4
  <2> QED BY <2>1, <2>3, <2>4, <2>5, SessionReady
<1> QED BY <1>1, <1>2, <1>3, <1>4, <1>5, <1>6


-----------------------------------------------------------------------------
(* A session is opened, and its first request is under way: there are no    *)
(* keys yet, and it asks for what goes with the credentials.               *)
LEMMA ConnectKeeps == ASSUME PairInv, NEW d \in Devices, ConnectTo(d) PROVE PairInv'
<1> DEFINE new == Fresh("session", d)
           m(k) == [k |-> k, key |-> Public(hnd.keys + 1), enc |-> Plain]
<1>0. /\ call.op = Nil /\ UNCHANGED <<proto, cred, garbled>>
      /\ link' = new /\ srv' = NoServer /\ toClient' = <<>>
      /\ hnd' = [hnd EXCEPT !.keys = @ + 1, !.begun = FALSE]
      /\ \E k \in Procedures :
            IF k = Nil THEN call' = NoCall /\ toDevice' = <<>>
            ELSE call' = [op |-> "connect", at |-> k] /\ toDevice' = <<m(k)>>
  BY DEF ConnectTo, OpensLink
<1>1. hnd \in [started : BOOLEAN, begun : BOOLEAN, pin : Pins \cup {Nil}, paired : BOOLEAN,
              keys : Nat, expired : BOOLEAN]
  BY DEF PairInv, HapType
<1>2. hnd.keys + 1 \in Nat
  BY <1>1
<1>3. hnd' \in [started : BOOLEAN, begun : BOOLEAN, pin : Pins \cup {Nil}, paired : BOOLEAN,
              keys : Nat, expired : BOOLEAN]
  BY <1>0, <1>1, <1>2
<1>4. hnd'.paired = hnd.paired /\ hnd'.expired = hnd.expired /\ hnd'.keys = hnd.keys + 1
  BY <1>0, <1>1
<1>5. /\ new.kind = "session" /\ new.out = Plain /\ new.in = Plain
      /\ new \in [kind : {Nil, "pairing", "session"}, dev : Devices \cup {Nil}, out : Cipher, in : Cipher]
  BY DEF Fresh, Cipher
<1>6. /\ NoServer \in [key : ProvenKey, secret : Key, mode : {"setup", "verify"}, out : Cipher,
                      in : Cipher, on : BOOLEAN]
      /\ NoServer.in = Plain /\ NoServer.out = Plain /\ ~NoServer.on
  BY DEF NoServer, Cipher, Key, ProvenKey
<1>7. PICK k \in Procedures :
            IF k = Nil THEN call' = NoCall /\ toDevice' = <<>>
            ELSE call' = [op |-> "connect", at |-> k] /\ toDevice' = <<m(k)>>
  BY <1>0
<1>8. /\ k \in {Nil, "V1", "LV1", "T1"}
      /\ k = "V1" => cred # NoCredentials
      /\ k = "T1" => cred = NoCredentials /\ proto # "companion"
  BY DEF Procedures
<1>9. /\ m(k).k = k /\ m(k).enc = Plain /\ m(k).key = Public(hnd.keys + 1)
      /\ k # Nil => m(k) \in Ask
  <2>1. Public(hnd.keys + 1) \in Pair
    BY <1>2, Made DEF PairInv
  <2> QED BY <1>8, <2>1 DEF Ask, Kind, Cipher
<1>10. Public(hnd.keys + 1)[2] = hnd.keys + 1
  BY DEF Public
<1> HIDE DEF m, new
<1>11. /\ k = Nil => call'.op = Nil /\ toDevice' = <<>>
       /\ k # Nil => call'.op = "connect" /\ call'.at = k /\ toDevice' = <<m(k)>>
  BY <1>7 DEF NoCall
<1>12. HapType'
  <2>1. ASSUME k = Nil PROVE toDevice' \in Seq(Ask)
    BY <1>11, <2>1
  <2>2. ASSUME k # Nil PROVE toDevice' \in Seq(Ask)
    <3>1. m(k) \in Ask
      BY <1>9, <2>2
    <3>2. <<m(k)>> \in Seq(Ask)
      BY <3>1
    <3> QED BY <1>11, <2>2, <3>2
  <2>3. toDevice' \in Seq(Ask) /\ toClient' \in Seq(Answer)
    BY <1>0, <2>1, <2>2
  <2> QED BY <1>0, <1>3, <1>5, <1>6, <2>3 DEF PairInv, HapType
<1>13. CallInTurn'
  BY <1>0, <1>5, <1>11 DEF CallInTurn
<1>14. PairedIsProven'
  BY <1>0, <1>4, SameCredentials
<1>15. LegacyTurn' /\ PinProven'
  BY <1>0, <1>5, <1>11, NoPairing
<1>16. SessionInTurn'
  <2>1. ~garbled' /\ OnlyOurDevice'
    BY <1>0, <1>5 DEF PairInv, SessionInTurn, OnlyOurDevice
  <2>2. CASE k = Nil
    <3>1. Idle' /\ InSync'
      BY <1>0, <1>5, <1>6, <1>11, <2>2 DEF Idle, InSync
    <3> QED BY <1>11, <2>1, <2>2, <3>1 DEF SessionInTurn
  <2>3. CASE k # Nil
    <3>1. toDevice' = <<m(k)>> /\ toDevice'[1] = m(k)
      BY <1>11, <2>3, Single
    <3>2. Asks' /\ ~Answers' /\ Clear'
      BY <1>0, <1>6, <1>9, <1>11, <2>3, <3>1, Single DEF Asks, Answers, Clear
    <3>3. toDevice'[1].enc = Plain /\ toDevice'[1].key[2] = hnd'.keys
      BY <1>4, <1>9, <1>10, <3>1
    <3>4. Connecting'
      BY <1>0, <1>5, <1>6, <1>8, <1>11, <2>3, <3>2, <3>3 DEF Connecting
    <3> QED BY <1>11, <2>1, <2>3, <3>4 DEF SessionInTurn
  <2> QED BY <2>2, <2>3
<1> QED BY <1>12, <1>13, <1>14, <1>15, <1>16 DEF PairInv

(* A session that is set up sends with its keys. *)
LEMMA UseKeeps == ASSUME PairInv, Use PROVE PairInv'
<1> DEFINE m == Request("D", NoKey)
<1>0. /\ call.op = Nil /\ link.kind = "session" /\ UNCHANGED <<proto, hnd, cred, link, srv, toClient, garbled>>
      /\ call'.op = "use" /\ call'.at = "D" /\ toDevice' = Append(toDevice, m)
  BY DEF Use, Awaits, Sends
<1>1. HapType /\ hnd.keys \in Nat
  BY DEF PairInv, HapType
<1>2. m \in Ask /\ m.k = "D" /\ m.enc = link.out
  <2>1. NoKey \in Pair /\ "D" \in Kind
    BY <1>1, Made DEF Kind
  <2> QED BY <1>1, <2>1, Asked1
<1> HIDE DEF m
<1>3. toDevice = <<>> /\ toClient = <<>> /\ InSync
  BY <1>0 DEF PairInv, SessionInTurn, Idle
<1>4. toDevice' = <<m>> /\ toDevice'[1] = m
  BY <1>0, <1>3, Single
<1>5. HapType'
  <2>1. toDevice' \in Seq(Ask)
    BY <1>2, <1>4
  <2> QED BY <1>0, <1>1, <2>1 DEF HapType
<1>6. CallInTurn'
  BY <1>0 DEF CallInTurn
<1>7. PairedIsProven'
  BY <1>0, SameCredentials
<1>8. LegacyTurn' /\ PinProven'
  BY <1>0, NoPairing
<1>9. SessionInTurn'
  <2>1. Asks' /\ toDevice'[1].enc = link'.out
    BY <1>0, <1>2, <1>3, <1>4 DEF Asks
  <2>2. InSync' /\ OnlyOurDevice' /\ ~garbled'
    BY <1>0, <1>3 DEF PairInv, SessionInTurn, InSync, OnlyOurDevice
  <2> QED BY <1>0, <2>1, <2>2 DEF SessionInTurn
<1> QED BY <1>5, <1>6, <1>7, <1>8, <1>9 DEF PairInv

(* An answer nobody awaits is one of a pairing: it never is one of a        *)
(* session, and so none of a session is left unread.                       *)
LEMMA LateKeeps == ASSUME PairInv, Late PROVE PairInv'
<1>0. /\ toClient # <<>> /\ (call.op = Nil \/ ~Readable(Message, link.in))
      /\ toClient' = Tail(toClient)
      /\ garbled' = (garbled \/ (link.kind = "session" /\ ~Readable(Message, link.in)))
      /\ UNCHANGED <<proto, hnd, cred, call, link, srv, toDevice>>
  BY DEF Late
<1>1. link.kind # "session"
  <2> SUFFICES ASSUME link.kind = "session" PROVE FALSE
    OBVIOUS
  <2>1. call.op \in {"use", "connect"} /\ ~Readable(Message, link.in)
    BY <1>0 DEF PairInv, SessionInTurn, CallInTurn, Idle
  <2>2. ~Asks
    BY <1>0 DEF Asks
  <2>3. Answers /\ toClient[1].enc = link.in
    BY <2>1, <2>2 DEF PairInv, SessionInTurn, Connecting
  <2>4. Message = toClient[1]
    BY <2>3, Single DEF Answers, Message
  <2> QED BY <2>1, <2>3, <2>4 DEF Readable
<1>2. toClient' \in Seq(Answer)
  BY <1>0, Queue DEF PairInv, HapType
<1>3. HapType'
  BY <1>0, <1>2 DEF PairInv, HapType
<1>4. CallInTurn'
  <2>1. link.kind # Nil
    BY <1>0 DEF PairInv, CallInTurn
  <2> QED BY <1>0, <2>1 DEF PairInv, CallInTurn
<1>5. PairedIsProven'
  BY <1>0, SameCredentials
<1>6. PinProven'
  BY <1>0 DEF PairInv, PinProven
<1>7. ~garbled'
  BY <1>0, <1>1 DEF PairInv, SessionInTurn
<1>8. SessionInTurn'
  BY <1>0, <1>1, <1>7 DEF SessionInTurn, OnlyOurDevice
<1>9. LegacyTurn'
  <2>1. Idle \/ Asks \/ Answers => toDevice = <<>> /\ toClient' = <<>>
    BY <1>0, Single DEF Idle, Asks, Answers
  <2> QED BY <1>0, <2>1 DEF PairInv, LegacyTurn, Idle
<1> QED BY <1>3, <1>4, <1>5, <1>6, <1>8, <1>9 DEF PairInv

(* A time that is up closes a session, and is noted in a pairing. *)
LEMMA TimesOutKeeps == ASSUME PairInv, TimesOut PROVE PairInv'
<1> DEFINE e == hnd.expired \/ (call.op = "finish" /\ link.kind = "pairing")
<1>0. /\ call.op # Nil /\ call' = NoCall /\ UNCHANGED <<proto, cred, garbled>>
      /\ IF call.op \in {"connect", "use"} THEN Closes ELSE UNCHANGED <<link, srv, toDevice, toClient>>
      /\ hnd' = [hnd EXCEPT !.expired = e]
  BY DEF TimesOut
<1>1. hnd \in [started : BOOLEAN, begun : BOOLEAN, pin : Pins \cup {Nil}, paired : BOOLEAN,
              keys : Nat, expired : BOOLEAN]
  BY DEF PairInv, HapType
<1>2. CASE call.op \in {"connect", "use"}
  <2>1. e = hnd.expired
    BY <1>1, <1>2
  <2>2. hnd' = hnd
    BY <1>0, <1>1, <2>1
  <2> QED BY <1>0, <1>2, <2>2, ClosedKeeps
<1>3. CASE call.op \in {"begin", "finish"}
  <2>0. UNCHANGED <<link, srv, toDevice, toClient>> /\ call'.op = Nil
    BY <1>0, <1>3 DEF NoCall
  <2>1. e \in BOOLEAN /\ (hnd.expired => e) /\ (call.op = "finish" /\ link.kind = "pairing" => e)
    BY <1>1
  <2> HIDE DEF e
  <2>2. hnd' \in [started : BOOLEAN, begun : BOOLEAN, pin : Pins \cup {Nil}, paired : BOOLEAN,
                  keys : Nat, expired : BOOLEAN]
    BY <1>0, <1>1, <2>1
  <2>3. hnd'.expired = e /\ hnd'.begun = hnd.begun /\ hnd'.paired = hnd.paired
    BY <1>0, <1>1
  <2>4. HapType'
    BY <1>0, <2>0, <2>2 DEF PairInv, HapType
  <2>5. CallInTurn'
    BY <1>0, <2>0 DEF PairInv, CallInTurn
  <2>6. PairedIsProven'
    BY <1>0, <2>1, <2>3, SameCredentials
  <2>7. PinProven'
    BY <2>0 DEF PinProven
  <2>8. LegacyTurn'
    <3>1. hnd'.begun /\ ~hnd'.expired => link.kind # "pairing"
      BY <1>3, <2>1, <2>3 DEF PairInv, CallInTurn
    <3> QED BY <2>0, <3>1 DEF LegacyTurn
  <2>9. SessionInTurn'
    BY <1>0, <1>3, <2>0, NoSession DEF PairInv, CallInTurn
  <2> QED BY <2>4, <2>5, <2>6, <2>7, <2>8, <2>9 DEF PairInv
<1> QED BY <1>0, <1>2, <1>3 DEF PairInv, CallInTurn

(* Connections that are closed by the handler, or lost. *)
LEMMA LostKeeps == ASSUME PairInv, HandlerClose \/ Lose PROVE PairInv'
BY ClosedKeeps DEF HandlerClose, Lose

-----------------------------------------------------------------------------
(* What the device may be left in. *)
Server == [key : ProvenKey, secret : Key, mode : {"setup", "verify"}, out : Cipher, in : Cipher, on : BOOLEAN]

(* A request that comes in does not change the keys, and encrypts what is   *)
(* said from then on if there are any.                                     *)
LEMMA Received ==
    ASSUME HapType
    PROVE  /\ Receives \in Server /\ Receives.in = srv.in /\ Receives.out = srv.out
           /\ Receives.key = srv.key /\ Receives.secret = srv.secret /\ Receives.mode = srv.mode
           /\ Receives.on <=> srv.on \/ srv.in # Plain
<1>1. srv \in Server
  BY DEF HapType, Server
<1>2. (srv.on \/ srv.in # Plain) \in BOOLEAN
  OBVIOUS
<1>3. Receives = [srv EXCEPT !.on = srv.on \/ srv.in # Plain]
  BY DEF Receives
<1> HIDE DEF Receives
<1>4. Receives \in Server
  BY <1>1, <1>2, <1>3 DEF Server
<1>5. /\ Receives.in = srv.in /\ Receives.out = srv.out
      /\ Receives.key = srv.key /\ Receives.secret = srv.secret /\ Receives.mode = srv.mode
  BY <1>1, <1>3 DEF Server
<1>6. Receives.on <=> srv.on \/ srv.in # Plain
  BY <1>1, <1>3 DEF Server
<1> QED BY <1>4, <1>5, <1>6

(* A device that enables encryption has the keys it made, and goes on in    *)
(* the clear with what it is about to say.                                 *)
LEMMA EnabledServer ==
    ASSUME HapType, NEW secret \in Key
    PROVE  LET ks == ServerEnables(proto, secret)
           IN  /\ Enable(ks) \in Server /\ Enable(ks).on = srv.on
               /\ Enable(ks).out = ks.out /\ Enable(ks).in = ks.in
               /\ ks.in = <<ClientWrites, secret>> /\ ks.out = <<ClientReads, secret>>
<1> DEFINE ks == ServerEnables(proto, secret)
<1>1. ks.out \in Cipher /\ ks.in \in Cipher
  <2>1. 0 \in Nat /\ proto \in Protos
    BY DEF HapType
  <2> QED BY <2>1, Made
<1>2. ks.in = <<ClientWrites, secret>> /\ ks.out = <<ClientReads, secret>>
  BY DEF ServerEnables, Expand, ClientWrites, ClientReads
<1> HIDE DEF ks
<1>3. srv \in Server
  BY DEF HapType, Server
<1>4. Enable(ks) \in Server /\ Enable(ks).on = srv.on
      /\ Enable(ks).out = ks.out /\ Enable(ks).in = ks.in
  BY <1>1, <1>3 DEF Enable, Server
<1> QED BY <1>2, <1>4 DEF ks

(* The request the device takes, and the one that is under way otherwise. *)
LEMMA TakesRequest ==
    ASSUME PairInv, toDevice # <<>>, toDevice' = Tail(toDevice)
    PROVE  /\ Asked \in Ask /\ Asked.key[2] \in Nat /\ toDevice' \in Seq(Ask)
           /\ link.kind \in {"pairing", "session"}
           /\ Idle \/ Asks \/ Answers => /\ Asks /\ toDevice[1] = Asked /\ Asked.k = call.at
                                         /\ toClient = <<>> /\ toDevice' = <<>>
<1>1. Asked \in Ask /\ toDevice' \in Seq(Ask)
  BY Queue DEF PairInv, HapType, Asked
<1>2. Asked.key[2] \in Nat
  BY <1>1 DEF Ask, Pair
<1>3. link.kind \in {"pairing", "session"}
  BY DEF PairInv, CallInTurn, HapType
<1>4. Idle \/ Asks \/ Answers => /\ Asks /\ toDevice[1] = Asked /\ Asked.k = call.at
                                 /\ toClient = <<>> /\ toDevice' = <<>>
  BY Single DEF Idle, Asks, Answers, Asked
<1> QED BY <1>1, <1>2, <1>3, <1>4

(* What a device does to a pairing: the request is gone, it has answered or *)
(* not, and it has refused a proof of the legacy procedure that was not    *)
(* made with its PIN.                                                      *)
LEMMA DeviceKeepsPairing ==
    ASSUME PairInv, link.kind = "pairing", toDevice # <<>>, toDevice' = Tail(toDevice), srv' \in Server,
           NEW k \in Kind, NEW key \in Key, k = "M6" => key \in ProvenKey,
           UNCHANGED <<proto, hnd, cred, call, link>>, ~garbled',
           Says(srv', k, key) \/ toClient' = toClient,
           Asked.k = "L3" /\ k # "500" => Asked.key[1] = PIN_CODE
    PROVE  PairInv'
<1> DEFINE m == [k |-> k, key |-> key, enc |-> IF srv'.on THEN srv'.out ELSE Plain]
<1>1. m \in Answer /\ m.k = k
  <2>1. (IF srv'.on THEN srv'.out ELSE Plain) \in Cipher
    BY DEF Server, Cipher
  <2> QED BY <2>1, Answered1
<1>2. toClient' = Append(toClient, m) \/ toClient' = toClient
  BY DEF Says
<1> HIDE DEF m
<1>3. /\ toDevice' \in Seq(Ask)
      /\ Idle \/ Asks \/ Answers => /\ Asks /\ toDevice[1] = Asked /\ Asked.k = call.at
                                    /\ toClient = <<>> /\ toDevice' = <<>>
  BY TakesRequest
<1>4. HapType'
  <2>1. toClient' \in Seq(Answer)
    <3>1. toClient \in Seq(Answer)
      BY DEF PairInv, HapType
    <3>2. Append(toClient, m) \in Seq(Answer)
      BY <1>1, <3>1, Queue
    <3> QED BY <1>2, <3>1, <3>2
  <2> QED BY <1>3, <2>1 DEF PairInv, HapType, Server
<1>5. CallInTurn'
  BY DEF PairInv, CallInTurn
<1>6. PairedIsProven'
  BY SameCredentials
<1>7. PinProven'
  BY DEF PairInv, PinProven
<1>8. SessionInTurn'
  BY DEF SessionInTurn, OnlyOurDevice
<1>9. LegacyTurn'
  <2>1. Idle \/ Asks \/ Answers =>
           \/ Idle'
           \/ Answers' /\ toClient'[1] = m
    <3>1. toClient = <<>> => toClient' = <<>> \/ toClient' = <<m>>
      BY <1>2, Single
    <3>2. toClient' = <<m>> => toClient'[1] = m
      BY Single
    <3> QED BY <1>3, <3>1, <3>2 DEF Idle, Answers
  <2>2. CASE call.op = "begin"
    BY <2>1, <2>2 DEF PairInv, LegacyTurn, CallInTurn
  <2>3. CASE call.op = "finish" /\ proto = "legacy" /\ hnd.begun /\ ~hnd.expired
    <3>1. Asks /\ (call.at = "L3" => Asked.key[1] = hnd.pin) /\ Asked.k = call.at
      <4>1. ~Idle /\ ~Answers
        BY DEF Idle, Answers
      <4> QED BY <1>3, <2>3, <4>1 DEF PairInv, LegacyTurn
    <3>2. call.at = "L3" /\ m.k # "500" => hnd.pin = PIN_CODE
      BY <1>1, <3>1
    <3> QED BY <2>1, <2>3, <3>1, <3>2 DEF LegacyTurn
  <2>4. CASE call.op = Nil /\ proto = "legacy" /\ hnd.begun /\ ~hnd.expired
    BY <1>3, <2>4 DEF PairInv, LegacyTurn, Idle
  <2> QED BY <2>2, <2>3, <2>4 DEF LegacyTurn, PairInv, CallInTurn
<1> QED BY <1>4, <1>5, <1>6, <1>7, <1>8, <1>9 DEF PairInv

(* What a device answers in a session is the only message under way. *)
LEMMA DeviceAnswersSession ==
    ASSUME PairInv, link.kind = "session", NEW k, Reads(k), srv' \in Server,
           NEW a \in Kind, a # "M6", NEW key \in Key, Says(srv', a, key)
    PROVE  /\ Asks /\ Asked.k = k /\ call.at = k /\ call.op \in {"connect", "use"} /\ toDevice[1] = Asked
           /\ call.op = "connect" => Connecting
           /\ call.op = "use" => k = "D" /\ InSync
           /\ Answers' /\ ~Asks' /\ toClient'[1].k = a /\ toClient'[1].key = key
           /\ toClient'[1].enc = IF srv'.on THEN srv'.out ELSE Plain
           /\ UNCHANGED <<proto, hnd, cred, call, link>>
           /\ HapType' /\ CallInTurn' /\ PairedIsProven' /\ PinProven' /\ LegacyTurn'
           /\ ~garbled' /\ OnlyOurDevice'
<1> DEFINE m == [k |-> a, key |-> key, enc |-> IF srv'.on THEN srv'.out ELSE Plain]
<1>1. m \in Answer /\ m.k = a /\ m.key = key /\ m.enc = IF srv'.on THEN srv'.out ELSE Plain
  <2>1. (IF srv'.on THEN srv'.out ELSE Plain) \in Cipher
    BY DEF Server, Cipher
  <2> QED BY <2>1, Answered1
<1>2. toClient' = Append(toClient, m) /\ UNCHANGED <<proto, hnd, cred, call, link, garbled>>
  BY DEF Says
<1> HIDE DEF m
<1>3. /\ toDevice' \in Seq(Ask)
      /\ Idle \/ Asks \/ Answers => /\ Asks /\ toDevice[1] = Asked /\ Asked.k = call.at
                                    /\ toClient = <<>> /\ toDevice' = <<>>
  BY TakesRequest DEF Reads
<1>4. /\ call.op = "connect" => Connecting
      /\ call.op = "use" => call.at = "D" /\ InSync
      /\ Idle \/ Asks \/ Answers
      /\ call.op \in {Nil, "connect", "use"}
      /\ call.op = Nil => Idle
  BY DEF PairInv, CallInTurn, SessionInTurn, Connecting
<1>5. call.op # Nil
  BY <1>4 DEF Reads, Idle
<1>6. Asks /\ Asked.k = k /\ call.at = k /\ toDevice[1] = Asked /\ toDevice' = <<>> /\ toClient = <<>>
  BY <1>3, <1>4 DEF Reads
<1>7. toClient' = <<m>> /\ toClient'[1] = m
  BY <1>2, <1>6, Single
<1>8. Answers' /\ ~Asks'
  BY <1>6, <1>7, Single DEF Answers, Asks
<1>9. HapType'
  <2>1. toClient' \in Seq(Answer)
    BY <1>1, <1>7
  <2> QED BY <1>2, <1>3, <2>1 DEF PairInv, HapType, Server
<1>10. CallInTurn'
  BY <1>2 DEF PairInv, CallInTurn
<1>11. PairedIsProven'
  BY <1>2, SameCredentials
<1>12. PinProven' /\ LegacyTurn'
  BY <1>2 DEF PairInv, PinProven, LegacyTurn
<1>13. ~garbled' /\ OnlyOurDevice'
  BY <1>2 DEF PairInv, SessionInTurn, OnlyOurDevice
<1> QED BY <1>1, <1>2, <1>4, <1>5, <1>6, <1>7, <1>8, <1>9, <1>10, <1>11, <1>12, <1>13

(* M1, M3 and M5 of a pairing, and requests that cannot be read: none of    *)
(* them is one of a session.                                               *)
LEMMA SetupKeeps ==
    ASSUME PairInv, M1Setup \/ M3Setup \/ M5Setup \/ MrpM5Setup \/ M3TakenForVerify
    PROVE  PairInv'
<1>0. HapType /\ toDevice # <<>> /\ toDevice' = Tail(toDevice) /\ Asked.k \in {"M1", "M3", "M5"}
  BY DEF PairInv, M1Setup, M3Setup, M5Setup, MrpM5Setup, M3TakenForVerify, Reads
<1>1. link.kind = "pairing"
  <2>1. link.kind \in {"pairing", "session"} /\ (Idle \/ Asks \/ Answers => Asked.k = call.at /\ ~Idle)
    BY <1>0, TakesRequest DEF Idle
  <2>2. link.kind = "session" => call.at \in {"D", "V1", "V3", "T1", "T3", "LV1", "LV3"} \/ Idle
    BY DEF PairInv, CallInTurn, SessionInTurn, Connecting
  <2>3. link.kind = "session" => Idle \/ Asks \/ Answers
    BY DEF PairInv, CallInTurn, SessionInTurn, Connecting
  <2> QED BY <1>0, <2>1, <2>2, <2>3
<1>2. Asked.key[2] \in Nat /\ ~garbled
  BY <1>0, TakesRequest DEF PairInv, SessionInTurn
<1>3. /\ Receives \in Server /\ Receives.key = srv.key
  BY <1>0, Received
<1> HIDE DEF Receives
<1>4. NoKey \in Key /\ {"M2", "M4", "M6", "V4", "500", "Error"} \subseteq Kind /\ srv.key \in ProvenKey
      /\ ProvenKey \subseteq Key /\ srv.secret \in Key /\ NewServerSession(Asked.key[2]) \in ProvenKey
  BY <1>0, <1>2, Made DEF HapType, Kind
<1>5. CASE M1Setup
  <2>1. srv' = [Receives EXCEPT !.mode = "setup"] /\ Says(srv', "M2", NoKey)
    BY <1>5 DEF M1Setup
  <2>2. srv' \in Server
    BY <1>3, <2>1 DEF Server
  <2>3. UNCHANGED <<proto, hnd, cred, call, link>> /\ ~garbled'
    BY <1>2, <2>1 DEF Says
  <2> QED BY <1>0, <1>1, <1>4, <2>1, <2>2, <2>3, DeviceKeepsPairing
<1>6. CASE M3Setup
  <2>1. srv' = [Receives EXCEPT !.key = NewServerSession(Asked.key[2])]
        /\ (Says(srv', "M4", NoKey) \/ Says(srv', "Error", NoKey))
    BY <1>6 DEF M3Setup
  <2>2. srv' \in Server
    BY <1>3, <1>4, <2>1 DEF Server
  <2>3. UNCHANGED <<proto, hnd, cred, call, link>> /\ ~garbled'
    BY <1>2, <2>1 DEF Says
  <2> QED BY <1>0, <1>1, <1>4, <2>1, <2>2, <2>3, DeviceKeepsPairing
<1>7. CASE M5Setup
  <2>1. srv' = Receives /\ (Says(srv', "M6", srv.key) \/ Says(srv', "500", NoKey)
                            \/ (UNCHANGED <<proto, hnd, cred, call, link, garbled>> /\ toClient' = toClient))
    BY <1>7 DEF M5Setup, ServerFails
  <2>2. UNCHANGED <<proto, hnd, cred, call, link>> /\ ~garbled'
    BY <1>2, <2>1 DEF Says
  <2>3. srv.key \in Key
    BY <1>4
  <2>4. CASE Says(srv', "M6", srv.key)
    BY <1>0, <1>1, <1>3, <1>4, <2>1, <2>2, <2>3, <2>4, DeviceKeepsPairing
  <2>5. CASE Says(srv', "500", NoKey) \/ toClient' = toClient
    BY <1>0, <1>1, <1>3, <1>4, <2>1, <2>2, <2>5, DeviceKeepsPairing
  <2> QED BY <2>1, <2>4, <2>5
<1>8. CASE MrpM5Setup
  <2>1. srv' = Receives /\ Says(srv', "M6", srv.key)
    BY <1>8 DEF MrpM5Setup
  <2>2. UNCHANGED <<proto, hnd, cred, call, link>> /\ ~garbled'
    BY <1>2, <2>1 DEF Says
  <2>3. srv.key \in Key
    BY <1>4
  <2> QED BY <1>0, <1>1, <1>3, <1>4, <2>1, <2>2, <2>3, DeviceKeepsPairing
<1>9. CASE M3TakenForVerify
  <2>1. srv' = Enable(ServerEnables(proto, srv.secret)) /\ Says(srv', "V4", NoKey)
    BY <1>9 DEF M3TakenForVerify
  <2>2. srv' \in Server
    BY <1>0, <1>4, <2>1, EnabledServer
  <2>3. UNCHANGED <<proto, hnd, cred, call, link>> /\ ~garbled'
    BY <1>2, <2>1 DEF Says
  <2> QED BY <1>0, <1>1, <1>4, <2>1, <2>2, <2>3, DeviceKeepsPairing
<1> QED BY <1>5, <1>6, <1>7, <1>8, <1>9

(* A request that cannot be read is one of a pairing that goes on after the *)
(* device has enabled encryption: a session has none.                      *)
LEMMA UnreadKeeps == ASSUME PairInv, Unread PROVE PairInv'
<1>0. /\ HapType /\ toDevice # <<>> /\ ~Readable(Asked, srv.in) /\ toDevice' = Tail(toDevice) /\ srv' = Receives
      /\ garbled' = (garbled \/ link.kind = "session")
      /\ UNCHANGED <<proto, hnd, cred, call, link, toClient>>
  BY DEF PairInv, Unread
<1>1. /\ link.kind \in {"pairing", "session"}
      /\ Idle \/ Asks \/ Answers => Asks /\ toDevice[1] = Asked /\ ~Idle /\ ~Answers
  BY <1>0, TakesRequest DEF Idle, Answers
<1>2. link.kind # "session"
  <2> SUFFICES ASSUME link.kind = "session" PROVE FALSE
    OBVIOUS
  <2>1. Asks /\ toDevice[1] = Asked /\ ~Idle /\ ~Answers
    BY <1>1 DEF PairInv, CallInTurn, SessionInTurn, Connecting
  <2>2. CASE call.op = "use"
    <3>1. Asked.enc = link.out /\ srv.in = link.out
      BY <2>1, <2>2 DEF PairInv, SessionInTurn, InSync
    <3> QED BY <1>0, <3>1 DEF Readable
  <2>3. CASE call.op = "connect"
    <3>1. Asked.enc = Plain /\ srv.in = Plain
      BY <2>1, <2>3 DEF PairInv, SessionInTurn, Connecting, Clear
    <3> QED BY <1>0, <3>1 DEF Readable
  <2> QED BY <2>1, <2>2, <2>3 DEF PairInv, CallInTurn, SessionInTurn
<1>3. link.kind = "pairing" /\ ~garbled' /\ srv' \in Server /\ NoKey \in Key /\ "500" \in Kind
  <2>1. 0 \in Nat
    OBVIOUS
  <2>2. NoKey \in Key
    BY <1>0, <2>1, Made
  <2> QED BY <1>0, <1>1, <1>2, <2>2, Received DEF PairInv, SessionInTurn, Kind
<1> QED BY <1>0, <1>3, DeviceKeepsPairing

(* The verification of a pairing or of a session: the device has made the   *)
(* secret with the keys the client has, and its own.                       *)
LEMMA VerifyKeeps == ASSUME PairInv, M1Verify \/ M3Verify PROVE PairInv'
<1>0. /\ HapType /\ toDevice # <<>> /\ toDevice' = Tail(toDevice) /\ Asked.k \in {"V1", "V3"}
      /\ Reads(Asked.k)
  BY DEF PairInv, M1Verify, M3Verify, Reads
<1>1. Asked.key[2] \in Nat /\ ~garbled /\ link.kind \in {"pairing", "session"}
  BY <1>0, TakesRequest DEF PairInv, SessionInTurn
<1>2. CASE M1Verify
  <2> DEFINE secret == Shared(Asked.key[2], link.dev)
             key == Signature(link.dev)
  <2>1. srv' = [Receives EXCEPT !.mode = "verify", !.secret = secret] /\ Says(srv', "V2", key) /\ Reads("V1")
    BY <1>2 DEF M1Verify
  <2>2. /\ Receives \in Server /\ Receives.in = srv.in /\ Receives.out = srv.out
        /\ Receives.on <=> srv.on \/ srv.in # Plain
    BY <1>0, Received
  <2> HIDE DEF Receives
  <2>3. secret \in Key /\ key \in Key /\ "V2" \in Kind
    <3>1. link.dev \in Devices \cup {Nil}
      BY <1>0 DEF HapType
    <3>2. secret \in Pair /\ Pair \subseteq Key
      BY <1>0, <1>1, <3>1, Made
    <3>3. key \in Pair
      BY <3>1 DEF Signature, Pair
    <3> QED BY <3>2, <3>3 DEF Kind
  <2>3a. Asked.key[2] = hnd.keys => secret = Shared(hnd.keys, link.dev)
    OBVIOUS
  <2> HIDE DEF secret
  <2>4. /\ srv' \in Server /\ srv'.in = srv.in /\ srv'.out = srv.out /\ srv'.secret = secret
        /\ srv'.on <=> srv.on \/ srv.in # Plain
    BY <2>1, <2>2, <2>3 DEF Server
  <2>5. UNCHANGED <<proto, hnd, cred, call, link>> /\ ~garbled'
    BY <1>1, <2>1 DEF Says
  <2>6. CASE link.kind = "pairing"
    BY <1>0, <2>1, <2>3, <2>4, <2>5, <2>6, DeviceKeepsPairing
  <2>7. CASE link.kind = "session"
    <3> HIDE DEF key
    <3>1. /\ Asks /\ call.at = "V1" /\ call.op = "connect" /\ Connecting /\ toDevice[1] = Asked
          /\ Answers' /\ ~Asks' /\ toClient'[1].k = "V2" /\ toClient'[1].key = key
          /\ toClient'[1].enc = IF srv'.on THEN srv'.out ELSE Plain
          /\ HapType' /\ CallInTurn' /\ PairedIsProven' /\ PinProven' /\ LegacyTurn'
          /\ ~garbled' /\ OnlyOurDevice'
      <4>1. call.op = "use" => "V1" = "D"
        BY <2>1, <2>3, <2>4, <2>7, DeviceAnswersSession
      <4> QED BY <2>1, <2>3, <2>4, <2>7, <4>1, DeviceAnswersSession
    <3>2. Clear /\ Clear' /\ ~srv'.on /\ Asked.key[2] = hnd.keys
      BY <2>4, <3>1 DEF Connecting, Clear
    <3>3. srv'.secret = Shared(hnd'.keys, link'.dev) /\ toClient'[1].key = Signature(link'.dev)
      BY <2>3a, <2>4, <2>5, <3>1, <3>2 DEF key
    <3>4. Connecting'
      BY <2>5, <3>1, <3>2, <3>3 DEF Connecting
    <3> QED BY <2>5, <3>1, <3>4 DEF PairInv, SessionInTurn
  <2> QED BY <1>1, <2>6, <2>7
<1>3. CASE M3Verify
  <2> DEFINE ks == ServerEnables(proto, srv.secret)
  <2>1. srv' = Enable(ks) /\ Says(srv', "V4", NoKey) /\ Reads("V3")
    BY <1>3 DEF M3Verify
  <2>2. srv.secret \in Key /\ NoKey \in Key /\ "V4" \in Kind
    <3>1. NoKey \in Pair /\ Pair \subseteq Key
      BY <1>0, <1>1, Made
    <3> QED BY <1>0, <3>1 DEF HapType, Kind
  <2>3. /\ srv' \in Server /\ srv'.on = srv.on
        /\ srv'.in = <<ClientWrites, srv.secret>> /\ srv'.out = <<ClientReads, srv.secret>>
    BY <1>0, <2>1, <2>2, EnabledServer
  <2> HIDE DEF ks
  <2>4. UNCHANGED <<proto, hnd, cred, call, link>> /\ ~garbled'
    BY <1>1, <2>1 DEF Says
  <2>5. CASE link.kind = "pairing"
    BY <1>0, <2>1, <2>2, <2>3, <2>4, <2>5, DeviceKeepsPairing
  <2>6. CASE link.kind = "session"
    <3>1. /\ Asks /\ call.at = "V3" /\ call.op = "connect" /\ Connecting /\ toDevice[1] = Asked
          /\ Answers' /\ ~Asks' /\ toClient'[1].enc = IF srv'.on THEN srv'.out ELSE Plain
          /\ HapType' /\ CallInTurn' /\ PairedIsProven' /\ PinProven' /\ LegacyTurn'
          /\ ~garbled' /\ OnlyOurDevice'
      <4>1. call.op = "use" => "V3" = "D"
        BY <2>1, <2>2, <2>3, <2>6, DeviceAnswersSession
      <4> QED BY <2>1, <2>2, <2>3, <2>6, <4>1, DeviceAnswersSession
    <3>2. srv.secret = Shared(hnd.keys, link.dev) /\ ~srv'.on
      BY <2>3, <3>1 DEF Connecting
    <3>3. SecretOfCall' = srv.secret /\ srv'.secret = srv.secret
      <4>1. srv \in Server
        BY <1>0 DEF HapType, Server
      <4>2. srv'.secret = srv.secret
        BY <2>1, <4>1 DEF Enable, Server
      <4> QED BY <2>4, <3>1, <3>2, <4>2 DEF SecretOfCall
    <3>4. ClientWrites' = ClientWrites /\ ClientReads' = ClientReads
      BY <2>4 DEF ClientWrites, ClientReads
    <3>5. Enabled'
      BY <2>3, <3>3, <3>4 DEF Enabled
    <3>6. Connecting'
      BY <2>4, <3>1, <3>2, <3>3, <3>5 DEF Connecting, Shared
    <3> QED BY <2>4, <3>1, <3>6 DEF PairInv, SessionInTurn
  <2> QED BY <1>1, <2>5, <2>6
<1> QED BY <1>2, <1>3

(* The transient pairing of a session: the same, with the key of SRP. *)
LEMMA TransientKeeps == ASSUME PairInv, TransientM1 \/ TransientM3 PROVE PairInv'
<1>0. /\ HapType /\ toDevice # <<>> /\ toDevice' = Tail(toDevice) /\ Asked.k \in {"T1", "T3"}
  BY DEF PairInv, TransientM1, TransientM3, Reads
<1>1. Asked.key[2] \in Nat /\ ~garbled /\ link.kind \in {"pairing", "session"}
  BY <1>0, TakesRequest DEF PairInv, SessionInTurn
<1>1a. NoKey \in Key /\ {"T2", "T4"} \subseteq Kind /\ SrpKey(Nil, Asked.key[2]) \in Key
  <2>1. NoKey \in Pair /\ Pair \subseteq Key /\ SrpKey(Nil, Asked.key[2]) \in Pair
    BY <1>0, <1>1, Made
  <2> QED BY <2>1 DEF Kind
<1>2. CASE TransientM1
  <2>1. srv' = Receives /\ Says(srv', "T2", NoKey) /\ Reads("T1")
    BY <1>2 DEF TransientM1
  <2>2. /\ srv' \in Server /\ srv'.in = srv.in /\ srv'.out = srv.out
        /\ srv'.on <=> srv.on \/ srv.in # Plain
    BY <1>0, <2>1, Received
  <2>3. UNCHANGED <<proto, hnd, cred, call, link>> /\ ~garbled'
    BY <1>1, <2>1 DEF Says
  <2>4. CASE link.kind = "pairing"
    BY <1>0, <1>1a, <2>1, <2>2, <2>3, <2>4, DeviceKeepsPairing
  <2>5. CASE link.kind = "session"
    <3>1. /\ Asks /\ call.at = "T1" /\ call.op = "connect" /\ Connecting /\ toDevice[1] = Asked
          /\ Answers' /\ ~Asks' /\ toClient'[1].enc = IF srv'.on THEN srv'.out ELSE Plain
          /\ HapType' /\ CallInTurn' /\ PairedIsProven' /\ PinProven' /\ LegacyTurn'
          /\ ~garbled' /\ OnlyOurDevice'
      <4>1. call.op = "use" => "T1" = "D"
        BY <1>1a, <2>1, <2>2, <2>5, DeviceAnswersSession
      <4> QED BY <1>1a, <2>1, <2>2, <2>5, <4>1, DeviceAnswersSession
    <3>2. Clear' /\ ~srv'.on
      BY <2>2, <3>1 DEF Connecting, Clear
    <3>3. Connecting'
      BY <2>3, <3>1, <3>2 DEF Connecting
    <3> QED BY <2>3, <3>1, <3>3 DEF PairInv, SessionInTurn
  <2> QED BY <1>1, <2>4, <2>5
<1>3. CASE TransientM3
  <2> DEFINE secret == SrpKey(Nil, Asked.key[2])
             ks == ServerEnables(proto, secret)
  <2>1. srv' = Enable(ks) /\ Says(srv', "T4", NoKey) /\ Reads("T3")
    BY <1>3 DEF TransientM3
  <2>2. secret \in Key
    BY <1>1a
  <2>3. Asked.key[2] = hnd.keys => secret = SrpKey(Nil, hnd.keys)
    OBVIOUS
  <2> HIDE DEF secret
  <2>4. /\ srv' \in Server /\ srv'.on = srv.on
        /\ srv'.in = <<ClientWrites, secret>> /\ srv'.out = <<ClientReads, secret>>
    BY <1>0, <2>1, <2>2, EnabledServer
  <2> HIDE DEF ks
  <2>5. UNCHANGED <<proto, hnd, cred, call, link>> /\ ~garbled'
    BY <1>1, <2>1 DEF Says
  <2>6. CASE link.kind = "pairing"
    BY <1>0, <1>1a, <2>1, <2>4, <2>5, <2>6, DeviceKeepsPairing
  <2>7. CASE link.kind = "session"
    <3>1. /\ Asks /\ call.at = "T3" /\ call.op = "connect" /\ Connecting /\ toDevice[1] = Asked
          /\ Answers' /\ ~Asks' /\ toClient'[1].enc = IF srv'.on THEN srv'.out ELSE Plain
          /\ HapType' /\ CallInTurn' /\ PairedIsProven' /\ PinProven' /\ LegacyTurn'
          /\ ~garbled' /\ OnlyOurDevice'
      <4>1. call.op = "use" => "T3" = "D"
        BY <1>1a, <2>1, <2>4, <2>7, DeviceAnswersSession
      <4> QED BY <1>1a, <2>1, <2>4, <2>7, <4>1, DeviceAnswersSession
    <3>2. Asked.key[2] = hnd.keys /\ ~srv'.on
      BY <2>4, <3>1 DEF Connecting
    <3>3. SecretOfCall' = secret
      BY <2>3, <2>5, <3>1, <3>2 DEF SecretOfCall
    <3>4. ClientWrites' = ClientWrites /\ ClientReads' = ClientReads
      BY <2>5 DEF ClientWrites, ClientReads
    <3>5. Enabled'
      BY <2>4, <3>3, <3>4 DEF Enabled
    <3>6. Connecting'
      BY <2>5, <3>1, <3>2, <3>5 DEF Connecting
    <3> QED BY <2>5, <3>1, <3>6 DEF PairInv, SessionInTurn
  <2> QED BY <1>1, <2>6, <2>7
<1> QED BY <1>2, <1>3

(* The device of the legacy procedures keeps nothing. *)
LEMMA LegacyKeeps == ASSUME PairInv, LegacyDevice PROVE PairInv'
<1>0. /\ HapType /\ toDevice # <<>> /\ toDevice' = Tail(toDevice) /\ srv' = srv
  BY DEF PairInv, LegacyDevice, Reads
<1>1. ~garbled /\ link.kind \in {"pairing", "session"}
  BY <1>0, TakesRequest DEF PairInv, SessionInTurn
<1>2. srv' \in Server /\ NoKey \in Key
  <2>1. NoKey \in Pair /\ Pair \subseteq Key
    <3>1. 0 \in Nat
      OBVIOUS
    <3> QED BY <1>0, <3>1, Made
  <2> QED BY <1>0, <2>1 DEF HapType, Server
<1>3. PICK k \in {"pin", "L1", "L3", "L5", "LV1", "LV3"}, a \in {"pin-started", "L2", "L4", "500", "L6", "LV2", "LV4"} :
         Reads(k) /\ Says(srv, a, NoKey) /\ (k = "L3" /\ a # "500" => Asked.key[1] = PIN_CODE)
  <2>1. CASE Reads("pin") /\ Says(srv, "pin-started", NoKey)
    BY <2>1
  <2>2. CASE Reads("L1") /\ Says(srv, "L2", NoKey)
    BY <2>2
  <2>3. CASE Reads("L3") /\ Says(srv, IF Asked.key[1] = PIN_CODE THEN "L4" ELSE "500", NoKey)
    BY <2>3
  <2>4. CASE Reads("L5") /\ Says(srv, "L6", NoKey)
    BY <2>4
  <2>5. CASE Reads("LV1") /\ Says(srv, "LV2", NoKey)
    BY <2>5
  <2>6. CASE Reads("LV3") /\ Says(srv, "LV4", NoKey)
    BY <2>6
  <2> QED BY <2>1, <2>2, <2>3, <2>4, <2>5, <2>6 DEF LegacyDevice
<1>4. a \in Kind /\ a # "M6" /\ Says(srv', a, NoKey) /\ Asked.k = k
  BY <1>0, <1>3 DEF Kind, Reads
<1>5. UNCHANGED <<proto, hnd, cred, call, link>> /\ ~garbled'
  BY <1>1, <1>3 DEF Says
<1>6. CASE link.kind = "pairing"
  BY <1>0, <1>2, <1>3, <1>4, <1>5, <1>6, DeviceKeepsPairing
<1>7. CASE link.kind = "session"
  <2>1. /\ Asks /\ call.at = k /\ call.op = "connect" /\ Connecting /\ toDevice[1] = Asked
        /\ Answers' /\ ~Asks' /\ toClient'[1].enc = IF srv'.on THEN srv'.out ELSE Plain
        /\ HapType' /\ CallInTurn' /\ PairedIsProven' /\ PinProven' /\ LegacyTurn'
        /\ ~garbled' /\ OnlyOurDevice'
    <3>1. call.op = "use" => k = "D"
      BY <1>2, <1>3, <1>4, <1>7, DeviceAnswersSession
    <3> QED BY <1>2, <1>3, <1>4, <1>7, <3>1, DeviceAnswersSession
  <2>2. k \in {"LV1", "LV3"} /\ Clear' /\ ~srv'.on
    BY <1>0, <1>3, <2>1 DEF Connecting, Clear
  <2>3. Connecting'
    BY <1>5, <2>1, <2>2 DEF Connecting
  <2> QED BY <1>5, <2>1, <2>3 DEF PairInv, SessionInTurn
<1> QED BY <1>1, <1>6, <1>7

(* What is asked in a session is answered with its keys. *)
LEMMA ServeKeeps == ASSUME PairInv, Serve PROVE PairInv'
<1>0. /\ HapType /\ toDevice # <<>> /\ toDevice' = Tail(toDevice) /\ srv' = Receives
      /\ Says(srv', "R", NoKey) /\ Reads("D") /\ Asked.k = "D"
  BY DEF PairInv, Serve, Reads
<1>1. ~garbled /\ link.kind \in {"pairing", "session"}
  BY <1>0, TakesRequest DEF PairInv, SessionInTurn
<1>2. /\ srv' \in Server /\ srv'.in = srv.in /\ srv'.out = srv.out
      /\ srv'.on <=> srv.on \/ srv.in # Plain
  BY <1>0, Received
<1>3. NoKey \in Key /\ "R" \in Kind
  <2>1. NoKey \in Pair /\ Pair \subseteq Key
    <3>1. 0 \in Nat
      OBVIOUS
    <3> QED BY <1>0, <3>1, Made
  <2> QED BY <2>1 DEF Kind
<1>4. UNCHANGED <<proto, hnd, cred, call, link>> /\ ~garbled'
  BY <1>0, <1>1 DEF Says
<1>5. CASE link.kind = "pairing"
  BY <1>0, <1>2, <1>3, <1>4, <1>5, DeviceKeepsPairing
<1>6. CASE link.kind = "session"
  <2>1. /\ call.at = "D" /\ call.op \in {"connect", "use"}
        /\ call.op = "connect" => Connecting
        /\ call.op = "use" => InSync
        /\ Answers' /\ toClient'[1].enc = IF srv'.on THEN srv'.out ELSE Plain
        /\ HapType' /\ CallInTurn' /\ PairedIsProven' /\ PinProven' /\ LegacyTurn'
        /\ ~garbled' /\ OnlyOurDevice'
    BY <1>0, <1>2, <1>3, <1>6, DeviceAnswersSession
  <2>2. call.op = "use" /\ InSync
    BY <2>1 DEF Connecting
  <2>3. InSync' /\ toClient'[1].enc = link'.in
    BY <1>2, <1>4, <2>1, <2>2 DEF InSync
  <2> QED BY <1>4, <2>1, <2>2, <2>3 DEF PairInv, SessionInTurn
<1> QED BY <1>1, <1>5, <1>6

-----------------------------------------------------------------------------
(* The invariant holds when nothing has been paired. *)
LEMMA PairInit == HapInit => PairInv
<1> SUFFICES ASSUME HapInit PROVE PairInv
  OBVIOUS
<1>1. /\ hnd = [started |-> FALSE, begun |-> FALSE, pin |-> Nil, paired |-> FALSE, keys |-> 0,
                expired |-> FALSE]
      /\ proto \in Protos /\ cred = NoCredentials /\ call = NoCall /\ link = NoLink /\ srv = NoServer
      /\ toDevice = <<>> /\ toClient = <<>> /\ garbled = FALSE
  BY DEF HapInit
<1>2. /\ link.kind = Nil /\ link.out = Plain /\ call.op = Nil /\ hnd.paired = FALSE
  BY <1>1 DEF NoLink, Fresh, NoCall
<1>3. HapType
  <2>1. link \in [kind : {Nil, "pairing", "session"}, dev : Devices \cup {Nil}, out : Cipher, in : Cipher]
    BY <1>1 DEF NoLink, Fresh, Cipher
  <2>2. srv \in [key : ProvenKey, secret : Key, mode : {"setup", "verify"}, out : Cipher,
                 in : Cipher, on : BOOLEAN]
    BY <1>1 DEF NoServer, Cipher, Key, ProvenKey
  <2>3. toDevice \in Seq(Ask) /\ toClient \in Seq(Answer)
    BY <1>1
  <2>4. hnd \in [started : BOOLEAN, begun : BOOLEAN, pin : Pins \cup {Nil}, paired : BOOLEAN,
                 keys : Nat, expired : BOOLEAN]
    BY <1>1
  <2>5. cred \in [dev : {Nil, "own"}, pin : Pins \cup {Nil}]
    BY <1>1 DEF NoCredentials
  <2> QED BY <1>1, <2>1, <2>2, <2>3, <2>4, <2>5 DEF HapType
<1>4. CallInTurn /\ PairedIsProven /\ PinProven /\ LegacyTurn
  BY <1>1, <1>2 DEF CallInTurn, PairedIsProven, PinProven, LegacyTurn
<1>5. SessionInTurn
  BY <1>1, <1>2 DEF SessionInTurn, OnlyOurDevice
<1> QED BY <1>3, <1>4, <1>5 DEF PairInv

(* Every step keeps the invariant. *)
LEMMA PairKeeps == PairInv /\ [HapNext]_hapVars => PairInv'
<1> SUFFICES ASSUME PairInv, [HapNext]_hapVars PROVE PairInv'
  OBVIOUS
<1>1. CASE UNCHANGED hapVars
  BY <1>1 DEF hapVars, PairInv, HapType, CallInTurn, PairedIsProven, PinProven, LegacyTurn, SessionInTurn,
              OnlyOurDevice, InSync, Connecting, Enabled, Clear, SecretOfCall, Idle, Asks, Answers,
              ClientWrites, ClientReads
<1>2. CASE Begin \/ BeginAgain \/ Finish \/ HandlerClose \/ Use \/ Lose
  BY <1>2, BeginKeeps, BeginAgainKeeps, FinishKeeps, UseKeeps, LostKeeps
<1>3. CASE ClientStep
  BY <1>3, BegunKeeps, FinishesKeep, SessionsKeep, LateKeeps, TimesOutKeeps DEF ClientStep
<1>4. CASE DeviceStep
  BY <1>4, SetupKeeps, VerifyKeeps, TransientKeeps, LegacyKeeps, ServeKeeps, UnreadKeeps DEF DeviceStep
<1>5. CASE (\E p \in Pins : Pin(p)) \/ (\E d \in Devices : ConnectTo(d))
  BY <1>5, PinKeeps, ConnectKeeps
<1> QED BY <1>1, <1>2, <1>3, <1>4, <1>5 DEF HapNext

(* What pairing leaves behind is good, and what is built on it works: in    *)
(* every order of begin(), pin(), finish() and close(), of answers that are *)
(* late or lost, and of connections to the device, the same device after a *)
(* reset, or another one, credentials were made with the PIN on the screen *)
(* (the legacy procedure apart, once a finish() ran out of time), both ends *)
(* of a session switch to the same keys at the same message, and a session *)
(* with credentials is encrypted only with the device they are of.         *)
THEOREM PairingIsProven == HapSpec => []PairingHolds
<1>1. PairInv => PairingHolds
  BY DEF PairInv, SessionInTurn, PairingHolds, EndsMeet
<1> QED BY <1>1, PairInit, PairKeeps, PTL DEF HapSpec
=============================================================================

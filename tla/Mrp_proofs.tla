----------------------------- MODULE Mrp_proofs -----------------------------
(***************************************************************************)
(* Theorems about the parts of MRP, for every value of the constants.       *)
(*                                                                         *)
(* The registry of players: its invariant is inductive as it stands,        *)
(* together with the types; the two properties of steps follow from it one  *)
(* message at a time.                                                       *)
(*                                                                         *)
(* The protocol: a call is answered through an entry that is its own.  Who  *)
(* waits has at most one entry, an entry is kept by the task it belongs to, *)
(* and start() is exactly where its state says.                             *)
(*                                                                         *)
(* The operations of several messages: whoever waits was promised what it   *)
(* waits for by a message on its way, and what the device said last of a    *)
(* level is what the level is.                                              *)
(***************************************************************************)
EXTENDS Mrp, SequenceTheorems, TLAPS

Inv == TypeOK /\ ActiveIsRegistered

(* The messages that carry a player, with the parts of them that matter.    *)
Queue == {<<>>, <<None>>} \cup {<<i>> : i \in Item}

(* The first entry of a playback queue, if it has one, is an item or none.  *)
LEMMA QueueItem ==
    ASSUME NEW queue \in Queue, queue # <<>>
    PROVE  queue[1] \in Item \cup {None}
BY DEF Queue

(* SET_STATE and UPDATE_CONTENT_ITEM change one player that is then          *)
(* registered.                                                              *)
LEMMA PlayerStep ==
    ASSUME Inv, NEW c \in Client, NEW p \in Player, GetPlayer(c, p),
           NEW state \in Playback \cup {None}, NEW i \in Item \cup {None},
           playback' = [playback EXCEPT ![c][p] = state],
           item' = [item EXCEPT ![c][p] = i],
           activeClient' \in {activeClient, c}, UNCHANGED activePlayer,
           told' \in BOOLEAN
    PROVE  Inv'
<1> USE DEF Inv, TypeOK, ActiveIsRegistered, GetPlayer, GetClient
<1>1. TypeOK'
  OBVIOUS
<1>2. ActiveIsRegistered'
  OBVIOUS
<1> QED
  BY <1>1, <1>2

(* Players that are removed leave values of the right kind.                 *)
LEMMA ForgetType ==
    ASSUME TypeOK, NEW c \in Client, NEW ps \in SUBSET Player, Forget(c, ps)
    PROVE  /\ playback' \in [Client -> [Player -> Playback \cup {None}]]
           /\ item' \in [Client -> [Player -> Item \cup {None}]]
<1>1. /\ [p \in Player |-> IF p \in ps THEN None ELSE playback[c][p]]
            \in [Player -> Playback \cup {None}]
      /\ [p \in Player |-> IF p \in ps THEN None ELSE item[c][p]]
            \in [Player -> Item \cup {None}]
  BY DEF TypeOK
<1> QED
  BY <1>1 DEF Forget, TypeOK

(* The registry is in order before the first message.                       *)
LEMMA InvInit == Init => Inv
<1> SUFFICES ASSUME Init PROVE Inv
  OBVIOUS
<1>1. TypeOK
  BY DEF Init, TypeOK
<1>2. ActiveIsRegistered
  BY DEF Init, ActiveIsRegistered
<1> QED
  BY <1>1, <1>2 DEF Inv

(* No message of the device leaves an unregistered client or player active. *)
LEMMA InvStep == Inv /\ [Next]_vars => Inv'
<1> SUFFICES ASSUME Inv, [Next]_vars PROVE Inv'
  OBVIOUS
<1>1. ASSUME NEW c \in Client, NEW p \in Player,
             NEW state \in Playback \cup {None}, NEW queue \in Queue,
             SetState(c, p, state, queue)
      PROVE  Inv'
  <2>1. (IF state = None THEN playback[c][p] ELSE state) \in Playback \cup {None}
    BY DEF Inv, TypeOK
  <2>2. (IF queue = <<>> THEN item[c][p] ELSE queue[1]) \in Item \cup {None}
    BY QueueItem DEF Inv, TypeOK
  <2>3. activeClient' \in {activeClient, c} /\ told' \in BOOLEAN
    BY <1>1 DEF SetState, Infers, AboutPlayer
  <2>4. /\ playback' = [playback EXCEPT ![c][p] = IF state = None THEN playback[c][p] ELSE state]
        /\ item' = [item EXCEPT ![c][p] = IF queue = <<>> THEN item[c][p] ELSE queue[1]]
    BY <1>1 DEF SetState, Inv, TypeOK
  <2>5. GetPlayer(c, p) /\ UNCHANGED activePlayer
    BY <1>1 DEF SetState
  <2> DEFINE s == IF state = None THEN playback[c][p] ELSE state
             i == IF queue = <<>> THEN item[c][p] ELSE queue[1]
  <2>6. /\ s \in Playback \cup {None} /\ playback' = [playback EXCEPT ![c][p] = s]
        /\ i \in Item \cup {None} /\ item' = [item EXCEPT ![c][p] = i]
    BY <2>1, <2>2, <2>4
  <2> HIDE DEF s, i
  <2> QED
    BY <2>3, <2>5, <2>6, PlayerStep
<1>2. ASSUME NEW c \in Client, NEW p \in Player, NEW i \in Item, ContentItemUpdate(c, p, i)
      PROVE  Inv'
  <2> DEFINE j == IF item[c][p] # None /\ item[c][p][1] = i[1] THEN i ELSE item[c][p]
  <2>1. j \in Item \cup {None} /\ playback[c][p] \in Playback \cup {None}
    BY DEF Inv, TypeOK
  <2>2. /\ item' = [item EXCEPT ![c][p] = j]
        /\ playback' = [playback EXCEPT ![c][p] = playback[c][p]]
    BY <1>2 DEF ContentItemUpdate, Inv, TypeOK
  <2>3. told' \in BOOLEAN
    BY <1>2 DEF ContentItemUpdate, AboutPlayer
  <2>4. GetPlayer(c, p) /\ UNCHANGED <<activePlayer, activeClient>>
    BY <1>2 DEF ContentItemUpdate
  <2> HIDE DEF j
  <2> QED
    BY <2>1, <2>2, <2>3, <2>4, PlayerStep
<1>3. ASSUME NEW c \in Client, NEW p \in Player, SetNowPlayingPlayer(c, p)
      PROVE  Inv'
  BY <1>3 DEF SetNowPlayingPlayer, GetPlayer, GetClient, AboutClient, Inv, TypeOK, ActiveIsRegistered
<1>4. ASSUME NEW c \in Client, NEW p \in Player, RemovePlayer(c, p)
      PROVE  Inv'
  <2>1. CASE p = NoIdentifier
    <3>1. /\ clients' = clients \cup {c}
          /\ players' = [players EXCEPT ![c] = @ \cup {p}]
          /\ told' = FALSE
          /\ UNCHANGED <<playback, item, activePlayer, activeClient>>
      BY <1>4, <2>1 DEF RemovePlayer, GetClient
    <3>2. TypeOK'
      BY <3>1 DEF Inv, TypeOK
    <3>3. ActiveIsRegistered'
      BY <3>1 DEF Inv, TypeOK, ActiveIsRegistered
    <3> QED
      BY <3>2, <3>3 DEF Inv
  <2>2. CASE p # NoIdentifier
    <3>1. TypeOK'
      <4>1. told' \in BOOLEAN
        BY <1>4, <2>2 DEF RemovePlayer
      <4>2. /\ clients' \subseteq Client
            /\ players' \in [Client -> SUBSET Player]
            /\ activePlayer' \in [Client -> Player \cup {None}]
            /\ activeClient' \in Client \cup {None}
        <5>1. /\ clients' = clients \cup {c}
              /\ players' = [players EXCEPT ![c] = @ \ {p}]
              /\ activePlayer' = [activePlayer EXCEPT ![c] = IF @ = p THEN None ELSE @]
              /\ activeClient' = activeClient
          BY <1>4, <2>2 DEF RemovePlayer, GetClient
        <5> QED
          BY <5>1 DEF Inv, TypeOK
      <4>3. /\ playback' \in [Client -> [Player -> Playback \cup {None}]]
            /\ item' \in [Client -> [Player -> Item \cup {None}]]
        BY <1>4, <2>2, ForgetType DEF RemovePlayer, Inv, TypeOK
      <4> QED
        BY <4>1, <4>2, <4>3 DEF TypeOK
    <3>2. ActiveIsRegistered'
      BY <1>4, <2>2 DEF RemovePlayer, GetClient, Forget, Inv, TypeOK, ActiveIsRegistered
    <3> QED
      BY <3>1, <3>2 DEF Inv
  <2> QED
    BY <2>1, <2>2
<1>5. ASSUME NEW c \in Client, RemoveClient(c)
      PROVE  Inv'
  <2>1. TypeOK'
    <3>1. CASE c \in clients
      <4>1. told' \in BOOLEAN
        BY <1>5, <3>1 DEF RemoveClient
      <4>2. /\ clients' \subseteq Client
            /\ players' \in [Client -> SUBSET Player]
            /\ activePlayer' \in [Client -> Player \cup {None}]
            /\ activeClient' \in Client \cup {None}
        BY <1>5, <3>1 DEF RemoveClient, Inv, TypeOK
      <4>3. /\ playback' \in [Client -> [Player -> Playback \cup {None}]]
            /\ item' \in [Client -> [Player -> Item \cup {None}]]
        BY <1>5, <3>1, ForgetType DEF RemoveClient, Inv, TypeOK
      <4> QED
        BY <4>1, <4>2, <4>3 DEF TypeOK
    <3>2. CASE c \notin clients
      BY <1>5, <3>2 DEF RemoveClient, stateVars, Inv, TypeOK
    <3> QED
      BY <3>1, <3>2
  <2>2. ActiveIsRegistered'
    BY <1>5 DEF RemoveClient, Forget, stateVars, Inv, TypeOK, ActiveIsRegistered
  <2> QED
    BY <2>1, <2>2 DEF Inv
<1>6. ASSUME NEW c \in Client,
             \/ SetNowPlayingClient(c)
             \/ SetDefaultSupportedCommands(c)
             \/ UpdateClient(c)
      PROVE  Inv'
  BY <1>6 DEF SetNowPlayingClient, SetDefaultSupportedCommands, UpdateClient, GetClient, Always,
     AboutClient, Inv, TypeOK, ActiveIsRegistered
<1>7. CASE UNCHANGED vars
  BY <1>7 DEF vars, stateVars, Inv, TypeOK, ActiveIsRegistered
<1> QED
  BY <1>1, <1>2, <1>3, <1>4, <1>5, <1>6, <1>7 DEF Next, Queue

(* The invariant of the registry, for every behaviour.                      *)
LEMMA Invariance == Spec => []Inv
BY InvInit, InvStep, PTL DEF Spec

(* Type correctness of the registry of clients and players.                 *)
THEOREM TypeCorrect == Spec => []TypeOK
<1>1. Inv => TypeOK
  BY DEF Inv
<1> QED
  BY <1>1, Invariance, PTL

(* Whatever the device sends in whatever order, the active client and the   *)
(* active players are registered ones, and a removed player leaves nothing. *)
THEOREM NothingRemovedIsActive == Spec => []ActiveIsRegistered
<1>1. Inv => ActiveIsRegistered
  BY DEF Inv
<1> QED
  BY <1>1, Invariance, PTL

-----------------------------------------------------------------------------
(* What plays has content: the active client has a player, which plays or   *)
(* is paused, with an item.                                                 *)
LEMMA HasContent ==
    ASSUME PlayingHasContent
    PROVE  /\ activeClient # None
           /\ Exists(activeClient)
           /\ item[activeClient][Active(activeClient)] # None
           /\ playback[activeClient][Active(activeClient)] \in {"Playing", "Paused"}
BY DEF PlayingHasContent, Shown, PlaybackOf

(* A state of another client does not take the place of one that plays.     *)
LEMMA InferenceRobsNobody ==
    ASSUME Inv, PlayingHasContent,
           NEW c \in Client, NEW p \in Player,
           NEW state \in Playback \cup {None}, NEW queue \in Queue,
           SetState(c, p, state, queue)
    PROVE  activeClient' = activeClient
<1>1. CASE c = activeClient
  BY <1>1 DEF SetState, Infers
<1>2. CASE c # activeClient
  <2>1. /\ item'[activeClient] = item[activeClient]
        /\ playback'[activeClient] = playback[activeClient]
    BY <1>2, HasContent DEF SetState, Inv, TypeOK
  <2> QED
    BY <2>1, HasContent DEF SetState, Infers
<1> QED
  BY <1>1, <1>2

(* The client that plays something stays the active one, for any number of  *)
(* clients that send any states, unless the device says otherwise.          *)
THEOREM PlayingStays == Spec => NoClientIsRobbed
<1>1. ASSUME Inv, [Next]_vars, PlayingHasContent, activeClient' # activeClient
      PROVE  \E c \in Client : SetNowPlayingClient(c) \/ RemoveClient(c)
  <2>1. Next
    BY <1>1 DEF vars
  <2>2. PICK c \in Client :
          \/ \E p \in Player :
                \/ \E state \in Playback \cup {None}, queue \in Queue : SetState(c, p, state, queue)
                \/ \E i \in Item : ContentItemUpdate(c, p, i)
                \/ SetNowPlayingPlayer(c, p)
                \/ RemovePlayer(c, p)
          \/ SetNowPlayingClient(c)
          \/ RemoveClient(c)
          \/ SetDefaultSupportedCommands(c)
          \/ UpdateClient(c)
    BY <2>1 DEF Next, Queue
  <2>3. ASSUME NEW p \in Player, NEW state \in Playback \cup {None}, NEW queue \in Queue
        PROVE  ~ SetState(c, p, state, queue)
    BY <1>1, InferenceRobsNobody
  <2>4. ASSUME NEW p \in Player
        PROVE  /\ \A i \in Item : ~ ContentItemUpdate(c, p, i)
               /\ ~ SetNowPlayingPlayer(c, p)
               /\ ~ RemovePlayer(c, p)
    BY <1>1 DEF ContentItemUpdate, SetNowPlayingPlayer, RemovePlayer
  <2>5. ~ SetDefaultSupportedCommands(c) /\ ~ UpdateClient(c)
    BY <1>1 DEF SetDefaultSupportedCommands, UpdateClient
  <2> QED
    BY <2>2, <2>3, <2>4, <2>5
<1>2. Inv /\ [Next]_vars
        => [(PlayingHasContent /\ activeClient' # activeClient) =>
              \E c \in Client : SetNowPlayingClient(c) \/ RemoveClient(c)]_vars
  BY <1>1
<1> QED
  BY <1>2, Invariance, PTL DEF Spec, NoClientIsRobbed

-----------------------------------------------------------------------------
(* What is shown depends on the active player of the active client only.    *)
LEMMA ShownSame ==
    ASSUME activeClient' = activeClient,
           activeClient # None => Exists(activeClient)' = Exists(activeClient),
           activeClient # None /\ Exists(activeClient) =>
               LET a == Active(activeClient)
               IN  /\ Active(activeClient)' = a
                   /\ item'[activeClient][a] = item[activeClient][a]
                   /\ playback'[activeClient][a] = playback[activeClient][a]
    PROVE  Shown' = Shown
BY DEF Shown, PlaybackOf

(* A message about a player that is not the one shown changes nothing.       *)
LEMMA OtherPlayer ==
    ASSUME Inv, NEW c \in Client, NEW p \in Player, GetPlayer(c, p),
           NEW state, NEW i,
           playback' = [playback EXCEPT ![c][p] = state],
           item' = [item EXCEPT ![c][p] = i],
           UNCHANGED <<activePlayer, activeClient>>,
           activeClient # None, p # PlayingId'
    PROVE  Shown' = Shown
<1> USE DEF Inv, TypeOK, GetPlayer
<1>1. activeClient \in Client /\ p # Active(activeClient)'
  BY DEF PlayingId
<1>2. CASE activeClient # c
  <2>1. /\ players'[activeClient] = players[activeClient]
        /\ item'[activeClient] = item[activeClient]
        /\ playback'[activeClient] = playback[activeClient]
    BY <1>1, <1>2
  <2> QED
    BY <2>1, ShownSame DEF Exists, Active
<1>3. CASE activeClient = c
  <2>1. players'[c] = players[c] \cup {p} /\ activePlayer'[c] = activePlayer[c]
    BY <1>1
  <2>2. activePlayer[c] = None => p # DefaultPlayer
    BY <1>1, <1>3, <2>1 DEF Active
  <2>3. Exists(c)' = Exists(c) /\ Active(c)' = Active(c)
    BY <1>3, <2>1, <2>2 DEF Exists, Active
  <2>4. ASSUME Exists(c)
        PROVE  /\ item'[c][Active(c)] = item[c][Active(c)]
               /\ playback'[c][Active(c)] = playback[c][Active(c)]
    <3>1. Active(c) # p
      BY <1>1, <1>3, <2>3
    <3> QED
      BY <3>1
  <2> QED
    BY <1>3, <2>3, <2>4, ShownSame
<1> QED
  BY <1>2, <1>3

(* SET_STATE that changes what is shown tells the listener, unless the      *)
(* client became the active one by inference.                               *)
LEMMA SetStateTells ==
    ASSUME Inv, NEW c \in Client, NEW p \in Player,
           NEW state \in Playback \cup {None}, NEW queue \in Queue,
           SetState(c, p, state, queue), ~ told', ~ Inferred
    PROVE  Shown' = Shown
<1>1. activeClient' = activeClient
  BY NoneAssumption DEF SetState, Infers, Inferred
<1>2. activeClient # None /\ p # PlayingId'
  BY <1>1 DEF SetState, AboutPlayer
<1> DEFINE s == IF state = None THEN playback[c][p] ELSE state
           i == IF queue = <<>> THEN item[c][p] ELSE queue[1]
<1>3. /\ GetPlayer(c, p)
      /\ playback' = [playback EXCEPT ![c][p] = s]
      /\ item' = [item EXCEPT ![c][p] = i]
      /\ UNCHANGED activePlayer
  BY DEF SetState, Inv, TypeOK
<1> HIDE DEF s, i
<1> QED
  BY <1>1, <1>2, <1>3, OtherPlayer

(* So does an update of a content item.                                     *)
LEMMA ContentItemUpdateTells ==
    ASSUME Inv, NEW c \in Client, NEW p \in Player, NEW i \in Item,
           ContentItemUpdate(c, p, i), ~ told'
    PROVE  Shown' = Shown
<1>1. activeClient # None /\ p # PlayingId'
  BY DEF ContentItemUpdate, AboutPlayer
<1> DEFINE j == IF item[c][p] # None /\ item[c][p][1] = i[1] THEN i ELSE item[c][p]
           s == playback[c][p]
<1>2. /\ GetPlayer(c, p)
      /\ playback' = [playback EXCEPT ![c][p] = s]
      /\ item' = [item EXCEPT ![c][p] = j]
      /\ UNCHANGED <<activePlayer, activeClient>>
  BY DEF ContentItemUpdate, Inv, TypeOK
<1> HIDE DEF s, j
<1> QED
  BY <1>1, <1>2, OtherPlayer

(* So does the removal of a player, unless it was the default one.          *)
LEMMA RemovePlayerTells ==
    ASSUME Inv, NEW c \in Client, NEW p \in Player, RemovePlayer(c, p),
           ~ told', ~ DefaultRemoved
    PROVE  Shown' = Shown
<1> USE DEF Inv, TypeOK
<1>1. activeClient' = activeClient /\ (activeClient # None => activeClient \in Client)
  BY DEF RemovePlayer
<1>2. CASE activeClient # c
  <2>1. ASSUME activeClient # None
        PROVE  /\ players'[activeClient] = players[activeClient]
               /\ item'[activeClient] = item[activeClient]
               /\ playback'[activeClient] = playback[activeClient]
               /\ activePlayer'[activeClient] = activePlayer[activeClient]
    BY <1>1, <1>2, <2>1 DEF RemovePlayer, Forget
  <2> QED
    BY <1>1, <2>1, ShownSame DEF Exists, Active
<1>3. CASE activeClient = c /\ p = NoIdentifier
  <2>1. /\ players'[c] = players[c] \cup {p}
        /\ UNCHANGED <<playback, item, activePlayer>>
    BY <1>3 DEF RemovePlayer
  <2>2. p # DefaultPlayer \/ activePlayer[c] # None
    BY <1>1, <1>3 DEF DefaultRemoved
  <2> QED
    BY <1>1, <1>3, <2>1, <2>2, ShownSame DEF Exists, Active
<1>4. CASE activeClient = c /\ p # NoIdentifier
  <2>1. activePlayer[c] # p
    BY <1>4 DEF RemovePlayer
  <2>2. p # DefaultPlayer \/ activePlayer[c] # None
    BY DEF DefaultRemoved
  <2>3. players'[c] = players[c] \ {p} /\ activePlayer'[c] = activePlayer[c]
    BY <1>4, <2>1 DEF RemovePlayer
  <2>4. Exists(c)' = Exists(c) /\ Active(c)' = Active(c)
    BY <2>2, <2>3 DEF Exists, Active
  <2>5. ASSUME Exists(c)
        PROVE  Active(c) \in Player /\ Active(c) # p
    BY <2>1, <2>2, <2>5, PlayerAssumption DEF Exists, Active
  <2>6. ASSUME NEW q \in Player, q # p
        PROVE  item'[c][q] = item[c][q] /\ playback'[c][q] = playback[c][q]
    BY <1>4, <2>6 DEF RemovePlayer, Forget
  <2> QED
    BY <1>1, <1>4, <2>4, <2>5, <2>6, ShownSame
<1> QED
  BY <1>2, <1>3, <1>4

(* So does the removal of a client.                                         *)
LEMMA RemoveClientTells ==
    ASSUME Inv, NEW c \in Client, RemoveClient(c), ~ told'
    PROVE  Shown' = Shown
<1> USE DEF Inv, TypeOK
<1>1. CASE c \in clients
  <2>1. activeClient # c /\ activeClient' = activeClient
    BY <1>1 DEF RemoveClient
  <2>2. ASSUME activeClient # None
        PROVE  /\ players'[activeClient] = players[activeClient]
               /\ item'[activeClient] = item[activeClient]
               /\ playback'[activeClient] = playback[activeClient]
               /\ activePlayer'[activeClient] = activePlayer[activeClient]
    BY <1>1, <2>1, <2>2 DEF RemoveClient, Forget
  <2> QED
    BY <2>1, <2>2, ShownSame DEF Exists, Active
<1>2. CASE c \notin clients
  BY <1>2, ShownSame DEF RemoveClient, stateVars, Exists, Active
<1> QED
  BY <1>1, <1>2

(* No change of what plays is kept from the listener, but for the two cases *)
(* named in the property: for every set of clients and players.             *)
THEOREM ListenerIsTold == Spec => ChangesAreTold
<1>1. ASSUME Inv, [Next]_vars, Shown' # Shown, ~ told', ~ DefaultRemoved, ~ Inferred
      PROVE  FALSE
  <2>1. ASSUME NEW c \in Client, NEW p \in Player,
               NEW state \in Playback \cup {None}, NEW queue \in Queue
        PROVE  ~ SetState(c, p, state, queue)
    BY <1>1, SetStateTells
  <2>2. ASSUME NEW c \in Client, NEW p \in Player, NEW i \in Item
        PROVE  ~ ContentItemUpdate(c, p, i)
    BY <1>1, ContentItemUpdateTells
  <2>3. ASSUME NEW c \in Client, NEW p \in Player
        PROVE  ~ SetNowPlayingPlayer(c, p)
    <3> SUFFICES ASSUME SetNowPlayingPlayer(c, p) PROVE FALSE
      OBVIOUS
    <3>1. activeClient # c /\ activeClient' = activeClient
      BY <1>1 DEF SetNowPlayingPlayer, AboutClient
    <3>2. ASSUME activeClient # None
          PROVE  /\ players'[activeClient] = players[activeClient]
                 /\ activePlayer'[activeClient] = activePlayer[activeClient]
      BY <1>1, <3>1, <3>2 DEF SetNowPlayingPlayer, GetPlayer, Inv, TypeOK
    <3> QED
      BY <1>1, <3>1, <3>2, ShownSame DEF SetNowPlayingPlayer, Exists, Active
  <2>4. ASSUME NEW c \in Client, NEW p \in Player
        PROVE  ~ RemovePlayer(c, p)
    BY <1>1, RemovePlayerTells
  <2>5. ASSUME NEW c \in Client
        PROVE  ~ RemoveClient(c)
    BY <1>1, RemoveClientTells
  <2>6. ASSUME NEW c \in Client
        PROVE  ~ SetNowPlayingClient(c) /\ ~ SetDefaultSupportedCommands(c)
    BY <1>1 DEF SetNowPlayingClient, SetDefaultSupportedCommands, Always
  <2>7. ASSUME NEW c \in Client
        PROVE  ~ UpdateClient(c)
    BY <1>1, ShownSame DEF UpdateClient, Exists, Active
  <2>8. ~ UNCHANGED vars
    BY <1>1, ShownSame DEF vars, stateVars, Exists, Active
  <2> QED
    BY <1>1, <2>1, <2>2, <2>3, <2>4, <2>5, <2>6, <2>7, <2>8 DEF Next, Queue
<1>2. Inv /\ [Next]_vars => [Shown' # Shown => told' \/ DefaultRemoved \/ Inferred]_vars
  BY <1>1
<1> QED
  BY <1>2, Invariance, PTL DEF Spec, ChangesAreTold

-----------------------------------------------------------------------------
(* The protocol.                                                            *)
CallState ==
    [pc : {"idle", "waiting", "returned", "raised"}, released : BOOLEAN,
     response : Call \cup {NoCall}]

ProtocolType ==
    /\ pairing \in BOOLEAN
    /\ credentials \in BOOLEAN
    /\ pstate \in {"NOT_CONNECTED", "CONNECTING", "CONNECTED", "READY", "STOPPED"}
    /\ start \in {"idle", "connecting", "returned", "raised"} \cup StartStep
    /\ conn \in Connection
    /\ DOMAIN outstanding \subseteq Identifier
    /\ \A i \in DOMAIN outstanding : outstanding[i] \in Pending
    /\ call \in [Call -> CallState]
    /\ sent \subseteq Call
    /\ replied \subseteq Call
    /\ heartbeat \in {"none", "sleeping", "failed", "cancelled"} \cup Beat
    /\ attempts \in 0..MaxRetries
    /\ reported \in BOOLEAN

(* The states in which send() refuses.                                      *)
Silent == {"NOT_CONNECTED", "CONNECTING", "STOPPED"}

(* start() is at the message it waits for, every earlier one was answered,  *)
(* and no entry outlives the stop.                                          *)
StartInTurn ==
    /\ start = "connecting" => conn = "connecting" /\ pstate = "CONNECTING"
    /\ conn = "connecting" => start = "connecting"
    /\ start \in StartStep \cup {"returned"} => conn \in {"up", "closing", "lost"}
    /\ start \in StartStep =>
          \E k \in 1..Len(Steps) :
             /\ start = Steps[k]
             /\ \A j \in 1..(k - 1) : call[Steps[j]].pc = "returned"
    /\ pstate = "READY" =>
          /\ start = "returned"
          /\ conn \in {"up", "closing"}
          /\ \A i \in 1..Len(Steps) : call[Steps[i]].pc = "returned"
    /\ conn = "lost" => pstate = "STOPPED"
    /\ pstate \in Silent => DOMAIN outstanding = {}

(* An entry belongs to the call that waits for it, and a command's entry    *)
(* holds at most the answer to that command.                                *)
EntriesOwned ==
    /\ \A i \in DOMAIN outstanding :
          /\ Id(outstanding[i].semaphore) = i
          /\ call[outstanding[i].semaphore].pc # "idle"
          /\ i \in Command /\ outstanding[i].response # NoCall =>
                outstanding[i].response = i /\ i \in replied
    /\ \A c \in Call : call[c].pc = "idle" => ~ call[c].released /\ c \notin sent
    /\ \A c \in Command :
          /\ call[c].response = IF call[c].pc = "returned" THEN c ELSE NoCall
          /\ c \in DOMAIN outstanding /\ call[c].pc = "waiting" /\ call[c].released =>
                outstanding[c].response = c

ProtocolInv == ProtocolType /\ StartInTurn /\ EntriesOwned

-----------------------------------------------------------------------------
(* The names of calls, and the sequence of start()'s messages.              *)

(* Commands, heartbeats, handshake and pairing messages are all different,  *)
(* and none is the identifier of the crypto messages.                       *)
LEMMA CallsDiffer ==
    /\ \A c \in Command : c \in Call /\ c \notin Beat /\ c \notin PairStep /\ c \notin StartStep
    /\ \A b \in Beat : b \in Call /\ b \notin Command /\ b \notin PairStep /\ b \notin StartStep
    /\ \A p \in PairStep : p \in Call /\ p \notin Command /\ p \notin Beat /\ p \notin StartStep
    /\ \A s \in StartStep : s \in Call /\ s \notin Command /\ s \notin Beat /\ s \notin PairStep
    /\ NoCall \notin Call
    /\ "crypto" \notin Call
BY CallAssumption DEF Call

(* The identifier of a command is that command, and of no other call.       *)
LEMMA IdOfCommand ==
    /\ \A c \in Call : Id(c) \in Identifier
    /\ \A c \in Call : Id(c) \in Command => Id(c) = c
    /\ \A c \in Command : Id(c) = c
    /\ \A b \in Beat : Id(b) = b
BY CallsDiffer DEF Id, Identifier, Generated, Crypto, StartStep

(* The steps of start() are some of StartStep, each once, and the first     *)
(* asks for the device information.                                         *)
LEMMA StepsAre ==
    /\ Len(Steps) \in Nat \ {0}
    /\ \A k \in 1..Len(Steps) : Steps[k] \in StartStep
    /\ \A j, k \in 1..Len(Steps) : Steps[j] = Steps[k] => j = k
    /\ Steps[1] = "device_info"
<1>1. CASE pairing
  BY <1>1 DEF Steps, StartStep
<1>2. CASE ~ pairing /\ credentials
  BY <1>2 DEF Steps, StartStep
<1>3. CASE ~ pairing /\ ~ credentials
  BY <1>3 DEF Steps, StartStep
<1> QED
  BY <1>1, <1>2, <1>3

(* NextStep is the one after it in Steps.                                   *)
LEMMA StepAfter ==
    ASSUME NEW k \in 1..Len(Steps), ~ IsLast(Steps[k])
    PROVE  k + 1 \in 1..Len(Steps) /\ NextStep(Steps[k]) = Steps[k + 1]
<1> DEFINE n == Len(Steps)
           steps == Steps
<1>1. n \in Nat \ {0} /\ \A j, m \in 1..n : steps[j] = steps[m] => j = m
  BY StepsAre
<1>2. k \in 1..n /\ steps[k] # steps[n]
  BY DEF IsLast
<1>3. NextStep(Steps[k]) = steps[(CHOOSE i \in 1..n : steps[i] = steps[k]) + 1]
  BY DEF NextStep
<1> HIDE DEF n, steps
<1>4. (CHOOSE i \in 1..n : steps[i] = steps[k]) = k
  BY <1>1, <1>2
<1>5. k + 1 \in 1..n
  BY <1>1, <1>2
<1> QED
  BY <1>3, <1>4, <1>5 DEF n, steps

(* The last step is at the end of Steps.                                    *)
LEMMA LastStep ==
    ASSUME NEW k \in 1..Len(Steps), IsLast(Steps[k])
    PROVE  k = Len(Steps)
<1>1. Len(Steps) \in 1..Len(Steps)
  BY StepsAre
<1> QED
  BY <1>1, StepsAre DEF IsLast

-----------------------------------------------------------------------------
(* A step that keeps EntriesOwned and the contract.                         *)

Asks(c) ==
    /\ call[c].pc = "idle"
    /\ call'[c] = [call[c] EXCEPT !.pc = "waiting"]
Fails(c) ==
    /\ call[c].pc \in {"idle", "waiting"}
    /\ call'[c].pc = "raised"
    /\ call'[c].response = NoCall
ReturnsFrom(c) ==
    /\ call[c].pc = "waiting"
    /\ c \in replied
    /\ call'[c].pc = "returned"
    /\ call'[c].response = c

(* At most one command asks, fails or returns.                              *)
CommandStep ==
    \/ \A d \in Command : call'[d] = call[d]
    \/ \E c \in Command : /\ Asks(c) \/ Fails(c) \/ ReturnsFrom(c)
                          /\ \A d \in Command \ {c} : call'[d] = call[d]

OldOrNew(i) ==
    \/ i \in DOMAIN outstanding /\ outstanding'[i] = outstanding[i]
    \/ /\ outstanding'[i].response = NoCall
       /\ Id(outstanding'[i].semaphore) = i
       /\ outstanding'[i].semaphore \in Call
       /\ call'[outstanding'[i].semaphore].pc # "idle"
       /\ i \in Command => call[i].pc = "idle"

Kept ==
    /\ CommandStep
    /\ \A c \in Call : call'[c].pc = "idle" => call'[c] = call[c]
    /\ \A c \in sent' : c \in sent \/ call'[c].pc # "idle"
    /\ \A i \in DOMAIN outstanding' : OldOrNew(i)
    /\ UNCHANGED replied

(* What an operation keeps is enough for the entries to stay with their     *)
(* owners.                                                                  *)
LEMMA KeptOwned ==
    ASSUME ProtocolType, EntriesOwned, Kept, ProtocolType'
    PROVE  EntriesOwned'
<1> USE CallsDiffer
<1>1. ASSUME NEW i \in DOMAIN outstanding'
      PROVE  /\ Id(outstanding'[i].semaphore) = i
             /\ call'[outstanding'[i].semaphore].pc # "idle"
             /\ i \in Command /\ outstanding'[i].response # NoCall =>
                   outstanding'[i].response = i /\ i \in replied'
  <2>1. CASE i \in DOMAIN outstanding /\ outstanding'[i] = outstanding[i]
    <3>1. outstanding[i].semaphore \in Call
      BY <2>1 DEF ProtocolType, Pending
    <3> QED
      BY <2>1, <3>1 DEF Kept, EntriesOwned
  <2>2. CASE ~ (i \in DOMAIN outstanding /\ outstanding'[i] = outstanding[i])
    BY <2>2, <1>1 DEF Kept, OldOrNew
  <2> QED
    BY <2>1, <2>2
<1>2. ASSUME NEW c \in Call, call'[c].pc = "idle"
      PROVE  ~ call'[c].released /\ c \notin sent'
  BY <1>2 DEF Kept, EntriesOwned
<1>3. ASSUME NEW c \in Command
      PROVE  call'[c].response = IF call'[c].pc = "returned" THEN c ELSE NoCall
  <2>1. call'[c] = call[c] \/ Asks(c) \/ Fails(c) \/ ReturnsFrom(c)
    BY DEF Kept, CommandStep
  <2>2. call[c] \in CallState
    BY DEF ProtocolType
  <2> QED
    BY <2>1, <2>2 DEF Asks, Fails, ReturnsFrom, EntriesOwned, CallState
<1>4. ASSUME NEW c \in Command, c \in DOMAIN outstanding',
             call'[c].pc = "waiting", call'[c].released
      PROVE  outstanding'[c].response = c
  <2>1. call'[c] = call[c] \/ Asks(c) \/ Fails(c) \/ ReturnsFrom(c)
    BY DEF Kept, CommandStep
  <2>2. call[c] \in CallState
    BY DEF ProtocolType
  <2>3. ~ Fails(c) /\ ~ ReturnsFrom(c)
    BY <1>4 DEF Fails, ReturnsFrom
  <2>4. ~ Asks(c)
    BY <1>4, <2>2 DEF Asks, EntriesOwned, CallState
  <2>5. call[c].pc = "waiting" /\ call[c].released
    BY <1>4, <2>1, <2>3, <2>4
  <2>6. c \in DOMAIN outstanding /\ outstanding'[c] = outstanding[c]
    BY <1>4, <2>5 DEF Kept, OldOrNew
  <2> QED
    BY <2>5, <2>6 DEF EntriesOwned
<1> QED
  BY <1>1, <1>2, <1>3, <1>4 DEF EntriesOwned

-----------------------------------------------------------------------------
(* The entries a step may leave.                                            *)

EntriesKept ==
    /\ DOMAIN outstanding' \subseteq Identifier
    /\ \A i \in DOMAIN outstanding' : outstanding'[i] \in Pending /\ OldOrNew(i)

(* Dropping an entry, or all of them, disturbs no other.                    *)
LEMMA Dropped ==
    ASSUME ProtocolType,
           UNCHANGED outstanding \/ outstanding' = Empty \/ \E i : outstanding' = Without(i)
    PROVE  EntriesKept
<1>1. /\ DOMAIN outstanding' \subseteq DOMAIN outstanding
      /\ \A j \in DOMAIN outstanding' : outstanding'[j] = outstanding[j]
  BY DEF Empty, Without
<1> QED
  BY <1>1 DEF ProtocolType, EntriesKept, OldOrNew

(* A call that begins puts its own entry beside those that stay.            *)
LEMMA Added ==
    ASSUME ProtocolType, NEW c \in Call, call'[c].pc # "idle",
           c \in Command => call[c].pc = "idle",
           \/ outstanding' = With(outstanding, c)
           \/ \E i : outstanding' = With(Without(i), c)
    PROVE  EntriesKept /\ Id(c) \in DOMAIN outstanding'
<1>1. /\ Id(c) \in DOMAIN outstanding'
      /\ DOMAIN outstanding' \subseteq DOMAIN outstanding \cup {Id(c)}
      /\ outstanding'[Id(c)] = [semaphore |-> c, response |-> NoCall]
      /\ \A j \in DOMAIN outstanding' : j # Id(c) => outstanding'[j] = outstanding[j]
  BY DEF With, Without
<1>2. Id(c) \in Identifier /\ (Id(c) \in Command => c \in Command /\ Id(c) = c)
  BY IdOfCommand
<1>3. [semaphore |-> c, response |-> NoCall] \in Pending
  BY DEF Pending
<1>4. ASSUME NEW i \in DOMAIN outstanding'
      PROVE  i \in Identifier /\ outstanding'[i] \in Pending /\ OldOrNew(i)
  <2>1. CASE i = Id(c)
    <3>1. /\ outstanding'[i].semaphore = c
          /\ outstanding'[i].response = NoCall
      BY <1>1, <2>1
    <3>2. i \in Command => call[i].pc = "idle"
      BY <1>2, <2>1
    <3> QED
      BY <1>1, <1>2, <1>3, <2>1, <3>1, <3>2 DEF OldOrNew
  <2>2. CASE i # Id(c)
    BY <1>1, <2>2 DEF ProtocolType, OldOrNew
  <2> QED
    BY <2>1, <2>2
<1> QED
  BY <1>1, <1>4 DEF EntriesKept

(* The three ways the calls change in a step that makes, ends, or ends and  *)
(* makes a call.                                                            *)
LEMMA CallBegins ==
    ASSUME ProtocolType, NEW c \in Call, call[c].pc = "idle" \/ c \notin Command,
           call' = Begins(call, c)
    PROVE  /\ call' \in [Call -> CallState]
           /\ call'[c].pc = "waiting"
           /\ \A d \in Call \ {c} : call'[d] = call[d]
           /\ CommandStep
<1>1. /\ call' = [call EXCEPT ![c] = [call[c] EXCEPT !.pc = "waiting"]]
      /\ call[c] \in CallState
  BY DEF Begins, ProtocolType
<1>2. [call[c] EXCEPT !.pc = "waiting"] \in CallState
  BY <1>1 DEF CallState
<1>3. /\ call'[c] = [call[c] EXCEPT !.pc = "waiting"]
      /\ call' \in [Call -> CallState]
      /\ \A d \in Call \ {c} : call'[d] = call[d]
  BY <1>1, <1>2 DEF ProtocolType
<1>4. call'[c].pc = "waiting"
  BY <1>3, <1>1 DEF CallState
<1>5. CommandStep
  BY <1>3, CallsDiffer DEF CommandStep, Asks
<1> QED
  BY <1>3, <1>4, <1>5

(* A call that ends keeps the types and leaves the other calls alone.       *)
LEMMA CallEnds ==
    ASSUME ProtocolType, NEW c \in Call, NEW how \in {"returned", "raised"},
           NEW resp \in Call \cup {NoCall}, call' = Ends(c, how, resp),
           c \in Command => \/ /\ how = "returned"
                               /\ resp = c
                               /\ call[c].pc = "waiting"
                               /\ c \in replied
                            \/ /\ how = "raised"
                               /\ resp = NoCall
                               /\ call[c].pc \in {"idle", "waiting"}
    PROVE  /\ call' \in [Call -> CallState]
           /\ call'[c].pc = how
           /\ \A d \in Call \ {c} : call'[d] = call[d]
           /\ CommandStep
<1>1. /\ call' = [call EXCEPT ![c] = [call[c] EXCEPT !.pc = how, !.response = resp]]
      /\ call[c] \in CallState
  BY DEF Ends, ProtocolType
<1>2. [call[c] EXCEPT !.pc = how, !.response = resp] \in CallState
  BY <1>1 DEF CallState
<1>3. /\ call'[c] = [call[c] EXCEPT !.pc = how, !.response = resp]
      /\ call' \in [Call -> CallState]
      /\ \A d \in Call \ {c} : call'[d] = call[d]
  BY <1>1, <1>2 DEF ProtocolType
<1>4. call'[c].pc = how /\ call'[c].response = resp
  BY <1>3, <1>1 DEF CallState
<1>5. CommandStep
  BY <1>3, <1>4, CallsDiffer DEF CommandStep, ReturnsFrom, Fails
<1> QED
  BY <1>3, <1>4, <1>5

(* So does one that ends when the next of its task begins at once.          *)
LEMMA CallFollows ==
    ASSUME ProtocolType, NEW c \in Call \ Command, NEW next \in Call \ Command, c # next,
           NEW how \in {"returned", "raised"}, NEW resp \in Call \cup {NoCall},
           call' = Begins(Ends(c, how, resp), next)
    PROVE  /\ call' \in [Call -> CallState]
           /\ call'[c].pc = how
           /\ call'[next].pc = "waiting"
           /\ \A d \in Call \ {c, next} : call'[d] = call[d]
           /\ CommandStep
<1>1. /\ call' = [call EXCEPT ![c] = [call[c] EXCEPT !.pc = how, !.response = resp],
                              ![next] = [call[next] EXCEPT !.pc = "waiting"]]
      /\ call[c] \in CallState
      /\ call[next] \in CallState
  BY DEF Begins, Ends, ProtocolType
<1>2. /\ [call[c] EXCEPT !.pc = how, !.response = resp] \in CallState
      /\ [call[next] EXCEPT !.pc = "waiting"] \in CallState
  BY <1>1 DEF CallState
<1>3. /\ call'[c] = [call[c] EXCEPT !.pc = how, !.response = resp]
      /\ call'[next] = [call[next] EXCEPT !.pc = "waiting"]
      /\ call' \in [Call -> CallState]
      /\ \A d \in Call \ {c, next} : call'[d] = call[d]
  BY <1>1, <1>2 DEF ProtocolType
<1>4. call'[c].pc = how /\ call'[next].pc = "waiting"
  BY <1>3, <1>1 DEF CallState
<1>5. CommandStep
  BY <1>3, CallsDiffer DEF CommandStep
<1> QED
  BY <1>3, <1>4, <1>5

(* Stopping and losing the connection end the heartbeat that is suspended.  *)
LEMMA HeartbeatCancelled ==
    ASSUME ProtocolType, CancelHeartbeat(call)
    PROVE  /\ call' \in [Call -> CallState]
           /\ heartbeat' \in {"none", "sleeping", "failed", "cancelled"} \cup Beat
           /\ \A c \in Call : call'[c].pc = "idle" => call'[c] = call[c]
           /\ \A d \in Call \ Beat : call'[d] = call[d]
           /\ CommandStep
<1>1. heartbeat' \in {"none", "sleeping", "failed", "cancelled"} \cup Beat
  BY DEF CancelHeartbeat, ProtocolType
<1>2. CASE heartbeat \notin Beat
  <2>1. call' = call
    BY <1>2 DEF CancelHeartbeat
  <2> QED
    BY <1>1, <2>1, CallsDiffer DEF ProtocolType, CommandStep
<1>3. CASE heartbeat \in Beat
  <2>1. /\ call' = [call EXCEPT ![heartbeat] = [call[heartbeat] EXCEPT !.pc = "raised"]]
        /\ heartbeat \in Call
        /\ call[heartbeat] \in CallState
    BY <1>3, CallsDiffer DEF CancelHeartbeat, ProtocolType
  <2>2. [call[heartbeat] EXCEPT !.pc = "raised"] \in CallState
    BY <2>1 DEF CallState
  <2>3. /\ call' \in [Call -> CallState]
        /\ call'[heartbeat] = [call[heartbeat] EXCEPT !.pc = "raised"]
        /\ \A d \in Call \ {heartbeat} : call'[d] = call[d]
    BY <2>1, <2>2 DEF ProtocolType
  <2>4. call'[heartbeat].pc = "raised"
    BY <2>1, <2>3 DEF CallState
  <2> QED
    BY <1>1, <1>3, <2>3, <2>4, CallsDiffer DEF CommandStep
<1> QED
  BY <1>2, <1>3

(* A step that leaves start() where it is, and answered messages answered.  *)
LEMMA StartUndisturbed ==
    ASSUME ProtocolType, StartInTurn, UNCHANGED <<setupVars, start>>,
           \A s \in StartStep : call[s].pc = "returned" => call'[s].pc = "returned",
           \/ UNCHANGED <<pstate, conn>>
           \/ UNCHANGED pstate /\ conn = "up" /\ conn' = "closing"
           \/ pstate' = "STOPPED" /\ start # "connecting"
              /\ conn' \in {conn, "lost", "closing"} /\ conn' # "connecting",
           pstate' \in Silent => DOMAIN outstanding' = {}
    PROVE  StartInTurn'
<1>1. Steps' = Steps /\ setupVars' = setupVars
  BY DEF Steps, setupVars
<1> DEFINE n == Len(Steps)
           steps == Steps
<1>2. /\ n \in Nat
      /\ \A k \in 1..n : steps[k] \in StartStep
      /\ start \in StartStep =>
          \E k \in 1..n :
             /\ start = steps[k]
             /\ \A j \in 1..(k - 1) : call[steps[j]].pc = "returned"
      /\ pstate = "READY" => \A i \in 1..n : call[steps[i]].pc = "returned"
  BY StepsAre DEF StartInTurn, Silent
<1> HIDE DEF n, steps
<1>3. start \in StartStep =>
          \E k \in 1..n :
             /\ start = steps[k]
             /\ \A j \in 1..(k - 1) : call'[steps[j]].pc = "returned"
  <2> SUFFICES ASSUME start \in StartStep
               PROVE  \E k \in 1..n :
                         /\ start = steps[k]
                         /\ \A j \in 1..(k - 1) : call'[steps[j]].pc = "returned"
    OBVIOUS
  <2>1. PICK k \in 1..n : /\ start = steps[k]
                          /\ \A j \in 1..(k - 1) : call[steps[j]].pc = "returned"
    BY <1>2
  <2>2. \A j \in 1..(k - 1) : j \in 1..n
    BY <1>2
  <2>3. \A j \in 1..(k - 1) : call'[steps[j]].pc = "returned"
    BY <1>2, <2>1, <2>2
  <2> QED
    BY <2>1, <2>3
<1>4. pstate' = "READY" =>
          /\ pstate = "READY"
          /\ start = "returned"
          /\ conn' \in {"up", "closing"}
          /\ \A i \in 1..n : call'[steps[i]].pc = "returned"
  BY <1>2 DEF StartInTurn, Silent
<1>5. /\ start = "connecting" => conn' = "connecting" /\ pstate' = "CONNECTING"
      /\ conn' = "connecting" => start = "connecting"
      /\ start \in StartStep \cup {"returned"} => conn' \in {"up", "closing", "lost"}
      /\ conn' = "lost" => pstate' = "STOPPED"
      /\ pstate' \in Silent => DOMAIN outstanding' = {}
  BY DEF StartInTurn, Silent
<1> QED
  BY <1>1, <1>3, <1>4, <1>5 DEF StartInTurn, Silent, n, steps

-----------------------------------------------------------------------------
(* One lemma per group of actions.                                          *)

Good == ProtocolType' /\ StartInTurn' /\ Kept

(* What a call that found its entry returns, and what a command returns.    *)
LEMMA GotResponse ==
    ASSUME ProtocolInv, NEW c \in Call, Got(c)
    PROVE  /\ Response(c) \in Call \cup {NoCall}
           /\ pstate \notin Silent
           /\ c \in Command => Response(c) = c /\ c \in replied
<1>1. Id(c) \in DOMAIN outstanding /\ call[c].pc = "waiting" /\ call[c].released
  BY DEF Got, Waiting
<1>2. Response(c) \in Call \cup {NoCall}
  BY <1>1 DEF Response, ProtocolInv, ProtocolType, Pending
<1>3. pstate \notin Silent
  BY <1>1 DEF ProtocolInv, StartInTurn, Silent
<1>4. c \in Command => Response(c) = c /\ c \in replied
  BY <1>1, IdOfCommand, CallsDiffer DEF Response, ProtocolInv, EntriesOwned
<1> QED
  BY <1>2, <1>3, <1>4

(* start() begins, or its connection fails.                                 *)
LEMMA StartingKeeps ==
    ASSUME ProtocolInv, Start \/ ConnectFails
    PROVE  Good
<1>1. /\ ProtocolType'
      /\ UNCHANGED <<setupVars, taskVars, replied>>
  BY DEF Start, ConnectFails, ProtocolInv, ProtocolType, taskVars, setupVars, beatVars, Connection
<1>2. StartInTurn'
  <2>1. Steps' = Steps
    BY <1>1 DEF Steps, setupVars
  <2>2. CASE Start
    <3>1. DOMAIN outstanding' = DOMAIN outstanding
      BY <1>1 DEF taskVars
    <3> QED
      BY <2>1, <2>2, <3>1, <1>1 DEF Start, ProtocolInv, ProtocolType, StartInTurn, Silent, StartStep
  <2>3. CASE ConnectFails
    <3>1. DOMAIN outstanding' = DOMAIN outstanding
      BY <1>1 DEF taskVars
    <3> QED
      BY <2>1, <2>3, <3>1 DEF ConnectFails, ProtocolInv, StartInTurn, Silent, StartStep
  <2> QED
    BY <2>2, <2>3
<1>3. Kept
  BY <1>1 DEF Kept, CommandStep, OldOrNew, taskVars
<1> QED
  BY <1>1, <1>2, <1>3 DEF Good

(* The connection of start() is made.                                       *)
LEMMA ConnectedKeeps ==
    ASSUME ProtocolInv, ConnectSucceeds
    PROVE  Good
<1>1. /\ "device_info" \in StartStep
      /\ "device_info" \in Call
      /\ "device_info" \notin Command
  BY CallsDiffer DEF StartStep
<1>2. /\ call' \in [Call -> CallState]
      /\ call'["device_info"].pc = "waiting"
      /\ \A d \in Call \ {"device_info"} : call'[d] = call[d]
      /\ CommandStep
  BY <1>1, CallBegins DEF ConnectSucceeds, ProtocolInv
<1>3. EntriesKept
  BY <1>1, <1>2, Added DEF ConnectSucceeds, ProtocolInv
<1>4. ProtocolType'
  BY <1>1, <1>2, <1>3
     DEF ConnectSucceeds, ProtocolInv, ProtocolType, EntriesKept, setupVars, beatVars, Connection
<1>5. StartInTurn'
  <2>1. Steps' = Steps
    BY DEF ConnectSucceeds, Steps, setupVars
  <2>2. 1 \in 1..Len(Steps') /\ Steps'[1] = "device_info"
    BY <2>1, StepsAre
  <2>3. start' = "device_info" /\ conn' = "up" /\ pstate' = "CONNECTED"
    BY DEF ConnectSucceeds
  <2>4. \E k \in 1..Len(Steps') :
             /\ start' = Steps'[k]
             /\ \A j \in 1..(k - 1) : call'[Steps'[j]].pc = "returned"
    <3>1. \A j \in 1..(1 - 1) : call'[Steps'[j]].pc = "returned"
      OBVIOUS
    <3> QED
      BY <2>2, <2>3, <3>1
  <2> QED
    BY <2>3, <2>4 DEF StartInTurn, Silent, StartStep
<1>6. Kept
  <2>1. \A c \in Call : call'[c].pc = "idle" => call'[c] = call[c]
    BY <1>2
  <2>2. \A c \in sent' : c \in sent \/ call'[c].pc # "idle"
    BY <1>2 DEF ConnectSucceeds
  <2> QED
    BY <1>2, <1>3, <2>1, <2>2 DEF Kept, EntriesKept, ConnectSucceeds
<1> QED
  BY <1>4, <1>5, <1>6 DEF Good

(* The last message of start() is answered.                                 *)
LEMMA LastReturnsKeeps ==
    ASSUME ProtocolInv, NEW s \in StartStep, StepReturns(s), IsLast(s)
    PROVE  Good
<1>1. s \in Call /\ s \notin Command /\ start = s /\ Got(s)
  BY CallsDiffer DEF StepReturns
<1>2. Response(s) \in Call \cup {NoCall} /\ pstate \notin Silent
  BY <1>1, GotResponse
<1>3. /\ call' = Ends(s, "returned", Response(s))
      /\ outstanding' = Without(Id(s))
      /\ start' = "returned"
      /\ pstate' = IF pairing THEN pstate ELSE "READY"
      /\ heartbeat' = IF pairing THEN "none" ELSE "sleeping"
      /\ UNCHANGED <<conn, sent, pairing, credentials, replied, attempts, reported>>
  BY DEF StepReturns, setupVars
<1>4. /\ call' \in [Call -> CallState]
      /\ call'[s].pc = "returned"
      /\ \A d \in Call \ {s} : call'[d] = call[d]
      /\ CommandStep
  BY <1>1, <1>2, <1>3, CallEnds DEF ProtocolInv
<1>5. EntriesKept
  BY <1>3, Dropped DEF ProtocolInv
<1>6. ProtocolType'
  BY <1>3, <1>4, <1>5 DEF ProtocolInv, ProtocolType, EntriesKept
<1>7. StartInTurn'
  <2>1. Steps' = Steps
    BY <1>3 DEF Steps
  <2>2. PICK k \in 1..Len(Steps) :
             /\ s = Steps[k]
             /\ \A j \in 1..(k - 1) : call[Steps[j]].pc = "returned"
    BY <1>1 DEF ProtocolInv, StartInTurn, Silent
  <2>3. k = Len(Steps)
    BY <2>2, LastStep
  <2> DEFINE n == Len(Steps)
             steps == Steps
  <2>4. /\ n \in Nat
        /\ \A j \in 1..n : steps[j] \in StartStep
        /\ s = steps[n]
        /\ \A j \in 1..(n - 1) : call[steps[j]].pc = "returned"
    BY <2>2, <2>3, StepsAre
  <2> HIDE DEF n, steps
  <2>5. ASSUME NEW i \in 1..n
        PROVE  call'[steps[i]].pc = "returned"
    <3>1. CASE i = n
      BY <1>4, <2>4, <3>1
    <3>2. CASE i # n
      <4>1. i \in 1..(n - 1)
        BY <2>4, <3>2
      <4>2. call[steps[i]].pc = "returned" /\ steps[i] \in Call
        BY <2>4, <4>1, CallsDiffer
      <4> QED
        BY <1>4, <4>2
    <3> QED
      BY <3>1, <3>2
  <2>6. conn' \in {"up", "closing"}
    BY <1>1, <1>2, <1>3 DEF ProtocolInv, StartInTurn, Silent
  <2>7. \A i \in 1..Len(Steps') : call'[Steps'[i]].pc = "returned"
    BY <2>1, <2>5 DEF n, steps
  <2> QED
    BY <1>2, <1>3, <2>6, <2>7 DEF StartInTurn, Silent, StartStep
<1>8. Kept
  BY <1>3, <1>4, <1>5 DEF Kept, EntriesKept
<1> QED
  BY <1>6, <1>7, <1>8 DEF Good

(* Any other is, and the next message is sent.                              *)
LEMMA NextSentKeeps ==
    ASSUME ProtocolInv, NEW s \in StartStep, start = s, Got(s), ~ IsLast(s), CanSend,
           call' = Begins(Ends(s, "returned", Response(s)), NextStep(s)),
           start' = NextStep(s),
           sent' = sent \cup {NextStep(s)},
           outstanding' = With(Without(Id(s)), NextStep(s)),
           UNCHANGED <<heartbeat, conn, pstate, pairing, credentials, replied, attempts, reported>>
    PROVE  Good
<1>1. PICK k \in 1..Len(Steps) :
           /\ s = Steps[k]
           /\ \A j \in 1..(k - 1) : call[Steps[j]].pc = "returned"
  BY DEF ProtocolInv, StartInTurn, Silent
<1>2. k + 1 \in 1..Len(Steps) /\ NextStep(s) = Steps[k + 1]
  BY <1>1, StepAfter
<1> DEFINE n == Len(Steps)
           steps == Steps
           next == NextStep(s)
<1>3. /\ n \in Nat
      /\ \A j \in 1..n : steps[j] \in StartStep
      /\ \A i, j \in 1..n : steps[i] = steps[j] => i = j
      /\ k \in 1..n
      /\ k + 1 \in 1..n
      /\ s = steps[k]
      /\ next = steps[k + 1]
      /\ \A j \in 1..(k - 1) : call[steps[j]].pc = "returned"
  BY <1>1, <1>2, StepsAre
<1> HIDE DEF n, steps, next
<1>4. next # s /\ next \in StartStep
  BY <1>3
<1>5. s \in Call \ Command /\ next \in Call \ Command
  BY <1>4, CallsDiffer
<1>6. Response(s) \in Call \cup {NoCall} /\ pstate \notin Silent
  BY <1>5, GotResponse
<1>7. /\ call' \in [Call -> CallState]
      /\ call'[s].pc = "returned"
      /\ call'[next].pc = "waiting"
      /\ \A d \in Call \ {s, next} : call'[d] = call[d]
      /\ CommandStep
  BY <1>4, <1>5, <1>6, CallFollows DEF next, ProtocolInv
<1>8. EntriesKept
  BY <1>5, <1>7, Added DEF next, ProtocolInv
<1>9. ProtocolType'
  BY <1>4, <1>5, <1>7, <1>8 DEF next, ProtocolInv, ProtocolType, EntriesKept
<1>10. StartInTurn'
  <2>1. Steps' = Steps
    BY DEF Steps
  <2>2. ASSUME NEW j \in 1..((k + 1) - 1)
        PROVE  call'[steps[j]].pc = "returned"
    <3>1. j \in 1..n /\ j # k + 1
      BY <1>3
    <3>2. CASE j = k
      BY <1>3, <1>7, <3>2
    <3>3. CASE j # k
      <4>1. j \in 1..(k - 1)
        BY <1>3, <3>3
      <4>2. steps[j] \in Call \ {s, next} /\ call[steps[j]].pc = "returned"
        BY <1>3, <3>1, <3>3, <4>1, CallsDiffer
      <4> QED
        BY <1>7, <4>2
    <3> QED
      BY <3>2, <3>3
  <2>3. \E m \in 1..n : /\ start' = steps[m]
                        /\ \A j \in 1..(m - 1) : call'[steps[j]].pc = "returned"
    <3>1. k + 1 \in 1..n /\ start' = steps[k + 1]
      BY <1>3 DEF next
    <3> QED
      BY <2>2, <3>1
  <2>4. \E m \in 1..Len(Steps') :
             /\ start' = Steps'[m]
             /\ \A j \in 1..(m - 1) : call'[Steps'[j]].pc = "returned"
    BY <2>1, <2>3 DEF n, steps
  <2>5. start' \in StartStep
    BY <1>4 DEF next
  <2>6. pstate \notin Silent \cup {"READY"} /\ conn = "up"
    BY <1>6 DEF ProtocolInv, StartInTurn, Silent, CanSend, StartStep
  <2> QED
    BY <2>4, <2>5, <2>6 DEF StartInTurn, Silent, StartStep
<1>11. Kept
  <2>1. \A c \in sent' : c \in sent \/ call'[c].pc # "idle"
    BY <1>7 DEF next
  <2> QED
    BY <1>7, <1>8, <2>1 DEF Kept, EntriesKept
<1> QED
  BY <1>9, <1>10, <1>11 DEF Good

(* start() gives up and stops the protocol.                                 *)
LEMMA StartStopsKeeps ==
    ASSUME ProtocolInv, NEW s \in StartStep, start = s,
           NEW how \in {"returned", "raised"}, NEW resp \in Call \cup {NoCall},
           call' = Ends(s, how, resp), start' = "raised", StopProtocol,
           UNCHANGED <<heartbeat, pairing, credentials, sent, replied, attempts, reported>>
    PROVE  Good
<1>1. s \in Call /\ s \notin Command
  BY CallsDiffer
<1>2. /\ call' \in [Call -> CallState]
      /\ call'[s].pc = how
      /\ \A d \in Call \ {s} : call'[d] = call[d]
      /\ CommandStep
  BY <1>1, CallEnds DEF ProtocolInv
<1>3. EntriesKept /\ DOMAIN outstanding' = {}
  BY Dropped DEF StopProtocol, Empty, ProtocolInv
<1>4. conn' \in {conn, "closing"} /\ pstate' = "STOPPED"
  BY DEF StopProtocol, Closed
<1>5. ProtocolType'
  BY <1>2, <1>3, <1>4 DEF ProtocolInv, ProtocolType, EntriesKept, Connection
<1>6. StartInTurn'
  <2>1. conn' # "connecting"
    BY <1>4 DEF ProtocolInv, StartInTurn, Silent, StartStep
  <2> QED
    BY <1>3, <1>4, <2>1 DEF StartInTurn, Silent, StartStep
<1>7. Kept
  BY <1>2, <1>3 DEF Kept, EntriesKept
<1> QED
  BY <1>5, <1>6, <1>7 DEF Good

(* A step of start() returns or raises.                                     *)
LEMMA StepKeeps ==
    ASSUME ProtocolInv, NEW s \in StartStep, StepReturns(s) \/ StepRaises(s)
    PROVE  Good
<1>1. CASE StepReturns(s) /\ IsLast(s)
  BY <1>1, LastReturnsKeeps
<1>2. CASE StepReturns(s) /\ ~ IsLast(s)
  <2>1. s \in Call /\ start = s /\ Got(s)
    BY <1>2, CallsDiffer DEF StepReturns
  <2>2. Response(s) \in Call \cup {NoCall}
    BY <2>1, GotResponse
  <2>3. CASE CanSend
    BY <1>2, <2>1, <2>3, NextSentKeeps DEF StepReturns, setupVars
  <2>4. CASE ~ CanSend
    BY <1>2, <2>1, <2>2, <2>4, StartStopsKeeps DEF StepReturns, setupVars
  <2> QED
    BY <2>3, <2>4
<1>3. CASE StepRaises(s)
  BY <1>3, StartStopsKeeps DEF StepRaises, setupVars, beatVars
<1> QED
  BY <1>1, <1>2, <1>3

(* A step of the heartbeat or of a caller: start() and pstate stay.         *)
LEMMA OtherCallKeeps ==
    ASSUME ProtocolInv, CommandStep, EntriesKept,
           call' \in [Call -> CallState],
           \A c \in Call : call'[c].pc = "idle" => call'[c] = call[c],
           \A s \in StartStep : call'[s] = call[s],
           sent' \subseteq Call,
           \A c \in sent' : c \in sent \/ call'[c].pc # "idle",
           heartbeat' \in {"none", "sleeping", "failed", "cancelled"} \cup Beat,
           attempts' \in 0..MaxRetries,
           conn' \in {conn, Closed},
           pstate \in Silent => DOMAIN outstanding' = {},
           UNCHANGED <<setupVars, pstate, start, replied, reported>>
    PROVE  Good
<1>1. /\ UNCHANGED <<pairing, credentials>>
      /\ conn' = conn \/ (conn = "up" /\ conn' = "closing")
  <2>1. UNCHANGED <<pairing, credentials>>
    BY DEF setupVars
  <2>2. Closed = conn \/ (conn = "up" /\ Closed = "closing")
    BY DEF Closed
  <2> QED
    BY <2>1, <2>2
<1>2. ProtocolType'
  BY <1>1 DEF ProtocolInv, ProtocolType, EntriesKept, Connection
<1>3. StartInTurn'
  <2>1. ProtocolType /\ StartInTurn
    BY DEF ProtocolInv
  <2>2. pstate' \in Silent => DOMAIN outstanding' = {}
    OBVIOUS
  <2>3. \A s \in StartStep : call[s].pc = "returned" => call'[s].pc = "returned"
    OBVIOUS
  <2> QED
    BY <1>1, <2>1, <2>2, <2>3, StartUndisturbed
<1>4. Kept
  BY DEF Kept, EntriesKept
<1> QED
  BY <1>2, <1>3, <1>4 DEF Good

(* A protocol that may not send keeps no entry.                             *)
LEMMA NoneWhenSilent ==
    ASSUME ProtocolInv, UNCHANGED outstanding \/ \E i : outstanding' = Without(i)
    PROVE  pstate \in Silent => DOMAIN outstanding' = {}
BY DEF ProtocolInv, StartInTurn, Silent, Without

(* MRP's heartbeat: sent, answered, retried, or given up.                   *)
LEMMA HeartbeatKeeps ==
    ASSUME ProtocolInv, NEW b \in Beat,
           \/ HeartbeatSends(b)
           \/ HeartbeatReturns(b)
           \/ HeartbeatFails(b)
           \/ \E retry \in Beat : HeartbeatRetries(b, retry)
    PROVE  Good
<1> USE DEF beatVars
<1>1. /\ b \in Call
      /\ b \notin Command
      /\ \A s \in StartStep : s \in Call /\ s \notin Beat
      /\ Id(b) = b
  BY CallsDiffer, IdOfCommand
<1>2. CASE HeartbeatSends(b) /\ CanSend
  <2>1. /\ call' \in [Call -> CallState]
        /\ call'[b].pc = "waiting"
        /\ \A d \in Call \ {b} : call'[d] = call[d]
        /\ CommandStep
    BY <1>1, <1>2, CallBegins DEF HeartbeatSends, ProtocolInv
  <2>2. EntriesKept
    BY <1>1, <1>2, <2>1, Added DEF HeartbeatSends, ProtocolInv
  <2>3. /\ heartbeat' = b
        /\ sent' = sent \cup {b}
        /\ pstate \notin Silent
        /\ UNCHANGED <<setupVars, pstate, start, replied, reported, conn, attempts>>
    BY <1>2 DEF HeartbeatSends, CanSend, Silent
  <2>4. sent' \subseteq Call /\ \A c \in sent' : c \in sent \/ call'[c].pc # "idle"
    BY <1>1, <2>1, <2>3 DEF ProtocolInv, ProtocolType
  <2>5. attempts' \in 0..MaxRetries
    BY <2>3 DEF ProtocolInv, ProtocolType
  <2> QED
    BY <1>1, <2>1, <2>2, <2>3, <2>4, <2>5, OtherCallKeeps
<1>3. CASE HeartbeatSends(b) /\ ~ CanSend
  <2>1. /\ heartbeat' = "failed"
        /\ conn' = Closed
        /\ UNCHANGED <<call, sent, outstanding>>
        /\ UNCHANGED <<setupVars, pstate, start, replied, attempts, reported>>
    BY <1>3 DEF HeartbeatSends
  <2>2. EntriesKept /\ (pstate \in Silent => DOMAIN outstanding' = {})
    BY <2>1, Dropped, NoneWhenSilent DEF ProtocolInv
  <2> QED
    BY <1>1, <2>1, <2>2, OtherCallKeeps DEF ProtocolInv, ProtocolType, CommandStep
<1>4. CASE HeartbeatReturns(b)
  <2>1. Response(b) \in Call \cup {NoCall}
    BY <1>1, <1>4, GotResponse DEF HeartbeatReturns
  <2>2. /\ call' \in [Call -> CallState]
        /\ call'[b].pc = "returned"
        /\ \A d \in Call \ {b} : call'[d] = call[d]
        /\ CommandStep
    BY <1>1, <1>4, <2>1, CallEnds DEF HeartbeatReturns, ProtocolInv
  <2>3. /\ outstanding' = Without(b)
        /\ heartbeat' = "sleeping"
        /\ attempts' = 0
        /\ UNCHANGED <<setupVars, pstate, start, conn, sent, replied, reported>>
    BY <1>4 DEF HeartbeatReturns
  <2>4. EntriesKept /\ (pstate \in Silent => DOMAIN outstanding' = {})
    BY <2>3, Dropped, NoneWhenSilent DEF ProtocolInv
  <2>5. attempts' \in 0..MaxRetries
    BY <2>3 DEF MaxRetries
  <2> QED
    BY <1>1, <2>2, <2>3, <2>4, <2>5, OtherCallKeeps DEF ProtocolInv, ProtocolType
<1>5. CASE HeartbeatFails(b)
  <2>1. NoCall \in Call \cup {NoCall} /\ "raised" \in {"returned", "raised"}
    OBVIOUS
  <2>2. /\ call' \in [Call -> CallState]
        /\ call'[b].pc = "raised"
        /\ \A d \in Call \ {b} : call'[d] = call[d]
        /\ CommandStep
    BY <1>1, <1>5, <2>1, CallEnds DEF HeartbeatFails, ProtocolInv
  <2>3. /\ outstanding' = Without(b)
        /\ heartbeat' = "failed"
        /\ conn' = Closed
        /\ UNCHANGED <<setupVars, pstate, start, sent, replied, attempts, reported>>
    BY <1>5 DEF HeartbeatFails
  <2>4. EntriesKept /\ (pstate \in Silent => DOMAIN outstanding' = {})
    BY <2>3, Dropped, NoneWhenSilent DEF ProtocolInv
  <2> QED
    BY <1>1, <2>2, <2>3, <2>4, OtherCallKeeps DEF ProtocolInv, ProtocolType
<1>6. ASSUME NEW retry \in Beat, HeartbeatRetries(b, retry) PROVE Good
  <2>1. retry # b /\ retry \in Call /\ retry \notin Command
    BY <1>6, CallsDiffer DEF HeartbeatRetries, Raises, Waiting, FreshBeats
  <2>2. /\ call' \in [Call -> CallState]
        /\ call'[b].pc = "raised"
        /\ call'[retry].pc = "waiting"
        /\ \A d \in Call \ {b, retry} : call'[d] = call[d]
        /\ CommandStep
    <3>1. NoCall \in Call \cup {NoCall} /\ "raised" \in {"returned", "raised"}
      OBVIOUS
    <3> QED
      BY <1>1, <1>6, <2>1, <3>1, CallFollows DEF HeartbeatRetries, ProtocolInv
  <2>3. EntriesKept
    BY <1>1, <1>6, <2>1, <2>2, Added DEF HeartbeatRetries, ProtocolInv
  <2>4. /\ heartbeat' = retry
        /\ sent' = sent \cup {retry}
        /\ pstate \notin Silent
        /\ attempts' = attempts + 1 /\ attempts < MaxRetries
        /\ UNCHANGED <<setupVars, pstate, start, conn, replied, reported>>
    BY <1>6 DEF HeartbeatRetries, CanSend, Silent
  <2>5. sent' \subseteq Call /\ \A c \in sent' : c \in sent \/ call'[c].pc # "idle"
    BY <2>1, <2>2, <2>4 DEF ProtocolInv, ProtocolType
  <2>6. attempts' \in 0..MaxRetries
    BY <2>4 DEF ProtocolInv, ProtocolType, MaxRetries
  <2> QED
    BY <1>1, <2>2, <2>3, <2>4, <2>5, <2>6, OtherCallKeeps
<1> QED
  BY <1>2, <1>3, <1>4, <1>5, <1>6

(* The calls of the user: made, answered, failed or cancelled.              *)
LEMMA UserKeeps ==
    ASSUME ProtocolInv, NEW c \in Command \cup PairStep,
           UserCalls(c) \/ UserReturns(c) \/ UserRaises(c) \/ UserCancels(c)
    PROVE  Good
<1> USE DEF beatVars
<1>1. c \in Call /\ \A s \in StartStep : s \in Call /\ s # c
  BY CallsDiffer
<1>2. /\ NoCall \in Call \cup {NoCall}
      /\ attempts \in 0..MaxRetries
      /\ sent \subseteq Call
      /\ heartbeat \in {"none", "sleeping", "failed", "cancelled"} \cup Beat
  BY DEF ProtocolInv, ProtocolType
<1>3. CASE UserCalls(c) /\ CanSend
  <2>1. call[c].pc = "idle" /\ call' = Begins(call, c)
    BY <1>3 DEF UserCalls
  <2>2. /\ call' \in [Call -> CallState]
        /\ call'[c].pc = "waiting"
        /\ \A d \in Call \ {c} : call'[d] = call[d]
        /\ CommandStep
    BY <1>1, <2>1, CallBegins DEF ProtocolInv
  <2>3. EntriesKept
    BY <1>1, <1>3, <2>1, <2>2, Added DEF UserCalls, ProtocolInv
  <2>4. /\ sent' = sent \cup {c}
        /\ pstate \notin Silent
        /\ UNCHANGED <<setupVars, pstate, start, replied, reported, conn, attempts, heartbeat>>
    BY <1>3 DEF UserCalls, CanSend, Silent
  <2>5. sent' \subseteq Call /\ \A d \in sent' : d \in sent \/ call'[d].pc # "idle"
    BY <1>1, <1>2, <2>2, <2>4
  <2> QED
    BY <1>1, <1>2, <2>2, <2>3, <2>4, <2>5, OtherCallKeeps
<1>4. CASE UserCalls(c) /\ ~ CanSend
  <2>1. /\ call' \in [Call -> CallState]
        /\ call'[c].pc = "raised"
        /\ \A d \in Call \ {c} : call'[d] = call[d]
        /\ CommandStep
    BY <1>1, <1>2, <1>4, CallEnds DEF UserCalls, ProtocolInv
  <2>2. UNCHANGED <<setupVars, pstate, start, replied, reported, conn, attempts, heartbeat, sent, outstanding>>
    BY <1>4 DEF UserCalls
  <2>3. EntriesKept /\ (pstate \in Silent => DOMAIN outstanding' = {})
    BY <2>2, Dropped, NoneWhenSilent DEF ProtocolInv
  <2> QED
    BY <1>1, <1>2, <2>1, <2>2, <2>3, OtherCallKeeps
<1>5. CASE UserReturns(c)
  <2>1. /\ Response(c) \in Call \cup {NoCall}
        /\ c \in Command => Response(c) = c /\ c \in replied
        /\ call[c].pc = "waiting"
    BY <1>1, <1>5, GotResponse DEF UserReturns, Got, Waiting
  <2>2. /\ call' \in [Call -> CallState]
        /\ call'[c].pc = "returned"
        /\ \A d \in Call \ {c} : call'[d] = call[d]
        /\ CommandStep
    BY <1>1, <1>5, <2>1, CallEnds DEF UserReturns, ProtocolInv
  <2>3. /\ outstanding' = Without(Id(c))
        /\ UNCHANGED <<setupVars, pstate, start, replied, reported, conn, attempts, heartbeat, sent>>
    BY <1>5 DEF UserReturns
  <2>4. EntriesKept /\ (pstate \in Silent => DOMAIN outstanding' = {})
    BY <2>3, Dropped, NoneWhenSilent DEF ProtocolInv
  <2> QED
    BY <1>1, <1>2, <2>2, <2>3, <2>4, OtherCallKeeps
<1>6. CASE UserRaises(c) \/ UserCancels(c)
  <2>1. call' = Ends(c, "raised", NoCall) /\ call[c].pc = "waiting"
    BY <1>6 DEF UserRaises, UserCancels, Raises, Waiting
  <2>2. /\ call' \in [Call -> CallState]
        /\ call'[c].pc = "raised"
        /\ \A d \in Call \ {c} : call'[d] = call[d]
        /\ CommandStep
    BY <1>1, <1>2, <2>1, CallEnds DEF ProtocolInv
  <2>3. /\ UNCHANGED outstanding \/ outstanding' = Without(Id(c))
        /\ UNCHANGED <<setupVars, pstate, start, replied, reported, conn, attempts, heartbeat, sent>>
    BY <1>6 DEF UserRaises, UserCancels
  <2>4. EntriesKept /\ (pstate \in Silent => DOMAIN outstanding' = {})
    BY <2>3, Dropped, NoneWhenSilent DEF ProtocolInv
  <2> QED
    BY <1>1, <1>2, <2>2, <2>3, <2>4, OtherCallKeeps
<1> QED
  BY <1>3, <1>4, <1>5, <1>6

(* The pairing handler closes its connection.                               *)
LEMMA PairingCloseKeeps ==
    ASSUME ProtocolInv, PairingCloses
    PROVE  Good
<1>1. /\ conn' = Closed
      /\ UNCHANGED <<setupVars, pstate, start, outstanding, call, sent, replied, heartbeat, attempts, reported>>
  BY DEF PairingCloses, beatVars
<1>2. EntriesKept /\ (pstate \in Silent => DOMAIN outstanding' = {})
  BY <1>1, Dropped, NoneWhenSilent DEF ProtocolInv
<1> QED
  BY <1>1, <1>2, OtherCallKeeps DEF ProtocolInv, ProtocolType, CommandStep

(* The protocol is stopped by its owner or by the loss of the connection.   *)
LEMMA StoppedKeeps ==
    ASSUME ProtocolInv, OwnerStops \/ ConnectionLost
    PROVE  Good
<1>1. /\ outstanding' = Empty
      /\ pstate' = "STOPPED"
      /\ CancelHeartbeat(call)
      /\ start # "connecting"
      /\ conn' # "connecting"
      /\ conn' \in {conn, "lost", "closing"}
      /\ reported' \in BOOLEAN
      /\ UNCHANGED <<setupVars, start, sent, replied, attempts>>
  BY DEF OwnerStops, ConnectionLost, StopProtocol, Closed, ProtocolInv, ProtocolType, StartInTurn, Silent
<1>2. /\ call' \in [Call -> CallState]
      /\ heartbeat' \in {"none", "sleeping", "failed", "cancelled"} \cup Beat
      /\ \A c \in Call : call'[c].pc = "idle" => call'[c] = call[c]
      /\ \A d \in Call \ Beat : call'[d] = call[d]
      /\ CommandStep
  BY <1>1, HeartbeatCancelled DEF ProtocolInv
<1>3. EntriesKept /\ DOMAIN outstanding' = {}
  BY <1>1, Dropped DEF Empty, ProtocolInv
<1>4. ProtocolType'
  BY <1>1, <1>2, <1>3 DEF ProtocolInv, ProtocolType, EntriesKept, Connection, setupVars
<1>5. StartInTurn'
  <2>1. \A s \in StartStep : call[s].pc = "returned" => call'[s].pc = "returned"
    BY <1>2, CallsDiffer
  <2> QED
    BY <1>1, <1>3, <2>1, StartUndisturbed DEF ProtocolInv
<1>6. Kept
  BY <1>1, <1>2, <1>3 DEF Kept, EntriesKept
<1> QED
  BY <1>4, <1>5, <1>6 DEF Good

(* An answer of the device is put into the entry of its identifier, and     *)
(* wakes the call the entry belongs to.                                     *)
LEMMA AnswerKeeps ==
    ASSUME ProtocolInv, NEW c \in Call, DeviceReplies(c)
    PROVE  /\ ProtocolInv'
           /\ \A d \in Call : /\ call'[d].pc = call[d].pc
                              /\ call'[d].response = call[d].response
<1>1. /\ sent' = sent \ {c}
      /\ replied' = replied \cup {c}
      /\ UNCHANGED <<pairing, credentials, pstate, start, conn, heartbeat, attempts, reported>>
  BY DEF DeviceReplies, setupVars, beatVars
<1>2. CASE Id(c) \in DOMAIN outstanding
  <2> DEFINE s == outstanding[Id(c)].semaphore
  <2>1. /\ outstanding' = [outstanding EXCEPT ![Id(c)] = [outstanding[Id(c)] EXCEPT !.response = c]]
        /\ call' = [call EXCEPT ![s] = [call[s] EXCEPT !.released = TRUE]]
    BY <1>2 DEF DeviceReplies
  <2>2. /\ outstanding[Id(c)] \in Pending
        /\ s \in Call
        /\ call[s] \in CallState
        /\ call[s].pc # "idle"
        /\ Id(s) = Id(c)
        /\ call \in [Call -> CallState]
    BY <1>2 DEF ProtocolInv, ProtocolType, EntriesOwned, Pending
  <2>3. /\ [call[s] EXCEPT !.released = TRUE] \in CallState
        /\ [outstanding[Id(c)] EXCEPT !.response = c] \in Pending
    BY <2>2 DEF CallState, Pending
  <2>4. /\ DOMAIN outstanding' = DOMAIN outstanding
        /\ outstanding'[Id(c)] \in Pending
        /\ outstanding'[Id(c)].semaphore = s
        /\ outstanding'[Id(c)].response = c
        /\ \A i \in DOMAIN outstanding : i # Id(c) => outstanding'[i] = outstanding[i]
    BY <1>2, <2>1, <2>2, <2>3 DEF Pending
  <2> HIDE DEF s
  <2>5. /\ call' \in [Call -> CallState]
        /\ call'[s] = [call[s] EXCEPT !.released = TRUE]
        /\ \A d \in Call : d # s => call'[d] = call[d]
    BY <2>1, <2>2, <2>3
  <2>6. \A d \in Call : /\ call'[d].pc = call[d].pc
                        /\ call'[d].response = call[d].response
    BY <2>2, <2>5 DEF CallState
  <2>7. ProtocolType'
    <3>1. \A i \in DOMAIN outstanding' : outstanding'[i] \in Pending
      BY <2>4 DEF ProtocolInv, ProtocolType
    <3> QED
      BY <1>1, <2>4, <2>5, <3>1 DEF ProtocolInv, ProtocolType
  <2>8. StartInTurn'
    <3>1. UNCHANGED setupVars /\ (pstate' \in Silent => DOMAIN outstanding' = {})
      BY <1>1, <2>4 DEF setupVars, ProtocolInv, StartInTurn, Silent
    <3>2. \A t \in StartStep : call[t].pc = "returned" => call'[t].pc = "returned"
      BY <2>6, CallsDiffer
    <3> QED
      BY <1>1, <3>1, <3>2, StartUndisturbed DEF ProtocolInv
  <2>9. EntriesOwned'
    <3>1. ASSUME NEW i \in DOMAIN outstanding'
          PROVE  /\ Id(outstanding'[i].semaphore) = i
                 /\ call'[outstanding'[i].semaphore].pc # "idle"
                 /\ i \in Command /\ outstanding'[i].response # NoCall =>
                       outstanding'[i].response = i /\ i \in replied'
      <4>1. CASE i = Id(c)
        <5>1. i \in Command => c = i
          BY <4>1, IdOfCommand
        <5> QED
          BY <1>1, <2>2, <2>4, <2>6, <4>1, <5>1
      <4>2. CASE i # Id(c)
        <5>1. /\ i \in DOMAIN outstanding
              /\ outstanding'[i] = outstanding[i]
              /\ outstanding[i].semaphore \in Call
          BY <2>4, <3>1, <4>2 DEF ProtocolInv, ProtocolType, Pending
        <5> QED
          BY <1>1, <2>6, <5>1 DEF ProtocolInv, EntriesOwned
      <4> QED
        BY <4>1, <4>2
    <3>2. ASSUME NEW d \in Call, call'[d].pc = "idle"
          PROVE  ~ call'[d].released /\ d \notin sent'
      BY <1>1, <2>2, <2>5, <2>6, <3>2 DEF ProtocolInv, EntriesOwned
    <3>3. ASSUME NEW d \in Command
          PROVE  call'[d].response = IF call'[d].pc = "returned" THEN d ELSE NoCall
      BY <2>6, CallsDiffer DEF ProtocolInv, EntriesOwned
    <3>4. ASSUME NEW d \in Command, d \in DOMAIN outstanding',
                 call'[d].pc = "waiting", call'[d].released
          PROVE  outstanding'[d].response = d
      <4>1. d \in Call /\ Id(d) = d
        BY CallsDiffer, IdOfCommand
      <4>2. CASE d = Id(c)
        <5>1. c = d
          BY <4>2, IdOfCommand
        <5> QED
          BY <2>4, <4>2, <5>1
      <4>3. CASE d # Id(c)
        <5>1. d # s
          BY <2>2, <4>1, <4>3
        <5> QED
          BY <2>4, <2>5, <3>4, <4>1, <4>3, <5>1 DEF ProtocolInv, EntriesOwned
      <4> QED
        BY <4>2, <4>3
    <3> QED
      BY <3>1, <3>2, <3>3, <3>4 DEF EntriesOwned
  <2> QED
    BY <2>6, <2>7, <2>8, <2>9 DEF ProtocolInv
<1>3. CASE Id(c) \notin DOMAIN outstanding
  <2>1. UNCHANGED <<outstanding, call>>
    BY <1>3 DEF DeviceReplies
  <2>2. ProtocolType'
    BY <1>1, <2>1 DEF ProtocolInv, ProtocolType
  <2>3. StartInTurn'
    BY <1>1, <2>1, StartUndisturbed DEF setupVars, ProtocolInv, StartInTurn, Silent
  <2>4. EntriesOwned'
    BY <1>1, <2>1 DEF ProtocolInv, EntriesOwned
  <2> QED
    BY <2>1, <2>2, <2>3, <2>4 DEF ProtocolInv
<1> QED
  BY <1>2, <1>3

-----------------------------------------------------------------------------
(* The protocol.                                                            *)

(* Nothing was asked before start().                                        *)
LEMMA ProtocolInvInit == ProtocolInit => ProtocolInv
<1> SUFFICES ASSUME ProtocolInit PROVE ProtocolInv
  OBVIOUS
<1>1. /\ outstanding = [i \in {} |-> NoCall]
      /\ call = [c \in Call |-> [pc |-> "idle", released |-> FALSE, response |-> NoCall]]
  BY DEF ProtocolInit
<1>2. /\ DOMAIN outstanding = {}
      /\ call \in [Call -> CallState]
      /\ \A c \in Call : call[c] = [pc |-> "idle", released |-> FALSE, response |-> NoCall]
  BY <1>1 DEF CallState
<1>3. ProtocolType
  <2>1. attempts \in 0..MaxRetries
    BY DEF ProtocolInit, MaxRetries
  <2>2. \A i \in DOMAIN outstanding : outstanding[i] \in Pending
    BY <1>2
  <2>3. reported \in BOOLEAN /\ pairing \in BOOLEAN /\ credentials \in BOOLEAN
    BY DEF ProtocolInit
  <2> QED
    BY <1>2, <2>1, <2>2, <2>3 DEF ProtocolInit, ProtocolType, Connection
<1>4. StartInTurn
  BY <1>2 DEF ProtocolInit, StartInTurn, Silent, StartStep
<1>5. EntriesOwned
  BY <1>2, CallsDiffer DEF ProtocolInit, EntriesOwned
<1> QED
  BY <1>3, <1>4, <1>5 DEF ProtocolInv

(* Every step of the protocol is an answer of the device or keeps what the  *)
(* lemmas say.                                                              *)
LEMMA ProtocolStep ==
    ASSUME ProtocolInv, ProtocolNext
    PROVE  Good \/ \E c \in Call : DeviceReplies(c)
<1>1. CASE Start \/ ConnectFails
  BY <1>1, StartingKeeps
<1>2. CASE ConnectSucceeds
  BY <1>2, ConnectedKeeps
<1>3. CASE \E s \in StartStep : StepReturns(s) \/ StepRaises(s)
  BY <1>3, StepKeeps
<1>4. CASE \E b \in Beat : \/ HeartbeatSends(b)
                           \/ HeartbeatReturns(b)
                           \/ HeartbeatFails(b)
                           \/ \E retry \in Beat : HeartbeatRetries(b, retry)
  BY <1>4, HeartbeatKeeps
<1>5. CASE \E c \in Command \cup PairStep :
              UserCalls(c) \/ UserReturns(c) \/ UserRaises(c) \/ UserCancels(c)
  BY <1>5, UserKeeps
<1>6. CASE OwnerStops \/ ConnectionLost
  BY <1>6, StoppedKeeps
<1>7. CASE PairingCloses
  BY <1>7, PairingCloseKeeps
<1> QED
  BY <1>1, <1>2, <1>3, <1>4, <1>5, <1>6, <1>7 DEF ProtocolNext

(* Every step of the protocol keeps the invariant.                          *)
LEMMA ProtocolInvStep == ProtocolInv /\ [ProtocolNext]_protocolVars => ProtocolInv'
<1> SUFFICES ASSUME ProtocolInv, [ProtocolNext]_protocolVars PROVE ProtocolInv'
  OBVIOUS
<1>1. CASE Good
  BY <1>1, KeptOwned DEF Good, ProtocolInv
<1>2. ASSUME NEW c \in Call, DeviceReplies(c) PROVE ProtocolInv'
  BY <1>2, AnswerKeeps
<1>3. CASE UNCHANGED protocolVars
  <2>1. /\ UNCHANGED <<pairing, credentials, call, sent, outstanding, heartbeat, attempts>>
        /\ UNCHANGED <<pstate, start, conn, replied, reported>>
    BY <1>3 DEF protocolVars, setupVars, taskVars, beatVars
  <2>2. Steps' = Steps
    BY <2>1 DEF Steps
  <2>3. ProtocolType'
    BY <2>1 DEF ProtocolInv, ProtocolType
  <2>4. StartInTurn'
    BY <2>1, <2>2 DEF ProtocolInv, StartInTurn
  <2>5. EntriesOwned'
    BY <2>1 DEF ProtocolInv, EntriesOwned
  <2> QED
    BY <2>3, <2>4, <2>5 DEF ProtocolInv
<1> QED
  BY <1>1, <1>2, <1>3, ProtocolStep

(* READY is earned by the invariant, and STOPPED is never left: start() has *)
(* not begun, or is past its connection, or finds its entry gone.           *)
LEMMA ReadyStep ==
    ASSUME ProtocolInv, [ProtocolNext]_protocolVars
    PROVE  /\ pstate' = "READY" =>
                /\ conn' \in {"up", "closing"}
                /\ \A i \in 1..Len(Steps) : call[Steps[i]].pc' = "returned"
           /\ pstate = "STOPPED" => pstate' = "STOPPED"
<1>1. ProtocolInv'
  BY ProtocolInvStep
<1>2. Steps' = Steps
  <2>1. UNCHANGED setupVars
    BY DEF ProtocolNext, protocolVars, Start, ConnectFails, ConnectSucceeds, StepReturns,
           StepRaises, HeartbeatSends, HeartbeatReturns, HeartbeatFails, HeartbeatRetries,
           UserCalls, UserReturns, UserRaises, UserCancels, OwnerStops, PairingCloses,
           DeviceReplies, ConnectionLost
  <2> QED
    BY <2>1 DEF Steps, setupVars
<1>3. pstate' = "READY" =>
         /\ conn' \in {"up", "closing"}
         /\ \A i \in 1..Len(Steps) : call[Steps[i]].pc' = "returned"
  BY <1>1, <1>2 DEF ProtocolInv, StartInTurn
<1>4. pstate = "STOPPED" => pstate' = "STOPPED"
  <2> SUFFICES ASSUME pstate = "STOPPED", pstate' # "STOPPED" PROVE FALSE
    OBVIOUS
  <2>1. \A c : ~ Got(c)
    BY DEF Got, ProtocolInv, StartInTurn, Silent
  <2>2. start # "connecting"
    BY DEF ProtocolInv, StartInTurn
  <2> QED
    BY <2>1, <2>2
       DEF ProtocolNext, protocolVars, Start, ConnectFails, ConnectSucceeds, StepReturns,
           StepRaises, StopProtocol, HeartbeatSends, HeartbeatReturns, HeartbeatFails,
           HeartbeatRetries, UserCalls, UserReturns, UserRaises, UserCancels, OwnerStops,
           PairingCloses, DeviceReplies, ConnectionLost
<1> QED
  BY <1>3, <1>4

-----------------------------------------------------------------------------
(* The contract of commands.                                                *)

(* At first no command was asked, answered or given a reply.                *)
LEMMA ContractInit == ProtocolInit => Contract!Init
<1> SUFFICES ASSUME ProtocolInit PROVE Contract!Init
  OBVIOUS
<1>1. \A c \in Command : c \in Call /\ call[c].pc = "idle" /\ call[c].response = NoCall
  BY CallsDiffer DEF ProtocolInit
<1>2. replied = {}
  BY DEF ProtocolInit
<1> QED
  BY <1>1, <1>2 DEF Contract!Init

(* What the contract's variables are worth for one command.                 *)
StatusOf(pc) ==
    CASE pc = "idle" -> "idle"
      [] pc = "waiting" -> "asked"
      [] pc = "returned" -> "answered"
      [] pc = "raised" -> "failed"

(* StatusOf, at the four places a call may be.                              *)
LEMMA StatusValues ==
    /\ StatusOf("idle") = "idle"
    /\ StatusOf("waiting") = "asked"
    /\ StatusOf("returned") = "answered"
    /\ StatusOf("raised") = "failed"
BY DEF StatusOf

GotOf(response) == IF response = NoCall THEN {} ELSE {response}

(* A step of the protocol is a step of the contract, or changes nothing the *)
(* contract speaks of.                                                      *)
LEMMA ContractStep ==
    ASSUME ProtocolInv, [ProtocolNext]_protocolVars
    PROVE  [Contract!Next]_(Contract!vars)
<1> DEFINE status == [c \in Command |-> StatusOf(call[c].pc)]
           got == [c \in Command |-> GotOf(call[c].response)]
           statusN == [c \in Command |-> StatusOf(call'[c].pc)]
           gotN == [c \in Command |-> GotOf(call'[c].response)]
<1>1. CASE Good
  <2>1. CommandStep /\ replied' = replied
    BY <1>1 DEF Good, Kept
  <2>2. CASE \A d \in Command : call'[d] = call[d]
    <3>1. statusN = status /\ gotN = got
      BY <2>2
    <3>2. UNCHANGED Contract!vars
      BY <2>1, <3>1 DEF Contract!vars, StatusOf, GotOf
    <3> QED
      BY <3>2
  <2>3. ASSUME NEW c \in Command, Asks(c) \/ Fails(c) \/ ReturnsFrom(c),
               \A d \in Command \ {c} : call'[d] = call[d]
        PROVE  Contract!Next
    <3>1. /\ call[c] \in CallState
          /\ c \in Call
          /\ NoCall \notin Call
          /\ call[c].response = IF call[c].pc = "returned" THEN c ELSE NoCall
      BY CallsDiffer DEF ProtocolInv, ProtocolType, EntriesOwned
    <3>2. CASE Asks(c)
      <4>1. /\ call[c].pc = "idle"
            /\ call'[c].pc = "waiting"
            /\ call'[c].response = call[c].response
        BY <3>1, <3>2 DEF Asks, CallState
      <4>2. statusN = [status EXCEPT ![c] = "asked"] /\ gotN = got /\ status[c] = "idle"
        BY <2>3, <4>1, StatusValues
      <4>3. Contract!Ask(c)
        BY <2>1, <4>2 DEF Contract!Ask, StatusOf, GotOf
      <4> QED
        BY <4>3 DEF Contract!Next
    <3>3. CASE Fails(c)
      <4>1. /\ call[c].pc \in {"idle", "waiting"}
            /\ call'[c].pc = "raised"
            /\ call'[c].response = call[c].response
        BY <3>1, <3>3 DEF Fails
      <4>2. statusN = [status EXCEPT ![c] = "failed"] /\ gotN = got /\ status[c] \in {"idle", "asked"}
        BY <2>3, <4>1, StatusValues
      <4>3. Contract!Fail(c)
        BY <2>1, <4>2 DEF Contract!Fail, StatusOf, GotOf
      <4> QED
        BY <4>3 DEF Contract!Next
    <3>4. CASE ReturnsFrom(c)
      <4>1. /\ call[c].pc = "waiting"
            /\ call'[c].pc = "returned"
            /\ call'[c].response = c
            /\ c # NoCall
            /\ c \in replied
        BY <3>1, <3>4 DEF ReturnsFrom
      <4>2. /\ statusN = [status EXCEPT ![c] = "answered"]
            /\ gotN = [got EXCEPT ![c] = {c}]
            /\ status[c] = "asked"
        BY <2>3, <4>1, StatusValues DEF GotOf
      <4>3. Contract!Return(c)
        BY <2>1, <4>1, <4>2 DEF Contract!Return, StatusOf, GotOf
      <4> QED
        BY <4>3 DEF Contract!Next
    <3> QED
      BY <2>3, <3>2, <3>3, <3>4
  <2> QED
    BY <2>1, <2>2, <2>3 DEF CommandStep
<1>2. ASSUME NEW c \in Call, DeviceReplies(c) PROVE [Contract!Next]_(Contract!vars)
  <2>1. \A d \in Command : call'[d].pc = call[d].pc /\ call'[d].response = call[d].response
    BY <1>2, AnswerKeeps, CallsDiffer
  <2>2. replied' = replied \cup {c} /\ call[c].pc # "idle"
    BY <1>2 DEF DeviceReplies, ProtocolInv, EntriesOwned
  <2>3. CASE c \in Command
    <3>1. statusN = status /\ gotN = got /\ status[c] # "idle"
      <4>1. call[c].pc \in {"waiting", "returned", "raised"}
        BY <2>2 DEF ProtocolInv, ProtocolType, CallState
      <4> QED
        BY <2>1, <2>3, <4>1, StatusValues
    <3>2. replied' \cap Command = (replied \cap Command) \cup {c}
      BY <2>2, <2>3
    <3>3. Contract!PeerReplies(c)
      BY <3>1, <3>2 DEF Contract!PeerReplies, StatusOf, GotOf
    <3> QED
      BY <2>3, <3>3 DEF Contract!Next
  <2>4. CASE c \notin Command
    <3>1. replied' \cap Command = replied \cap Command
      BY <2>2, <2>4
    <3>2. statusN = status /\ gotN = got
      BY <2>1
    <3> QED
      BY <3>1, <3>2 DEF Contract!vars, StatusOf, GotOf
  <2> QED
    BY <2>3, <2>4
<1>3. CASE UNCHANGED protocolVars
  BY <1>3 DEF protocolVars, taskVars, Contract!vars
<1> QED
  BY <1>1, <1>2, <1>3, ProtocolStep

-----------------------------------------------------------------------------
(* A step of MRP is a step of each of its parts, or leaves it alone.        *)
LEMMA PartsInit == MrpInit => ProtocolInit /\ ControlInit
BY DEF MrpInit

(* What a step of MRP is to the protocol and to the operations.             *)
LEMMA PartsStep == [MrpNext]_mrpVars => [ProtocolNext]_protocolVars /\ [ControlNext]_controlVars
BY DEF MrpNext, mrpVars

(* The invariant of the protocol, for every behaviour of MRP.               *)
LEMMA ProtocolInvariance == MrpSpec => []ProtocolInv
<1>1. MrpInit => ProtocolInv
  BY PartsInit, ProtocolInvInit
<1>2. ProtocolInv /\ [MrpNext]_mrpVars => ProtocolInv'
  BY PartsStep, ProtocolInvStep
<1> QED
  BY <1>1, <1>2, PTL DEF MrpSpec

(* Whatever the order of replies, losses and cancellations, a call holds    *)
(* the answer to itself or none, and an entry that is waited for belongs to *)
(* a call that waits.                                                       *)
THEOREM EntriesHaveOwners == MrpSpec => [](ProtocolType /\ EntriesOwned)
<1>1. ProtocolInv => ProtocolType /\ EntriesOwned
  BY DEF ProtocolInv
<1> QED
  BY <1>1, ProtocolInvariance, PTL

(* The protocol says READY only on a connection, when each step of start()  *)
(* returned, and never after it was stopped.                                *)
THEOREM ReadyTakesEveryStep == MrpSpec => ReadyIsEarned
<1>1. ProtocolInv /\ [MrpNext]_mrpVars
        => [/\ pstate' = "READY" =>
                /\ conn' \in {"up", "closing"}
                /\ \A i \in 1..Len(Steps) : call[Steps[i]].pc' = "returned"
            /\ pstate = "STOPPED" => pstate' = "STOPPED"]_protocolVars
  BY PartsStep, ReadyStep
<1> QED
  BY <1>1, ProtocolInvariance, PTL DEF MrpSpec, ReadyIsEarned

(* The protocol implements the contract of request and reply: a command     *)
(* returns once, with the reply to it, after the device replied to it; or   *)
(* fails.                                                                   *)
THEOREM CommandsAreAnswered == MrpSpec => RequestReplySpec
<1>1. MrpInit => Contract!Init
  BY PartsInit, ContractInit
<1>2. ProtocolInv /\ [MrpNext]_mrpVars => [Contract!Next]_(Contract!vars)
  BY PartsStep, ContractStep
<1> QED
  BY <1>1, <1>2, ProtocolInvariance, PTL DEF MrpSpec, RequestReplySpec, Contract!Spec

-----------------------------------------------------------------------------
(* The operations of several messages.                                      *)
Key == {"home", "select", "volume_up", "volume_down"}
Does == {"command", "tap", "press", "release", "wake", "set", "outputs", "nothing"}
Awaited == {"nothing", "answer", "time", "on", "off", "volume", "outputs"}
StageSet == [does : Does, of : Key \cup Uid \cup {""}, to : Level, awaits : Awaited]
Message == [kind : {"volume", "info"}, uid : Uid, value : Level \cup {0, 1}]

ControlType ==
    /\ todo \in [Task -> Seq(StageSet)]
    /\ waits \in [Task -> Awaited]
    /\ calls \in 0..MaxCalls
    /\ keys \subseteq Key
    /\ isOn \in BOOLEAN
    /\ level \in [Uid -> Level]
    /\ grouped \in BOOLEAN
    /\ inbox \in Seq(Message)
    /\ powerState \in BOOLEAN
    /\ volume \in Level
    /\ abilities \in Ability
    /\ DOMAIN listed \subseteq Uid
    /\ \A u \in DOMAIN listed : listed[u] \in Level
    /\ renewed \in BOOLEAN
    /\ ignored \in BOOLEAN
    /\ stuck \subseteq Key

(* A key that is pressed is released next, after a while; only the first    *)
(* stage awaits a volume, and only the last one an event, or nothing.       *)
WellFormed(p) ==
    \A i \in 1..Len(p) :
        /\ p[i].does \in {"press", "release"} => p[i].of \in Key
        /\ p[i].does = "set" => p[i].of \in Uid
        /\ p[i].does = "press" =>
              /\ p[i].awaits = "time"
              /\ i < Len(p)
              /\ p[i + 1].does = "release"
              /\ p[i + 1].of = p[i].of
        /\ p[i].awaits = "time" => p[i].does = "press" \/ (p[i].does = "nothing" /\ p[i].of = "")
        /\ p[i].awaits \notin {"time", "answer"} => i = Len(p)
        /\ p[i].awaits = "volume" => i = 1

CallsWait ==
    \A t \in Task :
        /\ WellFormed(todo[t])
        /\ waits[t] = "nothing" => todo[t] = <<>>
        /\ waits[t] # "nothing" => todo[t] # <<>> /\ waits[t] = Head(todo[t]).awaits

IsLevel(m, u) == m.kind = "volume" /\ m.uid = u
SaysNone(s, u) == \A i \in 1..Len(s) : ~ IsLevel(s[i], u)
SaidLast(s, u, l) ==
    \A i \in 1..Len(s) :
        IsLevel(s[i], u) /\ (\A j \in (i + 1)..Len(s) : ~ IsLevel(s[j], u)) => s[i].value = l

(* What the device said last of a volume is the volume, and what is known   *)
(* here of it is that, unless something was said that was not received.     *)
LevelsAreSaid ==
    /\ \A u \in Uid : SaidLast(inbox, u, level[u])
    /\ SaysNone(inbox, "own") => volume = Rounded(level["own"])
    /\ ~ renewed /\ SaysNone(inbox, "other") /\ "other" \in DOMAIN listed =>
          listed["other"] = Rounded(level["other"])


(* A stage that awaits a volume asks for one that is not known here.        *)
Promising(stage) ==
    stage.awaits = "volume" =>
        \/ stage.does = "tap" /\ stage.of = "volume_up" /\ volume # MaxLevel
        \/ stage.does = "tap" /\ stage.of = "volume_down" /\ volume # 0
        \/ stage.does = "set" /\ stage.of = "own"
        \/ /\ stage.does = "set"
           /\ stage.of = "other"
           /\ "other" \in DOMAIN listed
           /\ listed["other"] # stage.to

ControlInv == ControlType /\ CallsWait /\ LevelsAreSaid /\ NothingHangs

-----------------------------------------------------------------------------
(* The levels the device shows, and what rounding one does.                 *)
LEMMA Levels ==
    /\ MaxLevel \in Nat \ {0}
    /\ VolumeStep \in Nat \ {0}
    /\ 0 \in Level
    /\ 1 \in Level
    /\ MaxLevel \in Level
    /\ Rounded(MaxLevel) = MaxLevel
    /\ Rounded(0) = 0
    /\ \A l \in Level : Rounded(l) \in Level
BY ControlAssumption DEF Level, Rounded

(* The elements of two programs one after the other.                        *)
LEMMA Joined ==
    ASSUME NEW s \in Seq(StageSet), NEW t \in Seq(StageSet)
    PROVE  /\ s \o t \in Seq(StageSet)
           /\ Len(s \o t) = Len(s) + Len(t)
           /\ \A i \in 1 .. Len(s) + Len(t) :
                 (s \o t)[i] = IF i \leq Len(s) THEN s[i] ELSE t[i - Len(s)]
BY ConcatProperties, Zenon

(* Tuples of one and two elements, and of none.                             *)
LEMMA One ==
    ASSUME NEW S, NEW a \in S
    PROVE  <<a>> \in Seq(S) /\ Len(<<a>>) = 1 /\ <<a>>[1] = a
OBVIOUS

(* A sequence of two.                                                       *)
LEMMA Two ==
    ASSUME NEW S, NEW a \in S, NEW b \in S
    PROVE  <<a, b>> \in Seq(S) /\ Len(<<a, b>>) = 2 /\ <<a, b>>[1] = a /\ <<a, b>>[2] = b
OBVIOUS

(* Programs of one stage that is not a key held down, of two keys, of a key *)
(* that is held, and the one that turns the device off.                     *)
LEMMA OneStage ==
    ASSUME NEW S, NEW p \in Seq(S), Len(p) = 1,
           p[1].does \notin {"press", "release"}, p[1].awaits # "time",
           p[1].does = "set" => p[1].of \in Uid
    PROVE  WellFormed(p)
<1>1. \A i \in 1..1 : i = 1
  OBVIOUS
<1> QED
  BY <1>1 DEF WellFormed

(* Two taps are a program.                                                  *)
LEMMA TwoStages ==
    ASSUME NEW S, NEW p \in Seq(S), Len(p) = 2,
           \A i \in 1..2 : p[i].awaits = "answer" /\ p[i].does = "tap"
    PROVE  WellFormed(p)
<1>1. \A i \in 1..2 : i = 1 \/ i = 2
  OBVIOUS
<1> QED
  BY <1>1 DEF WellFormed

(* Where an operation of up to five stages may be.                          *)
LEMMA FiveStages ==
    ASSUME NEW n \in 2..5, NEW i \in 1..n
    PROVE  /\ i = 1 \/ i = 2 \/ i = 3 \/ i = 4 \/ i = 5
           /\ i = 1 => i + 1 = 2 /\ i < n
           /\ i = 3 => n >= 3
           /\ i = 4 => n >= 4
           /\ i = 5 => n >= 5 /\ n = 5
OBVIOUS

(* A key that is held, whatever follows, is a program: its release comes    *)
(* next.                                                                    *)
LEMMA HeldKey ==
    ASSUME NEW S, NEW p \in Seq(S), NEW n \in 2..5, n = Len(p),
           p[1].does = "press" /\ p[1].of = "home" /\ p[1].awaits = "time",
           p[2].does = "release" /\ p[2].of = "home" /\ p[2].awaits = "answer",
           n >= 3 => p[3].does = "nothing" /\ p[3].of = "" /\ p[3].awaits = "time",
           n >= 4 => p[4].does = "tap" /\ p[4].awaits = "answer",
           n >= 5 => p[5].does = "nothing" /\ p[5].awaits = "off"
    PROVE  WellFormed(p) /\ Promising(p[1])
<1>2. Promising(p[1])
  BY DEF Promising
<1>3. ASSUME NEW i \in 1..n
      PROVE  /\ p[i].does \in {"press", "release"} => p[i].of \in Key
             /\ p[i].does = "set" => p[i].of \in Uid
             /\ p[i].does = "press" =>
                   /\ p[i].awaits = "time"
                   /\ i < n
                   /\ p[i + 1].does = "release"
                   /\ p[i + 1].of = p[i].of
             /\ p[i].awaits = "time" => p[i].does = "press" \/ (p[i].does = "nothing" /\ p[i].of = "")
             /\ p[i].awaits \notin {"time", "answer"} => i = n
             /\ p[i].awaits = "volume" => i = 1
  <2>1. i = 1 \/ i = 2 \/ i = 3 \/ i = 4 \/ i = 5
    BY FiveStages
  <2>2. CASE i = 1
    <3>1. i + 1 = 2 /\ i < n
      BY <2>2, FiveStages
    <3> QED
      BY <2>2, <3>1 DEF Key
  <2>3. CASE i = 2
    BY <2>3 DEF Key
  <2>4. CASE i = 3
    <3>1. n >= 3
      BY <2>4, FiveStages
    <3>2. p[3].does = "nothing" /\ p[3].of = "" /\ p[3].awaits = "time"
      BY <3>1
    <3> QED
      BY <2>4, <3>2
  <2>5. CASE i = 4
    <3>1. n >= 4
      BY <2>5, FiveStages
    <3>2. p[4].does = "tap" /\ p[4].awaits = "answer"
      BY <3>1
    <3> QED
      BY <2>5, <3>2
  <2>6. CASE i = 5
    <3>1. n >= 5 /\ n = 5
      BY <2>6, FiveStages
    <3>2. p[5].does = "nothing" /\ p[5].awaits = "off"
      BY <3>1
    <3> QED
      BY <2>6, <3>1, <3>2
  <2> QED
    BY <2>1, <2>2, <2>3, <2>4, <2>5, <2>6
<1> QED
  BY <1>2, <1>3 DEF WellFormed

(* A stage that neither presses nor waits for time is a program by itself.  *)
LEMMA SingleStage ==
    ASSUME NEW s \in StageSet, s.does \notin {"press", "release"}, s.awaits # "time",
           s.does = "set" => s.of \in Uid
    PROVE  <<s>> \in Seq(StageSet) /\ WellFormed(<<s>>)
<1> DEFINE p == <<s>>
<1>1. p \in Seq(StageSet) /\ Len(p) = 1 /\ p[1] = s
  OBVIOUS
<1> HIDE DEF p
<1>2. WellFormed(p)
  BY <1>1, OneStage
<1> QED
  BY <1>1, <1>2 DEF p

(* The stage that sets a level.                                             *)
LEMMA SetStageType ==
    ASSUME NEW uid \in Uid, NEW to \in Level, NEW awaits \in Awaited
    PROVE  /\ SetStage(uid, to) \in StageSet
           /\ SetStage(uid, to).does = "set"
           /\ SetStage(uid, to).of = uid
           /\ SetStage(uid, to).to = to
           /\ [SetStage(uid, to) EXCEPT !.awaits = awaits] \in StageSet
           /\ [SetStage(uid, to) EXCEPT !.awaits = awaits].does = "set"
           /\ [SetStage(uid, to) EXCEPT !.awaits = awaits].of = uid
           /\ [SetStage(uid, to) EXCEPT !.awaits = awaits].to = to
           /\ [SetStage(uid, to) EXCEPT !.awaits = awaits].awaits = awaits
BY DEF SetStage, StageSet, Does, Awaited

(* The stages that press and release a key.                                 *)
LEMMA KeyStages ==
    /\ Stage("press", "home", "time") \in StageSet
    /\ Stage("press", "home", "time").does = "press"
    /\ Stage("press", "home", "time").of = "home"
    /\ Stage("press", "home", "time").awaits = "time"
    /\ Stage("release", "home", "answer") \in StageSet
    /\ Stage("release", "home", "answer").does = "release"
    /\ Stage("release", "home", "answer").of = "home"
    /\ Stage("release", "home", "answer").awaits = "answer"
    /\ Stage("tap", "select", "answer") \in StageSet
    /\ Stage("tap", "select", "answer").does = "tap"
    /\ Stage("tap", "select", "answer").awaits = "answer"
    /\ Stage("nothing", "", "time") \in StageSet
    /\ Stage("nothing", "", "time").does = "nothing"
    /\ Stage("nothing", "", "time").of = ""
    /\ Stage("nothing", "", "time").awaits = "time"
    /\ Stage("nothing", "", "off") \in StageSet
    /\ Stage("nothing", "", "off").does = "nothing"
    /\ Stage("nothing", "", "off").awaits = "off"
BY Levels DEF Stage, StageSet, Does, Key, Awaited

(* Hold presses and then releases.                                          *)
LEMMA HoldIs ==
    /\ Hold("home") \in Seq(StageSet)
    /\ Len(Hold("home")) = 2
    /\ Hold("home")[1] = Stage("press", "home", "time")
    /\ Hold("home")[2] = Stage("release", "home", "answer")
<1> DEFINE press == Stage("press", "home", "time")
           release == Stage("release", "home", "answer")
<1>1. press \in StageSet /\ release \in StageSet /\ Hold("home") = <<press, release>>
  BY KeyStages DEF Hold
<1> HIDE DEF press, release
<1>2. /\ Hold("home") \in Seq(StageSet)
      /\ Len(Hold("home")) = 2
      /\ Hold("home")[1] = press
      /\ Hold("home")[2] = release
  <2>1. /\ <<press, release>> \in Seq(StageSet)
        /\ Len(<<press, release>>) = 2
        /\ <<press, release>>[1] = press
        /\ <<press, release>>[2] = release
    BY <1>1, Two
  <2> QED
    BY <1>1, <2>1, Zenon
<1> QED
  BY <1>2 DEF press, release

(* Hold is a program.                                                       *)
LEMMA HoldIsWellFormed == WellFormed(Hold("home")) /\ Promising(Hold("home")[1])
<1> DEFINE p == Hold("home")
<1>1. p \in Seq(StageSet) /\ Len(p) = 2
  BY HoldIs
<1>2. /\ p[1].does = "press" /\ p[1].of = "home" /\ p[1].awaits = "time"
      /\ p[2].does = "release" /\ p[2].of = "home" /\ p[2].awaits = "answer"
  BY HoldIs, KeyStages
<1> HIDE DEF p
<1>3. 2 \in 2..5 /\ ~ (2 >= 3) /\ ~ (2 >= 4) /\ ~ (2 >= 5)
  OBVIOUS
<1>4. WellFormed(p) /\ Promising(p[1])
  BY <1>1, <1>2, <1>3, HeldKey
<1> QED
  BY <1>4 DEF p

(* turn_off holds the home key, selects and may wait for the state.         *)
LEMMA TurnOffIs ==
    ASSUME NEW b \in BOOLEAN
    PROVE  /\ TurnOff(b) \in Seq(StageSet)
           /\ WellFormed(TurnOff(b))
           /\ Promising(TurnOff(b)[1])
<1> DEFINE hold == Hold("home")
           wait == Stage("nothing", "", "time")
           tap == Stage("tap", "select", "answer")
           event == Stage("nothing", "", "off")
<1>1. /\ hold \in Seq(StageSet)
      /\ Len(hold) = 2
  BY HoldIs
<1>2. /\ hold[1].does = "press" /\ hold[1].of = "home" /\ hold[1].awaits = "time"
      /\ hold[2].does = "release" /\ hold[2].of = "home" /\ hold[2].awaits = "answer"
  BY HoldIs, KeyStages
<1>3. /\ wait \in StageSet /\ wait.does = "nothing" /\ wait.of = "" /\ wait.awaits = "time"
      /\ tap \in StageSet /\ tap.does = "tap" /\ tap.awaits = "answer"
      /\ event \in StageSet /\ event.does = "nothing" /\ event.awaits = "off"
  BY KeyStages
<1>4. TurnOff(b) = ((hold \o <<wait>>) \o <<tap>>) \o (IF b THEN <<event>> ELSE <<>>)
  BY DEF TurnOff, SingleTap
<1> HIDE DEF hold, wait, tap, event
<1> DEFINE pause == <<wait>>
           select == <<tap>>
           off == IF b THEN <<event>> ELSE <<>>
<1>5. /\ pause \in Seq(StageSet) /\ Len(pause) = 1 /\ pause[1] = wait
      /\ select \in Seq(StageSet) /\ Len(select) = 1 /\ select[1] = tap
  BY <1>3, One
<1>6. /\ off \in Seq(StageSet)
      /\ Len(off) \in {0, 1}
      /\ Len(off) = 1 => off[1] = event
  <2>1. CASE b
    BY <1>3, <2>1, One
  <2>2. CASE ~ b
    BY <2>2
  <2> QED
    BY <2>1, <2>2
<1>7. TurnOff(b) = ((hold \o pause) \o select) \o off
  BY <1>4
<1> HIDE DEF pause, select, off
<1> DEFINE p3 == hold \o pause
<1>8. /\ p3 \in Seq(StageSet)
      /\ Len(p3) = Len(hold) + Len(pause)
      /\ \A i \in 1 .. Len(hold) + Len(pause) :
            p3[i] = IF i \leq Len(hold) THEN hold[i] ELSE pause[i - Len(hold)]
  BY <1>1, <1>5, Joined, Zenon
<1> HIDE DEF p3
<1>9. Len(p3) = 3 /\ p3[1] = hold[1] /\ p3[2] = hold[2] /\ p3[3] = wait
  BY <1>1, <1>5, <1>8
<1> DEFINE p4 == p3 \o select
<1>10. /\ p4 \in Seq(StageSet)
       /\ Len(p4) = Len(p3) + Len(select)
       /\ \A i \in 1 .. Len(p3) + Len(select) :
             p4[i] = IF i \leq Len(p3) THEN p3[i] ELSE select[i - Len(p3)]
  BY <1>5, <1>8, Joined, Zenon
<1> HIDE DEF p4
<1>11. Len(p4) = 4 /\ p4[1] = hold[1] /\ p4[2] = hold[2] /\ p4[3] = wait /\ p4[4] = tap
  BY <1>5, <1>9, <1>10
<1> DEFINE p == p4 \o off
<1>12. /\ p \in Seq(StageSet)
       /\ Len(p) = Len(p4) + Len(off)
       /\ \A i \in 1 .. Len(p4) + Len(off) :
             p[i] = IF i \leq Len(p4) THEN p4[i] ELSE off[i - Len(p4)]
  BY <1>6, <1>10, Joined, Zenon
<1> HIDE DEF p
<1>13. /\ Len(p) \in {4, 5}
       /\ p[1] = hold[1] /\ p[2] = hold[2] /\ p[3] = wait /\ p[4] = tap
       /\ Len(p) = 5 => p[5] = event
  BY <1>6, <1>11, <1>12
<1>14. WellFormed(p) /\ Promising(p[1])
  <2>1. PICK n \in {4, 5} : n = Len(p)
    BY <1>13
  <2>2. n \in 2..5 /\ (n >= 5 => n = 5)
    BY <2>1
  <2>3. n >= 5 => p[5] = event
    BY <1>13, <2>1, <2>2
  <2> QED
    BY <1>2, <1>3, <1>12, <1>13, <2>1, <2>2, <2>3, HeldKey
<1> QED
  BY <1>7, <1>12, <1>14 DEF p, p4, p3

(* A double tap is a program.                                               *)
LEMMA DoubleTapIs ==
    /\ DoubleTap("select") \in Seq(StageSet)
    /\ WellFormed(DoubleTap("select"))
    /\ Promising(DoubleTap("select")[1])
<1> DEFINE tap == Stage("tap", "select", "answer")
<1>1. /\ tap \in StageSet /\ tap.does = "tap" /\ tap.awaits = "answer"
      /\ DoubleTap("select") = <<tap>> \o <<tap>>
  BY KeyStages DEF DoubleTap, SingleTap
<1> HIDE DEF tap
<1> DEFINE one == <<tap>>
<1>2. one \in Seq(StageSet) /\ Len(one) = 1 /\ one[1] = tap /\ DoubleTap("select") = one \o one
  BY <1>1
<1> HIDE DEF one
<1> DEFINE p == one \o one
<1>3. /\ p \in Seq(StageSet)
      /\ Len(p) = Len(one) + Len(one)
      /\ \A i \in 1 .. Len(one) + Len(one) :
            p[i] = IF i \leq Len(one) THEN one[i] ELSE one[i - Len(one)]
  BY <1>2, Joined, Zenon
<1> HIDE DEF p
<1>4. Len(p) = 2 /\ p[1] = tap /\ p[2] = tap
  BY <1>2, <1>3
<1>5. WellFormed(p) /\ Promising(p[1])
  BY <1>1, <1>3, <1>4, TwoStages DEF Promising
<1> QED
  BY <1>2, <1>3, <1>5 DEF p

(* volume_up and volume_down are programs whichever way they take.          *)
LEMMA RampIs ==
    ASSUME ControlType, NEW p \in {VolumeUp, VolumeDown}, p # <<>>
    PROVE  p \in Seq(StageSet) /\ WellFormed(p) /\ Promising(p[1])
<1>1. ASSUME NEW key \in {"volume_up", "volume_down"}, NEW limit \in Level, NEW next \in Level,
             p = Ramp(key, limit, next),
             key = "volume_up" => limit = MaxLevel,
             key = "volume_down" => limit = 0
      PROVE  p \in Seq(StageSet) /\ WellFormed(p) /\ Promising(p[1])
  <2>1. CASE abilities.absolute /\ volume = limit
    BY <1>1, <2>1 DEF Ramp
  <2>2. CASE ~ (abilities.absolute /\ volume = limit) /\ abilities.relative
    <3> DEFINE awaits == IF abilities.absolute THEN "volume" ELSE "nothing"
               s == Stage("tap", key, awaits)
    <3>1. p = <<s>>
      BY <1>1, <2>2 DEF Ramp
    <3>2. awaits \in Awaited /\ (awaits = "volume" => volume # limit) /\ awaits # "time"
      BY <2>2 DEF Awaited
    <3> HIDE DEF awaits
    <3>3. s \in StageSet /\ s.does = "tap" /\ s.of = key /\ s.awaits = awaits
      BY <1>1, <3>2, Levels DEF Stage, StageSet, Does, Key
    <3> HIDE DEF s
    <3>4. <<s>> \in Seq(StageSet) /\ WellFormed(<<s>>)
      BY <3>2, <3>3, SingleStage
    <3>5. Promising(s)
      BY <1>1, <3>2, <3>3 DEF Promising
    <3> QED
      BY <3>1, <3>4, <3>5
  <2>3. CASE ~ (abilities.absolute /\ volume = limit) /\ ~ abilities.relative
    <3> DEFINE s == SetStage("own", next)
    <3>1. p = <<s>>
      BY <1>1, <2>3 DEF Ramp
    <3>2. s \in StageSet /\ s.does = "set" /\ s.of = "own" /\ s.of \in Uid
      BY <1>1 DEF SetStage, StageSet, Uid, Awaited, Does
    <3>3. s.awaits = "volume"
      BY DEF SetStage
    <3> HIDE DEF s
    <3>4. <<s>> \in Seq(StageSet) /\ WellFormed(<<s>>)
      BY <3>2, <3>3, SingleStage
    <3>5. Promising(s)
      BY <3>2, <3>3 DEF Promising
    <3> QED
      BY <3>1, <3>4, <3>5
  <2> QED
    BY <2>1, <2>2, <2>3
<1>2. volume \in Level
  BY DEF ControlType
<1>3. (IF volume + VolumeStep > MaxLevel THEN MaxLevel ELSE volume + VolumeStep) \in Level
  BY <1>2, Levels DEF Level
<1>4. (IF volume < VolumeStep THEN 0 ELSE volume - VolumeStep) \in Level
  BY <1>2, Levels DEF Level
<1>5. CASE p = VolumeUp
  BY <1>1, <1>3, <1>5, Levels DEF VolumeUp
<1>6. CASE p = VolumeDown
  BY <1>1, <1>4, <1>6, Levels DEF VolumeDown
<1> QED
  BY <1>5, <1>6

(* So is every operation of the user.                                       *)
LEMMA ProgramIs ==
    ASSUME ControlType, NEW p \in Programs, p # <<>>
    PROVE  p \in Seq(StageSet) /\ WellFormed(p) /\ Promising(p[1])
<1>1. ASSUME NEW s \in StageSet, p = <<s>>, s.does \notin {"press", "release"}, s.awaits # "time",
             s.does = "set" => s.of \in Uid, Promising(s)
      PROVE  p \in Seq(StageSet) /\ WellFormed(p) /\ Promising(p[1])
  <2>1. <<s>> \in Seq(StageSet) /\ WellFormed(<<s>>)
    BY <1>1, SingleStage
  <2> QED
    BY <1>1, <2>1
<1>2. ASSUME NEW does \in Does \ {"press", "release", "set"}, NEW of \in Key \cup Uid \cup {""},
             NEW awaits \in Awaited \ {"time", "volume"}, p = <<Stage(does, of, awaits)>>
      PROVE  p \in Seq(StageSet) /\ WellFormed(p) /\ Promising(p[1])
  <2> DEFINE s == Stage(does, of, awaits)
  <2>1. s \in StageSet /\ s.does = does /\ s.awaits = awaits
    BY <1>2, Levels DEF Stage, StageSet
  <2> HIDE DEF s
  <2>2. Promising(s)
    BY <2>1 DEF Promising
  <2> QED
    BY <1>1, <1>2, <2>1, <2>2 DEF s
<1>3. CASE p \in {SendCommand, SingleTap("select"), SetOutputDevices} \cup {TurnOn(b) : b \in BOOLEAN}
  <2>1. /\ {"command", "tap", "outputs", "wake"} \subseteq Does \ {"press", "release", "set"}
        /\ {"", "select"} \subseteq Key \cup Uid \cup {""}
        /\ {"answer", "outputs", "on", "nothing"} \subseteq Awaited \ {"time", "volume"}
    BY DEF Does, Key, Awaited
  <2>2. CASE p = SendCommand
    BY <1>2, <2>1, <2>2 DEF SendCommand
  <2>3. CASE p = SingleTap("select")
    BY <1>2, <2>1, <2>3 DEF SingleTap
  <2>4. CASE p = SetOutputDevices
    BY <1>2, <2>1, <2>4 DEF SetOutputDevices
  <2>5. ASSUME NEW b \in BOOLEAN, p = TurnOn(b)
        PROVE  p \in Seq(StageSet) /\ WellFormed(p) /\ Promising(p[1])
    <3>1. (IF b THEN "on" ELSE "nothing") \in Awaited \ {"time", "volume"}
      BY <2>1
    <3> QED
      BY <1>2, <2>1, <2>5, <3>1 DEF TurnOn
  <2> QED
    BY <1>3, <2>2, <2>3, <2>4, <2>5
<1>4. CASE p \in {VolumeUp, VolumeDown}
  BY <1>4, RampIs
<1>5. CASE p \in {DoubleTap("select"), Hold("home")} \cup {TurnOff(b) : b \in BOOLEAN}
  BY <1>5, DoubleTapIs, HoldIs, HoldIsWellFormed, TurnOffIs
<1>6. ASSUME NEW to \in Level, p = SetVolume(to)
      PROVE  p \in Seq(StageSet) /\ WellFormed(p) /\ Promising(p[1])
  <2> DEFINE awaits == IF abilities.absolute /\ volume # to THEN "volume" ELSE "nothing"
             s == [SetStage("own", to) EXCEPT !.awaits = awaits]
  <2>1. awaits \in Awaited \ {"time"} /\ "own" \in Uid
    BY DEF Awaited, Uid
  <2>2. p = <<s>>
    BY <1>6 DEF SetVolume
  <2> HIDE DEF awaits
  <2>3. s \in StageSet /\ s.does = "set" /\ s.of = "own" /\ s.awaits = awaits
    BY <2>1, SetStageType
  <2> HIDE DEF s
  <2>4. Promising(s)
    BY <2>3 DEF Promising
  <2> QED
    BY <1>1, <2>1, <2>2, <2>3, <2>4 DEF Uid
<1>7. ASSUME NEW u \in DOMAIN listed, NEW to \in Level, p = SetOutputVolume(u, to)
      PROVE  p \in Seq(StageSet) /\ WellFormed(p) /\ Promising(p[1])
  <2> DEFINE awaits == IF listed[u] # to THEN "volume" ELSE "nothing"
             s == [SetStage(u, to) EXCEPT !.awaits = awaits]
  <2>1. awaits \in Awaited \ {"time"} /\ u \in Uid
    BY DEF Awaited, ControlType
  <2>2. p = <<s>> /\ (awaits = "volume" => listed[u] # to)
    BY <1>7 DEF SetOutputVolume
  <2> HIDE DEF awaits
  <2>3. s \in StageSet /\ s.does = "set" /\ s.of = u /\ s.awaits = awaits /\ s.to = to
    BY <2>1, SetStageType
  <2> HIDE DEF s
  <2>4. Promising(s)
    BY <2>1, <2>2, <2>3 DEF Promising, Uid
  <2> QED
    BY <1>1, <2>1, <2>2, <2>3, <2>4 DEF Uid
<1> QED
  BY <1>3, <1>4, <1>5, <1>6, <1>7 DEF Programs

-----------------------------------------------------------------------------
(* What is left of a program, and of what the device said.                  *)

(* Head and tail of a sequence that is not empty.                           *)
LEMMA TailOf ==
    ASSUME NEW S, NEW p \in Seq(S), p # <<>>
    PROVE  /\ Len(p) \in Nat \ {0}
           /\ Head(p) = p[1]
           /\ Head(p) \in S
           /\ Tail(p) \in Seq(S)
           /\ Len(Tail(p)) = Len(p) - 1
           /\ \A i \in 1..(Len(p) - 1) : Tail(p)[i] = p[i + 1]
<1>1. Len(p) \in Nat /\ Len(p) # 0
  BY EmptySeq, LenProperties
<1>2. Head(p) = p[1] /\ Head(p) \in S
  BY <1>1, HeadTailProperties
<1>3. Tail(p) \in Seq(S) /\ Len(Tail(p)) = Len(p) - 1
  BY HeadTailProperties
<1>4. \A i \in 1..Len(Tail(p)) : Tail(p)[i] = p[i + 1]
  BY HeadTailProperties
<1> QED
  BY <1>1, <1>2, <1>3, <1>4

(* The rest of a program is one, and begins with the release of the key     *)
(* that is down.                                                            *)
LEMMA TailWellFormed ==
    ASSUME NEW p \in Seq(StageSet), p # <<>>, WellFormed(p)
    PROVE  /\ Tail(p) \in Seq(StageSet)
           /\ WellFormed(Tail(p))
           /\ Tail(p) = <<>> <=> Len(p) = 1
           /\ p[1].does = "press" =>
                 /\ Tail(p) # <<>>
                 /\ Tail(p)[1].does = "release"
                 /\ Tail(p)[1].of = p[1].of
           /\ p[1].awaits \notin {"time", "answer"} => Tail(p) = <<>>
           /\ Tail(p) # <<>> => Tail(p)[1].awaits # "volume"
           /\ p[1].awaits = "time" => p[1].does = "press" \/ p[1].of = ""
           /\ p[1].does = "set" => p[1].of \in Uid
           /\ p[1].does = "press" => p[1].awaits = "time"
<1> DEFINE n == Len(p)
           q == Tail(p)
<1>1. /\ n \in Nat \ {0}
      /\ q \in Seq(StageSet)
      /\ Len(q) = n - 1
      /\ \A i \in 1..(n - 1) : q[i] = p[i + 1]
  BY TailOf
<1>2. /\ \A i \in 1..n :
           /\ p[i].does \in {"press", "release"} => p[i].of \in Key
           /\ p[i].does = "set" => p[i].of \in Uid
           /\ p[i].does = "press" =>
                 /\ p[i].awaits = "time"
                 /\ i < n
                 /\ p[i + 1].does = "release"
                 /\ p[i + 1].of = p[i].of
           /\ p[i].awaits = "time" => p[i].does = "press" \/ (p[i].does = "nothing" /\ p[i].of = "")
           /\ p[i].awaits \notin {"time", "answer"} => i = n
           /\ p[i].awaits = "volume" => i = 1
  BY DEF WellFormed
<1>3. q = <<>> <=> n = 1
  BY <1>1, EmptySeq
<1> HIDE DEF n, q
<1>4. 1 \in 1..n /\ (n # 1 => 1 \in 1..(n - 1) /\ 2 \in 1..n)
  BY <1>1
<1>5. n # 1 => q[1] = p[2]
  BY <1>1, <1>4
<1>6. ASSUME NEW i \in 1..(n - 1)
      PROVE  /\ q[i].does \in {"press", "release"} => q[i].of \in Key
             /\ q[i].does = "set" => q[i].of \in Uid
             /\ q[i].does = "press" =>
                   /\ q[i].awaits = "time"
                   /\ i < n - 1
                   /\ q[i + 1].does = "release"
                   /\ q[i + 1].of = q[i].of
             /\ q[i].awaits = "time" => q[i].does = "press" \/ (q[i].does = "nothing" /\ q[i].of = "")
             /\ q[i].awaits \notin {"time", "answer"} => i = n - 1
             /\ q[i].awaits = "volume" => i = 1
  <2>1. i + 1 \in 1..n /\ q[i] = p[i + 1] /\ i \in Nat
    BY <1>1
  <2>2. q[i].does = "press" => i < n - 1 /\ q[i + 1] = p[(i + 1) + 1]
    <3>1. q[i].does = "press" => i + 1 < n
      BY <1>2, <2>1
    <3>2. i + 1 < n => i + 1 \in 1..(n - 1) /\ i < n - 1
      BY <1>1, <2>1
    <3> QED
      BY <1>1, <3>1, <3>2
  <2>3. q[i].awaits # "volume"
    <3>1. i + 1 # 1
      BY <2>1
    <3> QED
      BY <1>2, <2>1, <3>1
  <2>4. q[i].awaits \notin {"time", "answer"} => i = n - 1
    <3>1. i + 1 = n => i = n - 1
      BY <1>1, <2>1
    <3> QED
      BY <1>2, <2>1, <3>1
  <2> QED
    BY <1>2, <2>1, <2>2, <2>3, <2>4, ZenonT(60)
<1>7. WellFormed(q)
  <2> DEFINE m == n - 1
  <2>1. Len(q) = m
    BY <1>1
  <2>2. \A i \in 1..m :
           /\ q[i].does \in {"press", "release"} => q[i].of \in Key
           /\ q[i].does = "set" => q[i].of \in Uid
           /\ q[i].does = "press" =>
                 /\ q[i].awaits = "time"
                 /\ i < m
                 /\ q[i + 1].does = "release"
                 /\ q[i + 1].of = q[i].of
           /\ q[i].awaits = "time" => q[i].does = "press" \/ (q[i].does = "nothing" /\ q[i].of = "")
           /\ q[i].awaits \notin {"time", "answer"} => i = m
           /\ q[i].awaits = "volume" => i = 1
    BY <1>6
  <2> HIDE DEF m
  <2> QED
    BY <2>1, <2>2, Zenon DEF WellFormed
<1>8. p[1].does = "press" => n # 1 /\ q[1].does = "release" /\ q[1].of = p[1].of
  <2>1. p[1].does = "press" => 1 < n /\ p[1 + 1].does = "release" /\ p[1 + 1].of = p[1].of
    BY <1>2, <1>4
  <2>2. 1 < n => n # 1
    BY <1>1
  <2> QED
    BY <1>5, <2>1, <2>2
<1>9. p[1].awaits \notin {"time", "answer"} => n = 1
  BY <1>2, <1>4
<1>10. n # 1 => q[1].awaits # "volume"
  BY <1>2, <1>4, <1>5
<1>11. /\ p[1].awaits = "time" => p[1].does = "press" \/ p[1].of = ""
       /\ p[1].does = "set" => p[1].of \in Uid
       /\ p[1].does = "press" => p[1].awaits = "time"
  BY <1>2, <1>4
<1> QED
  BY <1>1, <1>3, <1>7, <1>8, <1>9, <1>10, <1>11 DEF q, n

(* One message more: a level that was said is the last one of its device,   *)
(* and nothing changes for other devices.                                   *)
LEMMA SaysMore ==
    ASSUME NEW s \in Seq(Message), NEW m \in Message
    PROVE  /\ s \o <<m>> \in Seq(Message)
           /\ \A u \in Uid, l \in Level :
                 /\ IsLevel(m, u) /\ m.value = l => SaidLast(s \o <<m>>, u, l)
                 /\ IsLevel(m, u) => ~ SaysNone(s \o <<m>>, u)
                 /\ ~ IsLevel(m, u) => /\ SaidLast(s, u, l) => SaidLast(s \o <<m>>, u, l)
                                       /\ SaysNone(s \o <<m>>, u) <=> SaysNone(s, u)
           /\ (\E i \in DOMAIN s : s[i].kind = "volume") =>
                 \E i \in DOMAIN (s \o <<m>>) : (s \o <<m>>)[i].kind = "volume"
           /\ m.kind = "volume" =>
                 \E i \in DOMAIN (s \o <<m>>) : (s \o <<m>>)[i].kind = "volume"
<1> DEFINE one == <<m>>
<1>1. one \in Seq(Message) /\ Len(one) = 1 /\ one[1] = m
  BY One
<1> HIDE DEF one
<1> DEFINE n == Len(s)
           t == s \o one
<1>2. n \in Nat /\ DOMAIN s = 1..n
  BY LenProperties
<1>3. /\ t \in Seq(Message)
      /\ Len(t) = n + Len(one)
      /\ \A i \in 1 .. n + Len(one) : t[i] = IF i \leq n THEN s[i] ELSE one[i - n]
  BY <1>1, ConcatProperties, Zenon
<1>4. DOMAIN t = 1..Len(t)
  BY <1>3, LenProperties
<1> HIDE DEF n, t
<1>5. /\ Len(t) = n + 1
      /\ \A i \in 1..n : t[i] = s[i]
      /\ t[n + 1] = m
  <2>1. \A i \in 1..n : i \in 1 .. n + 1 /\ i <= n
    BY <1>2
  <2>2. n + 1 \in 1 .. n + 1 /\ ~ (n + 1 <= n) /\ (n + 1) - n = 1
    BY <1>2
  <2> QED
    BY <1>1, <1>3, <2>1, <2>2
<1>6. \A i \in 1..(n + 1) : i \in 1..n \/ i = n + 1
  BY <1>2
<1>7. ASSUME NEW u \in Uid, IsLevel(m, u)
      PROVE  SaidLast(t, u, m.value) /\ ~ SaysNone(t, u)
  <2>1. n + 1 \in 1..(n + 1) /\ \A i \in 1..n : n + 1 \in (i + 1)..(n + 1)
    BY <1>2
  <2> QED
    BY <1>5, <1>6, <1>7, <2>1 DEF SaidLast, SaysNone
<1>8. ASSUME NEW u \in Uid, NEW l \in Level, ~ IsLevel(m, u)
      PROVE  /\ SaidLast(s, u, l) => SaidLast(t, u, l)
             /\ SaysNone(t, u) <=> SaysNone(s, u)
  <2>1. SaysNone(t, u) <=> SaysNone(s, u)
    BY <1>2, <1>5, <1>6, <1>8 DEF SaysNone, n
  <2>2. ASSUME SaidLast(s, u, l), NEW i \in 1..(n + 1), IsLevel(t[i], u),
               \A j \in (i + 1)..(n + 1) : ~ IsLevel(t[j], u)
        PROVE  t[i].value = l
    <3>1. i \in 1..n /\ t[i] = s[i]
      BY <1>5, <1>6, <1>8, <2>2
    <3>2. \A j \in (i + 1)..n : j \in (i + 1)..(n + 1) /\ j \in 1..n
      BY <1>2, <3>1
    <3>3. \A j \in (i + 1)..n : ~ IsLevel(s[j], u)
      BY <1>5, <2>2, <3>2
    <3> QED
      BY <2>2, <3>1, <3>3 DEF SaidLast, n
  <2> QED
    BY <1>5, <2>1, <2>2 DEF SaidLast
<1>9. (\E i \in DOMAIN s : s[i].kind = "volume") => \E i \in DOMAIN t : t[i].kind = "volume"
  BY <1>2, <1>4, <1>5
<1>10. m.kind = "volume" => \E i \in DOMAIN t : t[i].kind = "volume"
  <2>1. n + 1 \in 1..(n + 1)
    BY <1>2
  <2> QED
    BY <1>4, <1>5, <2>1
<1> QED
  BY <1>3, <1>7, <1>8, <1>9, <1>10 DEF t, one

(* One message is received: if it was the last of a device, its level is    *)
(* that of the device.                                                      *)
LEMMA SaysLess ==
    ASSUME NEW s \in Seq(Message), s # <<>>
    PROVE  /\ Tail(s) \in Seq(Message)
           /\ \A u \in Uid, l \in Level :
                 /\ SaidLast(s, u, l) => SaidLast(Tail(s), u, l)
                 /\ SaidLast(s, u, l) /\ SaysNone(Tail(s), u) /\ IsLevel(Head(s), u) =>
                       Head(s).value = l
                 /\ SaysNone(Tail(s), u) /\ ~ IsLevel(Head(s), u) => SaysNone(s, u)
           /\ Head(s).kind # "volume" /\ (\E i \in DOMAIN s : s[i].kind = "volume") =>
                 \E i \in DOMAIN Tail(s) : Tail(s)[i].kind = "volume"
<1> DEFINE n == Len(s)
           t == Tail(s)
<1>1. /\ n \in Nat \ {0}
      /\ Head(s) = s[1]
      /\ t \in Seq(Message)
      /\ Len(t) = n - 1
      /\ \A i \in 1..(n - 1) : t[i] = s[i + 1]
  BY TailOf
<1>2. DOMAIN s = 1..n /\ DOMAIN t = 1..Len(t)
  BY <1>1, LenProperties
<1> HIDE DEF n, t
<1>3. \A i \in 1..n : i = 1 \/ (i - 1 \in 1..(n - 1) /\ (i - 1) + 1 = i)
  BY <1>1
<1>4. \A i \in 1..(n - 1) : i + 1 \in 1..n /\ \A j \in ((i + 1) + 1)..n : j - 1 \in (i + 1)..(n - 1) /\ j - 1 \in 1..(n - 1) /\ (j - 1) + 1 = j
  BY <1>1
<1>5. ASSUME NEW u \in Uid, NEW l \in Level
      PROVE  /\ SaidLast(s, u, l) => SaidLast(t, u, l)
             /\ SaidLast(s, u, l) /\ SaysNone(t, u) /\ IsLevel(Head(s), u) => Head(s).value = l
             /\ SaysNone(t, u) /\ ~ IsLevel(Head(s), u) => SaysNone(s, u)
  <2>1. ASSUME SaidLast(s, u, l), NEW i \in 1..(n - 1), IsLevel(t[i], u),
               \A j \in (i + 1)..(n - 1) : ~ IsLevel(t[j], u)
        PROVE  t[i].value = l
    <3>1. i + 1 \in 1..n /\ t[i] = s[i + 1]
      BY <1>1, <1>4
    <3>2. ASSUME NEW j \in ((i + 1) + 1)..n PROVE ~ IsLevel(s[j], u)
      <4>1. j - 1 \in (i + 1)..(n - 1) /\ j - 1 \in 1..(n - 1) /\ (j - 1) + 1 = j
        BY <1>4
      <4>2. t[j - 1] = s[j]
        BY <1>1, <4>1
      <4> QED
        BY <2>1, <4>1, <4>2
    <3> QED
      BY <2>1, <3>1, <3>2 DEF SaidLast, n
  <2>2. ASSUME SaysNone(t, u) PROVE \A j \in (1 + 1)..n : ~ IsLevel(s[j], u)
    <3>1. \A j \in (1 + 1)..n : j - 1 \in 1..(n - 1) /\ (j - 1) + 1 = j
      BY <1>1
    <3>2. \A j \in (1 + 1)..n : t[j - 1] = s[j] /\ j - 1 \in 1..(n - 1)
      BY <1>1, <3>1
    <3> QED
      BY <1>1, <2>2, <3>2 DEF SaysNone
  <2>3. 1 \in 1..n /\ \A j \in 1..n : j = 1 \/ j \in (1 + 1)..n
    BY <1>1
  <2> QED
    BY <1>1, <2>1, <2>2, <2>3 DEF SaidLast, SaysNone, n
<1>6. Head(s).kind # "volume" /\ (\E i \in DOMAIN s : s[i].kind = "volume") =>
         \E i \in DOMAIN t : t[i].kind = "volume"
  <2> SUFFICES ASSUME s[1].kind # "volume", NEW i \in 1..n, s[i].kind = "volume"
               PROVE  \E j \in 1..(n - 1) : t[j].kind = "volume"
    BY <1>1, <1>2
  <2>1. i - 1 \in 1..(n - 1) /\ (i - 1) + 1 = i
    BY <1>3
  <2>2. t[i - 1] = s[i]
    BY <1>1, <2>1
  <2> QED
    BY <2>1, <2>2
<1> QED
  BY <1>1, <1>5, <1>6 DEF t

-----------------------------------------------------------------------------
(* The steps.                                                               *)

(* The level of one device is set, or whether it is on and the other is in  *)
(* its group, and a message says so when that is new.                       *)
LEMMA LevelIsSaid ==
    ASSUME ControlType, LevelsAreSaid, NEW uid \in Uid, NEW to \in Level, SetsLevel(uid, to),
           UNCHANGED <<volume, listed, renewed>>
    PROVE  /\ level' \in [Uid -> Level]
           /\ inbox' \in Seq(Message)
           /\ LevelsAreSaid'
           /\ (\E i \in DOMAIN inbox : inbox[i].kind = "volume") =>
                 \E i \in DOMAIN inbox' : inbox'[i].kind = "volume"
           /\ level[uid] # to => \E i \in DOMAIN inbox' : inbox'[i].kind = "volume"
<1>1. level' \in [Uid -> Level] /\ level' = [level EXCEPT ![uid] = to]
  BY DEF SetsLevel, ControlType
<1>2. level'[uid] = to /\ \A u \in Uid : u # uid => level'[u] = level[u]
  BY <1>1 DEF ControlType
<1>3. {"own", "other"} \subseteq Uid
  BY DEF Uid
<1>4. CASE level[uid] = to
  <2>1. \A u \in Uid : level'[u] = level[u]
    BY <1>2, <1>4
  <2>2. inbox' = inbox \o <<>>
    BY <1>4 DEF SetsLevel, SaysLevel
  <2>3. inbox' = inbox
    BY <2>2, ConcatEmptySeq DEF ControlType
  <2>4. LevelsAreSaid'
    BY <1>3, <2>1, <2>3 DEF LevelsAreSaid
  <2> QED
    BY <1>1, <1>4, <2>3, <2>4 DEF ControlType
<1>5. CASE level[uid] # to
  <2> DEFINE m == Says("volume", uid, to)
  <2>1. m \in Message /\ m.kind = "volume" /\ m.uid = uid /\ m.value = to
    BY Levels DEF Says, Message
  <2>2. inbox' = inbox \o <<m>> /\ inbox \in Seq(Message)
    BY <1>5 DEF SetsLevel, SaysLevel, ControlType
  <2> HIDE DEF m
  <2>3. \A u \in Uid : IsLevel(m, u) <=> u = uid
    BY <2>1 DEF IsLevel
  <2>4. /\ inbox' \in Seq(Message)
        /\ \A u \in Uid, l \in Level :
              /\ u = uid /\ l = to => SaidLast(inbox', u, l)
              /\ u = uid => ~ SaysNone(inbox', u)
              /\ u # uid => /\ SaidLast(inbox, u, l) => SaidLast(inbox', u, l)
                            /\ SaysNone(inbox', u) <=> SaysNone(inbox, u)
        /\ \E i \in DOMAIN inbox' : inbox'[i].kind = "volume"
    BY <2>1, <2>2, <2>3, SaysMore
  <2>5. \A u \in Uid : SaidLast(inbox', u, level'[u])
    BY <1>1, <1>2, <2>4 DEF LevelsAreSaid, ControlType
  <2>6. LevelsAreSaid'
    BY <1>2, <1>3, <2>4, <2>5 DEF LevelsAreSaid, ControlType
  <2> QED
    BY <1>1, <2>4, <2>6
<1> QED
  BY <1>4, <1>5

(* What the device says of its outputs and its state changes no level.      *)
LEMMA InfoIsSaid ==
    ASSUME ControlType, LevelsAreSaid, NEW on \in BOOLEAN, NEW group \in BOOLEAN, Acts(on, group),
           UNCHANGED <<volume, listed, renewed>>
    PROVE  /\ level' = level
           /\ inbox' \in Seq(Message)
           /\ isOn' \in BOOLEAN
           /\ grouped' \in BOOLEAN
           /\ LevelsAreSaid'
           /\ (\E i \in DOMAIN inbox : inbox[i].kind = "volume") =>
                 \E i \in DOMAIN inbox' : inbox'[i].kind = "volume"
<1>1. level' = level /\ isOn' \in BOOLEAN /\ grouped' \in BOOLEAN
  BY DEF Acts
<1>2. CASE inbox' = inbox
  <2>1. LevelsAreSaid'
    BY <1>1, <1>2 DEF LevelsAreSaid
  <2> QED
    BY <1>1, <1>2, <2>1 DEF ControlType
<1>3. CASE inbox' = inbox \o SaysInfo(on, group)
  <2> DEFINE m == Says("info", IF group THEN "other" ELSE "own", IF on THEN 1 ELSE 0)
  <2>1. m \in Message /\ m.kind = "info"
    BY Levels DEF Says, Message, Uid
  <2>2. inbox' = inbox \o <<m>> /\ inbox \in Seq(Message)
    BY <1>3 DEF SaysInfo, ControlType
  <2> HIDE DEF m
  <2>3. \A u \in Uid : ~ IsLevel(m, u)
    BY <2>1 DEF IsLevel
  <2>4. /\ inbox' \in Seq(Message)
        /\ \A u \in Uid, l \in Level :
              /\ SaidLast(inbox, u, l) => SaidLast(inbox', u, l)
              /\ SaysNone(inbox', u) <=> SaysNone(inbox, u)
        /\ (\E i \in DOMAIN inbox : inbox[i].kind = "volume") =>
                 \E i \in DOMAIN inbox' : inbox'[i].kind = "volume"
    BY <2>1, <2>2, <2>3, SaysMore
  <2>5. {"own", "other"} \subseteq Uid /\ \A u \in Uid : level[u] \in Level
    BY DEF Uid, ControlType
  <2>6. LevelsAreSaid'
    BY <1>1, <2>4, <2>5 DEF LevelsAreSaid
  <2> QED
    BY <1>1, <2>4, <2>6
<1> QED
  BY <1>2, <1>3 DEF Acts

(* What the device does with a stage.  If it obeys a stage that awaits a    *)
(* volume, there is something to be received, or it may be renewed.         *)
SaysVolume(s) == \E i \in DOMAIN s : s[i].kind = "volume"

(* A device that does what a stage asks says it, so that what was said last *)
(* of a level is what it is.                                                *)
LEMMA DeviceObeys ==
    ASSUME ControlInv, NEW stage \in StageSet, Obeys(stage),
           stage.does = "set" => stage.of \in Uid, Promising(stage),
           UNCHANGED <<volume, listed, renewed>>
    PROVE  /\ level' \in [Uid -> Level]
           /\ inbox' \in Seq(Message)
           /\ isOn' \in BOOLEAN
           /\ grouped' \in BOOLEAN
           /\ LevelsAreSaid'
           /\ SaysVolume(inbox) => SaysVolume(inbox')
           /\ stage.awaits = "volume" =>
                 \/ SaysVolume(inbox')
                 \/ stage.does = "set" /\ (stage.to # Rounded(stage.to) \/ stage.of = "own" \/ renewed)
<1> DEFINE Aim == /\ level' \in [Uid -> Level]
                  /\ inbox' \in Seq(Message)
                  /\ isOn' \in BOOLEAN
                  /\ grouped' \in BOOLEAN
                  /\ LevelsAreSaid'
                  /\ SaysVolume(inbox) => SaysVolume(inbox')
<1>1. ControlType /\ LevelsAreSaid
  BY DEF ControlInv
<1>2. /\ level["own"] \in Level
      /\ level["other"] \in Level
      /\ volume \in Level
      /\ {"own", "other"} = Uid
      /\ stage.to \in Level
      /\ stage.does \in Does
      /\ isOn \in BOOLEAN
      /\ grouped \in BOOLEAN
  BY <1>1 DEF ControlType, Uid, StageSet
<1>3. \A u \in Uid : ~ SaysNone(inbox, u) => SaysVolume(inbox)
  BY <1>1, LenProperties DEF SaysNone, IsLevel, SaysVolume, ControlType
<1>4. ASSUME NEW uid \in Uid, NEW to \in Level, SetsLevel(uid, to)
      PROVE  Aim /\ (level[uid] # to => SaysVolume(inbox'))
  <2>1. isOn' = isOn /\ grouped' = grouped
    BY <1>4 DEF SetsLevel
  <2> QED
    BY <1>1, <1>2, <1>4, <2>1, LevelIsSaid DEF SaysVolume
<1>5. ASSUME NEW on \in BOOLEAN, NEW group \in BOOLEAN, Acts(on, group)
      PROVE  Aim
  BY <1>1, <1>5, InfoIsSaid DEF SaysVolume, ControlType
<1>6. CASE stage.does = "tap" /\ stage.of = "volume_up"
  <2> DEFINE to == IF level["own"] + VolumeStep > MaxLevel THEN MaxLevel ELSE level["own"] + VolumeStep
  <2>1. to \in Level /\ (to = level["own"] => to = MaxLevel)
    BY <1>2, Levels DEF Level
  <2>2. SetsLevel("own", to)
    BY <1>6 DEF Obeys
  <2> HIDE DEF to
  <2>3. Aim /\ (level["own"] # to => SaysVolume(inbox'))
    BY <1>2, <1>4, <2>1, <2>2
  <2>4. stage.awaits = "volume" => volume # MaxLevel
    BY <1>6 DEF Promising
  <2>5. level["own"] = MaxLevel /\ volume # MaxLevel => SaysVolume(inbox)
    BY <1>1, <1>2, <1>3, Levels DEF LevelsAreSaid
  <2> QED
    BY <2>1, <2>3, <2>4, <2>5
<1>7. CASE stage.does = "tap" /\ stage.of = "volume_down"
  <2> DEFINE to == IF level["own"] < VolumeStep THEN 0 ELSE level["own"] - VolumeStep
  <2>1. to \in Level /\ (to = level["own"] => to = 0)
    BY <1>2, Levels DEF Level
  <2>2. SetsLevel("own", to)
    BY <1>7 DEF Obeys
  <2> HIDE DEF to
  <2>3. Aim /\ (level["own"] # to => SaysVolume(inbox'))
    BY <1>2, <1>4, <2>1, <2>2
  <2>4. stage.awaits = "volume" => volume # 0
    BY <1>7 DEF Promising
  <2>5. level["own"] = 0 /\ volume # 0 => SaysVolume(inbox)
    BY <1>1, <1>2, <1>3, Levels DEF LevelsAreSaid
  <2> QED
    BY <2>1, <2>3, <2>4, <2>5
<1>8. CASE stage.does = "set"
  <2>1. SetsLevel(stage.of, stage.to)
    BY <1>8 DEF Obeys
  <2>2. Aim /\ (level[stage.of] # stage.to => SaysVolume(inbox'))
    BY <1>2, <1>4, <1>8, <2>1
  <2>3. stage.awaits = "volume" /\ stage.of # "own" =>
           /\ stage.of = "other"
           /\ "other" \in DOMAIN listed
           /\ listed["other"] # stage.to
    BY <1>8 DEF Promising
  <2>4. /\ "other" \in DOMAIN listed
        /\ listed["other"] # stage.to
        /\ level["other"] = stage.to
        /\ stage.to = Rounded(stage.to)
        /\ ~ renewed
        => SaysVolume(inbox)
    BY <1>1, <1>2, <1>3 DEF LevelsAreSaid
  <2> QED
    BY <1>8, <2>2, <2>3, <2>4
<1>9. CASE stage.does = "wake"
  <2>1. Acts(TRUE, grouped)
    BY <1>9 DEF Obeys
  <2> QED
    BY <1>2, <1>5, <1>9, <2>1 DEF Promising
<1>10. CASE stage.does = "tap" /\ stage.of = "select"
  <2>1. PICK on \in {isOn, FALSE} : Acts(on, grouped)
    BY <1>10 DEF Obeys
  <2> QED
    BY <1>2, <1>5, <1>10, <2>1 DEF Promising
<1>11. CASE stage.does = "outputs"
  <2>1. PICK group \in BOOLEAN : Acts(isOn, group)
    BY <1>11 DEF Obeys
  <2> QED
    BY <1>2, <1>5, <1>11, <2>1 DEF Promising
<1>12. CASE ~ \/ stage.does = "tap" /\ stage.of \in {"volume_up", "volume_down", "select"}
              \/ stage.does \in {"set", "wake", "outputs"}
  <2>1. UNCHANGED <<isOn, level, grouped, inbox>>
    BY <1>12 DEF Obeys
  <2>2. LevelsAreSaid'
    BY <1>1, <2>1 DEF LevelsAreSaid
  <2>3. stage.awaits # "volume"
    BY <1>12 DEF Promising
  <2> QED
    BY <1>1, <2>1, <2>2, <2>3 DEF ControlType
<1> QED
  BY <1>6, <1>7, <1>8, <1>9, <1>10, <1>11, <1>12

(* What it takes for a call that awaits w with the program p not to wait in *)
(* vain.                                                                    *)
Fine(w, p, power, ign, said, again) ==
    /\ w = "on" => ~ power
    /\ w = "off" => power
    /\ w = "volume" =>
          \/ ign
          \/ SaysVolume(said)
          \/ /\ Head(p).does = "set"
             /\ Head(p).to # Rounded(Head(p).to) \/ Head(p).of = "own" \/ again

(* NobodyWaitsInVain, one task at a time.                                   *)
LEMMA AllFine ==
    /\ NobodyWaitsInVain <=>
          \A t \in Task : Fine(waits[t], todo[t], powerState, ignored, inbox, renewed)
    /\ NobodyWaitsInVain' <=>
          \A t \in Task : Fine(waits'[t], todo'[t], powerState', ignored', inbox', renewed')
BY DEF NobodyWaitsInVain, Fine, SaysVolume

(* A stage is performed: the call awaits it, or is over.                    *)
LEMMA PerformsKeeps ==
    ASSUME ControlInv, NEW t \in Task,
           NEW program \in Seq(StageSet), program # <<>>, WellFormed(program), Promising(program[1]),
           Performs(t, program), calls' \in 0..MaxCalls, UNCHANGED <<knownVars, stuck>>,
           \A k \in keys : \/ program[1].does = "release" /\ k = program[1].of
                           \/ k \in stuck
                           \/ \E u \in Task \ {t} : waits[u] = "time" /\ Head(todo[u]).of = k
    PROVE  ControlInv'
<1> DEFINE stage == program[1]
           w == Awaits(stage)
<1>1. Head(program) = stage /\ stage \in StageSet
  BY TailOf
<1>2. /\ Tail(program) \in Seq(StageSet)
      /\ WellFormed(Tail(program))
      /\ stage.awaits \notin {"time", "answer"} => Tail(program) = <<>>
      /\ stage.does = "set" => stage.of \in Uid
      /\ stage.does = "press" => stage.awaits = "time"
  BY TailWellFormed
<1>3. /\ keys' = CASE stage.does = "press" -> keys \cup {stage.of}
                   [] stage.does \in {"release", "tap"} -> keys \ {stage.of}
                   [] OTHER -> keys
      /\ \/ Obeys(stage) /\ UNCHANGED ignored
         \/ stage.does # "nothing" /\ ignored' = TRUE /\ UNCHANGED <<isOn, level, grouped, inbox>>
      /\ waits' = [waits EXCEPT ![t] = w]
      /\ todo' = [todo EXCEPT ![t] = IF w = "nothing" THEN Tail(program) ELSE program]
      /\ Promising(stage)
  BY <1>1 DEF Performs
<1>4. stage.does = "press" => stage.of \in Key
  <2>1. Len(program) \in Nat \ {0}
    BY TailOf
  <2>2. 1 \in 1..Len(program)
    BY <2>1
  <2> QED
    BY <2>2 DEF WellFormed
<1> HIDE DEF stage
<1>5. /\ w \in Awaited
      /\ w = "nothing" \/ w = stage.awaits
      /\ w = "nothing" => stage.awaits \notin {"time", "answer"}
      /\ w = "on" => ~ powerState
      /\ w = "off" => powerState
  BY <1>1 DEF Awaits, StageSet, Awaited, ControlInv, ControlType
<1> HIDE DEF w
<1>6. UNCHANGED <<powerState, volume, abilities, listed, renewed, stuck>>
  BY DEF knownVars
<1>7. /\ level' \in [Uid -> Level]
      /\ inbox' \in Seq(Message)
      /\ isOn' \in BOOLEAN
      /\ grouped' \in BOOLEAN
      /\ ignored' \in BOOLEAN
      /\ ignored => ignored'
      /\ LevelsAreSaid'
      /\ SaysVolume(inbox) => SaysVolume(inbox')
      /\ stage.awaits = "volume" =>
            \/ ignored'
            \/ SaysVolume(inbox')
            \/ stage.does = "set" /\ (stage.to # Rounded(stage.to) \/ stage.of = "own" \/ renewed)
  <2>1. CASE Obeys(stage) /\ UNCHANGED ignored
    BY <1>1, <1>2, <1>3, <1>6, <2>1, DeviceObeys DEF ControlInv, ControlType
  <2>2. CASE ignored' = TRUE /\ UNCHANGED <<isOn, level, grouped, inbox>>
    <3>1. LevelsAreSaid'
      BY <1>6, <2>2 DEF ControlInv, LevelsAreSaid
    <3> QED
      BY <2>2, <3>1 DEF ControlInv, ControlType
  <2> QED
    BY <1>3, <2>1, <2>2
<1> DEFINE left == IF w = "nothing" THEN Tail(program) ELSE program
<1>8. /\ left \in Seq(StageSet)
      /\ WellFormed(left)
      /\ w = "nothing" => left = <<>>
      /\ w # "nothing" => left = program /\ left # <<>> /\ w = Head(left).awaits
  BY <1>1, <1>2, <1>5
<1>9. todo' = [todo EXCEPT ![t] = left]
  BY <1>3
<1> HIDE DEF left
<1>10. /\ todo' \in [Task -> Seq(StageSet)]
       /\ waits' \in [Task -> Awaited]
       /\ todo'[t] = left
       /\ waits'[t] = w
       /\ \A u \in Task \ {t} : todo'[u] = todo[u] /\ waits'[u] = waits[u]
  BY <1>3, <1>5, <1>8, <1>9 DEF ControlInv, ControlType
<1>11. keys' \subseteq Key
  BY <1>3, <1>4 DEF ControlInv, ControlType
<1>12. ControlType'
  BY <1>6, <1>7, <1>10, <1>11 DEF ControlInv, ControlType
<1>13. CallsWait'
  BY <1>8, <1>10 DEF ControlInv, CallsWait
<1>14. NobodyWaitsInVain'
  <2>1. Fine(w, left, powerState, ignored', inbox', renewed)
    BY <1>1, <1>5, <1>7, <1>8 DEF Fine
  <2>2. ASSUME NEW u \in Task \ {t}
        PROVE  Fine(waits[u], todo[u], powerState, ignored', inbox', renewed)
    <3>1. Fine(waits[u], todo[u], powerState, ignored, inbox, renewed)
      BY AllFine DEF ControlInv, NothingHangs
    <3> QED
      BY <1>7, <3>1 DEF Fine
  <2>3. \A u \in Task : Fine(waits'[u], todo'[u], powerState', ignored', inbox', renewed')
    BY <1>6, <1>10, <2>1, <2>2
  <2> QED
    BY <2>3, AllFine
<1>15. KeysAreReleased'
  <2>1. ASSUME NEW k \in keys'
        PROVE  k \in stuck' \/ \E u \in Task : waits'[u] = "time" /\ Head(todo'[u]).of = k
    <3>1. CASE stage.does = "press" /\ k = stage.of
      <4>1. waits'[t] = "time" /\ Head(todo'[t]) = stage
        BY <1>1, <1>2, <1>5, <1>8, <1>10, <3>1
      <4> QED
        BY <3>1, <4>1
    <3>2. CASE ~ (stage.does = "press" /\ k = stage.of)
      <4>1. k \in keys /\ ~ (stage.does = "release" /\ k = stage.of)
        BY <1>3, <2>1, <3>2
      <4>2. k \in stuck \/ \E u \in Task \ {t} : waits[u] = "time" /\ Head(todo[u]).of = k
        BY <4>1 DEF stage
      <4> QED
        BY <1>6, <1>10, <4>2
    <3> QED
      BY <3>1, <3>2
  <2> QED
    BY <2>1 DEF KeysAreReleased
<1> QED
  BY <1>7, <1>12, <1>13, <1>14, <1>15 DEF ControlInv, NothingHangs

(* The calls of the tasks of W are over.                                    *)
Over(W) ==
    /\ waits' = [t \in Task |-> IF t \in W THEN "nothing" ELSE waits[t]]
    /\ todo' = [t \in Task |-> IF t \in W THEN <<>> ELSE todo[t]]

(* Tasks that are over leave the others where they were.                    *)
LEMMA OverKeeps ==
    ASSUME ControlType, CallsWait, NEW W, Over(W)
    PROVE  /\ todo' \in [Task -> Seq(StageSet)]
           /\ waits' \in [Task -> Awaited]
           /\ \A t \in Task : IF t \in W THEN waits'[t] = "nothing" /\ todo'[t] = <<>>
                                         ELSE waits'[t] = waits[t] /\ todo'[t] = todo[t]
           /\ CallsWait'
<1>1. <<>> \in Seq(StageSet) /\ "nothing" \in Awaited
  BY DEF Awaited
<1>2. /\ todo' \in [Task -> Seq(StageSet)]
      /\ waits' \in [Task -> Awaited]
      /\ \A t \in Task : IF t \in W THEN waits'[t] = "nothing" /\ todo'[t] = <<>>
                                    ELSE waits'[t] = waits[t] /\ todo'[t] = todo[t]
  BY <1>1 DEF Over, ControlType
<1>3. WellFormed(<<>>)
  <2>1. 1..Len(<<>>) = {}
    OBVIOUS
  <2> QED
    BY <2>1, Zenon DEF WellFormed
<1>4. CallsWait'
  BY <1>2, <1>3 DEF CallsWait
<1> QED
  BY <1>2, <1>4

(* One call ends, by itself, by a failure or because it is cancelled.       *)
LEMMA EndKeeps ==
    ASSUME ControlInv, NEW t \in Task, Over({t}),
           UNCHANGED <<calls, deviceVars, inbox, knownVars, ignored>>,
           stuck \subseteq stuck', stuck' \subseteq Key,
           waits[t] = "time" => Head(todo[t]).of \in stuck' \cup {""}
    PROVE  ControlInv'
<1>1. UNCHANGED <<calls, keys, isOn, level, grouped, inbox, powerState, volume, abilities, listed, renewed, ignored>>
  BY DEF deviceVars, knownVars
<1>2. /\ todo' \in [Task -> Seq(StageSet)]
      /\ waits' \in [Task -> Awaited]
      /\ waits'[t] = "nothing"
      /\ \A u \in Task \ {t} : waits'[u] = waits[u] /\ todo'[u] = todo[u]
      /\ CallsWait'
  BY OverKeeps DEF ControlInv
<1>3. ControlType'
  BY <1>1, <1>2 DEF ControlInv, ControlType
<1>4. LevelsAreSaid'
  BY <1>1 DEF ControlInv, LevelsAreSaid
<1>5. NobodyWaitsInVain'
  <2>1. \A u \in Task : Fine(waits[u], todo[u], powerState, ignored, inbox, renewed)
    BY AllFine DEF ControlInv, NothingHangs
  <2>2. Fine(waits'[t], todo'[t], powerState', ignored', inbox', renewed')
    BY <1>2 DEF Fine
  <2>3. \A u \in Task \ {t} : Fine(waits'[u], todo'[u], powerState', ignored', inbox', renewed')
    BY <1>1, <1>2, <2>1
  <2>4. \A u \in Task : Fine(waits'[u], todo'[u], powerState', ignored', inbox', renewed')
    BY <2>2, <2>3
  <2> QED
    BY <2>4, AllFine
<1>6. KeysAreReleased'
  <2>1. "" \notin keys
    BY DEF ControlInv, ControlType, Key
  <2>2. ASSUME NEW k \in keys
        PROVE  k \in stuck' \/ \E u \in Task : waits'[u] = "time" /\ Head(todo'[u]).of = k
    <3>1. k \in stuck \/ \E u \in Task : waits[u] = "time" /\ Head(todo[u]).of = k
      BY DEF ControlInv, NothingHangs, KeysAreReleased
    <3> QED
      BY <1>2, <2>1, <3>1
  <2> QED
    BY <1>1, <2>2 DEF KeysAreReleased
<1> QED
  BY <1>2, <1>3, <1>4, <1>5, <1>6 DEF ControlInv, NothingHangs

(* A task that is dropped is over.                                          *)
LEMMA DropsIsOver ==
    ASSUME ControlType, NEW t \in Task, NEW then, Drops(t, then)
    PROVE  Over({t})
BY DEF Drops, Over, ControlType

(* A call begins, goes on or ends.                                          *)
LEMMA CallKeeps ==
    ASSUME ControlInv, NEW t \in Task,
           \/ \E program \in Programs : Calls(t, program)
           \/ GoesOn(t)
           \/ WaitFails(t)
           \/ Cancelled(t)
    PROVE  ControlInv'
<1>1. /\ ControlType
      /\ CallsWait
      /\ \A k \in keys : \/ k \in stuck
                         \/ \E u \in Task : waits[u] = "time" /\ Head(todo[u]).of = k
  BY DEF ControlInv, NothingHangs, KeysAreReleased
<1> DEFINE p == todo[t]
<1>2. /\ p \in Seq(StageSet)
      /\ WellFormed(p)
      /\ waits[t] # "nothing" => p # <<>> /\ waits[t] = Head(p).awaits
      /\ calls \in 0..MaxCalls
      /\ stuck \subseteq Key
  BY <1>1 DEF ControlType, CallsWait
<1> HIDE DEF p
<1>3. ASSUME waits[t] # "nothing"
      PROVE  /\ Head(p) = p[1]
             /\ Head(p) \in StageSet
             /\ Tail(p) \in Seq(StageSet)
             /\ Tail(p) = <<>> <=> Len(p) = 1
             /\ WellFormed(Tail(p))
             /\ p[1].does = "press" => /\ Tail(p) # <<>>
                                       /\ Tail(p)[1].does = "release"
                                       /\ Tail(p)[1].of = p[1].of
             /\ Tail(p) # <<>> => Tail(p)[1].awaits # "volume"
             /\ waits[t] = "time" => p[1].does = "press" \/ p[1].of = ""
  BY <1>2, <1>3, TailOf, TailWellFormed
<1>4. ASSUME NEW program \in Programs, Calls(t, program)
      PROVE  ControlInv'
  <2>1. /\ waits[t] = "nothing"
        /\ program # <<>>
        /\ Performs(t, program)
        /\ UNCHANGED <<knownVars, stuck>>
    BY <1>4 DEF Calls, Idle
  <2>2. program \in Seq(StageSet) /\ WellFormed(program) /\ Promising(program[1])
    BY <1>1, <2>1, ProgramIs
  <2>3. calls' \in 0..MaxCalls
    <3>1. calls < MaxCalls /\ calls' = calls + 1
      BY <1>4 DEF Calls
    <3> QED
      BY <1>2, <3>1, ControlAssumption
  <2>4. \A k \in keys : \/ k \in stuck
                        \/ \E u \in Task \ {t} : waits[u] = "time" /\ Head(todo[u]).of = k
    BY <1>1, <2>1
  <2> QED
    BY <2>1, <2>2, <2>3, <2>4, PerformsKeeps
<1>5. CASE GoesOn(t) /\ Len(todo[t]) = 1
  <2>1. /\ waits[t] \in {"time", "answer"}
        /\ Drops(t, "returns")
        /\ UNCHANGED <<calls, deviceVars, inbox, knownVars, ignored, stuck>>
    BY <1>5 DEF GoesOn, Resumes
  <2>2. Tail(p) = <<>>
    BY <1>3, <1>5, <2>1 DEF p
  <2>3. waits[t] = "time" => Head(todo[t]).of = ""
    BY <1>3, <2>1, <2>2 DEF p
  <2> QED
    BY <1>1, <1>2, <2>1, <2>3, DropsIsOver, EndKeeps
<1>6. CASE GoesOn(t) /\ Len(todo[t]) # 1
  <2>1. /\ waits[t] \in {"time", "answer"}
        /\ Performs(t, Tail(p))
        /\ UNCHANGED <<calls, knownVars, stuck>>
    BY <1>6 DEF GoesOn, Resumes, p
  <2>2. Tail(p) # <<>>
    BY <1>3, <1>6, <2>1 DEF p
  <2>3. Promising(Tail(p)[1])
    BY <1>3, <2>1, <2>2 DEF Promising
  <2>4. ASSUME NEW k \in keys
        PROVE  \/ Tail(p)[1].does = "release" /\ k = Tail(p)[1].of
               \/ k \in stuck
               \/ \E u \in Task \ {t} : waits[u] = "time" /\ Head(todo[u]).of = k
    <3>1. k # ""
      BY <1>1 DEF ControlType, Key
    <3>2. waits[t] = "time" /\ Head(todo[t]).of = k =>
             Tail(p)[1].does = "release" /\ k = Tail(p)[1].of
      BY <1>3, <2>1, <3>1 DEF p
    <3> QED
      BY <1>1, <3>2
  <2> QED
    BY <1>2, <1>3, <2>1, <2>2, <2>3, <2>4, PerformsKeeps
<1>7. CASE WaitFails(t)
  <2>1. /\ waits[t] # "time"
        /\ Drops(t, "raises")
        /\ UNCHANGED <<calls, deviceVars, inbox, knownVars, ignored, stuck>>
    BY <1>7 DEF WaitFails
  <2> QED
    BY <1>1, <1>2, <2>1, DropsIsOver, EndKeeps
<1>8. CASE Cancelled(t)
  <2>1. /\ waits[t] # "nothing"
        /\ Drops(t, "raises")
        /\ stuck' = IF Head(p).does = "press" THEN stuck \cup {Head(p).of} ELSE stuck
        /\ UNCHANGED <<calls, deviceVars, inbox, knownVars, ignored>>
    BY <1>8 DEF Cancelled, p
  <2>2. Head(p).does = "press" => Head(p).of \in Key
    <3>1. 1 \in 1..Len(p)
      BY <1>2, <2>1, TailOf
    <3>2. p[1].does = "press" => p[1].of \in Key
      BY <1>2, <3>1 DEF WellFormed
    <3> QED
      BY <1>3, <2>1, <3>2
  <2>3. stuck \subseteq stuck' /\ stuck' \subseteq Key
    BY <1>2, <2>1, <2>2
  <2>4. waits[t] = "time" => Head(todo[t]).of \in stuck' \cup {""}
    <3>1. waits[t] = "time" => Head(p).does = "press" \/ Head(p).of = ""
      BY <1>3, <2>1
    <3> QED
      BY <2>1, <3>1 DEF p
  <2> QED
    BY <1>1, <2>1, <2>3, <2>4, DropsIsOver, EndKeeps
<1> QED
  BY <1>4, <1>5, <1>6, <1>7, <1>8

(* The message that is received is about the volume of one device, or about *)
(* power and the group.  Either wakes those who wait for it.                *)
LEMMA ReceiveKeeps ==
    ASSUME ControlInv, Receives
    PROVE  ControlInv'
<1> DEFINE m == Head(inbox)
<1>1. /\ inbox \in Seq(Message)
      /\ inbox # <<>>
      /\ inbox' = Tail(inbox)
      /\ UNCHANGED <<calls, keys, isOn, level, grouped, ignored, stuck>>
  BY DEF Receives, ControlInv, ControlType, deviceVars
<1>2. /\ m \in Message
      /\ inbox' \in Seq(Message)
      /\ \A u \in Uid, l \in Level :
            /\ SaidLast(inbox, u, l) => SaidLast(inbox', u, l)
            /\ SaidLast(inbox, u, l) /\ SaysNone(inbox', u) /\ IsLevel(m, u) => m.value = l
            /\ SaysNone(inbox', u) /\ ~ IsLevel(m, u) => SaysNone(inbox, u)
      /\ m.kind # "volume" /\ SaysVolume(inbox) => SaysVolume(inbox')
  BY <1>1, SaysLess, TailOf DEF SaysVolume
<1>3. VolumeDidChange(m) \/ DeviceInfoUpdate(m)
  BY DEF Receives
<1> HIDE DEF m
<1>4. /\ ControlType
      /\ CallsWait
      /\ LevelsAreSaid
      /\ {"own", "other"} = Uid
      /\ \A u \in Uid : level[u] \in Level
      /\ \A u \in Task : Fine(waits[u], todo[u], powerState, ignored, inbox, renewed)
  BY AllFine DEF ControlInv, NothingHangs, ControlType, Uid
<1>5. m.value \in Level /\ m.uid \in Uid /\ Rounded(m.value) \in Level
  BY <1>2, Levels DEF Message
<1>6. ASSUME NEW W, Over(W), \A u \in W : waits[u] # "time"
      PROVE  KeysAreReleased'
  <2>1. \A u \in Task : IF u \in W THEN waits'[u] = "nothing" /\ todo'[u] = <<>>
                                   ELSE waits'[u] = waits[u] /\ todo'[u] = todo[u]
    BY <1>4, <1>6, OverKeeps
  <2> QED
    BY <1>1, <1>6, <2>1 DEF KeysAreReleased, ControlInv, NothingHangs
<1>7. CASE VolumeDidChange(m)
  <2> DEFINE W == {u \in Task : waits[u] = "volume"}
  <2>1. /\ m.kind = "volume"
        /\ Over(W)
        /\ UNCHANGED <<powerState, abilities, renewed>>
    BY <1>7 DEF VolumeDidChange, Wakes, Over
  <2>2. \A u \in Task : IF u \in W THEN waits'[u] = "nothing" /\ todo'[u] = <<>>
                                   ELSE waits'[u] = waits[u] /\ todo'[u] = todo[u]
    BY <1>4, <2>1, OverKeeps
  <2>3. /\ todo' \in [Task -> Seq(StageSet)]
        /\ waits' \in [Task -> Awaited]
        /\ CallsWait'
    BY <1>4, <2>1, OverKeeps
  <2>4. ASSUME m.uid = "own" PROVE ControlType' /\ LevelsAreSaid'
    <3>1. volume' = Rounded(m.value) /\ UNCHANGED listed
      BY <1>7, <2>4 DEF VolumeDidChange
    <3>2. IsLevel(m, "own") /\ ~ IsLevel(m, "other")
      BY <2>1, <2>4 DEF IsLevel
    <3>3. ControlType'
      BY <1>1, <1>2, <1>4, <1>5, <2>1, <2>3, <3>1 DEF ControlType
    <3>4. LevelsAreSaid'
      <4>1. \A u \in Uid : SaidLast(inbox', u, level[u])
        BY <1>2, <1>4 DEF LevelsAreSaid
      <4>2. SaysNone(inbox', "own") => volume' = Rounded(level["own"])
        BY <1>2, <1>4, <3>1, <3>2 DEF LevelsAreSaid
      <4>3. SaysNone(inbox', "other") => SaysNone(inbox, "other")
        BY <1>2, <1>4, <3>2
      <4> QED
        BY <1>1, <1>4, <2>1, <3>1, <4>1, <4>2, <4>3 DEF LevelsAreSaid
    <3> QED
      BY <3>3, <3>4
  <2>5. ASSUME m.uid = "other" PROVE ControlType' /\ LevelsAreSaid'
    <3>1. /\ listed' = [u \in DOMAIN listed |-> IF u = "other" THEN Rounded(m.value) ELSE listed[u]]
          /\ UNCHANGED volume
      BY <1>7, <2>5 DEF VolumeDidChange
    <3>2. IsLevel(m, "other") /\ ~ IsLevel(m, "own")
      BY <2>1, <2>5 DEF IsLevel
    <3>3. /\ DOMAIN listed' = DOMAIN listed
          /\ \A u \in DOMAIN listed' : listed'[u] \in Level
          /\ "other" \in DOMAIN listed => listed'["other"] = Rounded(m.value)
      BY <1>4, <1>5, <3>1 DEF ControlType
    <3>4. ControlType'
      BY <1>1, <1>2, <1>4, <2>1, <2>3, <3>1, <3>3 DEF ControlType
    <3>5. LevelsAreSaid'
      <4>1. \A u \in Uid : SaidLast(inbox', u, level[u])
        BY <1>2, <1>4 DEF LevelsAreSaid
      <4>2. SaysNone(inbox', "other") => m.value = level["other"]
        BY <1>2, <1>4, <3>2 DEF LevelsAreSaid
      <4>3. SaysNone(inbox', "own") => SaysNone(inbox, "own")
        BY <1>2, <1>4, <3>2
      <4> QED
        BY <1>1, <1>4, <2>1, <3>1, <3>3, <4>1, <4>2, <4>3 DEF LevelsAreSaid
    <3> QED
      BY <3>4, <3>5
  <2>6. ControlType' /\ LevelsAreSaid'
    BY <1>4, <1>5, <2>4, <2>5
  <2>7. \A u \in Task : Fine(waits'[u], todo'[u], powerState', ignored', inbox', renewed')
    BY <1>1, <1>4, <2>1, <2>2 DEF Fine
  <2>8. KeysAreReleased'
    BY <1>6, <2>1
  <2> QED
    BY <2>3, <2>6, <2>7, <2>8, AllFine DEF ControlInv, NothingHangs
<1>8. CASE DeviceInfoUpdate(m)
  <2> DEFINE W == {u \in Task : waits[u] \in {IF powerState' THEN "on" ELSE "off", "outputs"}}
  <2>1. /\ m.kind = "info"
        /\ powerState' = (m.value = 1)
        /\ listed' = [u \in IF m.uid = "other" THEN Uid ELSE {"own"} |-> 0]
        /\ renewed' = TRUE
        /\ Over(W)
        /\ UNCHANGED <<volume, abilities>>
    BY <1>8 DEF DeviceInfoUpdate, Over
  <2>2. \A u \in Task : IF u \in W THEN waits'[u] = "nothing" /\ todo'[u] = <<>>
                                   ELSE waits'[u] = waits[u] /\ todo'[u] = todo[u]
    BY <1>4, <2>1, OverKeeps
  <2>3. /\ todo' \in [Task -> Seq(StageSet)]
        /\ waits' \in [Task -> Awaited]
        /\ CallsWait'
    BY <1>4, <2>1, OverKeeps
  <2>4. powerState' \in BOOLEAN
    BY <2>1
  <2>5. DOMAIN listed' \subseteq Uid /\ \A u \in DOMAIN listed' : listed'[u] \in Level
    BY <1>4, <2>1, Levels
  <2>6. ControlType'
    BY <1>1, <1>2, <1>4, <2>1, <2>3, <2>4, <2>5 DEF ControlType
  <2>7. \A u \in Uid : ~ IsLevel(m, u)
    BY <2>1 DEF IsLevel
  <2>8. LevelsAreSaid'
    <3>1. \A u \in Uid : SaidLast(inbox', u, level[u])
      BY <1>2, <1>4 DEF LevelsAreSaid
    <3>2. SaysNone(inbox', "own") => SaysNone(inbox, "own")
      BY <1>2, <1>4, <2>7
    <3> QED
      BY <1>1, <1>4, <2>1, <3>1, <3>2 DEF LevelsAreSaid
  <2>9. ASSUME NEW u \in Task
        PROVE  Fine(waits'[u], todo'[u], powerState', ignored', inbox', renewed')
    <3>1. Fine(waits[u], todo[u], powerState, ignored, inbox, renewed)
      BY <1>4
    <3>2. m.kind # "volume" /\ (SaysVolume(inbox) => SaysVolume(inbox'))
      BY <1>2, <2>1
    <3>3. CASE u \in W
      BY <2>2, <3>3 DEF Fine
    <3>4. CASE u \notin W
      <4>1. waits'[u] = waits[u] /\ todo'[u] = todo[u]
        BY <2>2, <3>4
      <4>2. (powerState' => waits[u] # "on") /\ (~ powerState' => waits[u] # "off")
        BY <3>4
      <4> QED
        BY <1>1, <2>1, <3>1, <3>2, <4>1, <4>2 DEF Fine
    <3> QED
      BY <3>3, <3>4
  <2>10. \A u \in W : waits[u] # "time"
    OBVIOUS
  <2>11. KeysAreReleased'
    BY <1>6, <2>1, <2>10
  <2> QED
    BY <2>3, <2>6, <2>8, <2>9, <2>11, AllFine DEF ControlInv, NothingHangs
<1> QED
  BY <1>3, <1>7, <1>8

(* No operation has begun and nothing was said.                             *)
LEMMA ControlInvInit == ControlInit => ControlInv
<1> SUFFICES ASSUME ControlInit PROVE ControlInv
  OBVIOUS
<1>1. <<>> \in Seq(StageSet) /\ <<>> \in Seq(Message) /\ 1..Len(<<>>) = {}
  OBVIOUS
<1>2. \A t \in Task : todo[t] = <<>> /\ waits[t] = "nothing"
  BY DEF ControlInit
<1>3. {"own", "other"} = Uid /\ \A u \in Uid : level[u] = 0
  BY DEF ControlInit, Uid
<1>4. DOMAIN listed \subseteq Uid /\ \A u \in DOMAIN listed : listed[u] = 0
  BY <1>3 DEF ControlInit
<1>5. ControlType
  <2>1. calls \in 0..MaxCalls
    BY ControlAssumption DEF ControlInit
  <2>2. todo \in [Task -> Seq(StageSet)] /\ waits \in [Task -> Awaited]
    BY <1>1 DEF ControlInit, Awaited
  <2>3. level \in [Uid -> Level] /\ volume \in Level /\ \A u \in DOMAIN listed : listed[u] \in Level
    BY <1>4, Levels DEF ControlInit
  <2>4. isOn \in BOOLEAN /\ grouped \in BOOLEAN /\ powerState \in BOOLEAN
        /\ renewed \in BOOLEAN /\ ignored \in BOOLEAN
    BY DEF ControlInit
  <2>5. keys \subseteq Key /\ stuck \subseteq Key /\ inbox \in Seq(Message) /\ abilities \in Ability
    BY <1>1 DEF ControlInit
  <2> QED
    BY <1>4, <2>1, <2>2, <2>3, <2>4, <2>5 DEF ControlType
<1>6. CallsWait
  BY <1>1, <1>2, Zenon DEF CallsWait, WellFormed
<1>7. LevelsAreSaid
  <2>1. 1..Len(inbox) = {}
    BY <1>1 DEF ControlInit
  <2>2. \A u \in Uid : SaidLast(inbox, u, level[u])
    BY <2>1, Zenon DEF SaidLast
  <2>3. volume = Rounded(level["own"])
    BY <1>3, Levels DEF ControlInit
  <2>4. "other" \in DOMAIN listed => listed["other"] = Rounded(level["other"])
    BY <1>3, <1>4, Levels
  <2> QED
    BY <2>2, <2>3, <2>4 DEF LevelsAreSaid
<1>8. NothingHangs
  BY <1>2, AllFine DEF NothingHangs, KeysAreReleased, Fine, ControlInit
<1> QED
  BY <1>5, <1>6, <1>7, <1>8 DEF ControlInv

(* Every step of the operations keeps the invariant.                        *)
LEMMA ControlInvStep == ControlInv /\ [ControlNext]_controlVars => ControlInv'
<1> SUFFICES ASSUME ControlInv, [ControlNext]_controlVars PROVE ControlInv'
  OBVIOUS
<1>1. CASE \E t \in Task : \/ \E program \in Programs : Calls(t, program)
                           \/ GoesOn(t)
                           \/ WaitFails(t)
                           \/ Cancelled(t)
  BY <1>1, CallKeeps
<1>2. CASE Receives
  BY <1>2, ReceiveKeeps
<1>3. CASE AbilitiesChange \/ UNCHANGED controlVars
  <2>1. /\ UNCHANGED <<todo, waits, calls, keys, isOn, level, grouped, inbox>>
        /\ UNCHANGED <<powerState, volume, listed, renewed, ignored, stuck>>
        /\ abilities' \in Ability
    BY <1>3 DEF AbilitiesChange, controlVars, deviceVars, knownVars, ControlInv, ControlType
  <2>2. ControlType'
    BY <2>1 DEF ControlInv, ControlType
  <2>3. CallsWait' /\ LevelsAreSaid'
    BY <2>1 DEF ControlInv, CallsWait, LevelsAreSaid
  <2>4. NothingHangs'
    BY <2>1 DEF ControlInv, NothingHangs, NobodyWaitsInVain, KeysAreReleased
  <2> QED
    BY <2>2, <2>3, <2>4 DEF ControlInv
<1> QED
  BY <1>1, <1>2, <1>3 DEF ControlNext

(* The invariant of the operations, for every behaviour of MRP.             *)
LEMMA ControlInvariance == MrpSpec => []ControlInv
<1>1. MrpInit => ControlInv
  BY PartsInit, ControlInvInit
<1>2. ControlInv /\ [MrpNext]_mrpVars => ControlInv'
  BY PartsStep, ControlInvStep
<1> QED
  BY <1>1, <1>2, PTL DEF MrpSpec

(* For any number of tasks, levels and volume steps: no operation waits for *)
(* what will not come, and a key is down only while the operation that      *)
(* releases it goes on.                                                     *)
THEOREM OperationsComeBack == MrpSpec => []NothingHangs
<1>1. ControlInv => NothingHangs
  BY DEF ControlInv
<1> QED
  BY <1>1, ControlInvariance, PTL

-----------------------------------------------------------------------------
(* Artwork.                                                                 *)
(* Items, what artwork is kept under, and what a call holds.                *)
ArtItem == [track : Track, url : Track \cup {Nothing}]
ArtId == [by : {"template", "content", "item"}, track : Track]
Fetching ==
    [pc : {"remote", "local"}, id : ArtId, urls : Seq(Track), since : Nat, at : ArtItem \cup {Nothing}]
ReaderState ==
    {Rests} \cup [pc : {"catalog", "index"}, track : Track]
            \cup [pc : {"sitemap"}, track : Track, left : 1..NumSitemaps]
            \cup [pc : {"show", "page"}, track : Track, known : SUBSET Track]
            \cup Fetching
Entry == [id : ArtId, of : Track \cup {Nothing}, from : {"url", "device"}, late : BOOLEAN]

SharedType ==
    /\ says \in [Track -> Fields]
    /\ DOMAIN catalog \subseteq Track
    /\ \A t \in DOMAIN catalog : catalog[t] \in {t, Nothing}
    /\ index \in [known : SUBSET Track, loaded : BOOLEAN, lock : Reader \cup {Nothing}]
    /\ show = [urls |-> show.urls, loaded |-> show.loaded, lock |-> show.lock]
    /\ show.loaded \in BOOLEAN /\ show.lock \in Reader \cup {Nothing}
    /\ DOMAIN show.urls \subseteq Track
    /\ \A t \in DOMAIN show.urls : show.urls[t] \in Track
    /\ count \in [asks : Nat, changes : Nat, loads : Nat, cut : Nat]

(* The index is downloaded under its lock, and is loaded when it is given   *)
(* up, unless the download was cut; a page is parsed once.                  *)
Locks ==
    /\ index.loaded => index.lock = Nothing
    /\ show.loaded \/ DOMAIN show.urls = {}
    /\ count.loads = count.cut + IF index.loaded \/ index.lock # Nothing THEN 1 ELSE 0

ArtType ==
    /\ plays \in ArtItem \cup {Nothing}
    /\ artworkCache \in Seq(Entry)
    /\ reader \in [Reader -> ReaderState]

(* A URL of an item: its own, one the page gives it or one that was written *)
(* to it late.                                                              *)
UrlIs(t, u, urls, lt) ==
    \/ u = t
    \/ <<t, u>> \in lt
    \/ t \in DOMAIN urls /\ urls[t] = u

HasItsUrl(it, urls, lt) ==
    it # Nothing /\ it.url # Nothing => UrlIs(it.track, it.url, urls, lt)

(* A call that fetches has URLs of the item it began with, which plays yet  *)
(* unless what plays has changed since; one that downloads has the lock.    *)
ReaderOk(r, s, it, changes, sh, ix, lt) ==
    /\ s.pc = "remote" =>
          /\ s.urls # <<>>
          /\ \A i \in DOMAIN s.urls : UrlIs(s.id.track, s.urls[i], sh.urls, lt)
    /\ s.pc \in {"remote", "local"} =>
          /\ s.since <= changes
          /\ s.since = changes =>
                /\ it # Nothing /\ it.track = s.id.track
                /\ s.at = Nothing \/ s.at.track = s.id.track
    /\ s.pc = "sitemap" => ix.lock = r
    /\ s.pc = "page" => sh.lock = r /\ ~ sh.loaded

EntryOk(e, urls, lt) ==
    \/ e.of \in {Nothing, e.id.track}
    \/ e.from = "url" /\ UrlIs(e.id.track, e.of, urls, lt)
    \/ e.from = "device" /\ e.late

ArtInv ==
    /\ SharedType /\ Locks /\ ArtType
    /\ HasItsUrl(plays, show.urls, late)
    /\ \A r \in Reader : ReaderOk(r, reader[r], plays, count.changes, show, index, late)
    /\ \A e \in ToSet(artworkCache) : EntryOk(e, show.urls, late)

-----------------------------------------------------------------------------
(* What a step of one call does to the rest.                                *)
PlaysMoves ==
    /\ late \subseteq late'
    /\ plays' \in ArtItem \cup {Nothing}
    /\ plays' = Nothing <=> plays = Nothing
    /\ plays # Nothing => plays'.track = plays.track
    /\ HasItsUrl(plays', show'.urls, late')

ReaderMoves(r) ==
    \E s \in ReaderState : /\ ReaderOk(r, s, plays', count.changes, show', index', late')
                           /\ reader' = [reader EXCEPT ![r] = s]

CacheMoves ==
    /\ artworkCache' \in Seq(Entry)
    /\ \A e \in ToSet(artworkCache') : e \in ToSet(artworkCache) \/ EntryOk(e, show'.urls, late')

ShowMoves(r) ==
    /\ show' = [urls |-> show'.urls, loaded |-> show'.loaded, lock |-> show'.lock]
    /\ show'.loaded \in BOOLEAN /\ show'.lock \in Reader \cup {Nothing}
    /\ DOMAIN show'.urls \subseteq Track
    /\ \A t \in DOMAIN show'.urls : show'.urls[t] \in Track
    /\ show'.loaded \/ DOMAIN show'.urls = {}
    /\ show'.urls = show.urls \/ DOMAIN show.urls = {}
    /\ show'.lock # show.lock \/ show'.loaded # show.loaded => show.lock \in {Nothing, r}

IndexMoves(r) ==
    /\ index' \in [known : SUBSET Track, loaded : BOOLEAN, lock : Reader \cup {Nothing}]
    /\ count' \in [asks : Nat, changes : Nat, loads : Nat, cut : Nat]
    /\ index'.loaded => index'.lock = Nothing
    /\ count'.loads = count'.cut + IF index'.loaded \/ index'.lock # Nothing THEN 1 ELSE 0
    /\ count'.changes = count.changes
    /\ index'.lock # index.lock => index.lock \in {Nothing, r}

CatalogMoves ==
    /\ UNCHANGED says
    /\ DOMAIN catalog' \subseteq Track
    /\ \A t \in DOMAIN catalog' : catalog'[t] \in {t, Nothing}

SharedMoves(r) == ShowMoves(r) /\ IndexMoves(r) /\ CatalogMoves

(* A URL of an item stays one.                                              *)
LEMMA UrlStays ==
    ASSUME NEW t, NEW u, NEW urls, NEW more, NEW lt, NEW after,
           UrlIs(t, u, urls, lt), lt \subseteq after, more = urls \/ DOMAIN urls = {}
    PROVE  UrlIs(t, u, more, after)
BY DEF UrlIs

(* A step of one call keeps what the others hold.                           *)
LEMMA MovesKeep ==
    ASSUME ArtInv, NEW r \in Reader, PlaysMoves, ReaderMoves(r), CacheMoves, SharedMoves(r)
    PROVE  ArtInv'
<1>1. SharedType' /\ Locks'
  BY DEF SharedMoves, ShowMoves, IndexMoves, CatalogMoves, SharedType, Locks, ArtInv
<1>2. PICK s \in ReaderState : /\ ReaderOk(r, s, plays', count.changes, show', index', late')
                               /\ reader' = [reader EXCEPT ![r] = s]
  BY DEF ReaderMoves
<1>3. ArtType'
  BY <1>2 DEF ArtInv, ArtType, PlaysMoves, CacheMoves
<1>4. HasItsUrl(plays', show'.urls, late')
  BY DEF PlaysMoves
<1>5. count'.changes = count.changes
  BY DEF SharedMoves, IndexMoves, ShowMoves
<1>6. ASSUME NEW d \in Reader
      PROVE  ReaderOk(d, reader'[d], plays', count'.changes, show', index', late')
  <2>1. CASE d = r
    <3>1. reader'[d] = s
      BY <1>2, <2>1 DEF ArtInv, ArtType
    <3> QED
      BY <1>2, <1>5, <2>1, <3>1
  <2>2. CASE d # r
    <3>1. reader'[d] = reader[d]
      BY <1>2, <2>2 DEF ArtInv, ArtType
    <3>2. ReaderOk(d, reader[d], plays, count.changes, show, index, late)
      BY DEF ArtInv
    <3>3. Nothing \notin Reader
      BY ArtworkAssumption
    <3>4. reader[d].pc = "sitemap" => index'.lock = d
      BY <2>2, <3>2, <3>3 DEF ReaderOk, SharedMoves, IndexMoves, ShowMoves
    <3>5. reader[d].pc = "page" => show'.lock = d /\ ~ show'.loaded
      BY <2>2, <3>2, <3>3 DEF ReaderOk, SharedMoves, IndexMoves, ShowMoves
    <3>6. \A i \in DOMAIN reader[d].urls :
             UrlIs(reader[d].id.track, reader[d].urls[i], show.urls, late)
               => UrlIs(reader[d].id.track, reader[d].urls[i], show'.urls, late')
      BY UrlStays DEF SharedMoves, IndexMoves, ShowMoves, PlaysMoves
    <3> QED
      BY <1>5, <3>1, <3>2, <3>4, <3>5, <3>6 DEF ReaderOk, PlaysMoves
  <2> QED
    BY <2>1, <2>2
<1>7. ASSUME NEW e \in ToSet(artworkCache') PROVE EntryOk(e, show'.urls, late')
  <2>1. e \in ToSet(artworkCache) => EntryOk(e, show.urls, late)
    BY DEF ArtInv
  <2>2. EntryOk(e, show.urls, late) => EntryOk(e, show'.urls, late')
    BY UrlStays DEF EntryOk, SharedMoves, IndexMoves, ShowMoves, PlaysMoves
  <2> QED
    BY <2>1, <2>2 DEF CacheMoves
<1> QED
  BY <1>1, <1>3, <1>4, <1>6, <1>7 DEF ArtInv

-----------------------------------------------------------------------------
(* The cache.                                                               *)
LEMMA Members ==
    ASSUME NEW S, NEW q \in Seq(S), NEW e
    PROVE  e \in ToSet(q) <=> \E i \in 1..Len(q) : q[i] = e
BY DEF ToSet

(* What is in a sequence without one of its elements was in it.             *)
LEMMA Removed ==
    ASSUME NEW S, NEW q \in Seq(S), NEW i \in 1..Len(q)
    PROVE  RemoveAt(q, i) \in Seq(S) /\ ToSet(RemoveAt(q, i)) \subseteq ToSet(q)
<1> DEFINE front == SubSeq(q, 1, i - 1)
           back == SubSeq(q, i + 1, Len(q))
<1>1. Len(q) \in Nat /\ i - 1 \in 0..Len(q) /\ i + 1 \in 1..(Len(q) + 1)
  OBVIOUS
<1>2. front \in Seq(S) /\ back \in Seq(S)
  OBVIOUS
<1>3. \A k \in 1..Len(front) : front[k] \in ToSet(q)
  BY <1>1 DEF ToSet
<1>4. \A k \in 1..Len(back) : back[k] \in ToSet(q)
  BY <1>1 DEF ToSet
<1> HIDE DEF front, back
<1>5. /\ front \o back \in Seq(S)
      /\ Len(front \o back) = Len(front) + Len(back)
      /\ \A k \in 1..(Len(front) + Len(back)) :
            (front \o back)[k] = IF k <= Len(front) THEN front[k] ELSE back[k - Len(front)]
  BY <1>2, ConcatProperties, Zenon
<1> DEFINE all == front \o back
           m == Len(front)
           n == Len(back)
<1>6. m \in Nat /\ n \in Nat
  BY <1>2
<1> HIDE DEF all, m, n
<1>7. ASSUME NEW k \in 1..(m + n) PROVE all[k] \in ToSet(q)
  <2>1. CASE k <= m
    <3>1. k \in 1..m
      BY <1>6, <2>1
    <3>2. all[k] = front[k]
      BY <1>5, <1>7, <2>1 DEF all, m, n
    <3> QED
      BY <1>3, <3>1, <3>2 DEF m
  <2>2. CASE ~ (k <= m)
    <3>1. k - m \in 1..n
      BY <1>6, <2>2
    <3>2. all[k] = back[k - m]
      BY <1>5, <1>7, <2>2 DEF all, m, n
    <3> QED
      BY <1>4, <3>1, <3>2 DEF n
  <2> QED
    BY <2>1, <2>2
<1>8. all \in Seq(S) /\ Len(all) = m + n
  BY <1>5 DEF all, m, n
<1>9. ToSet(all) \subseteq ToSet(q)
  BY <1>7, <1>8, Members
<1> QED
  BY <1>8, <1>9 DEF RemoveAt, all, front, back

(* Appending to a sequence, and to its tail.                                *)
LEMMA Appended ==
    ASSUME NEW S, NEW q \in Seq(S), NEW e \in S
    PROVE  Append(q, e) \in Seq(S) /\ ToSet(Append(q, e)) \subseteq ToSet(q) \cup {e}
<1>1. Append(q, e) \in Seq(S) /\ Len(Append(q, e)) = Len(q) + 1 /\ Len(q) \in Nat
  OBVIOUS
<1>2. \A i \in 1..(Len(q) + 1) : Append(q, e)[i] = e \/ (i \in 1..Len(q) /\ Append(q, e)[i] = q[i])
  OBVIOUS
<1>3. ASSUME NEW x \in ToSet(Append(q, e)) PROVE x \in ToSet(q) \cup {e}
  <2>1. PICK i \in 1..Len(Append(q, e)) : Append(q, e)[i] = x
    BY <1>1, Members
  <2>2. x = e \/ (i \in 1..Len(q) /\ q[i] = x)
    BY <1>1, <1>2, <2>1
  <2> QED
    BY <2>2, Members
<1> QED
  BY <1>1, <1>3

(* A sequence without its first element.                                    *)
LEMMA WithoutHead ==
    ASSUME NEW S, NEW q \in Seq(S), q # <<>>
    PROVE  /\ Tail(q) \in Seq(S) /\ Len(Tail(q)) = Len(q) - 1
           /\ Head(q) = q[1] /\ Head(q) \in S /\ 1 \in DOMAIN q
           /\ \A i \in DOMAIN Tail(q) : i + 1 \in DOMAIN q /\ Tail(q)[i] = q[i + 1]
           /\ ToSet(Tail(q)) \subseteq ToSet(q)
<1>1. /\ Tail(q) \in Seq(S) /\ Len(Tail(q)) = Len(q) - 1
      /\ Len(q) \in Nat \ {0}
      /\ DOMAIN Tail(q) = 1..(Len(q) - 1) /\ DOMAIN q = 1..Len(q)
      /\ \A i \in 1..(Len(q) - 1) : i + 1 \in 1..Len(q) /\ Tail(q)[i] = q[i + 1]
      /\ Head(q) = q[1] /\ Head(q) \in S
  OBVIOUS
<1>2. ToSet(Tail(q)) \subseteq ToSet(q)
  BY <1>1 DEF ToSet
<1> QED
  BY <1>1, <1>2

(* The entries besides that of an identifier, and that one.                 *)
LEMMA OthersAre ==
    ASSUME ArtInv, NEW id
    PROVE  /\ Others(id) \in Seq(Entry) /\ ToSet(Others(id)) \subseteq ToSet(artworkCache)
           /\ IsCached(id) => /\ artworkCache[At(id)] \in Entry
                              /\ artworkCache[At(id)] \in ToSet(artworkCache)
<1>1. artworkCache \in Seq(Entry) /\ DOMAIN artworkCache = 1..Len(artworkCache)
  BY DEF ArtInv, ArtType
<1>2. CASE IsCached(id)
  <2>1. At(id) \in 1..Len(artworkCache)
    BY <1>1, <1>2, Zenon DEF IsCached, At
  <2>2. /\ RemoveAt(artworkCache, At(id)) \in Seq(Entry)
        /\ ToSet(RemoveAt(artworkCache, At(id))) \subseteq ToSet(artworkCache)
    BY <1>1, <2>1, Removed
  <2>3. artworkCache[At(id)] \in Entry
    BY <1>1, <2>1
  <2>4. artworkCache[At(id)] \in ToSet(artworkCache)
    BY <1>1, <2>1, Members
  <2> QED
    BY <1>2, <2>2, <2>3, <2>4 DEF Others
<1>3. CASE ~ IsCached(id)
  BY <1>1, <1>3 DEF Others
<1> QED
  BY <1>2, <1>3

(* The cache has what it had, or the entry it was given as well.            *)
LEMMA TouchedHas ==
    ASSUME ArtInv, NEW id, IsCached(id)
    PROVE  Touched(id) \in Seq(Entry) /\ ToSet(Touched(id)) \subseteq ToSet(artworkCache)
<1>1. /\ Touched(id) \in Seq(Entry)
      /\ ToSet(Touched(id)) \subseteq ToSet(Others(id)) \cup {artworkCache[At(id)]}
  BY OthersAre, Appended DEF Touched
<1> QED
  BY <1>1, OthersAre

(* An entry of the cache is there under its identifier.                     *)
LEMMA CachedHas ==
    ASSUME ArtInv, NEW e \in Entry
    PROVE  Cached(e) \in Seq(Entry) /\ ToSet(Cached(e)) \subseteq ToSet(artworkCache) \cup {e}
<1>1. CASE ~ IsCached(e.id) /\ Len(artworkCache) >= CacheLimit
  <2>1. artworkCache \in Seq(Entry) /\ artworkCache # <<>>
    <3>1. artworkCache \in Seq(Entry)
      BY DEF ArtInv, ArtType
    <3>2. Len(artworkCache) > 0
      BY <1>1, <3>1, ArtworkAssumption
    <3> QED
      BY <3>1, <3>2
  <2>2. Tail(artworkCache) \in Seq(Entry) /\ ToSet(Tail(artworkCache)) \subseteq ToSet(artworkCache)
    BY <2>1, WithoutHead
  <2>3. Cached(e) = Append(Tail(artworkCache), e)
    BY <1>1 DEF Cached
  <2>4. /\ Append(Tail(artworkCache), e) \in Seq(Entry)
        /\ ToSet(Append(Tail(artworkCache), e)) \subseteq ToSet(Tail(artworkCache)) \cup {e}
    BY <2>2, Appended
  <2> QED
    BY <2>2, <2>3, <2>4
<1>2. CASE ~ (~ IsCached(e.id) /\ Len(artworkCache) >= CacheLimit)
  <2>1. Cached(e) = Append(Others(e.id), e)
    BY <1>2 DEF Cached
  <2>2. Others(e.id) \in Seq(Entry) /\ ToSet(Others(e.id)) \subseteq ToSet(artworkCache)
    BY OthersAre
  <2> QED
    BY <2>1, <2>2, Appended
<1> QED
  BY <1>1, <1>2

-----------------------------------------------------------------------------
(* The URLs of an item that are asked for.                                  *)
LEMMA UrlsAre ==
    ASSUME NEW it \in ArtItem
    PROVE  /\ Urls(it) \in Seq(Track)
           /\ \A i \in DOMAIN Urls(it) :
                 \/ Urls(it)[i] = it.track
                 \/ it.url # Nothing /\ Urls(it)[i] = it.url
<1> DEFINE a == it.track
           b == it.url
<1>1. a \in Track /\ b \in Track \cup {Nothing}
  BY DEF ArtItem
<1>2. Urls(it) = (IF Reports(it, "template") THEN <<a>> ELSE <<>>) \o (IF b # Nothing THEN <<b>> ELSE <<>>)
  BY DEF Urls
<1> HIDE DEF a, b
<1>3. CASE Reports(it, "template") /\ b # Nothing
  <2>1. /\ <<a>> \in Seq(Track) /\ <<b>> \in Seq(Track)
        /\ Len(<<a>>) = 1 /\ Len(<<b>>) = 1 /\ <<a>>[1] = a /\ <<b>>[1] = b
    BY <1>1, <1>3
  <2>2. Urls(it) = <<a>> \o <<b>>
    BY <1>2, <1>3
  <2>3. /\ <<a>> \o <<b>> \in Seq(Track)
        /\ Len(<<a>> \o <<b>>) = Len(<<a>>) + Len(<<b>>)
        /\ \A i \in 1..(Len(<<a>>) + Len(<<b>>)) :
              (<<a>> \o <<b>>)[i] = IF i <= Len(<<a>>) THEN <<a>>[i] ELSE <<b>>[i - Len(<<a>>)]
    BY <2>1, ConcatProperties, Zenon
  <2>4. \A i \in 1..2 : i = 1 \/ (i = 2 /\ i - 1 = 1 /\ ~ (i <= 1))
    OBVIOUS
  <2> DEFINE q == <<a>> \o <<b>>
  <2>5. Len(q) = 2 /\ \A i \in 1..2 : q[i] = IF i <= 1 THEN <<a>>[i] ELSE <<b>>[i - 1]
    BY <2>1, <2>3
  <2>6. \A i \in 1..2 : q[i] = a \/ q[i] = b
    BY <2>1, <2>4, <2>5
  <2> HIDE DEF q
  <2>7. q \in Seq(Track) /\ Urls(it) = q
    BY <2>2, <2>3 DEF q
  <2> QED
    BY <1>3, <2>5, <2>6, <2>7 DEF a, b
<1>4. CASE Reports(it, "template") /\ b = Nothing
  <2>1. Urls(it) = <<a>>
    BY <1>2, <1>4
  <2> QED
    BY <1>1, <2>1 DEF a, b
<1>5. CASE ~ Reports(it, "template") /\ b # Nothing
  <2>1. Urls(it) = <<b>>
    BY <1>2, <1>5
  <2> QED
    BY <1>1, <1>5, <2>1 DEF a, b
<1>6. CASE ~ Reports(it, "template") /\ b = Nothing
  <2>1. Urls(it) = <<>>
    BY <1>2, <1>6
  <2> QED
    BY <2>1
<1> QED
  BY <1>3, <1>4, <1>5, <1>6

(* Where a call is that found out what plays: it returned or fetches.       *)
Looked(s, it, changes, urls, lt) ==
    /\ s \in ReaderState /\ s.pc \in {"idle", "remote", "local"}
    /\ s.pc = "remote" =>
          /\ s.urls # <<>>
          /\ \A i \in DOMAIN s.urls : UrlIs(s.id.track, s.urls[i], urls, lt)
    /\ s.pc # "idle" =>
          s.since = changes /\ it # Nothing /\ it.track = s.id.track /\ s.at = it

(* A call at rest.                                                          *)
LEMMA RestsIs == Rests \in ReaderState /\ Rests.pc = "idle"
BY DEF Rests, ReaderState

(* A fetch of URLs of the item that plays.                                  *)
LEMMA FetchIs ==
    ASSUME NEW id \in ArtId, NEW q \in Seq(Track), NEW n \in Nat, NEW at \in ArtItem \cup {Nothing}
    PROVE  LET s == Fetch(id, q, n, at)
           IN  /\ s \in Fetching /\ s \in ReaderState
               /\ s.pc = "remote" => s.urls # <<>>
               /\ s.urls = q /\ s.id = id /\ s.since = n /\ s.at = at
BY DEF Fetch, Fetching, ReaderState

(* A call looks what plays, and returns from the cache or fetches.          *)
LEMMA LooksKeep ==
    ASSUME ArtInv, NEW r \in Reader, NEW it \in ArtItem \cup {Nothing}, LooksAt(r, it),
           NEW urls, NEW lt, HasItsUrl(it, urls, lt)
    PROVE  /\ artworkCache' \in Seq(Entry) /\ ToSet(artworkCache') \subseteq ToSet(artworkCache)
           /\ \E s : Looked(s, it, count.changes, urls, lt) /\ reader' = [reader EXCEPT ![r] = s]
<1>1. artworkCache \in Seq(Entry) /\ count.changes \in Nat
  BY DEF ArtInv, ArtType, SharedType
<1>2. ASSUME reader' = [reader EXCEPT ![r] = Rests]
      PROVE  \E s : Looked(s, it, count.changes, urls, lt) /\ reader' = [reader EXCEPT ![r] = s]
  BY <1>2, RestsIs DEF Looked
<1>3. CASE ~ HasArtwork(it) /\ Returns(r) /\ UNCHANGED artworkCache
  BY <1>1, <1>2, <1>3 DEF Returns, Goes
<1>4. CASE /\ HasArtwork(it) /\ IsCached(ArtworkId(it))
           /\ artworkCache' = Touched(ArtworkId(it)) /\ Returns(r)
  BY <1>2, <1>4, TouchedHas DEF Returns, Goes
<1>5. CASE /\ HasArtwork(it) /\ ~ IsCached(ArtworkId(it))
           /\ Goes(r, Fetch(ArtworkId(it), Urls(it), count.changes, it))
           /\ UNCHANGED artworkCache
  <2> DEFINE s == Fetch(ArtworkId(it), Urls(it), count.changes, it)
  <2>1. it \in ArtItem /\ it # Nothing
    BY <1>5 DEF HasArtwork
  <2>2. ArtworkId(it) \in ArtId /\ ArtworkId(it).track = it.track
    BY <2>1 DEF ArtworkId, ArtId, ArtItem
  <2>3. /\ s \in ReaderState /\ s \in Fetching
        /\ s.pc = "remote" => s.urls # <<>>
        /\ s.urls = Urls(it) /\ s.id = ArtworkId(it) /\ s.since = count.changes /\ s.at = it
    BY <1>1, <2>1, <2>2, UrlsAre, FetchIs
  <2>4. \A i \in DOMAIN Urls(it) : UrlIs(it.track, Urls(it)[i], urls, lt)
    BY <2>1, UrlsAre DEF HasItsUrl, UrlIs
  <2>5. s.pc \in {"idle", "remote", "local"}
    BY <2>3 DEF Fetching
  <2> HIDE DEF s
  <2>6. Looked(s, it, count.changes, urls, lt)
    BY <2>1, <2>2, <2>3, <2>4, <2>5 DEF Looked
  <2> QED
    BY <1>1, <1>5, <2>6 DEF Goes, s
<1> QED
  BY <1>3, <1>4, <1>5 DEF LooksAt

(* That is where a call may be.                                             *)
LEMMA LookedIsOk ==
    ASSUME NEW r, NEW s, NEW it, NEW changes \in Nat, NEW sh, NEW ix, NEW lt, Looked(s, it, changes, sh.urls, lt)
    PROVE  s \in ReaderState /\ ReaderOk(r, s, it, changes, sh, ix, lt)
BY DEF Looked, ReaderOk

(* The URL that was found is written to what plays, or nothing was found.   *)
Answers(r) == PlaysMoves /\ ReaderMoves(r) /\ CacheMoves

(* With a URL, or none, of what played, the call goes on.                   *)
LEMMA ResolvedAnswers ==
    ASSUME ArtInv, NEW r \in Reader, NEW t \in Track, NEW u \in Track \cup {Nothing},
           u # Nothing => UrlIs(t, u, show'.urls, late),
           show'.urls = show.urls \/ DOMAIN show.urls = {},
           Resolved(r, t, u)
    PROVE  Answers(r)
<1> DEFINE writes == plays # Nothing /\ u # Nothing /\ plays.url = Nothing
           it == IF writes THEN [plays EXCEPT !.url = u] ELSE plays
<1>1. /\ plays' = it
      /\ late' = IF writes /\ plays.track # t THEN late \cup {<<plays.track, u>>} ELSE late
      /\ LooksAt(r, it)
  BY DEF Resolved
<1>2. plays \in ArtItem \cup {Nothing} /\ HasItsUrl(plays, show.urls, late) /\ count.changes \in Nat
  BY DEF ArtInv, ArtType, SharedType
<1>3. Nothing \notin ArtItem
  BY ArtworkAssumption DEF ArtItem
<1>4. /\ it \in ArtItem \cup {Nothing} /\ (it = Nothing <=> plays = Nothing)
      /\ plays # Nothing => it.track = plays.track
      /\ writes => it # Nothing /\ it.url = u /\ it.track = plays.track
  BY <1>2, <1>3 DEF ArtItem
<1>5. late \subseteq late'
  BY <1>1
<1>6. HasItsUrl(it, show'.urls, late')
  <2>1. CASE writes
    <3>1. UrlIs(plays.track, u, show'.urls, late')
      BY <1>1, <2>1 DEF UrlIs
    <3> QED
      BY <1>4, <2>1, <3>1 DEF HasItsUrl
  <2>2. CASE ~ writes
    BY <1>2, <1>5, <2>2, UrlStays DEF HasItsUrl
  <2> QED
    BY <2>1, <2>2
<1> HIDE DEF it, writes
<1>7. PlaysMoves
  BY <1>1, <1>4, <1>5, <1>6 DEF PlaysMoves
<1>8. /\ artworkCache' \in Seq(Entry) /\ ToSet(artworkCache') \subseteq ToSet(artworkCache)
      /\ \E s : Looked(s, it, count.changes, show'.urls, late') /\ reader' = [reader EXCEPT ![r] = s]
  BY <1>1, <1>4, <1>6, LooksKeep
<1>9. ReaderMoves(r)
  BY <1>1, <1>2, <1>8, LookedIsOk DEF ReaderMoves
<1> QED
  BY <1>7, <1>8, <1>9 DEF Answers, CacheMoves

(* So it does when it has none for an item that is not known.               *)
LEMMA UnresolvedAnswers ==
    ASSUME ArtInv, NEW r \in Reader, Unresolved(r),
           show'.urls = show.urls \/ DOMAIN show.urls = {}
    PROVE  Answers(r)
<1>1. plays \in ArtItem \cup {Nothing} /\ HasItsUrl(plays, show.urls, late) /\ count.changes \in Nat
  BY DEF ArtInv, ArtType, SharedType
<1>2. LooksAt(r, plays) /\ plays' = plays /\ late' = late
  BY DEF Unresolved
<1>3. HasItsUrl(plays, show'.urls, late')
  BY <1>1, <1>2, UrlStays DEF HasItsUrl
<1>4. PlaysMoves
  BY <1>1, <1>2, <1>3 DEF PlaysMoves
<1>5. /\ artworkCache' \in Seq(Entry) /\ ToSet(artworkCache') \subseteq ToSet(artworkCache)
      /\ \E s : Looked(s, plays, count.changes, show'.urls, late') /\ reader' = [reader EXCEPT ![r] = s]
  BY <1>1, <1>2, <1>3, LooksKeep
<1>6. ReaderMoves(r)
  BY <1>1, <1>2, <1>5, LookedIsOk DEF ReaderMoves
<1> QED
  BY <1>4, <1>5, <1>6 DEF Answers, CacheMoves

(* A call that goes on to wait, with nothing else changed for it.           *)
LEMMA WaitAnswers ==
    ASSUME ArtInv, NEW r \in Reader, NEW s \in ReaderState, Goes(r, s),
           show'.urls = show.urls \/ DOMAIN show.urls = {},
           UNCHANGED <<plays, artworkCache, late>>,
           ReaderOk(r, s, plays, count.changes, show', index', late)
    PROVE  Answers(r)
<1>1. HasItsUrl(plays, show'.urls, late)
  BY UrlStays DEF ArtInv, HasItsUrl
<1>2. PlaysMoves
  BY <1>1 DEF PlaysMoves, ArtInv, ArtType
<1>3. ReaderMoves(r)
  BY DEF ReaderMoves, Goes
<1>4. CacheMoves
  BY DEF CacheMoves, ArtInv, ArtType
<1> QED
  BY <1>2, <1>3, <1>4 DEF Answers

(* What a call holds where it waits.                                        *)
LEMMA Holds ==
    ASSUME ArtInv, NEW r \in Reader
    PROVE  /\ reader[r].pc \in {"catalog", "index", "sitemap", "show", "page"} => reader[r].track \in Track
           /\ reader[r].pc \in {"show", "page"} => reader[r].known \in SUBSET Track
           /\ reader[r].pc = "sitemap" =>
                 \A n \in 1..NumSitemaps : [reader[r] EXCEPT !.left = n] \in ReaderState
           /\ reader[r].pc = "sitemap" => reader[r].left \in 1..NumSitemaps
           /\ reader[r].pc \in {"remote", "local"} => reader[r] \in Fetching
BY DEF ArtInv, ArtType, ReaderState, Rests, Fetching

(* Where a call may wait.                                                   *)
LEMMA WaitsAt ==
    ASSUME NEW t \in Track, NEW known \in SUBSET Track
    PROVE  /\ [pc |-> "catalog", track |-> t] \in ReaderState
           /\ [pc |-> "index", track |-> t] \in ReaderState
           /\ [pc |-> "sitemap", track |-> t, left |-> NumSitemaps] \in ReaderState
           /\ [pc |-> "show", track |-> t, known |-> known] \in ReaderState
           /\ [pc |-> "page", track |-> t, known |-> known] \in ReaderState
BY ArtworkAssumption DEF ReaderState

(* Nothing happens to what the calls share.                                 *)
LEMMA ShowStays == ASSUME ArtInv, NEW r, UNCHANGED show PROVE ShowMoves(r)
BY DEF ArtInv, SharedType, Locks, ShowMoves

(* The index as it was.                                                     *)
LEMMA IndexStays == ASSUME ArtInv, NEW r, UNCHANGED <<index, count>> PROVE IndexMoves(r)
BY DEF ArtInv, SharedType, Locks, IndexMoves

(* The catalog as it was.                                                   *)
LEMMA CatalogStays == ASSUME ArtInv, UNCHANGED <<says, catalog>> PROVE CatalogMoves
BY DEF ArtInv, SharedType, CatalogMoves

(* With the lock of the shows, a call answers, waits or fetches the page.   *)
LEMMA ShowAnswers ==
    ASSUME ArtInv, NEW r \in Reader, NEW t \in Track, NEW known \in SUBSET Track,
           FindsShow(r, t, known)
    PROVE  Answers(r) /\ ShowMoves(r)
<1>1. CASE /\ show.loaded
           /\ Resolved(r, t, IF t \in DOMAIN show.urls THEN show.urls[t] ELSE Nothing)
           /\ UNCHANGED show
  <2> DEFINE u == IF t \in DOMAIN show.urls THEN show.urls[t] ELSE Nothing
  <2>1. u \in Track \cup {Nothing}
    BY DEF ArtInv, SharedType
  <2>2. u # Nothing => UrlIs(t, u, show'.urls, late)
    BY <1>1 DEF UrlIs
  <2> HIDE DEF u
  <2>3. Resolved(r, t, u)
    BY <1>1 DEF u
  <2> QED
    BY <1>1, <2>1, <2>2, <2>3, ResolvedAnswers, ShowStays
<1>2. CASE /\ ~ show.loaded /\ show.lock = Nothing
           /\ show' = [show EXCEPT !.lock = r] /\ Goes(r, [pc |-> "page", track |-> t, known |-> known])
           /\ UNCHANGED <<plays, artworkCache, late>>
  <2> DEFINE s == [pc |-> "page", track |-> t, known |-> known]
  <2>1. s \in ReaderState /\ s.pc = "page"
    BY WaitsAt
  <2>2. show'.urls = show.urls /\ show'.loaded = show.loaded /\ show'.lock = r
    BY <1>2 DEF ArtInv, SharedType
  <2> HIDE DEF s
  <2>3. ReaderOk(r, s, plays, count.changes, show', index', late)
    BY <1>2, <2>1, <2>2 DEF ReaderOk
  <2>4. Goes(r, s)
    BY <1>2 DEF s
  <2>5. ShowMoves(r)
    BY <1>2, <2>2 DEF ShowMoves, ArtInv, SharedType, Locks
  <2> QED
    BY <1>2, <2>1, <2>2, <2>3, <2>4, <2>5, WaitAnswers
<1>3. CASE /\ ~ show.loaded /\ show.lock # Nothing
           /\ Goes(r, [pc |-> "show", track |-> t, known |-> known])
           /\ UNCHANGED <<plays, artworkCache, show, late>>
  <2> DEFINE s == [pc |-> "show", track |-> t, known |-> known]
  <2>1. s \in ReaderState /\ s.pc = "show"
    BY WaitsAt
  <2>2. Goes(r, s)
    BY <1>3
  <2> HIDE DEF s
  <2>3. ReaderOk(r, s, plays, count.changes, show', index', late)
    BY <2>1 DEF ReaderOk
  <2> QED
    BY <1>3, <2>1, <2>2, <2>3, WaitAnswers, ShowStays
<1> QED
  BY <1>1, <1>2, <1>3 DEF FindsShow

(* An episode takes its URL from the page of its show.                      *)
LEMMA EpisodeAnswers ==
    ASSUME ArtInv, NEW r \in Reader, NEW t \in Track, NEW known \in SUBSET Track,
           FindsEpisode(r, t, known)
    PROVE  Answers(r) /\ ShowMoves(r)
<1>1. CASE t \notin known /\ Unresolved(r) /\ UNCHANGED show
  BY <1>1, UnresolvedAnswers, ShowStays
<1>2. CASE t \in known /\ FindsShow(r, t, known)
  BY <1>2, ShowAnswers
<1> QED
  BY <1>1, <1>2 DEF FindsEpisode

(* The index is loaded by one call, and the others wait for it.             *)
LEMMA IndexAnswers ==
    ASSUME ArtInv, NEW r \in Reader, NEW t \in Track, LoadsIndex(r, t)
    PROVE  Answers(r) /\ ShowMoves(r) /\ IndexMoves(r)
<1>1. CASE index.loaded /\ FindsEpisode(r, t, index.known) /\ UNCHANGED <<index, count>>
  <2>1. index.known \in SUBSET Track
    BY DEF ArtInv, SharedType
  <2> QED
    BY <1>1, <2>1, EpisodeAnswers, IndexStays
<1>2. CASE /\ ~ index.loaded /\ index.lock = Nothing
           /\ index' = [index EXCEPT !.lock = r]
           /\ count' = [count EXCEPT !.loads = @ + 1]
           /\ Goes(r, [pc |-> "sitemap", track |-> t, left |-> NumSitemaps])
           /\ UNCHANGED <<plays, artworkCache, show, late>>
  <2> DEFINE s == [pc |-> "sitemap", track |-> t, left |-> NumSitemaps]
  <2>1. s \in ReaderState /\ s.pc = "sitemap"
    BY WaitsAt
  <2>2. index'.lock = r /\ ~ index'.loaded /\ r # Nothing
    BY <1>2, ArtworkAssumption DEF ArtInv, SharedType
  <2> HIDE DEF s
  <2>3. ReaderOk(r, s, plays, count.changes, show', index', late)
    BY <2>1, <2>2 DEF ReaderOk
  <2>4. Goes(r, s)
    BY <1>2 DEF s
  <2>5. IndexMoves(r)
    BY <1>2, <2>2 DEF IndexMoves, ArtInv, SharedType, Locks
  <2> QED
    BY <1>2, <2>1, <2>3, <2>4, <2>5, WaitAnswers, ShowStays
<1>3. CASE /\ ~ index.loaded /\ index.lock # Nothing
           /\ Goes(r, [pc |-> "index", track |-> t])
           /\ UNCHANGED <<plays, artworkCache, index, show, count, late>>
  <2> DEFINE s == [pc |-> "index", track |-> t]
  <2>1. s \in ReaderState /\ s.pc = "index"
    BY WaitsAt
  <2>2. Goes(r, s)
    BY <1>3
  <2> HIDE DEF s
  <2>3. ReaderOk(r, s, plays, count.changes, show', index', late)
    BY <2>1 DEF ReaderOk
  <2> QED
    BY <1>3, <2>1, <2>2, <2>3, WaitAnswers, ShowStays, IndexStays
<1> QED
  BY <1>1, <1>2, <1>3 DEF LoadsIndex

-----------------------------------------------------------------------------
(* The steps of a call.                                                     *)
LEMMA AnswersKeep ==
    ASSUME ArtInv, NEW r \in Reader, Answers(r), ShowMoves(r), IndexMoves(r), CatalogMoves
    PROVE  ArtInv'
BY MovesKeep DEF Answers, SharedMoves

(* artwork() is called, and looks for a URL or does not.                    *)
LEMMA ArtworkKeeps == ASSUME ArtInv, NEW r \in Reader, Artwork(r) PROVE ArtInv'
<1>1. /\ count' = [count EXCEPT !.asks = @ + 1]
      /\ UNCHANGED <<says, index, show, catalog>>
  BY DEF Artwork, AsksNobody, AsksCatalog
<1>2. ShowMoves(r) /\ CatalogMoves
  BY <1>1, ShowStays, CatalogStays
<1>3. IndexMoves(r)
  BY <1>1 DEF IndexMoves, ArtInv, SharedType, Locks
<1>4. CASE AsksNobody(r)
  BY <1>1, <1>2, <1>3, <1>4, UnresolvedAnswers, AnswersKeep DEF AsksNobody
<1>5. CASE AsksCatalog(r)
  <2>1. plays.track \in Track
    BY <1>5 DEF AsksCatalog, NeedsLookup, Reports, ArtInv, ArtType, ArtItem
  <2>2. CASE /\ plays.track \in DOMAIN catalog
             /\ Resolved(r, plays.track, catalog[plays.track])
    <3>1. catalog[plays.track] \in {plays.track, Nothing}
      BY <2>2 DEF ArtInv, SharedType
    <3>2. catalog[plays.track] # Nothing => UrlIs(plays.track, catalog[plays.track], show'.urls, late)
      BY <3>1 DEF UrlIs
    <3>3. Answers(r)
      BY <1>1, <2>1, <2>2, <3>1, <3>2, ResolvedAnswers
    <3> QED
      BY <1>2, <1>3, <3>3, AnswersKeep
  <2>3. CASE /\ plays.track \notin DOMAIN catalog
             /\ Goes(r, [pc |-> "catalog", track |-> plays.track])
             /\ UNCHANGED <<plays, artworkCache, late>>
    <3> DEFINE s == [pc |-> "catalog", track |-> plays.track]
    <3>1. s \in ReaderState /\ s.pc = "catalog"
      BY <2>1, WaitsAt
    <3>2. Goes(r, s)
      BY <2>3
    <3> HIDE DEF s
    <3>3. ReaderOk(r, s, plays, count.changes, show', index', late)
      BY <3>1 DEF ReaderOk
    <3> QED
      BY <1>1, <1>2, <1>3, <2>3, <3>1, <3>2, <3>3, WaitAnswers, AnswersKeep
  <2> QED
    BY <1>5, <2>2, <2>3 DEF AsksCatalog
<1> QED
  BY <1>4, <1>5 DEF Artwork

(* The catalog answers, or does not and the sitemaps are asked.             *)
LEMMA CatalogReturnsKeeps == ASSUME ArtInv, NEW r \in Reader, CatalogReturns(r) PROVE ArtInv'
<1> DEFINE t == reader[r].track
<1>1. t \in Track
  BY Holds DEF CatalogReturns
<1> HIDE DEF t
<1>2. ASSUME NEW u \in {t, Nothing},
             catalog' = [x \in DOMAIN catalog \cup {t} |-> IF x = t THEN u ELSE catalog[x]],
             Resolved(r, t, u), UNCHANGED <<says, index, show, count>>
      PROVE  ArtInv'
  <2>1. u \in Track \cup {Nothing} /\ (u # Nothing => UrlIs(t, u, show'.urls, late))
    BY <1>1 DEF UrlIs
  <2>2. Answers(r)
    BY <1>1, <1>2, <2>1, ResolvedAnswers
  <2>3. CatalogMoves
    BY <1>1, <1>2 DEF CatalogMoves, ArtInv, SharedType
  <2> QED
    BY <1>2, <2>2, <2>3, ShowStays, IndexStays, AnswersKeep
<1>3. CASE Unresolved(r) /\ UNCHANGED <<says, catalog, index, show, count>>
  BY <1>3, UnresolvedAnswers, ShowStays, IndexStays, CatalogStays, AnswersKeep
<1>4. CASE LoadsIndex(r, t) /\ UNCHANGED <<says, catalog>>
  BY <1>1, <1>4, IndexAnswers, CatalogStays, AnswersKeep
<1> QED
  BY <1>2, <1>3, <1>4 DEF CatalogReturns, t

(* A call that waited for the index, or for the shows, looks again.         *)
LEMMA WakesKeeps == ASSUME ArtInv, NEW r \in Reader, IndexWakes(r) \/ ShowWakes(r) PROVE ArtInv'
<1>1. CASE IndexWakes(r)
  <2>1. reader[r].track \in Track
    BY <1>1, Holds DEF IndexWakes
  <2> QED
    BY <1>1, <2>1, IndexAnswers, CatalogStays, AnswersKeep DEF IndexWakes
<1>2. CASE ShowWakes(r)
  <2>1. reader[r].track \in Track /\ reader[r].known \in SUBSET Track
    BY <1>2, Holds DEF ShowWakes
  <2> QED
    BY <1>2, <2>1, ShowAnswers, IndexStays, CatalogStays, AnswersKeep DEF ShowWakes
<1> QED
  BY <1>1, <1>2

(* A sitemap is read; after the last the index is loaded.                   *)
LEMMA SitemapKeeps == ASSUME ArtInv, NEW r \in Reader, SitemapReturns(r) PROVE ArtInv'
<1>1. /\ reader[r].pc = "sitemap" /\ reader[r].track \in Track /\ reader[r].left \in 1..NumSitemaps
      /\ index.lock = r /\ ~ index.loaded /\ r # Nothing
  BY Holds, ArtworkAssumption DEF SitemapReturns, ArtInv, ReaderOk, Locks
<1>2. CatalogMoves /\ count' = count
  BY CatalogStays DEF SitemapReturns
<1>3. PICK tracks \in SUBSET Track :
        \/ /\ reader[r].left > 1
           /\ index' = [index EXCEPT !.known = index.known \cup tracks]
           /\ Goes(r, [reader[r] EXCEPT !.left = @ - 1])
           /\ UNCHANGED <<plays, artworkCache, show, late>>
        \/ /\ reader[r].left = 1
           /\ index' = [known |-> index.known \cup tracks, loaded |-> TRUE, lock |-> Nothing]
           /\ FindsEpisode(r, reader[r].track, index.known \cup tracks)
  BY DEF SitemapReturns
<1>4. index.known \cup tracks \in SUBSET Track
  BY DEF ArtInv, SharedType
<1>5. CASE /\ reader[r].left > 1
           /\ index' = [index EXCEPT !.known = index.known \cup tracks]
           /\ Goes(r, [reader[r] EXCEPT !.left = @ - 1])
           /\ UNCHANGED <<plays, artworkCache, show, late>>
  <2> DEFINE n == reader[r].left - 1
             s == [reader[r] EXCEPT !.left = n]
  <2>1. n \in 1..NumSitemaps
    BY <1>1, <1>5, ArtworkAssumption
  <2>2. s.pc = "sitemap"
    BY <1>1 DEF ArtInv, ArtType
  <2> HIDE DEF n
  <2>3. s \in ReaderState
    BY <1>1, <2>1, Holds
  <2>4. Goes(r, s)
    BY <1>5 DEF n
  <2> HIDE DEF s
  <2>5. index'.lock = r /\ index'.loaded = index.loaded
    BY <1>1, <1>5 DEF ArtInv, SharedType
  <2>6. ReaderOk(r, s, plays, count.changes, show', index', late)
    BY <2>2, <2>5 DEF ReaderOk
  <2>7. IndexMoves(r)
    BY <1>1, <1>2, <1>4, <1>5, <2>5 DEF IndexMoves, ArtInv, SharedType, Locks
  <2> QED
    BY <1>2, <1>5, <2>3, <2>4, <2>6, <2>7, WaitAnswers, ShowStays, AnswersKeep
<1>6. CASE /\ reader[r].left = 1
           /\ index' = [known |-> index.known \cup tracks, loaded |-> TRUE, lock |-> Nothing]
           /\ FindsEpisode(r, reader[r].track, index.known \cup tracks)
  <2>1. IndexMoves(r)
    BY <1>1, <1>2, <1>4, <1>6 DEF IndexMoves, ArtInv, SharedType, Locks
  <2> QED
    BY <1>1, <1>2, <1>4, <1>6, <2>1, EpisodeAnswers, AnswersKeep
<1> QED
  BY <1>3, <1>5, <1>6

(* The page of the show is parsed, or is not there.                         *)
LEMMA PageKeeps == ASSUME ArtInv, NEW r \in Reader, PageReturns(r) PROVE ArtInv'
<1> DEFINE t == reader[r].track
           known == reader[r].known
<1>1. t \in Track /\ known \in SUBSET Track
  BY Holds DEF PageReturns
<1>2. show.lock = r /\ ~ show.loaded /\ DOMAIN show.urls = {}
  BY DEF PageReturns, ArtInv, ReaderOk, Locks
<1>3. CatalogMoves /\ IndexMoves(r)
  BY CatalogStays, IndexStays DEF PageReturns
<1> HIDE DEF t, known
<1>4. CASE show' = [show EXCEPT !.lock = Nothing] /\ Resolved(r, t, Nothing)
  <2>1. show'.urls = show.urls /\ show'.loaded = show.loaded /\ show'.lock = Nothing
    BY <1>4 DEF ArtInv, SharedType
  <2>2. ShowMoves(r)
    BY <1>2, <1>4, <2>1 DEF ShowMoves, ArtInv, SharedType, Locks
  <2> QED
    BY <1>1, <1>3, <1>4, <2>1, <2>2, ResolvedAnswers, AnswersKeep
<1>5. ASSUME NEW shown \in SUBSET known, NEW urls \in [shown -> known],
             show' = [urls |-> urls, loaded |-> TRUE, lock |-> Nothing],
             Resolved(r, t, IF t \in shown THEN urls[t] ELSE Nothing)
      PROVE  ArtInv'
  <2> DEFINE u == IF t \in shown THEN urls[t] ELSE Nothing
  <2>1. u \in Track \cup {Nothing} /\ (u # Nothing => UrlIs(t, u, show'.urls, late))
    BY <1>1, <1>5 DEF UrlIs
  <2>2. Resolved(r, t, u)
    BY <1>5
  <2>3. ShowMoves(r)
    BY <1>1, <1>2, <1>5 DEF ShowMoves
  <2> HIDE DEF u
  <2> QED
    BY <1>1, <1>2, <1>3, <2>1, <2>2, <2>3, ResolvedAnswers, AnswersKeep
<1> QED
  BY <1>4, <1>5 DEF PageReturns, t, known

(* What came is kept for the item the call began with.                      *)
LEMMA KeptAnswers ==
    ASSUME ArtInv, NEW r \in Reader, reader[r].pc \in {"remote", "local"},
           NEW of \in Track \cup {Nothing}, NEW from \in {"url", "device"}, Keeps(r, of, from),
           UNCHANGED <<plays, show, late>>,
           \/ of = Nothing
           \/ from = "url" /\ UrlIs(reader[r].id.track, of, show.urls, late)
           \/ from = "device" /\ (reader[r].since = count.changes => of = reader[r].id.track)
    PROVE  Answers(r)
<1> DEFINE e == [id |-> reader[r].id, of |-> of, from |-> from, late |-> reader[r].since # count.changes]
<1>1. e \in Entry
  BY Holds DEF Fetching, Entry
<1>2. EntryOk(e, show.urls, late)
  BY DEF EntryOk
<1>3. artworkCache' = Cached(e) /\ Goes(r, Rests)
  BY DEF Keeps, Returns
<1> HIDE DEF e
<1>4. CacheMoves
  BY <1>1, <1>2, <1>3, CachedHas DEF CacheMoves
<1>5. PlaysMoves
  BY DEF PlaysMoves, ArtInv, ArtType
<1>6. ReaderMoves(r)
  BY <1>3, RestsIs DEF ReaderMoves, ReaderOk, Goes
<1> QED
  BY <1>4, <1>5, <1>6 DEF Answers

(* An image, no image or an error comes for a URL.                          *)
LEMMA RemoteKeeps == ASSUME ArtInv, NEW r \in Reader, RemoteReturns(r) PROVE ArtInv'
<1>1. reader[r].pc = "remote" /\ UNCHANGED <<says, plays, catalog, index, show, count, late>>
  BY DEF RemoteReturns
<1>2. ShowMoves(r) /\ IndexMoves(r) /\ CatalogMoves
  BY <1>1, ShowStays, IndexStays, CatalogStays
<1>3. reader[r] \in Fetching /\ ReaderOk(r, reader[r], plays, count.changes, show, index, late)
  BY <1>1, Holds DEF ArtInv
<1> DEFINE q == reader[r].urls
           id == reader[r].id
           since == reader[r].since
<1>4. /\ q \in Seq(Track) /\ q # <<>> /\ id \in ArtId /\ since \in Nat
      /\ \A i \in DOMAIN q : UrlIs(id.track, q[i], show.urls, late)
      /\ since <= count.changes
      /\ since = count.changes => plays # Nothing /\ plays.track = id.track
  BY <1>1, <1>3 DEF Fetching, ReaderOk
<1> HIDE DEF q, id, since
<1>5. /\ Tail(q) \in Seq(Track) /\ Head(q) = q[1] /\ Head(q) \in Track /\ 1 \in DOMAIN q
      /\ \A i \in DOMAIN Tail(q) : i + 1 \in DOMAIN q /\ Tail(q)[i] = q[i + 1]
  BY <1>4, WithoutHead
<1>6. CASE Keeps(r, Head(q), "url")
  <2>1. UrlIs(reader[r].id.track, Head(q), show.urls, late)
    BY <1>4, <1>5 DEF id
  <2>2. Answers(r)
    BY <1>1, <1>5, <1>6, <2>1, KeptAnswers
  <2> QED
    BY <1>2, <2>2, AnswersKeep
<1>7. CASE Goes(r, Fetch(id, Tail(q), since, plays)) /\ UNCHANGED artworkCache
  <2> DEFINE rest == Tail(q)
             s == Fetch(id, rest, since, plays)
  <2>1. plays \in ArtItem \cup {Nothing} /\ rest \in Seq(Track)
    BY <1>5 DEF ArtInv, ArtType
  <2> HIDE DEF rest
  <2>2. /\ s \in ReaderState /\ s \in Fetching /\ (s.pc = "remote" => s.urls # <<>>)
        /\ s.urls = rest /\ s.id = id /\ s.since = since /\ s.at = plays
    BY <1>4, <2>1 DEF Fetch, Fetching, ReaderState
  <2>3. s.pc \in {"remote", "local"}
    BY <2>2 DEF Fetching
  <2>4. Goes(r, s)
    BY <1>7 DEF rest
  <2> HIDE DEF s
  <2>5. \A i \in DOMAIN rest : UrlIs(id.track, rest[i], show.urls, late)
    BY <1>4, <1>5 DEF rest
  <2>6. ReaderOk(r, s, plays, count.changes, show', index', late)
    BY <1>1, <1>4, <2>2, <2>3, <2>5 DEF ReaderOk
  <2> QED
    BY <1>1, <1>2, <1>7, <2>2, <2>4, <2>6, WaitAnswers, AnswersKeep
<1>8. CASE Returns(r) /\ UNCHANGED artworkCache
  <2>1. ReaderOk(r, Rests, plays, count.changes, show', index', late)
    BY RestsIs DEF ReaderOk
  <2> QED
    BY <1>1, <1>2, <1>8, <2>1, RestsIs, WaitAnswers, AnswersKeep DEF Returns
<1> QED
  BY <1>6, <1>7, <1>8 DEF RemoteReturns, q, id, since

(* The device answers or does not.                                          *)
LEMMA LocalKeeps == ASSUME ArtInv, NEW r \in Reader, LocalReturns(r) PROVE ArtInv'
<1>1. reader[r].pc = "local" /\ UNCHANGED <<says, plays, catalog, index, show, count, late>>
  BY DEF LocalReturns
<1>2. ShowMoves(r) /\ IndexMoves(r) /\ CatalogMoves
  BY <1>1, ShowStays, IndexStays, CatalogStays
<1>3. reader[r] \in Fetching /\ ReaderOk(r, reader[r], plays, count.changes, show, index, late)
  BY <1>1, Holds DEF ArtInv
<1>4. CASE Keeps(r, Nothing, "device")
  BY <1>1, <1>2, <1>4, KeptAnswers, AnswersKeep
<1>5. ASSUME NEW it \in {reader[r].at, plays} \ {Nothing}, Keeps(r, it.track, "device")
      PROVE  ArtInv'
  <2>1. it.track \in Track
    BY <1>3 DEF Fetching, ArtItem, ArtInv, ArtType
  <2>2. reader[r].since = count.changes => it.track = reader[r].id.track
    BY <1>1, <1>3 DEF ReaderOk
  <2>3. Answers(r)
    BY <1>1, <1>5, <2>1, <2>2, KeptAnswers
  <2> QED
    BY <1>2, <2>3, AnswersKeep
<1>6. CASE Returns(r) /\ UNCHANGED artworkCache
  <2>1. ReaderOk(r, Rests, plays, count.changes, show', index', late)
    BY RestsIs DEF ReaderOk
  <2> QED
    BY <1>1, <1>2, <1>6, <2>1, RestsIs, WaitAnswers, AnswersKeep DEF Returns
<1> QED
  BY <1>4, <1>5, <1>6 DEF LocalReturns

(* A call is cancelled, and gives up the locks it has.                      *)
LEMMA CancelKeeps == ASSUME ArtInv, NEW r \in Reader, IsCancelled(r) PROVE ArtInv'
<1>1. /\ Returns(r)
      /\ index' = [index EXCEPT !.lock = IF @ = r THEN Nothing ELSE @]
      /\ show' = [show EXCEPT !.lock = IF @ = r THEN Nothing ELSE @]
      /\ count' = [count EXCEPT !.cut = @ + IF index.lock = r THEN 1 ELSE 0]
      /\ UNCHANGED <<says, plays, artworkCache, catalog, late>>
  BY DEF IsCancelled
<1>2. r # Nothing
  BY ArtworkAssumption
<1>3. show'.urls = show.urls /\ show'.loaded = show.loaded
      /\ show'.lock = IF show.lock = r THEN Nothing ELSE show.lock
  BY <1>1 DEF ArtInv, SharedType
<1>4. ShowMoves(r)
  BY <1>1, <1>3 DEF ShowMoves, ArtInv, SharedType, Locks
<1>5. IndexMoves(r)
  BY <1>1, <1>2 DEF IndexMoves, ArtInv, SharedType, Locks
<1>6. ReaderOk(r, Rests, plays, count.changes, show', index', late)
  BY RestsIs DEF ReaderOk
<1>7. Answers(r)
  BY <1>1, <1>3, <1>6, RestsIs, WaitAnswers DEF Returns
<1> QED
  BY <1>1, <1>4, <1>5, <1>7, CatalogStays, AnswersKeep

(* Another item plays: whoever fetches is late.                             *)
LEMMA ItemChangeKeeps == ASSUME ArtInv, ItemChanges PROVE ArtInv'
<1>1. /\ count' = [count EXCEPT !.changes = @ + 1]
      /\ plays' \in {Nothing} \cup {Sent(t) : t \in Track}
      /\ UNCHANGED <<says, artworkCache, reader, catalog, index, show, late>>
  BY DEF ItemChanges
<1>2. SharedType' /\ Locks' /\ count'.changes = count.changes + 1
  BY <1>1 DEF ArtInv, SharedType, Locks
<1>3. plays' \in ArtItem \cup {Nothing} /\ HasItsUrl(plays', show'.urls, late')
  BY <1>1 DEF Sent, ArtItem, HasItsUrl, UrlIs
<1>4. ArtType'
  BY <1>1, <1>3 DEF ArtInv, ArtType
<1>5. ASSUME NEW r \in Reader
      PROVE  ReaderOk(r, reader'[r], plays', count'.changes, show', index', late')
  <2>1. ReaderOk(r, reader[r], plays, count.changes, show, index, late)
    BY DEF ArtInv
  <2>2. reader[r].pc \in {"remote", "local"} => reader[r].since \in Nat
    BY Holds DEF Fetching
  <2>3. count.changes \in Nat
    BY DEF ArtInv, SharedType
  <2> QED
    BY <1>1, <1>2, <2>1, <2>2, <2>3 DEF ReaderOk
<1> QED
  BY <1>1, <1>2, <1>3, <1>4, <1>5 DEF ArtInv

(* At first nothing is kept, and nobody asked.                              *)
LEMMA ArtInvInit == ArtInit => ArtInv
<1> SUFFICES ASSUME ArtInit PROVE ArtInv
  OBVIOUS
<1>1. DOMAIN <<>> = {} /\ ToSet(<<>>) = {}
  BY DEF ToSet
<1>2. /\ plays \in ArtItem \cup {Nothing}
      /\ HasItsUrl(plays, show.urls, late)
  BY DEF ArtInit, Sent, ArtItem, HasItsUrl, UrlIs
<1>3. SharedType /\ Locks
  BY <1>1 DEF ArtInit, SharedType, Locks
<1>4. ArtType
  BY <1>2, RestsIs DEF ArtInit, ArtType
<1>5. \A r \in Reader : ReaderOk(r, reader[r], plays, count.changes, show, index, late)
  BY RestsIs DEF ArtInit, ReaderOk
<1>6. \A e \in ToSet(artworkCache) : EntryOk(e, show.urls, late)
  BY <1>1 DEF ArtInit
<1> QED
  BY <1>2, <1>3, <1>4, <1>5, <1>6 DEF ArtInv

(* Every step of artwork keeps the invariant.                               *)
LEMMA ArtInvStep == ArtInv /\ [ArtNext]_artVars => ArtInv'
<1> SUFFICES ASSUME ArtInv, [ArtNext]_artVars PROVE ArtInv'
  OBVIOUS
<1>1. CASE ItemChanges
  BY <1>1, ItemChangeKeeps
<1>2. ASSUME NEW r \in Reader,
             \/ Artwork(r) \/ CatalogReturns(r) \/ IndexWakes(r) \/ SitemapReturns(r)
             \/ ShowWakes(r) \/ PageReturns(r) \/ RemoteReturns(r) \/ LocalReturns(r)
             \/ IsCancelled(r)
      PROVE  ArtInv'
  BY <1>2, ArtworkKeeps, CatalogReturnsKeeps, WakesKeeps, SitemapKeeps, PageKeeps,
     RemoteKeeps, LocalKeeps, CancelKeeps
<1>3. CASE UNCHANGED artVars
  BY <1>3 DEF artVars, ArtInv, SharedType, Locks, ArtType
<1> QED
  BY <1>1, <1>2, <1>3 DEF ArtNext

(* What the invariant says of the cache and of the downloads.               *)
LEMMA ArtInvTells == ArtInv => ArtworkIsOfItsItem
<1> SUFFICES ASSUME ArtInv PROVE ArtworkIsOfItsItem
  OBVIOUS
<1>1. count.loads <= count.cut + 1
  BY DEF ArtInv, Locks, SharedType
<1>2. ASSUME NEW i \in DOMAIN artworkCache
      PROVE  EntryOk(artworkCache[i], show.urls, late)
  BY DEF ArtInv, ToSet
<1> QED
  BY <1>1, <1>2 DEF ArtworkIsOfItsItem, EntryOk, UrlIs

(* A step of MRP is a step of artwork, or leaves it alone.                  *)
LEMMA ArtPart == (MrpInit => ArtInit) /\ ([MrpNext]_mrpVars => [ArtNext]_artVars)
BY DEF MrpInit, MrpNext, mrpVars

(* For any number of calls, items, identifiers and sitemaps, whatever is     *)
(* fetched, cancelled or changes meanwhile: artwork that is kept under an    *)
(* identifier is that of the item the call began with, unless its URL was    *)
(* written too late, and the index is loaded once.                          *)
THEOREM ArtworkStaysWithItsItem == MrpSpec => []ArtworkIsOfItsItem
<1>1. MrpInit => ArtInv
  BY ArtPart, ArtInvInit
<1>2. ArtInv /\ [MrpNext]_mrpVars => ArtInv'
  BY ArtPart, ArtInvStep
<1> QED
  BY <1>1, <1>2, ArtInvTells, PTL DEF MrpSpec
=============================================================================

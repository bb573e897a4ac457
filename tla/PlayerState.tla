---------------------------- MODULE PlayerState ----------------------------
(***************************************************************************)
(* protocols/mrp/player_state.py: PlayerStateManager, which follows what     *)
(* every player of every client (app) on the device plays, and which client  *)
(* and player is the active one, from the messages that the device pushes.   *)
(* tvOS 26.5 no longer says which client is active; then it is inferred.     *)
(*                                                                         *)
(* A handler is a coroutine that does not suspend before it awaits           *)
(* listener.state_updated() at its end, so a message is one step.  Of a      *)
(* queue, the item at its location is kept; of an item, an identifier and    *)
(* a revision of its metadata.                                              *)
(***************************************************************************)
EXTENDS Integers, FiniteSets

CONSTANTS
    Client,         \* bundle identifiers
    Player,         \* player identifiers
    DefaultPlayer,  \* DEFAULT_PLAYER_ID
    NoIdentifier,   \* the empty identifier, of a player that is not valid
    ItemId,         \* identifiers of content items
    Revision,       \* revisions of the metadata of an item
    MaxPlayers,     \* bound on the players that exist at a time
    None

ASSUME PlayerAssumption == {DefaultPlayer, NoIdentifier} \subseteq Player
ASSUME NoneAssumption ==
    /\ None \notin Client \cup Player
    /\ None \notin ItemId \X Revision

Item == ItemId \X Revision

(* PlaybackState; None before the first one was received.                   *)
Playback == {"Playing", "Paused", "Stopped"}

VARIABLES
    clients,       \* the keys of _clients
    players,       \* the keys of players of each client
    playback,      \* _playback_state of each player
    item,          \* the item at the location in its queue
    activePlayer,  \* _active_player of each client
    activeClient,  \* _active_client
    told           \* whether the listener was told of the last message

stateVars == <<clients, players, playback, item>>
vars == <<stateVars, activePlayer, activeClient, told>>

TypeOK ==
    /\ clients \subseteq Client
    /\ players \in [Client -> SUBSET Player]
    /\ playback \in [Client -> [Player -> Playback \cup {None}]]
    /\ item \in [Client -> [Player -> Item \cup {None}]]
    /\ activePlayer \in [Client -> Player \cup {None}]
    /\ activeClient \in Client \cup {None}
    /\ told \in BOOLEAN

Init ==
    /\ clients = {}
    /\ players = [c \in Client |-> {}]
    /\ playback = [c \in Client |-> [p \in Player |-> None]]
    /\ item = [c \in Client |-> [p \in Player |-> None]]
    /\ activePlayer = [c \in Client |-> None]
    /\ activeClient = None
    /\ told = FALSE

-----------------------------------------------------------------------------
(* What is active and what it plays.                                        *)

(* Client.active_player: the identifier it has.                             *)
Active(c) ==
    IF activePlayer[c] # None THEN activePlayer[c]
    ELSE IF DefaultPlayer \in players[c] THEN DefaultPlayer ELSE NoIdentifier

(* A player object that was made for the occasion has nothing to play.      *)
Exists(c) == activePlayer[c] # None \/ DefaultPlayer \in players[c]

(* The identifier of PlayerStateManager.playing.                            *)
PlayingId == IF activeClient = None THEN NoIdentifier ELSE Active(activeClient)

(* PlayerState.playback_state (rates that mean seeking are left out).       *)
PlaybackOf(c, p) ==
    IF playback[c][p] = "Paused" /\ item[c][p] = None THEN None ELSE playback[c][p]

(* What build_playing_instance makes of PlayerStateManager.playing.         *)
Shown ==
    IF activeClient # None /\ Exists(activeClient)
    THEN <<PlaybackOf(activeClient, Active(activeClient)),
           item[activeClient][Active(activeClient)]>>
    ELSE <<None, None>>

(* _playing_has_content                                                     *)
PlayingHasContent == Shown[1] \in {"Playing", "Paused"} /\ Shown[2] # None

(* _state_updated, at the end of a handler: a message about a client is     *)
(* told when that is the active one, and one about a player when the active *)
(* one has its identifier (be it of another client), or when no client is   *)
(* active; some messages always are.                                        *)
Always == told' = TRUE
AboutClient(c) == told' = (c = activeClient)'
AboutPlayer(p) == told' = (activeClient = None \/ p = PlayingId)'

-----------------------------------------------------------------------------
(* Clients and players come and go.                                         *)

(* get_client                                                               *)
GetClient(c) == clients' = clients \cup {c}

(* get_player                                                               *)
GetPlayer(c, p) ==
    /\ GetClient(c)
    /\ players' = [players EXCEPT ![c] = @ \cup {p}]

(* The bound: a message may make a player only while there are few.         *)
Total == Cardinality({cp \in Client \X Player : cp[2] \in players[cp[1]]})
MayMake(c, p) == p \in players[c] \/ Total < MaxPlayers

-----------------------------------------------------------------------------
(* The messages.                                                            *)

(* The inference at the end of _handle_set_state, on the updated players:   *)
(* `state' is the one in the message, None without one.                     *)
Infers(c, p, state) ==
    LET content == state \in {"Playing", "Paused"} /\ item'[c][p] # None
        activeHasContent ==
            /\ activeClient # None
            /\ Exists(activeClient)
            /\ LET a == Active(activeClient)
               IN item'[activeClient][a] # None /\ playback'[activeClient][a] \in {"Playing", "Paused"}
    IN activeClient' =
           IF ~activeHasContent /\ state # None
              /\ (content \/ (state # "Stopped" /\ activeClient = None))
           THEN c ELSE activeClient

(* SET_STATE_MESSAGE, with or without a state and with or without a queue,  *)
(* which may be empty.                                                      *)
SetState(c, p, state, queue) ==
    /\ MayMake(c, p)
    /\ GetPlayer(c, p)
    /\ playback' = [playback EXCEPT ![c][p] = IF state = None THEN @ ELSE state]
    /\ item' = [item EXCEPT ![c][p] = IF queue = <<>> THEN @ ELSE queue[1]]
    /\ Infers(c, p, state)
    /\ UNCHANGED activePlayer
    /\ AboutPlayer(p)

(* UPDATE_CONTENT_ITEM_MESSAGE: an item that is in the queue gets metadata. *)
ContentItemUpdate(c, p, i) ==
    /\ MayMake(c, p)
    /\ GetPlayer(c, p)
    /\ item' = [item EXCEPT ![c][p] = IF @ # None /\ @[1] = i[1] THEN i ELSE @]
    /\ UNCHANGED <<playback, activePlayer, activeClient>>
    /\ AboutPlayer(p)

SetNowPlayingClient(c) ==
    /\ GetClient(c)
    /\ activeClient' = c
    /\ Always
    /\ UNCHANGED <<players, playback, item, activePlayer>>

(* Mutant: only an explicit change of client is told.                       *)
SetNowPlayingPlayerUntold(c, p) ==
    /\ MayMake(c, p)
    /\ GetPlayer(c, p)
    /\ activePlayer' = [activePlayer EXCEPT ![c] = p]
    /\ told' = FALSE
    /\ UNCHANGED <<playback, item, activeClient>>

SetNowPlayingPlayer(c, p) ==
    /\ MayMake(c, p)
    /\ GetPlayer(c, p)
    /\ activePlayer' = [activePlayer EXCEPT ![c] = p]
    /\ UNCHANGED <<playback, item, activeClient>>
    /\ AboutClient(c)

Forget(c, ps) ==
    /\ playback' = [playback EXCEPT ![c] = [p \in Player |-> IF p \in ps THEN None ELSE @[p]]]
    /\ item' = [item EXCEPT ![c] = [p \in Player |-> IF p \in ps THEN None ELSE @[p]]]

RemoveClient(c) ==
    /\ IF c \in clients
       THEN /\ clients' = clients \ {c}
            /\ players' = [players EXCEPT ![c] = {}]
            /\ Forget(c, Player)
            /\ activePlayer' = [activePlayer EXCEPT ![c] = None]
            /\ activeClient' = IF activeClient = c THEN None ELSE activeClient
            /\ told' = (activeClient = c)
       ELSE /\ told' = FALSE
            /\ UNCHANGED <<stateVars, activePlayer, activeClient>>

(* REMOVE_PLAYER_MESSAGE: the player is made if there is none, and, if it   *)
(* has an identifier, deleted.  Whether it was the active one is asked of   *)
(* the client that no longer has it.                                        *)
RemovePlayer(c, p) ==
    /\ MayMake(c, p)
    /\ GetClient(c)
    /\ IF p = NoIdentifier
       THEN /\ players' = [players EXCEPT ![c] = @ \cup {p}]
            /\ told' = FALSE
            /\ UNCHANGED <<playback, item, activePlayer, activeClient>>
       ELSE /\ players' = [players EXCEPT ![c] = @ \ {p}]
            /\ Forget(c, {p})
            /\ activePlayer' = [activePlayer EXCEPT ![c] = IF @ = p THEN None ELSE @]
            /\ told' = (activePlayer[c] = p /\ c = activeClient)
            /\ UNCHANGED activeClient

SetDefaultSupportedCommands(c) ==
    /\ GetClient(c)
    /\ Always
    /\ UNCHANGED <<players, playback, item, activePlayer, activeClient>>

UpdateClient(c) ==
    /\ GetClient(c)
    /\ UNCHANGED <<players, playback, item, activePlayer, activeClient>>
    /\ AboutClient(c)

Next ==
    \E c \in Client :
        \/ \E p \in Player :
              \/ \E state \in Playback \cup {None} :
                    \E queue \in {<<>>, <<None>>} \cup {<<i>> : i \in Item} :
                       SetState(c, p, state, queue)
              \/ \E i \in Item : ContentItemUpdate(c, p, i)
              \/ SetNowPlayingPlayer(c, p)
              \/ RemovePlayer(c, p)
        \/ SetNowPlayingClient(c)
        \/ RemoveClient(c)
        \/ SetDefaultSupportedCommands(c)
        \/ UpdateClient(c)

Spec == Init /\ [][Next]_vars

-----------------------------------------------------------------------------
(* Properties.                                                              *)

(* The active client and the active players are registered ones, never an   *)
(* object that was removed, and a player that was removed leaves nothing    *)
(* for a later one of its identifier.                                       *)
ActiveIsRegistered ==
    /\ activeClient \in clients \cup {None}
    /\ \A c \in Client :
          /\ activePlayer[c] \in players[c] \cup {None}
          /\ players[c] # {} => c \in clients
          /\ \A p \in Player \ players[c] : playback[c][p] = None /\ item[c][p] = None

(* The client that plays something stays the active one unless the device   *)
(* says otherwise: no state of another client takes its place.              *)
NoClientIsRobbed ==
    [][(PlayingHasContent /\ activeClient' # activeClient) =>
          \E c \in Client : SetNowPlayingClient(c) \/ RemoveClient(c)]_vars

(* Whatever changes what is playing is told to the listener, but for two    *)
(* cases: the default player, active because no other is, is removed; and   *)
(* a client is inferred from the state of a player that is not its active   *)
(* one.                                                                     *)
DefaultRemoved == \E c \in Client : RemovePlayer(c, DefaultPlayer) /\ activePlayer[c] = None
Inferred == activeClient' \notin {activeClient, None}
ChangesAreTold == [][Shown' # Shown => told' \/ DefaultRemoved \/ Inferred]_vars
=============================================================================

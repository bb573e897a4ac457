------------------------------ MODULE NowPlaying ------------------------------
(***************************************************************************)
(* What an Apple TV plays, as MrpMetadata.playing returns it and           *)
(* MrpPushUpdater posts it (protocols/mrp/__init__.py).                    *)
(*                                                                         *)
(* playing() reads the player that is active, and when the item it plays   *)
(* has no series name it looks the item up on the web, which suspends it.  *)
(* Meanwhile messages of the device change the items and the active        *)
(* player, each in a task of its own, and every change of the active       *)
(* player begins an update of its own.  The player is read before the      *)
(* lookup, its item a second time after it.  Updates that wait for         *)
(* lookups therefore overtake each other, and a poll every 15 seconds puts *)
(* right what they left behind.                                            *)
(*                                                                         *)
(* The registry of clients and players is the module PlayerState; here it  *)
(* is reduced to a set of players one of which may be active.  An item is  *)
(* what the lookup depends on: its content identifier and its series name. *)
(***************************************************************************)
EXTENDS Naturals, FiniteSets

CONSTANTS
    Player,      \* the players of the device
    Content,     \* content identifiers
    Nothing,     \* None
    Task,        \* coroutines that may exist at the same time
    MaxChanges,  \* bound: messages of the device
    MaxStarts    \* bound: calls of start() that do something

ASSUME ConstantsAssumption ==
    /\ Nothing \notin Player \cup Content
    /\ "device" \notin Player \cup Content \cup {Nothing}
    /\ MaxChanges \in Nat /\ MaxStarts \in Nat

VARIABLES
    active,   \* the active player, or Nothing
    item,     \* of each player: items[location].metadata, or Nothing
    on,       \* psm.listener is the push updater: MrpPushUpdater.active
    task,     \* of each coroutine: what it is and where it is suspended
    posted,   \* _previous_state, which the user's listener was told last
    changes,  \* messages of the device so far
    starts    \* calls of start() so far

playingVars == <<active, item, on, task, posted, changes, starts>>

(* Who gave an item its series name: nobody, the device, or the result of  *)
(* a lookup of the content named.                                          *)
Source == Content \cup {Nothing, "device"}
Item == [id : Content, series : Source]

(* Coroutines: "push" runs state_updated once, "poll" is _poll_loop, "user" *)
(* is a call of playing() by the user.                                     *)
Idle == [kind |-> "none", pc |-> "done", player |-> Nothing, content |-> Nothing]
Ready(kind) == [Idle EXCEPT !.kind = kind, !.pc = "ready"]
Coroutine ==
    [kind : {"none", "push", "poll", "user"}, pc : {"done", "ready", "sleep", "lookup"},
     player : Player \cup {Nothing}, content : Content \cup {Nothing}]

PlayingTypeOK ==
    /\ active \in Player \cup {Nothing}
    /\ item \in [Player -> Item \cup {Nothing}]
    /\ on \in BOOLEAN
    /\ task \in [Task -> Coroutine]
    /\ \A t \in Task :
        /\ task[t].kind = "none" <=> task[t].pc = "done"
        /\ task[t].pc = "sleep" => task[t].kind = "poll"
        /\ task[t].pc = "lookup" <=> task[t].content # Nothing
        /\ task[t].player # Nothing <=> task[t].content # Nothing
    /\ posted \in Item \cup {Nothing}
    /\ changes \in 0..MaxChanges
    /\ starts \in 0..MaxStarts

PlayingInit ==
    /\ active = Nothing
    /\ item = [p \in Player |-> Nothing]
    /\ on = FALSE
    /\ task = [t \in Task |-> Idle]
    /\ posted = Nothing
    /\ changes = 0
    /\ starts = 0

Free(t) == task[t].pc = "done"

-----------------------------------------------------------------------------
(* playing() and the coroutines that call it                               *)

(* PlayerStateManager.playing: the item of the active player.              *)
Current == IF active = Nothing THEN Nothing ELSE item[active]

NeedsLookup(m) == m # Nothing /\ m.series = Nothing

(* Where a coroutine goes when state_updated or playing() is done with: a   *)
(* poll loop tests whether it is still active before it sleeps again.      *)
Rest(t) ==
    IF task[t].kind = "poll" /\ on THEN [Ready("poll") EXCEPT !.pc = "sleep"] ELSE Idle

(* post_update: only a state that differs is told, and kept.               *)
Post(t, m) == posted' = IF task[t].kind = "user" THEN posted ELSE m

(* playing() up to its lookup, or to its end when none is needed.          *)
Play(t) ==
    IF NeedsLookup(Current)
    THEN /\ task' = [task EXCEPT ![t].pc = "lookup", ![t].player = active,
                                 ![t].content = Current.id]
         /\ UNCHANGED posted
    ELSE /\ task' = [task EXCEPT ![t] = Rest(t)]
         /\ Post(t, Current)

(* What the resolvers find for a content identifier: nothing, also when the *)
(* web fails, or its series.                                               *)
Found(c) == {Nothing, c}

(* The rest of _resolve_external_content: a field is filled in when it is   *)
(* missing still.                                                          *)
Enriched(m, found) ==
    IF found # Nothing /\ NeedsLookup(m) THEN [m EXCEPT !.series = found] ELSE m

(* playing() goes on after its lookup: the item is that which the player    *)
(* has now.  When there is none any more the fields of None are read and    *)
(* the user is told of the error, or gets it raised.                       *)
LookupReturns(t) ==
    /\ task[t].pc = "lookup"
    /\ \E found \in Found(task[t].content) :
        LET p == task[t].player
            m == Enriched(item[p], found)
        IN  IF item[p] = Nothing /\ found # Nothing
            THEN UNCHANGED <<item, posted>>
            ELSE item' = [item EXCEPT ![p] = m] /\ Post(t, m)
    /\ task' = [task EXCEPT ![t] = Rest(t)]
    /\ UNCHANGED <<active, on, changes, starts>>

(* A coroutine that was scheduled runs for the first time.                 *)
Begin(t) ==
    /\ task[t].pc = "ready"
    /\ IF task[t].kind = "poll"
       THEN task' = [task EXCEPT ![t] = Rest(t)] /\ UNCHANGED posted
       ELSE Play(t)
    /\ UNCHANGED <<active, item, on, changes, starts>>

(* Mutant: the loop ends.                                                   *)
PollWakesOnce(t) ==
    /\ task[t].pc = "sleep"
    /\ task' = [task EXCEPT ![t] = Idle]
    /\ UNCHANGED <<active, item, on, posted, changes, starts>>

(* 15 seconds have passed.                                                 *)
PollWakes(t) ==
    /\ task[t].pc = "sleep"
    /\ IF on THEN Play(t) ELSE task' = [task EXCEPT ![t] = Idle] /\ UNCHANGED posted
    /\ UNCHANGED <<active, item, on, changes, starts>>

-----------------------------------------------------------------------------
(* The user                                                                *)

(* start() does nothing when active; otherwise it schedules an update and a *)
(* poll loop.                                                              *)
Start ==
    /\ ~ on
    /\ starts < MaxStarts
    /\ \E t, u \in Task :
        /\ t # u /\ Free(t) /\ Free(u)
        /\ task' = [task EXCEPT ![t] = Ready("push"), ![u] = Ready("poll")]
    /\ on' = TRUE
    /\ starts' = starts + 1
    /\ UNCHANGED <<active, item, posted, changes>>

(* stop() leaves every coroutine alone.                                    *)
Stop ==
    /\ on
    /\ on' = FALSE
    /\ UNCHANGED <<active, item, task, posted, changes, starts>>

Asks(t) ==
    /\ Free(t)
    /\ task' = [task EXCEPT ![t] = Ready("user")]
    /\ UNCHANGED <<active, item, on, posted, changes, starts>>

-----------------------------------------------------------------------------
(* The device                                                              *)

(* _state_updated, in the task of the message: the listener is told when    *)
(* what plays may have changed.  It reads the state after the message was   *)
(* handled.                                                                *)
Told(relevant) ==
    IF on /\ relevant
    THEN \E t \in Task : Free(t) /\ task' = [task EXCEPT ![t] = Ready("push")]
    ELSE UNCHANGED task

Change ==
    /\ changes < MaxChanges
    /\ changes' = changes + 1

(* SET_STATE with a queue: the player has another item, or none.  It may    *)
(* become the active one: whether that one still has content depends on     *)
(* playback states, which are not modelled.                                 *)
SetsItem(p, m) ==
    /\ Change
    /\ item' = [item EXCEPT ![p] = m]
    /\ \/ active' = active
       \/ (active = Nothing \/ m # Nothing) /\ active' = p
    /\ Told(active' \in {p, Nothing})
    /\ UNCHANGED <<on, posted, starts>>

(* UPDATE_CONTENT_ITEM: the device names the series of the item.            *)
UpdatesItem(p) ==
    /\ Change
    /\ item[p] # Nothing
    /\ item' = [item EXCEPT ![p].series = "device"]
    /\ Told(active \in {p, Nothing})
    /\ UNCHANGED <<active, on, posted, starts>>

(* SET_NOW_PLAYING_CLIENT or SET_NOW_PLAYING_PLAYER.                        *)
Switches(p) ==
    /\ Change
    /\ active' = p
    /\ Told(TRUE)
    /\ UNCHANGED <<item, on, posted, starts>>

(* REMOVE_CLIENT of the active client.  Its player, an object that a lookup *)
(* may still hold, keeps its item.                                         *)
Removes ==
    /\ Change
    /\ active # Nothing
    /\ active' = Nothing
    /\ Told(TRUE)
    /\ UNCHANGED <<item, on, posted, starts>>

Device ==
    \E p \in Player :
        \/ \E c \in Content, s \in {Nothing, "device"} : SetsItem(p, [id |-> c, series |-> s])
        \/ SetsItem(p, Nothing)
        \/ UpdatesItem(p)
        \/ Switches(p)
        \/ Removes

Steps(t) == Begin(t) \/ LookupReturns(t) \/ PollWakes(t)

PlayingNext ==
    \/ Device
    \/ Start
    \/ Stop
    \/ \E t \in Task : Asks(t) \/ Steps(t)

PlayingSpec == PlayingInit /\ [][PlayingNext]_playingVars

-----------------------------------------------------------------------------
(* While push updates are on and the device stays as it is, the listener    *)
(* has been told what plays in the end: whatever lookups, stale updates and *)
(* restarts left behind, a poll puts right.                                *)
ShownInTheEnd == <>[]on => <>[](posted = Current)

(* A series name that the device sent is kept: no lookup that began before  *)
(* it came, of this item or of another, overwrites it.                      *)
NameKept ==
    [][\A p \in Player :
         item[p] # Nothing /\ item[p].series = "device" /\ changes' = changes
            => item'[p] = item[p]]_playingVars

=============================================================================

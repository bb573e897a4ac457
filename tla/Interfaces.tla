----------------------------- MODULE Interfaces -----------------------------
(***************************************************************************)
(* What the user of a facade asks and is told (core/facade.py), while MRP    *)
(* may be connected and files are streamed with RAOP: calls are relayed to   *)
(* one of the protocols (core/relayer.py), updates of play status and of     *)
(* volume come from any of them (core/__init__.py, MessageDispatcher of      *)
(* core/protocol.py, protocols/raop/__init__.py).                           *)
(*                                                                         *)
(* Callbacks and new tasks go to the end of what the event loop runs next.   *)
(* NowPlaying has the lookups of MRP, and RaopStream what a stream awaits;   *)
(* here MRP knows at once what it plays.  A volume is one of a few levels.   *)
(*                                                                         *)
(* Power and the focus of the keyboard (awareVars) share nothing with these: *)
(* MRP and Companion learn of them from before they are registered.         *)
(***************************************************************************)
EXTENDS Integers, Sequences

CONSTANTS
    MaxMoves,        \* of the user and of the device
    MaxCallbacks     \* bound on the callbacks about power and focus

ASSUME InterfacesAssumption == {MaxMoves, MaxCallbacks} \subseteq Nat

MaxLevel == 2
InitialLevel == 1    \* INITIAL_VOLUME
NoLevel == -1
IdleStatus == 0           \* a play status; others are what plays
Unknown == -1
Nobody == "nobody"

VARIABLES
    beside,      \* MRP is connected, too
    hosted,      \* RAOP was set up by AirPlay, and takes over in its name
    holder,      \* _takeover_protocol of the relayers, or Nobody
    shows,       \* what playing() of each protocol returns
    previous,    \* _previous_state of its push updater
    pushing,     \* push updates are started, and have the facade as listener
    shown,       \* the play status that the user was told last
    lost,        \* updaters whose last post went to nobody
    ready,       \* what the event loop runs, in order
    guess,       \* context.volume of RAOP
    level,       \* FacadeAudio._volume, which the user was told
    unsaid,      \* guess was set, and nobody was told
    phase,       \* of the stream: "none", "opening", "opened", "sending" or "closing"
    setting,     \* levels that set_volume is sending
    moves

VARIABLES
    present,     \* protocols with power that are set up: MRP, Companion or both
    registered,  \* those that are connected and registered with the facade
    heard,       \* the protocol whose power has the facade as listener, or Nobody
    power,       \* power_state of each protocol
    focus,       \* text_focus_state of Companion
    kept,        \* _focus_state of FacadeKeyboard
    callbacks,   \* what the event loop runs, in order
    listens,     \* the user has set his listeners
    toldUser     \* what these were told last

awareVars == <<present, registered, heard, power, focus, kept, callbacks, listens, toldUser>>
statusVars == <<shows, previous, pushing, shown, lost>>
volumeVars == <<guess, level, unsaid>>
interfaceVars == <<beside, hosted, holder, statusVars, ready, volumeVars, phase, setting, moves>>

Priorities == <<"MRP", "AirPlay", "RAOP">>
Registered == {"RAOP"} \cup (IF beside THEN {"MRP"} ELSE {}) \cup (IF hosted THEN {"AirPlay"} ELSE {})

(* Relayer: the first of a sequence of protocols, of those that have an      *)
(* instance with the method; who took over comes before all.                *)
Overrides ==
    [MRP |-> {"playing", "push", "set_volume"}, AirPlay |-> {},
     RAOP |-> {"playing", "push", "set_volume"}]
Relayed(target) ==
    LET order == IF holder = Nobody THEN Priorities ELSE <<holder>> \o Priorities
        fits == {i \in DOMAIN order : order[i] \in Registered /\ target \in Overrides[order[i]]}
    IN  order[CHOOSE i \in fits : \A j \in fits : i <= j]
Main == Relayed("push")
Playing == shows[Relayed("playing")]
Updaters == {"RAOP"} \cup (IF beside THEN {"MRP"} ELSE {})

-----------------------------------------------------------------------------
(* Callbacks: a task that runs state_updated, playstatus_update of the        *)
(* facade, and a volume for one of the two that listen to volumes.          *)
Updated(u) == [run |-> "updated", of |-> u, what |-> Unknown]
Show(u, status) == [run |-> "show", of |-> u, what |-> status]
(* Mutant: what RAOP told is not taken by itself.                           *)
DispatchToOthers(from, v) ==
    <<[run |-> "volume", of |-> "facade", what |-> v]>>
        \o (IF from = "RAOP" THEN <<>> ELSE <<[run |-> "volume", of |-> "RAOP", what |-> v]>>)
Dispatched(from, v) ==
    <<[run |-> "volume", of |-> "facade", what |-> v], [run |-> "volume", of |-> "RAOP", what |-> v]>>

Triggered == IF pushing THEN <<Updated("RAOP")>> ELSE <<>>

(* post_update: only what differs, and to whom listens now.                 *)
Posts(u, queue) ==
    /\ previous' = [previous EXCEPT ![u] = shows'[u]]
    /\ ready' = IF shows'[u] # previous[u] /\ pushing THEN Append(queue, Show(u, shows'[u])) ELSE queue
    /\ lost' = IF shows'[u] = previous[u] THEN lost ELSE IF pushing THEN lost \ {u} ELSE lost \cup {u}

RunsUpdated(c) ==
    /\ c.run = "updated" /\ UNCHANGED shows /\ Posts(c.of, Tail(ready))
    /\ UNCHANGED <<pushing, shown, volumeVars>>

(* FacadePushUpdater.playstatus_update: by who is the main one by now.      *)
RunsShow(c) ==
    /\ c.run = "show" /\ ready' = Tail(ready)
    /\ shown' = IF c.of = Main THEN c.what ELSE shown
    /\ UNCHANGED <<shows, previous, pushing, lost, volumeVars>>

(* _volume_changed of FacadeAudio and of RaopAudio.                         *)
RunsVolume(c) ==
    /\ c.run = "volume" /\ ready' = Tail(ready)
    /\ level' = IF c.of = "facade" THEN c.what ELSE level
    /\ guess' = IF c.of = "RAOP" THEN c.what ELSE guess
    /\ unsaid' = IF c.of = "RAOP" THEN FALSE ELSE unsaid
    /\ UNCHANGED statusVars

RunsNext ==
    /\ ready # <<>>
    /\ RunsUpdated(Head(ready)) \/ RunsShow(Head(ready)) \/ RunsVolume(Head(ready))
    /\ UNCHANGED <<beside, hosted, holder, phase, setting, moves>>

-----------------------------------------------------------------------------
Moves == moves < MaxMoves /\ moves' = moves + 1

(* The user starts all push updaters, or stops them; a task that was made    *)
(* runs nevertheless.  MRP's start does nothing if it is active.             *)
StartsUpdates ==
    /\ Moves /\ pushing' = TRUE
    /\ ready' = ready \o (IF beside /\ ~ pushing THEN <<Updated("MRP")>> ELSE <<>>) \o <<Updated("RAOP")>>
    /\ UNCHANGED <<beside, hosted, holder, shows, previous, shown, lost, volumeVars, phase, setting>>
StopsUpdates ==
    /\ Moves /\ pushing /\ pushing' = FALSE
    /\ UNCHANGED <<beside, hosted, holder, shows, previous, shown, lost, ready, volumeVars, phase, setting>>

(* MRP: something else plays, and is posted by the task of the message; or   *)
(* the volume is another.                                                   *)
DevicePlays ==
    /\ Moves /\ beside
    /\ \E s \in {IdleStatus, 1} \ {shows["MRP"]} : shows' = [shows EXCEPT !["MRP"] = s]
    /\ IF pushing THEN Posts("MRP", ready) ELSE UNCHANGED <<previous, lost, ready>>
    /\ UNCHANGED <<beside, hosted, holder, pushing, shown, volumeVars, phase, setting>>
DeviceTellsVolume ==
    /\ Moves /\ beside
    /\ \E v \in 0..MaxLevel : ready' = ready \o Dispatched("MRP", v)
    /\ UNCHANGED <<beside, hosted, holder, statusVars, volumeVars, phase, setting>>

(* RaopAudio: set_volume, to which volume_up and volume_down lead.  With a    *)
(* client the receiver is asked first.                                      *)
Volume == IF guess = NoLevel THEN InitialLevel ELSE guess
Stepped == {v \in 0..MaxLevel : v \in {Volume - 1, Volume + 1} \/ (v = Volume /\ v \in {0, MaxLevel})}
HasClient == phase \in {"opened", "sending", "closing"}
Sets(v) ==
    IF HasClient THEN setting' = setting \cup {v} /\ UNCHANGED <<volumeVars, ready>>
    ELSE /\ guess' = v /\ ready' = ready \o Dispatched("RAOP", v)
         /\ UNCHANGED <<level, unsaid, setting>>
UserSetsVolume ==
    /\ Moves /\ Relayed("set_volume") = "RAOP"
    /\ \E v \in Stepped \cup {MaxLevel} : Sets(v)
    /\ UNCHANGED <<beside, hosted, holder, statusVars, phase>>
VolumeIsSet ==
    /\ \E v \in setting :
          /\ setting' = setting \ {v}
          /\ \/ guess' = v /\ ready' = ready \o Dispatched("RAOP", v) /\ UNCHANGED <<level, unsaid>>
             \/ UNCHANGED <<volumeVars, ready>>    \* the request fails, or comes to nothing
    /\ UNCHANGED <<beside, hosted, holder, statusVars, phase, moves>>

(* stream_file.  The volume is that of the receiver, or the receiver is told *)
(* what it is, now or when it plays.                                        *)
StreamOpens ==
    /\ Moves /\ phase = "none" /\ phase' = "opening"
    /\ holder' = IF hosted THEN "AirPlay" ELSE "RAOP"
    /\ UNCHANGED <<beside, hosted, statusVars, ready, volumeVars, setting>>
ClientIsThere ==
    /\ phase = "opening" /\ phase' = "opened"
    /\ \/ /\ guess = NoLevel /\ unsaid' = TRUE
          /\ \E v \in 0..MaxLevel : guess' = v
          /\ UNCHANGED <<level, setting>>
       \/ setting' = setting \cup {Volume} /\ UNCHANGED volumeVars
    /\ UNCHANGED <<beside, hosted, holder, statusVars, ready, moves>>
StreamPlays ==
    /\ phase = "opened" /\ phase' = "sending"
    /\ shows' = [shows EXCEPT !["RAOP"] = 2]
    /\ ready' = ready \o Triggered
    /\ UNCHANGED <<beside, hosted, holder, previous, pushing, shown, lost, volumeVars, setting, moves>>
DelayedVolume ==
    /\ phase = "sending" /\ guess = NoLevel /\ guess' = InitialLevel /\ unsaid' = TRUE
    /\ UNCHANGED <<beside, hosted, holder, statusVars, ready, level, phase, setting, moves>>

(* It ends, by itself or by pause() or stop(); or the end cannot be told to   *)
(* the receiver, and then not to the listener either.                       *)
StreamIsOver ==
    /\ phase \in {"opened", "sending"} /\ phase' = "closing" /\ holder' = Nobody
    /\ \/ shows' = [shows EXCEPT !["RAOP"] = IdleStatus] /\ ready' = ready \o Triggered
       \/ UNCHANGED <<shows, ready>>
    /\ UNCHANGED <<beside, hosted, previous, pushing, shown, lost, volumeVars, setting, moves>>
StreamIsGone ==
    /\ phase \in {"opening", "closing"} /\ phase' = "none"
    /\ holder' = Nobody
    /\ UNCHANGED <<beside, hosted, statusVars, ready, volumeVars, setting, moves>>

InterfaceInit ==
    /\ beside \in BOOLEAN /\ hosted \in BOOLEAN
    /\ holder = Nobody /\ shows = [u \in {"MRP", "RAOP"} |-> IdleStatus]
    /\ previous = [u \in {"MRP", "RAOP"} |-> Unknown]
    /\ pushing = FALSE /\ shown = Unknown /\ lost = {} /\ ready = <<>>
    /\ guess = NoLevel /\ level = 0 /\ unsaid = FALSE
    /\ phase = "none" /\ setting = {} /\ moves = 0

InterfaceNext ==
    \/ RunsNext \/ StartsUpdates \/ StopsUpdates \/ DevicePlays \/ DeviceTellsVolume
    \/ UserSetsVolume \/ VolumeIsSet \/ StreamOpens \/ ClientIsThere \/ StreamPlays
    \/ DelayedVolume \/ StreamIsOver \/ StreamIsGone

-----------------------------------------------------------------------------
(* Power and keyboard.                                                      *)

(* FacadePower favours Companion; only Companion has a keyboard.            *)
PowerOf(protocols) == IF "Companion" \in protocols THEN "Companion" ELSE "MRP"
KeyboardOf(protocols) == IF "Companion" \in protocols THEN "Companion" ELSE Nobody

Callback(about, what) == callbacks' = Append(callbacks, [about |-> about, what |-> what])
Room == Len(callbacks) < MaxCallbacks

(* connect(): one protocol after the other, and then, without a pause, the   *)
(* facade listens to the power of the main one.                             *)
MainPower(u) == IF registered' = present THEN PowerOf(present) ELSE heard
Registers(u) ==
    /\ u \in present \ registered
    /\ registered' = registered \cup {u}
    /\ heard' = MainPower(u)
    /\ UNCHANGED <<present, power, focus, kept, callbacks, listens, toldUser>>

(* Who listens to power is settled when the callback is made.               *)
LearnsPower(u, state) ==
    /\ u \in present /\ power[u] # state /\ Room
    /\ power' = [power EXCEPT ![u] = state]
    /\ IF heard = u THEN Callback("power", state) ELSE UNCHANGED callbacks
    /\ UNCHANGED <<present, registered, heard, focus, kept, listens, toldUser>>

(* _handle_text_input: the filter of FacadeKeyboard drops it while Companion *)
(* is not registered.                                                       *)
LearnsFocus(state) ==
    /\ "Companion" \in present /\ Room
    /\ focus' = state
    /\ IF KeyboardOf(registered) = "Companion" THEN Callback("focus", state) ELSE UNCHANGED callbacks
    /\ UNCHANGED <<present, registered, heard, power, kept, listens, toldUser>>

Tells(about, what) == toldUser' = IF listens THEN [toldUser EXCEPT ![about] = what] ELSE toldUser
PowerstateUpdate(c) == c.about = "power" /\ Tells("power", c.what) /\ UNCHANGED kept
FocusStateChanged(c) ==
    /\ c.about = "focus" /\ kept' = c.what
    /\ IF c.what # kept THEN Tells("focus", c.what) ELSE UNCHANGED toldUser
RunsCallback ==
    /\ callbacks # <<>> /\ callbacks' = Tail(callbacks)
    /\ PowerstateUpdate(Head(callbacks)) \/ FocusStateChanged(Head(callbacks))
    /\ UNCHANGED <<present, registered, heard, power, focus, listens>>

UserListens ==
    /\ registered = present /\ ~ listens /\ listens' = TRUE
    /\ UNCHANGED <<present, registered, heard, power, focus, kept, callbacks, toldUser>>

AwareInit ==
    /\ present \in {{"MRP"}, {"Companion"}, {"MRP", "Companion"}}
    /\ registered = {} /\ heard = Nobody /\ callbacks = <<>> /\ listens = FALSE
    /\ power = [u \in {"MRP", "Companion"} |-> "Unknown"]
    /\ focus = "Unknown" /\ kept = "Unknown"
    /\ toldUser = [about \in {"power", "focus"} |-> "nothing"]
AwareNext ==
    \/ \E u \in present : Registers(u) \/ \E state \in {"On", "Off", "Unknown"} : LearnsPower(u, state)
    \/ \E state \in {"Focused", "Unfocused"} : LearnsFocus(state)
    \/ RunsCallback \/ UserListens

-----------------------------------------------------------------------------
(* When nothing is left to run: what each updater posted last is what plays; *)
(* if it is always the same one that counts, the user was told it, unless it *)
(* was posted to nobody; and the volume that the user was told last is the   *)
(* one RAOP goes by, however RAOP, its receiver and MRP told theirs, unless  *)
(* RAOP took it without a word.  Once the user was told of power or focus,   *)
(* what he was told last is what he gets when he asks, whatever changed     *)
(* while the protocols connected and whichever of them learns first.        *)
UserIsTold ==
    /\ ready = <<>> =>
        /\ pushing => \A u \in Updaters : previous[u] = shows[u]
        /\ pushing /\ (hosted \/ ~ beside) /\ Main \notin lost => shown = Playing
        /\ guess = NoLevel \/ unsaid \/ guess = level
    /\ callbacks = <<>> =>
        /\ toldUser["power"] \in {"nothing", power[PowerOf(registered)]}
        /\ toldUser["focus"] \in {"nothing", focus} /\ kept \in {"Unknown", focus}
=============================================================================

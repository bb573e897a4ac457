----------------------------- MODULE MrpControls -----------------------------
(***************************************************************************)
(* What a user calls of an MRP device that takes more than one message      *)
(* (protocols/mrp/__init__.py): keys (_send_hid_key), MrpPower and MrpAudio, *)
(* with what FacadeAudio keeps of output devices.  The device acts on a      *)
(* message when it is sent, or ignores it; what it says is received later   *)
(* and in order.                                                            *)
(*                                                                         *)
(* Two units of a level are what is left after rounding to one decimal:     *)
(* odd levels are requested as they are and reported as the even one below. *)
(***************************************************************************)
EXTENDS Integers, Sequences, FiniteSets

CONSTANTS
    Task,        \* coroutines that call an operation, one after the other
    MaxCalls,    \* bound on the calls
    MaxLevel,    \* the volume at 100%
    VolumeStep   \* what the volume keys do, and 5 percent

ASSUME ControlAssumption ==
    /\ MaxCalls \in Nat
    /\ {MaxLevel, VolumeStep} \subseteq {2 * n : n \in 1..MaxLevel}

Level == 0..MaxLevel
Rounded(l) == l - (l % 2)

(* device_uid, and that of another device that may be in the group. *)
Uid == {"own", "other"}
Ability == [absolute : BOOLEAN, relative : BOOLEAN]

VARIABLES
    todo,       \* what each call has left to do
    waits,      \* what it awaits
    calls,      \* how many calls there were
    keys,       \* the device: keys that are down,
    isOn, level, grouped, \* whether it is on, the volumes, whether the other is in the group
    inbox,      \* and what it has said
    powerState, \* power_state of MrpPower
    volume,     \* of MrpAudio
    abilities,  \* is_volume_absolute and is_volume_relative
    listed,     \* the volumes of output_devices
    renewed,    \* output devices were listed again
    ignored,    \* the device ignored a command
    stuck       \* keys held by a call that was cancelled

deviceVars == <<keys, isOn, level, grouped>>
knownVars == <<powerState, volume, abilities, listed, renewed>>
controlVars == <<todo, waits, calls, deviceVars, inbox, knownVars, ignored, stuck>>

ControlInit ==
    /\ todo = [t \in Task |-> <<>>] /\ waits = [t \in Task |-> "nothing"] /\ calls = 0
    /\ keys = {} /\ isOn \in BOOLEAN /\ level = [u \in Uid |-> 0] /\ grouped \in BOOLEAN
    /\ inbox = <<>>
    /\ powerState = isOn /\ volume = 0 /\ abilities \in Ability
    /\ listed = [u \in IF grouped THEN Uid ELSE {"own"} |-> 0]
    /\ renewed = FALSE /\ ignored = FALSE /\ stuck = {}

(* -------------------------------- programs ------------------------------- *)
(* A call is a sequence of stages: what it sends and what it then awaits.  *)
Stage(does, of, awaits) == [does |-> does, of |-> of, to |-> 0, awaits |-> awaits]
SetStage(uid, to) == [does |-> "set", of |-> uid, to |-> to, awaits |-> "volume"]

(* _send_command, and whatever is one message and its answer.               *)
SendCommand == <<Stage("command", "", "answer")>>

(* _send_hid_key with flush.  A key is pressed and released without a      *)
(* pause, unless it is held for a second.                                   *)
SingleTap(key) == <<Stage("tap", key, "answer")>>
DoubleTap(key) == SingleTap(key) \o SingleTap(key)
HoldForGood(key) == <<Stage("press", key, "time")>>    \* mutant
Hold(key) == <<Stage("press", key, "time"), Stage("release", key, "answer")>>

TurnOn(awaitNewState) == <<Stage("wake", "", IF awaitNewState THEN "on" ELSE "nothing")>>
TurnOff(awaitNewState) ==
    Hold("home") \o <<Stage("nothing", "", "time")>> \o SingleTap("select")
        \o (IF awaitNewState THEN <<Stage("nothing", "", "off")>> ELSE <<>>)

(* volume_up and volume_down; a key that is pressed needs no answer.        *)
Ramp(key, limit, next) ==
    IF abilities.absolute /\ volume = limit THEN <<>>
    ELSE IF abilities.relative THEN <<Stage("tap", key, IF abilities.absolute THEN "volume" ELSE "nothing")>>
    ELSE IF abilities.absolute THEN <<SetStage("own", next)>>
    ELSE <<>>
VolumeUp == Ramp("volume_up", MaxLevel, IF volume + VolumeStep > MaxLevel THEN MaxLevel ELSE volume + VolumeStep)
VolumeDown == Ramp("volume_down", 0, IF volume < VolumeStep THEN 0 ELSE volume - VolumeStep)

(* set_volume of the device, or of an output device that is in the list.    *)
SetVolume(to) ==
    <<[SetStage("own", to) EXCEPT !.awaits = IF abilities.absolute /\ volume # to THEN "volume" ELSE "nothing"]>>
SetOutputVolume(uid, to) ==
    <<[SetStage(uid, to) EXCEPT !.awaits = IF listed[uid] # to THEN "volume" ELSE "nothing"]>>
SetOutputDevices == <<Stage("outputs", "", "outputs")>>

Programs ==
    {SendCommand, SingleTap("select"), DoubleTap("select"), Hold("home"), VolumeUp, VolumeDown, SetOutputDevices}
        \cup {TurnOn(b) : b \in BOOLEAN} \cup {TurnOff(b) : b \in BOOLEAN}
        \cup {SetVolume(to) : to \in Level} \cup {SetOutputVolume(u, to) : u \in DOMAIN listed, to \in Level}

(* --------------------------------- a call -------------------------------- *)
Says(kind, uid, value) == [kind |-> kind, uid |-> uid, value |-> value]
SaysLevel(uid, old, new) == IF old = new THEN <<>> ELSE <<Says("volume", uid, new)>>
SaysInfo(on, group) == <<Says("info", IF group THEN "other" ELSE "own", IF on THEN 1 ELSE 0)>>

SetsLevel(uid, to) ==
    /\ level' = [level EXCEPT ![uid] = to]
    /\ inbox' = inbox \o SaysLevel(uid, level[uid], to)
    /\ UNCHANGED <<isOn, grouped>>
Acts(on, group) ==
    /\ isOn' = on /\ grouped' = group
    /\ inbox' = IF on = isOn /\ group = grouped THEN inbox ELSE inbox \o SaysInfo(on, group)
    /\ UNCHANGED level

(* The device does what it is told, except for its keys.                    *)
Obeys(stage) ==
    CASE stage.does = "tap" /\ stage.of = "volume_up" ->
           SetsLevel("own", IF level["own"] + VolumeStep > MaxLevel THEN MaxLevel ELSE level["own"] + VolumeStep)
      [] stage.does = "tap" /\ stage.of = "volume_down" ->
           SetsLevel("own", IF level["own"] < VolumeStep THEN 0 ELSE level["own"] - VolumeStep)
      [] stage.does = "set" -> SetsLevel(stage.of, stage.to)
      [] stage.does = "wake" -> Acts(TRUE, grouped)
      [] stage.does = "tap" /\ stage.of = "select" -> \E on \in {isOn, FALSE} : Acts(on, grouped)
      [] stage.does = "outputs" -> \E group \in BOOLEAN : Acts(isOn, group)
      [] OTHER -> UNCHANGED <<isOn, level, grouped, inbox>>

(* Whether it is awaited: the state that is awaited may be known already.   *)
Awaits(stage) ==
    IF (stage.awaits = "on" /\ powerState) \/ (stage.awaits = "off" /\ ~ powerState) THEN "nothing" ELSE stage.awaits

Performs(t, program) ==
    LET stage == Head(program)
    IN  /\ keys' = CASE stage.does = "press" -> keys \cup {stage.of}
                     [] stage.does \in {"release", "tap"} -> keys \ {stage.of}
                     [] OTHER -> keys
        /\ \/ Obeys(stage) /\ UNCHANGED ignored
           \/ stage.does # "nothing" /\ ignored' = TRUE /\ UNCHANGED <<isOn, level, grouped, inbox>>
        /\ waits' = [waits EXCEPT ![t] = Awaits(stage)]
        /\ todo' = [todo EXCEPT ![t] = IF Awaits(stage) = "nothing" THEN Tail(program) ELSE program]

Idle(t) == waits[t] = "nothing" /\ todo[t] = <<>>
Calls(t, program) ==
    /\ Idle(t) /\ calls < MaxCalls /\ calls' = calls + 1
    /\ program # <<>> /\ Performs(t, program)
    /\ UNCHANGED <<knownVars, stuck>>

Drops(t, then) == todo' = [todo EXCEPT ![t] = <<>>] /\ waits' = [waits EXCEPT ![t] = "nothing"]
Resumes(t) ==
    /\ IF Len(todo[t]) = 1
       THEN Drops(t, "returns") /\ UNCHANGED <<deviceVars, inbox, ignored>>
       ELSE Performs(t, Tail(todo[t]))
    /\ UNCHANGED <<calls, knownVars, stuck>>
(* A second is over, or the flush was answered. *)
GoesOn(t) == waits[t] \in {"time", "answer"} /\ Resumes(t)
(* A flush fails, or what is awaited for five seconds does not come.        *)
WaitFails(t) ==
    /\ waits[t] \in {"answer", "volume", "outputs"} /\ Drops(t, "raises")
    /\ UNCHANGED <<calls, deviceVars, inbox, knownVars, ignored, stuck>>
Cancelled(t) ==
    /\ waits[t] # "nothing" /\ Drops(t, "raises")
    /\ stuck' = IF Head(todo[t]).does = "press" THEN stuck \cup {Head(todo[t]).of} ELSE stuck
    /\ UNCHANGED <<calls, deviceVars, inbox, knownVars, ignored>>

(* ------------------------------ what is received ------------------------- *)
(* An event is set and cleared: whoever waits for it now returns; these are *)
(* the last stages of their calls.                                          *)
Wakes(event) ==
    /\ waits' = [t \in Task |-> IF waits[t] = event THEN "nothing" ELSE waits[t]]
    /\ todo' = [t \in Task |-> IF waits[t] = event THEN <<>> ELSE todo[t]]

(* _volume_did_change, and _output_device_volume_changed of the facade: the *)
(* volume of the device itself is not kept with the output devices.         *)
VolumeDidChange(message) ==
    /\ message.kind = "volume"
    /\ IF message.uid = "own"
       THEN volume' = Rounded(message.value) /\ UNCHANGED listed
       ELSE /\ listed' = [u \in DOMAIN listed |-> IF u = message.uid THEN Rounded(message.value) ELSE listed[u]]
            /\ UNCHANGED volume
    /\ Wakes("volume")
    /\ UNCHANGED <<powerState, abilities, renewed>>

(* _update_power_state and _update_output_devices, one after the other.    *)
DeviceInfoUpdate(message) ==
    /\ message.kind = "info"
    /\ powerState' = (message.value = 1)
    /\ listed' = [u \in IF message.uid = "other" THEN Uid ELSE {"own"} |-> 0]
    /\ renewed' = TRUE
    /\ LET over == {t \in Task : waits[t] \in {IF powerState' THEN "on" ELSE "off", "outputs"}}
       IN  /\ waits' = [t \in Task |-> IF t \in over THEN "nothing" ELSE waits[t]]
           /\ todo' = [t \in Task |-> IF t \in over THEN <<>> ELSE todo[t]]
    /\ UNCHANGED <<volume, abilities>>

Receives ==
    /\ inbox # <<>> /\ inbox' = Tail(inbox)
    /\ VolumeDidChange(Head(inbox)) \/ DeviceInfoUpdate(Head(inbox))
    /\ UNCHANGED <<calls, deviceVars, ignored, stuck>>

(* _volume_control_changed, for this device. *)
AbilitiesChange ==
    /\ abilities' \in Ability
    /\ UNCHANGED <<todo, waits, calls, deviceVars, inbox, powerState, volume, listed, renewed, ignored, stuck>>

ControlNext ==
    \/ \E t \in Task : (\E program \in Programs : Calls(t, program)) \/ GoesOn(t) \/ WaitFails(t) \/ Cancelled(t)
    \/ Receives \/ AbilitiesChange

(***************************************************************************)
(* Properties.                                                             *)
(***************************************************************************)
(* A key that is down will be released by the call that holds it; only a    *)
(* call that was cancelled in between leaves one behind.                    *)
KeysAreReleased ==
    keys \subseteq stuck \cup {Head(todo[t]).of : t \in {u \in Task : waits[u] = "time"}}

(* Nobody waits in vain, however two calls and what is on the way           *)
(* interleave.  Nobody waits for a power state that the device is known to   *)
(* have: turn_on and turn_off have no timeout and would wait for the next   *)
(* change.  And whoever waits for the volume to change will be told of a    *)
(* change, so set_volume does not fail when the device did what it was told. *)
(* It does fail for a level that is rounded, and for an output device: the   *)
(* volume of this one is not kept there, and that of the others is forgotten *)
(* with the next list.                                                      *)
NobodyWaitsInVain ==
    \A t \in Task :
        /\ waits[t] = "on" => ~ powerState
        /\ waits[t] = "off" => powerState
        /\ waits[t] = "volume" =>
            \/ ignored \/ \E i \in DOMAIN inbox : inbox[i].kind = "volume"
            \/ LET stage == Head(todo[t])
               IN  stage.does = "set" /\ (stage.to # Rounded(stage.to) \/ stage.of = "own" \/ renewed)

(* No call hangs, and none leaves the device with a key down.               *)
NothingHangs == NobodyWaitsInVain /\ KeysAreReleased
=============================================================================

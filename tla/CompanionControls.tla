------------------------- MODULE CompanionControls -------------------------
(***************************************************************************)
(* The interfaces of the Companion protocol: protocols/companion/__init__.py *)
(* (apps, accounts, power, remote control, audio, keyboard, touch, features) *)
(* and the commands of CompanionAPI in api.py that they call, beside the     *)
(* connections of Companion.  A behaviour has one of the two parts: a        *)
(* connection that comes and goes, or a connected device that is controlled. *)
(*                                                                         *)
(* What the interfaces know (media control flags, volume, focus of the       *)
(* keyboard, power) comes in events, which MessageDispatcher hands to tasks  *)
(* of their own, and in answers, which wake the task that asked: frames      *)
(* arrive in order, but what they start is not run in that order.            *)
(***************************************************************************)
EXTENDS Companion

CONSTANTS
    Caller,      \* coroutines that call an interface
    MaxLevel,    \* the volume goes from 0 to this
    MaxActs      \* bound on the calls and what the device changes by itself

ASSUME ControlsAssumption ==
    /\ MaxLevel \in Nat \ {0} /\ MaxActs \in Nat
    /\ Caller \cap {"event", "volume", "nobody"} = {}

VARIABLES
    part,         \* "connection" or "controls"
    program,      \* what the call of each caller has yet to do
    awaits,       \* each caller: "nothing", "answer", "time" or "volume"
    toDevice,     \* requests on the way; to = who awaits the answer
    toApi,        \* events and answers on the way
    handlers,     \* tasks of MessageDispatcher that have not begun to run
    woken,        \* answers whose waiters have not run yet
    known,        \* _control_flags, _volume, _focus_state and _power_state
    volumeEvent,  \* CompanionAudio._volume_event
    device,       \* what is so
    keys,         \* the keys, and the finger on the touchpad, that are down
    left,         \* those whose call failed or was cancelled before their release
    missed,       \* what an answer would have told that nobody took, or took late
    used          \* counts the calls and the changes of the device

callVars == <<program, awaits>>
netVars == <<toDevice, toApi, handlers, woken>>
controlVars == <<callVars, netVars, known, volumeEvent, device, keys, left, missed, used>>

Level == 0..MaxLevel
Stage(does, of) == [does |-> does, of |-> of]

-----------------------------------------------------------------------------
(* The calls.  A "press" or "release" is hid_command, "touch" hid_event.     *)

Press(key) == Stage("press", key)
Release(key) == Stage("release", key)
Sleep == Stage("sleep", "")

(* _press_button; another action raises NotSupportedError.                  *)
PressButton(key, action) ==
    CASE action = "SingleTap" -> <<Press(key), Release(key)>>
      [] action = "Hold" -> <<Press(key), Sleep, Release(key)>>
      [] action = "DoubleTap" -> <<Press(key), Release(key), Press(key), Release(key)>>

(* CompanionAPI.click and swipe, whose time is over after any of its steps; *)
(* action() is one touch, which the caller has to end.                      *)
Click(action) ==
    LET once == <<Press("select"), Sleep, Release("select"), Stage("touch", "click")>>
    IN  IF action = "DoubleTap" THEN once \o once ELSE once
Swipe(steps) ==
    <<Stage("touch", "press")>>
        \o FlattenSeq([i \in 1..steps |-> <<Stage("touch", "hold"), Sleep>>])
        \o <<Stage("touch", "release")>>

(* turn_on and turn_off send a release only, and do not await a new state.  *)
Turn(command) == <<Release(command)>>

(* set_volume, volume_up and volume_down of CompanionAudio.                 *)
SetVolume(level) == <<Stage("forget", ""), Stage("set", level), Stage("volume", "")>>
StepVolume(key) == <<Stage("forget", ""), Press(key), Release(key), Stage("volume", "")>>

(* text_input_command: the session is started again; what is left of the    *)
(* call is dropped when the answer tells of no text field.                  *)
TextInput(clear, text) ==
    <<Stage("stop", ""), Stage("start", "")>>
        \o (IF clear THEN <<Stage("type", "clear")>> ELSE <<>>)
        \o (IF text THEN <<Stage("type", "input")>> ELSE <<>>)

(* mediacontrol_command for all but the volume, app_list, launch_app,       *)
(* account_list and switch_account: one exchange.                           *)
Command == <<Stage("command", "")>>

Programs ==
    {PressButton("select", a) : a \in {"SingleTap", "Hold", "DoubleTap"}}
        \cup {Click("SingleTap"), Click("DoubleTap"), Swipe(0), Swipe(1), Turn("wake"), Command}
        \cup {SetVolume(level) : level \in Level} \cup {StepVolume("volumeUp"), StepVolume("volumeDown")}
        \cup {TextInput(clear, text) : clear, text \in BOOLEAN}

Calls(c, p) ==
    /\ program[c] = <<>>
    /\ used < MaxActs
    /\ used' = used + 1
    /\ program' = [program EXCEPT ![c] = p]
    /\ UNCHANGED <<awaits, netVars, known, volumeEvent, device, keys, left, missed>>

Asks(c) == Head(program[c]).does \in {"press", "release", "set", "stop", "start", "command"}

(* The next stage of a call: send a request and await its answer, send an   *)
(* event, which nobody answers, sleep, or wait for the volume to change.    *)
Does(c) ==
    /\ program[c] # <<>> /\ awaits[c] = "nothing"
    /\ LET s == Head(program[c])
           next == [program EXCEPT ![c] = Tail(@)]
       IN  \/ /\ Asks(c)
              /\ toDevice' = Append(toDevice, [to |-> c, does |-> s.does, of |-> s.of])
              /\ awaits' = [awaits EXCEPT ![c] = "answer"]
              /\ UNCHANGED <<program, volumeEvent>>
           \/ /\ s.does \in {"touch", "type"}
              /\ toDevice' = Append(toDevice, [to |-> "nobody", does |-> s.does, of |-> s.of])
              /\ program' = next
              /\ UNCHANGED <<awaits, volumeEvent>>
           \/ /\ s.does \in {"sleep", "volume"}
              /\ awaits' = [awaits EXCEPT ![c] = IF s.does = "sleep" THEN "time" ELSE "volume"]
              /\ UNCHANGED <<toDevice, program, volumeEvent>>
           \/ /\ s.does = "forget"
              /\ volumeEvent' = FALSE
              /\ program' = next
              /\ UNCHANGED <<toDevice, awaits>>
    /\ UNCHANGED <<toApi, handlers, woken, known, device, keys, left, missed, used>>

(* The sleep is over, or the event of the volume is set.                    *)
WaitEnds(c) ==
    /\ awaits[c] = "time" \/ (awaits[c] = "volume" /\ volumeEvent)
    /\ awaits' = [awaits EXCEPT ![c] = "nothing"]
    /\ program' = [program EXCEPT ![c] = Tail(@)]
    /\ UNCHANGED <<netVars, known, volumeEvent, device, keys, left, missed, used>>

(* What a call that ends here leaves down: what it pressed and has yet to   *)
(* release, and perhaps the key whose press it awaits.                      *)
Pending(c) ==
    {program[c][i].of : i \in {j \in DOMAIN program[c] : program[c][j].does \in {"press", "release"}}}
        \cup (IF \E j \in DOMAIN program[c] : program[c][j] = Stage("touch", "release")
              THEN {"finger"} ELSE {})

(* A request is refused (ProtocolError), times out or is cancelled, as is   *)
(* any other await; a late answer finds nobody.                             *)
Ignored(frames, who) ==
    [i \in DOMAIN frames |-> IF frames[i].to = who THEN [frames[i] EXCEPT !.to = "nobody"] ELSE frames[i]]
Without(frames, who) ==
    LET kept[n \in 0..Len(frames)] ==
          IF n = 0 THEN <<>> ELSE IF frames[n].to # who THEN Append(kept[n - 1], frames[n]) ELSE kept[n - 1]
    IN  kept[Len(frames)]
Fails(c) ==
    /\ awaits[c] # "nothing"
    /\ awaits' = [awaits EXCEPT ![c] = "nothing"]
    /\ program' = [program EXCEPT ![c] = <<>>]
    /\ left' = left \cup Pending(c)
    /\ missed' = IF Head(program[c]).does = "start" THEN missed \cup {"focus"} ELSE missed
    /\ toDevice' \in {Ignored(toDevice, c), Without(toDevice, c)}
    /\ toApi' = Ignored(toApi, c) /\ woken' = Ignored(woken, c)
    /\ UNCHANGED <<handlers, known, volumeEvent, device, keys, used>>

-----------------------------------------------------------------------------
(* The device.                                                              *)

Says(what, value) == [to |-> "event", does |-> what, of |-> value]
Answers(r, value) == [to |-> r.to, does |-> r.does, of |-> value]
Clamped(level) == IF level < 0 THEN 0 ELSE IF level > MaxLevel THEN MaxLevel ELSE level

(* A change of the volume is told as media control flags, by a device that  *)
(* lets its volume be controlled.                                           *)
Told(level) ==
    IF level # device.level THEN <<Says("flags", TRUE)>> ELSE <<>>
Sets(r, level, value) ==
    IF device.control
    THEN /\ device' = [device EXCEPT !.level = level]
         /\ toApi' = toApi \o Told(level) \o <<Answers(r, value)>>
    ELSE /\ toApi' = Append(toApi, Answers(r, value))
         /\ UNCHANGED device

DeviceHandles ==
    /\ toDevice # <<>>
    /\ toDevice' = Tail(toDevice)
    /\ LET r == Head(toDevice)
       IN  \/ /\ r.does = "press"
              /\ keys' = keys \cup {r.of}
              /\ Sets(r, Clamped(device.level + (CASE r.of = "volumeUp" -> 1 [] r.of = "volumeDown" -> -1
                                                   [] OTHER -> 0)), "ok")
           \/ /\ r.does = "release"
              /\ keys' = keys \ {r.of}
              /\ toApi' = Append(toApi, Answers(r, "ok"))
              /\ UNCHANGED device
           \/ r.does = "set" /\ Sets(r, r.of, "ok") /\ UNCHANGED keys
           \/ /\ r.does \in {"get", "command"}
              /\ toApi' = Append(toApi, Answers(r, device.level))
              /\ UNCHANGED <<device, keys>>
           \/ /\ r.does \in {"stop", "start"}
              /\ device' = [device EXCEPT !.session = (r.does = "start")]
              /\ toApi' = Append(toApi, Answers(r, device.focused))
              /\ UNCHANGED keys
           \/ /\ r.does = "touch"
              /\ keys' = IF r.of \in {"press", "hold"} THEN keys \cup {"finger"} ELSE keys \ {"finger"}
              /\ UNCHANGED <<device, toApi>>
           \/ r.does = "type" /\ UNCHANGED <<device, keys, toApi>>
    /\ UNCHANGED <<callVars, handlers, woken, known, volumeEvent, left, missed, used>>

(* What happens at the device itself.  A session of the keyboard is told of *)
(* the focus when that changes (_tiStarted, _tiStopped).                    *)
DeviceChanges ==
    /\ used < MaxActs
    /\ used' = used + 1
    /\ \/ /\ device' = [device EXCEPT !.control = ~ @]
          /\ toApi' = Append(toApi, Says("flags", ~ device.control))
       \/ /\ device.control
          /\ \E level \in Level \ {device.level} :
                /\ device' = [device EXCEPT !.level = level]
                /\ toApi' = toApi \o Told(level)
       \/ /\ device' = [device EXCEPT !.focused = ~ @]
          /\ toApi' = IF device.session THEN Append(toApi, Says("focus", ~ device.focused)) ELSE toApi
       \/ /\ device' = [device EXCEPT !.awake = ~ @]
          /\ toApi' = Append(toApi, Says("status", ~ device.awake))
    /\ UNCHANGED <<callVars, toDevice, handlers, woken, known, volumeEvent, keys, left, missed>>

-----------------------------------------------------------------------------
(* The event loop.                                                          *)

(* frame_received: an event makes MessageDispatcher create tasks, an answer *)
(* wakes who awaits it.                                                     *)
Receives ==
    /\ toApi # <<>>
    /\ toApi' = Tail(toApi)
    /\ LET f == Head(toApi)
       IN  IF f.to = "event" THEN handlers' = Append(handlers, f) /\ UNCHANGED woken
           ELSE /\ woken' = IF f.to = "nobody" THEN woken ELSE Append(woken, f)
                /\ UNCHANGED handlers
    /\ UNCHANGED <<callVars, toDevice, known, volumeEvent, device, keys, left, missed, used>>

(* An event of the focus was sent after the answer to a _tiStart and is      *)
(* handled before it.                                                       *)
Overtakes(events, answers) ==
    /\ \E i \in DOMAIN events : events[i].does = "focus"
    /\ \E i \in DOMAIN answers : answers[i].does = "start"
NotesOvertaking(events, answers) ==
    missed' = IF Overtakes(events, answers) THEN missed \cup {"focus"} ELSE missed

HandlesNewFlags(control) ==    \* mutant: the volume is asked for when the flags are new
    /\ known' = [known EXCEPT !.control = control]
    /\ toDevice' = IF control # known.control THEN Append(toDevice, [to |-> "volume", does |-> "get", of |-> ""])
                   ELSE toDevice

(* CompanionFeatures and CompanionAudio._handle_control_flag_update.        *)
HandlesFlags(control) ==
    /\ known' = [known EXCEPT !.control = control, !.level = IF control THEN @ ELSE 0]
    /\ toDevice' = IF control THEN Append(toDevice, [to |-> "volume", does |-> "get", of |-> ""])
                   ELSE toDevice

(* _handle_text_input and _handle_system_status_update, which do not await  *)
(* anything.                                                                *)
HandlerRuns ==
    /\ handlers # <<>>
    /\ handlers' = Tail(handlers)
    /\ LET f == Head(handlers)
       IN  \/ f.does = "flags" /\ HandlesFlags(f.of)
           \/ /\ f.does \in {"focus", "start"}
              /\ known' = [known EXCEPT !.focused = f.of]
              /\ UNCHANGED toDevice
           \/ /\ f.does = "status"
              /\ known' = [known EXCEPT !.awake = f.of]
              /\ UNCHANGED toDevice
    /\ NotesOvertaking(<<Head(handlers)>>, woken)
    /\ UNCHANGED <<callVars, toApi, woken, volumeEvent, device, keys, left, used>>

(* Who awaited an answer runs again: the caller, and the handler that asked *)
(* for the volume.  _text_input_start hands its answer to the dispatcher    *)
(* and awaits that.                                                         *)
Resumes ==
    /\ woken # <<>>
    /\ woken' = Tail(woken)
    /\ LET f == Head(woken)
       IN  \/ /\ f.to = "volume"
              /\ known' = [known EXCEPT !.level = f.of]
              /\ volumeEvent' = TRUE
              /\ UNCHANGED <<callVars, handlers, missed>>
           \/ /\ f.to \in Caller
              /\ awaits' = [awaits EXCEPT ![f.to] = "nothing"]
              /\ program' = [program EXCEPT ![f.to] = IF f.does = "start" /\ ~ f.of THEN <<>> ELSE Tail(@)]
              /\ handlers' = IF f.does = "start" THEN Append(handlers, f) ELSE handlers
              /\ NotesOvertaking(handlers, <<f>>)
              /\ UNCHANGED <<known, volumeEvent>>
           \/ f.to = "nobody" /\ UNCHANGED <<callVars, handlers, missed, known, volumeEvent>>
    /\ UNCHANGED <<toDevice, toApi, device, keys, left, used>>

(* The request of a handler is refused or times out: the exception is that  *)
(* of a task which nobody looks at.                                         *)
HandlerFails ==
    /\ \E i \in DOMAIN toDevice : toDevice[i].to = "volume"
    /\ toDevice' = Without(toDevice, "volume")
    /\ missed' = missed \cup {"level"}
    /\ UNCHANGED <<callVars, toApi, handlers, woken, known, volumeEvent, device, keys, left, used>>

ControlNext ==
    \/ \E c \in Caller : (\E p \in Programs : Calls(c, p)) \/ Does(c) \/ WaitEnds(c) \/ Fails(c)
    \/ DeviceHandles \/ DeviceChanges
    \/ Receives \/ HandlerRuns \/ Resumes \/ HandlerFails

ControlInit ==
    /\ program = [c \in Caller |-> <<>>] /\ awaits = [c \in Caller |-> "nothing"]
    /\ toDevice = <<>> /\ toApi = <<>> /\ handlers = <<>> /\ woken = <<>>
    /\ device = [control |-> TRUE, level |-> 1, focused |-> FALSE, session |-> TRUE, awake |-> TRUE]
    /\ known = [control |-> TRUE, level |-> 1, focused |-> FALSE, awake |-> TRUE]
    /\ volumeEvent = FALSE
    /\ keys = {} /\ left = {} /\ missed = {}
    /\ used = 0

-----------------------------------------------------------------------------
controlsOrConnection == <<part, vars, controlVars>>

CompanionInit ==
    /\ part \in {"connection", "controls"}
    /\ Starting(IF part = "connection" THEN {"setup"} ELSE {})
    /\ ControlInit

CompanionNext ==
    /\ UNCHANGED part
    /\ \/ part = "connection" /\ Next /\ UNCHANGED controlVars
       \/ part = "controls" /\ ControlNext /\ UNCHANGED vars

(* As in Companion; nothing is asked of the controls.                       *)
CompanionSpec ==
    /\ CompanionInit /\ [][CompanionNext]_controlsOrConnection
    /\ \A t \in Task :
         WF_vars(part = "connection" /\ (Runs(t) \/ Wakes(t)) /\ UNCHANGED <<part, controlVars>>)

-----------------------------------------------------------------------------
(* Properties.                                                              *)

(* When nothing is on the way and nobody has to run, what the interfaces    *)
(* know is so: the flags, the power, the volume while it may be controlled  *)
(* and the focus while a session tells of it.  Left out are a volume whose  *)
(* request failed, and a focus that was told by an answer which nobody      *)
(* took, or which an event overtook in the event loop.  And no key, nor the *)
(* finger, is down but by a call that failed.                               *)
Quiet == toDevice = <<>> /\ toApi = <<>> /\ handlers = <<>> /\ woken = <<>>
KnownIsTrue ==
    Quiet =>
        /\ known.control = device.control /\ known.awake = device.awake
        /\ device.control => known.level = device.level \/ "level" \in missed
        /\ device.session => known.focused = device.focused \/ "focus" \in missed
        /\ (\A c \in Caller : program[c] = <<>>) => keys \subseteq left
=============================================================================

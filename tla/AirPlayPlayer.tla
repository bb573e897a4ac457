---------------------------- MODULE AirPlayPlayer ----------------------------
(***************************************************************************)
(* Playing from an URL with AirPlay: AirPlayStream of                      *)
(* protocols/airplay/__init__.py, AirPlayPlayer of player.py, and what     *)
(* AirPlayV1 and AirPlayV2 do for it.  A play is a coroutine in play_url;  *)
(* pc names what it, or the task it waits for, awaits.  All of them share  *)
(* the connection and the task that the stream remembers.                  *)
(***************************************************************************)
EXTENDS Integers, Sequences, FiniteSets, SequencesExt

CONSTANTS
    Call,          \* calls of play_url
    None,
    Other,         \* another protocol that takes the remote control over
    PLAY_RETRIES,
    WAIT_RETRIES,
    EVENT_RETRIES  \* of _setup_base, for a channel that is refused

ASSUME PlayerAssumption ==
    /\ None \notin Call /\ Other \notin Call
    /\ {PLAY_RETRIES, EVENT_RETRIES} \subseteq Nat \ {0}
    /\ WAIT_RETRIES \in Nat

VARIABLES
    version,   \* what get_protocol_version finds: 1 or 2
    plays,     \* what each call keeps
    stream,    \* _connection and _play_task, by the call they are of
    taken,     \* who has taken over the remote control
    media      \* what the device does with the URL of each call

playerVars == <<version, plays, stream, taken, media>>

(* What play_url of AirPlayV1 and of AirPlayV2 await, one after the other. *)
StepsV1 == <<"verify", "play">>
SetupBase == <<"verify", "setup", "events">>
StepsV2 == SetupBase \o <<"record", "play", "properties">>
Steps == <<StepsV1, StepsV2>>[version]

Requests == {"verify", "setup", "record", "play", "properties", "playback-info"}
Waits == {"timing", "events", "retry", "sleep"}
InPlayer == Requests \cup Waits

Called == [pc |-> "called", conn |-> "none", server |-> FALSE, cancelled |-> FALSE,
           retry |-> 0, attempts |-> WAIT_RETRIES, refused |-> 0, code |-> "ok",
           left |-> {}, outcome |-> "none"]

PlayerInit ==
    /\ version \in {1, 2}
    /\ plays = [c \in Call |-> Called]
    /\ stream = [connection |-> None, task |-> None]
    /\ taken = None
    /\ media = [c \in Call |-> "loading"]

-----------------------------------------------------------------------------
(* The play is as p from now on. *)
Becomes(c, p) == plays' = [plays EXCEPT ![c] = p]

(* What is left of a play: all but the web server, which takes its time.   *)
Over(p, outcome, conn) ==
    [Called EXCEPT !.pc = IF p.server THEN "close server" ELSE "ended",
                   !.server = p.server,
                   !.conn = IF p.conn = "open" THEN conn ELSE p.conn,
                   !.left = p.left,
                   !.outcome = outcome]

(* The "finally" clause of play_url. *)
Finally(c, p, outcome) ==
    /\ taken' = None
    /\ stream' = [connection |-> None, task |-> None]
    /\ Becomes(c, Over(p, outcome, IF stream.connection = None THEN "open" ELSE "closed"))

(* timing_server closes its socket only when its body comes to its end.    *)
Returns(c, p, outcome) == Finally(c, [p EXCEPT !.left = @ \ {"timing"}], outcome)

(* The task goes on to a step.  A request on a connection that is gone     *)
(* raises RuntimeError, which ends a play that polls.                      *)
GoesTo(c, p, step) ==
    IF step \notin Requests \/ p.conn = "open"
    THEN Becomes(c, [p EXCEPT !.pc = step]) /\ UNCHANGED <<stream, taken>>
    ELSE IF step = "playback-info" THEN Returns(c, p, "returned") ELSE Finally(c, p, "raised")

Begins(c, p) == GoesTo(c, p, Steps[1])

-----------------------------------------------------------------------------
(* AirPlayStream.                                                          *)

(* A local file is served by a web server. *)
StartServer(c) ==
    /\ plays[c].pc = "called"
    /\ Becomes(c, [plays[c] EXCEPT !.pc = "start server", !.server = TRUE])
    /\ UNCHANGED <<version, stream, taken, media>>

(* takeover raises if somebody has taken over already, and the web server  *)
(* is not closed then.                                                     *)
Takeover(c) ==
    /\ plays[c].pc \in {"called", "start server"}
    /\ IF taken = None
       THEN taken' = c /\ Becomes(c, [plays[c] EXCEPT !.pc = "http_connect"])
       ELSE /\ UNCHANGED taken
            /\ Becomes(c, [plays[c] EXCEPT !.pc = "ended", !.outcome = "refused"])
    /\ UNCHANGED <<version, stream, media>>

Connected(c) ==
    /\ plays[c].pc = "http_connect"
    /\ stream' = [connection |-> c, task |-> c]
    /\ Becomes(c, [plays[c] EXCEPT !.pc = "timing", !.conn = "open"])
    /\ UNCHANGED <<version, taken, media>>

(* Mutant: connecting is done before the try. *)
ConnectFailsOutside(c) ==
    /\ plays[c].pc = "http_connect"
    /\ Becomes(c, [plays[c] EXCEPT !.pc = "ended", !.outcome = "raised"])
    /\ UNCHANGED <<version, stream, taken, media>>

ConnectFails(c) ==
    /\ plays[c].pc = "http_connect"
    /\ Finally(c, plays[c], "raised")
    /\ UNCHANGED <<version, media>>

ServerCloses(c) ==
    /\ plays[c].pc = "close server"
    /\ Becomes(c, [plays[c] EXCEPT !.pc = "ended", !.server = FALSE])
    /\ UNCHANGED <<version, stream, taken, media>>

(* close() of the connection that the stream remembers.  Requests that are *)
(* waiting for their response are dropped, and wait until they time out.   *)
ConnectionClosed == IF stream.connection = None THEN plays
                    ELSE [plays EXCEPT ![stream.connection].conn =
                              IF @ = "open" THEN "closed" ELSE @]

(* stop, and AirPlayRemoteControl.stop. *)
Stop ==
    /\ stream.connection # None
    /\ plays' = ConnectionClosed
    /\ UNCHANGED <<version, stream, taken, media>>

(* close.  While there is no connection yet, there is nothing to close.    *)
StreamClose ==
    /\ stream.connection # None \/ stream.task # None
    /\ plays' = IF stream.task = None THEN ConnectionClosed
                ELSE [ConnectionClosed EXCEPT ![stream.task].cancelled = TRUE]
    /\ stream' = [connection |-> None, task |-> None]
    /\ UNCHANGED <<version, taken, media>>

-----------------------------------------------------------------------------
(* AirPlayPlayer.play_url, and play_url of AirPlayV1 and AirPlayV2.        *)

TimingServer(c) ==
    /\ plays[c].pc = "timing"
    /\ Begins(c, [plays[c] EXCEPT !.left = @ \cup {"timing"}])
    /\ UNCHANGED <<version, media>>

(* Once the response to /play is there and the protocol is done with it.   *)
Response(c, p) ==
    \/ p.code = "500" /\ Becomes(c, [p EXCEPT !.pc = "retry", !.retry = @ + 1])
                      /\ UNCHANGED <<stream, taken>>
    \/ p.code = "4xx" /\ Finally(c, p, "raised")
    \/ p.code = "ok" /\ GoesTo(c, [p EXCEPT !.attempts = WAIT_RETRIES], "playback-info")

(* The step is done.  AirPlayV2 leaves the channel for events open, and    *)
(* its task for feedback starts once.                                      *)
Step(c) ==
    /\ \E i \in 1..Len(Steps) :
         /\ Steps[i] = plays[c].pc
         /\ plays[c].pc \in Requests => plays[c].conn = "open"
         /\ \E code \in IF Steps[i] = "play" THEN {"ok", "500", "4xx"} ELSE {plays[c].code} :
              LET p == [plays[c] EXCEPT !.code = code, !.refused = 0,
                                        !.left = IF Steps[i] = "events"
                                                 THEN @ \cup {"events", "feedback"} ELSE @]
              IN IF i = Len(Steps) THEN Response(c, p) ELSE GoesTo(c, p, Steps[i + 1])
    /\ UNCHANGED <<version, media>>

(* ConnectionRefusedError of the channel for events: tried again. *)
EventsRefused(c) ==
    /\ plays[c].pc = "events"
    /\ IF plays[c].refused + 1 = EVENT_RETRIES THEN Finally(c, plays[c], "raised")
       ELSE /\ Becomes(c, [plays[c] EXCEPT !.refused = @ + 1])
            /\ UNCHANGED <<stream, taken>>
    /\ UNCHANGED <<version, media>>

(* An error response, ConnectionLostError, or no response in time.  Only   *)
(* the loss of the connection ends a play that polls as it should.         *)
Fails(c) ==
    /\ plays[c].pc \in (Requests \cup {"timing", "events"})
    /\ IF plays[c].pc = "playback-info" /\ plays[c].conn = "lost"
       THEN Returns(c, plays[c], "returned")
       ELSE Finally(c, plays[c], "raised")
    /\ UNCHANGED <<version, media>>

Retry(c) ==
    /\ plays[c].pc = "retry"
    /\ IF plays[c].retry < PLAY_RETRIES THEN Begins(c, plays[c])
       ELSE Returns(c, plays[c], "raised")
    /\ UNCHANGED <<version, media>>

Sleeps(c) ==
    /\ plays[c].pc = "sleep"
    /\ GoesTo(c, plays[c], "playback-info")
    /\ UNCHANGED <<version, media>>

(* Cancelled by close, or because the caller of play_url was. *)
Cancelled(c) ==
    /\ plays[c].cancelled /\ plays[c].pc \in InPlayer
    /\ Finally(c, plays[c], "cancelled")
    /\ UNCHANGED <<version, media>>

CallerCancelled(c) ==
    /\ \/ /\ plays[c].pc = "http_connect" /\ Finally(c, plays[c], "cancelled")
       \/ /\ plays[c].pc \in InPlayer
          /\ Becomes(c, [plays[c] EXCEPT !.cancelled = TRUE])
          /\ UNCHANGED <<stream, taken>>
    /\ UNCHANGED <<version, media>>

-----------------------------------------------------------------------------
(* Mutant: responses from before the media starts are not counted. *)
LeftUncounted(p, started) == IF started THEN -1 ELSE p.attempts

(* The attempts that are left after a response without error: none as soon *)
(* as the media has started once.                                          *)
AttemptsLeft(p, started) ==
    IF started THEN -1 ELSE IF p.attempts >= 0 THEN p.attempts - 1 ELSE p.attempts

(* _wait_for_media_to_end, when the response is there. *)
PlaybackInfo(c) ==
    /\ plays[c].pc = "playback-info" /\ plays[c].conn = "open"
    /\ LET started == media[c] = "playing"
           p == [plays[c] EXCEPT !.attempts = AttemptsLeft(plays[c], started)]
       IN IF ~started /\ p.attempts < 0 THEN Returns(c, p, "returned")
          ELSE Becomes(c, [p EXCEPT !.pc = "sleep"]) /\ UNCHANGED <<stream, taken>>
    /\ UNCHANGED <<version, media>>

PlaybackInfoError(c) ==
    /\ plays[c].pc = "playback-info" /\ plays[c].conn = "open"
    /\ Finally(c, plays[c], "raised")
    /\ UNCHANGED <<version, media>>

-----------------------------------------------------------------------------
(* The device, the network, and another protocol. *)
DeviceGoesOn(c) ==
    /\ plays[c].pc \in {"playback-info", "sleep"}
    /\ \/ media[c] = "loading" /\ media' = [media EXCEPT ![c] = "playing"]
       \/ media[c] = "playing" /\ media' = [media EXCEPT ![c] = "over"]
    /\ UNCHANGED <<version, plays, stream, taken>>

LoseConnection(c) ==
    /\ plays[c].conn = "open"
    /\ Becomes(c, [plays[c] EXCEPT !.conn = "lost"])
    /\ UNCHANGED <<version, stream, taken, media>>

OtherTakesOver ==
    /\ \/ taken = None /\ taken' = Other
       \/ taken = Other /\ taken' = None
    /\ UNCHANGED <<version, plays, stream, media>>

-----------------------------------------------------------------------------
(* What the event loop makes a play do: somebody answers, or a timer fires. *)
PlayRuns(c) ==
    \/ Takeover(c) /\ plays[c].pc = "start server"
    \/ Connected(c) \/ ConnectFails(c) \/ ServerCloses(c)
    \/ TimingServer(c) \/ Step(c) \/ EventsRefused(c) \/ Fails(c)
    \/ Retry(c) \/ Sleeps(c) \/ Cancelled(c) \/ PlaybackInfo(c) \/ PlaybackInfoError(c)

PlayerNext ==
    \/ \E c \in Call : PlayRuns(c) \/ StartServer(c) \/ Takeover(c) \/ CallerCancelled(c)
                       \/ DeviceGoesOn(c) \/ LoseConnection(c)
    \/ Stop \/ StreamClose \/ OtherTakesOver

-----------------------------------------------------------------------------
(* Whatever way a play ended, once it had taken over: nobody is kept from  *)
(* the remote control, its connection is closed and so is the web server   *)
(* (the finally clause of play_url); the timing server is closed at least  *)
(* when the media ended.                                                   *)
PlayReleases ==
    \A c \in Call : plays[c].pc = "ended" /\ plays[c].outcome # "refused" =>
        /\ taken # c /\ plays[c].conn # "open" /\ ~plays[c].server
        /\ plays[c].outcome = "returned" => "timing" \notin plays[c].left

(* A play ends when the media is over, and when its connection is gone     *)
(* (stop, close, lost), whatever it was awaiting.                          *)
PlayEnds ==
    \A c \in Call : (media[c] = "over" \/ plays[c].conn \in {"closed", "lost"})
                        ~> plays[c].pc = "ended"
=============================================================================

----------------------------- MODULE RaopStream -----------------------------
(***************************************************************************)
(* Streaming audio with RAOP: RaopStream.stream_file and                     *)
(* RaopPlaybackManager of protocols/raop/__init__.py, StreamClient and       *)
(* ControlClient of stream_client.py, the packet FIFO of fifo.py, and the    *)
(* resources that AirPlayV1 and AirPlayV2 hold for a stream.                 *)
(*                                                                         *)
(* A caller is a coroutine in stream_file(); pc names what it awaits.  Every *)
(* step that is awaited may fail, and then the "finally" clauses run from    *)
(* there.  The audio is counted in packets; what they hold is left out, and *)
(* a stream is shorter than the 27 hours after which rtptime has 33 bits.    *)
(***************************************************************************)
EXTENDS Integers, Sequences, SequencesExt

CONSTANTS
    Caller,      \* coroutines that may call stream_file, again and again
    Version,     \* the major versions of AirPlay that get_protocol_version returns
    Modulus,     \* 2^16, of the sequence numbers
    BacklogSize, \* PACKET_BACKLOG_SIZE
    Compensate,  \* MAX_PACKETS_COMPENSATE
    Latency,     \* the packets of padding that context.latency amounts to
    Length       \* the lengths of the sources that end, in packets

(* A source of this length has no end: a radio station.                      *)
Endless == -1

ASSUME StreamAssumption ==
    /\ Version \subseteq {1, 2}
    /\ Modulus \in Nat /\ BacklogSize \in 1..(Modulus - 1)
    /\ Compensate \in Nat
    /\ Latency \in Nat \ {0}
    /\ Length \subseteq Nat

Seqno == 0..(Modulus - 1)

(* What stream_file awaits: before there is a source, with the source, and   *)
(* in send_audio.  "exchanges" stands for the requests of one step.          *)
Opening == {"http_connect", "control", "timing", "setup", "open_source"}
Sending == {"endpoint", "metadata", "feedback", "record", "volume", "read", "sleep"}
Closing == {"teardown", "close_source"}
Label == {"idle", "set_volume"} \cup Opening \cup Sending \cup Closing

VARIABLES
    pc,          \* what each caller awaits
    acquired,    \* _is_acquired of the playback manager
    taken,       \* the interfaces are taken over
    connection,  \* the RTSP connection: "none", "up" or "lost"
    client,      \* _stream_client is not None
    playing,     \* _is_playing of the client
    sockets,     \* the sockets of the client that are open
    forgotten,   \* sockets left open with no client to close them
    feedback,    \* the task that keeps the connection alive runs
    syncing,     \* the sync task of the control client runs
    info,        \* playback_info of the manager is not None
    deferred,    \* the volume that is set once streaming has started
    left,        \* packets left in the source
    rtpseq,      \* rtpseq of the context
    padding,     \* padding_sent of the context
    late,        \* packets left to send in this lap, to catch up
    backlog      \* the sequence numbers in the packet FIFO, oldest first

managerVars == <<acquired, taken, connection, client>>
clientVars == <<playing, sockets, forgotten, feedback, syncing>>
contextVars == <<rtpseq, padding>>
streamVars == <<left, late, backlog>>
streamerVars == <<pc, managerVars, clientVars, info, deferred, contextVars, streamVars>>

Socket == {"control", "timing", "events", "audio"}
Volume == {"unset", "zero", "audible"}

StreamTypeOK ==
    /\ pc \in [Caller -> Label]
    /\ acquired \in BOOLEAN /\ taken \in BOOLEAN
    /\ connection \in {"none", "up", "lost"}
    /\ client \in BOOLEAN /\ playing \in BOOLEAN
    /\ sockets \subseteq Socket /\ forgotten \subseteq Socket
    /\ feedback \in BOOLEAN /\ syncing \in BOOLEAN /\ info \in BOOLEAN
    /\ deferred \in Volume
    /\ left \in Nat \cup {Endless}
    /\ rtpseq \in Seqno
    /\ padding \in 0..Latency
    /\ late \in 0..Compensate
    /\ backlog \in Seq(Seqno) /\ Len(backlog) <= BacklogSize /\ IsInjective(backlog)

StreamInit ==
    /\ pc = [c \in Caller |-> "idle"]
    /\ acquired = FALSE /\ taken = FALSE
    /\ connection = "none"
    /\ client = FALSE /\ playing = FALSE
    /\ sockets = {} /\ forgotten = {}
    /\ feedback = FALSE /\ syncing = FALSE /\ info = FALSE
    /\ deferred = "unset"
    /\ left = 0
    /\ rtpseq = 0 /\ padding = 0 /\ late = 0
    /\ backlog = <<>>

Streaming(c) == pc[c] # "idle"

-----------------------------------------------------------------------------
(* The ends of a stream.                                                    *)

At(c, label) == pc[c] = label

GoesTo(c, label) == pc' = [pc EXCEPT ![c] = label]

ContextReset == rtpseq' \in Seqno /\ padding' = 0

(* StreamProtocol.teardown: the feedback task is cancelled and the event    *)
(* channel is closed.                                                       *)
ProtocolTeardown(open) ==
    /\ feedback' = FALSE
    /\ sockets' = open \ {"events"}

(* ControlClient.close: without a transport nothing is sent any more, and   *)
(* connection_lost cancels the sync task.  Nobody calls stop().             *)
ControlClose == syncing' = FALSE

(* StreamClient.close.  The client has its control socket only when it has  *)
(* both: a timing socket that could not be bound leaves the other behind.   *)
ClosedByClient == IF "timing" \in sockets THEN {"control", "timing"} ELSE {}
ClientClose(open) == ProtocolTeardown(open \ ClosedByClient) /\ ControlClose

(* Mutant: only the connection is closed, not the client.                   *)
ManagerTeardownKeepsClient ==
    /\ connection' = "none"
    /\ ContextReset
    /\ acquired' = FALSE
    /\ UNCHANGED <<client, clientVars>>

(* RaopPlaybackManager.teardown.                                            *)
ManagerTeardown ==
    /\ feedback' = FALSE /\ client' = FALSE /\ playing' = FALSE
    /\ ControlClose
    /\ sockets' = {}
    /\ forgotten' = forgotten \cup (sockets \ (ClosedByClient \cup {"events"}))
    /\ connection' = "none"
    /\ ContextReset
    /\ acquired' = FALSE

(* The locals of stream_file are gone.                                      *)
Forget == deferred' = "unset" /\ left' = 0 /\ late' = 0

(* The "finally" of stream_file when there is no source to close.           *)
Abandon(c) ==
    /\ GoesTo(c, "idle")
    /\ taken' = FALSE
    /\ ManagerTeardown
    /\ Forget
    /\ UNCHANGED <<info, backlog>>

(* The "finally" of stream_file: the takeover ends and the source is closed.*)
Finally(c) ==
    /\ GoesTo(c, "close_source")
    /\ taken' = FALSE
    /\ Forget
    /\ UNCHANGED <<acquired, connection, client, playing, forgotten, contextVars>>

(* The "finally" of send_audio when there is no socket for the audio.       *)
SendFinallyUnconnected(c) ==
    /\ backlog' = <<>>
    /\ ClientClose(sockets)
    /\ info' = FALSE
    /\ Finally(c)

(* The same with one: the RTSP session is torn down first.                  *)
SendFinally(c) ==
    /\ GoesTo(c, "teardown")
    /\ backlog' = <<>>
    /\ Forget
    /\ UNCHANGED <<managerVars, clientVars, info, contextVars>>

-----------------------------------------------------------------------------
(* RaopStream.stream_file.                                                  *)

(* acquire() and the takeover.  When the manager is acquired it raises, and *)
(* nothing changes.                                                         *)
Acquire(c) ==
    /\ At(c, "idle")
    /\ ~ acquired
    /\ acquired' = TRUE /\ taken' = TRUE
    /\ GoesTo(c, "http_connect")
    /\ UNCHANGED <<connection, client, clientVars, info, deferred, contextVars, streamVars>>

(* An interface is taken over by somebody else: the takeover raises, and    *)
(* nobody releases the manager.                                             *)
TakeoverRaises(c) ==
    /\ At(c, "idle")
    /\ ~ acquired /\ acquired' = TRUE
    /\ UNCHANGED <<pc, taken, connection, client, clientVars, info, deferred, contextVars,
                   streamVars>>

(* RaopPlaybackManager.setup; it never finds an active client.              *)
Connected(c) ==
    /\ At(c, "http_connect")
    /\ connection' = "up" /\ client' = TRUE
    /\ GoesTo(c, "control")
    /\ UNCHANGED <<acquired, taken, clientVars, info, deferred, contextVars, streamVars>>

(* StreamClient.initialize: the two sockets are bound, one after the other. *)
Bound(c, socket, next) ==
    /\ At(c, socket)
    /\ sockets' = sockets \cup {socket}
    /\ GoesTo(c, next)
    /\ UNCHANGED <<managerVars, playing, forgotten, feedback, syncing, info, deferred, contextVars,
                   streamVars>>

(* The rest of initialize: /info, auth-setup, and the set-up of the         *)
(* protocol, which for AirPlay 2 opens the event channel.                   *)
SetUp(c) ==
    /\ At(c, "setup")
    /\ connection = "up"
    /\ \E version \in Version :
          sockets' = sockets \cup (IF version = 2 THEN {"events"} ELSE {})
    /\ GoesTo(c, "open_source")
    /\ UNCHANGED <<managerVars, playing, forgotten, feedback, syncing, info, deferred, contextVars,
                   streamVars>>

(* open_source.  The volume is then the one that /info told, or it is set   *)
(* first; what /info told may have the wrong type.                          *)
OpenSource(c) ==
    /\ At(c, "open_source")
    /\ left' \in Length \cup {Endless}
    /\ GoesTo(c, "set_volume")
    /\ UNCHANGED <<managerVars, clientVars, info, deferred, contextVars, late, backlog>>

(* send_audio begins: the context is reset.                                 *)
BeginSendAudio(c) ==
    /\ GoesTo(c, "endpoint")
    /\ ContextReset
    /\ UNCHANGED <<managerVars, clientVars, info, late, backlog>>

OpenSourceKnownVolume(c) ==
    /\ At(c, "open_source")
    /\ left' \in Length \cup {Endless}
    /\ BeginSendAudio(c)
    /\ UNCHANGED deferred

OpenSourceWrongVolume(c) ==
    /\ At(c, "open_source")
    /\ Finally(c)
    /\ UNCHANGED <<sockets, feedback, syncing, info, backlog>>

(* A step that is awaited raises before there is a source.                  *)
OpeningFails(c) ==
    /\ pc[c] \in Opening
    /\ Abandon(c)

SetVolume(c) ==
    /\ At(c, "set_volume")
    /\ connection = "up"
    /\ BeginSendAudio(c)
    /\ UNCHANGED <<deferred, left>>

(* The volume could not be set: it is to be set once streaming has started. *)
SetVolumeFails(c) ==
    /\ At(c, "set_volume")
    /\ deferred' \in {"zero", "audible"}
    /\ BeginSendAudio(c)
    /\ UNCHANGED left

-----------------------------------------------------------------------------
(* StreamClient.send_audio.                                                 *)

(* ControlClient.start: _sync_task sends a packet every second.             *)
ControlStart == syncing' = TRUE

(* The socket for the audio and the sync task; then the progress, the       *)
(* metadata and the artwork are sent, as far as the receiver supports them. *)
Endpoint(c) ==
    /\ At(c, "endpoint")
    /\ sockets' = sockets \cup {"audio"}
    /\ ControlStart
    /\ \E next \in {"metadata", "feedback"} : GoesTo(c, next)
    /\ UNCHANGED <<managerVars, playing, forgotten, feedback, info, deferred, contextVars,
                   streamVars>>

EndpointFails(c) ==
    /\ At(c, "endpoint")
    /\ SendFinallyUnconnected(c)

Metadata(c) ==
    /\ At(c, "metadata")
    /\ connection = "up"
    /\ GoesTo(c, "feedback")
    /\ UNCHANGED <<managerVars, clientVars, info, deferred, contextVars, streamVars>>

(* start_feedback: AirPlay 1 asks whether the receiver supports it, AirPlay *)
(* 2 starts the task.  Then the listener is told that media plays.          *)
Feedback(c) ==
    /\ At(c, "feedback")
    /\ \/ "events" \in sockets /\ feedback' = TRUE
       \/ "events" \notin sockets /\ connection = "up" /\ feedback' \in BOOLEAN
    /\ info' = TRUE
    /\ GoesTo(c, "record")
    /\ UNCHANGED <<managerVars, playing, sockets, forgotten, syncing, deferred, contextVars, streamVars>>

(* The head of _stream_data, whose first packet awaits frames.              *)
StreamData(c) ==
    /\ playing' = TRUE
    /\ GoesTo(c, "read")
    /\ UNCHANGED <<managerVars, sockets, forgotten, feedback, syncing, info, contextVars, streamVars>>

(* RECORD and FLUSH; a volume that was deferred is set, unless it is 0.     *)
Record(c) ==
    /\ At(c, "record")
    /\ connection = "up"
    /\ UNCHANGED deferred
    /\ IF deferred = "audible"
       THEN /\ GoesTo(c, "volume")
            /\ UNCHANGED <<managerVars, clientVars, info, contextVars, streamVars>>
       ELSE StreamData(c)

DeferredVolume(c) ==
    /\ At(c, "volume")
    /\ connection = "up"
    /\ deferred' = "unset"
    /\ StreamData(c)

(* Mutant: every lap claims to play.                                        *)
LapIgnoresStop(c) ==
    /\ At(c, "sleep")
    /\ IF padding >= Latency THEN SendFinally(c)
       ELSE /\ GoesTo(c, "read")
            /\ playing' = TRUE
            /\ UNCHANGED <<managerVars, sockets, forgotten, feedback, syncing, info, deferred,
                           contextVars, streamVars>>

(* The sleep of a lap is over.                                              *)
Lap(c) ==
    /\ At(c, "sleep")
    /\ IF ~ playing \/ padding >= Latency THEN SendFinally(c)
       ELSE /\ GoesTo(c, "read")
            /\ UNCHANGED <<managerVars, clientVars, info, deferred, contextVars, streamVars>>

(* PacketFifo.__setitem__ of a sequence number that is not there.           *)
Enqueue(seqno) ==
    backlog' = Append(IF Len(backlog) = BacklogSize THEN Tail(backlog) ELSE backlog, seqno)

(* How many packets more are sent before the lap sleeps: as many as it is   *)
(* behind the clock, up to Compensate, and one less with each of them.      *)
Behind == IF late = 0 THEN 0..Compensate ELSE {late - 1}

(* The frames, or padding when there are none, are sent and put in the      *)
(* backlog.                                                                 *)
Read(c) ==
    /\ At(c, "read")
    /\ "audio" \in sockets
    /\ padding' = padding + (IF left = 0 THEN 1 ELSE 0)
    /\ rtpseq' = (rtpseq + 1) % Modulus
    /\ \E behind \in Behind :
          IF behind > 0 /\ padding' >= Latency
          THEN GoesTo(c, "teardown") /\ backlog' = <<>> /\ Forget
          ELSE /\ GoesTo(c, IF behind = 0 THEN "sleep" ELSE "read")
               /\ late' = behind
               /\ left' = IF left > 0 THEN left - 1 ELSE left
               /\ Enqueue(rtpseq)
               /\ UNCHANGED deferred
    /\ UNCHANGED <<managerVars, clientVars, info>>

(* The socket was closed by an error: the stream ends.                      *)
ReadClosed(c) ==
    /\ At(c, "read")
    /\ "audio" \notin sockets
    /\ SendFinally(c)

(* A step that is awaited raises once there is a socket for the audio.      *)
SendFails(c) ==
    /\ pc[c] \in Sending \ {"endpoint", "sleep"}
    /\ SendFinally(c)

(* TEARDOWN is answered: everything is closed and the listener is told.     *)
Teardown(c) ==
    /\ At(c, "teardown")
    /\ connection = "up"
    /\ ClientClose(sockets \ {"audio"})
    /\ info' = FALSE
    /\ Finally(c)
    /\ UNCHANGED backlog

(* It raises: what follows it in the "finally" is skipped.                  *)
TeardownRaises(c) ==
    /\ At(c, "teardown")
    /\ Finally(c)
    /\ UNCHANGED <<sockets, feedback, syncing, info, backlog>>

(* The source is closed, and the manager torn down.                         *)
CloseSource(c) ==
    /\ At(c, "close_source")
    /\ Abandon(c)

-----------------------------------------------------------------------------
(* What happens beside the stream.                                          *)

(* Stop or pause of the remote control.                                     *)
Stop ==
    /\ client
    /\ playing' = FALSE
    /\ UNCHANGED <<pc, managerVars, sockets, forgotten, feedback, syncing, info, deferred, contextVars,
                   streamVars>>

LoseConnection ==
    /\ connection = "up"
    /\ connection' = "lost"
    /\ UNCHANGED <<pc, acquired, taken, client, clientVars, info, deferred, contextVars,
                   streamVars>>

(* AudioProtocol.error_received.                                            *)
AudioError ==
    /\ "audio" \in sockets
    /\ sockets' = sockets \ {"audio"}
    /\ UNCHANGED <<pc, managerVars, playing, forgotten, feedback, syncing, info, deferred, contextVars,
                   streamVars>>

(* ControlClient._retransmit_lost_packets: count packets from first on are   *)
(* asked for, in numbers that wrap; first + i is looked up as it is.        *)
Asked(first, count) == {(first + i) % Modulus : i \in 0..(count - 1)}
ResentNext(first, count) ==    \* mutant
    {first + i : i \in 1..count} \cap ToSet(backlog)
Resent(first, count) == {first + i : i \in 0..(count - 1)} \cap ToSet(backlog)

Progress(c) ==
    \/ Connected(c)
    \/ Bound(c, "control", "timing") \/ Bound(c, "timing", "setup")
    \/ SetUp(c) \/ OpenSource(c) \/ OpenSourceKnownVolume(c) \/ OpenSourceWrongVolume(c)
    \/ OpeningFails(c)
    \/ SetVolume(c) \/ SetVolumeFails(c)
    \/ Endpoint(c) \/ EndpointFails(c) \/ Metadata(c) \/ Feedback(c)
    \/ Record(c) \/ DeferredVolume(c) \/ Lap(c) \/ Read(c) \/ ReadClosed(c) \/ SendFails(c)
    \/ Teardown(c) \/ TeardownRaises(c) \/ CloseSource(c)

StreamNext ==
    \/ \E c \in Caller : Acquire(c) \/ TakeoverRaises(c) \/ Progress(c)
    \/ Stop \/ LoseConnection \/ AudioError

-----------------------------------------------------------------------------
(* The manager has one stream at a time: acquire() refuses the second, and  *)
(* it is released only when everything of the first is closed.              *)
OneStream ==
    \A c, d \in Caller : Streaming(c) /\ Streaming(d) => c = d

(* However a stream ended, and whichever step of it failed, nothing of it   *)
(* is left: no connection, client, takeover, sync or feedback task.  Two    *)
(* sockets may be: that of the control client when the timing server could  *)
(* not be bound, and that of the audio when TEARDOWN raised.                *)
NothingLeft ==
  /\ OneStream
  /\ (\A c \in Caller : ~ Streaming(c)) =>
        /\ connection = "none" /\ ~ client /\ ~ taken /\ ~ feedback /\ ~ syncing
        /\ sockets = {} /\ forgotten \subseteq {"control", "audio"}
        /\ backlog = <<>>

(* What the receiver lost is sent again, and only that, if it is of the     *)
(* packets sent last and the request does not run over the wrap of the      *)
(* numbers: a packet past the wrap is not found (the numbers looked up are  *)
(* not reduced).  The backlog holds just these packets, without a gap and   *)
(* up to the next sequence number, also where the numbers wrap.             *)
LostIsResent ==
    /\ \A first \in Seqno, count \in 1..BacklogSize :
        /\ Resent(first, count) \subseteq Asked(first, count)
        /\ \A seqno \in Asked(first, count) \cap ToSet(backlog) :
              seqno >= first => seqno \in Resent(first, count)
    /\ \A i \in DOMAIN backlog :
          backlog[i] = (rtpseq - Len(backlog) + i - 1) % Modulus

(* A stream is over some day with everything torn down if its source ends,  *)
(* and so is one of a radio station that is stopped while it plays; it may  *)
(* turn out only when the source is opened that it has no end.              *)
StreamEnds ==
    \A c \in Caller :
        Streaming(c) /\ (left >= 0 \/ (pc[c] \in {"read", "sleep"} /\ ~ playing))
            ~> (~ Streaming(c) \/ (left = Endless /\ pc[c] \notin {"read", "sleep"}))

=============================================================================

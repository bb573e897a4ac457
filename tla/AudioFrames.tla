----------------------------- MODULE AudioFrames ----------------------------
(***************************************************************************)
(* BufferedIOBaseSource of raop/audio_source.py: readframes takes frames    *)
(* from a buffer that _buffering_task fills, and two events tell each of    *)
(* the other.  The bytes that the decoder yields are the numbers 1..Total.  *)
(***************************************************************************)
EXTENDS Chunks

CONSTANTS
    Total,           \* bytes the decoder yields
    CHUNK_SIZE,      \* of a read by the task
    PacketSize,      \* bytes of the frames of a packet
    AudioBufferSize  \* _buffer_size

ASSUME FramesAssumption ==
    /\ Total \in Nat /\ {CHUNK_SIZE, PacketSize, AudioBufferSize} \subseteq Nat \ {0}
    /\ PacketSize <= AudioBufferSize

VARIABLES
    decoded,      \* bytes that reader.read has given
    audioBuffer,  \* _audio_buffer
    refill,       \* _buffer_needs_refilling
    added,        \* _data_was_added_to_buffer
    filler,       \* _buffer_task: "reads" in the executor, "waits" or "ended"
    frames,       \* readframes of the stream: "idle", "waits", "over" at its end, or "closed"
    delivered     \* what readframes has returned

framesVars == <<decoded, audioBuffer, refill, added, filler, frames, delivered>>

FramesInit ==
    /\ decoded = 0 /\ audioBuffer = <<>> /\ refill = FALSE /\ added = FALSE
    /\ filler = "reads" /\ frames = "idle" /\ delivered = <<>>

(* ----------------------------- _buffering_task --------------------------- *)
(* A chunk is a few bytes short at the end.  A full buffer waits, unless    *)
(* the event is there from before.                                         *)
ChunkRead(n) == [i \in 1..n |-> decoded + i]
Fills ==
    /\ filler = "reads"
    /\ LET n == IF decoded + CHUNK_SIZE <= Total THEN CHUNK_SIZE ELSE Total - decoded
       IN  n > 0 /\ decoded' = decoded + n /\ audioBuffer' = audioBuffer \o ChunkRead(n)
    /\ added' = (added \/ Len(audioBuffer') >= PacketSize)
    /\ IF Len(audioBuffer') < AudioBufferSize THEN UNCHANGED <<filler, refill>>
       ELSE IF refill THEN refill' = FALSE /\ UNCHANGED filler
       ELSE filler' = "waits" /\ UNCHANGED refill
    /\ UNCHANGED <<frames, delivered>>
(* An exception is logged, and the next chunk read.                        *)
FillRaises ==
    /\ filler = "reads" /\ UNCHANGED framesVars
FillerGoesOn ==
    /\ filler = "waits" /\ refill
    /\ filler' = "reads" /\ refill' = FALSE
    /\ UNCHANGED <<decoded, audioBuffer, added, frames, delivered>>
FillerEnds ==
    /\ filler = "reads" /\ decoded = Total
    /\ filler' = "ended" /\ added' = TRUE
    /\ UNCHANGED <<decoded, audioBuffer, refill, frames, delivered>>

(* -------------------------------- readframes ----------------------------- *)
Returns(n) ==
    /\ delivered' = delivered \o SubSeq(audioBuffer, 1, n)
    /\ audioBuffer' = From(audioBuffer, n + 1)
    /\ refill' = (refill \/ 2 * Len(audioBuffer') < AudioBufferSize)
    /\ frames' = IF n = 0 THEN "over" ELSE "idle"
Available == IF Len(audioBuffer) < PacketSize THEN Len(audioBuffer) ELSE PacketSize

ReadFrames ==
    /\ frames = "idle"
    /\ IF audioBuffer = <<>> /\ filler # "ended"
       THEN frames' = "waits" /\ refill' = TRUE /\ added' = FALSE /\ UNCHANGED <<audioBuffer, delivered>>
       ELSE Returns(Available) /\ UNCHANGED added
    /\ UNCHANGED <<decoded, filler>>
ReadFramesGoesOn ==
    /\ frames = "waits" /\ added
    /\ Returns(Available)
    /\ UNCHANGED <<decoded, filler, added>>

(* close, when the stream is over or was stopped between two packets.       *)
CloseFrames ==
    /\ frames \in {"idle", "over"}
    /\ frames' = "closed" /\ filler' = "ended"
    /\ UNCHANGED <<decoded, audioBuffer, refill, added, delivered>>

FramesRun == Fills \/ FillerGoesOn \/ FillerEnds \/ ReadFramesGoesOn
FramesNext == FramesRun \/ FillRaises \/ ReadFrames \/ CloseFrames

(***************************************************************************)
(* Properties.                                                             *)
(***************************************************************************)
(* Between two tasks and their two events, which may be set from before,   *)
(* nothing of the source is lost or doubled, and no frames means its end;  *)
(* and the buffer is bounded by two chunks more than its size.             *)
WholeSource ==
    /\ delivered \o audioBuffer = [i \in 1..decoded |-> i]
    /\ frames = "over" => Len(delivered) = Total
    /\ Len(audioBuffer) < AudioBufferSize + 2 * CHUNK_SIZE

(* Whoever waits for frames gets them or is told that there are no more.    *)
FramesCome == frames = "waits" ~> frames # "waits"
=============================================================================

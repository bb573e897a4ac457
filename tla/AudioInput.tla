----------------------------- MODULE AudioInput -----------------------------
(***************************************************************************)
(* How a source that cannot seek is read twice, first for its metadata and *)
(* then to be decoded: SemiSeekableBuffer (support/buffer.py) and the      *)
(* wrappers of raop/audio_source.py around it.  The bytes of the source    *)
(* are the numbers 1..Size.                                                *)
(***************************************************************************)
EXTENDS Chunks

CONSTANTS
    Size,            \* bytes of the source
    BUFFER_SIZE, HEADROOM_SIZE,
    BLOCK_SIZE,      \* of PatchedIceCastClient
    Intervals,       \* what icy-metaint may be, 0 without it
    MaxRead,         \* the most that is asked for at once
    MaxSeeks         \* seeks of the metadata parser and the decoder

ASSUME InputAssumption ==
    /\ {Size, BUFFER_SIZE, HEADROOM_SIZE, BLOCK_SIZE, MaxRead} \subseteq Nat \ {0}
    /\ HEADROOM_SIZE <= BUFFER_SIZE /\ BLOCK_SIZE <= BUFFER_SIZE
    /\ Intervals \subseteq Nat /\ MaxSeeks \in Nat

(* BufferedIOBaseWrapper, StreamReaderWrapper, PatchedIceCastClient. *)
Wrappers == {"io", "reader", "icecast"}

VARIABLES
    wrapper, interval,
    consumed,          \* how much of the source was taken
    held,           \* _buffer
    position, hasHeadroom, protected,    \* of the buffer
    phase,          \* "metadata", "decode", or "closed" and "raised" when the stream is given up
    download,       \* _download_thread: "runs", "stuck" in _readall, or "ended"
    expected,       \* the byte that the one who reads should get next
    inOrder,        \* whoever decodes got what he should get
    lost,           \* bytes that add refused
    seeks

inputVars == <<wrapper, interval, consumed, held, position, hasHeadroom, protected, phase, download,
               expected, inOrder, lost, seeks>>

InputInit ==
    /\ wrapper \in Wrappers
    /\ IF wrapper = "icecast" THEN interval \in Intervals ELSE interval = 0
    /\ consumed = 0 /\ held = <<>> /\ position = 0 /\ hasHeadroom = TRUE /\ protected = TRUE
    /\ phase = "metadata" /\ download = IF wrapper = "icecast" THEN "runs" ELSE "ended"
    /\ expected = 1 /\ inOrder = TRUE /\ lost = {} /\ seeks = 0

Least(m, n) == IF m < n THEN m ELSE n
Bytes(first, last) == [i \in 1..(last - first + 1) |-> first + i - 1]

(* --------------------------- SemiSeekableBuffer -------------------------- *)
(* size, remaining and fits; a buffer that has dropped its headroom counts *)
(* from its beginning.                                                     *)
Offset(headroom, pos) == IF headroom THEN pos ELSE 0
Unread == Len(held) - Offset(hasHeadroom, position)
Remaining == BUFFER_SIZE - Unread
Fits(n) == Len(held) + n <= BUFFER_SIZE

(* add takes as much as there is room for. *)
Added(bytes) == held \o SubSeq(bytes, 1, Least(Len(bytes), BUFFER_SIZE - Len(held)))
Refused(bytes) == ToSet(SubSeq(bytes, BUFFER_SIZE - Len(held) + 1, Len(bytes)))

(* get from a buffer that holds some bytes: it is all kept while it is     *)
(* protected or the headroom was not read to its end.                      *)
Got(bytes, n) ==
    LET start == Offset(hasHeadroom, position) IN SubSeq(bytes, start + 1, Least(start + n, Len(bytes)))
GetDropsHeadroom(bytes, n) ==    \* mutant: the headroom is not protected
    /\ position' = position + Len(Got(bytes, n))
    /\ hasHeadroom' = (hasHeadroom /\ position' < HEADROOM_SIZE)
    /\ held' = IF hasHeadroom' THEN bytes ELSE From(bytes, Offset(hasHeadroom, position) + Len(Got(bytes, n)) + 1)
Get(bytes, n) ==
    /\ position' = position + Len(Got(bytes, n))
    /\ hasHeadroom' = (hasHeadroom /\ (protected \/ position' < HEADROOM_SIZE))
    /\ held' = IF hasHeadroom' THEN bytes ELSE From(bytes, Offset(hasHeadroom, position) + Len(Got(bytes, n)) + 1)

(* seek, within the headroom and what is there of it. *)
CanSeek(pos) ==
    \/ pos = position
    \/ hasHeadroom /\ pos < Least(HEADROOM_SIZE, Len(held))

(* -------------------------------- reading -------------------------------- *)
(* Whoever reads is given some bytes; only what is decoded has to be right. *)
Gives(got) ==
    /\ expected' = expected + Len(got)
    /\ inOrder' = (inOrder /\ (phase = "decode" => got = Bytes(expected, expected + Len(got) - 1)))
Rest(n) == Bytes(consumed + 1, Least(consumed + n, Size))

(* BufferedIOBaseWrapper.read: the reader blocks for as much as is asked.   *)
ReadIo(n) ==
    /\ wrapper = "io"
    /\ LET more == IF Remaining > 0 /\ n > Unread THEN Rest(Least(n, Remaining)) ELSE <<>>
           all == Added(more)
       IN  /\ consumed' = consumed + Len(more)
           /\ lost' = lost \cup Refused(more)
           /\ Get(all, n) /\ Gives(Got(all, n))

(* StreamReaderWrapper.read: what has arrived, and past the buffer when all *)
(* of it has been read.                                                    *)
ReadReader(n) ==
    /\ wrapper = "reader"
    /\ \E m \in (IF consumed = Size THEN {0} ELSE 1..n) :
        IF position > 0 /\ Unread = 0
        THEN LET got == Rest(m) IN consumed' = consumed + Len(got) /\ Gives(got) /\ UNCHANGED <<held, position, hasHeadroom, lost>>
        ELSE LET more == Rest(Least(m, Remaining))
                 all == Added(more)
             IN  /\ consumed' = consumed + Len(more)
                 /\ lost' = lost \cup Refused(more)
                 /\ Get(all, Least(n, Remaining)) /\ Gives(Got(all, Least(n, Remaining)))

(* PatchedIceCastClient.read polls until there is enough, or the download   *)
(* has stopped.                                                            *)
ReadIcecast(n) ==
    /\ wrapper = "icecast"
    /\ Unread >= n \/ download = "ended"
    /\ Get(held, n) /\ Gives(Got(held, n))
    /\ UNCHANGED <<consumed, lost>>
ReadSource(n) ==
    /\ phase \in {"metadata", "decode"}
    /\ ReadIo(n) \/ ReadReader(n) \/ ReadIcecast(n)
    /\ UNCHANGED <<wrapper, interval, protected, phase, download, seeks>>

(* The time is up: the parser gives up, the decoder raises. *)
ReadTimesOut ==
    /\ wrapper = "icecast" /\ download # "ended" /\ Unread < MaxRead /\ phase = "decode"
    /\ phase' = "closed"
    /\ download' = IF download = "stuck" THEN "stuck" ELSE "ended"
    /\ UNCHANGED <<wrapper, interval, consumed, held, position, hasHeadroom, protected, expected, inOrder, lost, seeks>>

(* A seek from the start of the stream; one that fails moves nothing.       *)
Seek(pos) ==
    /\ phase \in {"metadata", "decode"} /\ seeks < MaxSeeks /\ seeks' = seeks + 1
    /\ CanSeek(pos) /\ pos # position
    /\ position' = pos /\ expected' = pos + 1
    /\ UNCHANGED <<wrapper, interval, consumed, held, hasHeadroom, protected, phase, download, inOrder, lost>>

(* ---------------------------- from parser to decoder --------------------- *)
(* get_buffered_io_metadata, however the parser ended, then the headroom is *)
(* not protected any more: a buffer that is not at its start raises.       *)
MetadataDone ==
    /\ phase = "metadata"
    /\ LET rewound == IF CanSeek(0) THEN 0 ELSE position
       IN  /\ position' = rewound
           /\ IF rewound = 0 THEN phase' = "decode" /\ protected' = FALSE
              ELSE phase' = "raised" /\ UNCHANGED protected
    /\ expected' = 1
    /\ UNCHANGED <<wrapper, interval, consumed, held, hasHeadroom, download, inOrder, lost, seeks>>

(* -------------------------- PatchedIceCastClient ------------------------- *)
(* _download_stream: a chunk when a block fits.  A stream that ends in the  *)
(* middle of what _readall reads is read for ever.                         *)
Chunk == Rest(IF interval = 0 THEN BLOCK_SIZE ELSE interval)
Downloads ==
    /\ download = "runs" /\ Fits(BLOCK_SIZE)
    /\ IF interval > 0 /\ Len(Chunk) < interval
       THEN download' = "stuck" /\ consumed' = consumed + Len(Chunk) /\ UNCHANGED <<held, lost>>
       ELSE /\ consumed' = consumed + Len(Chunk) /\ held' = Added(Chunk) /\ lost' = lost \cup Refused(Chunk)
            /\ download' = IF Chunk = <<>> THEN "ended" ELSE "runs"
    /\ UNCHANGED <<wrapper, interval, position, hasHeadroom, protected, phase, expected, inOrder, seeks>>
(* It raises: _stream_wrapper keeps the error and stops the stream.         *)
DownloadFails ==
    /\ download = "runs" /\ download' = "ended"
    /\ UNCHANGED <<wrapper, interval, consumed, held, position, hasHeadroom, protected, phase, expected, inOrder, lost, seeks>>

InputNext ==
    \/ \E n \in 1..MaxRead : ReadSource(n)
    \/ \E pos \in 0..(HEADROOM_SIZE - 1) : Seek(pos)
    \/ ReadTimesOut \/ MetadataDone \/ Downloads \/ DownloadFails

InputSpec == InputInit /\ [][InputNext]_inputVars

(***************************************************************************)
(* Properties.                                                             *)
(***************************************************************************)
(* The buffer has to serve two readers that seek: what is decoded is the   *)
(* source from its first byte, without a gap, whatever was read for the    *)
(* metadata and however the two are interleaved with a download, and the   *)
(* beginning can always be reached again.  What is decoded may             *)
(* fail when a full buffer refused bytes: never the first ones, that it    *)
(* has room for, and of a radio station none unless its chunks are longer  *)
(* than the block that room is made for.  A StreamReader is left to        *)
(* NothingIsSkipped.                                                       *)
DecodesTheSource ==
    /\ phase # "raised"
    /\ inOrder \/ lost # {} \/ wrapper = "reader"
    /\ lost \subseteq (BUFFER_SIZE + 1)..Size
    /\ wrapper = "icecast" /\ interval <= BLOCK_SIZE => lost = {}

(* "it will always be possible to seek to the beginning again [...] thus   *)
(* allowing both metadata and audio data to be extracted properly"         *)
(* (support/buffer.py): what is decoded has no gap while all that was read *)
(* fits in the headroom.                                                   *)
NothingIsSkipped == consumed <= HEADROOM_SIZE => inOrder
=============================================================================

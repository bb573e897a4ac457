------------------------------- MODULE Framing -------------------------------
(***************************************************************************)
(* From a stream of bytes back to messages, however TCP cuts it: HAPSession *)
(* and the channels of AirPlay on top of it, MrpConnection and             *)
(* CompanionConnection, with their ciphers that count.  One side sends, the *)
(* other receives.  The first bytes of a frame are numbers, the others are *)
(* the bytes of a message; one that is encrypted has the nonce it was      *)
(* encrypted with.  The sizes are scaled down.                             *)
(***************************************************************************)
EXTENDS Integers, Sequences, SequencesExt

CONSTANTS
    FRAME_LENGTH,     \* of HAPSession, 1024
    AUTH_TAG_LENGTH,  \* 16
    Base,             \* of a byte that holds a length, 256 or 128
    MaxMessages, MaxSize

ASSUME FramingAssumption ==
    {FRAME_LENGTH, AUTH_TAG_LENGTH, MaxMessages} \subseteq Nat \ {0} /\ Base \in Nat \ {0, 1} /\ MaxSize \in Nat

(* "event" and "data" are the channels of AirPlay. *)
Framings == {"hap", "event", "data", "companion", "mrp"}

VARIABLES
    framing,
    sent,       \* the messages: [id, size, sync]
    net,        \* bytes under way
    buffer,     \* _encrypted_data or _buffer of the receiver
    plain,      \* the buffer of an AbstractHAPChannel
    got,        \* messages handled
    replies,    \* sequence numbers a channel has replied to
    nonces,     \* _out_counter of the sender and _in_counter of the receiver
    broken      \* data_received has raised: asyncio closes the transport

framingVars == <<framing, sent, net, buffer, plain, got, replies, nonces, broken>>

FramingInit ==
    /\ framing \in Framings
    /\ sent = <<>> /\ net = <<>> /\ buffer = <<>> /\ plain = <<>> /\ got = <<>> /\ replies = <<>>
    /\ nonces = [out |-> 0, in |-> 0] /\ broken = FALSE

IsChannel == framing \in {"event", "data"}

(* ------------------------------- numbers ------------------------------- *)
(* int.to_bytes of a fixed width, least significant byte first. *)
LittleEndian(n, width) == [i \in 1..width |-> (n \div Base^(i - 1)) % Base]
FromLittleEndian(bytes) == FoldLeftDomain(LAMBDA acc, i : acc + bytes[i] * Base^(i - 1), 0, bytes)

(* write_variant: as many digits as needed, all but the last are marked.   *)
VariantWidth(n) == CHOOSE w \in 1..(n + 1) : n < Base^w /\ \A v \in 1..(w - 1) : n >= Base^v
WriteVariant(n) ==
    [i \in 1..VariantWidth(n) |-> LittleEndian(n, VariantWidth(n))[i] + IF i < VariantWidth(n) THEN Base ELSE 0]
(* read_variant raises when all the bytes there are are marked.            *)
VariantEnds(bytes) == \E i \in DOMAIN bytes : bytes[i] < Base
VariantLength(bytes) == CHOOSE i \in DOMAIN bytes : bytes[i] < Base /\ \A j \in 1..(i - 1) : bytes[j] >= Base
ReadVariant(bytes) ==
    FromLittleEndian([i \in 1..VariantLength(bytes) |-> bytes[i] % Base])

(* -------------------------------- sending ------------------------------- *)
Body(m) == [i \in 1..m.size |-> [id |-> m.id, i |-> i]]
Encrypted(bytes, nonce) ==
    [i \in 1..(Len(bytes) + AUTH_TAG_LENGTH) |->
        [nonce |-> nonce, byte |-> IF i <= Len(bytes) THEN bytes[i] ELSE "tag",
         last |-> i = Len(bytes) + AUTH_TAG_LENGTH]]

(* HAPSession.encrypt: frames of FRAME_LENGTH, each with its length as aad. *)
HapFrame(bytes, nonce) == LittleEndian(Len(bytes), 2) \o Encrypted(bytes, nonce)
HapFrames(bytes) == (Len(bytes) + FRAME_LENGTH - 1) \div FRAME_LENGTH
HapEncrypt(bytes, nonce) ==
    FlattenSeq([f \in 1..HapFrames(bytes) |->
        HapFrame(SubSeq(bytes, (f - 1) * FRAME_LENGTH + 1,
                        IF f * FRAME_LENGTH < Len(bytes) THEN f * FRAME_LENGTH ELSE Len(bytes)), nonce + f - 1)])

(* BaseDataStreamChannel.encode_message: the size counts the header, which *)
(* has the type and the sequence number; format_request of an event.       *)
HeaderLength == 2
EncodeMessage(m) == <<HeaderLength + m.size, m>> \o Body(m)

(* CompanionConnection.send: nothing to encrypt in a frame without data.   *)
CompanionFrame(m, nonce) ==
    LET bytes == IF m.size = 0 THEN <<>> ELSE Encrypted(Body(m), nonce)
    IN  <<m>> \o Reverse(LittleEndian(Len(bytes), 3)) \o bytes

MrpFrame(m, nonce) == WriteVariant(m.size + AUTH_TAG_LENGTH) \o Encrypted(Body(m), nonce)

Send(m) ==
    /\ Len(sent) < MaxMessages /\ ~broken
    /\ m.id = Len(sent) + 1 /\ (m.sync => framing = "data")
    /\ sent' = Append(sent, m)
    /\ LET bytes == CASE framing = "companion" -> CompanionFrame(m, nonces.out)
                      [] framing = "mrp" -> MrpFrame(m, nonces.out)
                      [] IsChannel -> HapEncrypt(EncodeMessage(m), nonces.out)
                      [] OTHER -> HapEncrypt(Body(m), nonces.out)
           used == CASE framing = "companion" -> IF m.size = 0 THEN 0 ELSE 1
                     [] framing = "mrp" -> 1
                     [] IsChannel -> HapFrames(EncodeMessage(m))
                     [] OTHER -> HapFrames(Body(m))
       IN net' = net \o bytes /\ nonces' = [nonces EXCEPT !.out = @ + used]
    /\ UNCHANGED <<framing, buffer, plain, got, replies, broken>>

(* ------------------------------- receiving ------------------------------ *)
(* Chacha20Cipher.decrypt: the whole block, with the nonce that is next.   *)
Decrypts(bytes, nonce) == bytes # <<>> /\ Last(bytes).last /\ \A i \in DOMAIN bytes : bytes[i].nonce = nonce
Decrypted(bytes) == [i \in 1..(Len(bytes) - AUTH_TAG_LENGTH) |-> bytes[i].byte]
From(bytes, i) == SubSeq(bytes, i, Len(bytes))
Slice(bytes, i, j) == SubSeq(bytes, i, IF j < Len(bytes) THEN j ELSE Len(bytes))

(* What the loop of each receiver makes of its buffer: what is left of it, *)
(* what it has read, the counter, and whether it has raised.               *)
Loop(left, out, nonce, raised) == [left |-> left, out |-> out, nonce |-> nonce, raised |-> raised]

(* A frame is decrypted when all of it is there. *)
HapWholeTagless(bytes, block) == Len(bytes) >= block - AUTH_TAG_LENGTH + 2    \* mutant: its tag is not waited for
HapWhole(bytes, block) == Len(bytes) >= block + 2

RECURSIVE HapDecrypt(_, _, _)
HapDecrypt(bytes, out, nonce) ==
    LET block == FromLittleEndian(Slice(bytes, 1, 2)) + AUTH_TAG_LENGTH
        frame == Slice(bytes, 3, 2 + block)
    IN  IF bytes = <<>> \/ ~HapWhole(bytes, block) THEN Loop(bytes, out, nonce, FALSE)
        ELSE IF ~Decrypts(frame, nonce) THEN Loop(bytes, out, nonce + 1, TRUE)
        ELSE HapDecrypt(From(bytes, 3 + block), out \o Decrypted(frame), nonce + 1)

RECURSIVE CompanionReceive(_, _, _)
CompanionReceive(bytes, out, nonce) ==
    LET length == FromLittleEndian(Reverse(SubSeq(bytes, 2, 4)))
        payload == SubSeq(bytes, 5, 4 + length)
    IN  IF Len(bytes) < 4 \/ Len(bytes) < 4 + length THEN Loop(bytes, out, nonce, FALSE)
        ELSE CompanionReceive(From(bytes, 5 + length),
                 IF payload = <<>> \/ Decrypts(payload, nonce)
                 THEN Append(out, <<bytes[1], IF payload = <<>> THEN <<>> ELSE Decrypted(payload)>>) ELSE out,
                 IF payload = <<>> THEN nonce ELSE nonce + 1)

RECURSIVE MrpReceive(_, _, _)
MrpReceive(bytes, out, nonce) ==
    LET start == VariantLength(bytes) + 1
        length == ReadVariant(bytes)
        data == SubSeq(bytes, start, start + length - 1)
    IN  IF bytes = <<>> THEN Loop(bytes, out, nonce, FALSE)
        ELSE IF ~VariantEnds(bytes) THEN Loop(bytes, out, nonce, TRUE)
        ELSE IF Len(bytes) - start + 1 < length THEN Loop(bytes, out, nonce, FALSE)
        ELSE MrpReceive(From(bytes, start + length),
                        IF Decrypts(data, nonce) THEN Append(out, Decrypted(data)) ELSE out, nonce + 1)

(* DataStreamChannel.handle_received and EventChannel.handle_received.     *)
RECURSIVE HandleReceived(_, _)
HandleReceived(bytes, out) ==
    IF Len(bytes) < HeaderLength \/ Len(bytes) < bytes[1] THEN Loop(bytes, out, 0, FALSE)
    ELSE HandleReceived(From(bytes, bytes[1] + 1),
                        Append(out, <<bytes[2], SubSeq(bytes, HeaderLength + 1, bytes[1])>>))

(* What encode_reply and the positive response are for. *)
IsRequest(m) == framing = "event" \/ m.sync
ToAnswer(ms) == LET asked == SelectSeq(ms, LAMBDA m : IsRequest(m[1])) IN [i \in DOMAIN asked |-> asked[i][1].id]

Received(chunk) ==
    LET bytes == buffer \o chunk
        loop == CASE framing = "companion" -> CompanionReceive(bytes, <<>>, nonces.in)
                  [] framing = "mrp" -> MrpReceive(bytes, <<>>, nonces.in)
                  [] OTHER -> HapDecrypt(bytes, <<>>, nonces.in)
        channel == HandleReceived(plain \o loop.out, <<>>)
    IN  /\ buffer' = loop.left /\ nonces' = [nonces EXCEPT !.in = loop.nonce]
        /\ broken' = (broken \/ loop.raised)
        /\ plain' = IF IsChannel THEN channel.left ELSE plain
        /\ got' = got \o (IF IsChannel THEN channel.out ELSE loop.out)
        /\ replies' = replies \o (IF IsChannel THEN ToAnswer(channel.out) ELSE <<>>)

(* TCP hands over any first part of what is under way. *)
DataReceived ==
    /\ ~broken
    /\ \E k \in 1..Len(net) : Received(SubSeq(net, 1, k)) /\ net' = From(net, k + 1)
    /\ UNCHANGED <<framing, sent>>

FramingNext ==
    \/ \E id \in 1..MaxMessages, size \in 0..MaxSize, sync \in BOOLEAN : Send([id |-> id, size |-> size, sync |-> sync])
    \/ DataReceived

FramingSpec == FramingInit /\ [][FramingNext]_framingVars

(***************************************************************************)
(* Properties.                                                             *)
(***************************************************************************)
(* The messages as each receiver hands them on. *)
Handled(m) == CASE framing = "mrp" -> Body(m)
                [] OTHER -> <<m, Body(m)>>
Whole == [i \in DOMAIN sent |-> Handled(sent[i])]
AllBodies == FlattenSeq([i \in DOMAIN sent |-> Body(sent[i])])

(* However the stream is cut, what a receiver hands on is what was sent, in *)
(* the order and unchanged, and all of it once all the bytes are there (but *)
(* for SplitAnywhere below); a channel has replied to each request among    *)
(* it, once and in order.                                                  *)
StreamIsRestored ==
    LET all == IF framing = "hap" THEN AllBodies ELSE Whole
    IN  /\ IsPrefix(got, all)
        /\ net = <<>> /\ ~broken => got = all
        /\ broken => framing = "mrp"
        /\ IsChannel => IsPrefix(replies, ToAnswer(Whole)) /\ (net = <<>> => replies = ToAnswer(Whole))

(* "A message might be split over several reads, so we store a buffer and  *)
(* try to decode messages from that buffer" (protocols/mrp/connection.py). *)
SplitAnywhere == ~broken
=============================================================================

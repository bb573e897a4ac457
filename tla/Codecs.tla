------------------------------- MODULE Codecs -------------------------------
(***************************************************************************)
(* What messages are made of: OPACK of Companion (support/opack.py), TLV8 of *)
(* HAP (auth/hap_tlv8.py), and credentials as they are stored                *)
(* (auth/hap_pairing.py).  A value is written and read again.               *)
(*                                                                         *)
(* A packed value is a sequence of tokens, each a tag with what it carries.  *)
(* An OPACK message is a list of scalars and of lists of scalars (a dict is  *)
(* packed as the list of its keys and values).                              *)
(***************************************************************************)
EXTENDS Integers, Sequences, FiniteSets, SequencesExt

CONSTANTS
    MaxItems,    \* of an OPACK message, and elements of a list in it
    Endless,     \* lists of as many elements have no count but an end: 0xF
    MaxChunk     \* of a value in TLV8: 255

ASSUME CodecsAssumption == MaxItems \in Nat /\ {Endless, MaxChunk} \subseteq Nat \ {0}

VARIABLES
    codec,       \* "opack", "tlv8" or "credentials"
    given,       \* the value
    coding,      \* "given", "packed" or "read"
    packed,      \* the tokens
    read         \* the value that was read

codecVars == <<codec, given, coding, packed, read>>

-----------------------------------------------------------------------------
(* OPACK.  A scalar has a kind, a value, and a size: of a text its length,   *)
(* of an integer the bytes it was unpacked from, or 0.                      *)
Scalar(kind, v, size) == [kind |-> kind, v |-> v, size |-> size]
Scalars ==
    {Scalar("int", 39, 0), Scalar("int", 40, 0), Scalar("int", 256, 0), Scalar("int", 5, 1),
     Scalar("str", 1, 2), Scalar("str", 2, 33), Scalar("bytes", 1, 2), Scalar("str", 0, 0), Scalar("bool", 1, 0)}
Lists == {[kind |-> "list", of |-> s] :
             s \in {<<>>, <<Scalar("str", 1, 2)>>, <<Scalar("str", 3, 2), Scalar("str", 3, 2), Scalar("int", 39, 0)>>}}

Token(tag, v) == [tag |-> tag, v |-> v]
IntTag(s) ==
    CASE s.v < 40 /\ s.size = 0 -> "small"
      [] (s.v <= 255 /\ s.size = 0) \/ s.size = 1 -> "int1"
      [] OTHER -> "int2"
TextTag(s) ==
    CASE s.size = 0 -> "empty" [] s.size \in 1..32 -> "short" [] s.size > 32 -> "long"
PackedScalar(s) ==
    IF s.kind = "int" THEN Token(<<"int", IntTag(s)>>, <<s.v>>)
    ELSE IF s.kind = "bool" THEN Token(<<"bool", "small">>, <<s.v>>)
    ELSE Token(<<s.kind, TextTag(s)>>, <<s.v, s.size>>)
OneByte(tokens) == Len(tokens) = 1 /\ tokens[1].tag[2] \in {"small", "empty", "count"}

(* What was packed before is referred to; objects are compared as packed.    *)
ReuseAll(state, tokens) ==    \* mutant: values of one byte are objects, too
    IF \E i \in DOMAIN state.objects : state.objects[i] = tokens
    THEN [state EXCEPT !.out = Append(@, Token(<<"uid", "uid">>,
              <<CHOOSE i \in DOMAIN state.objects : state.objects[i] = tokens>>))]
    ELSE [out |-> state.out \o tokens, objects |-> Append(state.objects, tokens)]
Reuse(state, tokens) ==
    IF \E i \in DOMAIN state.objects : state.objects[i] = tokens
    THEN [state EXCEPT !.out = Append(@, Token(<<"uid", "uid">>,
              <<CHOOSE i \in DOMAIN state.objects : state.objects[i] = tokens>>))]
    ELSE [out |-> state.out \o tokens,
          objects |-> IF OneByte(tokens) THEN state.objects ELSE Append(state.objects, tokens)]

(* _pack of a list: its elements first, then the list as it was packed.      *)
NothingPacked == [out |-> <<>>, objects |-> <<>>]
PackScalar(state, s) == Reuse(state, <<PackedScalar(s)>>)
PackList(state, length, inside) ==
    Reuse([out |-> state.out, objects |-> inside.objects],
          <<Token(<<"list", "count">>, <<IF length < Endless THEN length ELSE Endless>>)>> \o inside.out
          \o (IF length >= Endless THEN <<Token(<<"end", "end">>, <<>>)>> ELSE <<>>))
PackItem(state, item) ==
    IF item.kind = "list"
    THEN PackList(state, Len(item.of), FoldLeft(PackScalar, [state EXCEPT !.out = <<>>], item.of))
    ELSE PackScalar(state, item)
Pack(items) == PackList(NothingPacked, Len(items), FoldLeft(PackItem, NothingPacked, items)).out

(* _unpack, a token at a time: the lists that are open, innermost last, with *)
(* what they still take (never 0 for an endless one).                       *)
UnpackedScalar(token) ==
    LET of == token.tag[1]
    IN  IF of = "int" THEN Scalar("int", token.v[1], IF token.tag[2] = "small" THEN 0 ELSE IF token.tag[2] = "int1" THEN 1 ELSE 2)
        ELSE IF of = "bool" THEN Scalar("bool", token.v[1], 0)
        ELSE Scalar(of, token.v[1], token.v[2])
Put(open, value) ==
    [open EXCEPT ![Len(open)] = [of |-> Append(@.of, value), left |-> @.left - 1]]
Closed(open) ==
    IF Len(open) > 1 /\ Last(open).left = 0
    THEN Put(Front(open), [kind |-> "list", of |-> Last(open).of]) ELSE open
ClosedAll(open) == Closed(Closed(open))
Ended(open) == Put(Front(open), [kind |-> "list", of |-> Last(open).of])
Missing == [kind |-> "IndexError"]

UnpackToken(state, token) ==
    LET of == token.tag[1]
        value == UnpackedScalar(token)
        known == of = "bool" \/ token.tag[2] = "small" \/ \E i \in DOMAIN state.objects : state.objects[i] = value
    IN  CASE of = "list" ->
               [state EXCEPT !.open = ClosedAll(Append(@, [of |-> <<>>,
                    left |-> IF token.v[1] = Endless THEN -1 ELSE token.v[1]]))]
          [] of = "end" -> [state EXCEPT !.open = ClosedAll(Ended(@))]
          [] of = "uid" ->
               [state EXCEPT !.open = ClosedAll(Put(@,
                    IF token.v[1] \in DOMAIN state.objects THEN state.objects[token.v[1]] ELSE Missing))]
          [] OTHER ->
               [open |-> ClosedAll(Put(state.open, value)),
                objects |-> IF known THEN state.objects ELSE Append(state.objects, value)]
Unpack(tokens) ==
    FoldLeft(UnpackToken, [open |-> <<[of |-> <<>>, left |-> -1]>>, objects |-> <<>>], tokens).open[1].of[1].of

(* A message in the order in which it is packed.  One of the two counts a    *)
(* list, the other an empty text: behind these their indices differ, and a   *)
(* value may be repeated only if it came before.                            *)
InOrder(items) ==
    FlattenSeq([i \in DOMAIN items |->
        IF items[i].kind # "list" THEN <<items[i]>>
        ELSE IF items[i].of = <<>> THEN <<>> ELSE Append(items[i].of, items[i])])
Differs(x) == x.kind = "list" \/ (x.kind # "list" /\ PackedScalar(x).tag[2] = "empty")
ReusesWell(items) ==
    LET all == InOrder(items)
        counted(x) == IF x.kind = "list" THEN TRUE ELSE ~ OneByte(<<PackedScalar(x)>>)
    IN  \A j \in DOMAIN all :
            counted(all[j]) /\ (\E i \in 1..j - 1 : all[i] = all[j]) =>
                \E i \in 1..j - 1 : all[i] = all[j] /\ \A k \in 1..i : ~ Differs(all[k])

-----------------------------------------------------------------------------
(* TLV8: write_tlv and read_tlv.                                            *)
Pieces(value) ==
    [k \in 1..(Len(value) + MaxChunk - 1) \div MaxChunk |->
        SubSeq(value, (k - 1) * MaxChunk + 1, IF k * MaxChunk < Len(value) THEN k * MaxChunk ELSE Len(value))]
WriteTlv(entries) ==
    FlattenSeq([i \in DOMAIN entries |->
        [k \in DOMAIN Pieces(entries[i][2]) |-> Token(entries[i][1], Pieces(entries[i][2])[k])]])
ReadTlv(tokens) ==
    [tag \in {t.tag : t \in Range(tokens)} |->
        FlattenSeq([k \in DOMAIN tokens |-> IF tokens[k].tag = tag THEN tokens[k].v ELSE <<>>])]

-----------------------------------------------------------------------------
(* Credentials: HapCredentials, as four texts or, of old, two.               *)
AuthType(c) ==
    CASE \A k \in DOMAIN c : c[k] = "" -> "Null"
      [] c.ltpk = "transient" -> "Transient"
      [] c.ltpk = "" /\ c.ltsk # "" /\ c.atv_id = "" /\ c.client_id # "" -> "Legacy"
      [] \A k \in DOMAIN c : c[k] # "" -> "HAP"
      [] OTHER -> "InvalidCredentialsError"
Str(c) == <<c.ltpk, c.ltsk, c.atv_id, c.client_id>>
ParseCredentials(parts) ==
    CASE Len(parts) = 2 -> [ltpk |-> "", ltsk |-> parts[2], atv_id |-> "", client_id |-> parts[1]]
      [] Len(parts) = 4 -> [ltpk |-> parts[1], ltsk |-> parts[2], atv_id |-> parts[3], client_id |-> parts[4]]

-----------------------------------------------------------------------------
Values == UNION {[1..n -> Scalars \cup Lists] : n \in 0..MaxItems}
Numbers(n) == [i \in 1..n |-> i]
Entries8 == {<<<<"State", Numbers(1)>>, <<"Data", Numbers(n)>>, <<"Method", Numbers(m)>>>> : n \in 0..2 * MaxChunk + 1, m \in 0..1}
Credentials ==
    {c \in [ltpk : {"", "a", "transient"}, ltsk : {"", "b"}, atv_id : {"", "c"}, client_id : {"", "d"}] :
        AuthType(c) # "InvalidCredentialsError"}

CodecInit ==
    /\ codec \in {"opack", "tlv8", "credentials"}
    /\ given \in CASE codec = "opack" -> Values [] codec = "tlv8" -> Entries8 [] codec = "credentials" -> Credentials
    /\ coding = "given" /\ packed = <<>> /\ read = <<>>

WritesValue ==
    /\ coding = "given" /\ coding' = "packed"
    /\ \/ codec = "opack" /\ packed' = Pack(given)
       \/ codec = "tlv8" /\ packed' = WriteTlv(given)
       \/ codec = "credentials" /\ packed' = Str(given)
       \/ codec = "credentials" /\ AuthType(given) = "Legacy" /\ packed' = <<given.client_id, given.ltsk>>
    /\ UNCHANGED <<codec, given, read>>

ReadsValue ==
    /\ coding = "packed" /\ coding' = "read"
    /\ \/ codec = "opack" /\ read' = Unpack(packed)
       \/ codec = "tlv8" /\ read' = ReadTlv(packed)
       \/ codec = "credentials" /\ read' = ParseCredentials(packed)
    /\ UNCHANGED <<codec, given, packed>>

CodecNext == WritesValue \/ ReadsValue

CodecSpec == CodecInit /\ [][CodecNext]_codecVars

-----------------------------------------------------------------------------
(* Of an integer only the value counts, not the bytes it came in.           *)
Plain(x) == IF x.kind = "int" THEN Scalar("int", x.v, 0) ELSE x
Same(a, b) ==
    Len(a) = Len(b) /\ \A i \in DOMAIN a :
        IF a[i].kind = "list"
        THEN b[i].kind = "list" /\ [k \in DOMAIN a[i].of |-> Plain(a[i].of[k])] = [k \in DOMAIN b[i].of |-> Plain(b[i].of[k])]
        ELSE Plain(a[i]) = Plain(b[i])

(* What is written is read again: an OPACK message that reuses values only   *)
(* where the two counts of objects agree, however they repeat; a TLV8 value, *)
(* however often it was cut, unless it is empty; and credentials.           *)
ReadAsWritten ==
    coding = "read" =>
        /\ codec = "opack" /\ ReusesWell(given) => Same(given, read)
        /\ codec = "tlv8" =>
              read = [tag \in {e[1] : e \in {x \in Range(given) : x[2] # <<>>}} |->
                         (CHOOSE e \in Range(given) : e[1] = tag)[2]]
        /\ codec = "credentials" => read = given /\ AuthType(read) = AuthType(given)

(* docs/documentation/protocols.md, of the table that pointers index:       *)
(* "Lists and dictionary bytes are ignored as well as other types            *)
(* represented by a single byte".  So a pointer is at most the number of the *)
(* objects before it that are neither.                                      *)
ListsAreIgnored ==
    codec = "opack" /\ coding = "packed" =>
        \A k \in DOMAIN packed : packed[k].tag[1] = "uid" =>
            packed[k].v[1] <= Cardinality({packed[i] : i \in {i \in 1..k - 1 :
                packed[i].tag[1] \notin {"uid", "list", "end"} /\ ~ OneByte(<<packed[i]>>)}})
=============================================================================

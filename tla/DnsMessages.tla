---------------------------- MODULE DnsMessages ----------------------------
(***************************************************************************)
(* DNS messages: support/dns.py, and ServiceParser of core/mdns.py, which    *)
(* makes services of records.  A device writes records in any order, its     *)
(* names compressed or not; they are read from the datagram one by one.      *)
(*                                                                         *)
(* A datagram is a sequence of cells, one for each byte but for the fixed    *)
(* fields of a record.  A text is a sequence of tokens, "." being one.       *)
(***************************************************************************)
EXTENDS Integers, Sequences, FiniteSets, SequencesExt

CONSTANTS
    MaxRecords,   \* in one message
    ByteRange     \* values of the byte that a pointer ends with: 2^8

ASSUME DnsAssumption == MaxRecords \in Nat /\ ByteRange \in Nat \ {0}

VARIABLES
    doing,        \* "writing", "reading", "read", or "raised"
    compress,     \* the device uses pointers
    packet,       \* what it wrote
    offsets,      \* where names begin there: <<labels, offset>>
    written,      \* the records that it wrote
    cursor,       \* of the buffer that is read, from 0
    records       \* the records that were read

dnsVars == <<doing, compress, packet, offsets, written, cursor, records>>

NoName == <<>>
NoAddress == "none"

-----------------------------------------------------------------------------
(* Names.                                                                   *)

(* ".".join and split("."), and ServiceInstanceName.split_name: a service   *)
(* begins at the first label with an underscore that has _tcp behind it, and *)
(* what comes before is one label, the instance, with dots or without.       *)
Joined(labels) ==
    FlattenSeq([i \in DOMAIN labels |-> IF i = 1 THEN labels[i] ELSE <<".">> \o labels[i]])
Split(text) ==
    LET dots == SetToSortSeq({i \in DOMAIN text : text[i] = "."} \cup {0, Len(text) + 1}, <)
    IN  [k \in 1..Len(dots) - 1 |-> SubSeq(text, dots[k] + 1, dots[k + 1] - 1)]

Underscored == {"_srv", "_tcp"}
ServiceAt(labels) ==
    {i \in 1..Len(labels) - 1 : labels[i] # <<>> /\ Head(labels[i]) \in Underscored /\ labels[i + 1] = <<"_tcp">>}
IsService(text) == ServiceAt(Split(text)) # {}
SplitName(text) ==
    LET labels == Split(text)
        i == CHOOSE j \in ServiceAt(labels) : \A k \in ServiceAt(labels) : j <= k
    IN  [instance |-> Joined(SubSeq(labels, 1, i - 1)), ptr |-> Joined(SubSeq(labels, i, Len(labels)))]

(* qname_encode, but for the truncation of labels of more than 63 bytes.    *)
QnameEncode(text) ==
    IF IsService(text)
    THEN LET name == SplitName(text)
         IN  (IF name.instance = NoName THEN <<>> ELSE <<name.instance>>) \o Split(name.ptr)
    ELSE Split(text)

-----------------------------------------------------------------------------
(* Cells: the length of a label with the bytes of its text behind it, the    *)
(* two bytes of a pointer, and a field that is not looked into here.         *)
Cell(is, n, of) == [is |-> is, n |-> n, of |-> of]
Width(text) == Len(text) + Cardinality({i \in DOMAIN text : text[i] = "wide"})
TextCells(text) == [i \in 1..Width(text) |-> Cell("text", i, text)]
LabelCells(label) == <<Cell("length", Width(label), <<>>)>> \o TextCells(label)
Root == Cell("length", 0, <<>>)
Pointer(offset) == <<Cell("pointer", offset \div ByteRange, <<>>), Cell("low", offset % ByteRange, <<>>)>>
Fields(n, of) == [i \in 1..n |-> Cell("field", i, of)]

(* label.decode                                                             *)
Decoded(cells) == IF cells # <<>> /\ cells = TextCells(cells[1].of) THEN cells[1].of ELSE <<"garbage">>

ParsedNameNoReturn(buffer, position) ==    \* mutant: goes on behind what the pointer shows
    LET at[p \in 0..Len(buffer) - 1] ==
          LET c == buffer[p + 1]
          IN  IF c = Root THEN [labels |-> <<>>, end |-> p + 1]
              ELSE IF c.is = "pointer"
              THEN at[c.n * ByteRange + buffer[p + 2].n]
              ELSE LET rest == at[p + 1 + c.n]
                   IN  [labels |-> <<Decoded(SubSeq(buffer, p + 2, p + 1 + c.n))>> \o rest.labels, end |-> rest.end]
    IN  at[position]

(* parse_domain_name: from where the buffer is, and where it is afterwards:  *)
(* behind the first pointer, however many follow.                           *)
ParsedName(buffer, position) ==
    LET at[p \in 0..Len(buffer) - 1] ==
          LET c == buffer[p + 1]
          IN  IF c = Root THEN [labels |-> <<>>, end |-> p + 1]
              ELSE IF c.is = "pointer"
              THEN [labels |-> at[c.n * ByteRange + buffer[p + 2].n].labels, end |-> p + 2]
              ELSE LET rest == at[p + 1 + c.n]
                   IN  [labels |-> <<Decoded(SubSeq(buffer, p + 2, p + 1 + c.n))>> \o rest.labels, end |-> rest.end]
    IN  at[position]
DomainName(buffer, position) == Joined(ParsedName(buffer, position).labels)

-----------------------------------------------------------------------------
(* What the device may announce: two instances of a service, one with a dot *)
(* in its name, on one host with two addresses, and a record of a type that *)
(* is unknown.  (key, value) are the entries of a TXT record.                *)
Service == <<<<"_srv">>, <<"_tcp">>, <<"local">>>>
Hostname == <<<<"host">>, <<"local">>>>
Instances == {<<"tv">>, <<"wide", ".", "tv">>}
InstanceName(i) == <<i>> \o Service
Entries == <<<<"Model", "1">>, <<"", "2">>, <<"flag", "none">>, <<"model", "3">>>>
Record(name, type, of) == [name |-> name, type |-> type, of |-> of]
Announced ==
    UNION {{Record(Service, "PTR", i), Record(InstanceName(i), "SRV", i)} : i \in Instances}
        \cup {Record(InstanceName(<<"tv">>), "TXT", <<>>)}
        \cup {Record(Hostname, "A", a) : a \in {<<"local">>, <<"global">>}}
        \cup {Record(Hostname, "other", <<>>)}

(* A name as it is written at an offset: labels up to one from where on it   *)
(* was written before.                                                      *)
Known(labels) == {o \in offsets : o[1] = labels}
NameCells(labels) ==
    LET suffix(k) == SubSeq(labels, k + 1, Len(labels))
        known == {k \in 0..Len(labels) - 1 : compress /\ Known(suffix(k)) # {}}
        plain == IF known = {} THEN Len(labels) ELSE CHOOSE k \in known : \A j \in known : k <= j
        heads == FlattenSeq([i \in 1..plain |-> LabelCells(labels[i])])
    IN  IF known = {} THEN Append(heads, Root)
        ELSE heads \o Pointer((CHOOSE o \in Known(suffix(plain)) : TRUE)[2])
Begins(labels, offset) ==
    {<<SubSeq(labels, k + 1, Len(labels)),
       offset + Len(FlattenSeq([i \in 1..k |-> LabelCells(labels[i])]))>> : k \in 0..Len(labels) - 1}

RdataName(r) == CASE r.type = "PTR" -> InstanceName(r.of) [] r.type = "SRV" -> Hostname
RdataCells(r) ==
    CASE r.type \in {"PTR", "SRV"} ->
           (IF r.type = "SRV" THEN Fields(3, r.of) ELSE <<>>) \o NameCells(RdataName(r))
      [] r.type = "A" -> Fields(4, r.of)
      [] r.type = "TXT" -> FlattenSeq([i \in DOMAIN Entries |-> LabelCells(Entries[i])])
      [] r.type = "other" -> Fields(2, <<>>)

(* The name of the record is written first, and may be pointed to by its     *)
(* data.                                                                    *)
DeviceWrites ==
    /\ doing = "writing" /\ Len(written) < MaxRecords
    /\ \E r \in Announced \ Range(written) :
        LET name == NameCells(r.name)
            data == RdataCells(r)
            head == <<Cell("type", 0, r.type), Cell("length", Len(data), <<>>)>>
            end == Len(packet) + Len(name) + Len(head)
            rdataName == IF r.type \in {"PTR", "SRV"}
                         THEN Begins(RdataName(r), IF r.type = "SRV" THEN end + 3 ELSE end) ELSE {}
        IN  /\ packet' = packet \o name \o head \o data
            /\ written' = Append(written, r)
            /\ offsets' = offsets \cup {o \in Begins(r.name, Len(packet)) : o[2] < Len(packet) + Len(name) - 1}
                              \cup {o \in rdataName : o[2] < end + Len(data) - 1}
    /\ UNCHANGED <<doing, compress, cursor, records>>

Sends == doing = "writing" /\ written # <<>> /\ doing' = "reading"
         /\ UNCHANGED <<compress, packet, offsets, written, cursor, records>>

-----------------------------------------------------------------------------
(* DnsMessage.unpack.                                                       *)

(* parse_txt_dict: a key is looked up without regard of case, the last one  *)
(* holds; an entry without "=" has no value, one without a key is skipped.   *)
Lower(key) == IF key = "Model" THEN "model" ELSE key
ParsedTxt(entries) ==
    LET keys == {Lower(e[1]) : e \in Range(entries)} \ {""}
        last(k) == entries[CHOOSE i \in DOMAIN entries : Lower(entries[i][1]) = k
                               /\ \A j \in DOMAIN entries : Lower(entries[j][1]) = k => j <= i]
    IN  [k \in keys |-> IF last(k)[2] = "none" THEN "" ELSE last(k)[2]]

(* parse_string, until the data are used up.                                *)
Strings(buffer, from, to) ==
    LET at[p \in from..to] ==
          IF p >= to THEN <<>>
          ELSE <<Decoded(SubSeq(buffer, p + 2, p + 1 + buffer[p + 1].n))>> \o at[p + 1 + buffer[p + 1].n]
    IN  at[from]

(* QueryType.parse_rdata: the data, and where the buffer is then.            *)
ParsedRdata(type, p, length) ==
    CASE type = "PTR" -> [rd |-> [name |-> DomainName(packet, p)], end |-> ParsedName(packet, p).end]
      [] type = "SRV" -> [rd |-> [port |-> packet[p + 1].of, target |-> DomainName(packet, p + 3)],
                          end |-> ParsedName(packet, p + 3).end]
      [] type = "TXT" -> [rd |-> [txt |-> ParsedTxt(Strings(packet, p, p + length))], end |-> p + length]
      [] type = "A" -> [rd |-> [address |-> packet[p + 1].of], end |-> p + length]
      [] OTHER -> [rd |-> [raw |-> length], end |-> p + length]

(* DnsResource.unpack_read.                                                 *)
ReadsRecord ==
    /\ doing = "reading" /\ Len(records) < Len(written)
    /\ LET name == ParsedName(packet, cursor)
           type == packet[name.end + 1].of
           length == packet[name.end + 2].n
           data == ParsedRdata(type, name.end + 2, length)
       IN  /\ records' = Append(records, [qname |-> Joined(name.labels), type |-> type, rd |-> data.rd])
           /\ cursor' = data.end
           /\ doing' = IF data.end # name.end + 2 + length THEN "raised"
                       ELSE IF Len(records') = Len(written) THEN "read" ELSE doing
    /\ UNCHANGED <<compress, packet, offsets, written>>

DnsInit ==
    /\ doing = "writing" /\ compress \in BOOLEAN
    /\ packet = <<>> /\ offsets = {} /\ written = <<>> /\ cursor = 0 /\ records = <<>>

DnsNext == DeviceWrites \/ Sends \/ ReadsRecord

-----------------------------------------------------------------------------
(* ServiceParser.                                                           *)
Of(qname, type) == SelectSeq(records, LAMBDA r : r.qname = qname /\ r.type = type)
IsPtr(r) == r.type = "PTR" /\ Head(r.qname) \in Underscored
Tabled == {r.qname : r \in {x \in Range(records) : ~ IsPtr(x)}}

(* The first address of the target that is not link-local, in the order of  *)
(* the message.                                                             *)
AddressOf(target) ==
    LET usable == SelectSeq(Of(target, "A"), LAMBDA r : r.rd.address # <<"local">>)
    IN  IF usable = <<>> THEN NoAddress ELSE usable[1].rd.address
ServiceOf(qname) ==
    LET srv == Of(qname, "SRV")
        txt == Of(qname, "TXT")
    IN  [type |-> SplitName(qname).ptr, instance |-> SplitName(qname).instance,
         port |-> IF srv = <<>> THEN <<>> ELSE srv[1].rd.port,
         address |-> IF srv = <<>> THEN NoAddress ELSE AddressOf(srv[1].rd.target),
         properties |-> IF txt = <<>> THEN <<>> ELSE txt[1].rd.txt]

(* The services that have records, and a placeholder for one that is only    *)
(* pointed to: the last pointer of a type of services is kept, and the name  *)
(* ends at its first dot.                                                   *)
Services == {[name |-> q, service |-> ServiceOf(q)] : q \in {x \in Tabled : IsService(x)}}
Ptrs ==
    LET pointers == SelectSeq(records, IsPtr)
    IN  {pointers[i].rd.name : i \in {j \in DOMAIN pointers :
            \A k \in DOMAIN pointers : pointers[k].qname = pointers[j].qname => k <= j}}
Placeholders ==
    {[name |-> n, instance |-> Joined(<<Head(Split(n))>>)] : n \in Ptrs \ {s.name : s \in Services}}

-----------------------------------------------------------------------------
(* Whatever the order of the records, and however their names are           *)
(* compressed, a message is read to its end, the services are those that    *)
(* the device told of with what it told of each, and a name that was heard  *)
(* is asked for by the labels that the device gave it.                      *)
HeardIsRead ==
    /\ doing # "raised"
    /\ doing = "read" =>
        LET sent(type, i) == \E r \in Range(written) : r.type = type /\ r.of = i
            told == {i \in Instances : sent("SRV", i) \/ (i = <<"tv">> /\ sent("TXT", <<>>))}
            text(i) == Joined(InstanceName(i))
            pointed == SelectSeq(written, LAMBDA r : r.type = "PTR")
            last == IF pointed = <<>> THEN {} ELSE {pointed[Len(pointed)].of}
        IN  /\ {s.name : s \in Services} = {text(i) : i \in told}
            /\ {p.name : p \in Placeholders} = {text(i) : i \in last \ told}
            /\ \A s \in Services : \E i \in told :
                /\ s.name = text(i) /\ s.service.instance = i
                /\ s.service.port = IF sent("SRV", i) THEN i ELSE <<>>
                /\ s.service.address = IF sent("SRV", i) /\ sent("A", <<"global">>) THEN <<"global">> ELSE NoAddress
                /\ i = <<"tv">> /\ sent("TXT", <<>>) =>
                      s.service.properties = [k \in {"model", "flag"} |-> IF k = "model" THEN "3" ELSE ""]
                /\ QnameEncode(s.name) = InstanceName(i)
=============================================================================

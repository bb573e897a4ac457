------------------------------ MODULE MdnsScan ------------------------------
(***************************************************************************)
(* The scanners that speak mDNS themselves (core/mdns.py): to the hosts    *)
(* that were given, one socket each, or by multicast.  Queries are sent    *)
(* once a second; a datagram may be lost, late, or answer a query that was *)
(* answered before.  A sleeping device is answered for by a sleep proxy,   *)
(* which knows its names but no port; only what the proxy is asked for     *)
(* directly comes from the device.                                         *)
(***************************************************************************)
EXTENDS Scanner

CONSTANTS Proxy,      \* the sleep proxy of each device that may sleep
          Timeout     \* of the scan, in rounds of queries

VARIABLES asleep,     \* the devices that sleep
          net,        \* datagrams that may arrive: [source, query, services]
          round,      \* of _resend_loop
          multi,      \* MulticastDnsSdClientProtocol
          uni,        \* _get_services of each host, with UnicastDnsSdClientProtocol
          knocks,     \* the hosts at whose ports a task of knock() knocks
          received    \* history: the services each host has told of

mdnsVars == <<asleep, net, round, multi, uni, knocks, received>>

-----------------------------------------------------------------------------
(* create_service_queries: a query asks for four types, the next one begins *)
(* with the last of them.                                                   *)
SERVICES_PER_MSG == 3
ceil(n, d) == (n + d - 1) \div d
Queries == 1..ceil(Len(Services), SERVICES_PER_MSG)
Chunk(q) == {Services[i] : i \in {j \in DOMAIN Services :
                /\ j > (q - 1) * SERVICES_PER_MSG
                /\ j <= (q - 1) * SERVICES_PER_MSG + 4}}

(* What comes from a source: its own answer, or as a proxy that of those   *)
(* that sleep, with the names only; device info comes along with an answer. *)
DeviceInfoOf(d) == [type |-> "devinfo", device |-> d, address |-> NoAddress, port |-> 0,
                    facts |-> {}]
Own(d, types) == {s \in Offers : s.device = d /\ s.type \in types}
Named(ss) == {[s EXCEPT !.address = NoAddress, !.port = 0, !.facts = {}] : s \in ss}
Sleepers(p) == {d \in asleep : Proxy[d] = p}

Datagram(source, q) ==
    [source |-> source, query |-> q,
     services |-> LET own == IF source \in asleep THEN {} ELSE Own(source, Chunk(q))
                  IN own \cup {DeviceInfoOf(s.device) : s \in own}]
ProxyDatagram(source, q) ==
    [source |-> source, query |-> q,
     services |-> Named(UNION {Own(d, Chunk(q)) : d \in Sleepers(source)})]
(* The answer to a query for ANY of the names that were asked directly. *)
DirectDatagram(source) ==
    [source |-> source, query |-> 0,
     services |-> UNION {Own(d, Range(Services)) : d \in Sleepers(source)}]

Answered(sources) ==
    {m \in {Datagram(h, q) : h \in sources, q \in Queries}
           \cup {ProxyDatagram(h, q) : h \in sources, q \in Queries} : m.services # {}}

-----------------------------------------------------------------------------
(* Mutant: what a message says replaces what was known. *)
AddMessageAlone(parser, m) == m.services

(* ServiceParser: the services of which there are records.  A PTR to a     *)
(* name that has no records is a placeholder without address and port.     *)
AddMessage(parser, m) == parser \cup m.services
Parse(parser) ==
    {s \in parser : \/ s.port # 0
                    \/ ~ \E t \in parser : t.type = s.type /\ t.device = s.device /\ t.port # 0}

UnicastInit ==
    [h \in Host |-> [pc |-> IF scanner = "unicast" THEN "called" ELSE "none",
                     open |-> FALSE, count |-> 0, parser |-> {}, knocker |-> "none"]]

MdnsInit ==
    /\ asleep \in SUBSET DOMAIN Proxy
    /\ net = {}
    /\ round = 0
    /\ multi = [open |-> scanner = "multicast", released |-> FALSE,
                heard |-> <<>>, unicasts |-> {}]
    /\ uni = UnicastInit
    /\ knocks = {}
    /\ received = [h \in Host |-> {}]

Receives(m) == /\ net' = net \ {m}
               /\ received' = [received EXCEPT ![m.source] = @ \cup m.services]

-----------------------------------------------------------------------------
(* MulticastDnsSdClientProtocol.                                           *)

(* Multicast: all queries to all, and to the proxies those for what they   *)
(* answer for; runs until close() cancels it.                              *)
ResendToAll ==
    /\ multi.open
    /\ net' = net \cup Answered(Host)
                      \cup {DirectDatagram(h) : h \in {p \in multi.unicasts : Sleepers(p) # {}}}

(* Unicast: until _finished() cancels it.                                  *)
ResendToHosts ==
    LET asking == {h \in Host : uni[h].pc = "waiting"}
    IN asking # {} /\ net' = net \cup Answered(asking)

(* _resend_loop of either.                                                 *)
Resend ==
    /\ round < Timeout
    /\ round' = round + 1
    /\ ResendToAll \/ ResendToHosts
    /\ UNCHANGED <<scanVars, asleep, multi, uni, knocks, received>>

(* query_responses.setdefault *)
Heard(source) == IF source \in DOMAIN multi.heard THEN multi.heard[source]
                 ELSE [count |-> 0, deepSleep |-> FALSE, parser |-> {}]

IsSleepProxy(m) == \A s \in m.services : s.port = 0

(* datagram_received, of a datagram that can be decoded and of services    *)
(* that were asked for.                                                    *)
AddResponse(m) ==
    [count |-> Heard(m.source).count + 1,
     deepSleep |-> Heard(m.source).deepSleep \/ IsSleepProxy(m),
     parser |-> AddMessage(Heard(m.source).parser, m)]

(* scan._end_if_identifier_found, asked when there were as many responses  *)
(* as queries, of whatever queries.                                        *)
EndCondition(r) == identifier # NoId /\ identifier \in UniqueIdentifiers(Parse(r.parser))

MulticastReceives(m) ==
    /\ multi.open /\ m \in net
    /\ LET r == AddResponse(m)
           heard == With(multi.heard, m.source, r)
           ends == /\ ~IsSleepProxy(m)
                   /\ r.count >= Cardinality(Queries)
                   /\ EndCondition(r)
       IN multi' = [open |-> ~ends,
                    released |-> ends,
                    heard |-> IF ends THEN [h \in {m.source} |-> r] ELSE heard,
                    unicasts |-> IF IsSleepProxy(m) THEN multi.unicasts \cup {m.source}
                                 ELSE multi.unicasts]
    /\ Receives(m)
    /\ UNCHANGED <<scanVars, asleep, round, uni, knocks>>

(* One that cannot be decoded, or tells of other services too. *)
MulticastIgnores(h) ==
    /\ multi.open /\ h \notin DOMAIN multi.heard
    /\ multi' = [multi EXCEPT !.heard = With(@, h, Heard(h))]
    /\ UNCHANGED <<scanVars, asleep, net, round, uni, knocks, received>>

(* get_response is over: by the semaphore, or by its timeout. *)
ToResponse(r) == MdnsResponse(Parse(r.parser), r.deepSleep)
MulticastReturns ==
    /\ scanner = "multicast" /\ scanning = "processing"
    /\ multi.released \/ round = Timeout
    /\ multi' = [multi EXCEPT !.open = FALSE]
    /\ Processed({ToResponse(multi.heard[h]) : h \in DOMAIN multi.heard})
    /\ UNCHANGED <<asleep, net, round, uni, knocks, received>>

-----------------------------------------------------------------------------
(* UnicastMdnsScanner._get_services and UnicastDnsSdClientProtocol.        *)

(* knock.knocker starts a task that starts one for each port.              *)
Knocker(h, state) == [uni[h] EXCEPT !.knocker = state]

(* The socket may fail to open, and the knocker is cancelled then.         *)
Begins(h) ==
    /\ scanner = "unicast" /\ uni[h].pc = "called"
    /\ \/ uni' = [uni EXCEPT ![h] = [Knocker(h, "knocking") EXCEPT !.pc = "waiting", !.open = TRUE]]
       \/ uni' = [uni EXCEPT ![h] = [Knocker(h, "cancelled") EXCEPT !.pc = "raised"]]
    /\ UNCHANGED <<scanVars, asleep, net, round, multi, knocks, received>>

(* knock(): a task for each port, if it runs before it is cancelled; that  *)
(* may wake the device up.                                                 *)
Knocks(h) ==
    /\ uni[h].knocker = "knocking" /\ h \notin knocks
    /\ knocks' = knocks \cup {h}
    /\ uni' = [uni EXCEPT ![h].knocker = "waits"]
    /\ asleep' \in {asleep, asleep \ {h}}
    /\ UNCHANGED <<scanVars, net, round, multi, received>>

(* _async_knock: connected, refused or timed out.  Nobody cancels the tasks *)
(* of a knocker that was cancelled, so that they go on until then.          *)
KnockEnds(h) ==
    /\ h \in knocks
    /\ knocks' = knocks \ {h}
    /\ uni' = [uni EXCEPT ![h].knocker = IF @ = "waits" THEN "ended" ELSE @]
    /\ UNCHANGED <<scanVars, asleep, net, round, multi, received>>

(* datagram_received counts the responses, of whatever queries.            *)
UnicastReceives(h, m) ==
    /\ uni[h].open /\ m \in net /\ m.source = h
    /\ LET all == uni[h].count + 1 = Cardinality(Queries)
       IN uni' = [uni EXCEPT ![h].count = @ + 1,
                             ![h].parser = AddMessage(@, m),
                             ![h].open = ~all,
                             ![h].pc = IF all THEN "released" ELSE @]
    /\ Receives(m)
    /\ UNCHANGED <<scanVars, asleep, round, multi, knocks>>

(* error_received: the semaphore is released and the socket stays open.    *)
UnicastError(h) ==
    /\ uni[h].open /\ uni[h].pc = "waiting"
    /\ uni' = [uni EXCEPT ![h].pc = "released"]
    /\ UNCHANGED <<scanVars, asleep, net, round, multi, knocks, received>>

(* Mutant: the transport is closed only when the response was complete. *)
UnicastEndsOpen(h) ==
    /\ \/ uni[h].pc = "released" /\ uni' = [uni EXCEPT ![h] =
             [Knocker(h, "cancelled") EXCEPT !.pc = "returned"]]
       \/ uni[h].pc = "waiting" /\ round = Timeout /\ uni' = [uni EXCEPT ![h] =
             [Knocker(h, "cancelled") EXCEPT !.pc = "timed out", !.open = FALSE, !.parser = {}]]
    /\ UNCHANGED <<scanVars, asleep, net, round, multi, knocks, received>>

(* unicast() closes the transport and cancels the knocker.                 *)
Closed(h, pc, parser) ==
    [Knocker(h, "cancelled") EXCEPT !.pc = pc, !.open = FALSE, !.parser = parser]

(* get_response returns, or times out: what was received is dropped then.  *)
UnicastEnds(h) ==
    /\ \/ /\ uni[h].pc = "released"
          /\ uni' = [uni EXCEPT ![h] = Closed(h, "returned", @.parser)]
       \/ /\ uni[h].pc = "waiting" /\ round = Timeout
          /\ uni' = [uni EXCEPT ![h] = Closed(h, "timed out", {})]
    /\ UNCHANGED <<scanVars, asleep, net, round, multi, knocks, received>>

(* UnicastMdnsScanner.process: gather() returns when all have, and raises  *)
(* as soon as one does, the others going on.                               *)
UnicastReturns ==
    /\ scanner = "unicast" /\ scanning = "processing"
    /\ \/ /\ \A h \in Host : uni[h].pc \in {"returned", "timed out"}
          /\ Processed({MdnsResponse(Parse(uni[h].parser), FALSE) : h \in Host})
       \/ /\ \E h \in Host : uni[h].pc = "raised"
          /\ ProcessRaises
    /\ UNCHANGED mdnsVars

-----------------------------------------------------------------------------
(* What happens without the network: the event loop runs what is ready and *)
(* timers fire.                                                            *)
MdnsRuns ==
    \/ Resend
    \/ MulticastReturns
    \/ UnicastReturns
    \/ \E h \in Host : Begins(h) \/ Knocks(h) \/ KnockEnds(h) \/ UnicastEnds(h)

MdnsNext ==
    \/ MdnsRuns
    \/ \E m \in net : MulticastReceives(m)
    \/ \E h \in Host : MulticastIgnores(h) \/ UnicastError(h)
    \/ \E h \in Host, m \in net : UnicastReceives(h, m)
=============================================================================

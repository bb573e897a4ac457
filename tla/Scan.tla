-------------------------------- MODULE Scan --------------------------------
(***************************************************************************)
(* scan() of pyatv/__init__.py with the scanners it chooses from, and what *)
(* a scan promises.                                                        *)
(*                                                                         *)
(* The scanners that use a zeroconf instance of the caller (core/scan.py)  *)
(* come first: its service browser fills a cache as answers come; the      *)
(* scanner asks for the details of what it finds there, twice in the case  *)
(* of given hosts.  The cache is external; `load_from_cache` and           *)
(* `async_request` are what the code relies on.                            *)
(***************************************************************************)
EXTENDS MdnsScan

CONSTANTS Wanted,     \* the hosts that were given to scan()
          NoService

ASSUME NoServiceAssumption == NoService \notin Offers

VARIABLES ptrs,       \* the names in the cache: a set of [type, device]
          details,    \* the services whose details are in the cache
          lookup,     \* the await at which _lookup_services_and_models is
          infos,      \* the queries that were built: a set of [type, device]
          asked,      \* those of them for which requests are awaited
          byType      \* infos_by_address_type

zcVars == <<ptrs, details, lookup, infos, asked, byType>>

Name(s) == [type |-> s.type, device |-> s.device]
OfNames(names, ss) == {s \in ss : Name(s) \in names}

ZcInit ==
    /\ ptrs = {} /\ details = {} /\ infos = {} /\ asked = {}
    /\ lookup = IF scanner \in {"zc_multicast", "zc_unicast"} THEN "called" ELSE "none"
    /\ byType = [h \in Wanted |-> [t \in Range(Services) |-> NoService]]

(* The browser of the caller, at any time: a name, with or without details. *)
Learns ==
    /\ lookup \notin {"none", "over"}
    /\ \E s \in Offers :
         /\ ptrs' = ptrs \cup {Name(s)}
         /\ details' \in {details, details \cup {s}}
    /\ <<ptrs, details>>' # <<ptrs, details>>
    /\ UNCHANGED <<scanVars, lookup, infos, asked, byType>>

-----------------------------------------------------------------------------
(* _build_service_info_queries: one for each name in the cache.            *)
BuildServiceInfoQueries == {n \in ptrs : n.type \in Range(Services)}

(* info.load_from_cache *)
Cached(names) == OfNames(names, details)

(* _process_service_info_responses: services by address. *)
ByAddress(ss) == {MdnsResponse(at, \A s \in at : s.port = 0) :
                    at \in {{s \in ss : s.address = a} : a \in {s.address : s \in ss}}}

(* info.async_request, awaited for all at once: each is answered, which    *)
(* the cache keeps, or times out.                                          *)
Requested == /\ infos' = BuildServiceInfoQueries
             /\ asked' = infos' \ {Name(s) : s \in details}
RequestsEnd == /\ asked # {}
               /\ \E late \in SUBSET OfNames(asked, Offers) : details' = details \cup late
               /\ asked' = {}
               /\ UNCHANGED <<ptrs, infos>>

(* ZeroconfMulticastScanner._lookup_services_and_models *)
ZcMulticastBegins ==
    /\ scanner = "zc_multicast" /\ lookup = "called"
    /\ Requested
    /\ lookup' = IF asked' = {} THEN "over" ELSE "requests"
    /\ IF asked' = {} THEN Processed(ByAddress(Cached(infos'))) ELSE UNCHANGED scanVars
    /\ UNCHANGED <<ptrs, details, byType>>
ZcMulticastReturns ==
    /\ lookup = "requests"
    /\ RequestsEnd
    /\ Processed(ByAddress(OfNames(infos, details')))
    /\ lookup' = "over"
    /\ UNCHANGED byType

-----------------------------------------------------------------------------
(* ZeroconfUnicastScanner._process_service_infos: those of the hosts that  *)
(* were given, by type; a later one replaces an earlier one.               *)
ProcessServiceInfos(table, ss) ==
    [h \in Wanted |-> [t \in DOMAIN table[h] |->
        IF \E s \in ss : s.address = h /\ s.type = t
        THEN CHOOSE s \in ss : s.address = h /\ s.type = t
        ELSE table[h][t]]]

(* _all_services_discovered *)
AllServicesDiscovered(table) == \A h \in Wanted, t \in Range(Services) : table[h][t] # NoService

(* _process_matching_service_infos *)
Matching(table) == {table[h][t] : h \in Wanted, t \in Range(Services)} \ {NoService}

(* What follows is the end of the lookup, or another await. *)
Goes(next) ==
    /\ lookup' = next
    /\ IF next = "over" THEN Processed(ByAddress(Matching(byType'))) ELSE UNCHANGED scanVars

(* _load_from_cache_or_send_queries: up to the await of the requests, or   *)
(* the end if everything is known, or if there is nothing to ask for.      *)
LoadsFromCache(pass, next) ==
    /\ Requested
    /\ byType' = ProcessServiceInfos(byType, Cached(infos'))
    /\ Goes(IF AllServicesDiscovered(byType') THEN "over"
            ELSE IF asked' = {} THEN next ELSE pass)
    /\ UNCHANGED <<ptrs, details>>
QueriesEnd(pass, next) ==
    /\ lookup = pass
    /\ RequestsEnd
    /\ byType' = ProcessServiceInfos(byType, OfNames(asked, details'))
    /\ Goes(IF AllServicesDiscovered(byType') THEN "over" ELSE next)

(* ZeroconfUnicastScanner._lookup_services_and_models: cache and requests, *)
(* then _send_ptr_queries and a sleep in which the hosts that were asked   *)
(* directly may answer (Learns), and cache and requests again.             *)
ZcUnicastBegins == /\ scanner = "zc_unicast" /\ lookup = "called"
                   /\ LoadsFromCache("first", "sleeps")
ZcUnicastSleeps == QueriesEnd("first", "sleeps")
ZcUnicastWakesUp == lookup = "sleeps" /\ LoadsFromCache("second", "over")
ZcUnicastReturns == QueriesEnd("second", "over")

ZcLooksUp ==
    \/ ZcMulticastBegins \/ ZcMulticastReturns
    \/ ZcUnicastBegins \/ ZcUnicastSleeps \/ ZcUnicastWakesUp \/ ZcUnicastReturns

ZcNext == Learns \/ ZcLooksUp

(***************************************************************************)
(* The four scanners.                                                      *)
(***************************************************************************)
CONSTANT Identifiers   \* what may be asked for

allVars == <<scanVars, mdnsVars, zcVars>>

ScannersInit ==
    /\ ScanInit({"multicast", "unicast", "zc_multicast", "zc_unicast"}, Identifiers \cup {NoId})
    /\ MdnsInit
    /\ ZcInit

ScannersNext ==
    \/ MdnsNext /\ UNCHANGED zcVars
    \/ ZcNext /\ UNCHANGED mdnsVars
    \/ Discover /\ UNCHANGED <<mdnsVars, zcVars>>

(* The event loop runs what is ready and timers fire; of Discover only that *)
(* it happens.                                                             *)
ScannersSpec ==
    /\ ScannersInit /\ [][ScannersNext]_allVars
    /\ WF_allVars(MdnsRuns /\ UNCHANGED zcVars)
    /\ WF_allVars(ZcLooksUp /\ UNCHANGED mdnsVars)
    /\ WF_scanning(scanning = "handling" /\ scanning' = "done")

-----------------------------------------------------------------------------
(* What the scan was told by the hosts it did not give up on. *)
Told == CASE scanner = "multicast" -> UNION {received[h] : h \in Host}
          [] scanner = "unicast" -> UNION {received[h] : h \in {x \in Host : uni[x].pc = "returned"}}
          [] scanner = "zc_multicast" -> OfNames(infos, details)
          [] scanner = "zc_unicast" -> {s \in OfNames(infos, details) : s.address \in Wanted}

(* A scan for no identifier returns a device for each address it was told  *)
(* of, with exactly the protocols of the services it was told of there, in *)
(* whatever order, in however many answers and through whichever source,   *)
(* unless none of them has an identifier (BaseConfig.ready).               *)
EverythingHeardIsReported ==
    scanning = "done" /\ identifier = NoId =>
        LET usable(a) == {s \in Told : s.address = a /\ s.port # 0 /\ s.type \in DOMAIN ProtocolOf}
        IN \A a \in Host :
             IF \E s \in usable(a) : UniqueId(s) # NoId
             THEN a \in DOMAIN found
                  /\ DOMAIN found[a].services = {ProtocolOf[s.type] : s \in usable(a)}
             ELSE a \notin DOMAIN found

(* The access control in the AirPlay record of a device holds for RAOP     *)
(* too, and home sharing, which one of three DMAP records may announce,    *)
(* gives the service its credentials, whichever record came first; and a   *)
(* device that is awake and speaks for none that sleeps is not reported to *)
(* be in deep sleep, whatever part of its answers was lost.                *)
RecordsAreRead ==
    scanning = "done" =>
      \A a \in DOMAIN found :
        LET services == found[a].services
            facts(types) == UNION {s.facts : s \in {x \in ServicesAt(a) : x.type \in types}}
        IN /\ "acl" \in facts({"airplay"}) =>
                \A p \in {"AirPlay", "RAOP"} \cap DOMAIN services : services[p].pairing = "Disabled"
           /\ "hg" \in facts({"homesharing", "hscp"}) =>
                services["DMAP"].pairing = "Optional" /\ services["DMAP"].credentials = a
           /\ found[a].deep_sleep => a \in asleep \/ Sleepers(a) # {}

(* Every scan comes to an end, and nothing of it is left then or later: no *)
(* socket is open and no task knocks, not even those of the hosts that     *)
(* were still waiting when one of them made the scan raise.                *)
ScanEnds ==
    <>[](/\ scanning \in {"done", "raised"}
         /\ ~multi.open
         /\ \A h \in Host : ~uni[h].open
         /\ knocks = {})

(***************************************************************************)
(* The network that is scanned: an Apple TV that may sleep and a speaker   *)
(* that is its sleep proxy; three kinds of records of one protocol, and    *)
(* access control.                                                         *)
(***************************************************************************)
S(d, t, fs) == [type |-> t, device |-> d, address |-> d, port |-> 1, facts |-> fs]

MCHost == {"tv", "speaker"}
MCServices == <<"devinfo", "mrp", "homesharing", "touchable", "airplay", "raop">>
MCOffers == {S("tv", "mrp", {"id"}), S("tv", "homesharing", {"hg"}), S("tv", "touchable", {}),
             S("speaker", "airplay", {"id", "acl"}), S("speaker", "raop", {})}
MCProxy == "tv" :> "speaker"
=============================================================================

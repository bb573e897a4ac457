------------------------------ MODULE Scanner -------------------------------
(***************************************************************************)
(* core/scan.py: what all scanners have in common (BaseScanner and scan()  *)
(* of pyatv/__init__.py).  A scanner collects responses, each a set of     *)
(* services; `discover` turns them into configurations and `scan` keeps    *)
(* those that were asked for.                                              *)
(*                                                                         *)
(* What pyatv makes of the services of a device comes first: the handlers  *)
(* of the protocols (`scan`, `service_info`, `device_info` of              *)
(* protocols/*/__init__.py), the merge of two services of one protocol     *)
(* (interface.BaseService) and the configuration of a device (conf.AppleTV *)
(* and interface.BaseConfig).                                              *)
(*                                                                         *)
(* A service on the network is a record                                    *)
(*    [type, device, address, port, facts]:                                *)
(* `type` is its DNS-SD type, `device` the device its instance name is     *)
(* that of, `facts` the set of those TXT properties that a decision of the *)
(* code depends on.  Port 0 and NoAddress are those of a service of which  *)
(* only the name is known.  An identifier is the device it identifies.     *)
(***************************************************************************)
EXTENDS Naturals, SequencesExt

CONSTANTS NoAddress, NoId, NoCredentials

(* _services: the protocol each service type belongs to; the other types   *)
(* (airport, device info, sleep proxy) have a handler that returns nothing. *)
ProtocolOf == [homesharing |-> "DMAP", touchable |-> "DMAP", hscp |-> "DMAP", mrp |-> "MRP",
               airplay |-> "AirPlay", raop |-> "RAOP", companion |-> "Companion"]

(* get_unique_id: in the instance name of these types, a TXT property else. *)
UniqueId(s) ==
    IF s.type \in {"homesharing", "touchable", "raop"} \/ "id" \in s.facts
    THEN s.device ELSE NoId

(* get_unique_identifiers *)
UniqueIdentifiers(ss) == {UniqueId(s) : s \in ss} \ {NoId}

-----------------------------------------------------------------------------
(* Handlers: the service that scan() of the protocol makes of a discovery.  *)

(* MutableService.__init__: pairing is Unsupported until service_info ran. *)
MutableService(s, credentials, enabled) ==
    [protocol |-> ProtocolOf[s.type], id |-> UniqueId(s), facts |-> s.facts,
     credentials |-> credentials, enabled |-> enabled,
     password |-> FALSE, pairing |-> "Unsupported"]

(* MRP is disabled from tvOS 15 on. *)
MrpServiceHandler(s) == MutableService(s, NoCredentials, "build19" \notin s.facts)
CompanionServiceHandler(s) == MutableService(s, NoCredentials, TRUE)
AirPlayServiceHandler(s) == MutableService(s, NoCredentials, TRUE)
RaopServiceHandler(s) == MutableService(s, NoCredentials, TRUE)
DmapServiceHandler(s) == MutableService(s, NoCredentials, TRUE)

(* The home sharing group of the TXT records is used as credentials. *)
HomeSharing(s) == IF "hg" \in s.facts THEN s.device ELSE NoCredentials
HomesharingServiceHandler(s) == MutableService(s, HomeSharing(s), TRUE)
HscpServiceHandler(s) == MutableService(s, HomeSharing(s), TRUE)

Handler(s) == CASE s.type = "mrp" -> MrpServiceHandler(s)
                [] s.type = "companion" -> CompanionServiceHandler(s)
                [] s.type = "airplay" -> AirPlayServiceHandler(s)
                [] s.type = "raop" -> RaopServiceHandler(s)
                [] s.type = "touchable" -> DmapServiceHandler(s)
                [] s.type = "homesharing" -> HomesharingServiceHandler(s)
                [] s.type = "hscp" -> HscpServiceHandler(s)

-----------------------------------------------------------------------------
(* The configuration: at most one service of each protocol.                *)

(* BaseService.merge: the identifier of the first service stays.           *)
Merged(a, b) ==
    [a EXCEPT !.credentials = IF b.credentials # NoCredentials THEN b.credentials ELSE @,
              !.facts = @ \cup b.facts]

(* A dictionary with one more entry, or another one. *)
With(f, k, v) == [x \in DOMAIN f \cup {k} |-> IF x = k THEN v ELSE f[x]]

(* AppleTV.add_service *)
AddService(services, s) ==
    IF s.protocol \in DOMAIN services
    THEN [services EXCEPT ![s.protocol] = Merged(@, s)]
    ELSE With(services, s.protocol, s)

(* BaseConfig.all_identifiers, ready *)
AllIdentifiers(services) == {services[p].id : p \in DOMAIN services} \ {NoId}
Ready(services) == AllIdentifiers(services) # {}

(* BaseConfig.identifier: that of the first protocol, in this order, that has one. *)
Identifier(services) ==
    LET known == SelectSeq(<<"MRP", "DMAP", "AirPlay", "RAOP", "Companion">>,
                           LAMBDA p : p \in DOMAIN services /\ services[p].id # NoId)
    IN IF known = <<>> THEN NoId ELSE services[known[1]].id

-----------------------------------------------------------------------------
(* service_info: what has to be done before a service can be used.  It is  *)
(* called with all the services of the device there.                       *)

(* utils.is_password_required: "pw", or a bit of the flags *)
IsPasswordRequired(facts) == facts \cap {"pw", "sf_pw"} # {}

(* utils.get_pairing_requirement *)
GetPairingRequirement(facts) ==
    CASE facts \cap {"sf_pin", "sf_legacy"} # {} -> "Mandatory"
      [] facts \cap {"sf_pin", "sf_legacy"} = {} /\ "act2" \in facts -> "Unsupported"
      [] OTHER -> "NotNeeded"

(* utils.update_service_details *)
UpdateServiceDetails(s) ==
    [s EXCEPT !.password = IsPasswordRequired(s.facts),
              !.pairing = CASE "acl" \in s.facts -> "Disabled"
                            [] "acl" \notin s.facts /\ "mac" \in s.facts -> "Unsupported"
                            [] OTHER -> GetPairingRequirement(s.facts)]

MrpServiceInfo(s) ==
    [s EXCEPT !.pairing = CASE ~s.enabled -> "NotNeeded"
                            [] s.enabled /\ "allowpairing" \in s.facts -> "Optional"
                            [] OTHER -> "Disabled"]
CompanionServiceInfo(s) ==
    [s EXCEPT !.pairing = CASE "rpfl_off" \in s.facts -> "Disabled"
                            [] "rpfl_off" \notin s.facts /\ "rpfl_pin" \in s.facts -> "Mandatory"
                            [] OTHER -> "Unsupported"]
DmapServiceInfo(s) ==
    [s EXCEPT !.pairing = IF "hg" \in s.facts THEN "Optional" ELSE "Mandatory"]
AirPlayServiceInfo(s) == UpdateServiceDetails(s)

(* The access control of a device is that of its AirPlay service.          *)
RaopServiceInfo(s, services) ==
    LET control == IF "AirPlay" \in DOMAIN services THEN services["AirPlay"].facts ELSE {}
    IN CASE "acl" \in control -> [s EXCEPT !.pairing = "Disabled"]
         [] "acl" \notin control /\ "act2" \in control -> [s EXCEPT !.pairing = "Unsupported"]
         [] OTHER -> UpdateServiceDetails(s)

ServiceInfo(s, services) ==
    CASE s.protocol = "MRP" -> MrpServiceInfo(s)
      [] s.protocol = "Companion" -> CompanionServiceInfo(s)
      [] s.protocol = "DMAP" -> DmapServiceInfo(s)
      [] s.protocol = "AirPlay" -> AirPlayServiceInfo(s)
      [] s.protocol = "RAOP" -> RaopServiceInfo(s, services)

-----------------------------------------------------------------------------
(* device_info: what the TXT records say of the device, as a function from *)
(* the fields that are known.                                              *)

(* support/device_info.lookup_os: of a Mac only *)
LookupOs(facts) == IF "mac" \in facts THEN "os" :> "MacOS" ELSE <<>>
(* support/device_info.lookup_version: from the build number *)
LookupVersion(facts) == IF "build19" \in facts THEN "version" :> "15.x" ELSE <<>>

MrpDeviceInfo(facts) == LookupVersion(facts) @@ "os" :> "TvOS"
DmapDeviceInfo(type) == "os" :> "Legacy" @@ IF type = "hscp" THEN "model" :> "Music" ELSE <<>>
AirPlayDeviceInfo(facts) == LookupOs(facts)
RaopDeviceInfo(facts) == LookupOs(facts)

Extractor(s) == CASE s.type = "mrp" -> MrpDeviceInfo(s.facts)
                  [] s.type \in {"homesharing", "touchable", "hscp"} -> DmapDeviceInfo(s.type)
                  [] s.type = "airplay" -> AirPlayDeviceInfo(s.facts)
                  [] s.type \in {"raop", "airport"} -> RaopDeviceInfo(s.facts)
                  [] OTHER -> <<>>

(* BaseScanner._get_device_info: dict_merge keeps what is there; ss is the *)
(* sequence of the services as they were discovered.                       *)
GetDeviceInfo(ss, model) ==
    FoldLeft(LAMBDA info, s : info @@ Extractor(s), <<>>, ss) @@ "model" :> model

(***************************************************************************)
(* BaseScanner.                                                            *)
(***************************************************************************)
CONSTANTS Host,      \* the addresses on the network; a device is named by its address
          Offers,    \* what is on the network: a set of services
          Services   \* BaseScanner.services: the types to look for, as a sequence

ASSUME ServicesAssumption == Services \in Seq(STRING) /\ Services # <<>>

(* A device has one service of a type, which has a port; and the services  *)
(* of one protocol agree on its identifier (Merged keeps that of the first *)
(* one: an hscp record without one would hide that of a homesharing one).  *)
ASSUME OffersAssumption ==
    /\ IsFiniteSet(Offers)
    /\ Offers \subseteq [type : STRING, device : Host, address : Host, port : Nat \ {0},
                        facts : SUBSET STRING]
    /\ \A s \in Offers : s.address = s.device
    /\ \A s, t \in Offers : s.type = t.type /\ s.device = t.device => s = t
    /\ \A s, t \in Offers :
          /\ {s.type, t.type} \subseteq DOMAIN ProtocolOf
          /\ ProtocolOf[s.type] = ProtocolOf[t.type] /\ s.device = t.device
          => UniqueId(s) = UniqueId(t)
ASSUME NoHostAssumption == NoAddress \notin Host /\ NoCredentials \notin Host

VARIABLES scanner,     \* the kind of scanner that scan() chose
          identifier,  \* the identifier to look for, or NoId
          scanning,    \* "processing", "handling", "done" or "raised"
          responses,   \* what process() handed to handle_response: a set of responses
          found        \* the configurations by address, when done

scanVars == <<scanner, identifier, scanning, responses, found>>

(* mdns.Response; _get_model takes the first device info record there is,  *)
(* whichever of the devices of this response it is of.                     *)
MdnsResponse(services, deepSleep) == [services |-> services, deepSleep |-> deepSleep]
Models(r) == LET known == {s.device : s \in {x \in r.services : x.type = "devinfo"}}
             IN IF known = {} THEN {NoId} ELSE known

(* scan() chooses the scanner by its arguments; an identifier ends only the *)
(* multicast scan before its time.                                          *)
ScanInit(kinds, wanted) ==
    /\ scanner \in kinds
    /\ identifier \in wanted
    /\ scanning = "processing"
    /\ responses = {}
    /\ found = <<>>

(* process() is over: its responses, or the exception of one of its parts. *)
Processed(rs) == scanning' = "handling" /\ responses' = rs
                 /\ UNCHANGED <<scanner, identifier, found>>
ProcessRaises == scanning' = "raised" /\ UNCHANGED <<scanner, identifier, responses, found>>

-----------------------------------------------------------------------------
(* BaseScanner._service_discovered leaves out what has no address or port, *)
(* handle_response what is not of a known type.                            *)
Discovered(r) == {s \in r.services : /\ s.type \in Range(Services)
                                     /\ s.address # NoAddress
                                     /\ s.port # 0}
Handled(r) == {s \in Discovered(r) : s.type \in DOMAIN ProtocolOf}

AllHandled == UNION {Handled(r) : r \in responses}
AddressesFound == {s.address : s \in AllHandled}
ServicesAt(a) == {s \in AllHandled : s.address = a}

(* The services of one device after all were added and service_info has    *)
(* run for each; ss is the order in which they were discovered.            *)
AddAll(ss) ==
    LET added[n \in 0..Len(ss)] ==
            IF n = 0 THEN <<>> ELSE AddService(added[n - 1], Handler(ss[n]))
    IN added[Len(ss)]
(* Mutant: service_info is applied as each service is added. *)
InfoAsAdded(ss) ==
    FoldLeft(LAMBDA m, s :
                LET m2 == AddService(m, Handler(s)) IN
                [m2 EXCEPT ![ProtocolOf[s.type]] = ServiceInfo(@, m2)], <<>>, ss)

ServicesOf(ss) == LET services == AddAll(ss)
                  IN [p \in DOMAIN services |-> ServiceInfo(services[p], services)]
Config(ss, r, model) == [services |-> ServicesOf(ss),
                         deep_sleep |-> r.deepSleep,
                         info |-> GetDeviceInfo(ss, model)]

(* BaseScanner.discover: services of a device were discovered in the order *)
(* in which their answers arrived, which is any; the first response that   *)
(* had one of them says whether the device sleeps.                         *)
ConfigsOf(a) ==
    UNION {{Config(ss, r, m) : ss \in SetToSeqs(ServicesAt(a)), m \in Models(r)} :
             r \in {x \in responses : \E s \in Handled(x) : s.address = a}}

(* scan(): ready, and with the identifier that was asked for.              *)
ShouldInclude(c) == /\ Ready(c.services)
                    /\ identifier # NoId => identifier \in AllIdentifiers(c.services)

Discover ==
    /\ scanning = "handling"
    /\ LET configs == [a \in AddressesFound |-> ConfigsOf(a)]
       IN \E cs \in [AddressesFound -> UNION Range(configs)] :
            /\ \A a \in AddressesFound : cs[a] \in configs[a]
            /\ found' = [a \in {x \in AddressesFound : ShouldInclude(cs[x])} |-> cs[a]]
    /\ scanning' = "done"
    /\ UNCHANGED <<scanner, identifier, responses>>
=============================================================================

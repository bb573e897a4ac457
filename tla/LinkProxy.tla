------------------------------ MODULE LinkProxy ------------------------------
(***************************************************************************)
(* atvproxy between one client and a device: MrpAppleTVProxy,              *)
(* CompanionAppleTVProxy and the plain relay (scripts/atvproxy.py).  TCP   *)
(* cuts what the client sends anywhere: a message is two parts.  Ciphers   *)
(* are those of HapPairing, and the decoding of what the device sends is   *)
(* that of Framing.                                                        *)
(***************************************************************************)
EXTENDS Chunks

CONSTANT MaxFromClient, MaxEvents    \* messages of the client; of the device, its answers apart

ASSUME LinkAssumption == {MaxFromClient, MaxEvents} \subseteq Nat

Kinds == {"mrp", "companion", "relay"}

VARIABLES
    kind,
    stage,             \* start: "connecting", "greeting" the device, "started" or "failed"
    client, device,    \* the transports: "none", "open" or "closed"
    clientSent, deviceSent,    \* all that each side has sent
    toProxy, fromDevice,       \* under way to the proxy: parts, messages
    buffer,            \* buffer
    event, task,       \* _receive_event, and _receive_task: "none", "runs" or "cancelled"
    xid,               \* system_info_xid, 0 for None
    toDevice, toClient    \* all that was sent on (parts), and what was said to the client

linkVars == <<kind, stage, client, device, clientSent, deviceSent, toProxy, fromDevice,
              buffer, event, task, xid, toDevice, toClient>>

(* proxy_factory: start is a task of its own, the client is there already; *)
(* a relay has connected to the device before it listens.                  *)
LinkInit ==
    /\ kind \in Kinds
    /\ stage = IF kind = "relay" THEN "started" ELSE "connecting"
    /\ client = "open" /\ device = IF kind = "relay" THEN "open" ELSE "none"
    /\ clientSent = <<>> /\ deviceSent = <<>> /\ toProxy = <<>> /\ fromDevice = <<>> /\ buffer = <<>>
    /\ event = FALSE /\ task = "none" /\ xid = 0
    /\ toDevice = <<>> /\ toClient = <<>>

(* What is not sent on: pairing, and DEVICE_INFO of MRP, which the proxy    *)
(* answers for itself.                                                     *)
Sorts == {"auth", "info", "data"}
OwnSorts == IF kind = "mrp" THEN {"auth", "info"} ELSE {"auth"}
IsOwn(m) == m.k \in OwnSorts
Answer(m) == [m EXCEPT !.k = "response", !.as = "proxy"]

(* ------------------------------ both sides ------------------------------ *)
(* "info" tells who the client is: DEVICE_INFO, or _systemInfo, which a    *)
(* client sends once.                                                      *)
ClientSends(k) ==
    /\ client = "open" /\ Len(clientSent) < MaxFromClient
    /\ k = "info" => \A i \in DOMAIN clientSent : clientSent[i].k # "info"
    /\ LET m == [k |-> k, x |-> Len(clientSent) + 1, as |-> "client"]
       IN clientSent' = Append(clientSent, m) /\ toProxy' = toProxy \o Parts(m)
    /\ UNCHANGED <<kind, stage, client, device, deviceSent, fromDevice, buffer, event, task, xid, toDevice, toClient>>

(* The device answers a request under the identifier it came with, and      *)
(* counts the identifiers of its own events by itself.                     *)
DeviceSends(m) ==
    /\ device = "open" /\ stage = "started" /\ ~Contains(deviceSent, m)
    /\ \/ m.k = "event" /\ m.x = 1 + Len(SelectSeq(deviceSent, LAMBDA e : e.k = "event"))
       \/ m.k = "response" /\ \E i \in DOMAIN toDevice : toDevice[i].part = 2 /\ toDevice[i].m.x = m.x
    /\ deviceSent' = Append(deviceSent, m) /\ fromDevice' = Append(fromDevice, m)
    /\ UNCHANGED <<kind, stage, client, device, clientSent, toProxy, buffer, event, task, xid, toDevice, toClient>>

(* --------------------------------- start -------------------------------- *)
Connects ==
    /\ stage = "connecting"
    /\ \/ stage' = "greeting" /\ device' = "open"
       \/ stage' = "failed" /\ UNCHANGED device
    /\ UNCHANGED <<kind, client, clientSent, deviceSent, toProxy, fromDevice, buffer, event, task, xid, toDevice, toClient>>

(* Those of the messages that are of some sorts, as they follow each other. *)
OfSorts(ms, sorts) ==
    LET kept[n \in 0..Len(ms)] ==
            IF n = 0 THEN <<>>
            ELSE IF ms[n].k \in sorts THEN Append(kept[n - 1], ms[n]) ELSE kept[n - 1]
    IN  kept[Len(ms)]

(* MrpAppleTVProxy._process_buffer: all the messages that are whole.        *)
ProcessAll(parts) ==
    LET ms == Messages(parts)
    IN  /\ buffer' = From(parts, 2 * Len(ms) + 1)
        /\ toDevice' = toDevice \o PartsOf(OfSorts(ms, Sorts \ OwnSorts))
        /\ toClient' = toClient \o (LET own == OfSorts(ms, OwnSorts) IN [i \in DOMAIN own |-> Answer(own[i])])

(* MRP has exchanged DEVICE_INFO and processes what came meanwhile,        *)
(* Companion has verified itself and starts the task.                      *)
StartedKeeps ==      \* mutant: what came before is left for the next data
    /\ stage = "greeting" /\ device = "open" /\ stage' = "started"
    /\ event' = event /\ task' = (IF kind = "companion" THEN "runs" ELSE task)
    /\ UNCHANGED <<buffer, toDevice, toClient>>
    /\ UNCHANGED <<kind, client, device, clientSent, deviceSent, toProxy, fromDevice, xid>>
Started ==
    /\ stage = "greeting" /\ device = "open" /\ stage' = "started"
    /\ IF kind = "mrp" THEN ProcessAll(buffer) /\ UNCHANGED <<event, task>>
       ELSE event' = TRUE /\ task' = "runs" /\ UNCHANGED <<buffer, toDevice, toClient>>
    /\ UNCHANGED <<kind, client, device, clientSent, deviceSent, toProxy, fromDevice, xid>>

(* The device does not answer: MRP cleans up, Companion does not.          *)
StartFails ==
    /\ stage = "greeting" /\ stage' = "failed"
    /\ device' = IF kind = "mrp" THEN "closed" ELSE device
    /\ UNCHANGED <<kind, client, clientSent, deviceSent, toProxy, fromDevice, buffer, event, task, xid, toDevice, toClient>>

(* ------------------------- from client to device ------------------------ *)
(* data_received: MRP sends on as soon as it is connected, Companion when   *)
(* its task runs, a relay what it gets.                                    *)
MrpData(parts) ==
    /\ kind = "mrp"
    /\ IF device = "open" THEN ProcessAll(buffer \o parts)
       ELSE buffer' = buffer \o parts /\ UNCHANGED <<toDevice, toClient>>
    /\ UNCHANGED event
CompanionData(parts) ==
    /\ kind = "companion"
    /\ buffer' = buffer \o parts /\ event' = (event \/ device = "open")
    /\ UNCHANGED <<toDevice, toClient>>
RelayData(parts) ==
    /\ kind = "relay"
    /\ toDevice' = IF device = "open" THEN toDevice \o parts ELSE toDevice
    /\ UNCHANGED <<buffer, event, toClient>>
ClientData ==
    /\ client = "open"
    /\ \E n \in 1..Len(toProxy) :
        /\ LET parts == SubSeq(toProxy, 1, n) IN MrpData(parts) \/ CompanionData(parts) \/ RelayData(parts)
        /\ toProxy' = From(toProxy, n + 1)
    /\ UNCHANGED <<kind, stage, client, device, clientSent, deviceSent, fromDevice, task, xid>>

(* process_outgoing_data: who the client is and the identifier to look for. *)
Outgoing(m) == IF m.k = "info" THEN [m EXCEPT !.as = "proxy"] ELSE m

(* One round of _process_task: a frame, or nothing until more data comes.   *)
Waits == Len(buffer) < 2 /\ event' = FALSE /\ UNCHANGED <<buffer, xid, toDevice, toClient>>
HandlesAuth ==
    /\ Len(buffer) >= 2 /\ IsOwn(buffer[1].m)
    /\ buffer' = From(buffer, 3) /\ toClient' = Append(toClient, Answer(buffer[1].m))
    /\ UNCHANGED <<event, xid, toDevice>>
SendsToAtv ==
    /\ Len(buffer) >= 2 /\ ~IsOwn(buffer[1].m)
    /\ buffer' = From(buffer, 3)
    /\ xid' = IF buffer[1].m.k = "info" THEN buffer[1].m.x ELSE xid
    /\ toDevice' = IF device = "open" THEN toDevice \o Parts(Outgoing(buffer[1].m)) ELSE toDevice
    /\ UNCHANGED <<event, toClient>>
ProcessTask ==
    /\ task = "runs" /\ event
    /\ Waits \/ HandlesAuth \/ SendsToAtv
    /\ UNCHANGED <<kind, stage, client, device, clientSent, deviceSent, toProxy, fromDevice, task>>

(* ------------------------- from device to client ------------------------ *)
(* process_incoming_data: the answer to _systemInfo tells of the proxy.     *)
IsSystemInfo(m) == kind = "companion" /\ m.k = "response" /\ m.x = xid
Incoming(m) == IF IsSystemInfo(m) THEN [m EXCEPT !.as = "proxy"] ELSE m

(* message_received and frame_received, to a client that is still there.    *)
DataFromDevice ==
    /\ fromDevice # <<>> /\ device = "open"
    /\ LET m == Head(fromDevice)
       IN  /\ xid' = IF IsSystemInfo(m) THEN 0 ELSE xid
           /\ toClient' = IF client = "open" THEN Append(toClient, Incoming(m)) ELSE toClient
    /\ fromDevice' = Tail(fromDevice)
    /\ UNCHANGED <<kind, stage, client, device, clientSent, deviceSent, toProxy, buffer, event, task, toDevice>>

(* ------------------------------- the ends ------------------------------- *)
(* connection_lost of the proxies; a relay only forgets its transport.      *)
ClientGoes ==
    /\ client = "open" /\ client' = "closed" /\ toProxy' = <<>>
    /\ device' = IF device = "open" /\ kind # "relay" THEN "closed" ELSE device
    /\ task' = IF task = "runs" THEN "cancelled" ELSE task
    /\ UNCHANGED <<kind, stage, clientSent, deviceSent, fromDevice, buffer, event, xid, toDevice, toClient>>

(* connection_lost of the connection to the device: MRP calls stop of its  *)
(* listener, which is the proxy after start; Companion tells nobody.       *)
DeviceGoes ==
    /\ device = "open" /\ device' = "closed" /\ fromDevice' = <<>>
    /\ client' = IF kind = "mrp" /\ stage = "started" THEN "closed" ELSE client
    /\ toProxy' = IF client' = "closed" THEN <<>> ELSE toProxy
    /\ UNCHANGED <<kind, stage, clientSent, deviceSent, buffer, event, task, xid, toDevice, toClient>>

ProxyRuns == Connects \/ Started \/ StartFails \/ ClientData \/ ProcessTask \/ DataFromDevice
LinkNext ==
    \/ \E k \in Sorts : ClientSends(k)
    \/ \E x \in 1..MaxFromClient : DeviceSends([k |-> "response", x |-> x, as |-> "device"])
    \/ \E x \in 1..MaxEvents : DeviceSends([k |-> "event", x |-> x, as |-> "device"])
    \/ ProxyRuns \/ ClientGoes \/ DeviceGoes

(***************************************************************************)
(* Properties.                                                             *)
(***************************************************************************)
(* The answer to _systemInfo, and nothing else of the device, is rewritten: *)
(* events may have the identifier of the request.                          *)
OnlySystemInfoIsRewritten ==
    kind = "companion" =>
        \A i \in DOMAIN toClient :
            LET m == toClient[i]
                asked == m.k = "response" /\ clientSent[m.x].k = "info"
            IN  asked \/ (m.k = "response" /\ clientSent[m.x].k = "auth") <=> m.as = "proxy"

(* What is sent on: unchanged but for who the client is, in the order the  *)
(* client sent it, whether it came before the device was connected, while  *)
(* it was greeted or after, and cut anywhere; nothing of it is left behind *)
(* when the proxy has nothing more to do; and of what the device sends     *)
(* only the answer to _systemInfo is rewritten.                            *)
IsDue(m) == kind = "relay" \/ ~IsOwn(m)
SentOn(m) == IF kind = "companion" THEN Outgoing(m) ELSE m
Place(p) == 2 * p.m.x + p.part
Reaches(place) == \E i \in DOMAIN toDevice : Place(toDevice[i]) = place
SentOnInOrder ==
    /\ OnlySystemInfoIsRewritten
    /\ \A i \in DOMAIN toDevice :
        LET p == toDevice[i]
        IN  /\ p.m.x \in DOMAIN clientSent /\ IsDue(clientSent[p.m.x]) /\ p.m = SentOn(clientSent[p.m.x])
            /\ \A j \in 1..(i - 1) : Place(toDevice[j]) < Place(p)
            /\ \A n \in 1..p.m.x, part \in {1, 2} :
                IsDue(clientSent[n]) /\ 2 * n + part < Place(p) => Reaches(2 * n + part)
    /\ /\ stage = "started" /\ client = "open" /\ device = "open" /\ toProxy = <<>>
       /\ ~(task = "runs" /\ event)
       => \A n \in DOMAIN clientSent, part \in {1, 2} :
            IsDue(clientSent[n]) => Reaches(2 * n + part)
=============================================================================

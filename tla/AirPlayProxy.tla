----------------------------- MODULE AirPlayProxy -----------------------------
(***************************************************************************)
(* AirPlayAppleTVProxy (scripts/atvproxy.py) for one client: its requests  *)
(* are tasks that wait for the connection to the device, a SETUP opens a   *)
(* server for each channel it is about, a TEARDOWN closes it.  And what     *)
(* goes through one of these channels: AirPlayChannelAppleTVProxy with its  *)
(* two kinds, and AirPlayChannelAppleTVForwarder on the side of the device. *)
(***************************************************************************)
EXTENDS Chunks, FiniteSets

CONSTANTS Stream,        \* the identifiers of data streams
          MaxRequests

ASSUME ProxyAssumption == MaxRequests \in Nat /\ "event" \notin Stream /\ IsFiniteSet(Stream)

(* What _channel_servers names.  A request is about the event channel, about *)
(* some data streams, or about none.                                        *)
Channel == {"event"} \cup Stream
Channels == {<<"event">>} \cup {SetToSeq(s) : s \in SUBSET Stream \ {{}}}

VARIABLES
    start,      \* "connecting", "verified" or "failed"
    peer,       \* the client's connection: "open" or "closed"
    link,       \* the connection to the device: "none", "open" or "closed"
    asked,      \* requests of the client: [path, channels], oldest first
    handler,    \* of each: "waits" for the connection, "sent", "creates" servers, "done" or "failed"
    queue,      \* requests the device has not answered, oldest first
    replies,    \* requests that were answered to the client
    servers,    \* _channel_servers: of each channel the request that opened its server, or 0
    open,       \* servers that listen: <<request, channel>>
    late        \* requests that nobody stops when the client goes

proxyVars == <<start, peer, link, asked, handler, queue, replies, servers, open, late>>

ProxyInit ==
    /\ start = "connecting" /\ peer = "open" /\ link = "none"
    /\ asked = <<>> /\ handler = <<>> /\ queue = <<>> /\ replies = <<>>
    /\ servers = [c \in Channel |-> 0] /\ open = {} /\ late = {}

(* Pairing, the channels, and what is forwarded: /info only has other names  *)
(* and addresses in it.                                                     *)
Paths == {"/auth-setup", "SETUP", "TEARDOWN", "other"}
Done(i) == handler' = [handler EXCEPT ![i] = "done"]
(* _send_task_response: a task that raised has no response, and nothing is *)
(* written to a client that has gone.                                      *)
Replies(i) == replies' = IF peer = "open" THEN Append(replies, i) ELSE replies
About(i) == ToSet(asked[i].channels)
Destroys(i) ==
    /\ servers' = [c \in Channel |-> IF c \in About(i) THEN 0 ELSE servers[c]]
    /\ open' = {s \in open : s[2] \notin About(i) \/ servers[s[2]] # s[1]}
IsTeardown(i) == asked[i].path = "TEARDOWN"
(* A channel is set up once before it is torn down, and its client waits    *)
(* for the answer of the one before it asks for the other.                 *)
LastOf(c) == {i \in DOMAIN asked : c \in About(i) /\ \A j \in DOMAIN asked : c \in About(j) => j <= i}
May(path, c) ==
    CASE path = "SETUP" -> \A i \in LastOf(c) : IsTeardown(i) /\ handler[i] = "done"
      [] path = "TEARDOWN" -> \E i \in LastOf(c) : asked[i].path = "SETUP" /\ Contains(replies, i)

(* handle_request: pairing is answered by the proxy itself.                *)
Requests(r) ==
    /\ peer = "open" /\ Len(asked) < MaxRequests
    /\ r.path \in {"SETUP", "TEARDOWN"} <=> r.channels # <<>>
    /\ \A c \in ToSet(r.channels) : May(r.path, c)
    /\ asked' = Append(asked, r)
    /\ handler' = Append(handler, IF r.path = "/auth-setup" THEN "done" ELSE "waits")
    /\ replies' = IF r.path = "/auth-setup" THEN Append(replies, Len(asked) + 1) ELSE replies
    /\ UNCHANGED <<start, peer, link, queue, servers, open, late>>

(* start: http_connect, then verify_connection, then the event.  When the  *)
(* client goes before, nobody has a connection to close.                   *)
Starts ==
    /\ start = "connecting"
    /\ \/ link = "none" /\ link' = "open" /\ UNCHANGED start
       \/ link = "none" /\ start' = "failed" /\ UNCHANGED link
       \/ link # "none" /\ start' = (IF link = "open" THEN "verified" ELSE "failed") /\ UNCHANGED link
    /\ UNCHANGED <<peer, asked, handler, queue, replies, servers, open, late>>

(* send_to_atv, in the order the tasks were created.                       *)
SendToAtv(i) ==
    /\ handler[i] = "waits" /\ start = "verified"
    /\ \A j \in 1..(i - 1) : handler[j] # "waits"
    /\ IF link = "open"
       THEN /\ handler' = [handler EXCEPT ![i] = "sent"] /\ queue' = Append(queue, i)
            /\ UNCHANGED <<servers, open>>
       ELSE /\ Done(i) /\ UNCHANGED queue
            /\ IF IsTeardown(i) THEN Destroys(i) ELSE UNCHANGED <<servers, open>>
    /\ UNCHANGED <<start, peer, link, asked, replies, late>>

(* The device answers in order; what is not waited for any more is dropped. *)
(* A SETUP that it refuses has no port in its answer, and the task raises.  *)
Answered(i) ==
    CASE asked[i].path = "SETUP" ->
            /\ \E next \in {"creates", "failed"} : handler' = [handler EXCEPT ![i] = next]
            /\ UNCHANGED <<replies, servers, open>>
      [] IsTeardown(i) -> Done(i) /\ Replies(i) /\ Destroys(i)
      [] OTHER -> Done(i) /\ Replies(i) /\ UNCHANGED <<servers, open>>
DeviceAnswers ==
    /\ link = "open" /\ queue # <<>> /\ queue' = Tail(queue)
    /\ IF handler[Head(queue)] = "sent" THEN Answered(Head(queue))
       ELSE UNCHANGED <<handler, replies, servers, open>>
    /\ UNCHANGED <<start, peer, link, asked, late>>

(* _create_channel_server, for one stream after the other; the client is    *)
(* answered, with their ports, when all are there.  When one cannot be      *)
(* created those before it stay.                                            *)
CreatesServer(i) ==
    /\ handler[i] = "creates"
    /\ LET cs == asked[i].channels
       IN  \E n \in DOMAIN cs :
              /\ servers[cs[n]] # i /\ \A m \in 1..(n - 1) : servers[cs[m]] = i
              /\ open' = open \cup {<<i, cs[n]>>} /\ servers' = [servers EXCEPT ![cs[n]] = i]
              /\ IF n = Len(cs) THEN Done(i) /\ Replies(i) ELSE UNCHANGED <<handler, replies>>
    /\ UNCHANGED <<start, peer, link, asked, queue, late>>
CreatingFails(i) ==
    /\ handler[i] = "creates" /\ handler' = [handler EXCEPT ![i] = "failed"]
    /\ UNCHANGED <<start, peer, link, asked, queue, replies, servers, open, late>>

(* An exception of send_and_receive: the time is up, also after close has   *)
(* forgotten the requests, or the connection was lost.  TEARDOWN closes its *)
(* server all the same.                                                    *)
FailsKeeps(i) ==    \* mutant: not in a finally
    /\ handler[i] = "sent" /\ Done(i)
    /\ UNCHANGED <<servers, open, start, peer, link, asked, queue, replies, late>>
Fails(i) ==
    /\ handler[i] = "sent" /\ Done(i)
    /\ IF IsTeardown(i) THEN Destroys(i) ELSE UNCHANGED <<servers, open>>
    /\ UNCHANGED <<start, peer, link, asked, queue, replies, late>>

(* connection_lost of the proxy: raises when there is no connection yet.    *)
PeerGoes ==
    /\ peer = "open" /\ peer' = "closed"
    /\ link' = IF link = "open" THEN "closed" ELSE link
    /\ queue' = <<>>
    /\ open' = IF link = "none" THEN open ELSE {s \in open : servers[s[2]] # s[1]}
    /\ late' = {i \in DOMAIN asked : handler[i] = "creates" \/ link = "none"}
    /\ UNCHANGED <<start, asked, handler, replies, servers>>
LinkGoes ==
    /\ link = "open" /\ link' = "closed" /\ queue' = <<>>
    /\ UNCHANGED <<start, peer, asked, handler, replies, servers, open, late>>

HandlersRun ==
    \/ Starts \/ DeviceAnswers
    \/ \E i \in DOMAIN asked : SendToAtv(i) \/ CreatesServer(i) \/ CreatingFails(i) \/ Fails(i)
ProxyNext ==
    \/ \E p \in Paths, cs \in Channels \cup {<<>>} : Requests([path |-> p, channels |-> cs])
    \/ HandlersRun \/ PeerGoes \/ LinkGoes

-----------------------------------------------------------------------------
(* One channel.  A message has one protobuf, of a kind k, which tells of    *)
(* some players; decryption is that of Framing.                            *)
CONSTANTS MaxNear, MaxFar    \* messages of the client and of the device

ASSUME ChannelAssumption == {MaxNear, MaxFar} \subseteq Nat

VARIABLES
    channel,            \* "event" or "data"
    joined,             \* _connect_to_remote: "no", "made" (create_connection goes on), "yes", "failed"
    near, far,          \* the transports of the client and of the device: "none", "open", "closed"
    nearSent, farSent,  \* all that they have sent
    nearNet, farNet,    \* parts under way
    early,              \* buffer: parts not looked at yet
    localBuffer, remoteBuffer,
    ignored,            \* the last message of the client that was looked at is ignored
    toFar, toNear       \* messages sent on, and replies of the proxy to the client

channelVars == <<channel, joined, near, far, nearSent, farSent, nearNet, farNet, early,
                 localBuffer, remoteBuffer, ignored, toFar, toNear>>

(* connection_made: the task that connects to the device is created.       *)
ChannelInit ==
    /\ channel \in {"event", "data"}
    /\ joined = "no" /\ near = "open" /\ far = "none"
    /\ nearSent = <<>> /\ farSent = <<>> /\ nearNet = <<>> /\ farNet = <<>>
    /\ early = <<>> /\ localBuffer = <<>> /\ remoteBuffer = <<>> /\ ignored = FALSE
    /\ toFar = <<>> /\ toNear = <<>>

(* --------------------------- whose name is said -------------------------- *)
(* SERVER_IDENTIFIER is "proxy"; target_identifier is "device"; an          *)
(* identifier of the client is shifted to one that nobody else has.        *)
Swap(names, from, to) == {IF n = from THEN to ELSE n : n \in names}

(* _rewrite_client_protobuf: DEVICE_INFO, and the volume of the proxy;      *)
(* CONFIGURE_CONNECTION is not for the device.                             *)
RewriteClient(m) ==
    CASE m.k = "info" -> [m EXCEPT !.of = Swap(@, "client", "shifted")]
      [] m.k = "volume" -> [m EXCEPT !.of = Swap(@, "proxy", "device")]
      [] OTHER -> m
Ignores(m) == channel = "data" /\ m.k = "configure"

(* _rewrite_remote_protobuf: DEVICE_INFO, output devices and volumes.       *)
RewriteRemote(m) ==
    IF m.k \in {"info", "outputs", "volume"} THEN [m EXCEPT !.of = Swap(@, "device", "proxy")] ELSE m
(* An event: the information in a /command that is an updateInfo.          *)
RewriteEvent(m) == IF m.k = "info" THEN [m EXCEPT !.of = Swap(@, "device", "proxy")] ELSE m

(* _rewrite_message: only what is in a request.                            *)
Rewritten(m, rewritten) == IF m.sync THEN rewritten ELSE m
OfClient(m) == IF channel = "data" THEN Rewritten(m, RewriteClient(m)) ELSE m
OfRemote(m) == IF channel = "data" THEN Rewritten(m, RewriteRemote(m)) ELSE RewriteEvent(m)
Reply(m) == [k |-> "reply", of |-> {}, sync |-> FALSE, x |-> m.x]

(* ------------------------------ both sides ------------------------------- *)
(* A client answers what the device asks on the event channel.             *)
NearSends(k) ==
    /\ near = "open" /\ Len(nearSent) < MaxNear
    /\ channel = "event" => k = "other"
    /\ LET m == [k |-> k, x |-> Len(nearSent) + 1, sync |-> channel = "data",
                 of |-> CASE k = "info" -> {"client"} [] k = "volume" -> {"proxy"} [] OTHER -> {}]
       IN nearSent' = Append(nearSent, m) /\ nearNet' = nearNet \o Parts(m)
    /\ UNCHANGED <<channel, joined, near, far, farSent, farNet, early, localBuffer, remoteBuffer, ignored, toFar, toNear>>

FarSends(k, names) ==
    /\ far = "open" /\ Len(farSent) < MaxFar
    /\ k = "other" => names = {}
    /\ k = "info" => "device" \in names
    /\ channel = "event" => k \in {"info", "other"}
    /\ LET m == [k |-> k, x |-> Len(farSent) + 1, sync |-> TRUE, of |-> names]
       IN farSent' = Append(farSent, m) /\ farNet' = farNet \o Parts(m)
    /\ UNCHANGED <<channel, joined, near, far, nearSent, nearNet, early, localBuffer, remoteBuffer, ignored, toFar, toNear>>

(* ---------------------- from the client to the device --------------------- *)
(* The loop of handle_received: process_buffer gives nothing to send when a *)
(* message is not whole, and when it is ignored.  Then the loop ends, and  *)
(* what is behind an ignored message waits until the client sends again.   *)
Passed(ms) == IF \E i \in DOMAIN ms : Ignores(ms[i])
              THEN CHOOSE i \in DOMAIN ms : Ignores(ms[i]) /\ \A j \in 1..(i - 1) : ~Ignores(ms[j])
              ELSE Len(ms)
PassesOn(ms, n) ==
    LET last == n > 0 /\ Ignores(ms[n])
        sent == SubSeq(ms, 1, IF last THEN n - 1 ELSE n)
    IN  /\ toFar' = IF far = "open" THEN toFar \o [i \in DOMAIN sent |-> OfClient(sent[i])] ELSE toFar
        /\ toNear' = IF last /\ near = "open" THEN Append(toNear, Reply(ms[n])) ELSE toNear
        /\ ignored' = IF n = 0 THEN ignored ELSE last
HandleReceivedWhole(parts) ==    \* mutant: what is not whole is not kept
    /\ early' = <<>> /\ localBuffer' = From(parts, 2 * Len(Messages(parts)) + 2)
    /\ PassesOn(Messages(parts), Passed(Messages(parts)))
HandleReceived(parts) ==
    /\ early' = <<>> /\ localBuffer' = From(parts, 2 * Passed(Messages(parts)) + 1)
    /\ PassesOn(Messages(parts), Passed(Messages(parts)))

(* data_received, which keeps everything until the device is connected.    *)
NearData ==
    /\ near = "open"
    /\ \E n \in 1..Len(nearNet) :
        /\ LET parts == SubSeq(nearNet, 1, n)
           IN  IF joined = "yes" THEN HandleReceived(localBuffer \o early \o parts)
               ELSE early' = early \o parts /\ UNCHANGED <<localBuffer, ignored, toFar, toNear>>
        /\ nearNet' = From(nearNet, n + 1)
    /\ UNCHANGED <<channel, joined, near, far, nearSent, farSent, farNet, remoteBuffer>>

(* _connect_to_remote.  The connection is there, and the device may use it, *)
(* before the task goes on; then what came early is handled.               *)
ConnectionMade ==
    /\ joined = "no"
    /\ \/ joined' = "made" /\ far' = "open"
       \/ joined' = "failed" /\ UNCHANGED far
    /\ UNCHANGED <<channel, near, nearSent, farSent, nearNet, farNet, early, localBuffer, remoteBuffer, ignored, toFar, toNear>>
Connected ==
    /\ joined = "made" /\ joined' = "yes"
    /\ HandleReceived(localBuffer \o early)
    /\ UNCHANGED <<channel, near, far, nearSent, farSent, nearNet, farNet, remoteBuffer>>

(* ---------------------- from the device to the client --------------------- *)
(* remote_received: nothing the device sends is ignored.                   *)
RemoteReceived ==
    /\ far = "open"
    /\ \E n \in 1..Len(farNet) :
        LET parts == remoteBuffer \o SubSeq(farNet, 1, n)
            ms == Messages(parts)
        IN  /\ remoteBuffer' = From(parts, 2 * Len(ms) + 1)
            /\ toNear' = IF near = "open" THEN toNear \o [i \in DOMAIN ms |-> OfRemote(ms[i])] ELSE toNear
            /\ farNet' = From(farNet, n + 1)
    /\ UNCHANGED <<channel, joined, near, far, nearSent, farSent, nearNet, early, localBuffer, ignored, toFar>>

(* ------------------------------- the ends -------------------------------- *)
(* connection_lost of the proxy, which knows of the connection to the       *)
(* device when the task has gone on, and of the forwarder.                 *)
NearGoes ==
    /\ near = "open" /\ near' = "closed" /\ nearNet' = <<>>
    /\ IF joined = "yes" THEN far' = "closed" /\ farNet' = <<>> ELSE UNCHANGED <<far, farNet>>
    /\ UNCHANGED <<channel, joined, nearSent, farSent, early, localBuffer, remoteBuffer, ignored, toFar, toNear>>
FarGoes ==
    /\ far = "open" /\ far' = "closed" /\ farNet' = <<>>
    /\ near' = "closed" /\ nearNet' = <<>>
    /\ UNCHANGED <<channel, joined, nearSent, farSent, early, localBuffer, remoteBuffer, ignored, toFar, toNear>>

ChannelRuns == NearData \/ ConnectionMade \/ Connected \/ RemoteReceived
ChannelNext ==
    \/ \E k \in {"info", "volume", "configure", "other"} : NearSends(k)
    \/ \E k \in {"info", "outputs", "volume", "other"}, names \in SUBSET {"device", "speaker"} : FarSends(k, names)
    \/ ChannelRuns \/ NearGoes \/ FarGoes

(***************************************************************************)
(* Properties.                                                             *)
(***************************************************************************)
(* A server listens for a channel that is set up and not torn down, however *)
(* its TEARDOWN ended and whatever streams were set up and torn down with    *)
(* it, and the client has been told of it, unless others of its request     *)
(* are still to be created or could not be.  None outlives its client, but  *)
(* one that was being created when the client went, or that was asked for   *)
(* before the device was connected: nobody closes these.                    *)
ServersAreWanted ==
    \A s \in open :
        /\ \A j \in (s[1] + 1)..Len(asked) : IsTeardown(j) /\ s[2] \in About(j) => handler[j] # "done"
        /\ IF peer = "open" THEN Contains(replies, s[1]) \/ handler[s[1]] \in {"creates", "failed"}
           ELSE s[1] \in late

(* The client never hears of the device by its own name, in whatever       *)
(* message it is named, and the device neither of the client nor of the    *)
(* proxy; and what the device sent stays in order among the replies that   *)
(* the proxy gives.                                                        *)
NamesAreKept ==
    /\ \A i \in DOMAIN toNear : "device" \notin toNear[i].of
    /\ \A i \in DOMAIN toFar : toFar[i].of \cap {"client", "proxy"} = {}
    /\ \A i, j \in DOMAIN toNear :
        i < j /\ (toNear[i].k = "reply" <=> toNear[j].k = "reply") => toNear[i].x < toNear[j].x

(* What the client sent reaches the device in its order, also what it sent *)
(* before the device was connected and however it was cut, and nothing is  *)
(* sent twice or left out but what is ignored; when the proxy has nothing  *)
(* to do, only messages behind one that was ignored still wait; and names  *)
(* are translated both ways.                                               *)
ReachesFar(n) == Ignores(nearSent[n]) \/ \E i \in DOMAIN toFar : toFar[i].x = n
ChannelInOrder ==
    /\ NamesAreKept
    /\ \A i \in DOMAIN toFar :
        LET n == toFar[i].x
        IN  /\ n \in DOMAIN nearSent /\ ~Ignores(nearSent[n]) /\ toFar[i] = OfClient(nearSent[n])
            /\ \A j \in 1..(i - 1) : toFar[j].x < n
            /\ \A e \in 1..n : ReachesFar(e)
    /\ joined = "yes" /\ near = "open" /\ far = "open" /\ nearNet = <<>> =>
        LET waiting == Messages(localBuffer)
            looked == Len(nearSent) - Len(waiting)
        IN  /\ \A n \in 1..looked : ReachesFar(n)
            /\ waiting = From(nearSent, looked + 1)
            /\ waiting # <<>> => ignored
=============================================================================

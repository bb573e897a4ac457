-------------------------------- MODULE Wire --------------------------------
(***************************************************************************)
(* What comes over a wire.  part is what a behaviour is about: what          *)
(* atvproxy (scripts/atvproxy.py) starts for one client, which is a link of  *)
(* MRP, Companion or the plain relay, the connection of AirPlay with its     *)
(* requests and servers, or one of the channels these servers accept; a DNS  *)
(* message; a connection of the HTTP server; or a value that is coded.       *)
(***************************************************************************)
EXTENDS LinkProxy, AirPlayProxy, DnsMessages, HttpServer, Codecs

VARIABLE part
vars == <<part, linkVars, channelVars, proxyVars, dnsVars, httpServerVars, codecVars>>

Init ==
    /\ part \in {"link", "airplay", "channel", "dns", "http", "codec"}
    /\ LinkInit /\ ChannelInit /\ ProxyInit /\ DnsInit /\ HttpServerInit
    /\ part # "link" => kind = "mrp"
    /\ part # "channel" => channel = "data"
    /\ part # "dns" => compress = FALSE
    /\ IF part = "codec" THEN CodecInit
       ELSE codec = "opack" /\ given = <<>> /\ coding = "given" /\ packed = <<>> /\ read = <<>>

Next ==
    \/ part = "link" /\ LinkNext
       /\ UNCHANGED <<part, channelVars, proxyVars, dnsVars, httpServerVars, codecVars>>
    \/ part = "airplay" /\ ProxyNext
       /\ UNCHANGED <<part, linkVars, channelVars, dnsVars, httpServerVars, codecVars>>
    \/ part = "channel" /\ ChannelNext
       /\ UNCHANGED <<part, linkVars, proxyVars, dnsVars, httpServerVars, codecVars>>
    \/ part = "dns" /\ DnsNext
       /\ UNCHANGED <<part, linkVars, channelVars, proxyVars, httpServerVars, codecVars>>
    \/ part = "http" /\ HttpServerNext
       /\ UNCHANGED <<part, linkVars, channelVars, proxyVars, dnsVars, codecVars>>
    \/ part = "codec" /\ CodecNext
       /\ UNCHANGED <<part, linkVars, channelVars, proxyVars, dnsVars, httpServerVars>>

Spec == Init /\ [][Next]_vars
=============================================================================

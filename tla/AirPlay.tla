------------------------------- MODULE AirPlay -------------------------------
(***************************************************************************)
(* What pyatv sets up for an AirPlay service (setup of protocols/airplay): *)
(* the stream that plays from an URL and the tunnel for remote control,    *)
(* and what they rest on, as the other protocols do: pairing and           *)
(* verification, and the framing of messages.  The four share nothing but  *)
(* the device: part is the one a behaviour is about.                       *)
(***************************************************************************)
EXTENDS AirPlayPlayer, AirPlayTunnel, HapPairing, Framing

VARIABLE part
vars == <<part, playerVars, tunnelVars, hapVars, framingVars>>

(* is_remote_control_supported: a HomePod takes transient credentials only, *)
(* an Apple TV that is not too old those of a HAP pairing.                 *)
IsRemoteControlSupported(model, auth) ==
    \/ model = "AudioAccessory" /\ auth = "Transient"
    \/ model = "AppleTV" /\ auth = "HAP"

(* What setup yields.  The setting may force the tunnel on a device. *)
Yields(tunnel, model, auth) ==
    {"stream"} \cup {t \in {"tunnel"} : \/ tunnel = "force"
                                        \/ tunnel = "auto" /\ IsRemoteControlSupported(model, auth)}

Init ==
    /\ \/ \E tunnel \in {"auto", "force", "disable"}, model \in {"AudioAccessory", "AppleTV", "other"},
             auth \in {"Null", "Legacy", "HAP", "Transient"} : part \in Yields(tunnel, model, auth)
       \/ part \in {"pairing", "framing"}
    /\ PlayerInit /\ TunnelInit /\ HapInit /\ FramingInit
    /\ part # "pairing" => proto = "mrp"
    /\ part # "framing" => framing = "hap"

Plays(A) == part = "stream" /\ A /\ UNCHANGED <<part, tunnelVars, hapVars, framingVars>>
Tunnels(A) == part = "tunnel" /\ A /\ UNCHANGED <<part, playerVars, hapVars, framingVars>>

Next ==
    \/ Plays(PlayerNext)
    \/ Tunnels(TunnelNext)
    \/ part = "pairing" /\ HapNext /\ UNCHANGED <<part, playerVars, tunnelVars, framingVars>>
    \/ part = "framing" /\ FramingNext /\ UNCHANGED <<part, playerVars, tunnelVars, hapVars>>

(* The event loop runs what is ready, and timers fire: requests are answered *)
(* or time out.  The device, the network and the users owe nothing.         *)
Spec ==
    /\ Init /\ [][Next]_vars
    /\ \A c \in Call : WF_playerVars(Plays(PlayRuns(c)))
    /\ WF_tunnelVars(Tunnels(TunnelRuns))
=============================================================================

--------------------------------- MODULE Mrp ---------------------------------
(***************************************************************************)
(* Four parts of MRP that do not share state, checked side by side: the     *)
(* protocol, what follows the players of the device, the operations that    *)
(* take several messages, and artwork.  A behaviour is one of any of them.  *)
(***************************************************************************)
EXTENDS PlayerState, MrpProtocol, MrpControls, Artwork

VARIABLE part

playerVars == <<stateVars, activePlayer, activeClient, told>>
mrpVars == <<part, playerVars, protocolVars, controlVars, artVars>>

MrpInit ==
    /\ part \in {"players", "protocol", "controls", "artwork"}
    /\ Init /\ ProtocolInit /\ ControlInit /\ ArtInit
    /\ part # "protocol" => ~ pairing /\ ~ credentials
    /\ part # "controls" => ~ isOn /\ ~ grouped /\ abilities = [absolute |-> FALSE, relative |-> FALSE]
    /\ part # "artwork" => plays = Nothing /\ \A t \in Track : says[t] = {}

MrpNext ==
    /\ UNCHANGED part
    /\ \/ part = "players" /\ Next /\ UNCHANGED <<protocolVars, controlVars, artVars>>
       \/ part = "protocol" /\ ProtocolNext /\ UNCHANGED <<playerVars, controlVars, artVars>>
       \/ part = "controls" /\ ControlNext /\ UNCHANGED <<playerVars, protocolVars, artVars>>
       \/ part = "artwork" /\ ArtNext /\ UNCHANGED <<playerVars, protocolVars, controlVars>>

(* Woken tasks and due timers run; connection_lost follows transport.close(). *)
MrpSpec ==
    /\ MrpInit /\ [][MrpNext]_mrpVars
    /\ \A c \in Call :
        WF_protocolVars(part = "protocol" /\ Continues(c) /\ UNCHANGED <<part, playerVars, controlVars, artVars>>)
    /\ WF_protocolVars(/\ part = "protocol" /\ conn = "closing" /\ ConnectionLost
                       /\ UNCHANGED <<part, playerVars, controlVars, artVars>>)
=============================================================================

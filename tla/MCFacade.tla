------------------------------ MODULE MCFacade ------------------------------
(***************************************************************************)
(* An Apple TV whose AirPlay service also carries RAOP and an MRP tunnel,   *)
(* with Companion, DMAP and a plain MRP service beside it: six setups of    *)
(* five protocols, in the order of protocols/__init__.py.  Beside it what    *)
(* plays is looked up and posted, and what the interfaces tell the user of   *)
(* that and of power and focus: NowPlaying and the two parts of Interfaces  *)
(* do not share state with the facade.                                      *)
(***************************************************************************)
EXTENDS Facade, NowPlaying, Interfaces

MCProtocol == {"MRP", "DMAP", "Companion", "AirPlay", "RAOP"}
MCRank == [p \in MCProtocol |->
             CASE p = "MRP" -> 1 [] p = "DMAP" -> 2 [] p = "Companion" -> 3
               [] p = "AirPlay" -> 4 [] p = "RAOP" -> 5]

MCSetup == {"airplay", "raop", "tunnel", "companion", "dmap", "mrp"}
MCQueue == <<"airplay", "raop", "tunnel", "companion", "dmap", "mrp">>
MCProtocolOf == [s \in MCSetup |->
    CASE s = "airplay" -> "AirPlay" [] s = "raop" -> "RAOP"
      [] s = "companion" -> "Companion" [] s = "dmap" -> "DMAP"
      [] s \in {"tunnel", "mrp"} -> "MRP"]
MCActsAs == [s \in MCSetup |-> IF s \in {"raop", "tunnel"} THEN "AirPlay" ELSE MCProtocolOf[s]]

MCIface == {"remote", "push", "audio"}
MCProvides == [s \in MCSetup |-> CASE s = "airplay" -> {"remote"} [] s = "companion" -> {"remote", "audio"}
                                    [] OTHER -> MCIface]
MCFeature == {"play", "volume"}
MCFeaturesOf == [s \in MCSetup |->
    CASE s = "airplay" -> {"play"} [] s = "raop" -> MCFeature [] s \in {"companion", "dmap"} -> {"play"}
      [] s \in {"tunnel", "mrp"} -> MCFeature]
MCTakes == [s \in MCSetup |->
    CASE s = "airplay" -> {"remote"} [] s = "raop" -> MCIface [] OTHER -> {}]
MCExclusive == {"raop"}
MCConnection == {"tunnel", "companion", "dmap", "mrp"}
MCTellsOnClose == {"dmap"}

VARIABLE part

partVars == <<part, vars, playingVars, interfaceVars, awareVars>>

InFacade == part = "facade" /\ UNCHANGED <<part, playingVars, interfaceVars, awareVars>>
InPlaying == part = "playing" /\ UNCHANGED <<part, vars, interfaceVars, awareVars>>
InInterfaces == part = "interfaces" /\ UNCHANGED <<part, vars, playingVars, awareVars>>
InAware == part = "aware" /\ UNCHANGED <<part, vars, playingVars, interfaceVars>>

MCInit ==
    /\ part \in {"facade", "playing", "interfaces", "aware"}
    /\ Init /\ PlayingInit /\ InterfaceInit /\ AwareInit
    /\ part = "aware" \/ present = {"MRP"}
    /\ part = "interfaces" \/ (beside = FALSE /\ hosted = FALSE)

MCNext ==
    \/ InFacade /\ Next
    \/ InPlaying /\ PlayingNext
    \/ InInterfaces /\ InterfaceNext
    \/ InAware /\ AwareNext

(* A closing connection ends, and every coroutine that is scheduled runs.    *)
MCSpec ==
    /\ MCInit /\ [][MCNext]_partVars
    /\ \A s \in Setup : WF_vars(part = "facade" /\ life[s] = "closing" /\ ConnectionEnds(s))
    /\ \A t \in Task : WF_playingVars(part = "playing" /\ task[t].pc # "done" /\ Steps(t))
=============================================================================

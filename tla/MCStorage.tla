------------------------------ MODULE MCStorage ------------------------------
(* The storage, the requests of DMAP and its pairing side by side; they do   *)
(* not share state.                                                         *)
EXTENDS Storage, Daap, TLC

CONSTANTS tv, speaker, airplay, companion

(* Two devices; a service of the second has no identifier.                  *)
MCId ==
    tv :> (airplay :> 1 @@ companion :> 2) @@ speaker :> (airplay :> 3 @@ companion :> None)

MCSeen == tv :> SUBSET {airplay, companion} @@ speaker :> {{airplay, companion}}

MCSecured == {<<tv, companion>>, <<speaker, airplay>>}

Symmetry == Permutations(Ref) \cup Permutations(DaapTask)

VARIABLE part

partVars == <<part, vars, daapVars, pairingVars>>

MCInit ==
    /\ part \in {"storage", "requests", "pairing"}
    /\ Init /\ DaapInit /\ PairingInit

MCNext ==
    \/ part = "storage" /\ Next /\ UNCHANGED <<part, daapVars, pairingVars>>
    \/ part = "requests" /\ DaapNext /\ UNCHANGED <<part, vars, pairingVars>>
    \/ part = "pairing" /\ PairingNext /\ UNCHANGED <<part, vars, daapVars>>

MCSpec == MCInit /\ [][MCNext]_partVars

=============================================================================

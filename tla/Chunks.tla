------------------------------- MODULE Chunks -------------------------------
(***************************************************************************)
(* Messages that TCP may cut: each is two parts, and a reader takes as     *)
(* many parts as came, which need not end where a message ends.            *)
(***************************************************************************)
EXTENDS Integers, Sequences, SequencesExt

Parts(m) == <<[m |-> m, part |-> 1], [m |-> m, part |-> 2]>>
PartsOf(ms) == [i \in 1..(2 * Len(ms)) |-> [m |-> ms[(i + 1) \div 2], part |-> 2 - (i % 2)]]
(* The whole messages that parts begin with, and what is left behind them. *)
Messages(parts) == [i \in 1..(Len(parts) \div 2) |-> parts[2 * i].m]
From(s, i) == SubSeq(s, i, Len(s))
=============================================================================

------------------------------ MODULE MCDrift ------------------------------
(***************************************************************************)
(* Drift with every training sample of up to three values, and longer ones  *)
(* whose values tie and come in any order; requests bring values below,     *)
(* inside and above those of the sample.                                    *)
(***************************************************************************)
EXTENDS Drift

SomeSamples ==
    UNION {[1..n -> 1..3] : n \in 0..3} \cup {<<3, 1, 1, 1>>, <<2, 1, 2, 1>>, <<1, 2, 2, 4>>}

\* 1000 * ln n for n \in 1..12, rounded
LnTable == <<0, 693, 1099, 1386, 1609, 1792, 1946, 2079, 2197, 2303, 2398, 2485>>
=============================================================================

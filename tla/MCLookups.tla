----------------------------- MODULE MCLookups ------------------------------
(* Instances of Lookups for TLC. *)
EXTENDS Lookups, TLC

CONSTANTS a1, prod, r1, r2, r3, w1, w2

Agents1 == {a1}
Envs1 == {prod}
Runs2 == {r1, r2}
Runs3 == {r1, r2, r3}
Writers1 == {w1}
Writers2 == {w1, w2}

Symmetry == Permutations(Runs) \cup Permutations(Writers)
=============================================================================

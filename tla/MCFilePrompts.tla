---------------------------- MODULE MCFilePrompts ----------------------------
(* Instances of FilePrompts for TLC. *)
EXTENDS FilePrompts, TLC

CONSTANTS old, new, empty, t1, t2

TwoThreads == {t1, t2}
SameSize == {old, new}
NoMessages == {empty}
Sizes == [c \in SameSize \cup {empty} |-> IF c = empty THEN 0 ELSE 1]

Symmetry == Permutations(Threads)
=============================================================================

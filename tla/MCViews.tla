------------------------------- MODULE MCViews -------------------------------
(* Instances of Views for TLC. *)
EXTENDS Views

CONSTANTS c1, c2, dev, production, nano, sol, first, second

TwoClients == {c1, c2}
OneClient == {c1}
TheSecond == {c2}
NoClient == {}
TwoEnvironments == <<dev, production>>
TwoModels == {nano, sol}
TwoTexts == {first, second}
Symmetry == Permutations(TwoModels) \cup Permutations(TwoTexts)
=============================================================================

----------------------------- MODULE MCRegistry -----------------------------
(* Instances of Registry for TLC, and the mutated forms of its definitions. *)
EXTENDS Registry, TLC

CONSTANTS k1, e1, e2, c1, c2, c3, good, bad, t1, t2, odd

Keys1 == {k1}
Envs1 == {e1}
Envs2 == {e1, e2}
Clients2 == {c1, c2}
Clients3 == {c1, c2, c3}
AllBodies == {good, bad}
OneBody == {good}
AllTexts == {t1, t2}
TextsWithOdd == {t1, odd}
TextsAndOdd == {t1, t2, odd}
OneText == {t1}

Label(body) == [body |-> body, prompt |-> [kind |-> "label", text |-> None]]
Fixed(body, kind, text) ==
    [body |-> body, prompt |-> [kind |-> kind, text |-> text]]

AuthoredLabel == {Label(good), Label(bad)}
OneLabel == {Label(good)}
AuthoredSnapshot == {Label(good), Fixed(good, "snapshot", odd)}
AuthoredFixed == {Label(good), Fixed(good, "version", t1), Fixed(good, "snapshot", odd)}

NoHistory == {<<>>}
OldHistory == {<<>>, <<[status |-> "archived", config |-> Label(good)]>>}

ClientSymmetry == Permutations(Clients)
=============================================================================

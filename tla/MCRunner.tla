------------------------------ MODULE MCRunner ------------------------------
(* Instances of Runner for TLC. *)
EXTENDS Runner

CONSTANTS r1, r2, search, delete, missing

OneRun == {r1}
TwoRuns == {r1, r2}
AllTools == {search, delete, missing}
TheApplications == {search, delete}
Deletes == {delete}

Asks(seconds, times) ==
    [timeout |-> seconds, turns |-> times, large |-> FALSE, named |-> TRUE,
     message |-> TRUE, actions |-> FALSE]

Defined(seconds, times, where) ==
    [timeout |-> seconds, turns |-> times, prompt |-> where, asks |-> FALSE,
     tools |-> {search}, faults |-> {}]

(* The limit that binds is the caller's, the definition's or the           *)
(* platform's; one caller has nothing to say; and every request that is    *)
(* refused at once.                                                        *)
ManyRequests ==
    {Asks(-1, 1), Asks(4, 1), Asks(1, 1), Asks(1, 0), [Asks(2, 3) EXCEPT !.message = FALSE],
     [Asks(1, 1) EXCEPT !.large = TRUE], [Asks(1, 1) EXCEPT !.named = FALSE],
     [Asks(2, 2) EXCEPT !.actions = TRUE]}

(* Quick and slow, and every fault of a definition, alone and together. *)
ManyDefinitions ==
    {Defined(1, 3, "stored"), Defined(2, 2, "fetched"), Defined(1, 1, "fetched"),
     [Defined(5, 1, "fetched") EXCEPT !.asks = TRUE]}
        \cup {[Defined(1, 1, "stored") EXCEPT !.faults = f] : f \in {{g} : g \in Faults} \cup {Faults}}
        \cup {[Defined(2, 1, "fetched") EXCEPT !.tools = t] : t \in SUBSET {search, delete, missing}}

(* A tool that changes data, and one the application does not have. *)
OneRequest == {Asks(1, 1)}
TwoTools == {[Defined(1, 1, "stored") EXCEPT !.tools = {t}] : t \in {delete, missing}}
=============================================================================

----------------------------- MODULE MCPlatform -----------------------------
(* An instance of Platform for TLC. *)
EXTENDS Platform

CONSTANTS m1, m2, r1, openai, gateway, own

TwoMigrators == {m1, m2}
OneRun == {r1}
TheTwo == {openai, gateway}
OwnProcessor == {own}

Good == [url |-> TRUE, modules |-> TRUE, prompts |-> "langfuse", keys |-> TRUE,
         tracing |-> TRUE, instrumentor |-> TRUE]
(* All is well, with and without tracing; and each step of a build fails. *)
SixSettings ==
    {Good,
     [Good EXCEPT !.tracing = FALSE, !.prompts = "file", !.keys = FALSE],
     [Good EXCEPT !.modules = FALSE],
     [Good EXCEPT !.keys = FALSE, !.tracing = FALSE],
     [Good EXCEPT !.keys = FALSE, !.prompts = "file"],
     [Good EXCEPT !.url = FALSE]}
=============================================================================

------------------------------- MODULE Runner -------------------------------
(***************************************************************************)
(* runtime/runner.py with runtime/factory.py: runs of agents on one event  *)
(* loop, their deadlines, their turns, their traces, and the status the    *)
(* HTTP layer answers with.                                                *)
(*                                                                         *)
(* A run gives way to the loop at four places: the lookup, the prompt when *)
(* it is fetched, the model, and the flush of its trace.  What lies        *)
(* between is one step.  The loop is never late: time does not pass while  *)
(* a deadline that has come is not acted on.                               *)
(*                                                                         *)
(* The lookup answers with a definition or with a RegistryError (module    *)
(* Lookups); whether the caller's values fill the prompt and whether the   *)
(* prompt has a shape are settled in module Prompts.  A definition's       *)
(* `faults` name what fails as it is assembled.                            *)
(***************************************************************************)
EXTENDS Integers, FiniteSetsExt

CONSTANTS Runs,
          Requests,       \* what callers send
          Definitions,    \* what a lookup may answer
          Tools,
          Registered,     \* those of the application
          ActionTools,    \* those that change data
          MaxTurnsCeiling, TimeoutCeiling,
          MaxTime,        \* bound: the clock stops here, and a run begins only if
                          \* its timeout can still come
          None

Faults == {"unfit_values", "broken_shape", "unconfigured_provider", "unknown_settings",
           "unknown_schema"}

DefinitionType == [timeout : Nat \ {0}, turns : Nat \ {0},
                   prompt : {"stored", "fetched"},  \* whether resolving it gives way
                   asks : BOOLEAN,                  \* whether it has a user message
                   tools : SUBSET Tools,
                   faults : SUBSET Faults]

RequestType == [timeout : Int, turns : Int,
                large : BOOLEAN,    \* whether its inputs are over the limit
                named : BOOLEAN,    \* whether its name, if any, may name a run
                message : BOOLEAN,  \* whether it has a message
                actions : BOOLEAN]  \* whether it enables tools that change data

Outcomes == Faults \cup
    {"result", "bad_limits", "large_inputs", "unfit_name", "unknown_agent",
     "unreachable_prompt", "unregistered_tool", "refused_tool", "nothing_to_answer",
     "out_of_turns", "model_failure", "flush_failure", "deadline", "cancelled"}

ASSUME RunnerAssumption ==
    /\ Requests \subseteq RequestType
    /\ Registered \subseteq Tools /\ ActionTools \subseteq Tools
    /\ Definitions \subseteq DefinitionType
    /\ MaxTurnsCeiling \in Nat \ {0} /\ TimeoutCeiling \in Nat \ {0}
    /\ MaxTime \in Nat
    /\ None \notin DefinitionType /\ None \notin Nat /\ None \notin Outcomes

VARIABLES tracing,     \* whether the runtime was given a tracer; it stays
          request,     \* what the caller of each run sent
          now,
          pc,          \* where the run waits, or that it has not begun or has ended
          started,     \* when it began
          deadline,    \* when its outer timeout fires
          definition,  \* what its lookup answered
          turns,       \* the turns it has had, counted by the SDK
          traced,      \* its trace: "none", "open", "left" (closed, not flushed) or "flushed"
          outcome,     \* how it ends, known before the flush and told after it
          ended        \* when it ended
given == <<tracing, request>>
vars == <<given, now, pc, started, deadline, definition, turns, traced, outcome, ended>>

TypeOK ==
    /\ tracing \in BOOLEAN
    /\ request \in [Runs -> Requests]
    /\ now \in 0..MaxTime
    /\ pc \in [Runs -> {"idle", "lookup", "prompt", "model", "flush", "done"}]
    /\ started \in [Runs -> Nat]
    /\ deadline \in [Runs -> Nat]
    /\ definition \in [Runs -> Definitions \cup {None}]
    /\ turns \in [Runs -> Nat]
    /\ traced \in [Runs -> {"none", "open", "left", "flushed"}]
    /\ outcome \in [Runs -> Outcomes \cup {None}]
    /\ ended \in [Runs -> Nat \cup {None}]

Init ==
    /\ tracing \in BOOLEAN
    /\ request \in [Runs -> Requests]
    /\ now = 0
    /\ pc = [r \in Runs |-> "idle"]
    /\ started = [r \in Runs |-> 0]
    /\ deadline = [r \in Runs |-> 0]
    /\ definition = [r \in Runs |-> None]
    /\ turns = [r \in Runs |-> 0]
    /\ traced = [r \in Runs |-> "none"]
    /\ outcome = [r \in Runs |-> None]
    /\ ended = [r \in Runs |-> None]

-----------------------------------------------------------------------------
Least(a, b) == Min({a, b})

(* The limits of the context: the caller's, under the ceilings. *)
ContextTimeout(r) == Least(request[r].timeout, TimeoutCeiling)
ContextTurns(r) == Least(request[r].turns, MaxTurnsCeiling)

(* Mutant: the definition's limit is taken as it is. *)
BuiltTurnsOfTheDefinition(r, d) == d.turns

(* What the factory makes of them with the definition's. *)
BuiltTimeout(r, d) == Least(ContextTimeout(r), d.timeout)
BuiltTurns(r, d) == Least(ContextTurns(r), d.turns)

Goto(r, place) ==
    /\ pc' = [pc EXCEPT ![r] = place]
    /\ UNCHANGED ended

End(r, how) ==
    /\ pc' = [pc EXCEPT ![r] = "done"]
    /\ outcome' = [outcome EXCEPT ![r] = how]
    /\ ended' = [ended EXCEPT ![r] = now]

(* Mutant: limits are not looked at. *)
RefusalOfInputs(r) ==
    IF request[r].large THEN "large_inputs"
    ELSE IF ~request[r].named THEN "unfit_name"
    ELSE None

(* What stops a run before it begins, in the order it is looked for. *)
Refusal(r) ==
    IF request[r].turns < 1 \/ request[r].timeout <= 0 THEN "bad_limits"
    ELSE IF request[r].large THEN "large_inputs"
    ELSE IF ~request[r].named THEN "unfit_name"
    ELSE None

Begin(r) ==
    /\ pc[r] = "idle"
    /\ now + TimeoutCeiling <= MaxTime  \* bound
    /\ IF Refusal(r) # None
       THEN End(r, Refusal(r)) /\ UNCHANGED <<started, deadline>>
       ELSE /\ started' = [started EXCEPT ![r] = now]
            /\ deadline' = [deadline EXCEPT ![r] = now + ContextTimeout(r)]
            /\ Goto(r, "lookup")
            /\ UNCHANGED outcome
    /\ UNCHANGED <<given, now, definition, turns, traced>>

(* What stops a run that waits: the outer timeout, and around the prompt   *)
(* the factory's own, which the definition's limit sets.                   *)
FiresAt(r) == IF pc[r] = "prompt"
              THEN Least(deadline[r], started[r] + BuiltTimeout(r, definition[r]))
              ELSE deadline[r]

Waits(r) == pc[r] \in {"lookup", "prompt", "model", "flush"}

-----------------------------------------------------------------------------
(* Assembling the agent, once its prompt is there.  The policy of the      *)
(* caller refuses a tool that changes data unless it enables such tools.   *)

ToolFaults(r, d) ==
    {tool \in {"unregistered_tool", "refused_tool"} :
        \E t \in d.tools :
            IF t \in Registered THEN /\ tool = "refused_tool"
                                     /\ t \in ActionTools /\ ~request[r].actions
                                ELSE tool = "unregistered_tool"}

(* What is looked at in turn: the prompt, its shape before and after its   *)
(* values; the provider; the tools; the settings; the schema.              *)
AssemblyStages(r, d) ==
    <<d.faults \cap {"unfit_values", "broken_shape"},
      d.faults \cap {"unconfigured_provider"},
      ToolFaults(r, d),
      d.faults \cap {"unknown_settings"},
      d.faults \cap {"unknown_schema"}>>

(* What may stop the assembly: a fault of the first stage that has one. *)
AssemblyFaults(r, d) ==
    LET stages == AssemblyStages(r, d) IN
    UNION {stages[i] : i \in {j \in 1..5 : \A k \in 1..(j - 1) : stages[k] = {}}}

(* Mutant: spans are flushed when the run has a result. *)
CloseFlushingResults(r, how) ==
    IF tracing /\ how = "result"
    THEN /\ outcome' = [outcome EXCEPT ![r] = how]
         /\ traced' = [traced EXCEPT ![r] = "left"]
         /\ Goto(r, "flush")
    ELSE /\ End(r, how)
         /\ traced' = [traced EXCEPT ![r] = "left"]

(* The run is over but for its trace.  Spans are flushed whatever ended    *)
(* the run, unless it is being cancelled.                                  *)
Close(r, how) ==
    IF tracing
    THEN /\ outcome' = [outcome EXCEPT ![r] = how]
         /\ traced' = [traced EXCEPT ![r] = "left"]
         /\ Goto(r, "flush")
    ELSE /\ End(r, how)
         /\ UNCHANGED traced

(* Mutant: assembly is not counted against the deadline. *)
ExecuteUnchecked(r, d) ==
    /\ deadline' = [deadline EXCEPT ![r] = started[r] + BuiltTimeout(r, d)]
    /\ traced' = [traced EXCEPT ![r] = IF tracing THEN "open" ELSE "none"]
    /\ Goto(r, "model")
    /\ UNCHANGED outcome

(* The agent is built: its time is checked against its definition's limit, *)
(* its deadline moved there, its trace opened, and the model asked, when   *)
(* there is something to ask.                                              *)
Execute(r, d) ==
    IF now >= started[r] + BuiltTimeout(r, d)
    THEN End(r, "deadline") /\ UNCHANGED <<deadline, traced>>
    ELSE /\ deadline' = [deadline EXCEPT ![r] = started[r] + BuiltTimeout(r, d)]
         /\ IF ~d.asks /\ ~request[r].message
            THEN Close(r, "nothing_to_answer")
            ELSE /\ traced' = [traced EXCEPT ![r] = IF tracing THEN "open" ELSE "none"]
                 /\ Goto(r, "model")
                 /\ UNCHANGED outcome

Assemble(r, d) ==
    \/ /\ AssemblyFaults(r, d) = {}
       /\ Execute(r, d)
    \/ \E fault \in AssemblyFaults(r, d) :
           End(r, fault) /\ UNCHANGED <<deadline, traced>>

-----------------------------------------------------------------------------
(* What a run waits for arrives *)

(* A stored prompt is resolved without giving way, whether or not the      *)
(* factory's timeout has come: the line after the build sees to that.      *)
LookupAnswers(r) ==
    /\ pc[r] = "lookup"
    /\ \E d \in Definitions :
        /\ definition' = [definition EXCEPT ![r] = d]
        /\ IF d.prompt = "stored"
           THEN Assemble(r, d)
           ELSE Goto(r, "prompt") /\ UNCHANGED <<deadline, traced, outcome>>
    /\ UNCHANGED <<given, now, started, turns>>

LookupFails(r) ==
    /\ pc[r] = "lookup"
    /\ End(r, "unknown_agent")
    /\ UNCHANGED <<given, now, started, deadline, definition, turns, traced>>

(* A timeout that has passed already fires before any answer can come. *)
PromptArrives(r) ==
    /\ pc[r] = "prompt"
    /\ now <= FiresAt(r)
    /\ Assemble(r, definition[r])
    /\ UNCHANGED <<given, now, started, definition, turns>>

PromptFails(r) ==
    /\ pc[r] = "prompt"
    /\ now <= FiresAt(r)
    /\ End(r, "unreachable_prompt")
    /\ UNCHANGED <<given, now, started, deadline, definition, turns, traced>>

(* The SDK's runner: a turn is taken while there is one left. *)
TakeTurn(r) ==
    /\ pc[r] = "model"
    /\ turns[r] < BuiltTurns(r, definition[r])
    /\ turns' = [turns EXCEPT ![r] = @ + 1]
    /\ UNCHANGED <<given, now, pc, started, deadline, definition, traced, outcome, ended>>

RunOutOfTurns(r) ==
    /\ pc[r] = "model"
    /\ turns[r] >= BuiltTurns(r, definition[r])
    /\ Close(r, "out_of_turns")
    /\ UNCHANGED <<given, now, started, deadline, definition, turns>>

ModelAnswers(r) ==
    /\ pc[r] = "model"
    /\ turns[r] > 0
    /\ \E how \in {"result", "model_failure"} : Close(r, how)
    /\ UNCHANGED <<given, now, started, deadline, definition, turns>>

FlushEnds(r) ==
    /\ pc[r] = "flush"
    /\ traced' = [traced EXCEPT ![r] = "flushed"]
    /\ End(r, outcome[r])
    /\ UNCHANGED <<given, now, started, deadline, definition, turns>>

(* The flush raises: its error takes the place of what the run had come    *)
(* to, and the spans stay where they are.                                  *)
FlushFails(r) ==
    /\ pc[r] = "flush"
    /\ End(r, "flush_failure")
    /\ UNCHANGED <<given, now, started, deadline, definition, turns, traced>>

-----------------------------------------------------------------------------
(* Time, and the caller *)

(* Mutant: a run that is cancelled flushes too. *)
StopFlushing(r, how) ==
    /\ Waits(r)
    /\ IF traced[r] = "open"
       THEN /\ outcome' = [outcome EXCEPT ![r] = how]
            /\ traced' = [traced EXCEPT ![r] = "left"]
            /\ deadline' = [deadline EXCEPT ![r] = MaxTime]
            /\ Goto(r, "flush")
       ELSE End(r, how) /\ UNCHANGED <<traced, deadline>>
    /\ UNCHANGED <<given, now, started, definition, turns>>

(* A run that is cancelled does not wait to flush; a flush that is under   *)
(* way is left to its thread, and what the run had come to is not told.    *)
Stop(r, how) ==
    /\ Waits(r)
    /\ End(r, how)
    /\ traced' = [traced EXCEPT ![r] = IF @ = "open" THEN "left" ELSE @]
    /\ UNCHANGED <<given, now, started, deadline, definition, turns>>

(* Mutant: the deadline is opened when the definition is known. *)
ExpireOnceBuilt(r) == pc[r] # "lookup" /\ now >= FiresAt(r) /\ Stop(r, "deadline")

Expire(r) == now >= FiresAt(r) /\ Stop(r, "deadline")

CallerCancels(r) == Stop(r, "cancelled")

Tick ==
    /\ now < MaxTime
    /\ \A r \in Runs : Waits(r) => now < FiresAt(r)
    /\ now' = now + 1
    /\ UNCHANGED <<given, pc, started, deadline, definition, turns, traced, outcome, ended>>

-----------------------------------------------------------------------------
Step(r) == \/ Begin(r) \/ LookupAnswers(r) \/ LookupFails(r)
           \/ PromptArrives(r) \/ PromptFails(r)
           \/ TakeTurn(r) \/ RunOutOfTurns(r) \/ ModelAnswers(r)
           \/ FlushEnds(r) \/ FlushFails(r)
           \/ Expire(r) \/ CallerCancels(r)

Next == Tick \/ \E r \in Runs : Step(r)

Spec == Init /\ [][Next]_vars

(* The clock goes on and the loop acts on timers; nothing is assumed of    *)
(* databases, prompt services, models or trace backends.                   *)
Fairness == WF_vars(Tick) /\ \A r \in Runs : WF_vars(Expire(r))

LiveSpec == Spec /\ Fairness

-----------------------------------------------------------------------------
(* The status of the answer over HTTP: RegistryError; CapabilityError and  *)
(* OutputSchemaError; PromptVariableError and RunInputError;               *)
(* PromptShapeError; PromptError and ModelError; TimeoutError;             *)
(* MaxTurnsExceeded; what nobody catches.                                  *)
Status(o) ==
    CASE o = "result" -> 200
      [] o = "unknown_agent" -> 404
      [] o \in {"unregistered_tool", "refused_tool", "unknown_schema"} -> 403
      [] o \in {"unfit_values", "large_inputs", "unfit_name", "nothing_to_answer"} -> 400
      [] o = "broken_shape" -> 500
      [] o \in {"unreachable_prompt", "unconfigured_provider", "unknown_settings"} -> 502
      [] o = "deadline" -> 504
      [] o = "out_of_turns" -> 422
      [] OTHER -> 500

-----------------------------------------------------------------------------
(* Properties *)

Limit(r, d) == started[r] + BuiltTimeout(r, d)

(* The smallest limit known: the definition's is not, before the lookup.   *)
KnownLimit(r) == IF definition[r] = None THEN started[r] + ContextTimeout(r)
                 ELSE Limit(r, definition[r])

(* Time does not pass beyond the caller's limit and the platform's for a   *)
(* run that has not ended, nor beyond the definition's once it is known,   *)
(* wherever the run waits, the flush of its trace included (R-RUN-2;       *)
(* docs/design.md:88).                                                     *)
NothingOutlastsTheDeadline ==
    [][now' # now => \A r \in Runs : Waits(r) => now' <= KnownLimit(r)]_vars

(* Whatever its lookup, its prompt, its turns and its flush took, a run     *)
(* takes no turn and tells no result once the caller's limit, the          *)
(* platform's or its definition's is over, each counted from its           *)
(* beginning, though the definition's is not known until the lookup has    *)
(* answered and two timers and a check keep them (R-RUN-2).                *)
NothingComesOfALateRun ==
    [][\A r \in Runs :
          turns'[r] # turns[r] \/ (pc[r] # "done" /\ pc'[r] = "done" /\ outcome'[r] = "result")
          => /\ now <= started[r] + request[r].timeout
             /\ now <= started[r] + TimeoutCeiling
             /\ now <= started[r] + definition[r].timeout]_vars

(* A run takes no more turns than the caller, the definition and the       *)
(* platform each allow (R-RUN-3).                                          *)
TurnsAreBounded ==
    \A r \in Runs : definition[r] # None =>
        /\ turns[r] <= definition[r].turns
        /\ turns[r] <= request[r].turns /\ turns[r] <= MaxTurnsCeiling

(* The trace of a run that was not stopped is flushed by the time the      *)
(* caller hears of it, whatever the run came to: an error's spans are not  *)
(* left in a buffer.  When the flush itself raises, that error is what the *)
(* caller hears.                                                           *)
TracesAreFlushed ==
    \A r \in Runs :
        pc[r] = "done" /\ outcome[r] \notin {"deadline", "cancelled", "flush_failure"} =>
            traced[r] \in {"none", "flushed"}

(* A run ends, even if the database, the prompt service, the model or the  *)
(* trace backend never answers.                                            *)
RunsEnd == \A r \in Runs : pc[r] = "lookup" ~> pc[r] = "done"

(* What R-API-3 tells apart (spec.md:218). *)
Kind(o) ==
    CASE o = "unknown_agent" -> "an unknown agent"
      [] o = "refused_tool" -> "a refused tool"
      [] o \in {"unfit_values", "large_inputs", "unfit_name", "nothing_to_answer"} -> "a bad input"
      [] o \in {"broken_shape", "unregistered_tool", "unknown_settings", "unknown_schema"}
            -> "a broken definition"
      [] o \in {"unreachable_prompt", "unconfigured_provider"} -> "an unreachable provider"
      [] o = "deadline" -> "a deadline"
      [] o = "out_of_turns" -> "a turn limit"
      [] OTHER -> "no kind"

StatusesTellApart ==
    \A r, q \in Runs :
        pc[r] = "done" /\ pc[q] = "done" /\ Kind(outcome[r]) # "no kind"
            /\ Kind(outcome[q]) # "no kind" /\ Kind(outcome[r]) # Kind(outcome[q])
        => Status(outcome[r]) # Status(outcome[q])
=============================================================================

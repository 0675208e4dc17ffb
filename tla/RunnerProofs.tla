----------------------------- MODULE RunnerProofs -----------------------------
(* Proofs about Runner: the deadlines, the turns and the traces of any     *)
(* number of runs, for all requests, definitions and ceilings.             *)
EXTENDS Runner, TLAPS

(* A run that got past the refusals has limits that can be met, and began  *)
(* no later than now.                                                      *)
RunsHaveLimits ==
    \A r \in Runs : Waits(r) \/ definition[r] # None => Refusal(r) = None /\ started[r] <= now

(* A run knows its definition from its lookup on, and its deadline is the  *)
(* caller's until the agent is built and the smallest of the three after.  *)
DeadlinesFit ==
    \A r \in Runs :
        /\ pc[r] \in {"idle", "lookup"} => definition[r] = None
        /\ pc[r] \in {"prompt", "model", "flush"} => definition[r] \in Definitions
        /\ pc[r] \in {"lookup", "prompt"} => deadline[r] = started[r] + ContextTimeout(r)
        /\ pc[r] \in {"model", "flush"} => deadline[r] = Limit(r, definition[r])

(* Turns are counted against the smallest limit, from none. *)
TurnsFit ==
    \A r \in Runs :
        /\ pc[r] \in {"idle", "lookup", "prompt"} => turns[r] = 0
        /\ IF definition[r] = None THEN turns[r] = 0
                                   ELSE turns[r] <= BuiltTurns(r, definition[r])

(* A trace is open while the model is asked; it is left closed by a run    *)
(* that flushes, or by one that was stopped.                               *)
TracesFit ==
    \A r \in Runs :
        /\ pc[r] \in {"idle", "lookup", "prompt"} \/ ~tracing => traced[r] = "none"
        /\ traced[r] = "open" => pc[r] = "model"
        /\ pc[r] = "model" => traced[r] \in {"none", "open"}
        /\ pc[r] = "flush" => tracing /\ outcome[r] \in Outcomes
        /\ traced[r] = "left" =>
              pc[r] = "flush" \/ (pc[r] = "done" /\ outcome[r] \in {"deadline", "cancelled", "flush_failure"})

Inv == TypeOK /\ RunsHaveLimits /\ DeadlinesFit /\ TurnsFit /\ TracesFit

-----------------------------------------------------------------------------
(* Limits *)

LEMMA LeastOfTwo ==
    ASSUME NEW a \in Int, NEW b \in Int
    PROVE  /\ Least(a, b) \in {a, b}
           /\ Least(a, b) <= a /\ Least(a, b) <= b
<1>1. \E x \in {a, b} : \A y \in {a, b} : x <= y
  <2>1. CASE a <= b  BY <2>1
  <2>2. CASE b < a  BY <2>2
  <2> QED BY <2>1, <2>2
<1> QED BY <1>1 DEF Least, Min

(* What a request that is not refused asks for is positive. *)
LEMMA LimitsOfTheContext ==
    ASSUME TypeOK, NEW r \in Runs, Refusal(r) = None
    PROVE  /\ ContextTimeout(r) \in Nat \ {0}
           /\ ContextTimeout(r) <= request[r].timeout /\ ContextTimeout(r) <= TimeoutCeiling
           /\ ContextTurns(r) \in Nat \ {0}
           /\ ContextTurns(r) <= request[r].turns /\ ContextTurns(r) <= MaxTurnsCeiling
<1>1. request[r] \in RequestType
  BY RunnerAssumption DEF TypeOK
<1>2. request[r].turns \in Nat \ {0} /\ request[r].timeout \in Nat \ {0}
  BY <1>1, RunnerAssumption DEF Refusal, RequestType, Outcomes
<1>3. MaxTurnsCeiling \in Nat \ {0} /\ TimeoutCeiling \in Nat \ {0}
  BY RunnerAssumption
<1> QED BY <1>2, <1>3, LeastOfTwo DEF ContextTimeout, ContextTurns

(* The built limits are positive and below each of the three. *)
LEMMA LimitsOfTheRun ==
    ASSUME TypeOK, NEW r \in Runs, Refusal(r) = None, NEW d \in Definitions
    PROVE  /\ BuiltTimeout(r, d) \in Nat \ {0}
           /\ BuiltTimeout(r, d) <= request[r].timeout
           /\ BuiltTimeout(r, d) <= TimeoutCeiling
           /\ BuiltTimeout(r, d) <= d.timeout
           /\ BuiltTurns(r, d) \in Nat \ {0}
           /\ BuiltTurns(r, d) <= request[r].turns
           /\ BuiltTurns(r, d) <= MaxTurnsCeiling
           /\ BuiltTurns(r, d) <= d.turns
<1>1. request[r] \in RequestType /\ d \in DefinitionType
  BY RunnerAssumption DEF TypeOK
<1>2. d.turns \in Nat \ {0} /\ d.timeout \in Nat \ {0}
  BY <1>1 DEF DefinitionType
<1>3. /\ ContextTimeout(r) \in Nat \ {0} /\ ContextTurns(r) \in Nat \ {0}
      /\ ContextTimeout(r) <= request[r].timeout /\ ContextTimeout(r) <= TimeoutCeiling
      /\ ContextTurns(r) <= request[r].turns /\ ContextTurns(r) <= MaxTurnsCeiling
  BY LimitsOfTheContext
<1>4. /\ BuiltTimeout(r, d) \in Nat \ {0}
      /\ BuiltTimeout(r, d) <= ContextTimeout(r) /\ BuiltTimeout(r, d) <= d.timeout
  BY <1>2, <1>3, LeastOfTwo DEF BuiltTimeout
<1>5. /\ BuiltTurns(r, d) \in Nat \ {0}
      /\ BuiltTurns(r, d) <= ContextTurns(r) /\ BuiltTurns(r, d) <= d.turns
  BY <1>2, <1>3, LeastOfTwo DEF BuiltTurns
<1>6. /\ request[r].turns \in Int /\ MaxTurnsCeiling \in Int
      /\ request[r].timeout \in Int /\ TimeoutCeiling \in Int
  BY <1>1, RunnerAssumption DEF RequestType
<1> QED BY <1>3, <1>4, <1>5, <1>6

(* A run's limits do not change once it has begun. *)
LEMMA LimitsStay ==
    ASSUME NEW r, UNCHANGED given
    PROVE  /\ ContextTimeout(r)' = ContextTimeout(r)
           /\ Refusal(r)' = Refusal(r)
           /\ \A d : BuiltTimeout(r, d)' = BuiltTimeout(r, d)
           /\ \A d : BuiltTurns(r, d)' = BuiltTurns(r, d)
BY DEF given, ContextTimeout, ContextTurns, Refusal, BuiltTimeout, BuiltTurns

-----------------------------------------------------------------------------
LEMMA InitInv == Init => Inv
<1> SUFFICES ASSUME Init PROVE Inv
  OBVIOUS
<1> USE RunnerAssumption DEF Init
<1>1. TypeOK
  BY DEF TypeOK
<1>2. RunsHaveLimits /\ DeadlinesFit
  BY DEF RunsHaveLimits, DeadlinesFit, Waits
<1>3. TurnsFit /\ TracesFit
  BY DEF TurnsFit, TracesFit
<1> QED BY <1>1, <1>2, <1>3 DEF Inv

LEMMA BeginInv ==
    ASSUME Inv, NEW r \in Runs, Begin(r)
    PROVE  Inv'
<1>0. UNCHANGED given
  BY DEF Begin
<1>a. Refusal(r) = None => ContextTimeout(r) \in Nat
  BY LimitsOfTheContext DEF Inv
<1> USE RunnerAssumption DEF Inv, Begin, Goto, End, given
<1>1. TypeOK'
  BY <1>0, <1>a, LimitsStay DEF TypeOK, Refusal, TracesFit, Outcomes
<1>2. RunsHaveLimits'
  BY <1>0, <1>a, LimitsStay DEF TypeOK, RunsHaveLimits, Waits
<1>3. DeadlinesFit'
  BY <1>0, <1>a, LimitsStay DEF TypeOK, DeadlinesFit, Limit
<1>4. TurnsFit'
  BY DEF TypeOK, DeadlinesFit, TurnsFit, BuiltTurns, ContextTurns
<1>5. TracesFit'
  BY <1>0, <1>a, LimitsStay DEF TypeOK, Refusal, TracesFit
<1> QED BY <1>1, <1>2, <1>3, <1>4, <1>5

LEMMA LookupFailsInv ==
    ASSUME Inv, NEW r \in Runs, LookupFails(r)
    PROVE  Inv'
<1> USE RunnerAssumption DEF Inv, LookupFails, Goto, End, given
<1>1. TypeOK'
  BY LimitsStay, LimitsOfTheRun DEF TypeOK, TracesFit, Outcomes
<1>2. RunsHaveLimits'
  BY LimitsStay, LimitsOfTheRun DEF TypeOK, RunsHaveLimits, Waits
<1>3. DeadlinesFit'
  BY LimitsStay, LimitsOfTheRun DEF TypeOK, DeadlinesFit, Limit
<1>4. TurnsFit'
  BY LimitsStay, LimitsOfTheRun DEF TypeOK, DeadlinesFit, TurnsFit
<1>5. TracesFit'
  BY LimitsStay, LimitsOfTheRun DEF TypeOK, TracesFit
<1> QED BY <1>1, <1>2, <1>3, <1>4, <1>5

LEMMA PromptFailsInv ==
    ASSUME Inv, NEW r \in Runs, PromptFails(r)
    PROVE  Inv'
<1> USE RunnerAssumption DEF Inv, PromptFails, Goto, End, given
<1>1. TypeOK'
  BY LimitsStay, LimitsOfTheRun DEF TypeOK, TracesFit, Outcomes
<1>2. RunsHaveLimits'
  BY LimitsStay, LimitsOfTheRun DEF TypeOK, RunsHaveLimits, Waits
<1>3. DeadlinesFit'
  BY LimitsStay, LimitsOfTheRun DEF TypeOK, DeadlinesFit, Limit
<1>4. TurnsFit'
  BY LimitsStay, LimitsOfTheRun DEF TypeOK, DeadlinesFit, TurnsFit
<1>5. TracesFit'
  BY LimitsStay, LimitsOfTheRun DEF TypeOK, TracesFit
<1> QED BY <1>1, <1>2, <1>3, <1>4, <1>5

LEMMA TakeTurnInv ==
    ASSUME Inv, NEW r \in Runs, TakeTurn(r)
    PROVE  Inv'
<1> USE RunnerAssumption DEF Inv, TakeTurn, Goto, End, given
<1>1. TypeOK'
  BY LimitsStay, LimitsOfTheRun DEF TypeOK, TracesFit, Outcomes
<1>2. RunsHaveLimits'
  BY LimitsStay, LimitsOfTheRun DEF TypeOK, RunsHaveLimits, Waits
<1>3. DeadlinesFit'
  BY LimitsStay, LimitsOfTheRun DEF TypeOK, DeadlinesFit, Limit
<1>4. TurnsFit'
  BY LimitsStay, LimitsOfTheRun DEF TypeOK, RunsHaveLimits, DeadlinesFit, TurnsFit
<1>5. TracesFit'
  BY LimitsStay, LimitsOfTheRun DEF TypeOK, TracesFit
<1> QED BY <1>1, <1>2, <1>3, <1>4, <1>5

LEMMA FlushEndsInv ==
    ASSUME Inv, NEW r \in Runs, FlushEnds(r)
    PROVE  Inv'
<1> USE RunnerAssumption DEF Inv, FlushEnds, Goto, End, given
<1>1. TypeOK'
  BY LimitsStay, LimitsOfTheRun DEF TypeOK, TracesFit, Outcomes
<1>2. RunsHaveLimits'
  BY LimitsStay, LimitsOfTheRun DEF TypeOK, RunsHaveLimits, Waits
<1>3. DeadlinesFit'
  BY LimitsStay, LimitsOfTheRun DEF TypeOK, DeadlinesFit, Limit
<1>4. TurnsFit'
  BY LimitsStay, LimitsOfTheRun DEF TypeOK, DeadlinesFit, TurnsFit
<1>5. TracesFit'
  BY LimitsStay, LimitsOfTheRun DEF TypeOK, TracesFit
<1> QED BY <1>1, <1>2, <1>3, <1>4, <1>5

LEMMA FlushFailsInv ==
    ASSUME Inv, NEW r \in Runs, FlushFails(r)
    PROVE  Inv'
<1> USE RunnerAssumption DEF Inv, FlushFails, Goto, End, given
<1>1. TypeOK'
  BY LimitsStay, LimitsOfTheRun DEF TypeOK, TracesFit, Outcomes
<1>2. RunsHaveLimits'
  BY LimitsStay, LimitsOfTheRun DEF TypeOK, RunsHaveLimits, Waits
<1>3. DeadlinesFit'
  BY LimitsStay, LimitsOfTheRun DEF TypeOK, DeadlinesFit, Limit
<1>4. TurnsFit'
  BY LimitsStay, LimitsOfTheRun DEF TypeOK, DeadlinesFit, TurnsFit
<1>5. TracesFit'
  BY LimitsStay, LimitsOfTheRun DEF TypeOK, TracesFit
<1> QED BY <1>1, <1>2, <1>3, <1>4, <1>5

-----------------------------------------------------------------------------
(* Whatever stops an assembly is an outcome. *)
LEMMA AssemblyFaultsAreOutcomes ==
    ASSUME NEW r \in Runs, NEW d \in Definitions
    PROVE  AssemblyFaults(r, d) \subseteq Outcomes
<1> DEFINE stages == AssemblyStages(r, d)
<1>1. ToolFaults(r, d) \subseteq Outcomes
  BY DEF ToolFaults, Outcomes
<1>2. \A i \in 1..5 : stages[i] \subseteq Outcomes
  BY <1>1 DEF AssemblyStages, Outcomes, Faults
<1>3. AssemblyFaults(r, d) \subseteq UNION {stages[i] : i \in 1..5}
  BY DEF AssemblyFaults
<1> QED BY <1>2, <1>3

(* A run that knows its definition and asks nobody keeps the invariant. *)
LEMMA CloseInv ==
    ASSUME Inv, NEW r \in Runs, NEW how \in Outcomes, pc[r] = "model", Close(r, how),
           UNCHANGED <<given, now, started, deadline, definition, turns>>
    PROVE  Inv'
<1> USE RunnerAssumption DEF Inv, Close, Goto, End, given
<1>1. TypeOK'
  BY DEF TypeOK
<1>2. RunsHaveLimits'
  BY LimitsStay DEF TypeOK, RunsHaveLimits, Waits
<1>3. DeadlinesFit'
  BY DEF TypeOK, DeadlinesFit, Limit, BuiltTimeout, ContextTimeout
<1>4. TurnsFit'
  BY DEF TypeOK, DeadlinesFit, TurnsFit, BuiltTurns, ContextTurns
<1>5. TracesFit'
  BY DEF TypeOK, TracesFit
<1> QED BY <1>1, <1>2, <1>3, <1>4, <1>5

LEMMA AssembleInv ==
    ASSUME Inv, NEW r \in Runs, NEW d \in Definitions, pc[r] \in {"lookup", "prompt"},
           definition' = [definition EXCEPT ![r] = d], Assemble(r, d),
           UNCHANGED <<given, now, started, turns>>
    PROVE  Inv'
<1> USE RunnerAssumption DEF Inv, given
<1>1. /\ Refusal(r) = None /\ started[r] <= now /\ turns[r] = 0 /\ traced[r] = "none"
      /\ d # None
  BY DEF TypeOK, RunsHaveLimits, Waits, TurnsFit, TracesFit
<1>2. BuiltTimeout(r, d) \in Nat /\ BuiltTurns(r, d) \in Nat
  BY <1>1, LimitsOfTheRun
<1>3. CASE \E fault \in Outcomes : End(r, fault) /\ UNCHANGED <<deadline, traced>>
  <2> USE DEF End
  <2>1. TypeOK'
    BY <1>3 DEF TypeOK
  <2>2. RunsHaveLimits'
    BY <1>1, <1>3, LimitsStay DEF TypeOK, RunsHaveLimits, Waits
  <2>3. DeadlinesFit'
    BY <1>1, <1>3 DEF TypeOK, DeadlinesFit, Limit, BuiltTimeout, ContextTimeout
  <2>4. TurnsFit'
    BY <1>1, <1>2, <1>3 DEF TypeOK, DeadlinesFit, TurnsFit, BuiltTurns, ContextTurns
  <2>5. TracesFit'
    BY <1>1, <1>3 DEF TypeOK, TracesFit
  <2> QED BY <2>1, <2>2, <2>3, <2>4, <2>5
<1>4. CASE /\ now < started[r] + BuiltTimeout(r, d)
           /\ deadline' = [deadline EXCEPT ![r] = started[r] + BuiltTimeout(r, d)]
           /\ Close(r, "nothing_to_answer")
  <2> USE DEF Close, Goto, End
  <2>1. TypeOK'
    BY <1>2, <1>4 DEF TypeOK, Outcomes
  <2>2. RunsHaveLimits'
    BY <1>1, <1>4, LimitsStay DEF TypeOK, RunsHaveLimits, Waits
  <2>3. DeadlinesFit'
    BY <1>1, <1>4 DEF TypeOK, DeadlinesFit, Limit, BuiltTimeout, ContextTimeout
  <2>4. TurnsFit'
    BY <1>1, <1>2, <1>4 DEF TypeOK, DeadlinesFit, TurnsFit, BuiltTurns, ContextTurns
  <2>5. TracesFit'
    BY <1>1, <1>4 DEF TypeOK, TracesFit, Outcomes
  <2> QED BY <2>1, <2>2, <2>3, <2>4, <2>5
<1>5. CASE /\ now < started[r] + BuiltTimeout(r, d)
           /\ deadline' = [deadline EXCEPT ![r] = started[r] + BuiltTimeout(r, d)]
           /\ traced' = [traced EXCEPT ![r] = IF tracing THEN "open" ELSE "none"]
           /\ Goto(r, "model")
           /\ UNCHANGED outcome
  <2> USE DEF Goto
  <2>1. TypeOK'
    BY <1>2, <1>5 DEF TypeOK
  <2>2. RunsHaveLimits'
    BY <1>1, <1>5, LimitsStay DEF TypeOK, RunsHaveLimits, Waits
  <2>3. DeadlinesFit'
    BY <1>1, <1>5 DEF TypeOK, DeadlinesFit, Limit, BuiltTimeout, ContextTimeout
  <2>4. TurnsFit'
    BY <1>1, <1>2, <1>5 DEF TypeOK, DeadlinesFit, TurnsFit, BuiltTurns, ContextTurns
  <2>5. TracesFit'
    BY <1>1, <1>5 DEF TypeOK, TracesFit
  <2> QED BY <2>1, <2>2, <2>3, <2>4, <2>5
<1>6. CASE Execute(r, d)
  <2>1. CASE now >= started[r] + BuiltTimeout(r, d)
    BY <1>3, <1>6, <2>1 DEF Execute, Outcomes
  <2>2. CASE now < started[r] + BuiltTimeout(r, d)
    BY <1>2, <1>4, <1>5, <1>6, <2>2 DEF Execute, TypeOK
  <2> QED BY <1>2, <2>1, <2>2 DEF TypeOK
<1> QED BY <1>3, <1>6, AssemblyFaultsAreOutcomes DEF Assemble

LEMMA LookupAnswersInv ==
    ASSUME Inv, NEW r \in Runs, LookupAnswers(r)
    PROVE  Inv'
<1> USE RunnerAssumption DEF Inv, LookupAnswers
<1>1. PICK d \in Definitions :
        /\ definition' = [definition EXCEPT ![r] = d]
        /\ IF d.prompt = "stored"
           THEN Assemble(r, d)
           ELSE Goto(r, "prompt") /\ UNCHANGED <<deadline, traced, outcome>>
  OBVIOUS
<1>2. CASE d.prompt = "stored"
  BY <1>1, <1>2, AssembleInv
<1>3. CASE d.prompt # "stored"
  <2> USE <1>1, <1>3 DEF Goto, given
  <2>1. Refusal(r) = None /\ turns[r] = 0 /\ d # None
    BY DEF RunsHaveLimits, Waits, TurnsFit
  <2>2. BuiltTurns(r, d) \in Nat
    BY <2>1, LimitsOfTheRun
  <2>3. TypeOK'
    BY DEF TypeOK
  <2>4. RunsHaveLimits'
    BY LimitsStay DEF TypeOK, RunsHaveLimits, Waits
  <2>5. DeadlinesFit'
    BY DEF TypeOK, DeadlinesFit, Limit, BuiltTimeout, ContextTimeout
  <2>6. TurnsFit'
    BY <2>1, <2>2 DEF TypeOK, DeadlinesFit, TurnsFit, BuiltTurns, ContextTurns
  <2>7. TracesFit'
    BY DEF TypeOK, TracesFit
  <2> QED BY <2>3, <2>4, <2>5, <2>6, <2>7
<1> QED BY <1>2, <1>3

LEMMA PromptArrivesInv ==
    ASSUME Inv, NEW r \in Runs, PromptArrives(r)
    PROVE  Inv'
<1>1. definition[r] \in Definitions /\ definition' = [definition EXCEPT ![r] = definition[r]]
  BY DEF Inv, TypeOK, DeadlinesFit, PromptArrives
<1> QED BY <1>1, AssembleInv DEF PromptArrives

LEMMA RunOutOfTurnsInv ==
    ASSUME Inv, NEW r \in Runs, RunOutOfTurns(r)
    PROVE  Inv'
BY CloseInv DEF RunOutOfTurns, Outcomes

LEMMA ModelAnswersInv ==
    ASSUME Inv, NEW r \in Runs, ModelAnswers(r)
    PROVE  Inv'
BY CloseInv DEF ModelAnswers, Outcomes

LEMMA StopInv ==
    ASSUME Inv, NEW r \in Runs, NEW how \in {"deadline", "cancelled"}, Stop(r, how)
    PROVE  Inv'
<1> USE RunnerAssumption DEF Inv, Stop, End, given
<1>1. TypeOK'
  BY DEF TypeOK, Outcomes
<1>2. RunsHaveLimits'
  BY LimitsStay DEF TypeOK, RunsHaveLimits, Waits
<1>3. DeadlinesFit'
  BY DEF TypeOK, DeadlinesFit, Limit, BuiltTimeout, ContextTimeout
<1>4. TurnsFit'
  BY DEF TypeOK, Waits, DeadlinesFit, TurnsFit, BuiltTurns, ContextTurns
<1>5. TracesFit'
  BY DEF TypeOK, TracesFit
<1> QED BY <1>1, <1>2, <1>3, <1>4, <1>5

LEMMA TickInv == ASSUME Inv, Tick PROVE Inv'
<1> USE RunnerAssumption DEF Inv, Tick, given
<1>1. TypeOK'
  BY DEF TypeOK
<1>2. RunsHaveLimits'
  BY LimitsStay DEF TypeOK, RunsHaveLimits, Waits
<1>3. DeadlinesFit'
  BY DEF TypeOK, DeadlinesFit, Limit, BuiltTimeout, ContextTimeout
<1>4. TurnsFit'
  BY DEF TurnsFit, BuiltTurns, ContextTurns
<1>5. TracesFit'
  BY DEF TracesFit
<1> QED BY <1>1, <1>2, <1>3, <1>4, <1>5

LEMMA StutterInv == ASSUME Inv, UNCHANGED vars PROVE Inv'
<1> USE DEF Inv, vars, given
<1>1. TypeOK' /\ RunsHaveLimits'
  BY DEF TypeOK, RunsHaveLimits, Waits, Refusal
<1>2. DeadlinesFit'
  BY DEF DeadlinesFit, Limit, BuiltTimeout, ContextTimeout
<1>3. TurnsFit' /\ TracesFit'
  BY DEF TurnsFit, TracesFit, BuiltTurns, ContextTurns
<1> QED BY <1>1, <1>2, <1>3

LEMMA NextInv == Inv /\ [Next]_vars => Inv'
<1> SUFFICES ASSUME Inv, [Next]_vars PROVE Inv'
  OBVIOUS
<1>1. ASSUME NEW r \in Runs, Step(r) PROVE Inv'
  BY <1>1, BeginInv, LookupAnswersInv, LookupFailsInv, PromptArrivesInv, PromptFailsInv,
     TakeTurnInv, RunOutOfTurnsInv, ModelAnswersInv, FlushEndsInv, FlushFailsInv, StopInv
     DEF Step, Expire, CallerCancels
<1> QED BY <1>1, TickInv, StutterInv DEF Next

THEOREM InvHolds == Spec => []Inv
BY InitInv, NextInv, PTL DEF Spec

-----------------------------------------------------------------------------
(* The state of every run has the types its code gives it. *)
THEOREM RunnerTypeCorrect == Spec => []TypeOK
BY InvHolds, PTL DEF Inv

(* However many runs there are, none takes more turns than its caller, its *)
(* definition and the platform each allow.                                 *)
LEMMA InvBoundsTurns == Inv => TurnsAreBounded
<1> SUFFICES ASSUME Inv, NEW r \in Runs, definition[r] # None
             PROVE  /\ turns[r] <= definition[r].turns
                    /\ turns[r] <= request[r].turns /\ turns[r] <= MaxTurnsCeiling
  BY DEF TurnsAreBounded
<1> DEFINE d == definition[r]
<1>1. d \in Definitions /\ Refusal(r) = None /\ turns[r] <= BuiltTurns(r, d) /\ turns[r] \in Nat
  BY DEF Inv, TypeOK, RunsHaveLimits, TurnsFit
<1>2. request[r].turns \in Int /\ d.turns \in Int /\ MaxTurnsCeiling \in Int
  BY <1>1, RunnerAssumption DEF Inv, TypeOK, RequestType, DefinitionType
<1>3. /\ BuiltTurns(r, d) \in Nat /\ BuiltTurns(r, d) <= d.turns
      /\ BuiltTurns(r, d) <= request[r].turns /\ BuiltTurns(r, d) <= MaxTurnsCeiling
  BY <1>1, LimitsOfTheRun DEF Inv
<1> QED BY <1>1, <1>2, <1>3

THEOREM TurnsAreAlwaysBounded == Spec => []TurnsAreBounded
BY InvHolds, InvBoundsTurns, PTL

(* Whatever a run came to, its trace has been flushed when its caller      *)
(* hears of it, unless it was stopped.                                     *)
LEMMA InvFlushesTraces == Inv => TracesAreFlushed
BY DEF Inv, TypeOK, TracesFit, TracesAreFlushed

THEOREM TracesAreAlwaysFlushed == Spec => []TracesAreFlushed
BY InvHolds, InvFlushesTraces, PTL

(* The clock never passes the smallest of the three limits of a run whose  *)
(* definition is known and that has not ended, wherever the run waits.     *)
LEMMA TimeStopsAtLimits ==
    ASSUME Inv, Tick, NEW r \in Runs, Waits(r), definition[r] # None
    PROVE  now' <= Limit(r, definition[r])
<1> DEFINE d == definition[r]
<1>1. d \in Definitions /\ Refusal(r) = None /\ started[r] \in Nat /\ deadline[r] \in Nat
  BY DEF Inv, TypeOK, RunsHaveLimits
<1>2. BuiltTimeout(r, d) \in Nat
  BY <1>1, LimitsOfTheRun DEF Inv
<1>3. now \in Nat /\ now' = now + 1 /\ now < FiresAt(r)
  BY RunnerAssumption DEF Inv, TypeOK, Tick
<1>4. CASE pc[r] = "prompt"
  <2>1. FiresAt(r) \in Int /\ FiresAt(r) <= started[r] + BuiltTimeout(r, d)
    BY <1>1, <1>2, <1>4, LeastOfTwo DEF FiresAt
  <2> QED BY <1>1, <1>2, <1>3, <2>1 DEF Limit
<1>5. CASE pc[r] \in {"model", "flush"}
  <2>1. FiresAt(r) = Limit(r, d)
    BY <1>5 DEF FiresAt, Inv, DeadlinesFit
  <2> QED BY <1>1, <1>2, <1>3, <2>1 DEF Limit
<1>6. pc[r] # "lookup"
  BY DEF Inv, DeadlinesFit
<1> QED BY <1>4, <1>5, <1>6 DEF Waits

LEMMA OnlyTickMovesTime == [Next]_vars /\ now' # now => Tick
BY DEF Next, vars, given, Step, Begin, LookupAnswers, LookupFails, PromptArrives, PromptFails,
       TakeTurn, RunOutOfTurns, ModelAnswers, FlushEnds, FlushFails, Expire, CallerCancels, Stop

(* A run that looks its definition up has the caller's and the platform's. *)
LEMMA TimeStopsAtKnownLimits ==
    ASSUME Inv, Tick, NEW r \in Runs, Waits(r)
    PROVE  now' <= KnownLimit(r)
<1>1. CASE definition[r] # None
  BY <1>1, TimeStopsAtLimits DEF KnownLimit
<1>2. CASE definition[r] = None
  <2>1. pc[r] = "lookup"
    BY <1>2, RunnerAssumption DEF Waits, Inv, DeadlinesFit
  <2>2. FiresAt(r) = started[r] + ContextTimeout(r)
    BY <2>1 DEF FiresAt, Inv, DeadlinesFit
  <2>3. FiresAt(r) \in Nat /\ now \in Nat
    BY <2>1, RunnerAssumption DEF FiresAt, Inv, TypeOK
  <2>4. now' = now + 1 /\ now < FiresAt(r)
    BY DEF Tick
  <2> QED BY <1>2, <2>2, <2>3, <2>4 DEF KnownLimit
<1> QED BY <1>1, <1>2

(* The clock never passes the smallest limit known of a run that has not   *)
(* ended: no lookup, prompt, model or flush, however slow, keeps a run     *)
(* beyond it.                                                              *)
THEOREM NothingEverOutlastsTheDeadline == Spec => NothingOutlastsTheDeadline
<1>1. Inv /\ [Next]_vars =>
        [now' # now => \A r \in Runs : Waits(r) => now' <= KnownLimit(r)]_vars
  BY OnlyTickMovesTime, TimeStopsAtKnownLimits
<1> QED BY <1>1, InvHolds, PTL DEF Spec, NothingOutlastsTheDeadline

(* From the time its model is asked, a run that waits is within the        *)
(* smallest limit.  The timers alone do not see to that: a lookup may      *)
(* answer, with a stored prompt, after the definition's limit.             *)
InTime == \A r \in Runs : pc[r] \in {"model", "flush"} => now <= Limit(r, definition[r])

(* An assembly that lets the run go on does so within that limit. *)
LEMMA AssemblyIsInTime ==
    ASSUME Inv, NEW r \in Runs, NEW d \in Definitions, pc[r] \in {"lookup", "prompt"},
           definition' = [definition EXCEPT ![r] = d], Assemble(r, d),
           UNCHANGED <<given, now, started, turns>>,
           pc'[r] \in {"model", "flush"}
    PROVE  now <= Limit(r, definition[r])'
<1>1. Refusal(r) = None /\ started[r] \in Nat /\ now \in Int
  BY RunnerAssumption DEF Inv, TypeOK, RunsHaveLimits, Waits
<1>2. BuiltTimeout(r, d) \in Nat
  BY <1>1, LimitsOfTheRun DEF Inv
<1>3. Execute(r, d) /\ ~(now >= started[r] + BuiltTimeout(r, d))
  BY DEF Assemble, Execute, End, Inv, TypeOK
<1>4. Limit(r, definition[r])' = started[r] + BuiltTimeout(r, d)
  BY DEF Limit, BuiltTimeout, ContextTimeout, given, Inv, TypeOK
<1> QED BY <1>1, <1>2, <1>3, <1>4

LEMMA LookupAnswersInTime ==
    ASSUME Inv, InTime, NEW r \in Runs, LookupAnswers(r)
    PROVE  InTime'
<1> SUFFICES ASSUME NEW q \in Runs, pc'[q] \in {"model", "flush"}
             PROVE  now' <= Limit(q, definition[q])'
  BY DEF InTime
<1> USE DEF LookupAnswers
<1>1. CASE q = r
  BY <1>1, AssemblyIsInTime DEF Goto, Inv, TypeOK
<1>2. CASE q # r
  <2>1. pc'[q] = pc[q] /\ definition'[q] = definition[q]
    BY <1>2 DEF Assemble, Execute, Close, Goto, End, Inv, TypeOK
  <2> QED BY <2>1 DEF InTime, Limit, BuiltTimeout, ContextTimeout, given
<1> QED BY <1>1, <1>2

LEMMA PromptArrivesInTime ==
    ASSUME Inv, InTime, NEW r \in Runs, PromptArrives(r)
    PROVE  InTime'
<1> SUFFICES ASSUME NEW q \in Runs, pc'[q] \in {"model", "flush"}
             PROVE  now' <= Limit(q, definition[q])'
  BY DEF InTime
<1> USE DEF PromptArrives
<1>1. definition[r] \in Definitions /\ definition' = [definition EXCEPT ![r] = definition[r]]
  BY DEF Inv, TypeOK, DeadlinesFit
<1>2. CASE q = r
  BY <1>1, <1>2, AssemblyIsInTime
<1>3. CASE q # r
  <2>1. pc'[q] = pc[q] /\ definition'[q] = definition[q]
    BY <1>3 DEF Assemble, Execute, Close, Goto, End, Inv, TypeOK
  <2> QED BY <2>1 DEF InTime, Limit, BuiltTimeout, ContextTimeout, given
<1> QED BY <1>2, <1>3

(* A run that ends or flushes comes from one that is in time. *)
LEMMA OthersStayInTime ==
    ASSUME Inv, InTime, NEW r \in Runs,
           \/ Begin(r) \/ LookupFails(r) \/ PromptFails(r) \/ TakeTurn(r) \/ RunOutOfTurns(r)
           \/ ModelAnswers(r) \/ FlushEnds(r) \/ FlushFails(r) \/ Expire(r) \/ CallerCancels(r)
    PROVE  InTime'
<1> SUFFICES ASSUME NEW q \in Runs, pc'[q] \in {"model", "flush"}
             PROVE  now' <= Limit(q, definition[q])'
  BY DEF InTime
<1>1. UNCHANGED <<given, now, definition>>
  BY DEF Begin, LookupFails, PromptFails, TakeTurn, RunOutOfTurns, ModelAnswers, FlushEnds,
         FlushFails, Expire, CallerCancels, Stop
<1>2. pc[q] \in {"model", "flush"}
  BY DEF Begin, LookupFails, PromptFails, TakeTurn, RunOutOfTurns, ModelAnswers, FlushEnds,
         FlushFails, Expire, CallerCancels, Stop, Close, Goto, End, Inv, TypeOK
<1>3. started'[q] = started[q]
  BY <1>2 DEF Begin, LookupFails, PromptFails, TakeTurn, RunOutOfTurns, ModelAnswers, FlushEnds,
         FlushFails, Expire, CallerCancels, Stop, Inv, TypeOK
<1> QED BY <1>1, <1>2, <1>3 DEF InTime, Limit, BuiltTimeout, ContextTimeout, given

LEMMA TickInTime == ASSUME Inv, InTime, Tick PROVE InTime'
<1> SUFFICES ASSUME NEW q \in Runs, pc'[q] \in {"model", "flush"}
             PROVE  now' <= Limit(q, definition[q])'
  BY DEF InTime
<1>1. Waits(q) /\ definition[q] # None
  BY RunnerAssumption DEF Tick, Waits, Inv, DeadlinesFit
<1>2. now' <= Limit(q, definition[q])
  BY <1>1, TimeStopsAtLimits
<1> QED BY <1>2 DEF Tick, Limit, BuiltTimeout, ContextTimeout, given

LEMMA NextInTime == Inv /\ InTime /\ [Next]_vars => InTime'
<1> SUFFICES ASSUME Inv, InTime, [Next]_vars PROVE InTime'
  OBVIOUS
<1>1. CASE UNCHANGED vars
  BY <1>1 DEF vars, given, InTime, Limit, BuiltTimeout, ContextTimeout
<1>2. ASSUME NEW r \in Runs, Step(r) PROVE InTime'
  BY <1>2, LookupAnswersInTime, PromptArrivesInTime, OthersStayInTime DEF Step
<1> QED BY <1>1, <1>2, TickInTime DEF Next

(* What is within the smallest limit is within each of the three. *)
LEMMA InTimeForAll ==
    ASSUME Inv, InTime, NEW r \in Runs, pc[r] \in {"model", "flush"}
    PROVE  /\ now <= started[r] + request[r].timeout
           /\ now <= started[r] + TimeoutCeiling
           /\ now <= started[r] + definition[r].timeout
<1> DEFINE d == definition[r]
<1>1. d \in Definitions /\ Refusal(r) = None /\ started[r] \in Nat /\ now \in Nat
  BY RunnerAssumption DEF Inv, TypeOK, RunsHaveLimits, DeadlinesFit, Waits
<1>2. request[r].timeout \in Int /\ d.timeout \in Int /\ TimeoutCeiling \in Int
  BY <1>1, RunnerAssumption DEF Inv, TypeOK, RequestType, DefinitionType
<1>3. /\ BuiltTimeout(r, d) \in Nat /\ BuiltTimeout(r, d) <= d.timeout
      /\ BuiltTimeout(r, d) <= request[r].timeout /\ BuiltTimeout(r, d) <= TimeoutCeiling
  BY <1>1, LimitsOfTheRun DEF Inv
<1>4. now <= started[r] + BuiltTimeout(r, d)
  BY DEF InTime, Limit
<1> QED BY <1>1, <1>2, <1>3, <1>4

(* No assembly stops with a result. *)
LEMMA NoFaultIsAResult ==
    ASSUME NEW r \in Runs, NEW d \in Definitions
    PROVE  "result" \notin AssemblyFaults(r, d)
<1> DEFINE stages == AssemblyStages(r, d)
<1>1. "result" \notin ToolFaults(r, d)
  BY DEF ToolFaults
<1>2. \A i \in 1..5 : "result" \notin stages[i]
  BY <1>1 DEF AssemblyStages
<1>3. AssemblyFaults(r, d) \subseteq UNION {stages[i] : i \in 1..5}
  BY DEF AssemblyFaults
<1> QED BY <1>2, <1>3

(* A turn is taken while the model is asked, and a result told then or     *)
(* after the flush.                                                        *)
LEMMA WhatComesOfARun ==
    ASSUME Inv, [Next]_vars, NEW q \in Runs,
           turns'[q] # turns[q] \/ (pc[q] # "done" /\ pc'[q] = "done" /\ outcome'[q] = "result")
    PROVE  pc[q] \in {"model", "flush"}
<1>1. PICK r \in Runs : Step(r)
  BY DEF Next, Tick, vars
<1>2. CASE Begin(r)
  BY <1>2, RunnerAssumption DEF Begin, Refusal, Goto, End, Inv, TypeOK
<1>3. ASSUME NEW d \in Definitions, Assemble(r, d), turns' = turns PROVE FALSE
  <2>1. pc'[q] = "done" /\ pc[q] # "done" /\ outcome'[q] = "result"
    BY <1>3
  <2>2. q = r
    BY <1>3, <2>1 DEF Assemble, Execute, Close, Goto, End, Inv, TypeOK
  <2>3. CASE \E fault \in AssemblyFaults(r, d) : End(r, fault)
    BY <2>1, <2>2, <2>3, NoFaultIsAResult DEF End, Inv, TypeOK
  <2>4. CASE Execute(r, d)
    BY <2>1, <2>2, <2>4 DEF Execute, Close, Goto, End, Inv, TypeOK
  <2> QED BY <1>3, <2>3, <2>4 DEF Assemble
<1>4. CASE LookupAnswers(r)
  BY <1>3, <1>4 DEF LookupAnswers, Goto, Inv, TypeOK
<1>5. CASE PromptArrives(r)
  BY <1>3, <1>5 DEF PromptArrives, Inv, TypeOK, DeadlinesFit
<1>6. CASE LookupFails(r) \/ PromptFails(r) \/ Expire(r) \/ CallerCancels(r) \/ FlushFails(r)
  BY <1>6 DEF LookupFails, PromptFails, Expire, CallerCancels, FlushFails, Stop, End, Inv, TypeOK
<1>7. CASE TakeTurn(r) \/ RunOutOfTurns(r) \/ ModelAnswers(r) \/ FlushEnds(r)
  BY <1>7 DEF TakeTurn, RunOutOfTurns, ModelAnswers, FlushEnds, Close, Goto, End, Inv, TypeOK
<1> QED BY <1>1, <1>2, <1>4, <1>5, <1>6, <1>7 DEF Step

(* However slow its lookup, its prompt, its turns and its flush are, a run *)
(* takes no turn and tells no result beyond any of its three limits.       *)
THEOREM NothingEverComesOfALateRun == Spec => NothingComesOfALateRun
<1>1. Init => InTime
  BY DEF Init, InTime
<1>2. Inv /\ InTime /\ [Next]_vars =>
        [\A r \in Runs :
            turns'[r] # turns[r] \/ (pc[r] # "done" /\ pc'[r] = "done" /\ outcome'[r] = "result")
            => /\ now <= started[r] + request[r].timeout
               /\ now <= started[r] + TimeoutCeiling
               /\ now <= started[r] + definition[r].timeout]_vars
  BY WhatComesOfARun, InTimeForAll
<1> QED BY <1>1, <1>2, InvHolds, NextInTime, PTL DEF Spec, NothingComesOfALateRun
===============================================================================

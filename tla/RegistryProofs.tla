--------------------------- MODULE RegistryProofs ---------------------------
(***************************************************************************)
(* Proofs about Registry, for every set of agents, environments, clients,  *)
(* texts and configurations, every pool size and every number of versions. *)
(***************************************************************************)
EXTENDS Registry, TLAPS, SequenceTheorems

-----------------------------------------------------------------------------
(* The inductive invariant, part by part *)

Drafting   == {"draft", "lock", "number", "insert"}
Binding    == {"bind", "check", "upsert"}
Publishing == {"resolve", "update"}

(* A client that is not idle has a job whose arguments fit what it does. *)
JobFits(c) ==
    /\ pc[c] # "idle" => job[c] # None
    /\ pc[c] \in Drafting => job[c].config # None
    /\ pc[c] \in Binding => job[c].environment # None
    /\ pc[c] \in Publishing => plan[c] # None
    /\ job[c] # None =>
         (job[c].op = "release" =>
             job[c].environment # None /\ job[c].config # None)

JobsFit == \A c \in Clients : JobFits(c)

(* A client that has selected a row holds its lock, and once the row has   *)
(* been looked at, it is a draft until it is written.                      *)
HoldsItsRow(c) ==
    /\ pc[c] \in Publishing => rowLock[c] = Row(c) /\ Exists(job[c].key, job[c].version)
    /\ pc[c] = "update" => IsDraft(c)

RowsAreHeld == \A c \in Clients : HoldsItsRow(c)

OneHolder ==
    \A c, d \in Clients : rowLock[c] # None /\ rowLock[c] = rowLock[d] => c = d

Base == TypeOK /\ JobsFit /\ RowsAreHeld /\ OneHolder

-----------------------------------------------------------------------------
(* Sequences of rows *)

(* Replacing a row, and adding one, leave the others as they were. *)
LEMMA ReplaceRow ==
    ASSUME NEW s \in Seq(Rows), NEW i \in DOMAIN s, NEW x \in Rows
    PROVE  /\ [s EXCEPT ![i] = x] \in Seq(Rows)
           /\ Len([s EXCEPT ![i] = x]) = Len(s)
           /\ DOMAIN [s EXCEPT ![i] = x] = DOMAIN s
  BY ExceptSeq

LEMMA AppendRow ==
    ASSUME NEW s \in Seq(Rows), NEW x \in Rows
    PROVE  /\ Append(s, x) \in Seq(Rows)
           /\ Len(Append(s, x)) = Len(s) + 1
           /\ DOMAIN s \subseteq DOMAIN Append(s, x)
           /\ \A i \in DOMAIN s : Append(s, x)[i] = s[i]
           /\ Append(s, x)[Len(s) + 1] = x
           /\ DOMAIN Append(s, x) = DOMAIN s \cup {Len(s) + 1}
  BY AppendProperties

-----------------------------------------------------------------------------
(* Types *)

LEMMA PinnedIsFixed ==
    ASSUME TypeOK, NEW ref \in Refs, CanPin(ref)
    PROVE  /\ Pinned(ref) \in Refs /\ Pinned(ref).kind # "label"
           /\ Pinned(ref).kind = "version" => Pinned(ref).text \in Usable
  BY ConstantsAssumption DEF TypeOK, Refs, CanPin, Pinned, TextOf

(* Every way a session ends keeps the types of the client's variables. *)
LEMMA EndSessionTypes ==
    ASSUME TypeOK, NEW c \in Clients, NEW place \in {"idle", "publish", "bind"},
           NEW result \in Outcomes, EndSession(c, place, result)
    PROVE  /\ advisory' \in [Clients -> AgentKeys \cup {None}]
           /\ rowLock' \in [Clients -> (AgentKeys \X Nat) \cup {None}]
           /\ pc' \in [Clients -> {"idle"} \cup Queued \cup InSession]
           /\ job' \in [Clients -> Jobs \cup {None}]
           /\ plan' \in [Clients -> Configs \cup {None}]
           /\ outcome' \in [Clients -> Outcomes]
  BY DEF TypeOK, EndSession, Goto, Queued

LEMMA CommitEnds ==
    ASSUME NEW c, NEW place \in {"idle", "publish", "bind"}, Commit(c, place)
    PROVE  \E next \in {"idle", place}, result \in Outcomes : EndSession(c, next, result)
  BY DEF Commit, Outcomes

LEMMA TypeInit == Init => TypeOK /\ JobsFit /\ RowsAreHeld /\ OneHolder
  <1> SUFFICES ASSUME Init PROVE TypeOK /\ JobsFit /\ RowsAreHeld /\ OneHolder
    OBVIOUS
  <1> USE DEF Init
  <1>1. defs \in [AgentKeys -> Seq(Rows)]
    <2>1. ASSUME NEW s \in Archives PROVE s \in Seq(Rows)
      <3>1. [status : {"archived"}, config : Configs] \subseteq Rows
        BY DEF Rows
      <3> QED BY <3>1, ConstantsAssumption, SeqMonotonic
    <2> QED BY <2>1
  <1>2. TypeOK
    BY <1>1 DEF TypeOK, Outcomes
  <1>3. JobsFit /\ RowsAreHeld /\ OneHolder
    BY DEF JobsFit, JobFits, RowsAreHeld, HoldsItsRow, IsDraft, OneHolder, Drafting,
           Binding, Publishing
  <1> QED BY <1>2, <1>3
-----------------------------------------------------------------------------
(* Steps *)

(* What a step of client c must show for Base to hold after it: the other  *)
(* clients' variables are as before, and their rows are still drafts.      *)
LEMMA OthersKeep ==
    ASSUME Base, TypeOK', NEW c \in Clients,
           \A d \in Clients \ {c} :
              /\ pc'[d] = pc[d] /\ job'[d] = job[d] /\ plan'[d] = plan[d]
              /\ rowLock'[d] = rowLock[d]
              /\ pc[d] \in Publishing =>
                    /\ job[d].version \in DOMAIN defs'[job[d].key]
                    /\ pc[d] = "update" => defs'[job[d].key][job[d].version].status = "draft",
           JobFits(c)', HoldsItsRow(c)',
           rowLock'[c] = None \/ \A d \in Clients \ {c} : rowLock[d] # rowLock'[c]
    PROVE  Base'
  <1>1. JobsFit'
    BY DEF Base, JobsFit, JobFits
  <1>2. RowsAreHeld'
    <2> SUFFICES ASSUME NEW d \in Clients, d # c PROVE HoldsItsRow(d)'
      BY DEF RowsAreHeld
    <2>1. /\ pc'[d] = pc[d] /\ job'[d] = job[d] /\ rowLock'[d] = rowLock[d]
          /\ HoldsItsRow(d)
      BY DEF Base, RowsAreHeld
    <2>2. pc'[d] = "update" => IsDraft(d)'
      BY <2>1 DEF IsDraft, Publishing
    <2>3. pc'[d] \in Publishing => rowLock'[d] = Row(d)' /\ Exists(job[d].key, job[d].version)'
      BY <2>1 DEF HoldsItsRow, Row, Exists
    <2> QED BY <2>1, <2>2, <2>3 DEF HoldsItsRow
  <1>3. OneHolder'
    BY DEF Base, OneHolder
  <1> QED BY <1>1, <1>2, <1>3 DEF Base

(* Leaving a session keeps Base, whatever it wrote, if what it wrote left  *)
(* the rows of the other publications alone.                               *)
LEMMA EndSessionKeeps ==
    ASSUME Base, NEW c \in Clients, NEW place \in {"idle", "publish", "bind"},
           NEW result \in Outcomes, EndSession(c, place, result),
           job[c] # None, place = "bind" => job[c].environment # None,
           defs' \in [AgentKeys -> Seq(Rows)],
           bindings' \in [AgentKeys \X Environments -> Nat],
           label' \in Texts,
           \A d \in Clients \ {c} : pc[d] \in Publishing =>
              /\ job[d].version \in DOMAIN defs'[job[d].key]
              /\ pc[d] = "update" => defs'[job[d].key][job[d].version].status = "draft"
    PROVE  Base'
  <1>1. TypeOK'
    BY EndSessionTypes DEF Base, TypeOK
  <1>2. /\ pc'[c] = place /\ rowLock'[c] = None
        /\ job'[c] = IF place = "idle" THEN None ELSE job[c]
        /\ \A d \in Clients \ {c} :
              /\ pc'[d] = pc[d] /\ job'[d] = job[d] /\ plan'[d] = plan[d]
              /\ rowLock'[d] = rowLock[d]
    BY DEF Base, TypeOK, EndSession, Goto
  <1>3. JobFits(c)'
    BY <1>2 DEF Base, JobsFit, JobFits, Drafting, Binding, Publishing
  <1>4. HoldsItsRow(c)'
    BY <1>2 DEF HoldsItsRow, IsDraft, Publishing
  <1> QED BY <1>1, <1>2, <1>3, <1>4, OthersKeep

LEMMA RefuseKeeps ==
    ASSUME Base, NEW c \in Clients, NEW result \in Outcomes, Refuse(c, result),
           job[c] # None
    PROVE  Base'
  <1>1. \A d \in Clients \ {c} : pc[d] \in Publishing =>
              /\ job[d].version \in DOMAIN defs'[job[d].key]
              /\ pc[d] = "update" => defs'[job[d].key][job[d].version].status = "draft"
    BY DEF Base, RowsAreHeld, HoldsItsRow, IsDraft, Exists, Refuse, dbVars
  <1>2. EndSession(c, "idle", result) /\ UNCHANGED <<defs, bindings, label>>
    BY DEF Refuse, dbVars
  <1> QED BY <1>1, <1>2, EndSessionKeeps DEF Base, TypeOK

LEMMA CallKeeps ==
    ASSUME Base, NEW c \in Clients, Calls(c)
    PROVE  Base'
  <1>1. PICK j \in Jobs, place \in Queued :
          /\ Call(c, j, place)
          /\ place = "draft" => j.config # None
          /\ place = "bind" => j.environment # None
          /\ j.op = "release" => j.environment # None /\ j.config # None
    <2>1. CASE CallCreateDraft(c)
      <3>1. PICK k \in AgentKeys, config \in Authored :
              Call(c, [config |-> config, op |-> "create_draft", key |-> k,
                       version |-> 0, environment |-> None], "draft")
        BY <2>1 DEF CallCreateDraft
      <3> DEFINE jj == [config |-> config, op |-> "create_draft", key |-> k,
                       version |-> 0, environment |-> None]
      <3>2. jj \in Jobs /\ jj.config # None /\ jj.op # "release"
        BY ConstantsAssumption, NoneAssumption DEF Jobs, Ops
      <3> QED BY <3>1, <3>2 DEF Queued
    <2>2. CASE CallPublish(c)
      <3>1. PICK k \in AgentKeys, v \in 1..MaxVersion, override \in Authored \cup {None} :
              Call(c, [config |-> override, op |-> "publish", key |-> k,
                       version |-> v, environment |-> None], "publish")
        BY <2>2 DEF CallPublish
      <3> DEFINE jj == [config |-> override, op |-> "publish", key |-> k,
                       version |-> v, environment |-> None]
      <3>2. jj \in Jobs /\ jj.op # "release"
        BY ConstantsAssumption DEF Jobs, Ops
      <3> QED BY <3>1, <3>2 DEF Queued
    <2>3. CASE CallBind(c)
      <3>1. PICK k \in AgentKeys, v \in 1..MaxVersion, e \in Environments :
              Call(c, [config |-> None, op |-> "bind", key |-> k,
                       version |-> v, environment |-> e], "bind")
        BY <2>3 DEF CallBind
      <3> DEFINE jj == [config |-> None, op |-> "bind", key |-> k,
                       version |-> v, environment |-> e]
      <3>2. jj \in Jobs /\ jj.environment # None /\ jj.op # "release"
        BY ConstantsAssumption, NoneAssumption DEF Jobs, Ops
      <3> QED BY <3>1, <3>2 DEF Queued
    <2>4. CASE CallRelease(c)
      <3>1. PICK k \in AgentKeys, e \in Environments, config \in Authored :
              Call(c, [config |-> config, op |-> "release", key |-> k,
                       version |-> 0, environment |-> e], "draft")
        BY <2>4 DEF CallRelease
      <3> DEFINE jj == [config |-> config, op |-> "release", key |-> k,
                       version |-> 0, environment |-> e]
      <3>2. jj \in Jobs /\ jj.config # None /\ jj.environment # None
        BY ConstantsAssumption, NoneAssumption DEF Jobs, Ops
      <3> QED BY <3>1, <3>2 DEF Queued
    <2> QED BY <2>1, <2>2, <2>3, <2>4 DEF Calls
  <1>2. TypeOK'
    BY <1>1 DEF Base, TypeOK, Call, Goto, dbVars, Outcomes
  <1>3. /\ pc'[c] = place /\ job'[c] = j /\ rowLock'[c] = rowLock[c]
        /\ defs' = defs
        /\ \A d \in Clients \ {c} :
              /\ pc'[d] = pc[d] /\ job'[d] = job[d] /\ plan'[d] = plan[d]
              /\ rowLock'[d] = rowLock[d]
    BY <1>1 DEF Base, TypeOK, Call, Goto, dbVars
  <1>4. JobFits(c)' /\ HoldsItsRow(c)'
    BY <1>1, <1>3, NoneAssumption
    DEF JobFits, HoldsItsRow, IsDraft, Drafting, Binding, Publishing, Queued
  <1>5. \A d \in Clients \ {c} : pc[d] \in Publishing =>
              /\ job[d].version \in DOMAIN defs'[job[d].key]
              /\ pc[d] = "update" => defs'[job[d].key][job[d].version].status = "draft"
    BY <1>3 DEF Base, RowsAreHeld, HoldsItsRow, IsDraft, Exists
  <1>6. rowLock'[c] = None \/ \A d \in Clients \ {c} : rowLock[d] # rowLock'[c]
    BY <1>3 DEF Base, OneHolder
  <1> QED BY <1>2, <1>3, <1>4, <1>5, <1>6, OthersKeep

(* A statement that neither writes nor unlocks, and moves its own client on. *)
LEMMA StatementKeeps ==
    ASSUME Base, NEW c \in Clients, job[c] # None,
           NEW place \in InSession, Goto(c, place),
           UNCHANGED <<defs, bindings, label, outcome>>,
           advisory' \in [Clients -> AgentKeys \cup {None}],
           \/ job' = job
           \/ \E n \in Nat : job' = [job EXCEPT ![c].version = n],
           plan' = plan \/ \E p \in Configs : plan' = [plan EXCEPT ![c] = p],
           rowLock' = rowLock \/ (RowIsFree(Row(c)) /\ rowLock' = [rowLock EXCEPT ![c] = Row(c)]),
           place \in Drafting => pc[c] \in Drafting,
           place \in Binding => pc[c] \in Binding,
           HoldsItsRow(c)',
           place \in Publishing => plan'[c] # None
    PROVE  Base'
  <1> USE DEF Base
  <1>0. job[c] \in Jobs
    BY DEF TypeOK
  <1>1. /\ job' \in [Clients -> Jobs \cup {None}]
        /\ job'[c] \in Jobs
        /\ \A d \in Clients \ {c} : job'[d] = job[d]
        /\ job'[c].config = job[c].config /\ job'[c].op = job[c].op
        /\ job'[c].environment = job[c].environment
    <2>1. CASE job' = job
      BY <1>0, <2>1 DEF TypeOK
    <2>2. CASE \E n \in Nat : job' = [job EXCEPT ![c].version = n]
      <3>1. PICK n \in Nat : job' = [job EXCEPT ![c].version = n]
        BY <2>2
      <3>2. [job[c] EXCEPT !.version = n] \in Jobs
        BY <1>0 DEF Jobs
      <3> QED BY <1>0, <3>1, <3>2 DEF TypeOK, Jobs
    <2> QED BY <2>1, <2>2
  <1>2. /\ plan' \in [Clients -> Configs \cup {None}]
        /\ \A d \in Clients \ {c} : plan'[d] = plan[d]
    BY DEF TypeOK
  <1>3. /\ rowLock' \in [Clients -> (AgentKeys \X Nat) \cup {None}]
        /\ \A d \in Clients \ {c} : rowLock'[d] = rowLock[d]
        /\ rowLock'[c] = None \/ \A d \in Clients \ {c} : rowLock[d] # rowLock'[c]
    <2>1. Row(c) \in AgentKeys \X Nat
      BY <1>0 DEF Row, Jobs
    <2> QED BY <2>1 DEF TypeOK, OneHolder, RowIsFree
  <1>4. pc'[c] = place /\ \A d \in Clients \ {c} : pc'[d] = pc[d]
    BY DEF TypeOK, Goto
  <1>5. TypeOK'
    BY <1>1, <1>2, <1>3 DEF TypeOK, Goto
  <1>6. JobFits(c)'
    BY <1>0, <1>1, <1>4, NoneAssumption DEF JobsFit, JobFits, InSession
  <1>7. \A d \in Clients \ {c} : pc[d] \in Publishing =>
              /\ job[d].version \in DOMAIN defs'[job[d].key]
              /\ pc[d] = "update" => defs'[job[d].key][job[d].version].status = "draft"
    BY DEF RowsAreHeld, HoldsItsRow, IsDraft, Exists
  <1> QED BY <1>1, <1>2, <1>3, <1>4, <1>5, <1>6, <1>7, OthersKeep

-----------------------------------------------------------------------------
(* Each statement *)

LEMMA JobPresent ==
    ASSUME Base, NEW c \in Clients, pc[c] # "idle"
    PROVE  job[c] # None /\ job[c] \in Jobs /\ job[c].key \in AgentKeys
           /\ job[c].version \in Nat
  BY DEF Base, TypeOK, JobsFit, JobFits, Jobs

LEMMA ConnectKeeps ==
    ASSUME Base, NEW c \in Clients, Connect(c) PROVE Base'
  <1>1. PICK place \in {"lock", "select", "check"} :
          /\ Goto(c, place)
          /\ place = "lock" => pc[c] = "draft"
          /\ place = "check" => pc[c] = "bind"
    BY DEF Connect, Queued
  <1>2. job[c] # None
    BY JobPresent DEF Connect, Queued
  <1>3. UNCHANGED <<defs, bindings, label, advisory, rowLock, job, plan, outcome>>
    BY DEF Connect, dbVars
  <1>4. HoldsItsRow(c)' /\ place \in InSession
    BY <1>1 DEF HoldsItsRow, IsDraft, Publishing, Goto, InSession, Base, TypeOK
  <1> QED BY <1>1, <1>2, <1>3, <1>4, StatementKeeps
          DEF Base, TypeOK, Drafting, Binding, Publishing

LEMMA TakeDraftLockKeeps ==
    ASSUME Base, NEW c \in Clients, TakeDraftLock(c) PROVE Base'
  <1>1. job[c] # None /\ job[c].key \in AgentKeys /\ pc[c] = "lock"
    BY JobPresent DEF TakeDraftLock
  <1>2. /\ UNCHANGED <<defs, bindings, label, rowLock, job, plan, outcome>>
        /\ Goto(c, "number")
        /\ advisory' \in [Clients -> AgentKeys \cup {None}]
    BY <1>1 DEF TakeDraftLock, dbVars, Base, TypeOK
  <1>3. HoldsItsRow(c)'
    BY <1>2 DEF HoldsItsRow, IsDraft, Publishing, Goto, Base, TypeOK
  <1> QED BY <1>1, <1>2, <1>3, StatementKeeps
          DEF Drafting, Binding, Publishing, InSession

LEMMA NextVersionKeeps ==
    ASSUME Base, NEW c \in Clients, NextVersion(c) PROVE Base'
  <1>1. job[c] # None /\ job[c].key \in AgentKeys /\ pc[c] = "number"
    BY JobPresent DEF NextVersion
  <1>2. /\ UNCHANGED <<defs, bindings, label, advisory, rowLock, plan, outcome>>
        /\ Goto(c, "insert")
        /\ \E n \in Nat : job' = [job EXCEPT ![c].version = n]
    <2>1. defs[job[c].key] \in Seq(Rows)
      BY <1>1 DEF Base, TypeOK
    <2>2. Len(defs[job[c].key]) + 1 \in Nat
      BY <2>1, LenProperties
    <2> QED BY <2>2 DEF NextVersion, dbVars
  <1>3. HoldsItsRow(c)'
    BY <1>2 DEF HoldsItsRow, IsDraft, Publishing, Goto, Base, TypeOK
  <1> QED BY <1>1, <1>2, <1>3, StatementKeeps
          DEF Base, TypeOK, Drafting, Binding, Publishing, InSession

LEMMA InsertDraftKeeps ==
    ASSUME Base, NEW c \in Clients, InsertDraft(c) PROVE Base'
  <1> DEFINE k == job[c].key
             row == [status |-> "draft", config |-> job[c].config]
             next == IF job[c].op = "release" THEN "publish" ELSE "idle"
  <1>1. /\ job[c] # None /\ k \in AgentKeys /\ pc[c] = "insert"
        /\ job[c].config \in Configs
    BY JobPresent DEF InsertDraft, Base, JobsFit, JobFits, Drafting, Jobs
  <1>2. CASE Exists(k, job[c].version)
    BY <1>1, <1>2, RefuseKeeps DEF InsertDraft, Outcomes
  <1>3. CASE ~Exists(k, job[c].version)
    <2>1. /\ defs' = [defs EXCEPT ![k] = Append(@, row)]
          /\ Commit(c, next)
          /\ UNCHANGED <<bindings, label>>
      BY <1>3 DEF InsertDraft
    <2>2. defs[k] \in Seq(Rows) /\ row \in Rows
      BY <1>1 DEF Base, TypeOK, Rows
    <2>3. /\ defs' \in [AgentKeys -> Seq(Rows)]
          /\ \A kk \in AgentKeys : \A v \in DOMAIN defs[kk] :
                v \in DOMAIN defs'[kk] /\ defs'[kk][v] = defs[kk][v]
      BY <1>1, <2>1, <2>2, AppendRow DEF Base, TypeOK
    <2>4. \A d \in Clients \ {c} : pc[d] \in Publishing =>
              /\ job[d].version \in DOMAIN defs'[job[d].key]
              /\ pc[d] = "update" => defs'[job[d].key][job[d].version].status = "draft"
      BY <2>3, JobPresent DEF Base, RowsAreHeld, HoldsItsRow, IsDraft, Exists, Publishing
    <2>5. PICK place \in {"idle", "publish", "bind"}, result \in Outcomes :
            EndSession(c, place, result) /\ place # "bind"
      BY <2>1, CommitEnds
    <2> QED BY <1>1, <2>1, <2>3, <2>4, <2>5, EndSessionKeeps DEF Base, TypeOK
  <1> QED BY <1>2, <1>3

LEMMA SelectForUpdateKeeps ==
    ASSUME Base, NEW c \in Clients, SelectForUpdate(c) PROVE Base'
  <1> DEFINE k == job[c].key
             v == job[c].version
  <1>1. /\ job[c] # None /\ job[c] \in Jobs /\ k \in AgentKeys /\ v \in Nat
        /\ pc[c] = "select"
    BY JobPresent DEF SelectForUpdate
  <1>2. CASE Exists(k, v)
    <2>1. /\ RowIsFree(Row(c)) /\ rowLock' = [rowLock EXCEPT ![c] = Row(c)]
          /\ plan' = [plan EXCEPT ![c] = Submitted(c)]
          /\ Goto(c, "resolve")
          /\ UNCHANGED <<defs, bindings, label, advisory, job, outcome>>
      BY <1>2 DEF SelectForUpdate, dbVars
    <2>2. Submitted(c) \in Configs
      <3>1. defs[k] \in Seq(Rows)
        BY <1>1 DEF Base, TypeOK
      <3>2. defs[k][v] \in Rows
        BY <1>2, <3>1, ElementOfSeq, LenProperties DEF Exists
      <3> QED BY <1>1, <3>2 DEF Submitted, Jobs, Rows
    <2>3. HoldsItsRow(c)'
      <3>1. rowLock'[c] = Row(c) /\ job'[c] = job[c] /\ pc'[c] = "resolve"
        BY <2>1 DEF Base, TypeOK, Goto
      <3> QED BY <1>2, <2>1, <3>1 DEF HoldsItsRow, IsDraft, Row, Exists
    <2>4. plan'[c] # None /\ plan'[c] = Submitted(c)
      BY <2>1, <2>2, NoneAssumption DEF Base, TypeOK
    <2> QED BY <1>1, <2>1, <2>2, <2>3, <2>4, StatementKeeps
            DEF Base, TypeOK, Drafting, Binding, Publishing, InSession
  <1>3. CASE ~Exists(k, v)
    BY <1>1, <1>3, RefuseKeeps DEF SelectForUpdate, Outcomes
  <1> QED BY <1>2, <1>3

LEMMA ValidateAndPinKeeps ==
    ASSUME Base, NEW c \in Clients, ValidateAndPin(c) PROVE Base'
  <1>1. job[c] # None /\ pc[c] = "resolve" /\ plan[c] \in Configs
    BY JobPresent
    DEF ValidateAndPin, Base, TypeOK, JobsFit, JobFits, Publishing
  <1>2. CASE IsDraft(c) /\ Valid(plan[c]) /\ CanPin(plan[c].prompt)
    <2>1. /\ plan' = [plan EXCEPT ![c].prompt = Pinned(plan[c].prompt)]
          /\ Goto(c, "update")
          /\ UNCHANGED <<defs, bindings, label, advisory, rowLock, job, outcome>>
      BY <1>2 DEF ValidateAndPin, dbVars
    <2>2. [plan[c] EXCEPT !.prompt = Pinned(plan[c].prompt)] \in Configs
      BY <1>1, <1>2, PinnedIsFixed DEF Base, Configs
    <2>3. HoldsItsRow(c)'
      BY <1>1, <1>2, <2>1 DEF Base, RowsAreHeld, HoldsItsRow, IsDraft, Row, Exists, Publishing
    <2>4. /\ plan' = [plan EXCEPT ![c] = [plan[c] EXCEPT !.prompt = Pinned(plan[c].prompt)]]
          /\ plan'[c] # None
      BY <2>1, <2>2, NoneAssumption DEF Base, TypeOK
    <2> QED BY <1>1, <2>1, <2>2, <2>3, <2>4, StatementKeeps
            DEF Base, TypeOK, Drafting, Binding, Publishing, InSession
  <1>3. CASE ~(IsDraft(c) /\ Valid(plan[c]) /\ CanPin(plan[c].prompt))
    BY <1>1, <1>3, RefuseKeeps DEF ValidateAndPin, Outcomes
  <1> QED BY <1>2, <1>3

(* The row it writes is its own: whoever else is publishing holds another. *)
LEMMA UpdatePublishedKeeps ==
    ASSUME Base, NEW c \in Clients, UpdatePublished(c) PROVE Base'
  <1> DEFINE k == job[c].key
             v == job[c].version
             row == [status |-> "published", config |-> plan[c]]
             next == IF job[c].op = "release" THEN "bind" ELSE "idle"
  <1>1. /\ job[c] # None /\ k \in AgentKeys /\ v \in Nat /\ pc[c] = "update"
        /\ plan[c] \in Configs
        /\ rowLock[c] = <<k, v>> /\ v \in DOMAIN defs[k]
    BY JobPresent DEF UpdatePublished, Base, TypeOK, JobsFit, JobFits, Publishing,
       RowsAreHeld, HoldsItsRow, IsDraft, Row, Exists
  <1>2. /\ defs' = [defs EXCEPT ![k] = [defs[k] EXCEPT ![v] = row]]
        /\ Commit(c, next)
        /\ UNCHANGED <<bindings, label>>
    BY <1>1 DEF UpdatePublished, Base, TypeOK
  <1>3. defs[k] \in Seq(Rows) /\ row \in Rows
    BY <1>1 DEF Base, TypeOK, Rows
  <1>4. /\ defs' \in [AgentKeys -> Seq(Rows)]
        /\ \A kk \in AgentKeys : DOMAIN defs'[kk] = DOMAIN defs[kk]
        /\ \A kk \in AgentKeys : \A vv \in DOMAIN defs[kk] :
              <<kk, vv>> # <<k, v>> => defs'[kk][vv] = defs[kk][vv]
    BY <1>1, <1>2, <1>3, ReplaceRow DEF Base, TypeOK
  <1>5. \A d \in Clients \ {c} : pc[d] \in Publishing =>
            /\ job[d].version \in DOMAIN defs'[job[d].key]
            /\ pc[d] = "update" => defs'[job[d].key][job[d].version].status = "draft"
    <2> SUFFICES ASSUME NEW d \in Clients \ {c}, pc[d] \in Publishing
                 PROVE  /\ job[d].version \in DOMAIN defs'[job[d].key]
                        /\ pc[d] = "update" => defs'[job[d].key][job[d].version].status = "draft"
      OBVIOUS
    <2>1. /\ rowLock[d] = <<job[d].key, job[d].version>>
          /\ job[d].key \in AgentKeys
          /\ job[d].version \in DOMAIN defs[job[d].key]
          /\ pc[d] = "update" => defs[job[d].key][job[d].version].status = "draft"
      BY JobPresent DEF Base, RowsAreHeld, HoldsItsRow, IsDraft, Row, Exists, Publishing
    <2>2. rowLock[d] # rowLock[c]
      BY <1>1, NoneAssumption DEF Base, OneHolder
    <2> QED BY <1>1, <1>4, <2>1, <2>2
  <1>6. PICK place \in {"idle", "publish", "bind"}, result \in Outcomes :
          EndSession(c, place, result) /\ place \in {"idle", next}
    BY <1>2, CommitEnds
  <1>7. place = "bind" => job[c].environment # None
    BY <1>1, <1>6 DEF Base, JobsFit, JobFits
  <1> QED BY <1>1, <1>2, <1>4, <1>5, <1>6, <1>7, EndSessionKeeps DEF Base, TypeOK

LEMMA CheckPublishedKeeps ==
    ASSUME Base, NEW c \in Clients, CheckPublished(c) PROVE Base'
  <1> DEFINE ok == /\ Exists(job[c].key, job[c].version)
                   /\ defs[job[c].key][job[c].version].status = "published"
  <1>1. job[c] # None /\ pc[c] = "check"
    BY JobPresent DEF CheckPublished
  <1>2. CASE ok
    <2>1. /\ Goto(c, "upsert")
          /\ UNCHANGED <<defs, bindings, label, advisory, rowLock, job, plan, outcome>>
      BY <1>2 DEF CheckPublished, dbVars
    <2>2. HoldsItsRow(c)'
      BY <2>1 DEF HoldsItsRow, IsDraft, Publishing, Goto, Base, TypeOK
    <2> QED BY <1>1, <2>1, <2>2, StatementKeeps
            DEF Base, TypeOK, Drafting, Binding, Publishing, InSession
  <1>3. CASE ~ok
    BY <1>1, <1>3, RefuseKeeps DEF CheckPublished, Outcomes
  <1> QED BY <1>2, <1>3

LEMMA UpsertBindingKeeps ==
    ASSUME Base, NEW c \in Clients, UpsertBinding(c) PROVE Base'
  <1>1. /\ job[c] # None /\ job[c].version \in Nat /\ pc[c] = "upsert"
        /\ <<job[c].key, job[c].environment>> \in AgentKeys \X Environments
    BY JobPresent DEF UpsertBinding, Base, JobsFit, JobFits, Binding, Jobs
  <1>2. /\ bindings' \in [AgentKeys \X Environments -> Nat]
        /\ Commit(c, "idle") /\ UNCHANGED <<defs, label>>
    BY <1>1 DEF UpsertBinding, Base, TypeOK
  <1>3. \A d \in Clients \ {c} : pc[d] \in Publishing =>
            /\ job[d].version \in DOMAIN defs'[job[d].key]
            /\ pc[d] = "update" => defs'[job[d].key][job[d].version].status = "draft"
    BY <1>2 DEF Base, RowsAreHeld, HoldsItsRow, IsDraft, Exists
  <1>4. PICK result \in Outcomes : EndSession(c, "idle", result)
    BY <1>2, CommitEnds
  <1> QED BY <1>1, <1>2, <1>3, <1>4, EndSessionKeeps DEF Base, TypeOK

LEMMA BaseStep == Base /\ [Next]_vars => Base'
  <1> SUFFICES ASSUME Base, [Next]_vars PROVE Base'
    OBVIOUS
  <1>1. ASSUME NEW c \in Clients, Calls(c) PROVE Base'
    BY <1>1, CallKeeps
  <1>2. ASSUME NEW c \in Clients, Statement(c) PROVE Base'
    BY <1>2, ConnectKeeps, TakeDraftLockKeeps, NextVersionKeeps, InsertDraftKeeps,
       SelectForUpdateKeeps, ValidateAndPinKeeps, UpdatePublishedKeeps,
       CheckPublishedKeeps, UpsertBindingKeeps DEF Statement
  <1>3. ASSUME NEW c \in Clients, PoolTimeout(c) PROVE Base'
    BY <1>3, JobPresent, RefuseKeeps DEF PoolTimeout, Outcomes, Queued
  <1>4. ASSUME NEW c \in Clients, Abort(c) PROVE Base'
    BY <1>4, JobPresent, RefuseKeeps DEF Abort, Outcomes
  <1>5. CASE EditPrompt
    BY <1>5 DEF EditPrompt, dbVars, clientVars, Base, TypeOK, JobsFit, JobFits,
       RowsAreHeld, HoldsItsRow, IsDraft, Row, Exists, OneHolder
  <1>6. CASE UNCHANGED vars
    BY <1>6 DEF vars, clientVars, Base, TypeOK, JobsFit, JobFits,
       RowsAreHeld, HoldsItsRow, IsDraft, Row, Exists, OneHolder
  <1> QED BY <1>1, <1>2, <1>3, <1>4, <1>5, <1>6 DEF Next

THEOREM BaseAlways == Spec => []Base
  <1>1. Init => Base
    BY TypeInit DEF Base
  <1> QED BY <1>1, BaseStep, PTL DEF Spec

(* Every variable keeps its type. *)
THEOREM TypeCorrect == Spec => []TypeOK
  BY BaseAlways, PTL DEF Base

-----------------------------------------------------------------------------
(* What a step does to the tables *)

LEMMA InsertEffect ==
    ASSUME Base, NEW c \in Clients, InsertDraft(c)
    PROVE  /\ UNCHANGED bindings
           /\ \A k \in AgentKeys :
                 \/ defs'[k] = defs[k]
                 \/ /\ DOMAIN defs'[k] = DOMAIN defs[k] \cup {Len(defs[k]) + 1}
                    /\ Len(defs[k]) + 1 \notin DOMAIN defs[k]
                    /\ defs'[k][Len(defs[k]) + 1] =
                          [status |-> "draft", config |-> job[c].config]
                    /\ \A v \in DOMAIN defs[k] : defs'[k][v] = defs[k][v]
  <1> DEFINE k == job[c].key
             row == [status |-> "draft", config |-> job[c].config]
  <1>1. /\ k \in AgentKeys /\ job[c].config \in Configs
    BY JobPresent DEF InsertDraft, Base, JobsFit, JobFits, Drafting, Jobs
  <1>2. CASE Exists(k, job[c].version)
    BY <1>2 DEF InsertDraft, Refuse, dbVars
  <1>3. CASE ~Exists(k, job[c].version)
    <2>1. UNCHANGED bindings /\ defs' = [defs EXCEPT ![k] = Append(@, row)]
      BY <1>3 DEF InsertDraft
    <2>2. defs[k] \in Seq(Rows) /\ row \in Rows
      BY <1>1 DEF Base, TypeOK, Rows
    <2>3. Len(defs[k]) + 1 \notin DOMAIN defs[k]
      BY <2>2, LenProperties
    <2> QED BY <1>1, <2>1, <2>2, <2>3, AppendRow DEF Base, TypeOK
  <1> QED BY <1>2, <1>3

LEMMA UpdateEffect ==
    ASSUME Base, NEW c \in Clients, UpdatePublished(c)
    PROVE  /\ UNCHANGED bindings
           /\ job[c].key \in AgentKeys /\ pc[c] = "update" /\ plan[c] \in Configs
           /\ job[c].version \in DOMAIN defs[job[c].key]
           /\ defs[job[c].key][job[c].version].status = "draft"
           /\ defs'[job[c].key][job[c].version] =
                 [status |-> "published", config |-> plan[c]]
           /\ \A k \in AgentKeys :
                 /\ DOMAIN defs'[k] = DOMAIN defs[k]
                 /\ \A v \in DOMAIN defs[k] :
                       <<k, v>> # Row(c) => defs'[k][v] = defs[k][v]
  <1> DEFINE k == job[c].key
             v == job[c].version
             row == [status |-> "published", config |-> plan[c]]
  <1>1. /\ k \in AgentKeys /\ pc[c] = "update" /\ plan[c] \in Configs
        /\ v \in DOMAIN defs[k] /\ defs[k][v].status = "draft"
    BY JobPresent DEF UpdatePublished, Base, TypeOK, JobsFit, JobFits, Publishing,
       RowsAreHeld, HoldsItsRow, IsDraft, Exists
  <1>2. /\ defs' = [defs EXCEPT ![k] = [defs[k] EXCEPT ![v] = row]]
        /\ UNCHANGED bindings
    BY <1>1 DEF UpdatePublished, Base, TypeOK
  <1>3. defs[k] \in Seq(Rows) /\ row \in Rows
    BY <1>1 DEF Base, TypeOK, Rows
  <1> QED BY <1>1, <1>2, <1>3, ReplaceRow DEF Base, TypeOK, Row

LEMMA UpsertEffect ==
    ASSUME Base, NEW c \in Clients, UpsertBinding(c)
    PROVE  /\ UNCHANGED defs
           /\ pc[c] = "upsert" /\ job[c] \in Jobs
           /\ job[c].key \in AgentKeys /\ job[c].environment \in Environments
           /\ bindings' = [bindings EXCEPT ![<<job[c].key, job[c].environment>>] =
                                             job[c].version]
  BY JobPresent DEF UpsertBinding, Base, JobsFit, JobFits, Binding, Jobs

(* Only three statements write. *)
LEMMA OnlyWriters ==
    ASSUME Base, [Next]_vars,
           ~ \E c \in Clients : InsertDraft(c) \/ UpdatePublished(c) \/ UpsertBinding(c)
    PROVE  UNCHANGED <<defs, bindings>>
  BY DEF Next, vars, dbVars, Calls, CallCreateDraft, CallPublish, CallBind,
     CallRelease, Call, Statement, Connect, TakeDraftLock, NextVersion,
     SelectForUpdate, ValidateAndPin, CheckPublished, PoolTimeout, Abort,
     Refuse, EditPrompt

(* A row stays as it is, except that a draft may become what a publication *)
(* that holds it was about to write.                                       *)
LEMMA RowStep ==
    ASSUME Base, [Next]_vars, NEW k \in AgentKeys, NEW v \in DOMAIN defs[k]
    PROVE  /\ v \in DOMAIN defs'[k]
           /\ \/ defs'[k][v] = defs[k][v]
              \/ /\ defs[k][v].status = "draft"
                 /\ \E c \in Clients :
                       /\ UpdatePublished(c) /\ Row(c) = <<k, v>>
                       /\ defs'[k][v] = [status |-> "published", config |-> plan[c]]
  <1>1. CASE \E c \in Clients : InsertDraft(c)
    BY <1>1, InsertEffect
  <1>2. CASE \E c \in Clients : UpdatePublished(c)
    <2>1. PICK c \in Clients : UpdatePublished(c)
      BY <1>2
    <2>2. CASE Row(c) = <<k, v>>
      BY <2>1, <2>2, UpdateEffect DEF Row
    <2>3. CASE Row(c) # <<k, v>>
      BY <2>1, <2>3, UpdateEffect
    <2> QED BY <2>2, <2>3
  <1>3. CASE \E c \in Clients : UpsertBinding(c)
    BY <1>3, UpsertEffect
  <1> QED BY <1>1, <1>2, <1>3, OnlyWriters

(* A published version never changes again (R-REG-1): the row lock keeps a *)
(* second publication from starting on the draft the first one writes.     *)
THEOREM PublishedVersionsNeverChange == Spec => PublishedNeverChanges
  <1>1. ASSUME Base, [Next]_vars
        PROVE  \A k \in AgentKeys : \A v \in Published(k) :
                  v \in DOMAIN defs'[k] /\ defs'[k][v] = defs[k][v]
    <2> SUFFICES ASSUME NEW k \in AgentKeys, NEW v \in Published(k)
                 PROVE  v \in DOMAIN defs'[k] /\ defs'[k][v] = defs[k][v]
      OBVIOUS
    <2>1. v \in DOMAIN defs[k] /\ defs[k][v].status = "published"
      BY DEF Published
    <2> QED BY <1>1, <2>1, RowStep
  <1> QED BY <1>1, BaseAlways, PTL DEF PublishedNeverChanges, Spec

-----------------------------------------------------------------------------
(* What runs is a release *)

PlansAreReleases == \A c \in Clients : pc[c] = "update" => plan[c] \in Releases

PublishedAreReleases ==
    \A k \in AgentKeys : \A v \in Published(k) : defs[k][v].config \in Releases

CheckedArePublished ==
    \A c \in Clients : pc[c] = "upsert" => job[c].version \in Published(job[c].key)

BoundArePublished ==
    \A ke \in AgentKeys \X Environments :
        bindings[ke] # 0 => bindings[ke] \in Published(ke[1])

(* bind checks a status and writes later: the check stays true meanwhile   *)
(* because published rows never change.                                    *)
LiveInv == /\ Base /\ PlansAreReleases /\ PublishedAreReleases
           /\ CheckedArePublished /\ BoundArePublished

Step(c) == Calls(c) \/ Statement(c) \/ PoolTimeout(c) \/ Abort(c)

(* A step of one client leaves the variables of the others alone. *)
LEMMA OneClientSteps ==
    ASSUME Base, [Next]_vars, NEW c \in Clients, ~Step(c)
    PROVE  /\ pc'[c] = pc[c] /\ job'[c] = job[c] /\ plan'[c] = plan[c]
           /\ outcome'[c] = outcome[c] /\ advisory'[c] = advisory[c]
  <1>1. CASE UNCHANGED vars
    BY <1>1 DEF vars, clientVars
  <1>2. CASE EditPrompt
    BY <1>2 DEF EditPrompt, clientVars
  <1>3. ASSUME NEW d \in Clients, Step(d), d # c
        PROVE  /\ pc'[c] = pc[c] /\ job'[c] = job[c] /\ plan'[c] = plan[c]
               /\ outcome'[c] = outcome[c] /\ advisory'[c] = advisory[c]
    <2>1. ASSUME NEW place, NEW result, EndSession(d, place, result)
          PROVE  /\ pc'[c] = pc[c] /\ job'[c] = job[c] /\ plan'[c] = plan[c]
                 /\ outcome'[c] = outcome[c] /\ advisory'[c] = advisory[c]
      BY <1>3, <2>1 DEF EndSession, Goto, Base, TypeOK
    <2>2. ASSUME NEW place, Commit(d, place)
          PROVE  /\ pc'[c] = pc[c] /\ job'[c] = job[c] /\ plan'[c] = plan[c]
                 /\ outcome'[c] = outcome[c] /\ advisory'[c] = advisory[c]
      BY <2>1, <2>2 DEF Commit
    <2>3. ASSUME NEW result, Refuse(d, result)
          PROVE  /\ pc'[c] = pc[c] /\ job'[c] = job[c] /\ plan'[c] = plan[c]
                 /\ outcome'[c] = outcome[c] /\ advisory'[c] = advisory[c]
      BY <2>1, <2>3 DEF Refuse
    <2>4. CASE Calls(d)
      <3>1. PICK j, place : Call(d, j, place)
        BY <2>4 DEF Calls, CallCreateDraft, CallPublish, CallBind, CallRelease
      <3> QED BY <1>3, <3>1 DEF Call, Goto, Base, TypeOK
    <2>5. CASE Connect(d) \/ TakeDraftLock(d) \/ NextVersion(d)
      BY <1>3, <2>5 DEF Connect, TakeDraftLock, NextVersion, Goto, Base, TypeOK
    <2>6. CASE InsertDraft(d)
      BY <2>2, <2>3, <2>6 DEF InsertDraft
    <2>7. CASE SelectForUpdate(d)
      BY <1>3, <2>3, <2>7 DEF SelectForUpdate, Goto, Base, TypeOK
    <2>8. CASE ValidateAndPin(d)
      BY <1>3, <2>3, <2>8 DEF ValidateAndPin, Goto, Base, TypeOK
    <2>9. CASE UpdatePublished(d)
      BY <2>2, <2>9 DEF UpdatePublished
    <2>10. CASE CheckPublished(d)
      BY <1>3, <2>3, <2>10 DEF CheckPublished, Goto, Base, TypeOK
    <2>11. CASE UpsertBinding(d)
      BY <2>2, <2>11 DEF UpsertBinding
    <2>12. CASE PoolTimeout(d) \/ Abort(d)
      BY <2>3, <2>12 DEF PoolTimeout, Abort
    <2> QED BY <1>3, <2>4, <2>5, <2>6, <2>7, <2>8, <2>9, <2>10, <2>11, <2>12
            DEF Step, Statement
  <1> QED BY <1>1, <1>2, <1>3 DEF Next, Step

(* Leaving a session never leads into the middle of another. *)
LEMMA LeavesToWait ==
    ASSUME Base, NEW c \in Clients,
           \/ \E place \in {"idle", "publish", "bind"} : Commit(c, place)
           \/ \E result \in Outcomes : Refuse(c, result)
    PROVE  pc'[c] \in {"idle", "publish", "bind"}
  BY DEF Commit, Refuse, EndSession, Goto, Base, TypeOK

(* Where a client is after its own step, by the step that took it there. *)
LEMMA StepsInto ==
    ASSUME Base, NEW c \in Clients, Step(c)
    PROVE  /\ \/ pc'[c] \in {"idle", "publish", "bind"}
              \/ Calls(c) \/ Connect(c) \/ TakeDraftLock(c) \/ NextVersion(c)
              \/ (SelectForUpdate(c) /\ pc'[c] = "resolve")
              \/ (ValidateAndPin(c) /\ pc'[c] = "update")
              \/ (CheckPublished(c) /\ pc'[c] = "upsert")
           /\ Calls(c) => pc'[c] \in Queued
           /\ Connect(c) => pc'[c] \in {"lock", "select", "check"}
           /\ TakeDraftLock(c) => pc'[c] = "number"
           /\ NextVersion(c) => pc'[c] = "insert"
  <1>1. InsertDraft(c) => pc'[c] \in {"idle", "publish", "bind"}
    BY LeavesToWait DEF InsertDraft, Outcomes
  <1>2. UpdatePublished(c) => pc'[c] \in {"idle", "publish", "bind"}
    BY LeavesToWait DEF UpdatePublished
  <1>3. UpsertBinding(c) => pc'[c] \in {"idle", "publish", "bind"}
    BY LeavesToWait DEF UpsertBinding
  <1>4. PoolTimeout(c) \/ Abort(c) => pc'[c] \in {"idle", "publish", "bind"}
    BY LeavesToWait DEF PoolTimeout, Abort, Outcomes
  <1>5. SelectForUpdate(c) => pc'[c] \in {"idle", "publish", "bind", "resolve"}
    BY LeavesToWait DEF SelectForUpdate, Outcomes, Goto, Base, TypeOK
  <1>6. ValidateAndPin(c) => pc'[c] \in {"idle", "publish", "bind", "update"}
    BY LeavesToWait DEF ValidateAndPin, Outcomes, Goto, Base, TypeOK
  <1>7. CheckPublished(c) => pc'[c] \in {"idle", "publish", "bind", "upsert"}
    BY LeavesToWait DEF CheckPublished, Outcomes, Goto, Base, TypeOK
  <1>8. /\ Calls(c) => pc'[c] \in Queued
        /\ Connect(c) => pc'[c] \in {"lock", "select", "check"}
        /\ TakeDraftLock(c) => pc'[c] = "number"
        /\ NextVersion(c) => pc'[c] = "insert"
    BY DEF Calls, CallCreateDraft, CallPublish, CallBind, CallRelease, Call,
           Connect, TakeDraftLock, NextVersion, Goto, Queued, Base, TypeOK
  <1> QED BY <1>1, <1>2, <1>3, <1>4, <1>5, <1>6, <1>7, <1>8 DEF Step, Statement

LEMMA ReachesUpdate ==
    ASSUME Base, [Next]_vars, NEW c \in Clients, pc'[c] = "update"
    PROVE  \/ pc[c] = "update" /\ plan'[c] = plan[c]
           \/ /\ pc[c] = "resolve" /\ ValidateAndPin(c)
              /\ Valid(plan[c]) /\ CanPin(plan[c].prompt)
              /\ plan' = [plan EXCEPT ![c].prompt = Pinned(plan[c].prompt)]
  <1>1. ASSUME ValidateAndPin(c)
        PROVE  /\ pc[c] = "resolve"
               /\ Valid(plan[c]) /\ CanPin(plan[c].prompt)
               /\ plan' = [plan EXCEPT ![c].prompt = Pinned(plan[c].prompt)]
    BY <1>1, LeavesToWait DEF ValidateAndPin, Outcomes
  <1> QED BY <1>1, OneClientSteps, StepsInto DEF Queued

LEMMA ReachesUpsert ==
    ASSUME Base, [Next]_vars, NEW c \in Clients, pc'[c] = "upsert"
    PROVE  /\ job'[c] = job[c]
           /\ \/ pc[c] = "upsert"
              \/ /\ pc[c] = "check" /\ UNCHANGED defs
                 /\ Exists(job[c].key, job[c].version)
                 /\ defs[job[c].key][job[c].version].status = "published"
  <1>1. ASSUME CheckPublished(c)
        PROVE  /\ pc[c] = "check" /\ UNCHANGED <<defs, job>>
               /\ Exists(job[c].key, job[c].version)
               /\ defs[job[c].key][job[c].version].status = "published"
    BY <1>1, LeavesToWait DEF CheckPublished, Outcomes, dbVars
  <1> QED BY <1>1, OneClientSteps, StepsInto DEF Queued

LEMMA PublishedStays ==
    ASSUME Base, [Next]_vars, NEW k \in AgentKeys, NEW v \in Published(k)
    PROVE  v \in Published(k)' /\ defs'[k][v] = defs[k][v]
  BY RowStep DEF Published

(* A version that becomes published holds what some publication pinned. *)
LEMMA NewlyPublished ==
    ASSUME Base, [Next]_vars, NEW k \in AgentKeys, NEW v \in Published(k)',
           v \notin Published(k)
    PROVE  \E c \in Clients : /\ UpdatePublished(c) /\ Row(c) = <<k, v>>
                              /\ defs'[k][v].config = plan[c]
  <1>1. CASE v \in DOMAIN defs[k]
    <2>1. /\ defs'[k][v].status = "published"
          /\ defs[k][v].status # "published"
      BY <1>1 DEF Published
    <2>2. PICK c \in Clients :
            /\ UpdatePublished(c) /\ Row(c) = <<k, v>>
            /\ defs'[k][v] = [status |-> "published", config |-> plan[c]]
      BY <1>1, <2>1, RowStep
    <2> QED BY <2>2
  <1>2. CASE v \notin DOMAIN defs[k]
    <2>1. CASE \E c \in Clients : InsertDraft(c)
      <3>1. v \in DOMAIN defs'[k] /\ defs'[k][v].status = "published"
        BY DEF Published
      <3>2. PICK c \in Clients : InsertDraft(c)
        BY <2>1
      <3>3. CASE defs'[k] = defs[k]
        BY <1>2, <3>1, <3>3
      <3>4. CASE /\ DOMAIN defs'[k] = DOMAIN defs[k] \cup {Len(defs[k]) + 1}
                 /\ defs'[k][Len(defs[k]) + 1] =
                       [status |-> "draft", config |-> job[c].config]
        <4>1. v = Len(defs[k]) + 1
          BY <1>2, <3>1, <3>4
        <4>2. defs'[k][v].status = "draft"
          BY <3>4, <4>1
        <4> QED BY <3>1, <4>2
      <3>5. \/ defs'[k] = defs[k]
            \/ /\ DOMAIN defs'[k] = DOMAIN defs[k] \cup {Len(defs[k]) + 1}
               /\ defs'[k][Len(defs[k]) + 1] =
                       [status |-> "draft", config |-> job[c].config]
        BY <3>2, InsertEffect
      <3> QED BY <3>3, <3>4, <3>5
    <2>2. CASE \E c \in Clients : UpdatePublished(c)
      BY <1>2, <2>2, UpdateEffect DEF Published
    <2>3. CASE \E c \in Clients : UpsertBinding(c)
      BY <1>2, <2>3, UpsertEffect DEF Published
    <2> QED BY <1>2, <2>1, <2>2, <2>3, OnlyWriters DEF Published
  <1> QED BY <1>1, <1>2

LEMMA LiveInit == Init => LiveInv
  <1> SUFFICES ASSUME Init PROVE LiveInv
    OBVIOUS
  <1>1. Base
    BY TypeInit DEF Base
  <1>2. PlansAreReleases /\ CheckedArePublished /\ BoundArePublished
    BY DEF Init, PlansAreReleases, CheckedArePublished, BoundArePublished
  <1>3. ASSUME NEW k \in AgentKeys PROVE Published(k) = {}
    <2>1. defs[k] \in Seq([status : {"archived"}, config : Configs])
      BY ConstantsAssumption DEF Init
    <2>2. \A v \in DOMAIN defs[k] : defs[k][v] \in [status : {"archived"}, config : Configs]
      BY <2>1, ElementOfSeq, LenProperties
    <2> QED BY <2>2 DEF Published
  <1> QED BY <1>1, <1>2, <1>3 DEF LiveInv, PublishedAreReleases

LEMMA LiveStep == LiveInv /\ [Next]_vars => LiveInv'
  <1> SUFFICES ASSUME LiveInv, [Next]_vars PROVE LiveInv'
    OBVIOUS
  <1> USE DEF LiveInv
  <1>1. Base'
    BY BaseStep
  <1>2. PlansAreReleases'
    <2> SUFFICES ASSUME NEW c \in Clients, pc'[c] = "update"
                 PROVE  plan'[c] \in Releases
      BY DEF PlansAreReleases, Releases, Valid
    <2>1. CASE pc[c] = "update" /\ plan'[c] = plan[c]
      BY <2>1 DEF PlansAreReleases
    <2>2. CASE /\ pc[c] = "resolve" /\ ValidateAndPin(c)
               /\ Valid(plan[c]) /\ CanPin(plan[c].prompt)
               /\ plan' = [plan EXCEPT ![c].prompt = Pinned(plan[c].prompt)]
      <3>1. plan[c] \in Configs
        BY <2>2 DEF Base, TypeOK, JobsFit, JobFits, Publishing
      <3>2. plan'[c] = [plan[c] EXCEPT !.prompt = Pinned(plan[c].prompt)]
        BY <2>2, <3>1 DEF Base, TypeOK
      <3>3. /\ Pinned(plan[c].prompt) \in Refs /\ Pinned(plan[c].prompt).kind # "label"
            /\ Pinned(plan[c].prompt).kind = "version" => Pinned(plan[c].prompt).text \in Usable
        BY <2>2, <3>1, PinnedIsFixed DEF Base, Configs
      <3> QED BY <2>2, <3>1, <3>2, <3>3 DEF Configs, Releases, Valid
    <2> QED BY <2>1, <2>2, ReachesUpdate
  <1>3. PublishedAreReleases'
    <2> SUFFICES ASSUME NEW k \in AgentKeys, NEW v \in Published(k)'
                 PROVE  defs'[k][v].config \in Releases
      BY DEF PublishedAreReleases, Releases, Valid
    <2>1. CASE v \in Published(k)
      BY <2>1, PublishedStays DEF PublishedAreReleases
    <2>2. CASE v \notin Published(k)
      BY <2>2, NewlyPublished, UpdateEffect DEF PlansAreReleases
    <2> QED BY <2>1, <2>2
  <1>4. CheckedArePublished'
    <2> SUFFICES ASSUME NEW c \in Clients, pc'[c] = "upsert"
                 PROVE  (job[c].version \in Published(job[c].key))'
      BY DEF CheckedArePublished
    <2>1. job'[c] = job[c] /\ job[c].version \in Published(job[c].key)
      BY ReachesUpsert DEF CheckedArePublished, Published, Exists
    <2>2. job[c].key \in AgentKeys
      <3>1. pc[c] # "idle"
        BY ReachesUpsert
      <3> QED BY <3>1, JobPresent
    <2>3. /\ job[c].version \in DOMAIN defs'[job[c].key]
          /\ defs'[job[c].key][job[c].version].status = "published"
      BY <2>1, <2>2, RowStep DEF Published
    <2> QED BY <2>1, <2>3 DEF Published
  <1>5. BoundArePublished'
    <2> SUFFICES ASSUME NEW ke \in AgentKeys \X Environments, bindings'[ke] # 0
                 PROVE  bindings'[ke] \in Published(ke[1])'
      BY DEF BoundArePublished
    <2>1. bindings'[ke] \in Published(ke[1])
      <3>1. CASE \E c \in Clients : UpsertBinding(c)
        <4>1. PICK c \in Clients : UpsertBinding(c)
          BY <3>1
        <4>2. CASE ke = <<job[c].key, job[c].environment>>
          BY <4>1, <4>2, UpsertEffect DEF Base, TypeOK, CheckedArePublished
        <4>3. CASE ke # <<job[c].key, job[c].environment>>
          BY <4>1, <4>3, UpsertEffect DEF Base, TypeOK, BoundArePublished
        <4> QED BY <4>2, <4>3
      <3>2. CASE ~ \E c \in Clients : UpsertBinding(c)
        BY <3>2, InsertEffect, UpdateEffect, OnlyWriters DEF BoundArePublished
      <3> QED BY <3>1, <3>2
    <2> QED BY <2>1, PublishedStays
  <1> QED BY <1>1, <1>2, <1>3, <1>4, <1>5

THEOREM LiveAlways == Spec => []LiveInv
  BY LiveInit, LiveStep, PTL DEF Spec

(* An environment never runs a draft, an archived version, an unvalidated  *)
(* configuration or a moving prompt (R-REG-3, R-REG-8).                    *)
THEOREM LiveIsAlwaysARelease == Spec => []LiveIsARelease
  <1>1. LiveInv => LiveIsARelease
    BY DEF LiveInv, LiveIsARelease, BoundArePublished, PublishedAreReleases
  <1> QED BY <1>1, LiveAlways, PTL

-----------------------------------------------------------------------------
(* Drafts are numbered one at a time *)

(* A client that numbers a draft holds the agent's draft lock, ... *)
DraftLockIsHeld ==
    \A c \in Clients : pc[c] \in {"number", "insert"} => advisory[c] = job[c].key

(* ... which nobody else holds, ... *)
OneDrafter ==
    \A c, d \in Clients : advisory[c] # None /\ advisory[c] = advisory[d] => c = d

(* ... so the number it has picked stays the next one. *)
NumberStaysNext ==
    \A c \in Clients : pc[c] = "insert" => job[c].version = Len(defs[job[c].key]) + 1

DraftInv == Base /\ DraftLockIsHeld /\ OneDrafter /\ NumberStaysNext /\ DraftsNeverCollide

(* Only an insertion makes the history of an agent longer. *)
LEMMA HistoryGrowsByInsertion ==
    ASSUME Base, [Next]_vars, NEW k \in AgentKeys
    PROVE  \/ Len(defs'[k]) = Len(defs[k])
           \/ \E c \in Clients : InsertDraft(c) /\ job[c].key = k
  <1>1. CASE \E c \in Clients : InsertDraft(c)
    <2>1. PICK c \in Clients : InsertDraft(c)
      BY <1>1
    <2>2. CASE job[c].key # k
      <3>1. defs'[k] = defs[k]
        BY <2>1, <2>2 DEF InsertDraft, Refuse, dbVars, Base, TypeOK
      <3> QED BY <3>1
    <2> QED BY <2>1, <2>2
  <1>2. CASE \E c \in Clients : UpdatePublished(c)
    <2>1. PICK c \in Clients : UpdatePublished(c)
      BY <1>2
    <2>2. /\ DOMAIN defs'[k] = DOMAIN defs[k]
          /\ defs[k] \in Seq(Rows) /\ defs'[k] \in Seq(Rows)
      BY <2>1, UpdateEffect, BaseStep DEF Base, TypeOK
    <2> QED BY <2>2, LenProperties
  <1>3. CASE \E c \in Clients : UpsertBinding(c)
    BY <1>3, UpsertEffect
  <1> QED BY <1>1, <1>2, <1>3, OnlyWriters

(* The lock of a client goes with its session, and is taken by one step. *)
LEMMA DraftLockSteps ==
    ASSUME Base, NEW c \in Clients, Step(c)
    PROVE  advisory'[c] \in {advisory[c], None} \/ TakeDraftLock(c)
  <1>1. ASSUME NEW place, NEW result, EndSession(c, place, result)
        PROVE  advisory'[c] = None
    BY <1>1 DEF EndSession, Base, TypeOK
  <1>2. ASSUME NEW place, Commit(c, place) PROVE advisory'[c] = None
    BY <1>1, <1>2 DEF Commit
  <1>3. ASSUME NEW result, Refuse(c, result) PROVE advisory'[c] = None
    BY <1>1, <1>3 DEF Refuse
  <1>4. CASE Calls(c)
    BY <1>4 DEF Calls, CallCreateDraft, CallPublish, CallBind, CallRelease, Call
  <1>5. CASE Connect(c) \/ NextVersion(c)
    BY <1>5 DEF Connect, NextVersion
  <1>6. CASE InsertDraft(c) \/ UpdatePublished(c) \/ UpsertBinding(c)
    BY <1>2, <1>3, <1>6 DEF InsertDraft, UpdatePublished, UpsertBinding
  <1>7. CASE SelectForUpdate(c) \/ ValidateAndPin(c) \/ CheckPublished(c)
    BY <1>3, <1>7 DEF SelectForUpdate, ValidateAndPin, CheckPublished
  <1>8. CASE PoolTimeout(c) \/ Abort(c)
    BY <1>3, <1>8 DEF PoolTimeout, Abort
  <1> QED BY <1>4, <1>5, <1>6, <1>7, <1>8 DEF Step, Statement

(* A draft that is inserted has a number nobody used. *)
LEMMA InsertionsAreFree ==
    ASSUME DraftInv, NEW c \in Clients, InsertDraft(c)
    PROVE  ~Exists(job[c].key, job[c].version)
  <1>1. job[c].key \in AgentKeys /\ job[c].version = Len(defs[job[c].key]) + 1
    BY JobPresent DEF InsertDraft, DraftInv, NumberStaysNext, Jobs
  <1>2. defs[job[c].key] \in Seq(Rows)
    BY <1>1 DEF DraftInv, Base, TypeOK
  <1> QED BY <1>1, <1>2, LenProperties DEF Exists

LEMMA NoConflict ==
    ASSUME DraftInv, NEW c \in Clients, Step(c)
    PROVE  outcome'[c] # "conflict"
  <1>0. outcome[c] # "conflict" /\ outcome \in [Clients -> Outcomes]
    BY DEF DraftInv, DraftsNeverCollide, Base, TypeOK
  <1>1. ASSUME NEW place, NEW result, EndSession(c, place, result), result # "conflict"
        PROVE  outcome'[c] # "conflict"
    BY <1>0, <1>1 DEF EndSession
  <1>2. ASSUME NEW place, Commit(c, place) PROVE outcome'[c] # "conflict"
    BY <1>1, <1>2 DEF Commit
  <1>3. ASSUME NEW result, Refuse(c, result), result # "conflict"
        PROVE  outcome'[c] # "conflict"
    BY <1>1, <1>3 DEF Refuse
  <1>4. CASE Calls(c)
    BY <1>0, <1>4 DEF Calls, CallCreateDraft, CallPublish, CallBind, CallRelease, Call
  <1>5. CASE Connect(c) \/ TakeDraftLock(c) \/ NextVersion(c)
    BY <1>0, <1>5 DEF Connect, TakeDraftLock, NextVersion
  <1>6. CASE InsertDraft(c)
    BY <1>2, <1>6, InsertionsAreFree DEF InsertDraft
  <1>7. CASE UpdatePublished(c) \/ UpsertBinding(c)
    BY <1>2, <1>7 DEF UpdatePublished, UpsertBinding
  <1>8. CASE SelectForUpdate(c) \/ ValidateAndPin(c) \/ CheckPublished(c)
    BY <1>0, <1>3, <1>8 DEF SelectForUpdate, ValidateAndPin, CheckPublished
  <1>9. CASE PoolTimeout(c) \/ Abort(c)
    BY <1>3, <1>9 DEF PoolTimeout, Abort
  <1> QED BY <1>4, <1>5, <1>6, <1>7, <1>8, <1>9 DEF Step, Statement

(* A client comes to number a draft by taking the lock, and to insert it   *)
(* by picking the next number.                                             *)
LEMMA ReachesNumber ==
    ASSUME Base, [Next]_vars, NEW c \in Clients, pc'[c] \in {"number", "insert"}
    PROVE  \/ /\ pc'[c] = pc[c] /\ job'[c] = job[c] /\ advisory'[c] = advisory[c]
              /\ ~Step(c)
           \/ /\ TakeDraftLock(c) /\ pc'[c] = "number"
              /\ job'[c] = job[c] /\ advisory'[c] = job[c].key
           \/ /\ NextVersion(c) /\ pc[c] = "number" /\ UNCHANGED <<advisory, defs>>
              /\ job'[c] = [job[c] EXCEPT !.version = Len(defs[job[c].key]) + 1]
  <1>1. ASSUME TakeDraftLock(c)
        PROVE  pc'[c] = "number" /\ job'[c] = job[c] /\ advisory'[c] = job[c].key
    BY <1>1 DEF TakeDraftLock, Goto, Base, TypeOK
  <1>2. ASSUME NextVersion(c)
        PROVE  /\ pc[c] = "number" /\ UNCHANGED <<advisory, defs>>
               /\ job'[c] = [job[c] EXCEPT !.version = Len(defs[job[c].key]) + 1]
    BY <1>2 DEF NextVersion, dbVars, Base, TypeOK
  <1> QED BY <1>1, <1>2, OneClientSteps, StepsInto DEF Queued

LEMMA DraftStep == DraftInv /\ [Next]_vars => DraftInv'
  <1> SUFFICES ASSUME DraftInv, [Next]_vars PROVE DraftInv'
    OBVIOUS
  <1>0. Base
    BY DEF DraftInv
  <1>1. Base'
    BY BaseStep DEF DraftInv
  <1>2. DraftLockIsHeld'
    <2> SUFFICES ASSUME NEW c \in Clients, pc'[c] \in {"number", "insert"}
                 PROVE  advisory'[c] = job'[c].key
      BY DEF DraftLockIsHeld
    <2>1. CASE NextVersion(c) /\ pc[c] = "number" /\ UNCHANGED <<advisory, defs>>
               /\ job'[c] = [job[c] EXCEPT !.version = Len(defs[job[c].key]) + 1]
      <3>1. job[c] \in Jobs
        BY <2>1, JobPresent DEF DraftInv
      <3> QED BY <2>1, <3>1 DEF DraftInv, DraftLockIsHeld, Jobs
    <2> QED BY <1>0, <2>1, ReachesNumber DEF DraftInv, DraftLockIsHeld
  <1>3. OneDrafter'
    <2> SUFFICES ASSUME NEW c \in Clients, NEW d \in Clients, c # d,
                        advisory'[c] # None, advisory'[c] = advisory'[d]
                 PROVE  FALSE
      BY DEF OneDrafter
    <2>1. ASSUME NEW x \in Clients, NEW y \in Clients, TakeDraftLock(x), x # y
          PROVE  advisory'[x] # advisory'[y]
      BY <2>1 DEF TakeDraftLock, DraftInv, Base, TypeOK
    <2>2. ~TakeDraftLock(c) /\ ~TakeDraftLock(d)
      BY <2>1
    <2>3. advisory'[c] = advisory[c] /\ advisory'[d] = advisory[d]
      BY <1>0, <2>2, DraftLockSteps, OneClientSteps
    <2> QED BY <2>3 DEF DraftInv, OneDrafter
  <1>4. NumberStaysNext'
    <2> SUFFICES ASSUME NEW c \in Clients, pc'[c] = "insert"
                 PROVE  job'[c].version = Len(defs'[job'[c].key]) + 1
      BY DEF NumberStaysNext
    <2>1. CASE NextVersion(c) /\ pc[c] = "number" /\ UNCHANGED <<advisory, defs>>
               /\ job'[c] = [job[c] EXCEPT !.version = Len(defs[job[c].key]) + 1]
      <3>1. job[c] \in Jobs
        BY <2>1, JobPresent DEF DraftInv
      <3> QED BY <2>1, <3>1 DEF Jobs
    <2>2. CASE pc'[c] = pc[c] /\ job'[c] = job[c] /\ ~Step(c)
      <3>1. /\ job[c] \in Jobs /\ job[c].key \in AgentKeys
            /\ advisory[c] = job[c].key /\ advisory[c] # None
        BY <2>2, JobPresent, NoneAssumption DEF DraftInv, DraftLockIsHeld, Jobs
      <3>2. ASSUME NEW d \in Clients, InsertDraft(d), job[d].key = job[c].key
            PROVE  FALSE
        <4>1. d = c
          BY <3>1, <3>2 DEF InsertDraft, DraftInv, DraftLockIsHeld, OneDrafter
        <4> QED BY <2>2, <3>2, <4>1 DEF Step, Statement
      <3>3. Len(defs'[job[c].key]) = Len(defs[job[c].key])
        BY <1>0, <3>1, <3>2, HistoryGrowsByInsertion
      <3> QED BY <2>2, <3>3 DEF DraftInv, NumberStaysNext
    <2> QED BY <1>0, <2>1, <2>2, ReachesNumber
  <1>5. DraftsNeverCollide'
    BY <1>0, NoConflict, OneClientSteps DEF DraftsNeverCollide, DraftInv
  <1> QED BY <1>1, <1>2, <1>3, <1>4, <1>5 DEF DraftInv

THEOREM DraftsAlways == Spec => []DraftInv
  <1>1. Init => DraftInv
    BY TypeInit DEF Init, Base, DraftInv, DraftLockIsHeld, OneDrafter, NumberStaysNext,
       DraftsNeverCollide
  <1> QED BY <1>1, DraftStep, PTL DEF Spec

(* Two drafts of one agent never pick the same number, however many        *)
(* clients create them (R-REG-2).                                          *)
THEOREM DraftsNeverEverCollide == Spec => []DraftsNeverCollide
  <1>1. DraftInv => DraftsNeverCollide
    BY DEF DraftInv
  <1> QED BY <1>1, DraftsAlways, PTL

-----------------------------------------------------------------------------
(* Nobody waits in a circle *)

PoolIsFull == Cardinality({d \in Clients : pc[d] \in InSession}) >= PoolSize

(* Client d has what the next statement of client c waits for: a           *)
(* connection, the draft lock of the agent, or the lock of the row.        *)
HoldsUp(d, c) ==
    \/ pc[c] \in Queued /\ PoolIsFull /\ pc[d] \in InSession
    \/ pc[c] = "lock" /\ advisory[d] = job[c].key
    \/ pc[c] = "select" /\ rowLock[d] = Row(c)
    \/ /\ pc[c] = "upsert" /\ rowLock[d] = Row(c)
       /\ bindings[<<job[c].key, job[c].environment>>] # job[c].version

GoesOn(c) == \A d \in Clients : ~HoldsUp(d, c)

(* Whoever waits for a lock waits for a client that waits for nobody;      *)
(* whoever waits for the pool waits for one that goes on, or that waits    *)
(* for a lock.                                                             *)
WaitsAreShort ==
    \A c, d \in Clients : HoldsUp(d, c) =>
        \/ GoesOn(d)
        \/ pc[c] \in Queued /\ \A e \in Clients : HoldsUp(e, d) => GoesOn(e)

(* Locks are held at the places where a session asks for no other: that is *)
(* why.                                                                    *)
HoldsNoLockAndWaits(c) ==
    /\ advisory[c] # None => pc[c] \in {"number", "insert"}
    /\ rowLock[c] # None => pc[c] \in Publishing

HoldersGoOn == \A c \in Clients : HoldsNoLockAndWaits(c)

LEMMA EndSessionReleases ==
    ASSUME Base, HoldersGoOn, NEW c \in Clients, NEW place, NEW result,
           EndSession(c, place, result)
    PROVE  HoldersGoOn'
  BY DEF EndSession, Goto, HoldersGoOn, HoldsNoLockAndWaits, Base, TypeOK

LEMMA HoldersStep == Base /\ HoldersGoOn /\ [Next]_vars => HoldersGoOn'
  <1> SUFFICES ASSUME Base, HoldersGoOn, [Next]_vars PROVE HoldersGoOn'
    OBVIOUS
  <1> USE DEF HoldersGoOn, HoldsNoLockAndWaits
  <1>1. CASE UNCHANGED vars \/ EditPrompt
    BY <1>1 DEF vars, EditPrompt, clientVars
  <1>2. ASSUME NEW c \in Clients, Step(c) PROVE HoldersGoOn'
    <2>1. ASSUME NEW place, Commit(c, place) PROVE HoldersGoOn'
      BY <2>1, EndSessionReleases DEF Commit
    <2>2. ASSUME NEW result, Refuse(c, result) PROVE HoldersGoOn'
      BY <2>2, EndSessionReleases DEF Refuse
    <2>3. CASE Calls(c)
      <3>1. PICK j, place : Call(c, j, place)
        BY <2>3 DEF Calls, CallCreateDraft, CallPublish, CallBind, CallRelease
      <3> QED BY <3>1 DEF Call, Goto, Base, TypeOK, Publishing
    <2>4. CASE Connect(c)
      BY <2>4 DEF Connect, Goto, Queued, Publishing, Base, TypeOK
    <2>5. CASE TakeDraftLock(c)
      BY <2>5 DEF TakeDraftLock, Goto, Publishing, Base, TypeOK
    <2>6. CASE NextVersion(c)
      BY <2>6 DEF NextVersion, Goto, Publishing, Base, TypeOK
    <2>7. CASE InsertDraft(c) \/ UpdatePublished(c) \/ UpsertBinding(c)
      BY <2>1, <2>2, <2>7 DEF InsertDraft, UpdatePublished, UpsertBinding
    <2>8. CASE SelectForUpdate(c)
      BY <2>2, <2>8 DEF SelectForUpdate, Goto, Publishing, Base, TypeOK
    <2>9. CASE ValidateAndPin(c)
      BY <2>2, <2>9 DEF ValidateAndPin, Goto, Publishing, Base, TypeOK
    <2>10. CASE CheckPublished(c)
      BY <2>2, <2>10 DEF CheckPublished, Goto, Publishing, Base, TypeOK
    <2>11. CASE PoolTimeout(c) \/ Abort(c)
      BY <2>2, <2>11 DEF PoolTimeout, Abort
    <2> QED BY <1>2, <2>3, <2>4, <2>5, <2>6, <2>7, <2>8, <2>9, <2>10, <2>11 DEF Step, Statement
  <1> QED BY <1>1, <1>2 DEF Next, Step

(* A client that holds a lock waits for nobody. *)
LEMMA HoldersWaitForNobody ==
    ASSUME HoldersGoOn, NEW c \in Clients, advisory[c] # None \/ rowLock[c] # None
    PROVE  GoesOn(c)
  BY DEF HoldersGoOn, HoldsNoLockAndWaits, GoesOn, HoldsUp, Queued, Publishing

LEMMA LocksAreWaitedForBriefly ==
    ASSUME Base, HoldersGoOn, NEW c \in Clients, NEW d \in Clients, HoldsUp(d, c),
           pc[c] \notin Queued
    PROVE  GoesOn(d)
  <1>1. job[c] \in Jobs
    BY JobPresent DEF HoldsUp
  <1>2. job[c].key \in AgentKeys /\ job[c].version \in Nat
    BY <1>1 DEF Jobs
  <1>3. job[c].key # None /\ Row(c) # None
    BY <1>2, NoneAssumption DEF Row
  <1> QED BY <1>3, HoldersWaitForNobody DEF HoldsUp

(* However many clients share however few connections, no two sessions     *)
(* wait for each other, by way of the pool or of any lock: each wait is    *)
(* for a client that goes on, at one or two removes.  What OperationsEnd   *)
(* rests on besides fairness.                                              *)
THEOREM NobodyWaitsInACircle == Spec => []WaitsAreShort
  <1>1. Init => HoldersGoOn
    BY DEF Init, HoldersGoOn, HoldsNoLockAndWaits
  <1>2. Base /\ HoldersGoOn => WaitsAreShort
    <2> SUFFICES ASSUME Base, HoldersGoOn, NEW c \in Clients, NEW d \in Clients,
                        HoldsUp(d, c), pc[c] \in Queued, NEW e \in Clients, HoldsUp(e, d)
                 PROVE  GoesOn(e)
      BY LocksAreWaitedForBriefly DEF WaitsAreShort
    <2>1. pc[d] \in InSession /\ pc[d] \notin Queued
      BY DEF HoldsUp, Queued, InSession
    <2> QED BY <2>1, LocksAreWaitedForBriefly
  <1> QED BY <1>1, <1>2, HoldersStep, BaseAlways, PTL DEF Spec

-----------------------------------------------------------------------------
(* A release ships its own configuration *)

(* What the release of client c has come to is its own: the draft it       *)
(* inserted, and the plan it is about to write, while nobody has published *)
(* it; the version it published.                                           *)
OwnSoFar(c) ==
    LET row == defs[job[c].key][job[c].version] IN
    job[c] # None /\ job[c].op = "release" =>
        /\ pc[c] \in {"publish", "select"} =>
              /\ Exists(job[c].key, job[c].version)
              /\ row.status = "draft" => row.config.body = job[c].config.body
        /\ pc[c] \in Publishing /\ row.status = "draft" => plan[c].body = job[c].config.body
        /\ pc[c] \in Binding =>
              /\ Exists(job[c].key, job[c].version)
              /\ row.status = "published" /\ row.config.body = job[c].config.body

ReleasesAreOwn == \A c \in Clients : OwnSoFar(c)

(* What the clients of a release see of the steps of others. *)
LEMMA OthersLeaveReleases ==
    ASSUME Base, [Next]_vars, ReleasesAreOwn, NEW c \in Clients, ~Step(c)
    PROVE  OwnSoFar(c)'
  <1> DEFINE k == job[c].key
             v == job[c].version
  <1>1. /\ pc'[c] = pc[c] /\ job'[c] = job[c] /\ plan'[c] = plan[c]
    BY OneClientSteps
  <1>2. CASE job[c] # None /\ job[c].op = "release" /\ pc[c] \in {"publish", "select"} \cup Publishing \cup Binding
    <2>1. k \in AgentKeys /\ v \in DOMAIN defs[k] /\ OwnSoFar(c)
      BY <1>2, JobPresent DEF Base, RowsAreHeld, HoldsItsRow, ReleasesAreOwn, OwnSoFar, Exists,
         Publishing, Binding
    <2>2. v \in DOMAIN defs'[k]
      BY <2>1, RowStep
    <2>3. CASE defs'[k][v] = defs[k][v]
      BY <1>1, <1>2, <2>1, <2>2, <2>3 DEF OwnSoFar, Exists, Publishing, Binding
    <2>4. CASE defs[k][v].status = "draft" /\ defs'[k][v].status = "published"
      BY <1>1, <1>2, <2>1, <2>2, <2>4 DEF OwnSoFar, Exists, Publishing, Binding
    <2>5. \/ defs'[k][v] = defs[k][v]
          \/ defs[k][v].status = "draft" /\ defs'[k][v].status = "published"
      <3>1. ASSUME NEW d \in Clients, defs'[k][v] = [status |-> "published", config |-> plan[d]]
            PROVE  defs'[k][v].status = "published"
        BY <3>1
      <3> QED BY <2>1, <3>1, RowStep
    <2> QED BY <2>3, <2>4, <2>5
  <1>3. CASE ~(job[c] # None /\ job[c].op = "release" /\ pc[c] \in {"publish", "select"} \cup Publishing \cup Binding)
    BY <1>1, <1>3 DEF OwnSoFar, ReleasesAreOwn
  <1> QED BY <1>2, <1>3

(* A client that leaves a session to wait or to rest, by what it has done. *)
LEMMA SessionEnds ==
    ASSUME Base, NEW c \in Clients, NEW place \in {"idle", "publish", "bind"},
           NEW result, EndSession(c, place, result)
    PROVE  /\ pc'[c] = place /\ outcome'[c] = result
           /\ job'[c] = IF place = "idle" THEN None ELSE job[c]
  BY DEF EndSession, Goto, Base, TypeOK

LEMMA RefusalsEnd ==
    ASSUME Base, NEW c \in Clients, NEW result, Refuse(c, result)
    PROVE  pc'[c] = "idle" /\ job'[c] = None /\ outcome'[c] = result
  BY SessionEnds DEF Refuse

LEMMA CommitsEnd ==
    ASSUME Base, NEW c \in Clients, NEW place \in {"idle", "publish", "bind"}, Commit(c, place)
    PROVE  \/ /\ pc'[c] = "idle" /\ job'[c] = None
              /\ outcome'[c] = "error" \/ (place = "idle" /\ outcome'[c] = "done")
           \/ place # "idle" /\ pc'[c] = place /\ job'[c] = job[c]
  BY SessionEnds DEF Commit

(* A release begins with a draft. *)
LEMMA CallsBegin ==
    ASSUME NEW c \in Clients, Calls(c)
    PROVE  \E j, place : /\ Call(c, j, place) /\ place \in Queued
                         /\ j.op = "release" => place = "draft"
  <1>1. CASE CallCreateDraft(c) \/ CallRelease(c)
    <2>1. \E j : Call(c, j, "draft")
      BY <1>1 DEF CallCreateDraft, CallRelease
    <2> QED BY <2>1 DEF Queued
  <1>2. CASE CallPublish(c)
    <2>1. PICK k, v, override :
            Call(c, [config |-> override, op |-> "publish", key |-> k,
                     version |-> v, environment |-> None], "publish")
      BY <1>2 DEF CallPublish
    <2> QED BY <2>1 DEF Queued
  <1>3. CASE CallBind(c)
    <2>1. PICK k, v, e :
            Call(c, [config |-> None, op |-> "bind", key |-> k,
                     version |-> v, environment |-> e], "bind")
      BY <1>3 DEF CallBind
    <2> QED BY <2>1 DEF Queued
  <1> QED BY <1>1, <1>2, <1>3 DEF Calls

LEMMA StepsKeepReleases ==
    ASSUME Base, DraftInv, [Next]_vars, ReleasesAreOwn, NEW c \in Clients, Step(c)
    PROVE  OwnSoFar(c)'
  <1> DEFINE k == job[c].key
             v == job[c].version
  <1> USE DEF Binding, Publishing
  <1>a. CASE job'[c] = None
    BY <1>a DEF OwnSoFar
  <1>b. pc[c] # "idle" =>
           /\ job[c] \in Jobs /\ k \in AgentKeys
           /\ defs[k] \in Seq(Rows) /\ defs \in [AgentKeys -> Seq(Rows)]
    BY JobPresent DEF Base, TypeOK
  <1>1. CASE Calls(c)
    <2>1. PICK j, place :
             Call(c, j, place) /\ place \in Queued /\ (j.op = "release" => place = "draft")
      BY <1>1, CallsBegin
    <2>2. job'[c] = j /\ pc'[c] = place
      BY <2>1 DEF Call, Goto, Base, TypeOK
    <2> QED BY <2>1, <2>2 DEF OwnSoFar, Queued
  <1>2. CASE Connect(c)
    <2>1. /\ job'[c] = job[c] /\ plan'[c] = plan[c] /\ defs' = defs /\ pc[c] \in Queued
          /\ pc'[c] = CASE pc[c] = "draft"   -> "lock"
                        [] pc[c] = "publish" -> "select"
                        [] pc[c] = "bind"    -> "check"
      BY <1>2 DEF Connect, dbVars, Goto, Base, TypeOK
    <2> QED BY <2>1 DEF Queued, ReleasesAreOwn, OwnSoFar, Exists
  <1>3. CASE TakeDraftLock(c) \/ NextVersion(c)
    <2>1. pc'[c] \in {"number", "insert"}
      BY <1>3, StepsInto
    <2> QED BY <2>1 DEF OwnSoFar
  <1>4. CASE InsertDraft(c)
    <2>1. CASE Exists(k, v)
      BY <1>4, <1>a, <2>1, RefusalsEnd DEF InsertDraft
    <2>2. CASE ~Exists(k, v) /\ job[c].op = "release" /\ pc'[c] = "publish" /\ job'[c] = job[c]
      <3> DEFINE row == [status |-> "draft", config |-> job[c].config]
      <3>1. /\ pc[c] = "insert" /\ v = Len(defs[k]) + 1 /\ job[c].config \in Configs
            /\ defs' = [defs EXCEPT ![k] = Append(@, row)]
        BY <1>4, <1>b, <2>2 DEF InsertDraft, DraftInv, NumberStaysNext, Base, JobsFit, JobFits,
                                Drafting, Jobs
      <3>2. row \in Rows /\ defs'[k] = Append(defs[k], row)
        BY <1>b, <3>1 DEF Rows
      <3>3. v \in DOMAIN defs'[k] /\ defs'[k][v] = row
        BY <1>b, <3>1, <3>2, AppendRow
      <3> QED BY <2>2, <3>3 DEF OwnSoFar, Exists
    <2>3. CASE ~Exists(k, v)
      BY <1>4, <1>a, <2>2, <2>3, CommitsEnd DEF InsertDraft, OwnSoFar
    <2> QED BY <2>1, <2>3
  <1>5. CASE SelectForUpdate(c)
    <2>1. CASE Exists(k, v)
      <3>1. /\ plan'[c] = Submitted(c) /\ pc'[c] = "resolve" /\ job'[c] = job[c]
            /\ pc[c] = "select" /\ defs' = defs
        BY <1>5, <2>1 DEF SelectForUpdate, dbVars, Goto, Base, TypeOK
      <3>2. OwnSoFar(c)
        BY DEF ReleasesAreOwn
      <3> QED BY <2>1, <3>1, <3>2 DEF OwnSoFar, Submitted, Publishing, Binding
    <2>2. CASE ~Exists(k, v)
      BY <1>5, <1>a, <2>2, RefusalsEnd DEF SelectForUpdate
    <2> QED BY <2>1, <2>2
  <1>6. CASE ValidateAndPin(c)
    <2>1. CASE IsDraft(c) /\ Valid(plan[c]) /\ CanPin(plan[c].prompt)
      <3>1. /\ plan[c] \in Configs /\ pc[c] = "resolve" /\ pc'[c] = "update" /\ job'[c] = job[c]
            /\ plan' = [plan EXCEPT ![c].prompt = Pinned(plan[c].prompt)]
        BY <1>6, <2>1 DEF ValidateAndPin, Goto, Base, TypeOK, JobsFit, JobFits
      <3>2. plan'[c].body = plan[c].body
        BY <3>1 DEF Base, TypeOK, Configs
      <3>3. OwnSoFar(c) /\ defs[k][v].status = "draft"
        BY <2>1 DEF ReleasesAreOwn, IsDraft
      <3> QED BY <3>1, <3>2, <3>3 DEF OwnSoFar, Publishing, Binding
    <2>2. CASE ~(IsDraft(c) /\ Valid(plan[c]) /\ CanPin(plan[c].prompt))
      BY <1>6, <1>a, <2>2, RefusalsEnd DEF ValidateAndPin
    <2> QED BY <2>1, <2>2
  <1>7. CASE UpdatePublished(c)
    <2>1. /\ k \in AgentKeys /\ pc[c] = "update" /\ v \in DOMAIN defs[k]
          /\ defs'[k][v] = [status |-> "published", config |-> plan[c]]
          /\ DOMAIN defs'[k] = DOMAIN defs[k] /\ defs[k][v].status = "draft"
      BY <1>7, UpdateEffect
    <2>2. Commit(c, IF job[c].op = "release" THEN "bind" ELSE "idle")
      BY <1>7 DEF UpdatePublished
    <2>3. CASE pc'[c] = "bind" /\ job'[c] = job[c]
      BY <2>1, <2>3 DEF ReleasesAreOwn, OwnSoFar, Exists, Publishing, Binding
    <2> QED BY <1>a, <2>2, <2>3, CommitsEnd
  <1>8. CASE CheckPublished(c)
    <2>1. CASE Exists(k, v) /\ defs[k][v].status = "published"
      <3>1. /\ pc[c] = "check" /\ pc'[c] = "upsert" /\ job'[c] = job[c] /\ defs' = defs
        BY <1>8, <2>1 DEF CheckPublished, dbVars, Goto, Base, TypeOK
      <3> QED BY <3>1 DEF ReleasesAreOwn, OwnSoFar, Exists
    <2>2. CASE ~(Exists(k, v) /\ defs[k][v].status = "published")
      BY <1>8, <1>a, <2>2, RefusalsEnd DEF CheckPublished
    <2> QED BY <2>1, <2>2
  <1>9. CASE UpsertBinding(c)
    BY <1>9, <1>a, CommitsEnd DEF UpsertBinding
  <1>10. CASE PoolTimeout(c) \/ Abort(c)
    BY <1>10, <1>a, RefusalsEnd DEF PoolTimeout, Abort
  <1> QED BY <1>1, <1>2, <1>3, <1>4, <1>5, <1>6, <1>7, <1>8, <1>9, <1>10 DEF Step, Statement

(* Only the last of its three commits completes a release. *)
LEMMA DoneByBinding ==
    ASSUME Base, [Next]_vars, NEW c \in Clients, job[c] # None, job'[c] = None,
           outcome'[c] = "done", job[c].op = "release"
    PROVE  UpsertBinding(c)
  <1>1. Step(c)
    BY OneClientSteps
  <1>2. ~Calls(c)
    BY DEF Calls, CallCreateDraft, CallPublish, CallBind, CallRelease, Call, Base, TypeOK
  <1>3. ~Connect(c) /\ ~TakeDraftLock(c)
    BY DEF Connect, TakeDraftLock
  <1>4. ~NextVersion(c)
    BY <1>1, BaseStep, StepsInto DEF Base, JobsFit, JobFits
  <1>5. ~InsertDraft(c)
    BY CommitsEnd, RefusalsEnd DEF InsertDraft
  <1>6. ~SelectForUpdate(c)
    BY RefusalsEnd DEF SelectForUpdate
  <1>7. ~ValidateAndPin(c)
    BY RefusalsEnd DEF ValidateAndPin
  <1>8. ~UpdatePublished(c)
    BY CommitsEnd DEF UpdatePublished
  <1>9. ~CheckPublished(c)
    BY RefusalsEnd DEF CheckPublished
  <1>10. ~PoolTimeout(c) /\ ~Abort(c)
    BY RefusalsEnd DEF PoolTimeout, Abort
  <1> QED BY <1>1, <1>2, <1>3, <1>4, <1>5, <1>6, <1>7, <1>8, <1>9, <1>10 DEF Step, Statement

(* A release that reports success has left its environment on what it was  *)
(* given, whatever others published and bound in between (R-REG-7).        *)
THEOREM ReleasesAlwaysShipTheirOwn == Spec => ReleaseShipsItsOwn
  <1>1. Init => Base /\ ReleasesAreOwn
    BY TypeInit DEF Init, Base, ReleasesAreOwn, OwnSoFar
  <1>2. DraftInv /\ Base /\ ReleasesAreOwn /\ [Next]_vars => (Base /\ ReleasesAreOwn)'
    BY BaseStep, OthersLeaveReleases, StepsKeepReleases DEF ReleasesAreOwn
  <1>3. ASSUME Base, ReleasesAreOwn, [Next]_vars, NEW c \in Clients, job[c] # None,
               job'[c] = None, outcome'[c] = "done", job[c].op = "release"
        PROVE  LET v == bindings'[<<job[c].key, job[c].environment>>] IN
               /\ v = job[c].version
               /\ defs'[job[c].key][v].config.body = job[c].config.body
    <2>1. UpsertBinding(c)
      BY <1>3, DoneByBinding
    <2>2. /\ UNCHANGED defs /\ job[c].key \in AgentKeys /\ job[c].environment \in Environments
          /\ bindings'[<<job[c].key, job[c].environment>>] = job[c].version
      BY <1>3, <2>1, UpsertEffect DEF Base, TypeOK
    <2>3. defs[job[c].key][job[c].version].config.body = job[c].config.body
      BY <1>3, <2>1 DEF UpsertBinding, ReleasesAreOwn, OwnSoFar, Binding
    <2> QED BY <2>2, <2>3
  <1>4. Base /\ ReleasesAreOwn /\ [Next]_vars =>
          [\A c \in Clients :
              /\ job[c] # None /\ job'[c] = None
              /\ outcome'[c] = "done"
              /\ job[c].op = "release"
              => LET v == bindings'[<<job[c].key, job[c].environment>>] IN
                 /\ v = job[c].version
                 /\ defs'[job[c].key][v].config.body = job[c].config.body]_vars
    BY <1>3
  <1> QED BY <1>1, <1>2, <1>4, DraftsAlways, PTL DEF Spec, ReleaseShipsItsOwn

-----------------------------------------------------------------------------
(* The registry implements its promise *)

(* Nothing visible happens while published rows and bindings stay put. *)
LEMMA NothingVisible ==
    ASSUME LiveInv, UNCHANGED bindings,
           \A k \in AgentKeys : Published(k)' = Published(k),
           \A k \in AgentKeys : \A v \in Published(k) : defs'[k][v] = defs[k][v]
    PROVE  Catalog' = Catalog /\ Live' = Live
  <1>1. Catalog' = Catalog
    BY DEF Catalog
  <1>2. ASSUME NEW ke \in AgentKeys \X Environments
        PROVE  (IF bindings'[ke] = 0 THEN None ELSE defs'[ke[1]][bindings'[ke]].config)
                 = (IF bindings[ke] = 0 THEN None ELSE defs[ke[1]][bindings[ke]].config)
    BY <1>2 DEF LiveInv, BoundArePublished
  <1>3. Live' = Live
    BY <1>2 DEF Live
  <1> QED BY <1>1, <1>3

LEMMA InsertIsInvisible ==
    ASSUME LiveInv, [Next]_vars, NEW c \in Clients, InsertDraft(c)
    PROVE  Catalog' = Catalog /\ Live' = Live
  <1>1. UNCHANGED bindings
    BY InsertEffect DEF LiveInv
  <1>2. ASSUME NEW k \in AgentKeys PROVE Published(k)' = Published(k)
    <2>1. \A v \in Published(k) : v \in Published(k)'
      BY PublishedStays DEF LiveInv
    <2>2. ASSUME NEW v \in Published(k)', v \notin Published(k) PROVE FALSE
      <3>1. PICK d \in Clients : UpdatePublished(d)
        BY <2>2, NewlyPublished DEF LiveInv
      <3>2. DOMAIN defs'[k] = DOMAIN defs[k]
        BY <3>1, UpdateEffect DEF LiveInv
      <3>3. defs'[k] = defs[k] \/ Len(defs[k]) + 1 \in DOMAIN defs'[k] \ DOMAIN defs[k]
        BY InsertEffect DEF LiveInv
      <3> QED BY <2>2, <3>2, <3>3 DEF Published
    <2> QED BY <2>1, <2>2
  <1>3. \A k \in AgentKeys : \A v \in Published(k) : defs'[k][v] = defs[k][v]
    BY PublishedStays DEF LiveInv
  <1> QED BY <1>1, <1>2, <1>3, NothingVisible

LEMMA UpdatePublishes ==
    ASSUME LiveInv, [Next]_vars, NEW c \in Clients, UpdatePublished(c)
    PROVE  Promise!Publish(job[c].key, job[c].version)
           /\ job[c].key \in AgentKeys /\ job[c].version \in DOMAIN Catalog'[job[c].key]
  <1>0. PICK k \in AgentKeys, v \in Nat : k = job[c].key /\ v = job[c].version
    BY JobPresent, UpdateEffect DEF LiveInv
  <1>1. /\ UNCHANGED bindings
        /\ v \in DOMAIN defs[k] /\ defs[k][v].status = "draft"
        /\ defs'[k][v] = [status |-> "published", config |-> plan[c]]
        /\ plan[c] \in Releases
        /\ \A kk \in AgentKeys :
              /\ DOMAIN defs'[kk] = DOMAIN defs[kk]
              /\ \A vv \in DOMAIN defs[kk] :
                    <<kk, vv>> # <<k, v>> => defs'[kk][vv] = defs[kk][vv]
    BY <1>0, UpdateEffect DEF LiveInv, PlansAreReleases, Row
  <1>2. v \notin Published(k) /\ Published(k)' = Published(k) \cup {v}
    BY <1>1 DEF Published
  <1>3. ASSUME NEW kk \in AgentKeys, kk # k PROVE Published(kk)' = Published(kk)
    BY <1>1, <1>3 DEF Published
  <1>4. v \notin DOMAIN Catalog[k] /\ v \in DOMAIN Catalog'[k]
    BY <1>1, <1>2 DEF Catalog
  <1>5. Catalog'[k][v] = plan[c]
    BY <1>1, <1>2 DEF Catalog
  <1>6. Catalog' = [Catalog EXCEPT ![k] =
                      [n \in DOMAIN Catalog[k] \cup {v} |->
                         IF n = v THEN Catalog'[k][v] ELSE Catalog[k][n]]]
    <2>1. ASSUME NEW kk \in AgentKeys, kk # k PROVE Catalog'[kk] = Catalog[kk]
      <3>1. \A n \in Published(kk) : defs'[kk][n] = defs[kk][n]
        BY PublishedStays DEF LiveInv
      <3> QED BY <1>3, <2>1, <3>1 DEF Catalog
    <2>2. Catalog'[k] = [n \in DOMAIN Catalog[k] \cup {v} |->
                           IF n = v THEN Catalog'[k][v] ELSE Catalog[k][n]]
      <3>1. \A n \in Published(k) : defs'[k][n] = defs[k][n]
        BY <1>1, PublishedStays DEF LiveInv
      <3>2. DOMAIN Catalog[k] = Published(k)
        BY <1>1 DEF Catalog
      <3>3. Catalog'[k] = [n \in Published(k) \cup {v} |-> defs'[k][n].config]
        BY <1>1, <1>2 DEF Catalog
      <3>4. \A n \in Published(k) : Catalog[k][n] = defs[k][n].config
        BY <1>1 DEF Catalog
      <3>5. ASSUME NEW n \in Published(k) \cup {v}
            PROVE defs'[k][n].config = IF n = v THEN Catalog'[k][v] ELSE Catalog[k][n]
        BY <1>1, <1>2, <1>5, <3>1, <3>4
      <3> QED BY <3>2, <3>3, <3>5
    <2> DEFINE f == [n \in DOMAIN Catalog[k] \cup {v} |->
                           IF n = v THEN Catalog'[k][v] ELSE Catalog[k][n]]
    <2>3. Catalog'[k] = f
      BY <2>2
    <2> HIDE DEF f
    <2>4. Catalog' = [Catalog EXCEPT ![k] = f]
      BY <1>1, <2>1, <2>3 DEF Catalog
    <2> QED BY <2>4 DEF f
  <1>7. Live' = Live
    <2>1. ASSUME NEW ke \in AgentKeys \X Environments
          PROVE  (IF bindings'[ke] = 0 THEN None ELSE defs'[ke[1]][bindings'[ke]].config)
                   = (IF bindings[ke] = 0 THEN None ELSE defs[ke[1]][bindings[ke]].config)
      BY <1>1, <2>1, PublishedStays DEF LiveInv, BoundArePublished
    <2> QED BY <2>1 DEF Live
  <1> QED BY <1>0, <1>1, <1>4, <1>5, <1>6, <1>7 DEF Promise!Publish

LEMMA UpsertBinds ==
    ASSUME LiveInv, [Next]_vars, NEW c \in Clients, UpsertBinding(c)
    PROVE  \/ Promise!Bind(job[c].key, job[c].environment, job[c].version)
           \/ UNCHANGED <<Catalog, Live>>
  <1>0. PICK k \in AgentKeys, v \in Nat, e \in Environments :
          k = job[c].key /\ v = job[c].version /\ e = job[c].environment
    BY UpsertEffect DEF LiveInv, Jobs
  <1>1. /\ UNCHANGED defs
        /\ bindings' = [bindings EXCEPT ![<<k, e>>] = v]
        /\ v \in Published(k)
    BY <1>0, UpsertEffect DEF LiveInv, CheckedArePublished
  <1>2. v # 0
    <2>1. defs[k] \in Seq(Rows) /\ v \in DOMAIN defs[k]
      BY <1>1 DEF Published, LiveInv, Base, TypeOK
    <2> QED BY <2>1, LenProperties
  <1>3. Catalog' = Catalog /\ v \in DOMAIN Catalog[k]
        /\ Catalog[k][v] = defs[k][v].config
    BY <1>1 DEF Catalog, Published
  <1>4. Live' = [Live EXCEPT ![<<k, e>>] = Catalog[k][v]]
    <2>1. ASSUME NEW ke \in AgentKeys \X Environments, ke # <<k, e>>
          PROVE bindings'[ke] = bindings[ke]
      BY <1>1, <2>1 DEF LiveInv, Base, TypeOK
    <2>2. bindings'[<<k, e>>] = v
      BY <1>1 DEF LiveInv, Base, TypeOK
    <2>3. ASSUME NEW ke \in AgentKeys \X Environments
          PROVE (IF bindings'[ke] = 0 THEN None ELSE defs'[ke[1]][bindings'[ke]].config)
                   = IF ke = <<k, e>> THEN Catalog[k][v]
                     ELSE IF bindings[ke] = 0 THEN None
                     ELSE defs[ke[1]][bindings[ke]].config
      BY <1>1, <1>2, <1>3, <2>1, <2>2
    <2> QED BY <2>3 DEF Live
  <1> QED BY <1>0, <1>1, <1>3, <1>4 DEF Promise!Bind

(* `customer-advisor v2` always means the same thing, and an environment   *)
(* runs what some published version means: every step of the registry is a *)
(* step of RegistryPromise, or is invisible in it.                         *)
THEOREM RegistryKeepsItsPromise == Spec => KeepsThePromise
  <1>1. Init => Promise!Init
    <2> SUFFICES ASSUME Init PROVE Promise!Init
      OBVIOUS
    <2>1. \A k \in AgentKeys : Published(k) = {}
      <3> SUFFICES ASSUME NEW k \in AgentKeys PROVE Published(k) = {}
        OBVIOUS
      <3>1. defs[k] \in Seq([status : {"archived"}, config : Configs])
        BY ConstantsAssumption DEF Init
      <3>2. \A v \in DOMAIN defs[k] :
              defs[k][v] \in [status : {"archived"}, config : Configs]
        BY <3>1, ElementOfSeq, LenProperties
      <3> QED BY <3>2 DEF Published
    <2>2. Catalog = [k \in AgentKeys |-> [v \in {} |-> None]]
      BY <2>1 DEF Catalog
    <2>3. Live = [ke \in AgentKeys \X Environments |-> None]
      BY DEF Live, Init
    <2> QED BY <2>2, <2>3 DEF Promise!Init
  <1>2. ASSUME LiveInv, [Next]_vars PROVE [Promise!Next]_<<Catalog, Live>>
    <2>1. CASE \E c \in Clients : InsertDraft(c)
      BY <1>2, <2>1, InsertIsInvisible
    <2>2. CASE \E c \in Clients : UpdatePublished(c)
      BY <1>2, <2>2, UpdatePublishes DEF Promise!Next
    <2>3. CASE \E c \in Clients : UpsertBinding(c)
      <3>1. PICK c \in Clients : UpsertBinding(c)
        BY <2>3
      <3>2. /\ job[c].key \in AgentKeys /\ job[c].environment \in Environments
        BY <1>2, <3>1, UpsertEffect DEF LiveInv
      <3>3. CASE Promise!Bind(job[c].key, job[c].environment, job[c].version)
        <4>1. job[c].version \in DOMAIN Catalog[job[c].key]
          BY <3>3 DEF Promise!Bind
        <4> QED BY <3>2, <3>3, <4>1 DEF Promise!Next
      <3> QED BY <1>2, <3>1, <3>3, UpsertBinds
    <2>4. CASE ~ \E c \in Clients :
                   InsertDraft(c) \/ UpdatePublished(c) \/ UpsertBinding(c)
      BY <1>2, <2>4, OnlyWriters DEF LiveInv, Catalog, Live, Published
    <2> QED BY <2>1, <2>2, <2>3, <2>4
  <1> QED BY <1>1, <1>2, LiveAlways, PTL DEF Spec, KeepsThePromise, Promise!Spec, Promise!vars
=============================================================================

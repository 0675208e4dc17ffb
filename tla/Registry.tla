------------------------------ MODULE Registry ------------------------------
(***************************************************************************)
(* registry/repository.py: AgentRepository over the two tables of          *)
(* registry/db.py, used by several clients at once (application instances, *)
(* the CLI, deployment jobs).                                              *)
(*                                                                         *)
(* A client performs one operation at a time.  Every statement a session   *)
(* sends is a step of its own, so other clients act between any two of     *)
(* them; what a session writes becomes visible, and its locks are released,*)
(* at its commit, which is the step of its last statement.  A session can  *)
(* end without committing after any statement (an exception, a cancelled   *)
(* task, a killed process, a lost connection), and a commit can succeed    *)
(* without the client learning of it.                                      *)
(*                                                                         *)
(* The prompt text is one of Texts; a prompt's label (or a prompt file) is *)
(* a variable an author moves at any time.  The rest of a configuration,   *)
(* the names of tools, schema, model and settings, is its body.            *)
(***************************************************************************)
EXTENDS Naturals, Sequences, FiniteSets

CONSTANTS AgentKeys, Environments, Clients,
          Bodies,       \* what a configuration holds besides its prompt
          Runnable,     \* the bodies whose every name this process resolves
          Texts,        \* prompt templates
          Usable,       \* those shaped [system] or [system, user], not blank
          HasVersions,  \* TRUE: Langfuse, which numbers them; FALSE: files
          Authored,     \* the configurations authors hand in
          Archives,     \* what an agent's history may hold when we start
          PoolSize,     \* connections of the pool (5 + 5 in db.py)
          MaxVersion,   \* bound: versions per agent
          None

-----------------------------------------------------------------------------
(* Data *)

(* schema.PromptRef: exactly one selector.  A version number of a provider *)
(* that has versions names one text for ever, so the text stands for it.   *)
Refs == [kind : {"label"}, text : {None}]
          \cup [kind : {"version", "snapshot"}, text : Texts]

Configs == [body : Bodies, prompt : Refs]

Rows == [status : {"draft", "published", "archived"}, config : Configs]

Ops == {"create_draft", "publish", "bind", "release"}

(* The arguments of a call.  `config` is the configuration of a draft or a *)
(* release, and the optional pinned_config of a publication.               *)
Jobs == [config : Configs \cup {None}, op : Ops, key : AgentKeys,
         version : Nat, environment : Environments \cup {None}]

ASSUME ConstantsAssumption ==
    /\ Runnable \subseteq Bodies
    /\ Usable \subseteq Texts
    /\ HasVersions \in BOOLEAN
    /\ Authored \subseteq Configs
    /\ Archives \subseteq Seq([status : {"archived"}, config : Configs])
    /\ PoolSize \in Nat
    /\ MaxVersion \in Nat

(* None is a value of its own, and no text is called None. *)
ASSUME NoneAssumption ==
    /\ None \notin Configs /\ None \notin Jobs /\ None \notin Texts
    /\ None \notin Environments
    /\ None \notin AgentKeys /\ None \notin AgentKeys \X Nat

VARIABLES defs,      \* agent_definitions: defs[k][v] is version v of agent k
          bindings,  \* agent_environment_bindings: a version, 0 for no row
          label,     \* the text the prompt's label, or its file, holds now
          advisory,  \* advisory[c]: the key whose draft lock c holds, or None
          rowLock,   \* rowLock[c]: the <<key, version>> c holds FOR UPDATE
          pc, job,   \* where each client is, and what it was asked to do
          plan,      \* the configuration a publication is about to write
          outcome    \* how a client's last operation ended

dbVars     == <<defs, bindings>>
clientVars == <<advisory, rowLock, pc, job, plan, outcome>>
vars       == <<defs, bindings, label, clientVars>>

Queued    == {"draft", "publish", "bind"}
InSession == {"lock", "number", "insert", "select", "resolve", "update",
              "check", "upsert"}
Outcomes  == {"none", "done", "refused", "conflict", "error"}

TypeOK ==
    /\ defs \in [AgentKeys -> Seq(Rows)]
    /\ bindings \in [AgentKeys \X Environments -> Nat]
    /\ label \in Texts
    /\ advisory \in [Clients -> AgentKeys \cup {None}]
    /\ rowLock \in [Clients -> (AgentKeys \X Nat) \cup {None}]
    /\ pc \in [Clients -> {"idle"} \cup Queued \cup InSession]
    /\ job \in [Clients -> Jobs \cup {None}]
    /\ plan \in [Clients -> Configs \cup {None}]
    /\ outcome \in [Clients -> Outcomes]

Init ==
    /\ defs \in [AgentKeys -> Archives]
    /\ bindings = [ke \in AgentKeys \X Environments |-> 0]
    /\ label \in Texts
    /\ advisory = [c \in Clients |-> None]
    /\ rowLock = [c \in Clients |-> None]
    /\ pc = [c \in Clients |-> "idle"]
    /\ job = [c \in Clients |-> None]
    /\ plan = [c \in Clients |-> None]
    /\ outcome = [c \in Clients |-> "none"]

-----------------------------------------------------------------------------
(* Helpers *)

Row(c) == <<job[c].key, job[c].version>>

Exists(k, v) == v \in DOMAIN defs[k]

(* validation.DefinitionValidator: every name resolves. *)
Valid(config) == config.body \in Runnable

(* prompts.pin_prompt: an author's snapshot is taken as it is; anything    *)
(* else is fetched and its shape checked.  A file has no versions to name. *)
TextOf(ref) == IF ref.kind = "label" THEN label ELSE ref.text

CanPin(ref) ==
    \/ ref.kind = "snapshot"
    \/ /\ ref.kind = "label" \/ HasVersions
       /\ TextOf(ref) \in Usable

(* Mutant: the version that resolved is not recorded. *)
PinnedWithoutItsVersion(ref) ==
    IF ref.kind = "snapshot" THEN ref
    ELSE [kind |-> IF HasVersions THEN "version" ELSE "snapshot",
          text |-> ref.text]

Pinned(ref) ==
    IF ref.kind = "snapshot" THEN ref
    ELSE [kind |-> IF HasVersions THEN "version" ELSE "snapshot",
          text |-> TextOf(ref)]

Goto(c, place) == pc' = [pc EXCEPT ![c] = place]

(* Mutant: pg_advisory_lock, held by the connection and not the transaction. *)
EndSessionKeepingDraftLock(c, place, result) ==
    /\ Goto(c, place)
    /\ job' = IF place = "idle" THEN [job EXCEPT ![c] = None] ELSE job
    /\ plan' = [plan EXCEPT ![c] = None]
    /\ rowLock' = [rowLock EXCEPT ![c] = None]
    /\ outcome' = [outcome EXCEPT ![c] = result]
    /\ UNCHANGED advisory

(* Leaving a session, by commit or by rollback, returns the connection and *)
(* every lock the transaction took.                                        *)
EndSession(c, place, result) ==
    /\ Goto(c, place)
    /\ job' = IF place = "idle" THEN [job EXCEPT ![c] = None] ELSE job
    /\ plan' = [plan EXCEPT ![c] = None]
    /\ advisory' = [advisory EXCEPT ![c] = None]
    /\ rowLock' = [rowLock EXCEPT ![c] = None]
    /\ outcome' = [outcome EXCEPT ![c] = result]

Refuse(c, result) == EndSession(c, "idle", result) /\ UNCHANGED <<dbVars, label>>

(* A commit is followed by the rest of the operation, unless the answer to *)
(* it is lost or the caller is cancelled while waiting for it.             *)
Commit(c, place) ==
    \/ EndSession(c, place, IF place = "idle" THEN "done" ELSE "none")
    \/ EndSession(c, "idle", "error")

-----------------------------------------------------------------------------
(* Calls.  MaxVersion bounds the versions that can ever be created. *)

Creating(k) == {c \in Clients : /\ job[c] # None
                                /\ job[c].op \in {"create_draft", "release"}
                                /\ job[c].key = k
                                /\ pc[c] \in {"draft", "lock", "number", "insert"}}

HasRoom(k) == Len(defs[k]) + Cardinality(Creating(k)) < MaxVersion

Call(c, j, place) ==
    /\ pc[c] = "idle"
    /\ Goto(c, place)
    /\ job' = [job EXCEPT ![c] = j]
    /\ outcome' = [outcome EXCEPT ![c] = "none"]
    /\ UNCHANGED <<dbVars, label, advisory, rowLock, plan>>

CallCreateDraft(c) ==
    \E k \in AgentKeys, config \in Authored :
        /\ HasRoom(k)
        /\ Call(c, [config |-> config, op |-> "create_draft", key |-> k,
                    version |-> 0, environment |-> None], "draft")

CallPublish(c) ==
    \E k \in AgentKeys, v \in 1..MaxVersion, override \in Authored \cup {None} :
        Call(c, [config |-> override, op |-> "publish", key |-> k,
                 version |-> v, environment |-> None], "publish")

CallBind(c) ==
    \E k \in AgentKeys, v \in 1..MaxVersion, e \in Environments :
        Call(c, [config |-> None, op |-> "bind", key |-> k,
                 version |-> v, environment |-> e], "bind")

CallRelease(c) ==
    \E k \in AgentKeys, e \in Environments, config \in Authored :
        /\ HasRoom(k)
        /\ Call(c, [config |-> config, op |-> "release", key |-> k,
                    version |-> 0, environment |-> e], "draft")

(* The first statement of a session takes a connection from the pool. *)
Connect(c) ==
    /\ pc[c] \in Queued
    /\ Cardinality({d \in Clients : pc[d] \in InSession}) < PoolSize
    /\ Goto(c, CASE pc[c] = "draft"   -> "lock"
                 [] pc[c] = "publish" -> "select"
                 [] pc[c] = "bind"    -> "check")
    /\ UNCHANGED <<dbVars, label, advisory, rowLock, job, plan, outcome>>

-----------------------------------------------------------------------------
(* create_draft *)

(* Mutant: the next version is computed without the lock. *)
TakeNoDraftLock(c) ==
    /\ pc[c] = "lock"
    /\ Goto(c, "number")
    /\ UNCHANGED <<dbVars, label, advisory, rowLock, job, plan, outcome>>

(* pg_advisory_xact_lock: one draft of an agent at a time. *)
TakeDraftLock(c) ==
    /\ pc[c] = "lock"
    /\ \A d \in Clients : advisory[d] # job[c].key
    /\ advisory' = [advisory EXCEPT ![c] = job[c].key]
    /\ Goto(c, "number")
    /\ UNCHANGED <<dbVars, label, rowLock, job, plan, outcome>>

(* coalesce(max(version), 0) + 1: versions are never deleted. *)
NextVersion(c) ==
    /\ pc[c] = "number"
    /\ job' = [job EXCEPT ![c].version = Len(defs[job[c].key]) + 1]
    /\ Goto(c, "insert")
    /\ UNCHANGED <<dbVars, label, advisory, rowLock, plan, outcome>>

(* INSERT and commit; the unique constraint refuses a number already used. *)
InsertDraft(c) ==
    /\ pc[c] = "insert"
    /\ LET k == job[c].key IN
       IF Exists(k, job[c].version)
       THEN Refuse(c, "conflict")
       ELSE /\ defs' = [defs EXCEPT ![k] =
                          Append(@, [status |-> "draft", config |-> job[c].config])]
            /\ Commit(c, IF job[c].op = "release" THEN "publish" ELSE "idle")
            /\ UNCHANGED <<bindings, label>>

-----------------------------------------------------------------------------
(* publish *)

RowIsFree(row) == \A d \in Clients : rowLock[d] # row

(* What the publication starts from: pinned_config if the caller gave one. *)
Submitted(c) ==
    IF job[c].op = "publish" /\ job[c].config # None
    THEN job[c].config
    ELSE defs[job[c].key][job[c].version].config

(* Mutant: a plain SELECT. *)
SelectWithoutLock(c) ==
    /\ pc[c] = "select"
    /\ IF Exists(job[c].key, job[c].version)
       THEN /\ plan' = [plan EXCEPT ![c] = Submitted(c)]
            /\ Goto(c, "resolve")
            /\ UNCHANGED <<dbVars, label, advisory, rowLock, job, outcome>>
       ELSE Refuse(c, "refused")

(* SELECT ... FOR UPDATE waits for the row, then sees it as last committed, *)
(* and locks it whatever its status.                                       *)
SelectForUpdate(c) ==
    /\ pc[c] = "select"
    /\ RowIsFree(Row(c))
    /\ IF Exists(job[c].key, job[c].version)
       THEN /\ rowLock' = [rowLock EXCEPT ![c] = Row(c)]
            /\ plan' = [plan EXCEPT ![c] = Submitted(c)]
            /\ Goto(c, "resolve")
            /\ UNCHANGED <<dbVars, label, advisory, job, outcome>>
       ELSE Refuse(c, "refused")

IsDraft(c) == defs[job[c].key][job[c].version].status = "draft"

(* Mutant: publishing an already published version is taken for success. *)
ValidateAcceptingPublished(c) ==
    /\ pc[c] = "resolve"
    /\ IF IsDraft(c) /\ Valid(plan[c]) /\ CanPin(plan[c].prompt)
       THEN /\ plan' = [plan EXCEPT ![c].prompt = Pinned(plan[c].prompt)]
            /\ Goto(c, "update")
            /\ UNCHANGED <<dbVars, label, advisory, rowLock, job, outcome>>
       ELSE IF ~IsDraft(c) /\ job[c].op = "release"
            THEN EndSession(c, "bind", "none") /\ UNCHANGED <<dbVars, label>>
            ELSE Refuse(c, "refused")

(* A row that is published or archived is refused, and the transaction     *)
(* rolled back; then validation, then the provider is asked for the        *)
(* prompt, all of it while the row is locked.                              *)
ValidateAndPin(c) ==
    /\ pc[c] = "resolve"
    /\ IF IsDraft(c) /\ Valid(plan[c]) /\ CanPin(plan[c].prompt)
       THEN /\ plan' = [plan EXCEPT ![c].prompt = Pinned(plan[c].prompt)]
            /\ Goto(c, "update")
            /\ UNCHANGED <<dbVars, label, advisory, rowLock, job, outcome>>
       ELSE Refuse(c, "refused")

(* Mutant: the prompt is looked at, and fetched once more to be stored. *)
UpdateFetchingAgain(c) ==
    /\ pc[c] = "update"
    /\ defs' = [defs EXCEPT ![job[c].key][job[c].version] =
                  [status |-> "published", config |-> [plan[c] EXCEPT !.prompt.text = label]]]
    /\ Commit(c, IF job[c].op = "release" THEN "bind" ELSE "idle")
    /\ UNCHANGED <<bindings, label>>

(* UPDATE by key and version, and commit. *)
UpdatePublished(c) ==
    /\ pc[c] = "update"
    /\ defs' = [defs EXCEPT ![job[c].key][job[c].version] =
                  [status |-> "published", config |-> plan[c]]]
    /\ Commit(c, IF job[c].op = "release" THEN "bind" ELSE "idle")
    /\ UNCHANGED <<bindings, label>>

-----------------------------------------------------------------------------
(* bind *)

(* Mutant: bind only asks whether the version exists. *)
CheckExists(c) ==
    /\ pc[c] = "check"
    /\ IF Exists(job[c].key, job[c].version)
       THEN /\ Goto(c, "upsert")
            /\ UNCHANGED <<dbVars, label, advisory, rowLock, job, plan, outcome>>
       ELSE Refuse(c, "refused")

(* A plain SELECT: it waits for nobody and locks nothing. *)
CheckPublished(c) ==
    /\ pc[c] = "check"
    /\ IF Exists(job[c].key, job[c].version)
             /\ defs[job[c].key][job[c].version].status = "published"
       THEN /\ Goto(c, "upsert")
            /\ UNCHANGED <<dbVars, label, advisory, rowLock, job, plan, outcome>>
       ELSE Refuse(c, "refused")

(* INSERT ... ON CONFLICT DO UPDATE and commit.  A changed foreign key is  *)
(* checked under a share lock on the definition, which waits for a         *)
(* publication holding that row: one that is about to be refused, since    *)
(* the row is published.                                                   *)
UpsertBinding(c) ==
    LET ke == <<job[c].key, job[c].environment>> IN
    /\ pc[c] = "upsert"
    /\ bindings[ke] = job[c].version \/ RowIsFree(Row(c))
    /\ bindings' = [bindings EXCEPT ![ke] = job[c].version]
    /\ Commit(c, "idle")
    /\ UNCHANGED <<defs, label>>

-----------------------------------------------------------------------------
(* Failure, and the world outside *)

(* QueuePool gives up on a connection after its timeout. *)
PoolTimeout(c) ==
    /\ pc[c] \in Queued
    /\ Cardinality({d \in Clients : pc[d] \in InSession}) >= PoolSize
    /\ Refuse(c, "error")

(* An exception, a cancelled caller or a dead process: nothing is written. *)
Abort(c) ==
    /\ pc[c] # "idle"
    /\ Refuse(c, "error")

(* An author moves the label, or saves the file. *)
EditPrompt ==
    /\ label' \in Texts \ {label}
    /\ UNCHANGED <<dbVars, clientVars>>

-----------------------------------------------------------------------------
Calls(c) == CallCreateDraft(c) \/ CallPublish(c) \/ CallBind(c) \/ CallRelease(c)

Statement(c) == \/ Connect(c)
                \/ TakeDraftLock(c) \/ NextVersion(c) \/ InsertDraft(c)
                \/ SelectForUpdate(c) \/ ValidateAndPin(c) \/ UpdatePublished(c)
                \/ CheckPublished(c) \/ UpsertBinding(c)

Next == \/ \E c \in Clients : \/ Calls(c) \/ Statement(c)
                              \/ PoolTimeout(c) \/ Abort(c)
        \/ EditPrompt

Spec == Init /\ [][Next]_vars

(* The pool and Postgres serve waiters in order, so a client that could be *)
(* served again and again is served; every other statement answers, or     *)
(* fails, in the end.                                                      *)
Fairness == \A c \in Clients : SF_vars(Statement(c))

FairSpec == Spec /\ Fairness

-----------------------------------------------------------------------------
(* Properties *)

Published(k) == {v \in DOMAIN defs[k] : defs[k][v].status = "published"}

Releases ==
    {config \in Configs : /\ Valid(config) /\ config.prompt.kind # "label"
                          /\ config.prompt.kind = "version" => config.prompt.text \in Usable}

(* An environment runs one published version whose every name was resolved *)
(* and whose prompt no longer follows a label, and is a version of a shape *)
(* that was accepted, wherever the label was moved meanwhile: bind checks  *)
(* the status in a statement of its own, publish may be given another      *)
(* configuration than the one the row holds (R-REG-3, R-REG-8).            *)
LiveIsARelease ==
    \A ke \in AgentKeys \X Environments :
        bindings[ke] # 0 =>
            /\ bindings[ke] \in Published(ke[1])
            /\ defs[ke[1]][bindings[ke]].config \in Releases

(* Once published, a version keeps its configuration and its status, even  *)
(* when two clients publish it at the same moment (R-REG-1).               *)
PublishedNeverChanges ==
    [][\A k \in AgentKeys : \A v \in Published(k) :
          v \in DOMAIN defs'[k] /\ defs'[k][v] = defs[k][v]]_vars

(* Concurrent creations of one agent's drafts never pick the same number   *)
(* (R-REG-2): the unique constraint is never what stops one.               *)
DraftsNeverCollide == \A c \in Clients : outcome[c] # "conflict"

(* A release that reports success has left its environment on its own      *)
(* configuration, whatever other clients published or bound in between its *)
(* three commits (R-REG-7).                                                *)
ReleaseShipsItsOwn ==
    [][\A c \in Clients :
          /\ job[c] # None /\ job'[c] = None
          /\ outcome'[c] = "done"
          /\ job[c].op = "release"
          => LET v == bindings'[<<job[c].key, job[c].environment>>] IN
             /\ v = job[c].version
             /\ defs'[job[c].key][v].config.body = job[c].config.body]_vars

(* Every operation comes to an end, whether it waits for a connection, for *)
(* the draft lock of another creator or for the row of another             *)
(* publication: no lock survives the session that took it, and no waiter   *)
(* is passed over for ever.                                                *)
OperationsEnd ==
    \A c \in Clients : (pc[c] # "idle") ~> (pc[c] = "idle")

(* The registry implements its promise. *)
Catalog == [k \in AgentKeys |-> [v \in Published(k) |-> defs[k][v].config]]

Live == [ke \in AgentKeys \X Environments |->
            IF bindings[ke] = 0 THEN None ELSE defs[ke[1]][bindings[ke]].config]

Promise == INSTANCE RegistryPromise WITH catalog <- Catalog, live <- Live

KeepsThePromise == Promise!Spec

(* What a published version holds can instruct an agent (R-PUB-2).         *)
PublishedIsUsable ==
    \A k \in AgentKeys : \A v \in Published(k) :
        LET ref == defs[k][v].config.prompt IN ref.text \in Usable
=============================================================================

-------------------------------- MODULE Views --------------------------------
(***************************************************************************)
(* Those who look at the registry more than once for one answer: the       *)
(* recruiting console (examples/recruiting/app.py), which offers agents,   *)
(* runs one and says what ran, lists its versions and saves variants of    *)
(* it, and `asas-agent agent list` and `show` (cli/main.py).  Releases,    *)
(* promotions and edits of the prompt made elsewhere come in between.      *)
(*                                                                         *)
(* One agent.  A call of the registry is one step here; what it consists   *)
(* of is module Registry's.                                                *)
(***************************************************************************)
EXTENDS Naturals, SequencesExt

CONSTANTS Environments,  \* in the order of their names
          ENVIRONMENT,   \* the console's
          Models,
          Texts,         \* of the prompt
          Clients,
          Keyed,         \* those whose console has a model key
          MaxVersion,    \* bound: versions of the agent
          MaxBinds,      \* bound: promotions
          None

(* A prompt is a text that was pinned, or None: what the label has. *)
Configs == [model : Models, prompt : Texts \cup {None}]
Rows == [status : {"draft", "published"}, config : Configs]

ASSUME ViewsAssumption ==
    /\ Environments \in Seq(ToSet(Environments)) /\ IsInjective(Environments)
    /\ ENVIRONMENT \in ToSet(Environments)
    /\ Keyed \subseteq Clients
    /\ None \notin Texts /\ None \notin [version : Nat, config : Configs]
    /\ MaxVersion \in Nat \ {0} /\ MaxBinds \in Nat

VARIABLES versions,  \* the rows of the agent, by version
          live,      \* live[e]: the version environment e runs, or 0
          binds,     \* promotions made so far
          label,     \* the text the label has
          pc,        \* what each client is about to do
          saw,       \* what the registry has given it
          answer     \* what it was told
registryVars == <<versions, live, binds, label>>
vars == <<registryVars, pc, saw, answer>>

Definitions == [version : 1..Len(versions), config : Configs]

Answers ==
    [kind : {"ran", "offered", "shown"}, version : 1..Len(versions), config : Configs] \cup
    [kind : {"versions", "list"}, rows : Seq(Rows),
     marks : SUBSET ((1..MaxVersion) \X ToSet(Environments))]

TypeOK ==
    /\ versions \in Seq(Rows) /\ Len(versions) <= MaxVersion
    /\ \A v \in DOMAIN versions :
           versions[v].status = "published" => versions[v].config.prompt \in Texts
    /\ live \in [ToSet(Environments) -> 0..Len(versions)]
    /\ \A e \in DOMAIN live : live[e] > 0 => versions[live[e]].status = "published"
    /\ live[ENVIRONMENT] > 0
    /\ binds \in 0..MaxBinds
    /\ label \in Texts
    /\ pc \in [Clients -> {"idle", "sample", "run", "draft", "publish", "bind", "offer", "mark", "bindings"}]
    /\ saw \in [Clients -> [definition : Definitions \cup {None}, version : 0..Len(versions),
                            rows : Seq(Rows)]]
    /\ answer \in [Clients -> Answers \cup {None}]
    /\ \A c \in Clients :
          /\ pc[c] \in {"sample", "run", "draft", "publish", "bind"} => saw[c].definition \in Definitions
          /\ pc[c] \in {"publish", "bind", "offer"} => saw[c].version > 0
          /\ Len(saw[c].rows) <= Len(versions)

Nothing == [definition |-> None, version |-> 0, rows |-> <<>>]

(* The console is started once its agents are seeded. *)
Init ==
    /\ label \in Texts
    /\ \E config \in [model : Models, prompt : Texts] :
          versions = <<[status |-> "published", config |-> config]>>
    /\ live = [e \in ToSet(Environments) |-> IF e = ENVIRONMENT THEN 1 ELSE 0]
    /\ binds = 0
    /\ pc = [c \in Clients |-> "idle"]
    /\ saw = [c \in Clients |-> Nothing]
    /\ answer = [c \in Clients |-> None]

-----------------------------------------------------------------------------
(* The registry *)

NextVersion == Len(versions) + 1

CreateDraft(config) ==
    /\ NextVersion <= MaxVersion  \* bound
    /\ versions' = Append(versions, [status |-> "draft", config |-> config])
    /\ UNCHANGED <<live, binds, label>>

(* Mutant: every publication takes the text of the moment. *)
PinnedAnew(prompt) == label

(* A prompt that is pinned stays what it is. *)
Pinned(prompt) == IF prompt = None THEN label ELSE prompt

Publish(v) ==
    /\ versions[v].status = "draft"
    /\ versions' = [versions EXCEPT ![v].status = "published",
                                   ![v].config.prompt = Pinned(versions[v].config.prompt)]
    /\ UNCHANGED <<live, binds, label>>

(* Mutant: a draft may be promoted. *)
BindAnything(e, v) ==
    /\ binds < MaxBinds  \* bound
    /\ binds' = binds + 1
    /\ live' = [live EXCEPT ![e] = v]
    /\ UNCHANGED <<versions, label>>

Bind(e, v) ==
    /\ versions[v].status = "published"
    /\ binds < MaxBinds  \* bound
    /\ binds' = binds + 1
    /\ live' = [live EXCEPT ![e] = v]
    /\ UNCHANGED <<versions, label>>

(* Authors elsewhere, one call at a time; and those who write prompts. *)
Elsewhere ==
    /\ \/ \E config \in Configs : CreateDraft(config)
       \/ \E v \in DOMAIN versions : Publish(v)
       \/ \E e \in DOMAIN live, v \in DOMAIN versions : Bind(e, v)
       \/ label' \in Texts /\ UNCHANGED <<versions, live, binds>>
    /\ UNCHANGED <<pc, saw, answer>>

(* What `get` and, for the version that is live, `get_active` return. *)
Definition(v) == [version |-> v, config |-> versions[v].config]

-----------------------------------------------------------------------------
Goto(c, place) == pc' = [pc EXCEPT ![c] = place]

Tell(c, what) ==
    /\ Goto(c, "idle")
    /\ saw' = [saw EXCEPT ![c] = Nothing]
    /\ answer' = [answer EXCEPT ![c] = what]

Told(kind, version, config) == [kind |-> kind, version |-> version, config |-> config]

Begin(c, place) ==
    /\ pc[c] = "idle"
    /\ Goto(c, place)
    /\ answer' = [answer EXCEPT ![c] = None]
    /\ UNCHANGED registryVars

GetActive(c, place) ==
    /\ Begin(c, place)
    /\ saw' = [saw EXCEPT ![c].definition = Definition(live[ENVIRONMENT])]

(* A call raises: the registry, the prompt service, the model, or a draft   *)
(* that another has published meanwhile.                                   *)
Fails(c) ==
    /\ pc[c] # "idle"
    /\ Tell(c, None)
    /\ UNCHANGED registryVars

(* A run of the console looks up the agent; without a model key it goes on *)
(* to resolve its prompt, with one to the runtime.                         *)
StartRun(c) == GetActive(c, IF c \in Keyed THEN "run" ELSE "sample")

TellSample(c) ==
    /\ pc[c] = "sample"
    /\ Tell(c, Told("ran", saw[c].definition.version, saw[c].definition.config))
    /\ UNCHANGED registryVars

(* The runtime looks it up again.  The answer has the version from it, and *)
(* the prompt's name and the model from the console's own lookup.          *)
FinishRun(c) ==
    /\ pc[c] = "run"
    /\ Tell(c, Told("ran", live[ENVIRONMENT], saw[c].definition.config))
    /\ UNCHANGED registryVars

(* `options`: the bindings, then each agent that has one. *)
StartOptions(c) ==
    /\ Begin(c, "offer")
    /\ saw' = [saw EXCEPT ![c].version = live[ENVIRONMENT]]

(* Mutant: the version is the binding's. *)
OfferTheBound(c) ==
    /\ pc[c] = "offer"
    /\ Tell(c, Told("offered", saw[c].version, versions[live[ENVIRONMENT]].config))
    /\ UNCHANGED registryVars

Offer(c) ==
    /\ pc[c] = "offer"
    /\ LET definition == Definition(live[ENVIRONMENT]) IN
       Tell(c, Told("offered", definition.version, definition.config))
    /\ UNCHANGED registryVars

(* `agent show`: what an environment runs, the newest, or any by number. *)
Show(c) ==
    /\ pc[c] = "idle"
    /\ \E v \in DOMAIN versions : Tell(c, Told("shown", v, versions[v].config))
    /\ UNCHANGED registryVars

-----------------------------------------------------------------------------
(* A variant: the live version with another model, published and bound *)

StartVariant(c) == GetActive(c, "draft")

SaveVariant(c) ==
    /\ pc[c] = "draft"
    /\ \E model \in Models : CreateDraft([saw[c].definition.config EXCEPT !.model = model])
    /\ saw' = [saw EXCEPT ![c].version = NextVersion]
    /\ Goto(c, "publish")
    /\ UNCHANGED answer

PublishVariant(c) ==
    /\ pc[c] = "publish"
    /\ Publish(saw[c].version)
    /\ \/ Goto(c, "bind") /\ UNCHANGED <<saw, answer>>  \* promote
       \/ Tell(c, None)

BindVariant(c) ==
    /\ pc[c] = "bind"
    /\ Bind(ENVIRONMENT, saw[c].version)
    /\ Tell(c, None)

Rollback(c) ==
    /\ pc[c] = "idle"
    /\ \E v \in DOMAIN versions : Bind(ENVIRONMENT, v)
    /\ Tell(c, None)

-----------------------------------------------------------------------------
(* Lists, of the console and of the command line: versions, then bindings *)

ListVersions(c) ==
    /\ \E place \in {"mark", "bindings"} : Begin(c, place)
    /\ saw' = [saw EXCEPT ![c].rows = versions]

(* `versions`: the one its environment runs is marked. *)
Mark(c) ==
    /\ pc[c] = "mark"
    /\ Tell(c, [kind |-> "versions", rows |-> saw[c].rows,
                marks |-> {<<v, ENVIRONMENT>> : v \in DOMAIN saw[c].rows \cap {live[ENVIRONMENT]}}])
    /\ UNCHANGED registryVars

(* Mutant: only the rows listed as published are looked up. *)
MarkThePublished(c) ==
    /\ pc[c] = "bindings"
    /\ LET runs(i) == live[Environments[i]]
           kept == {i \in DOMAIN Environments :
                       /\ runs(i) \in DOMAIN saw[c].rows
                       /\ saw[c].rows[runs(i)].status = "published"
                       /\ \A j \in DOMAIN Environments : j > i => runs(j) # runs(i)}
       IN Tell(c, [kind |-> "list", rows |-> saw[c].rows,
                   marks |-> {<<runs(i), Environments[i]>> : i \in kept}])
    /\ UNCHANGED registryVars

(* `agent_list`: the bindings as a dict by version, where a later          *)
(* environment of the same version takes the place of an earlier one.      *)
MarkByVersion(c) ==
    /\ pc[c] = "bindings"
    /\ LET runs(i) == live[Environments[i]]
           kept == {i \in DOMAIN Environments :
                       /\ runs(i) \in DOMAIN saw[c].rows
                       /\ \A j \in DOMAIN Environments : j > i => runs(j) # runs(i)}
       IN Tell(c, [kind |-> "list", rows |-> saw[c].rows,
                   marks |-> {<<runs(i), Environments[i]>> : i \in kept}])
    /\ UNCHANGED registryVars

-----------------------------------------------------------------------------
Step(c) == \/ Fails(c) \/ StartRun(c) \/ TellSample(c) \/ FinishRun(c)
           \/ StartOptions(c) \/ Offer(c) \/ Show(c)
           \/ StartVariant(c) \/ SaveVariant(c) \/ PublishVariant(c) \/ BindVariant(c) \/ Rollback(c)
           \/ ListVersions(c) \/ Mark(c) \/ MarkByVersion(c)

Next == Elsewhere \/ \E c \in Clients : Step(c)

Spec == Init /\ [][Next]_vars

-----------------------------------------------------------------------------
(* Properties *)

(* A sample says what would have run, and an offer what an agent is: the   *)
(* version, the model and the prompt that are told are of one version that *)
(* was published, whatever is promoted meanwhile.  (A run with a model key *)
(* may tell of two.)                                                       *)
TellsOfOneVersion ==
    \A c \in Clients :
        (answer[c] # None /\ (answer[c].kind = "offered" \/ (answer[c].kind = "ran" /\ c \notin Keyed))) =>
            versions[answer[c].version] = [status |-> "published", config |-> answer[c].config]

(* A variant has the instructions of the version it was made of, although  *)
(* the prompt has moved on since and whoever publishes the draft.          *)
VariantsKeepTheInstructions ==
    \A c \in Clients : pc[c] \in {"publish", "bind"} =>
        versions[saw[c].version].config.prompt = saw[c].definition.config.prompt

(* The two reads of a list are no snapshot, and others publish and promote *)
(* between them.  Still, what it says of a published version holds when it *)
(* is told; a version it marks, even one it lists as a draft, has been     *)
(* published by then with the model that is listed, and runs where the     *)
(* mark says; and no version that is listed and runs goes unmarked: of the *)
(* console's environment for `versions` (app.py:233), of any for           *)
(* `agent list`, which shows one environment of those that run it          *)
(* (cli/main.py:285).                                                      *)
ListsHoldWhenTold ==
    [][\A c \in Clients : pc[c] \in {"mark", "bindings"} /\ pc'[c] = "idle" /\ answer'[c] # None =>
        LET rows == answer'[c].rows
            marks == answer'[c].marks
        IN /\ \A v \in DOMAIN rows : rows[v].status = "published" => versions[v] = rows[v]
           /\ \A mark \in marks :
                 LET v == mark[1] IN
                 /\ live[mark[2]] = v /\ versions[v].status = "published"
                 /\ versions[v].config.model = rows[v].config.model
           /\ \A e \in IF pc[c] = "mark" THEN {ENVIRONMENT} ELSE DOMAIN live :
                 live[e] \in DOMAIN rows => \E mark \in marks : mark[1] = live[e]]_vars

(* `agent list` shows which environment runs what: every environment that  *)
(* runs a listed version is shown with it (cli/main.py:278).               *)
ListsShowWhoRunsWhat ==
    [][\A c \in Clients : pc[c] = "bindings" /\ pc'[c] = "idle" /\ answer'[c] # None =>
        \A e \in DOMAIN live : live[e] \in DOMAIN answer'[c].rows =>
            <<live[e], e>> \in answer'[c].marks]_vars
=============================================================================

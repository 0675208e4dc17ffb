------------------------------- MODULE Platform -------------------------------
(***************************************************************************)
(* A platform in its process: bootstrap.py, integrations/models.py, and    *)
(* who builds one: `asas-agent doctor`, the other commands of cli/main.py, *)
(* the lifespans of api/app.py and of the recruiting console, the customer *)
(* advisor.  The tables it finds are module Schema's.                      *)
(*                                                                         *)
(* A process has one list of trace processors for all it ever builds.      *)
(* Commands build a platform, work and close it; a host also installs      *)
(* processors of its own, may build again, and may close while runs go on. *)
(*                                                                         *)
(* `_clients` is a dict in the order of insertion.  An iterator over it    *)
(* notes its size, and raises when it is asked for the next item of a dict *)
(* of another size.                                                        *)
(***************************************************************************)
EXTENDS Schema

CONSTANTS Runs,
          Providers,      \* of models, those with the settings they need
          AppProcessors,  \* what a host may install
          Settings        \* with what the machine has installed

Commands == {"doctor", "agent", "run"}
Users == Commands \cup {"host"}

SettingsType ==
    [url     : BOOLEAN,            \* DATABASE_URL is set
     modules : BOOLEAN,            \* the registration modules can be imported
     prompts : {"file", "langfuse"},
     keys    : BOOLEAN,            \* Langfuse is configured and installed
     tracing : BOOLEAN,            \* to Langfuse
     instrumentor : BOOLEAN]       \* OpenInference is installed

BuildFaults == {"modules", "prompts", "tracer", "url"}

ASSUME PlatformAssumption ==
    /\ Settings \subseteq SettingsType
    /\ None \notin Providers \cup Users \cup BuildFaults \cup {"fine", "problems"}
    /\ AppProcessors \cap {"openai", "internal"} = {}

VARIABLES settings,    \* of every process, as read from the environment
          process,     \* whose process there is, or None
          processors,  \* its trace processors
          attached,    \* whether it is instrumented, by whomever
          stage,       \* of its platform
          traced,      \* whether its runtime has a tracer
          clients,     \* the providers of `_clients`, in order
          closed,      \* those whose client was closed
          run,         \* run[r]: the provider it has a client of, or None
          position,    \* how many clients the iterator of `close` has given
          size,        \* the size of the dict it noted
          raised,      \* whether something was raised in `close`
          disposed,    \* whether the engine is disposed of
          problems,    \* what doctor has found
          verdict      \* how the last doctor ended
traceVars    == <<processors, attached>>
registryVars == <<clients, run>>
closeVars    == <<closed, position, size, raised, disposed>>
doctorVars   == <<problems, verdict>>
platformVars == <<settings, process, traceVars, stage, traced, registryVars, closeVars, doctorVars>>
vars == <<schemaVars, platformVars>>

Members(s) == {s[i] : i \in DOMAIN s}
Processors == {"openai", "internal"} \cup AppProcessors
Problems == {"database", "tables", "prompts"}

TypeOK ==
    /\ SchemaTypeOK
    /\ settings \in Settings
    /\ process \in Users \cup {None}
    /\ processors \subseteq Processors /\ attached \in BOOLEAN
    /\ stage \in {"unbuilt", "failed", "open", "listing", "next", "awaiting", "disposing", "closed"}
    /\ traced \in BOOLEAN
    /\ clients \in Seq(Providers) /\ \A i, j \in DOMAIN clients : clients[i] = clients[j] => i = j
    /\ run \in [Runs -> Providers \cup {None}]
    /\ closed \subseteq Members(clients)
    /\ position \in 0..Len(clients) /\ size \in 0..Len(clients)
    /\ raised \in BOOLEAN /\ disposed \in BOOLEAN
    /\ problems \subseteq Problems /\ verdict \in {None, "fine", "problems"}

Init ==
    /\ SchemaInit
    /\ settings \in Settings
    /\ process = None
    /\ processors = {"openai"} /\ attached = FALSE
    /\ stage = "unbuilt" /\ traced = FALSE
    /\ clients = <<>> /\ closed = {}
    /\ run = [r \in Runs |-> None]
    /\ position = 0 /\ size = 0
    /\ raised = FALSE /\ disposed = FALSE
    /\ problems = {} /\ verdict = None

-----------------------------------------------------------------------------
(* The process *)

Renew ==
    /\ clients' = <<>> /\ closed' = {}
    /\ run' = [r \in Runs |-> None]
    /\ position' = 0 /\ size' = 0
    /\ raised' = FALSE /\ disposed' = FALSE

(* The SDK begins with the processor that posts to OpenAI. *)
Start(u) ==
    /\ process = None
    /\ process' = u
    /\ problems' = IF u = "doctor" THEN {} ELSE problems
    /\ verdict' = IF u = "doctor" THEN None ELSE verdict
    /\ UNCHANGED <<settings, traceVars, stage, traced, registryVars, closeVars>>

(* What was installed in a process goes with it. *)
Leave ==
    /\ process' = None
    /\ stage' = "unbuilt" /\ traced' = FALSE
    /\ processors' = {"openai"} /\ attached' = FALSE
    /\ Renew
    /\ UNCHANGED settings

Exit ==
    /\ process \in Users \ {"doctor"} /\ stage \in {"failed", "closed"}
    /\ Leave
    /\ UNCHANGED doctorVars

(* A host installs a processor, or instruments the SDK itself, adding to   *)
(* the list: module-level code, or start-up code before or after a build.  *)
HostInstalls ==
    /\ process = "host"
    /\ \/ \E p \in AppProcessors : processors' = processors \cup {p} /\ UNCHANGED attached
       \/ /\ settings.instrumentor /\ ~attached
          /\ processors' = processors \cup {"internal"} /\ attached' = TRUE
    /\ UNCHANGED <<settings, process, stage, traced, registryVars, closeVars, doctorVars>>

-----------------------------------------------------------------------------
(* Building a platform, which gives way to nothing *)

NeedsPrompts(u) == u \in {"run", "host"}

(* It is not configured, or not installed. *)
LangfuseFails == ~settings.keys

ProviderFails == settings.prompts = "langfuse" /\ LangfuseFails

(* The first step that raises, in the order of `build_platform`. *)
BuildFault(u) ==
    IF ~settings.modules THEN "modules"
    ELSE IF ProviderFails /\ NeedsPrompts(u) THEN "prompts"
    ELSE IF settings.tracing /\ LangfuseFails THEN "tracer"
    ELSE IF ~settings.url THEN "url"
    ELSE None

(* What `_instrument_spans` makes of the list: it takes it over, unless it *)
(* is not installed, was there already, does not fit the SDK, or raises.   *)
Instrumentations ==
    {<<processors, attached>>} \cup
        IF settings.instrumentor /\ ~attached THEN {<<{"internal"}, TRUE>>} ELSE {}

(* Mutant: an internal processor is taken for an exclusive one. *)
SweptUnlessInternal(list) == IF "internal" \in list THEN list ELSE list \ {"openai"}

(* Mutant: only what the backend installed is kept. *)
SweptOfAll(list) == list \cap {"internal"}

(* `_stop_exporting_to_openai`. *)
Swept(list) == list \ {"openai"}

BuildTracer ==
    IF settings.tracing
    THEN \E i \in Instrumentations : processors' = Swept(i[1]) /\ attached' = i[2]
    ELSE UNCHANGED traceVars

(* A host that has closed its platform may build another. *)
Build ==
    LET fault == BuildFault(process) IN
    /\ process # None
    /\ \/ stage = "unbuilt"
       \/ stage = "closed" /\ process = "host"
    /\ IF fault \in {None, "url"} THEN BuildTracer ELSE UNCHANGED traceVars
    /\ IF fault = None
       THEN /\ stage' = "open" /\ traced' = settings.tracing
            /\ Renew
            /\ UNCHANGED problems
       ELSE /\ stage' = "failed"
            /\ problems' = IF process = "doctor" THEN problems \cup {"database"} ELSE problems
            /\ UNCHANGED <<traced, registryVars, closeVars>>
    /\ UNCHANGED <<settings, process, verdict>>

-----------------------------------------------------------------------------
(* Working with it *)

Built == stage \notin {"unbuilt", "failed"}

(* Mutant: every run builds a client. *)
ResolveAnew(r, p) ==
    /\ Built /\ process \in {"run", "host"} /\ run[r] = None
    /\ clients' = Append(clients, p)
    /\ run' = [run EXCEPT ![r] = p]
    /\ UNCHANGED <<settings, process, traceVars, stage, traced, closeVars, doctorVars>>

(* `resolve`, without an await; a provider that is not configured is an    *)
(* error that changes nothing.  The command runs once.  Whoever closes     *)
(* gives way to runs while a client closes and while the engine is         *)
(* disposed of, and nowhere between.                                       *)
Resolve(r, p) ==
    /\ Built /\ stage # "next" /\ run[r] = None
    /\ \/ process = "host"
       \/ process = "run" /\ stage = "open" /\ clients = <<>>
    /\ clients' = IF p \in Members(clients) THEN clients ELSE Append(clients, p)
    /\ run' = [run EXCEPT ![r] = p]
    /\ UNCHANGED <<settings, process, traceVars, stage, traced, closeVars, doctorVars>>

(* A run is over, whether its client answered or was closed under it. *)
EndRun(r) ==
    /\ run[r] # None
    /\ run' = [run EXCEPT ![r] = None]
    /\ UNCHANGED <<settings, process, traceVars, stage, traced, clients, closeVars, doctorVars>>

BeginClose == stage' = "next" /\ size' = Len(clients)

(* Mutant: a command that fails leaves its platform. *)
CommandEndsUnclosed ==
    /\ process \in {"agent", "run"} /\ stage = "open"
    /\ \A r \in Runs : run[r] = None
    /\ \/ BeginClose
       \/ stage' = "failed" /\ UNCHANGED size
    /\ UNCHANGED <<settings, process, traceVars, traced, registryVars, closed, position, raised,
                   disposed, doctorVars>>

(* A command has done what it is for, or fails at it: the platform is      *)
(* closed in either case.                                                  *)
CommandEnds ==
    /\ process \in {"agent", "run"} /\ stage = "open"
    /\ \A r \in Runs : run[r] = None
    /\ BeginClose
    /\ UNCHANGED <<settings, process, traceVars, traced, registryVars, closed, position, raised,
                   disposed, doctorVars>>

HostCloses ==
    /\ process = "host" /\ stage = "open"
    /\ BeginClose
    /\ UNCHANGED <<settings, process, traceVars, traced, registryVars, closed, position, raised,
                   disposed, doctorVars>>

-----------------------------------------------------------------------------
(* Doctor *)

Finds(p) == problems' = problems \cup p

(* It connects, or not, and looks for one of the tables. *)
LookForTables ==
    /\ process = "doctor" /\ stage = "open"
    /\ \/ "agent_definitions" \in tables /\ stage' = "listing" /\ UNCHANGED <<size, problems>>
       \/ "agent_definitions" \notin tables /\ BeginClose /\ Finds({"tables"})
       \/ BeginClose /\ Finds({"database"})
    /\ UNCHANGED <<settings, process, traceVars, traced, registryVars, closed, position, raised,
                   disposed, verdict>>

(* `bindings` reads the other. *)
ListBindings ==
    /\ process = "doctor" /\ stage = "listing"
    /\ BeginClose
    /\ \/ "agent_environment_bindings" \in tables /\ UNCHANGED problems
       \/ Finds({"database"})
    /\ UNCHANGED <<settings, process, traceVars, traced, registryVars, closed, position, raised,
                   disposed, verdict>>

(* Mutant: what cannot be built without prompts was found out already. *)
ReportWithoutPrompts ==
    /\ process = "doctor" /\ stage \in {"failed", "closed"}
    /\ verdict' = IF problems = {} THEN "fine" ELSE "problems"
    /\ Leave
    /\ UNCHANGED problems

(* Prompts come last; it is fine when there is no problem. *)
Report ==
    /\ process = "doctor" /\ stage \in {"failed", "closed"}
    /\ Finds(IF ProviderFails THEN {"prompts"} ELSE {})
    /\ verdict' = IF problems' = {} THEN "fine" ELSE "problems"
    /\ Leave

-----------------------------------------------------------------------------
(* Platform.close *)

(* Mutant: what was there when it began is closed, and no more. *)
NextOfACopy ==
    /\ stage = "next"
    /\ IF position = size
       THEN stage' = "disposing" /\ UNCHANGED position
       ELSE stage' = "awaiting" /\ position' = position + 1
    /\ UNCHANGED <<settings, process, traceVars, traced, registryVars, closed, size, raised,
                   disposed, doctorVars>>

(* The iterator is asked for the next client. *)
NextClient ==
    /\ stage = "next"
    /\ \/ /\ Len(clients) # size
          /\ stage' = "disposing" /\ raised' = TRUE
          /\ UNCHANGED position
       \/ /\ Len(clients) = size /\ position = size
          /\ stage' = "disposing"
          /\ UNCHANGED <<position, raised>>
       \/ /\ Len(clients) = size /\ position < size
          /\ stage' = "awaiting" /\ position' = position + 1
          /\ UNCHANGED raised
    /\ UNCHANGED <<settings, process, traceVars, traced, registryVars, closed, size, disposed, doctorVars>>

ClientCloses ==
    /\ stage = "awaiting"
    /\ closed' = closed \cup {clients[position]}
    /\ stage' = "next"
    /\ UNCHANGED <<settings, process, traceVars, traced, registryVars, position, size, raised,
                   disposed, doctorVars>>

(* A client fails to close, or the close is cancelled: the rest is left,   *)
(* the engine is not.                                                      *)
CloseFails ==
    /\ stage = "awaiting"
    /\ stage' = "disposing" /\ raised' = TRUE
    /\ UNCHANGED <<settings, process, traceVars, traced, registryVars, closed, position, size,
                   disposed, doctorVars>>

Dispose ==
    /\ stage = "disposing"
    /\ disposed' = TRUE
    /\ stage' = "closed"
    /\ UNCHANGED <<settings, process, traceVars, traced, registryVars, closed, position, size,
                   raised, doctorVars>>

Close == NextClient \/ ClientCloses \/ CloseFails \/ Dispose

-----------------------------------------------------------------------------
Work == CommandEnds \/ LookForTables \/ ListBindings

Next ==
    \/ /\ \/ \E u \in Users : Start(u)
          \/ HostInstalls \/ Build \/ Work \/ HostCloses \/ Close \/ Report \/ Exit
          \/ \E r \in Runs : EndRun(r) \/ (\E p \in Providers : Resolve(r, p))
       /\ UNCHANGED schemaVars
    \/ /\ \E m \in Migrators : Migrate(m, settings.url)
       /\ UNCHANGED platformVars

Spec == Init /\ [][Next]_vars

(* The database answers a command or fails it, runs end by their deadline, *)
(* a client that is asked to close closes or fails, and the loop goes on.  *)
LiveSpec ==
    /\ Spec
    /\ WF_platformVars(Work) /\ \A r \in Runs : WF_platformVars(EndRun(r))
    /\ WF_platformVars(Close)

-----------------------------------------------------------------------------
(* Properties *)

(* Where the SDK's own spans of a run go. *)
Exported == IF traced THEN processors ELSE {}

(* No run of a platform is posted to OpenAI, whatever became of the        *)
(* instrumentation, however often the process builds a platform, and       *)
(* whatever its host installed or instrumented before (R-TR-1, R-TR-2).    *)
NothingIsPostedToOpenAI == Built => "openai" \notin Exported

(* What a host installed goes only when the instrumentation attaches,      *)
(* which it does once in the life of a process (R-TR-7).                   *)
OthersProcessorsStay ==
    [][process' # None =>
        \A p \in AppProcessors \cap processors : p \in processors' \/ (~attached /\ attached')]_vars

(* A doctor that found nothing wrong is right: with these settings a       *)
(* server can be built, and finds its tables.                              *)
QuietDoctorMeansServing == verdict = "fine" => BuildFault("host") = None /\ tables = Tables

(* A close that raises nothing has closed every client by the time it      *)
(* turns to the engine, those of runs that went on meanwhile included: had *)
(* one been built while another was being closed, it would have raised.    *)
(* What it leaves open when it returns was built while the engine was      *)
(* disposed of (bootstrap.py:42), which nothing prevents or notices.       *)
QuietCloseMissesOnlyTheLate ==
    [][~raised' =>
        /\ stage = "next" /\ stage' = "disposing" => closed = Members(clients)
        /\ stage = "disposing" /\ stage' = "closed" =>
              \A i \in DOMAIN clients : i <= size => clients[i] \in closed]_vars

(* The platform of a command is closed when it ends, well or not, and a    *)
(* close that has begun ends with the engine disposed of, whatever the     *)
(* clients do.                                                             *)
PlatformsAreDisposed ==
    ((stage = "open" /\ process \in Commands) \/ stage = "next") ~> (stage = "closed" /\ disposed)
=============================================================================

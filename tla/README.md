# asas-agent, specified

TLA+ specifications of asas-agent, their model-checking configurations and their
machine-checked proofs. Paths below are relative to the repository; the Python
package is `src/asas_agent/`.

## 1. The system

An agent is a row of configuration: a prompt reference, a model, a list of tools,
limits. Authors create *drafts*, *publish* them (a published version is supposed
never to change) and *bind* an environment to a published version. A runtime looks
up what its environment is bound to, resolves the prompt, and runs the agent on
the OpenAI Agents SDK under a deadline.

| Component | State it keeps | Operations | Talks to |
|---|---|---|---|
| Registry (`registry/repository.py`, `db.py`, `schema.py`, `validation.py`) | two Postgres tables: versions, and one binding per agent and environment | create_draft, publish, bind, release; reads get, list_versions, get_active, bindings | Postgres (locks, transactions, a pool of 5+5), the prompt provider while publishing |
| Shared lookups (`registry/lookups.py`) | `_in_flight`: a query per (agent, environment) | get_active, `_finished`, detach; release, publish, bind | the registry; the runs of the process |
| Prompts (`integrations/prompts.py`) | the definition's reference; nothing of their own | fetch, pin, merge, render, split | Langfuse or files |
| File prompts (`FilePrompts`) | a cache keyed by what the file looked like | template, stamp, remember | the file system, from worker threads |
| Run (`runtime/runner.py`, `factory.py`, `context.py`, `api/app.py`) | one deadline per run, a copy of the context | run, build, trace and flush; HTTP status of a failure | lookups, prompts, models, tools, tracer |
| Platform (`bootstrap.py`, `integrations/models.py`, the lifespans) | what a process has built: one HTTP client per provider, the engine, the tracer | build, resolve, close, doctor | the runs that resolve while the platform closes |
| Trace wiring (`bootstrap.py`) | the process's one list of trace processors, the SDK's | instrument, sweep | the host and the instrumentation, which edit the list too |
| Migrations (`migrate.py`, `migrations/`) | the tables and their revision | migrate | other migrations; doctor and servers, which read |
| Settings (`config.py`) | read once per process | | decide how a platform is built, and the ceilings of runs |
| Command line, example console | none | add, publish, promote, list, show, doctor; options, variant, rollback, run | registry reads that are not one transaction |

What is hard here: many processes write the two tables with three kinds of lock
and may die or lose an answer at any statement; lookups are shared on one event
loop, between callbacks; prompts move under publications and under readers in
threads; a run is several awaits under two nested deadlines and a clean-up that
awaits too; a platform closes while runs still resolve; three parties edit one list of
processors; two deployments migrate one database, and either may die.

What makes each part correct:

- *Registry*: a published version never changes, whatever publications race; an
  environment runs a published version whose names resolved and whose prompt
  follows no label; drafts are never numbered alike; a release that reports
  success shipped its own configuration; no operation waits for ever.
- *Shared lookups*: a run is never served from before a promotion that this
  process had made when it asked; nothing is kept once a query is over; one query
  per question; a run that gives up takes nobody's query with it; no run sees
  another's edits.
- *Prompts*: what a published version tells an agent depends on the version and
  the request only; a request is turned away for its values exactly when they are
  not the open names; values are written, never scanned.
- *File prompts*: a cached template is what the file under that stamp holds; an
  edit finished before a call is seen by it.
- *Run*: one deadline from assembly to flush; no turn is taken and no result told after
  any limit; no more turns than any party allows; no span of a run that was not stopped
  left in a buffer; an end whatever the outside does; failures that differ are answered
  with statuses that differ.
- *Platform*: nothing of a run is posted to OpenAI, and what a host installed is not
  taken away for it; a doctor that reports nothing is right; a close that reports
  nothing has closed every client that was there when it turned to the engine, and the
  engine is disposed of in every case.
- *Migrations*: the tables are all there or none is, and the stamp says which.
- *Views*: what a console or the command line tells of an agent is of one version,
  whatever is promoted meanwhile; what a list says of published and of running versions
  holds when it is told; a variant has the instructions of the version it was made of.

## 2. Modules

| Module | Models | Extends, instances |
|---|---|---|
| `RegistryPromise` | the abstract registry: published versions have one meaning for ever, environments run one of them | |
| `Registry` | `AgentRepository`, one action per statement, over sessions, locks and a pool | refines `RegistryPromise` |
| `LookupsPromise` | what a run that asks is promised, with the queries left out | |
| `Lookups` | `SharedAgentLookups`, one action per stretch between two awaits | refines `LookupsPromise`; reads what `Registry` writes |
| `Prompts` | fetch, pin, merge, render | the reference a `Registry` row holds, in full |
| `FilePrompts` | `FilePrompts._template` and its cache, one action per access to the file system or the cache | one provider of `Prompts`, opened up |
| `Runner` | `AgentRuntime.run`, `AgentFactory.build`, the statuses of `create_app` | the lookup is `Lookups`, the prompt `Prompts` |
| `Schema` | `migrate`, the online environment, the first revision | |
| `Platform` | `build_platform`, trace wiring, `ModelRegistry`, `Platform.close`, `asas-agent doctor`, lifespans | extends `Schema`: doctor and servers find what migrations have committed |
| `Views` | the example console, `asas-agent agent list` and `show` | calls of `Registry` as single steps |
| `RegistryProofs`, `LookupsProofs`, `FilePromptsProofs`, `RunnerProofs`, `PlatformProofs`, `ViewsProofs` | theorems | extend the module they are named after; `ViewsProofs` refines `RegistryPromise` |
| `PlaceholdersProofs` | theorems about the cursor loops of `Prompts` | extends `Prompts` |
| `PromptsProofs` | theorems about publication and runs | extends `PlaceholdersProofs` |
| `MC...` | instances for TLC | extend the module they are named after |

The components meet in the code through a handful of calls, and each module says at
its head what it takes from the others. A model that composes all of them would
have no finite instance worth checking; the composition is made where two parts
change each other's outcome (the registry and the lookups under their abstractions, the
views over a registry and a prompt that move, the lookups over promotions,
publications over prompts that move, platforms over migrations) and through the one
answer that crosses the border everywhere else.

Operators that begin a comment with *Mutant:* are forms of the next definition with
a plausible bug in it. No specification uses them; each shows that some property
would notice.

### Registry

State: `defs` and `bindings` are the two tables, `label` the text that the prompt's
label (or file) has now. Per client: `pc` and `job` (where a call is, and its
arguments), `advisory` and `rowLock` (the locks of its transaction), `plan` (the
configuration `publish` is about to write) and `outcome`.

`CallCreateDraft`, `CallPublish`, `CallBind` and `CallRelease` start an operation;
`Connect` waits for a pool slot; then the statements of `repository.py` in their order:
`TakeDraftLock`, `NextVersion`, `InsertDraft` (create_draft); `SelectForUpdate`,
`ValidateAndPin`, `UpdatePublished` (publish); `CheckPublished`, `UpsertBinding` (bind).
`SelectForUpdate` locks any row it finds, a published one too; `ValidateAndPin` is what
follows up to the next statement: it refuses what is no draft, validates and pins, and a
refusal gives the lock back. A release is the three transactions in a row, each with its
own session. The last statement of a transaction and its commit are one step; `Commit`
is where the commit may be lost: it happened, and the caller is told that it failed.
`Abort` fails a session at any statement, `PoolTimeout` fails a wait for the pool,
`EditPrompt` moves the label at any time. A configuration is a body (whose names resolve
or not) and a prompt reference; a prompt's text is usable or not. `PoolSize` is
SQLAlchemy's 5+5.

### Lookups

State: `flight` is `_in_flight`; a query is named after the run that started it, with
its state, what it read, whether `_finished` was called and whether a write detached
it. `live` counts the promotions of a question, so that "older" is a comparison even
when the promotion was a rollback. `Ask` is `get_active` up to its await (a task that
is done is not waited for: that is asyncio), `Deliver` the wake-up, `Finished` the
callback, `GiveUp` a cancelled caller, `Edit` a run that changes the configuration it
was handed. `StartWrite`, `CommitWrite` and `WriteReturns`/`PublishReturns`/
`WriteFails`/`WriteIsLost` are bind, release and publish through this process, which
`Detach` the agent's queries; `DetachAll` is `detach()` without an agent;
`ExternalWrite` is everybody else.

`LookupsPromise` keeps what promotions were made (`live`), what the process was told of
(`told`), and per run what it asked, what the process had been told of by then
(`floor`) and its answer. Under the refinement a run's answer is what the query it was
served by had read. Asking and being served are its only visible steps: starting,
joining, detaching and abandoning queries are stutters.

### Prompts

State: the source (`versions` and `labels` at Langfuse, or a `file`), the reference of
a draft, the reference that was published, what every request would have got at
publication, and the last run. A content is any sequence of tokens; braces, blanks and
words are told apart and nothing else is. `NextVariable`, `VariableNames` and `Fill`
are the cursor loops of the code, as recursive functions. `Pin` is `pin_prompt`,
`Resolve` is the resolution both providers share.

What the loops are compared with has no cursor: `Begins` says where the placeholder a
token belongs to begins (the first opening braces with no closing ones in between, if
closing ones follow at all), `Ends` and `NameBefore` where it ends and what it names;
`Names` and `Asked` collect the names, `Becomes` says what each token turns into
(itself, a value, or nothing), and `Expected` puts that together.

### FilePrompts

State: two files (`<name>.chat.json`, `<name>.md`), the cache's entry, and per thread
the path it chose, its stamp, what it read and where it is. `Choose`, `TakeStamp`,
`Look`, `Read`, `Check` and `Store` are the lines of `_template`, `_cached` and
`_remember`, each one access that other threads and the author come between. The
author opens (which empties a file), writes, replaces and removes. Every write has a
time of its own; the code says of itself that a copy which preserves time and size
goes unnoticed (prompts.py:416), and the model leaves such copies out. `present` is
what a call could have seen since it began, file by file, a missing one included.

### Runner

State per run: the request, where it waits, when it began, when its outer timeout fires,
its definition, its turns, its trace, its outcome and when it ended; and one clock. A
run gives way at four places (`lookup`, `prompt`, `model`, `flush`), and what lies
between is one step: refusals (`Begin`), assembly (`Assemble`, with the faults in the
order the factory meets them), the check after assembly, the move of the deadline and
the opening of the trace (`Execute`), closing (`Close`), and the end of the flush, which
may raise (`FlushEnds`, `FlushFails`). `FiresAt` is the nearer of the two nested
timeouts. Time does not pass while a deadline that has come is not acted on: the loop is
assumed to be on time, which is what "bounded by a deadline" means on one event loop.

### Schema

State: `tables` and `revision`, as everybody sees them, and per migration where it is
and how many of the three tables it has seen to. `StartMigration` has the two refusals
of `migrate`, `ReadRevision` is Alembic's first look, `CreateTable` one CREATE TABLE
(which waits for a name that another transaction has taken), `CommitMigration` the end
of the transaction of env.py's `_run`, `MigrationFails` an error or a death anywhere.

### Platform

State: the settings; whose process there is (`doctor`, a command that reads or writes,
`run`, or a `host` that embeds a server); the processors and whether the SDK is
instrumented; the stage of the platform; the dict of clients in order, which are closed,
what each run has; the place of `Platform.close` with its iterator's position and the
size it noted; what doctor found. A dict that grows under its iterator raises at the
next step; that is Python, and what the property of the quiet close rests on. A close
gives way while it waits for a client (`ClientCloses`, `CloseFails`) and for the engine
(`Dispose`): runs build clients then, and not while it takes the next client.

`Build` is `build_platform`, which gives way to nothing: `BuildFault` has its faults
in the order in which they are met, `BuildTracer` is `_build_tracer`, `Instrumentations`
what `_instrument_spans` may make of the list, `Swept` `_stop_exporting_to_openai`.
`Resolve`, `EndRun`, `CommandEnds` and `HostCloses` use it, `LookForTables`,
`ListBindings` and `Report` are doctor, `NextClient`, `ClientCloses`, `CloseFails` and
`Dispose` close it. `HostInstalls` edits the list at any time.

### Views

State: the versions, what each environment runs, the text the prompt's label has, and
per client what it saw and what it was told. Every call of the registry is one step; the
steps in between are everybody else's (`Elsewhere`). `StartRun`, then `TellSample` or,
with a model key (`Keyed`), `FinishRun`, is the console's run; `StartOptions` and
`Offer` are its list of agents, `StartVariant` to `BindVariant` its variant, `Rollback`
a promotion of an older version; `ListVersions` with `Mark` or `MarkByVersion` are the
lists of the console and of `agent list`; `Show` is `agent show`; `Fails` is a call that
raises anywhere.

## 3. Runs

| Run | Instance | Checks |
|---|---|---|
| `registry` | 3 clients, 2 connections, 1 environment, 2 versions, a label over 3 texts, bodies that validate and do not, a history with an archived version | `TypeOK`, `LiveIsARelease`, `DraftsNeverCollide`, `PublishedNeverChanges`, `ReleaseShipsItsOwn`, `KeepsThePromise` |
| `registry_live` | 3 clients, 2 connections, 1 text at a label, 2 versions; fair | `OperationsEnd` |
| `registry_snapshot` | authored versions and snapshots | `PublishedIsUsable` is violated |
| `lookups` | 2 runs, 2 local writers, another process, 2 promotions; fair | `TypeOK`, `LocalPromotionIsSeen`, `NothingIsKept`, `OneQueryPerQuestion`, `EditsStayPrivate`, `KeepsTheLookupPromise`, `QueriesOutliveRuns`, `LookupsEnd` |
| `lookups_reuse` | 3 runs | `AnswersAreNotReused` is violated |
| `prompts` | both providers, 11 prompts, 6 references, 8 requests, 2 labels, 2 versions | `TypeOK`, `PublishedMeansTheSame`, `AcceptsExactlyTheOpenNames`, `ValuesAreNotScanned`, `OnlyBlanksAreRefused` |
| `file_prompts` | 2 threads, 2 files, 2 contents of one size, 2 writes | `TypeOK`, `CacheIsTrue`, `AnswersAreFresh` |
| `runner` | 8 requests, 18 definitions, with and without a tracer; fair | `TypeOK`, `TurnsAreBounded`, `TracesAreFlushed`, `NothingOutlastsTheDeadline`, `NothingComesOfALateRun`, `RunsEnd` |
| `runner_status` | 2 runs of 2 definitions | `StatusesTellApart` is violated |
| `platform` | 2 migrations, 1 run, 2 providers, 1 processor of the host's, 6 settings; fair | `TypeOK`, `SchemaIsWholeOrAbsent`, `NothingIsPostedToOpenAI`, `QuietDoctorMeansServing`, `OthersProcessorsStay`, `QuietCloseMissesOnlyTheLate`, `PlatformsAreDisposed` |
| `views` | 2 consoles, 2 environments, 2 models, 2 texts, 2 versions, 3 promotions | `TypeOK`, `TellsOfOneVersion`, `VariantsKeepTheInstructions`, `ListsHoldWhenTold` |
| `views_list` | 1 version, 2 environments | `ListsShowWhoRunsWhat` is violated |

`Registry` is checked with symmetry over clients, `FilePrompts` over threads, `Views`
over models and over texts; runs with a liveness property use none.

### Why the bounds are enough

- Three clients on two connections is the least instance in which one client holds a
  lock, another waits for it with the last connection, and a third waits for the pool.
  Two versions let two drafts race and an environment be moved forward and back; in
  `registry_live` they let a client create while another publishes or binds, so that the
  draft lock, a row's lock and the pool are held and waited for at the same time.
- The lookups need two runs for a query to have a starter and a joiner (or a
  successor), and two writers for promotions to return in another order than they
  committed.
- A placeholder can be alone, adjacent to another, nested, unclosed, and in a value;
  each of the shapes of prompts.py's `_split` and `_as_messages` is among the prompts.
  Two versions and two labels let a label move, be taken, or be on nothing.
- Two threads and two writes let each thread be overtaken by a write and by the
  other's store at every line of `_template`; the proofs are for any number.
- Runs of `Runner` share the clock and nothing else, so one run is enough for its
  properties; two are compared in `runner_status`. The four units of time put the
  caller's limit, the definition's and the platform's in every order, with a lookup
  that uses up any of them.
- One run builds a client while the one before it is being closed, with two
  providers; the six settings are all well, with and without tracing, and each step of
  a build failing. Two migrations are one that commits and one that finds it
  committed, or both half-way.
- Two consoles on two versions: one saves a variant while the other is told; two texts
  let the label move under a variant.
- `MaxVersion`, `MaxVersions`, `MaxWrites`, `MaxTime` and `MaxBinds` are bounds of the
  models and not of the code; each is named as a bound where it is declared, and
  the theorems about a module hold for any value of its bounds.

`runner` and `runner_status` switch the deadlock check off: when every run has ended,
there is nothing left to do. All other runs check for deadlock.

### Fairness

- `Registry`: strong fairness of each client's next statement. Postgres grants locks
  in the order they were asked for and the pool serves its waiters in order, so a
  client whose turn comes again and again is served; statements answer or fail. No
  client is obliged to call anything.
- `Lookups`: weak fairness of a query's steps and of the loop's callbacks. The loop runs
  what is ready; that the database answers or fails is an assumption, since db.py:69
  sets no timeout on its statements. Nothing is assumed of callers or writers.
- `Runner`: the clock goes on and timers that are due are acted on. Nothing is assumed
  of the database, the prompt service, the model or the trace backend: `RunsEnd` holds
  if none of them ever answers.
- `Platform`: weak fairness of a command's work, of the end of a run and of the steps of
  a close: the database answers or fails, runs end by their deadline (`RunsEnd`), a
  client that is asked to close closes or fails. Nothing is assumed of hosts, which
  need not close, nor of migrations, which may hang or die.

## 4. Disagreements

Each of these is a run that finds its property violated by what the code does.

- **Authored snapshots are published unseen** (`registry_snapshot`). `pin_prompt`
  returns a reference that carries its own prompt as it is; spec.md:111 has the
  system refuse at publication a prompt that cannot instruct an agent.
- **An answer is handed out after it was returned** (`lookups_reuse`). A run that asks
  between the end of a query and its callback joins a task that is done; spec.md:149
  says a lookup must not reuse an answer once it has returned. The answer is
  at most one query old (`NothingIsKept`) and never older than a local promotion
  (`LocalPromotionIsSeen`).
- **Two failures, one status** (`runner_status`). A definition that names a tool the
  application lacks is answered with 403 like a tool that the caller may not use;
  spec.md:218 tells a broken definition from a refused tool.
- **A list that forgets environments** (`views_list`). `agent list` shows, of several
  environments that run one version, the last by name.

Others were met while modelling and are no runs of this project; their steps are in the
modules, and the passing properties are stated so as to be true of them:

- A promotion whose call raises after its commit does not detach (`WriteIsLost`), so
  `LocalPromotionIsSeen` speaks of calls that returned; spec.md:172 does not.
- A published system message that is one placeholder is refused by a run whose value
  is blank (`Render`), although README.md:194 has shapes settled at publication.
  `OnlyBlanksAreRefused` says that this is the only way a run is refused for its shape.
- The definition's limit cannot bind the lookup that fetches it, so a slow lookup
  goes on to the caller's or the platform's limit (`FiresAt`); spec.md:155 does not
  make the exception.
- The console of the example looks the agent up twice when it has a model key
  (`StartRun`, `FinishRun`): after a promotion in between, its answer has the version
  of one and the model of the other.
- doctor reports whatever goes wrong while a platform is built as a failure of the
  database (`Build` of a doctor; cli/main.py:158): its exit code is right, its word
  may not be.
- `create_app` keeps its platform when it is closed (api/app.py:73): an application whose
  lifespan is entered twice hands out closed clients (`Resolve` of a closed platform).
- A client that a run builds while `Platform.close` waits for the engine
  (`Resolve` while `Dispose` is due; bootstrap.py:42) is not closed by a close that
  raised nothing. `QuietCloseMissesOnlyTheLate` says what is closed then.
- A flush that raises takes the place of the result and leaves the spans unflushed
  (`FlushFails`; runner.py:200); `TracesAreFlushed` does not speak of such a run.
- A deadline that comes during the flush turns a finished result into a timeout
  (`Stop`). No document says otherwise.

## 5. Proofs

`RegistryProofs`, for all agents, environments, clients, configurations, pool sizes and
bounds, from the assumptions of `Registry` (the sets fit together; `None` is none of
the values):

- The inductive invariant is `Base`: types; `JobsFit`, the arguments of a call fit the
  place it is in; `RowsAreHeld`, a client between `SELECT ... FOR UPDATE` and its
  `UPDATE` holds that row's lock, and once it has looked the row is a draft;
  `OneHolder`, no row has two holders. Types alone are not inductive: that a row is
  still a draft when it is written follows from the lock that keeps others from it.
- `TypeCorrect` and `PublishedVersionsNeverChange` follow from `Base`.
- `LiveInv` adds that what is about to be published is a release, that what is published
  is one, and that what `bind` has checked, or bound, is published. The check and
  the upsert of `bind` hold no lock between them: it is `PublishedVersionsNeverChange`
  that carries the fact from one to the other. `LiveIsAlwaysARelease` follows.
- `RegistryKeepsItsPromise`: the refinement. An insert is invisible, an update is
  `Publish`, an upsert is `Bind`, everything else is a stutter. It holds with prompts at
  Langfuse and in files, which the runs have one at a time.
- `DraftInv` adds that between reading the last number and inserting, a client holds the
  advisory lock of the agent, that nobody else holds it, and that the number it picked is
  still the next: `DraftsNeverEverCollide`.
- `ReleasesAreOwn` adds, per place of a release, what its version holds so far: its own
  body while it is a draft or in the plan, and once it is published, for ever. With it
  `ReleasesAlwaysShipTheirOwn`.
- `NobodyWaitsInACircle`: `HoldsUp` says who has the connection, the draft lock or the row
  that a client's next statement waits for. Locks are held only at places where a session
  asks for no other (`HoldersGoOn`, inductive with `Base`), so a wait for a lock ends at a
  client that waits for nobody, and a wait for the pool one step further. That is the part
  of `OperationsEnd` that does not rest on fairness, for any number of clients and
  connections.

`LookupsProofs`, for any number of runs, writers and questions: `QueriesAreAsked` (a run
waits for a query of its own question), `FlightFits` (what is in flight is a query
whose callback has not run), `PromotionsFit` (what the process was told of has been
committed) and `ReadsAreRecent`: a query that can be joined and has read, has read what
every local call that returned had promoted. The last is why writes detach after they
return and before their caller goes on: no run can ask in between. `EditsAreOwn` is
about the copies. The five safety properties of the run follow; `LookupsKeepTheirPromise`
is the refinement, with `AsksAndReads` in addition (no query has read the future).

`PlaceholdersProofs`, for every content of any tokens and any values: the cursor loops
compute what their definitions without a cursor say. The loops move towards the end of
the content, so the induction is over what is left of it. The library's induction
theorems take an operator as a parameter and cannot be used here; `FromTheEnd` gets the
same from `WFMin` and `NatLessThanWellFounded`, which speak of sets: the set of positions
where a claim fails has a last member unless it is empty. `Recursion` shows in the same way
that a function defined from what follows a position exists, is unique and unfolds, which
gives the equations of the loops and of `Expected` (`NamesUnfold`, `FillUnfolds`,
`ExpectedUnfolds`). `NextPlaceholder` is the heart: from a cursor that is not inside a
placeholder, `find("{{")` and `find("}}")` land on the first placeholder that the
definition knows. `NamesAreFound` and `FillIsExpected` follow; `FillIsExpected` has a value
never looked into, since a value is no part of the content the cursor moves over.

`PromptsProofs`, for any prompts, references, labels and requests: `Pinned` says that a
published reference is one no edit reaches (a version, or the prompt itself) and that
it resolves, for each request, to what the draft resolved to. `FixedStays` is why it is
preserved (versions are only added), `PinKeepsTheTemplate` why publication
establishes it. `Carried` adds types, and that what is published carries the values
of its definition and a shape that publication accepts: with it `TypeCorrect`.
`PublishedAlwaysMeansTheSame` and `AlwaysAcceptsExactlyTheOpenNames` follow; the second
needs `OpenNames`, a lemma about the three checks in `merge_variables` and `render`,
and `NamesAreFound`. `ValuesAreNeverScanned` is `FillIsExpected`, message by message
(`Rendering`). `OnlyBlanksAreEverRefused` compares two checks of the shape, before and after
the values: a message that had something in it has nothing left only if all that its
tokens become is blank (`BlankWhenAllAre`).

`FilePromptsProofs`, for any number of threads, any contents and sizes: `CacheInv` says
that no file is from the future, and that the stamp a thread holds, or the cache does,
is *true*: if a file still looks like that, it still holds what goes with it. Stamping
before the read is what makes it so: under writes with times of their own, the re-check
of `_remember` spares the cache entries that nobody would find, and keeps out the stamp
of a file that is missing, which `CacheTypeCorrect` is about. `FreshInv` says that what each
thread would return is among what the files held during its call, `ChoiceInv` that the file
it chose was, at some moment of the call, the one to choose. `CacheTypeCorrect`,
`CacheIsAlwaysTrue` and `AnswersAreAlwaysFresh` follow. The last says of every end of a call
what of the files accounts for it: the template was there; if it is a text prompt, a
moment without a chat prompt; if it is a failure, a malformed chat prompt, no file, or a
chat prompt that came or went meanwhile (`FailureHasAReason`).

`RunnerProofs`, for any requests, definitions and ceilings: `RunsHaveLimits`,
`DeadlinesFit` (which of the limits is the deadline at each place a run waits at),
`TurnsFit`, `TracesFit` (a trace is open while the model is asked, and is left unflushed
only by a run that was stopped or whose flush raised) and `InTime` (while a run asks the
model or flushes, none of its limits is over). `TurnsAreAlwaysBounded` and
`TracesAreAlwaysFlushed` follow from the invariant, `NothingEverOutlastsTheDeadline` and
`NothingEverComesOfALateRun` are action properties that need it in the state before. The
timers alone do not give the second: a lookup may answer after the definition's limit,
and with a stored prompt nothing gives way before the model is asked. `InTime` is
established by the check before it (`AssemblyIsInTime`), kept by the moved deadline
(`TickInTime`), and holds of a result until it is told. The limit of a run is the
caller's and the platform's until its definition is read, and the definition's too from
then on (`KnownLimit`).

`PlatformProofs`, for any settings, providers, processors, runs and migrations:
`ClosedSoFar` (the clients before the iterator's position are closed), `DoctorFinds`
(what a doctor has seen by each stage), and with them `SchemaIsWholeOrAbsent` and
`NothingIsPostedToOpenAI`, which are inductive as they are.
`QuietDoctorAlwaysMeansServing` needs all of it: that a doctor saw one table means that
it saw all because the schema is whole; that it built without prompts is made up for by
what it reports last. `OthersProcessorsAlwaysStay` and
`QuietCloseAlwaysMissesOnlyTheLate` are action properties; the second needs that the
iterator ends at the end of the dict, or the close has raised, and that a client built
later comes after those that were counted (`ClosedSoFar`).

`ViewsProofs`, for any clients, environments and bounds: `Grows` says what each call may
do to the versions (a published one stays, a pinned prompt stays), so what a client
holds stays published (`HeldIsPublished`), what it was told stays true
(`ToldIsPublished`), and a variant keeps its instructions. A list is read in two steps:
`RowsHold` says that the rows that a client has read are as the versions are, or were
drafts then, and is kept because published rows stay as they are (`RowsStillHold`). With
the second read, which is of the moment the list is told (`OnlyMarkingTells`), and the
last environment that runs a version being the one that the dict keeps (`LastPlace`,
`TheLastEnvironmentIsKept`), it gives `ListsAlwaysHoldWhenTold`. `ViewsKeepThePromise`
is the joint to `Registry`: each call of the registry, which is one step in `Views`, is
a step of `RegistryPromise` or a stutter, so the two modules mean the same registry. It
is about steps; `Views` begins with a seeded agent and `RegistryPromise` with none.

Only model-checked: all liveness (`OperationsEnd`, `QueriesOutliveRuns`, `LookupsEnd`,
`RunsEnd`, `PlatformsAreDisposed`; fairness and `ENABLED` are out of the prover's reach).
Every invariant and action property of a passing run is proved.

## 6. Not modelled

- The command line's `init` (it writes three files unless they are there), `serve`, and
  all printing; the parsing, defaults and URL normalisation of `config.py`; path
  resolution of prompt files, JSON parsing, the wording of errors, what is written into
  a trace. Of `config.py` there is what it decides: how a platform is built (`Settings` of
  `Platform`) and the ceilings (`Runner`).
- Registration of capabilities and output schemas: it happens at import, once, before
  anything runs. Looking names up is in `Registry` and `Runner`.
- Migrations in offline mode, which write a script, and `downgrade`, which no command
  reaches.
- The Langfuse SDK with its cache, the OpenInference instrumentation and the Agents SDK.
  What is pinned is what Langfuse returned; the instrumentation takes the list of
  processors over or leaves it; a turn is a step of the model.
- Loop shutdown, which cancels the query tasks themselves (`_finished`'s `cancelled()`
  branch): all that it touches ends with it.
- The examples' data, pages and domain.

## 7. Plan

The order was: what is written for ever (the registry, refining its promise, and proofs
of it), what many runs share (lookups, refining theirs), what publication freezes
(prompts, then the cache under them), what one run lives through (runner), and the parts
at the edge (schema, platform, views). That is here, and every safety property is
proved. Next:

1. `Runner` under `LookupsPromise`: two runs with different deadlines whose lookups
   share a query, as one instance, with the promise in the place of the queries.
2. Releases that overtake each other: what the order of two releases' drafts and binds
   does promise, if anything.
3. A second environment in the instance of `lookups`, if its liveness can be had in less
   than the whole graph.

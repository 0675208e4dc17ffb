------------------------------- MODULE Lookups -------------------------------
(***************************************************************************)
(* registry/lookups.py: SharedAgentLookups, the one asyncio loop of a      *)
(* process whose runs each ask which version their environment is bound to.*)
(*                                                                         *)
(* Code between two awaits is one step.  A run that finds no query for its *)
(* question starts one, which is named after it; a run that finds one      *)
(* joins it.  A query reads the registry at some moment while it is open;  *)
(* its completion only schedules `_finished` and the wake-ups of the runs  *)
(* awaiting it, so other steps of the loop come in between.                *)
(*                                                                         *)
(* The version an environment is bound to is a counter of the promotions   *)
(* made so far, so that "older" means read before a promotion, even when   *)
(* the promotion was a rollback.                                           *)
(***************************************************************************)
EXTENDS Naturals

CONSTANTS Agents, Environments,
          Runs,       \* runs that ask, once each
          Writers,    \* tasks of this process that publish, bind or release
          MaxWrites,  \* bound: promotions of one environment
          None

Questions == Agents \X Environments

(* A configuration in memory: the one a query returned, or a run's copy. *)
Objects == {"shared", "own"} \X Runs

ASSUME LookupsAssumption ==
    /\ MaxWrites \in Nat
    /\ None \notin Runs /\ None \notin Questions /\ None \notin Objects

VARIABLES
    live,      \* live[k]: promotions committed for question k
    flight,    \* _in_flight: flight[k] is a query, or None
    query,     \* query[q]: what became of the query that run q started
    seen,      \* seen[q]: what query q read
    detached,  \* queries a local write took out of _in_flight
    called,    \* called[q]: whether _finished ran for query q
    pc,        \* pc[r]: where run r is
    asks,      \* asks[r]: the question run r asks
    on,        \* on[r]: the query run r awaits, or None
    held,      \* held[r]: the configuration run r was handed
    dirty,     \* configurations some run has edited
    edited,    \* runs that edited what they were handed
    writer,    \* writer[w]: where a local write is
    target,    \* target[w]: the question it writes
    committed, \* committed[w]: the promotion it made
    told,      \* told[k]: the last promotion a local call returned from
    floor      \* floor[r]: told, as it was when run r asked

registryVars == <<live>>
queryVars    == <<flight, query, seen, detached, called>>
runVars      == <<pc, asks, on, held, floor>>
objectVars   == <<dirty, edited>>
writerVars   == <<writer, target, committed, told>>
vars == <<registryVars, queryVars, runVars, objectVars, writerVars>>

TypeOK ==
    /\ live \in [Questions -> 0..MaxWrites]
    /\ flight \in [Questions -> Runs \cup {None}]
    /\ query \in [Runs -> {"none", "sent", "read", "returned", "failed"}]
    /\ seen \in [Runs -> 0..MaxWrites]
    /\ detached \subseteq Runs
    /\ called \in [Runs -> BOOLEAN]
    /\ pc \in [Runs -> {"new", "waiting", "served", "failed", "cancelled"}]
    /\ asks \in [Runs -> Questions \cup {None}]
    /\ on \in [Runs -> Runs \cup {None}]
    /\ held \in [Runs -> Objects \cup {None}]
    /\ dirty \subseteq Objects
    /\ edited \subseteq Runs
    /\ writer \in [Writers -> {"idle", "writing", "committed"}]
    /\ target \in [Writers -> Questions \cup {None}]
    /\ committed \in [Writers -> 0..MaxWrites]
    /\ told \in [Questions -> 0..MaxWrites]
    /\ floor \in [Runs -> 0..MaxWrites]

Init ==
    /\ live = [k \in Questions |-> 0]
    /\ flight = [k \in Questions |-> None]
    /\ query = [r \in Runs |-> "none"]
    /\ seen = [r \in Runs |-> 0]
    /\ detached = {}
    /\ called = [r \in Runs |-> FALSE]
    /\ pc = [r \in Runs |-> "new"]
    /\ asks = [r \in Runs |-> None]
    /\ on = [r \in Runs |-> None]
    /\ held = [r \in Runs |-> None]
    /\ dirty = {}
    /\ edited = {}
    /\ writer = [w \in Writers |-> "idle"]
    /\ target = [w \in Writers |-> None]
    /\ committed = [w \in Writers |-> 0]
    /\ told = [k \in Questions |-> 0]
    /\ floor = [r \in Runs |-> 0]

-----------------------------------------------------------------------------
(* Queries *)

Over(q) == query[q] \in {"returned", "failed"}
Open(q) == query[q] \in {"sent", "read"}

(* The task of a query reads the registry when its statement executes. *)
ReadRegistry(q) ==
    /\ query[q] = "sent"
    /\ query' = [query EXCEPT ![q] = "read"]
    /\ seen' = [seen EXCEPT ![q] = live[asks[q]]]
    /\ UNCHANGED <<registryVars, flight, detached, called, runVars, objectVars, writerVars>>

(* The answer reaches the process, and the task is done. *)
QueryReturns(q) ==
    /\ query[q] = "read"
    /\ query' = [query EXCEPT ![q] = "returned"]
    /\ UNCHANGED <<registryVars, flight, seen, detached, called, runVars, objectVars, writerVars>>

(* Nothing bound, no connection, an invalid row: the task raises. *)
QueryFails(q) ==
    /\ Open(q)
    /\ query' = [query EXCEPT ![q] = "failed"]
    /\ UNCHANGED <<registryVars, flight, seen, detached, called, runVars, objectVars, writerVars>>

(* Mutant: nothing is forgotten. *)
FinishedKeeping(q) ==
    /\ Over(q) /\ ~called[q]
    /\ called' = [called EXCEPT ![q] = TRUE]
    /\ UNCHANGED <<registryVars, flight, query, seen, detached, runVars, objectVars, writerVars>>

(* Mutant: `del self._in_flight[key]` without asking whose query it is. *)
FinishedEvicting(q) ==
    /\ Over(q) /\ ~called[q]
    /\ called' = [called EXCEPT ![q] = TRUE]
    /\ flight' = [flight EXCEPT ![asks[q]] = None]
    /\ UNCHANGED <<registryVars, query, seen, detached, runVars, objectVars, writerVars>>

(* Mutant: a query that was replaced is not attended to when it ends. *)
FinishedIfCurrent(q) ==
    /\ Over(q) /\ ~called[q]
    /\ flight[asks[q]] = q
    /\ called' = [called EXCEPT ![q] = TRUE]
    /\ flight' = [flight EXCEPT ![asks[q]] = None]
    /\ UNCHANGED <<registryVars, query, seen, detached, runVars, objectVars, writerVars>>

(* `_finished`, a callback of the loop iteration after the task is done. It *)
(* forgets the query unless another one has taken its place.               *)
Finished(q) ==
    /\ Over(q) /\ ~called[q]
    /\ called' = [called EXCEPT ![q] = TRUE]
    /\ flight' = IF flight[asks[q]] = q
                 THEN [flight EXCEPT ![asks[q]] = None] ELSE flight
    /\ UNCHANGED <<registryVars, query, seen, detached, runVars, objectVars, writerVars>>

-----------------------------------------------------------------------------
(* Runs *)

(* Mutant: the object the query returned, itself. *)
SharedObject(r, q) == <<"shared", q>>

(* `_own_copy` of what query q returned, edits and all. *)
OwnCopy(r, q) == <<"own", r>>

Serve(r, q) ==
    LET object == OwnCopy(r, q) IN
    /\ pc' = [pc EXCEPT ![r] = IF query[q] = "failed" THEN "failed" ELSE "served"]
    /\ held' = IF query[q] = "failed" THEN held
               ELSE [held EXCEPT ![r] = object]
    /\ dirty' = IF <<"shared", q>> \in dirty /\ query[q] # "failed"
                THEN dirty \cup {object} ELSE dirty

(* get_active: join the query in flight, or start one.  Awaiting a task    *)
(* that is already done does not give way to the loop.                     *)
Ask(r, k) ==
    /\ pc[r] = "new"
    /\ asks' = [asks EXCEPT ![r] = k]
    /\ floor' = [floor EXCEPT ![r] = told[k]]
    /\ IF flight[k] = None
       THEN /\ flight' = [flight EXCEPT ![k] = r]
            /\ query' = [query EXCEPT ![r] = "sent"]
            /\ on' = [on EXCEPT ![r] = r]
            /\ pc' = [pc EXCEPT ![r] = "waiting"]
            /\ UNCHANGED <<held, dirty>>
       ELSE /\ on' = [on EXCEPT ![r] = flight[k]]
            /\ IF Over(flight[k])
               THEN Serve(r, flight[k])
               ELSE pc' = [pc EXCEPT ![r] = "waiting"] /\ UNCHANGED <<held, dirty>>
            /\ UNCHANGED <<flight, query>>
    /\ UNCHANGED <<registryVars, seen, detached, called, edited, writerVars>>

(* The shield wakes the run, after `_finished`, which was added first. *)
Deliver(r) ==
    /\ pc[r] = "waiting"
    /\ called[on[r]]
    /\ Serve(r, on[r])
    /\ UNCHANGED <<registryVars, queryVars, asks, on, floor, edited, writerVars>>

(* Mutant: awaited without a shield, the query is cancelled with its run. *)
GiveUpUnshielded(r) ==
    /\ pc[r] = "waiting"
    /\ pc' = [pc EXCEPT ![r] = "cancelled"]
    /\ query' = [query EXCEPT ![on[r]] = IF Open(on[r]) THEN "cancelled" ELSE @]
    /\ UNCHANGED <<registryVars, flight, seen, detached, called, asks, on, held,
                   floor, objectVars, writerVars>>

(* A deadline or a cancelled caller: the shield keeps the query going. *)
GiveUp(r) ==
    /\ pc[r] = "waiting"
    /\ pc' = [pc EXCEPT ![r] = "cancelled"]
    /\ UNCHANGED <<registryVars, queryVars, asks, on, held, floor, objectVars, writerVars>>

(* A run changes the configuration it was handed. *)
Edit(r) ==
    /\ pc[r] = "served"
    /\ r \notin edited
    /\ edited' = edited \cup {r}
    /\ dirty' = dirty \cup {held[r]}
    /\ UNCHANGED <<registryVars, queryVars, runVars, writerVars>>

-----------------------------------------------------------------------------
(* Writes made through this process *)

(* Mutant: the wrong half of a key is compared. *)
DetachByEnvironment(agents) ==
    /\ flight' = [k \in Questions |-> IF k[2] \in agents THEN None ELSE flight[k]]
    /\ detached' = detached \cup
                     {flight[k] : k \in {kk \in Questions : kk[2] \in agents /\ flight[kk] # None}}

(* `detach`: the queries of the agents, in every environment, are forgotten. *)
Detach(agents) ==
    /\ flight' = [k \in Questions |-> IF k[1] \in agents THEN None ELSE flight[k]]
    /\ detached' = detached \cup
                     {flight[k] : k \in {kk \in Questions : kk[1] \in agents /\ flight[kk] # None}}

(* The application has them all forgotten. *)
DetachAll ==
    /\ Detach(Agents)
    /\ UNCHANGED <<registryVars, query, seen, called, runVars, objectVars, writerVars>>

StartWrite(w, k) ==
    /\ writer[w] = "idle"
    /\ writer' = [writer EXCEPT ![w] = "writing"]
    /\ target' = [target EXCEPT ![w] = k]
    /\ UNCHANGED <<registryVars, queryVars, runVars, objectVars, committed, told>>

(* The repository's transaction commits: the binding has moved. *)
CommitWrite(w) ==
    LET k == target[w] IN
    /\ writer[w] = "writing"
    /\ live[k] < MaxWrites
    /\ live' = [live EXCEPT ![k] = @ + 1]
    /\ committed' = [committed EXCEPT ![w] = live[k] + 1]
    /\ writer' = [writer EXCEPT ![w] = "committed"]
    /\ UNCHANGED <<queryVars, runVars, objectVars, target, told>>

(* The repository's call ends, by returning or by raising. *)
EndWrite(w) ==
    /\ writer' = [writer EXCEPT ![w] = "idle"]
    /\ target' = [target EXCEPT ![w] = None]
    /\ committed' = [committed EXCEPT ![w] = 0]

Later(f, k, n) == IF n > f[k] THEN [f EXCEPT ![k] = n] ELSE f

(* Mutant: the write goes straight to the repository. *)
WriteReturnsUndetached(w) ==
    LET k == target[w] IN
    /\ writer[w] = "committed"
    /\ told' = Later(told, k, committed[w])
    /\ EndWrite(w)
    /\ UNCHANGED <<registryVars, queryVars, runVars, objectVars>>

(* bind and release return: the agent's queries are detached. *)
WriteReturns(w) ==
    LET k == target[w] IN
    /\ writer[w] = "committed"
    /\ Detach({k[1]})
    /\ told' = Later(told, k, committed[w])
    /\ EndWrite(w)
    /\ UNCHANGED <<registryVars, query, seen, called, runVars, objectVars>>

(* publish returns: it moves no binding, and detaches all the same. *)
PublishReturns(w) ==
    /\ writer[w] = "writing"
    /\ Detach({target[w][1]})
    /\ EndWrite(w)
    /\ UNCHANGED <<registryVars, query, seen, called, runVars, objectVars, told>>

(* The call raises before anything is committed: nothing is detached. *)
WriteFails(w) ==
    /\ writer[w] = "writing"
    /\ EndWrite(w)
    /\ UNCHANGED <<registryVars, queryVars, runVars, objectVars, told>>

(* The caller is cancelled, or the connection lost, once the commit is     *)
(* made: the exception passes the line that detaches.                      *)
WriteIsLost(w) ==
    /\ writer[w] = "committed"
    /\ EndWrite(w)
    /\ UNCHANGED <<registryVars, queryVars, runVars, objectVars, told>>

(* Another process, or the CLI, promotes. *)
ExternalWrite(k) ==
    /\ live[k] < MaxWrites
    /\ live' = [live EXCEPT ![k] = @ + 1]
    /\ UNCHANGED <<queryVars, runVars, objectVars, writerVars>>

-----------------------------------------------------------------------------
Next ==
    \/ \E r \in Runs :
          \/ ReadRegistry(r) \/ QueryReturns(r) \/ QueryFails(r) \/ Finished(r)
          \/ \E k \in Questions : Ask(r, k)
          \/ Deliver(r) \/ GiveUp(r) \/ Edit(r)
    \/ \E w \in Writers :
          \/ \E k \in Questions : StartWrite(w, k)
          \/ CommitWrite(w) \/ WriteReturns(w) \/ PublishReturns(w)
          \/ WriteFails(w) \/ WriteIsLost(w)
    \/ DetachAll
    \/ \E k \in Questions : ExternalWrite(k)

Spec == Init /\ [][Next]_vars

(* The loop runs what is ready, and the database answers or fails. *)
Fairness ==
    \A r \in Runs : /\ WF_vars(ReadRegistry(r))
                    /\ WF_vars(QueryReturns(r))
                    /\ WF_vars(Finished(r))
                    /\ WF_vars(Deliver(r))

FairSpec == Spec /\ Fairness

-----------------------------------------------------------------------------
(* Properties *)

Answered(r) == pc[r] = "served"

(* A run that arrives after a promotion made in this process has returned  *)
(* is never served by a query that read the registry before it (R-RUN-9).  *)
LocalPromotionIsSeen ==
    \A r \in Runs : Answered(r) => seen[on[r]] >= floor[r]

(* A run asks a query that is still open or whose completion has not been  *)
(* noticed yet, never one that has come and gone: staleness is bounded by  *)
(* one query (R-RUN-11).                                                   *)
NothingIsKept == \A k \in Questions : flight[k] # None => ~called[flight[k]]

(* Every open query is the one its question's next run joins, unless a     *)
(* local write has detached it: what is shared is shared by every run that *)
(* overlaps (R-RUN-7), and a query that ends never evicts its successor.   *)
OneQueryPerQuestion ==
    \A q \in Runs : Open(q) => flight[asks[q]] = q \/ q \in detached

(* A run's edits to its configuration reach nobody else (R-RUN-6).         *)
EditsStayPrivate == \A r \in Runs : held[r] \in dirty => r \in edited

(* Whoever gives up, a query that was sent is answered or fails (R-RUN-8). *)
QueriesOutliveRuns == \A r \in Runs : (query[r] = "sent") ~> Over(r)

(* Every run gets an answer, an error or its own cancellation, the ones    *)
(* whose query was detached included.                                      *)
LookupsEnd == \A r \in Runs : (pc[r] = "waiting") ~> (pc[r] # "waiting")

(* What the runs of the process are promised, with the queries left out:   *)
(* an answer lies between what local calls had returned from when it was   *)
(* asked for and what is true when it is given, and is given once, shared, *)
(* detached or abandoned as its query may be (R-RUN-9, R-RUN-11).          *)
Promise == INSTANCE LookupsPromise
             WITH answer <- [r \in Runs |-> IF Answered(r) THEN seen[on[r]] ELSE None]

KeepsTheLookupPromise == Promise!Spec

(* A lookup does not reuse an answer once it has returned (R-RUN-1).       *)
AnswersAreNotReused ==
    [][\A r, s \in Runs :
          pc[r] = "new" /\ pc'[r] # "new" /\ Answered(s) => on[s] # on'[r]]_vars
=============================================================================

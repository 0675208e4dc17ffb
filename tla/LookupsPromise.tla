---------------------------- MODULE LookupsPromise ----------------------------
(***************************************************************************)
(* What registry/lookups.py promises to a run that asks which version its  *)
(* environment is bound to, with every query, callback and task left out:  *)
(* one answer, and one that was true at some moment between the last       *)
(* promotion the run may know of, because a call of its process had        *)
(* returned from it, and the moment the answer is given.                   *)
(***************************************************************************)
EXTENDS Naturals

CONSTANTS Questions, Runs, None

VARIABLES live,    \* live[k]: promotions made so far
          told,    \* told[k]: the last one that the process was told of
          asks,    \* asks[r]: what run r has asked, or None
          floor,   \* floor[r]: what the process had been told of by then
          answer   \* answer[r]: after which promotion it is true, or None
vars == <<live, told, asks, floor, answer>>

Init ==
    /\ live = [k \in Questions |-> 0]
    /\ told = [k \in Questions |-> 0]
    /\ asks = [r \in Runs |-> None]
    /\ floor = [r \in Runs |-> 0]
    /\ answer = [r \in Runs |-> None]

(* Anybody promotes. *)
Promote(k) ==
    /\ live' = [live EXCEPT ![k] = @ + 1]
    /\ UNCHANGED <<told, asks, floor, answer>>

(* A call of the process returns. *)
Report(k) ==
    /\ \E n \in told[k]..live[k] : told' = [told EXCEPT ![k] = n]
    /\ UNCHANGED <<live, asks, floor, answer>>

Answer(r, k, from) == \E n \in from..live[k] : answer' = [answer EXCEPT ![r] = n]

(* A run asks, and may be answered at once. *)
Ask(r, k) ==
    /\ asks[r] = None
    /\ asks' = [asks EXCEPT ![r] = k]
    /\ floor' = [floor EXCEPT ![r] = told[k]]
    /\ Answer(r, k, told[k]) \/ UNCHANGED answer
    /\ UNCHANGED <<live, told>>

Serve(r) ==
    /\ asks[r] # None /\ answer[r] = None
    /\ Answer(r, asks[r], floor[r])
    /\ UNCHANGED <<live, told, asks, floor>>

Next == \/ \E k \in Questions : Promote(k) \/ Report(k)
        \/ \E r \in Runs : Serve(r) \/ (\E k \in Questions : Ask(r, k))

Spec == Init /\ [][Next]_vars
=============================================================================

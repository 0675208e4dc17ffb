----------------------------- MODULE LookupsProofs -----------------------------
(* Proofs about Lookups: who shares a query, what it has read by then, and *)
(* that nobody sees another's edits, for any number of runs, writers and   *)
(* questions.                                                              *)
EXTENDS Lookups, TLAPS

(* A query has been asked by the run it is named after, and a run that     *)
(* waits for a query or was served by it has asked the same question.      *)
QueriesAreAsked ==
    /\ \A q \in Runs : query[q] # "none" => asks[q] \in Questions /\ pc[q] # "new"
    /\ \A q \in Runs : called[q] => Over(q)
    /\ \A r \in Runs : pc[r] # "new" =>
          /\ asks[r] \in Questions /\ on[r] \in Runs
          /\ query[on[r]] # "none" /\ asks[on[r]] = asks[r]
    /\ \A r \in Runs : pc[r] = "served" => query[on[r]] = "returned"

(* What is in flight is a query for that question, and a finished one only *)
(* until its callback has run.                                             *)
FlightFits ==
    \A k \in Questions : flight[k] # None =>
        query[flight[k]] # "none" /\ asks[flight[k]] = k /\ ~called[flight[k]]

(* Promotions are counted by the database first.                           *)
PromotionsFit ==
    /\ \A k \in Questions : told[k] <= live[k]
    /\ \A w \in Writers : writer[w] # "idle" => target[w] \in Questions
    /\ \A w \in Writers : writer[w] = "committed" => committed[w] <= live[target[w]]

(* A query that has read and can still be joined has read what every local *)
(* call that returned had promoted; so has the one a run waits for.        *)
ReadsAreRecent ==
    /\ \A r \in Runs : pc[r] # "new" => floor[r] <= told[asks[r]]
    /\ \A k \in Questions :
          flight[k] # None /\ query[flight[k]] \in {"read", "returned"} => told[k] <= seen[flight[k]]
    /\ \A r \in Runs :
          pc[r] # "new" /\ query[on[r]] \in {"read", "returned"} => floor[r] <= seen[on[r]]

(* Only copies are edited, each by the run it was made for.                *)
EditsAreOwn ==
    /\ dirty \subseteq {<<"own", r>> : r \in edited}
    /\ \A r \in Runs : held[r] \in {None, <<"own", r>>}
    /\ \A r \in Runs : pc[r] = "served" => held[r] = <<"own", r>>

Inv == /\ TypeOK /\ QueriesAreAsked /\ FlightFits /\ PromotionsFit /\ ReadsAreRecent
       /\ OneQueryPerQuestion /\ EditsAreOwn

-----------------------------------------------------------------------------
LEMMA InitInv == Init => Inv
<1> SUFFICES ASSUME Init PROVE Inv
  OBVIOUS
<1> USE LookupsAssumption DEF Init
<1>1. TypeOK
  BY DEF TypeOK
<1>2. QueriesAreAsked /\ FlightFits /\ PromotionsFit /\ ReadsAreRecent
  BY DEF QueriesAreAsked, FlightFits, PromotionsFit, ReadsAreRecent
<1>3. OneQueryPerQuestion /\ EditsAreOwn
  BY DEF OneQueryPerQuestion, EditsAreOwn, Open
<1> QED BY <1>1, <1>2, <1>3 DEF Inv

LEMMA ReadRegistryInv ==
    ASSUME Inv, NEW r \in Runs, ReadRegistry(r) PROVE Inv'
<1> USE LookupsAssumption DEF Inv, ReadRegistry, registryVars, queryVars, runVars, objectVars, writerVars
<1>1. TypeOK'
  BY DEF TypeOK, QueriesAreAsked, PromotionsFit
<1>2. QueriesAreAsked'
  BY DEF TypeOK, QueriesAreAsked, FlightFits, Over, Open
<1>3. FlightFits'
  BY DEF TypeOK, QueriesAreAsked, FlightFits, Over, Open
<1>4. PromotionsFit'
  BY DEF TypeOK, PromotionsFit
<1>5. ReadsAreRecent'
  BY DEF TypeOK, QueriesAreAsked, FlightFits, PromotionsFit, ReadsAreRecent, Open
<1>6. OneQueryPerQuestion'
  BY DEF TypeOK, QueriesAreAsked, FlightFits, OneQueryPerQuestion, Open, Over
<1>7. EditsAreOwn'
  BY DEF TypeOK, EditsAreOwn
<1> QED BY <1>1, <1>2, <1>3, <1>4, <1>5, <1>6, <1>7

LEMMA QueryReturnsInv ==
    ASSUME Inv, NEW r \in Runs, QueryReturns(r) PROVE Inv'
<1> USE LookupsAssumption DEF Inv, QueryReturns, registryVars, queryVars, runVars, objectVars, writerVars
<1>1. TypeOK'
  BY DEF TypeOK, QueriesAreAsked, PromotionsFit
<1>2. QueriesAreAsked'
  BY DEF TypeOK, QueriesAreAsked, FlightFits, Over, Open
<1>3. FlightFits'
  BY DEF TypeOK, QueriesAreAsked, FlightFits, Over, Open
<1>4. PromotionsFit'
  BY DEF TypeOK, PromotionsFit
<1>5. ReadsAreRecent'
  BY DEF TypeOK, QueriesAreAsked, FlightFits, PromotionsFit, ReadsAreRecent, Open
<1>6. OneQueryPerQuestion'
  BY DEF TypeOK, QueriesAreAsked, FlightFits, OneQueryPerQuestion, Open, Over
<1>7. EditsAreOwn'
  BY DEF TypeOK, EditsAreOwn
<1> QED BY <1>1, <1>2, <1>3, <1>4, <1>5, <1>6, <1>7

LEMMA QueryFailsInv ==
    ASSUME Inv, NEW r \in Runs, QueryFails(r) PROVE Inv'
<1> USE LookupsAssumption DEF Inv, QueryFails, registryVars, queryVars, runVars, objectVars, writerVars
<1>1. TypeOK'
  BY DEF TypeOK, QueriesAreAsked, PromotionsFit
<1>2. QueriesAreAsked'
  BY DEF TypeOK, QueriesAreAsked, FlightFits, Over, Open
<1>3. FlightFits'
  BY DEF TypeOK, QueriesAreAsked, FlightFits, Over, Open
<1>4. PromotionsFit'
  BY DEF TypeOK, PromotionsFit
<1>5. ReadsAreRecent'
  BY DEF TypeOK, QueriesAreAsked, FlightFits, PromotionsFit, ReadsAreRecent, Open
<1>6. OneQueryPerQuestion'
  BY DEF TypeOK, QueriesAreAsked, FlightFits, OneQueryPerQuestion, Open, Over
<1>7. EditsAreOwn'
  BY DEF TypeOK, EditsAreOwn
<1> QED BY <1>1, <1>2, <1>3, <1>4, <1>5, <1>6, <1>7

LEMMA FinishedInv ==
    ASSUME Inv, NEW r \in Runs, Finished(r) PROVE Inv'
<1> USE LookupsAssumption DEF Inv, Finished, registryVars, queryVars, runVars, objectVars, writerVars
<1>1. TypeOK'
  BY DEF TypeOK, QueriesAreAsked, PromotionsFit
<1>2. QueriesAreAsked'
  BY DEF TypeOK, QueriesAreAsked, FlightFits, Over, Open
<1>3. FlightFits'
  BY DEF TypeOK, QueriesAreAsked, FlightFits, Over, Open
<1>4. PromotionsFit'
  BY DEF TypeOK, PromotionsFit
<1>5. ReadsAreRecent'
  BY DEF TypeOK, QueriesAreAsked, FlightFits, PromotionsFit, ReadsAreRecent, Open
<1>6. OneQueryPerQuestion'
  BY DEF TypeOK, QueriesAreAsked, FlightFits, OneQueryPerQuestion, Open, Over
<1>7. EditsAreOwn'
  BY DEF TypeOK, EditsAreOwn
<1> QED BY <1>1, <1>2, <1>3, <1>4, <1>5, <1>6, <1>7

LEMMA GiveUpInv ==
    ASSUME Inv, NEW r \in Runs, GiveUp(r) PROVE Inv'
<1> USE LookupsAssumption DEF Inv, GiveUp, registryVars, queryVars, runVars, objectVars, writerVars
<1>1. TypeOK'
  BY DEF TypeOK, QueriesAreAsked, PromotionsFit
<1>2. QueriesAreAsked'
  BY DEF TypeOK, QueriesAreAsked, FlightFits, Over, Open
<1>3. FlightFits'
  BY DEF TypeOK, QueriesAreAsked, FlightFits, Over, Open
<1>4. PromotionsFit'
  BY DEF TypeOK, PromotionsFit
<1>5. ReadsAreRecent'
  BY DEF TypeOK, QueriesAreAsked, FlightFits, PromotionsFit, ReadsAreRecent, Open
<1>6. OneQueryPerQuestion'
  BY DEF TypeOK, QueriesAreAsked, FlightFits, OneQueryPerQuestion, Open, Over
<1>7. EditsAreOwn'
  BY DEF TypeOK, EditsAreOwn
<1> QED BY <1>1, <1>2, <1>3, <1>4, <1>5, <1>6, <1>7

LEMMA EditInv ==
    ASSUME Inv, NEW r \in Runs, Edit(r) PROVE Inv'
<1> USE LookupsAssumption DEF Inv, Edit, registryVars, queryVars, runVars, objectVars, writerVars
<1>0. held[r] = <<"own", r>> /\ held[r] \in Objects
  BY DEF EditsAreOwn, Objects
<1>1. TypeOK'
  BY <1>0 DEF TypeOK
<1>2. QueriesAreAsked'
  BY DEF TypeOK, QueriesAreAsked, FlightFits, Over, Open
<1>3. FlightFits'
  BY DEF TypeOK, QueriesAreAsked, FlightFits, Over, Open
<1>4. PromotionsFit'
  BY DEF TypeOK, PromotionsFit
<1>5. ReadsAreRecent'
  BY DEF TypeOK, QueriesAreAsked, FlightFits, PromotionsFit, ReadsAreRecent, Open
<1>6. OneQueryPerQuestion'
  BY DEF TypeOK, QueriesAreAsked, FlightFits, OneQueryPerQuestion, Open, Over
<1>7. EditsAreOwn'
  <2>1. dirty' \subseteq {<<"own", d>> : d \in edited'}
    BY <1>0 DEF EditsAreOwn
  <2> QED BY <2>1 DEF EditsAreOwn
<1> QED BY <1>1, <1>2, <1>3, <1>4, <1>5, <1>6, <1>7

LEMMA AskInv ==
    ASSUME Inv, NEW r \in Runs, NEW k \in Questions, Ask(r, k) PROVE Inv'
<1> USE LookupsAssumption DEF Inv, Ask, Serve, OwnCopy, registryVars, queryVars, runVars, objectVars, writerVars
<1>0. <<"own", r>> \in Objects
  BY DEF Objects
<1>1. TypeOK'
  BY <1>0 DEF TypeOK, QueriesAreAsked
<1>2. QueriesAreAsked'
  BY DEF TypeOK, QueriesAreAsked, FlightFits, Over, Open
<1>3. FlightFits'
  BY DEF TypeOK, QueriesAreAsked, FlightFits, Over, Open
<1>4. PromotionsFit'
  BY DEF TypeOK, PromotionsFit
<1>5. ReadsAreRecent'
  BY DEF TypeOK, QueriesAreAsked, FlightFits, PromotionsFit, ReadsAreRecent, Open
<1>6. OneQueryPerQuestion'
  BY DEF TypeOK, QueriesAreAsked, FlightFits, OneQueryPerQuestion, Open, Over
<1>7. EditsAreOwn'
  BY DEF TypeOK, EditsAreOwn
<1> QED BY <1>1, <1>2, <1>3, <1>4, <1>5, <1>6, <1>7

LEMMA DeliverInv ==
    ASSUME Inv, NEW r \in Runs, Deliver(r) PROVE Inv'
<1> USE LookupsAssumption DEF Inv, Deliver, Serve, OwnCopy, registryVars, queryVars, runVars, objectVars, writerVars
<1>0. <<"own", r>> \in Objects
  BY DEF Objects
<1>1. TypeOK'
  BY <1>0 DEF TypeOK, QueriesAreAsked
<1>2. QueriesAreAsked'
  BY DEF TypeOK, QueriesAreAsked, FlightFits, Over, Open
<1>3. FlightFits'
  BY DEF TypeOK, QueriesAreAsked, FlightFits, Over, Open
<1>4. PromotionsFit'
  BY DEF TypeOK, PromotionsFit
<1>5. ReadsAreRecent'
  BY DEF TypeOK, QueriesAreAsked, FlightFits, PromotionsFit, ReadsAreRecent, Open
<1>6. OneQueryPerQuestion'
  BY DEF TypeOK, QueriesAreAsked, FlightFits, OneQueryPerQuestion, Open, Over
<1>7. EditsAreOwn'
  BY DEF TypeOK, EditsAreOwn
<1> QED BY <1>1, <1>2, <1>3, <1>4, <1>5, <1>6, <1>7

LEMMA StartWriteInv ==
    ASSUME Inv, NEW w \in Writers, NEW k \in Questions, StartWrite(w, k) PROVE Inv'
<1> USE LookupsAssumption DEF Inv, StartWrite, registryVars, queryVars, runVars, objectVars, writerVars
<1>1. TypeOK'
  BY DEF TypeOK, QueriesAreAsked, PromotionsFit
<1>2. QueriesAreAsked'
  BY DEF TypeOK, QueriesAreAsked, FlightFits, Over, Open
<1>3. FlightFits'
  BY DEF TypeOK, QueriesAreAsked, FlightFits, Over, Open
<1>4. PromotionsFit'
  BY DEF TypeOK, PromotionsFit
<1>5. ReadsAreRecent'
  BY DEF TypeOK, QueriesAreAsked, FlightFits, PromotionsFit, ReadsAreRecent, Open
<1>6. OneQueryPerQuestion'
  BY DEF TypeOK, QueriesAreAsked, FlightFits, OneQueryPerQuestion, Open, Over
<1>7. EditsAreOwn'
  BY DEF TypeOK, EditsAreOwn
<1> QED BY <1>1, <1>2, <1>3, <1>4, <1>5, <1>6, <1>7

LEMMA CommitWriteInv ==
    ASSUME Inv, NEW w \in Writers, CommitWrite(w) PROVE Inv'
<1> USE LookupsAssumption DEF Inv, CommitWrite, registryVars, queryVars, runVars, objectVars, writerVars
<1>1. TypeOK'
  BY DEF TypeOK, QueriesAreAsked, PromotionsFit
<1>2. QueriesAreAsked'
  BY DEF TypeOK, QueriesAreAsked, FlightFits, Over, Open
<1>3. FlightFits'
  BY DEF TypeOK, QueriesAreAsked, FlightFits, Over, Open
<1>4. PromotionsFit'
  BY DEF TypeOK, PromotionsFit
<1>5. ReadsAreRecent'
  BY DEF TypeOK, QueriesAreAsked, FlightFits, PromotionsFit, ReadsAreRecent, Open
<1>6. OneQueryPerQuestion'
  BY DEF TypeOK, QueriesAreAsked, FlightFits, OneQueryPerQuestion, Open, Over
<1>7. EditsAreOwn'
  BY DEF TypeOK, EditsAreOwn
<1> QED BY <1>1, <1>2, <1>3, <1>4, <1>5, <1>6, <1>7

LEMMA WriteReturnsInv ==
    ASSUME Inv, NEW w \in Writers, WriteReturns(w) PROVE Inv'
<1> USE LookupsAssumption DEF Inv, WriteReturns, EndWrite, Detach, Later, registryVars, queryVars, runVars, objectVars, writerVars
<1>1. TypeOK'
  BY DEF TypeOK, QueriesAreAsked, PromotionsFit
<1>2. QueriesAreAsked'
  BY DEF TypeOK, QueriesAreAsked, FlightFits, Over, Open
<1>3. FlightFits'
  BY DEF TypeOK, QueriesAreAsked, FlightFits, Over, Open
<1>4. PromotionsFit'
  BY DEF TypeOK, PromotionsFit
<1>5. ReadsAreRecent'
  BY DEF TypeOK, QueriesAreAsked, FlightFits, PromotionsFit, ReadsAreRecent, Open
<1>6. OneQueryPerQuestion'
  BY DEF TypeOK, QueriesAreAsked, FlightFits, OneQueryPerQuestion, Open, Over
<1>7. EditsAreOwn'
  BY DEF TypeOK, EditsAreOwn
<1> QED BY <1>1, <1>2, <1>3, <1>4, <1>5, <1>6, <1>7

LEMMA PublishReturnsInv ==
    ASSUME Inv, NEW w \in Writers, PublishReturns(w) PROVE Inv'
<1> USE LookupsAssumption DEF Inv, PublishReturns, EndWrite, Detach, registryVars, queryVars, runVars, objectVars, writerVars
<1>1. TypeOK'
  BY DEF TypeOK, QueriesAreAsked, PromotionsFit
<1>2. QueriesAreAsked'
  BY DEF TypeOK, QueriesAreAsked, FlightFits, Over, Open
<1>3. FlightFits'
  BY DEF TypeOK, QueriesAreAsked, FlightFits, Over, Open
<1>4. PromotionsFit'
  BY DEF TypeOK, PromotionsFit
<1>5. ReadsAreRecent'
  BY DEF TypeOK, QueriesAreAsked, FlightFits, PromotionsFit, ReadsAreRecent, Open
<1>6. OneQueryPerQuestion'
  BY DEF TypeOK, QueriesAreAsked, FlightFits, OneQueryPerQuestion, Open, Over
<1>7. EditsAreOwn'
  BY DEF TypeOK, EditsAreOwn
<1> QED BY <1>1, <1>2, <1>3, <1>4, <1>5, <1>6, <1>7

LEMMA WriteFailsInv ==
    ASSUME Inv, NEW w \in Writers, WriteFails(w) PROVE Inv'
<1> USE LookupsAssumption DEF Inv, WriteFails, EndWrite, registryVars, queryVars, runVars, objectVars, writerVars
<1>1. TypeOK'
  BY DEF TypeOK, QueriesAreAsked, PromotionsFit
<1>2. QueriesAreAsked'
  BY DEF TypeOK, QueriesAreAsked, FlightFits, Over, Open
<1>3. FlightFits'
  BY DEF TypeOK, QueriesAreAsked, FlightFits, Over, Open
<1>4. PromotionsFit'
  BY DEF TypeOK, PromotionsFit
<1>5. ReadsAreRecent'
  BY DEF TypeOK, QueriesAreAsked, FlightFits, PromotionsFit, ReadsAreRecent, Open
<1>6. OneQueryPerQuestion'
  BY DEF TypeOK, QueriesAreAsked, FlightFits, OneQueryPerQuestion, Open, Over
<1>7. EditsAreOwn'
  BY DEF TypeOK, EditsAreOwn
<1> QED BY <1>1, <1>2, <1>3, <1>4, <1>5, <1>6, <1>7

LEMMA WriteIsLostInv ==
    ASSUME Inv, NEW w \in Writers, WriteIsLost(w) PROVE Inv'
<1> USE LookupsAssumption DEF Inv, WriteIsLost, EndWrite, registryVars, queryVars, runVars, objectVars, writerVars
<1>1. TypeOK'
  BY DEF TypeOK, QueriesAreAsked, PromotionsFit
<1>2. QueriesAreAsked'
  BY DEF TypeOK, QueriesAreAsked, FlightFits, Over, Open
<1>3. FlightFits'
  BY DEF TypeOK, QueriesAreAsked, FlightFits, Over, Open
<1>4. PromotionsFit'
  BY DEF TypeOK, PromotionsFit
<1>5. ReadsAreRecent'
  BY DEF TypeOK, QueriesAreAsked, FlightFits, PromotionsFit, ReadsAreRecent, Open
<1>6. OneQueryPerQuestion'
  BY DEF TypeOK, QueriesAreAsked, FlightFits, OneQueryPerQuestion, Open, Over
<1>7. EditsAreOwn'
  BY DEF TypeOK, EditsAreOwn
<1> QED BY <1>1, <1>2, <1>3, <1>4, <1>5, <1>6, <1>7

LEMMA DetachAllInv ==
    ASSUME Inv, DetachAll PROVE Inv'
<1> USE LookupsAssumption DEF Inv, DetachAll, Detach, registryVars, queryVars, runVars, objectVars, writerVars
<1>1. TypeOK'
  BY DEF TypeOK, QueriesAreAsked, PromotionsFit
<1>2. QueriesAreAsked'
  BY DEF TypeOK, QueriesAreAsked, FlightFits, Over, Open
<1>3. FlightFits'
  BY DEF TypeOK, QueriesAreAsked, FlightFits, Over, Open
<1>4. PromotionsFit'
  BY DEF TypeOK, PromotionsFit
<1>5. ReadsAreRecent'
  BY DEF TypeOK, QueriesAreAsked, FlightFits, PromotionsFit, ReadsAreRecent, Open
<1>6. OneQueryPerQuestion'
  BY DEF TypeOK, QueriesAreAsked, FlightFits, OneQueryPerQuestion, Open, Over
<1>7. EditsAreOwn'
  BY DEF TypeOK, EditsAreOwn
<1> QED BY <1>1, <1>2, <1>3, <1>4, <1>5, <1>6, <1>7

LEMMA ExternalWriteInv ==
    ASSUME Inv, NEW k \in Questions, ExternalWrite(k) PROVE Inv'
<1> USE LookupsAssumption DEF Inv, ExternalWrite, registryVars, queryVars, runVars, objectVars, writerVars
<1>1. TypeOK'
  BY DEF TypeOK, QueriesAreAsked, PromotionsFit
<1>2. QueriesAreAsked'
  BY DEF TypeOK, QueriesAreAsked, FlightFits, Over, Open
<1>3. FlightFits'
  BY DEF TypeOK, QueriesAreAsked, FlightFits, Over, Open
<1>4. PromotionsFit'
  BY DEF TypeOK, PromotionsFit
<1>5. ReadsAreRecent'
  BY DEF TypeOK, QueriesAreAsked, FlightFits, PromotionsFit, ReadsAreRecent, Open
<1>6. OneQueryPerQuestion'
  BY DEF TypeOK, QueriesAreAsked, FlightFits, OneQueryPerQuestion, Open, Over
<1>7. EditsAreOwn'
  BY DEF TypeOK, EditsAreOwn
<1> QED BY <1>1, <1>2, <1>3, <1>4, <1>5, <1>6, <1>7

-----------------------------------------------------------------------------
LEMMA NextInv == Inv /\ [Next]_vars => Inv'
<1> SUFFICES ASSUME Inv, [Next]_vars PROVE Inv'
  OBVIOUS
<1>1. ASSUME NEW r \in Runs,
             \/ ReadRegistry(r) \/ QueryReturns(r) \/ QueryFails(r) \/ Finished(r)
             \/ \E k \in Questions : Ask(r, k)
             \/ Deliver(r) \/ GiveUp(r) \/ Edit(r)
      PROVE  Inv'
  BY <1>1, ReadRegistryInv, QueryReturnsInv, QueryFailsInv, FinishedInv, AskInv, DeliverInv,
     GiveUpInv, EditInv
<1>2. ASSUME NEW w \in Writers,
             \/ \E k \in Questions : StartWrite(w, k)
             \/ CommitWrite(w) \/ WriteReturns(w) \/ PublishReturns(w)
             \/ WriteFails(w) \/ WriteIsLost(w)
      PROVE  Inv'
  BY <1>2, StartWriteInv, CommitWriteInv, WriteReturnsInv, PublishReturnsInv, WriteFailsInv,
     WriteIsLostInv
<1>3. CASE DetachAll
  BY <1>3, DetachAllInv
<1>4. ASSUME NEW k \in Questions, ExternalWrite(k) PROVE Inv'
  BY <1>4, ExternalWriteInv
<1>5. CASE UNCHANGED vars
  BY <1>5 DEF vars, registryVars, queryVars, runVars, objectVars, writerVars, Inv, TypeOK,
     QueriesAreAsked, FlightFits, PromotionsFit, ReadsAreRecent, OneQueryPerQuestion, EditsAreOwn,
     Open, Over
<1> QED BY <1>1, <1>2, <1>3, <1>4, <1>5 DEF Next

LEMMA InvHolds == Spec => []Inv
<1> QED BY InitInv, NextInv, PTL DEF Spec

(* The state of the process keeps its types: a query that was cancelled    *)
(* with its run would not (lookups.py, the shields of get_active).         *)
THEOREM LookupsTypeCorrect == Spec => []TypeOK
<1>1. Inv => TypeOK
  BY DEF Inv
<1> QED BY <1>1, InvHolds, PTL

(* A run is never served what was read before a promotion that a call of   *)
(* this process had returned from when the run asked (lookups.py, detach). *)
THEOREM LocalPromotionIsAlwaysSeen == Spec => []LocalPromotionIsSeen
<1>1. Inv => LocalPromotionIsSeen
  <2> SUFFICES ASSUME Inv, NEW r \in Runs, pc[r] = "served" PROVE floor[r] <= seen[on[r]]
    BY DEF LocalPromotionIsSeen, Answered, Inv, TypeOK, QueriesAreAsked
  <2> QED BY DEF Inv, QueriesAreAsked, ReadsAreRecent
<1> QED BY <1>1, InvHolds, PTL

(* A query is joined until its callback has run, and never after           *)
(* (lookups.py, _finished).                                                *)
THEOREM NothingIsEverKept == Spec => []NothingIsKept
<1>1. Inv => NothingIsKept
  BY DEF Inv, FlightFits, NothingIsKept
<1> QED BY <1>1, InvHolds, PTL

(* A query that is open is the one that the next run joins, unless it was  *)
(* detached: none is evicted by another that ends.                         *)
THEOREM AlwaysOneQueryPerQuestion == Spec => []OneQueryPerQuestion
<1>1. Inv => OneQueryPerQuestion
  BY DEF Inv
<1> QED BY <1>1, InvHolds, PTL

(* What a run changes in its configuration no other run holds              *)
(* (lookups.py, _own_copy).                                                *)
THEOREM EditsAlwaysStayPrivate == Spec => []EditsStayPrivate
<1>1. Inv => EditsStayPrivate
  <2> SUFFICES ASSUME Inv, NEW r \in Runs, held[r] \in dirty PROVE r \in edited
    BY DEF EditsStayPrivate
  <2>1. held[r] \in Objects
    BY DEF Inv, TypeOK
  <2>2. held[r] = <<"own", r>>
    BY <2>1, LookupsAssumption DEF Inv, EditsAreOwn
  <2>3. PICK s \in edited : held[r] = <<"own", s>>
    BY DEF Inv, EditsAreOwn
  <2> QED BY <2>2, <2>3
<1> QED BY <1>1, InvHolds, PTL

-----------------------------------------------------------------------------
(* The refinement *)

(* What a query has read is not from the future, and a run asks once.      *)
AsksAndReads ==
    /\ \A q \in Runs : query[q] \in {"read", "returned"} => seen[q] <= live[asks[q]]
    /\ \A r \in Runs : pc[r] = "new" => asks[r] = None

PromiseInv == Inv /\ AsksAndReads

LEMMA InitPromiseInv == Init => PromiseInv
<1> QED BY InitInv DEF Init, PromiseInv, AsksAndReads

LEMMA NextPromiseInv == PromiseInv /\ [Next]_vars => PromiseInv'
<1> SUFFICES ASSUME PromiseInv, [Next]_vars PROVE AsksAndReads'
  BY NextInv DEF PromiseInv
<1> USE DEF PromiseInv, Inv, TypeOK, QueriesAreAsked, AsksAndReads
<1>1. ASSUME NEW q \in Runs, ReadRegistry(q) PROVE AsksAndReads'
  BY <1>1 DEF ReadRegistry, registryVars, runVars
<1>2. ASSUME NEW q \in Runs, QueryReturns(q) \/ QueryFails(q) \/ Finished(q) PROVE AsksAndReads'
  BY <1>2 DEF QueryReturns, QueryFails, Finished, Over, Open, registryVars, runVars
<1>3. ASSUME NEW r \in Runs, NEW k \in Questions, Ask(r, k) PROVE AsksAndReads'
  BY <1>3 DEF Ask, Serve, registryVars
<1>4. ASSUME NEW r \in Runs, Deliver(r) \/ GiveUp(r) \/ Edit(r) PROVE AsksAndReads'
  BY <1>4 DEF Deliver, Serve, GiveUp, Edit, registryVars, queryVars, runVars
<1>5. ASSUME NEW w \in Writers, NEW k \in Questions, StartWrite(w, k) PROVE AsksAndReads'
  BY <1>5 DEF StartWrite, registryVars, queryVars, runVars
<1>6. ASSUME NEW w \in Writers, CommitWrite(w) PROVE AsksAndReads'
  BY <1>6 DEF CommitWrite, queryVars, runVars
<1>7. ASSUME NEW w \in Writers,
             WriteReturns(w) \/ PublishReturns(w) \/ WriteFails(w) \/ WriteIsLost(w)
      PROVE  AsksAndReads'
  BY <1>7 DEF WriteReturns, PublishReturns, WriteFails, WriteIsLost, registryVars, queryVars, runVars
<1>8. ASSUME NEW k \in Questions, ExternalWrite(k) PROVE AsksAndReads'
  BY <1>8 DEF ExternalWrite, queryVars, runVars
<1>9. CASE DetachAll
  BY <1>9 DEF DetachAll, registryVars, runVars
<1>10. CASE UNCHANGED vars
  BY <1>10 DEF vars, registryVars, queryVars, runVars
<1> QED BY <1>1, <1>2, <1>3, <1>4, <1>5, <1>6, <1>7, <1>8, <1>9, <1>10 DEF Next

(* What the refinement takes for the answers.                              *)
Answers == [r \in Runs |-> IF Answered(r) THEN seen[on[r]] ELSE None]

(* Only a step that serves a run changes what runs were answered.          *)
LEMMA AnswersStay ==
    ASSUME PromiseInv, UNCHANGED <<pc, on>>,
           \/ UNCHANGED seen
           \/ \E q \in Runs : ReadRegistry(q)
    PROVE  Answers' = Answers
<1>1. ASSUME NEW r \in Runs, Answered(r) PROVE seen'[on[r]] = seen[on[r]]
  BY <1>1 DEF PromiseInv, Inv, TypeOK, QueriesAreAsked, Answered, ReadRegistry
<1> QED BY <1>1 DEF Answers, Answered

LEMMA InitAnswers == Init => Promise!Init
<1> QED BY DEF Init, Promise!Init, Answered

(* A served run has an answer that the promise allows.                     *)
LEMMA ServedInTime ==
    ASSUME PromiseInv, NEW r \in Runs, NEW q \in Runs, NEW k \in Questions, NEW low \in Nat,
           asks[q] = k, query[q] = "returned", low <= seen[q], pc[r] # "served",
           Serve(r, q), on'[r] = q, \A s \in Runs \ {r} : on'[s] = on[s], UNCHANGED seen
    PROVE  \E n \in low..live[k] : Answers' = [Answers EXCEPT ![r] = n]
<1>1. seen[q] \in low..live[k]
  BY DEF PromiseInv, Inv, TypeOK, AsksAndReads
<1>2. Answers' = [Answers EXCEPT ![r] = seen[q]]
  <2>1. pc' = [pc EXCEPT ![r] = "served"]
    BY DEF Serve
  <2>2. \A s \in Runs : Answers'[s] = IF s = r THEN seen[q] ELSE Answers[s]
    BY <2>1 DEF Answers, Answered, PromiseInv, Inv, TypeOK
  <2> QED BY <2>2 DEF Answers
<1> QED BY <1>1, <1>2

(* Whom a failed query serves has no answer.                               *)
LEMMA NotServed ==
    ASSUME PromiseInv, NEW r \in Runs, pc[r] # "served",
           \E place \in {"waiting", "failed", "cancelled"} : pc' = [pc EXCEPT ![r] = place],
           \A s \in Runs \ {r} : on'[s] = on[s], UNCHANGED seen
    PROVE  Answers' = Answers
<1> QED BY DEF Answers, Answered, PromiseInv, Inv, TypeOK

LEMMA AskIsPromised ==
    ASSUME PromiseInv, NEW r \in Runs, NEW k \in Questions, Ask(r, k)
    PROVE  Promise!Ask(r, k)
<1>1. pc[r] = "new" /\ asks[r] = None
  BY DEF Ask, PromiseInv, AsksAndReads
<1>2. asks' = [asks EXCEPT ![r] = k] /\ floor' = [floor EXCEPT ![r] = told[k]] /\ UNCHANGED <<live, told>>
  BY DEF Ask, registryVars, writerVars
<1>3. UNCHANGED seen /\ \A s \in Runs \ {r} : on'[s] = on[s]
  BY DEF Ask, PromiseInv, Inv, TypeOK
<1>4. Answers' = Answers \/ \E n \in told[k]..live[k] : Answers' = [Answers EXCEPT ![r] = n]
  <2>1. CASE flight[k] # None /\ query[flight[k]] = "returned"
    <3>1. flight[k] \in Runs /\ Serve(r, flight[k]) /\ on'[r] = flight[k]
      BY <2>1 DEF Ask, Over, PromiseInv, Inv, TypeOK
    <3>2. asks[flight[k]] = k /\ told[k] <= seen[flight[k]] /\ told[k] \in Nat
      BY <2>1 DEF PromiseInv, Inv, TypeOK, FlightFits, ReadsAreRecent
    <3> QED BY <1>1, <1>3, <2>1, <3>1, <3>2, ServedInTime
  <2>2. CASE ~(flight[k] # None /\ query[flight[k]] = "returned")
    <3>1. pc' = [pc EXCEPT ![r] = "waiting"] \/ pc' = [pc EXCEPT ![r] = "failed"]
      BY <2>2 DEF Ask, Over, Serve
    <3> QED BY <1>1, <1>3, <3>1, NotServed
  <2> QED BY <2>1, <2>2
<1> QED BY <1>1, <1>2, <1>4 DEF Promise!Ask, Promise!Answer, Answers

LEMMA DeliverIsPromised ==
    ASSUME PromiseInv, NEW r \in Runs, Deliver(r)
    PROVE  Promise!Serve(r) \/ UNCHANGED Promise!vars
<1> DEFINE q == on[r]
<1>1. pc[r] = "waiting" /\ Serve(r, q) /\ UNCHANGED <<live, told, asks, floor, on, seen>>
  BY DEF Deliver, registryVars, queryVars, writerVars
<1>2. q \in Runs /\ asks[q] = asks[r] /\ asks[r] \in Questions /\ Over(q)
  BY <1>1 DEF Deliver, PromiseInv, Inv, QueriesAreAsked
<1>3. CASE query[q] = "returned"
  <2>1. floor[r] \in Nat /\ floor[r] <= seen[q]
    BY <1>1, <1>3 DEF PromiseInv, Inv, TypeOK, ReadsAreRecent
  <2>2. \E n \in floor[r]..live[asks[r]] : Answers' = [Answers EXCEPT ![r] = n]
    BY <1>1, <1>2, <1>3, <2>1, ServedInTime
  <2>3. Answers[r] = None /\ asks[r] # None
    BY <1>1, <1>2, LookupsAssumption DEF Answers, Answered
  <2> QED BY <1>1, <2>2, <2>3 DEF Promise!Serve, Promise!Answer, Answers
<1>4. CASE query[q] = "failed"
  <2>1. pc' = [pc EXCEPT ![r] = "failed"]
    BY <1>1, <1>4 DEF Serve
  <2>2. Answers' = Answers
    BY <1>1, <2>1, NotServed
  <2> QED BY <1>1, <2>2 DEF Promise!vars, Answers
<1> QED BY <1>2, <1>3, <1>4 DEF Over

LEMMA PromotionIsPromised ==
    ASSUME PromiseInv, NEW k \in Questions, live' = [live EXCEPT ![k] = @ + 1],
           UNCHANGED <<told, asks, floor, pc, on, seen>>
    PROVE  Promise!Promote(k)
<1> QED BY AnswersStay DEF Promise!Promote, Answers

LEMMA ReturnIsPromised ==
    ASSUME PromiseInv, NEW w \in Writers, WriteReturns(w)
    PROVE  Promise!Report(target[w])
<1> DEFINE k == target[w]
<1>1. k \in Questions /\ committed[w] <= live[k] /\ told[k] <= live[k]
  BY DEF WriteReturns, PromiseInv, Inv, PromotionsFit
<1>2. told' = Later(told, k, committed[w]) /\ UNCHANGED <<live, asks, floor, pc, on, seen>>
  BY DEF WriteReturns, registryVars, runVars
<1>3. \E n \in told[k]..live[k] : told' = [told EXCEPT ![k] = n]
  <2>1. /\ committed[w] \in Nat /\ told[k] \in Nat /\ live[k] \in Nat
        /\ told = [told EXCEPT ![k] = told[k]]
    BY <1>1 DEF PromiseInv, Inv, TypeOK
  <2>2. CASE committed[w] > told[k]
    <3>1. committed[w] \in told[k]..live[k]
      BY <1>1, <2>1, <2>2
    <3> QED BY <1>2, <2>2, <3>1 DEF Later
  <2>3. CASE ~(committed[w] > told[k])
    <3>1. told[k] \in told[k]..live[k]
      BY <1>1, <2>1
    <3> QED BY <1>2, <2>1, <2>3, <3>1 DEF Later
  <2> QED BY <2>2, <2>3
<1> QED BY <1>2, <1>3, AnswersStay DEF Promise!Report, Answers

LEMMA OthersAreInvisible ==
    ASSUME PromiseInv, UNCHANGED <<live, told, asks, floor, pc, on>>,
           UNCHANGED seen \/ \E q \in Runs : ReadRegistry(q)
    PROVE  UNCHANGED Promise!vars
<1> QED BY AnswersStay DEF Promise!vars, Answers

LEMMA GivingUpIsInvisible ==
    ASSUME PromiseInv, NEW r \in Runs, GiveUp(r)
    PROVE  UNCHANGED Promise!vars
<1>1. /\ pc[r] = "waiting" /\ pc' = [pc EXCEPT ![r] = "cancelled"]
      /\ UNCHANGED <<live, told, asks, floor, on, seen>>
  BY DEF GiveUp, registryVars, queryVars, writerVars
<1> QED BY <1>1, NotServed DEF Promise!vars, Answers

LEMMA StepsArePromised == PromiseInv /\ [Next]_vars => [Promise!Next]_Promise!vars
<1> SUFFICES ASSUME PromiseInv, [Next]_vars PROVE [Promise!Next]_Promise!vars
  OBVIOUS
<1>1. ASSUME NEW r \in Runs,
             ReadRegistry(r) \/ QueryReturns(r) \/ QueryFails(r) \/ Finished(r) \/ Edit(r)
      PROVE  UNCHANGED Promise!vars
  BY <1>1, OthersAreInvisible
     DEF ReadRegistry, QueryReturns, QueryFails, Finished, Edit, registryVars, queryVars, runVars, writerVars
<1>2. ASSUME NEW r \in Runs, NEW k \in Questions, Ask(r, k) PROVE Promise!Next
  BY <1>2, AskIsPromised DEF Promise!Next
<1>3. ASSUME NEW r \in Runs, Deliver(r) PROVE [Promise!Next]_Promise!vars
  BY <1>3, DeliverIsPromised DEF Promise!Next
<1>4. ASSUME NEW r \in Runs, GiveUp(r) PROVE UNCHANGED Promise!vars
  BY <1>4, GivingUpIsInvisible
<1>5. ASSUME NEW w \in Writers,
             \/ \E k \in Questions : StartWrite(w, k)
             \/ PublishReturns(w) \/ WriteFails(w) \/ WriteIsLost(w)
      PROVE  UNCHANGED Promise!vars
  BY <1>5, OthersAreInvisible
     DEF StartWrite, PublishReturns, WriteFails, WriteIsLost, registryVars, queryVars, runVars
<1>6. ASSUME NEW w \in Writers, CommitWrite(w) PROVE Promise!Next
  <2>1. target[w] \in Questions
    BY <1>6 DEF CommitWrite, PromiseInv, Inv, PromotionsFit
  <2>2. Promise!Promote(target[w])
    BY <1>6, <2>1, PromotionIsPromised DEF CommitWrite, queryVars, runVars
  <2> QED BY <2>1, <2>2 DEF Promise!Next
<1>7. ASSUME NEW w \in Writers, WriteReturns(w) PROVE Promise!Next
  <2>1. target[w] \in Questions
    BY <1>7 DEF WriteReturns, PromiseInv, Inv, PromotionsFit
  <2> QED BY <1>7, <2>1, ReturnIsPromised DEF Promise!Next
<1>8. ASSUME NEW k \in Questions, ExternalWrite(k) PROVE Promise!Next
  <2>1. Promise!Promote(k)
    BY <1>8, PromotionIsPromised DEF ExternalWrite, queryVars, runVars, writerVars
  <2> QED BY <2>1 DEF Promise!Next
<1>9. CASE DetachAll
  BY <1>9, OthersAreInvisible DEF DetachAll, registryVars, runVars, writerVars
<1>10. CASE UNCHANGED vars
  BY <1>10, OthersAreInvisible DEF vars, registryVars, queryVars, runVars, writerVars
<1> QED BY <1>1, <1>2, <1>3, <1>4, <1>5, <1>6, <1>7, <1>8, <1>9, <1>10 DEF Next

(* However queries are shared, detached and abandoned, a run is answered   *)
(* once, by something that was true no earlier than the last promotion it  *)
(* may know of: lookups.py implements LookupsPromise.                      *)
THEOREM LookupsKeepTheirPromise == Spec => KeepsTheLookupPromise
<1>1. Init => Promise!Init
  BY InitAnswers
<1> QED BY <1>1, InitPromiseInv, NextPromiseInv, StepsArePromised, PTL
        DEF Spec, KeepsTheLookupPromise, Promise!Spec
=============================================================================

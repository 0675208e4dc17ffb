-------------------------- MODULE PlaceholdersProofs --------------------------
(***************************************************************************)
(* Proofs about the placeholders of Prompts: the cursor that VariableNames *)
(* and Fill move over a content finds the names, and writes the text, that *)
(* Names and Expected define without one.                                  *)
(*                                                                         *)
(* Inductions are by least counterexample: a set of naturals that has a    *)
(* member has a least one.                                                 *)
(***************************************************************************)
EXTENDS Prompts, SequenceTheorems, WellFoundedInduction, TLAPS

LEMMA LeastNatural ==
    ASSUME NEW S \in SUBSET Nat, S # {}
    PROVE  \E m \in S : \A n \in S : m <= n
<1> DEFINE R == OpToRel(<, Nat)
<1>1. \A m, n \in Nat : <<n, m>> \in R <=> n < m
  BY DEF OpToRel
<1>2. \E m \in S : \A n \in S : ~(<<n, m>> \in R)
  BY NatLessThanWellFounded, WFMin
<1> HIDE DEF R
<1>3. \E m \in S : \A n \in S : ~(n < m)
  BY <1>1, <1>2, Zenon
<1> QED BY <1>3

LEMMA LeastIs ==
    ASSUME NEW S \in SUBSET Nat, S # {}
    PROVE  Least(S) \in S /\ \A n \in S : Least(S) <= n
  BY LeastNatural DEF Least

(* The greatest is the one whose distance to the bound is least. *)
LEMMA GreatestIs ==
    ASSUME NEW bound \in Nat, NEW S \in SUBSET (0..bound), S # {}
    PROVE  Greatest(S) \in S /\ \A n \in S : n <= Greatest(S)
<1> DEFINE D == {d \in 0..bound : bound - d \in S}
<1>1. D \in SUBSET Nat /\ D # {}
  <2>1. PICK n \in S : TRUE
    OBVIOUS
  <2>2. n \in 0..bound /\ bound - (bound - n) = n /\ bound - n \in 0..bound
    OBVIOUS
  <2>3. bound - n \in D
    BY <2>2
  <2> QED BY <2>3
<1>2. PICK d \in D : \A e \in D : d <= e
  BY <1>1, LeastNatural
<1>3. \A n \in S : n <= bound - d
  <2> TAKE n \in S
  <2>1. n \in 0..bound /\ bound - (bound - n) = n /\ bound - n \in 0..bound
    OBVIOUS
  <2>2. d <= bound - n
    BY <1>2, <2>1
  <2> QED BY <1>2, <2>1, <2>2
<1>4. bound - d \in S
  BY <1>2
<1> QED BY <1>3, <1>4 DEF Greatest

(* Induction from the end: a place outside S that is the greatest such.    *)
LEMMA FromTheEnd ==
    ASSUME NEW n \in Nat, NEW S,
           \A i \in 1..n : (\A j \in i + 1..n : j \in S) => i \in S
    PROVE  \A i \in 1..n : i \in S
<1> DEFINE outside == {i \in 1..n : i \notin S}
<1> SUFFICES ASSUME outside # {} PROVE FALSE
  OBVIOUS
<1>1. Greatest(outside) \in outside /\ \A i \in outside : i <= Greatest(outside)
  <2>1. outside \in SUBSET (0..n)
    OBVIOUS
  <2> QED BY <2>1, GreatestIs
<1>2. PICK i \in 1..n : i \notin S /\ \A j \in 1..n : j \notin S => j <= i
  BY <1>1
<1>3. \A j \in i + 1..n : j \in S
  BY <1>2
<1> QED BY <1>2, <1>3

-----------------------------------------------------------------------------
(* Strip keeps the tokens from the first that is not blank to the last. *)
LEMMA StripIs ==
    ASSUME NEW s \in Contents
    PROVE  /\ Strip(s) \in Contents
           /\ Strip(s) = <<>> <=> \A p \in DOMAIN s : s[p] = Blank
<1> DEFINE solid == {p \in DOMAIN s : s[p] # Blank}
<1>1. CASE solid = {}
  BY <1>1 DEF Strip, Contents
<1>2. CASE solid # {}
  <2>1. solid \in SUBSET (0..Len(s)) /\ solid \in SUBSET Nat /\ Len(s) \in Nat
    BY DEF Contents
  <2>2. Least(solid) \in solid /\ \A n \in solid : Least(solid) <= n
    BY <1>2, <2>1, LeastIs
  <2>3. Greatest(solid) \in solid /\ \A n \in solid : n <= Greatest(solid)
    BY <1>2, <2>1, GreatestIs
  <2>4. Least(solid) <= Greatest(solid) /\ {Least(solid), Greatest(solid)} \subseteq 1..Len(s)
    BY <2>2, <2>3 DEF Contents
  <2>5. Strip(s) = SubSeq(s, Least(solid), Greatest(solid))
    BY <1>2 DEF Strip
  <2> HIDE DEF solid
  <2>6. Strip(s) \in Seq(Tokens) /\ Len(Strip(s)) = Greatest(solid) - Least(solid) + 1
    BY <2>4, <2>5 DEF Contents
  <2>7. Strip(s) # <<>>
    BY <2>4, <2>6
  <2> USE DEF solid
  <2> QED BY <1>2, <2>6, <2>7 DEF Contents
<1> QED BY <1>1, <1>2

(* What NextVariable finds: the first opening braces from the cursor on    *)
(* that closing ones follow, and the first of those.                       *)
LEMMA Found ==
    ASSUME NEW content \in Contents, NEW i \in 1..Len(content) + 1,
           NEW found, found = NextVariable(content, i), found # None
    PROVE  /\ found.opened \in i..Len(content)
           /\ found.closed \in found.opened + 2..Len(content) + 1
           /\ content[found.opened] = Opening
           /\ content[found.closed - 1] = Closing
           /\ \A q \in i..found.opened - 1 : content[q] # Opening
           /\ \A q \in found.opened..found.closed - 2 : content[q] # Closing
           /\ found.name = Strip(SubSeq(content, found.opened + 1, found.closed - 2))
           /\ found.name \in Contents
<1> DEFINE opens == {q \in i..Len(content) : content[q] = Opening}
           ends  == {q \in Least(opens)..Len(content) : content[q] = Closing}
<1>1. opens # {} /\ ends # {}
  BY DEF NextVariable
<1>2. found = [closed |-> Least(ends) + 1,
               name   |-> Strip(SubSeq(content, Least(opens) + 1, Least(ends) - 1)),
               opened |-> Least(opens)]
  BY <1>1 DEF NextVariable
<1>3. Least(opens) \in opens /\ \A q \in opens : Least(opens) <= q
  <2>1. opens \in SUBSET Nat
    BY DEF Contents
  <2> QED BY <1>1, <2>1, LeastIs
<1>4. Least(ends) \in ends /\ \A q \in ends : Least(ends) <= q
  <2>1. ends \in SUBSET Nat
    <3>1. Least(opens) \in Nat /\ Len(content) \in Nat
      BY <1>3 DEF Contents
    <3> HIDE DEF opens
    <3> QED BY <3>1
  <2> QED BY <1>1, <2>1, LeastIs
<1>5. Opening # Closing
  BY DEF Opening, Closing
<1> DEFINE o == Least(opens)
           e == Least(ends)
<1>6. o \in i..Len(content) /\ content[o] = Opening
  BY <1>3
<1>7. e \in o..Len(content) /\ content[e] = Closing /\ e # o
  BY <1>4, <1>5, <1>6
<1>8. \A q \in i..o - 1 : content[q] # Opening
  BY <1>3, <1>6
<1>9. \A q \in o..e - 1 : content[q] # Closing
  <2> SUFFICES ASSUME NEW q \in o..e - 1, content[q] = Closing PROVE FALSE
    OBVIOUS
  <2>1. q \in ends
    BY <1>6, <1>7 DEF Contents
  <2>2. e <= q
    BY <1>4, <2>1
  <2> QED BY <1>6, <1>7, <2>2
<1>10. found.opened = o /\ found.closed = e + 1
       /\ found.name = Strip(SubSeq(content, o + 1, e - 1))
  BY <1>2
<1> HIDE DEF o, e, opens, ends
<1>11. Len(content) \in Nat /\ o \in Nat /\ e \in Nat
  BY <1>6, <1>7 DEF Contents
<1>12. SubSeq(content, o + 1, e - 1) \in Contents
  BY <1>6, <1>7, <1>11 DEF Contents
<1>13. found.name \in Contents
  BY <1>10, <1>12, StripIs
<1>14. (e + 1) - 1 = e /\ (e + 1) - 2 = e - 1
  BY <1>11
<1> QED BY <1>6, <1>7, <1>8, <1>9, <1>10, <1>11, <1>13, <1>14

(* Nothing is found: no opening braces are left, or no closing ones after  *)
(* the first of them.                                                      *)
LEMMA NotFound ==
    ASSUME NEW content \in Contents, NEW i \in 1..Len(content) + 1,
           NextVariable(content, i) = None
    PROVE  \A b, q \in i..Len(content) :
               ~(b <= q /\ content[b] = Opening /\ content[q] = Closing)
<1> DEFINE opens == {q \in i..Len(content) : content[q] = Opening}
           ends  == {q \in Least(opens)..Len(content) : content[q] = Closing}
<1> SUFFICES ASSUME NEW b \in i..Len(content), NEW q \in i..Len(content),
                    b <= q, content[b] = Opening, content[q] = Closing
             PROVE  FALSE
  OBVIOUS
<1>1. Least(opens) \in opens /\ Least(opens) <= b
  <2>1. b \in opens /\ opens \in SUBSET Nat
    BY DEF Contents
  <2> QED BY <2>1, LeastIs
<1>2. q \in ends /\ ends \in SUBSET Nat
  <2>1. Least(opens) \in Nat /\ Len(content) \in Nat /\ Least(opens) <= q
    BY <1>1 DEF Contents
  <2> HIDE DEF opens
  <2> QED BY <2>1
<1>3. Least(ends) \in ends
  BY <1>2, LeastIs
<1> DEFINE found == [closed |-> Least(ends) + 1,
                     name   |-> Strip(SubSeq(content, Least(opens) + 1, Least(ends) - 1)),
                     opened |-> Least(opens)]
<1>4. NextVariable(content, i) = found
  BY <1>1, <1>2 DEF NextVariable
<1>5. found \in [closed : Nat, name : Contents, opened : Nat]
  <2>1. SubSeq(content, Least(opens) + 1, Least(ends) - 1) \in Contents
    <3>1. Least(opens) \in 1..Len(content) /\ Least(ends) \in 1..Len(content)
      BY <1>1, <1>3
    <3> HIDE DEF opens, ends
    <3> QED BY <3>1 DEF Contents
  <2> QED BY <1>1, <1>2, <1>3, <2>1, StripIs
<1> QED BY <1>4, <1>5, NoneAssumption

-----------------------------------------------------------------------------
(* Recursion towards the end of a sequence: where each value is a base, or *)
(* a step from the value at a later position, there is one function of     *)
(* such values, and no other.                                              *)
Recursive(n, V, base, next, step) ==
    /\ n \in Nat
    /\ base \in [1..n -> V]
    /\ next \in [1..n -> 0..n]
    /\ \A i \in 1..n : next[i] = 0 \/ i < next[i]
    /\ step \in [1..n -> [V -> V]]

Unfolds(f, base, next, step, V) ==
    \A i \in DOMAIN next :
        IF next[i] = 0 THEN f[i] = base[i]
        ELSE f[next[i]] \in V => f[i] = step[i][f[next[i]]]

LEMMA Recursion ==
    ASSUME NEW n, NEW V, NEW base, NEW next, NEW step, Recursive(n, V, base, next, step)
    PROVE  \E f \in [1..n -> V] :
               /\ Unfolds(f, base, next, step, V)
               /\ \A g : Unfolds(g, base, next, step, V) => \A i \in 1..n : g[i] = f[i]
<1> USE DEF Recursive
<1> DEFINE From(k) == n + 1 - k
           Good(k) == \E f \in [From(k)..n -> V] : \A i \in From(k)..n :
                          IF next[i] = 0 THEN f[i] = base[i] ELSE f[i] = step[i][f[next[i]]]
           bad == {k \in 0..n : ~Good(k)}
<1>1. Good(0)
  <2>1. From(0)..n = {} /\ [i \in {} |-> base[i]] \in [{} -> V]
    OBVIOUS
  <2> QED BY <2>1
<1>2. ASSUME NEW k \in 1..n, Good(k - 1) PROVE Good(k)
  <2> DEFINE m == From(k)
  <2>1. m \in 1..n /\ From(k - 1) = m + 1
    OBVIOUS
  <2> HIDE DEF m
  <2>2. PICK f \in [m + 1..n -> V] : \A i \in m + 1..n :
               IF next[i] = 0 THEN f[i] = base[i] ELSE f[i] = step[i][f[next[i]]]
    BY <1>2, <2>1
  <2> DEFINE value == IF next[m] = 0 THEN base[m] ELSE step[m][f[next[m]]]
             g == [i \in m..n |-> IF i = m THEN value ELSE f[i]]
  <2>3. value \in V
    <3>1. CASE next[m] = 0
      BY <2>1, <3>1
    <3>2. CASE next[m] # 0
      <4>1. next[m] \in m + 1..n
        BY <2>1, <3>2
      <4> QED BY <2>1, <3>2, <4>1
    <3> QED BY <3>1, <3>2
  <2>4. g \in [m..n -> V]
    <3> HIDE DEF value
    <3> QED BY <2>1, <2>3
  <2>5. ASSUME NEW i \in m..n
        PROVE  IF next[i] = 0 THEN g[i] = base[i] ELSE g[i] = step[i][g[next[i]]]
    <3>1. CASE next[i] = 0
      BY <2>1, <2>2, <3>1
    <3>2. CASE next[i] # 0
      <4>1. next[i] \in m + 1..n /\ i \in 1..n
        BY <2>1, <3>2
      <4>2. g[next[i]] = f[next[i]]
        BY <2>1, <4>1
      <4> QED BY <2>1, <2>2, <3>2, <4>2
    <3> QED BY <3>1, <3>2
  <2> HIDE DEF g
  <2> QED BY <2>4, <2>5 DEF m
<1>3. Good(n)
  <2> HIDE DEF Good
  <2> SUFFICES ASSUME bad # {} PROVE FALSE
    OBVIOUS
  <2>1. PICK k \in bad : \A j \in bad : k <= j
    <3>1. bad \in SUBSET Nat
      OBVIOUS
    <3> QED BY <3>1, LeastNatural
  <2>2. k \in 1..n /\ k - 1 \notin bad
    BY <1>1, <2>1
  <2>3. Good(k - 1)
    BY <2>2
  <2> QED BY <1>2, <2>1, <2>2, <2>3
<1>4. PICK f \in [1..n -> V] : \A i \in 1..n :
             IF next[i] = 0 THEN f[i] = base[i] ELSE f[i] = step[i][f[next[i]]]
  BY <1>3, From(n) = 1
<1>5. Unfolds(f, base, next, step, V)
  BY <1>4 DEF Unfolds
<1>6. ASSUME NEW g, Unfolds(g, base, next, step, V)
      PROVE  \A i \in 1..n : g[i] = f[i]
  <2> DEFINE same == {i \in 1..n : g[i] = f[i]}
  <2>1. ASSUME NEW i \in 1..n, \A j \in i + 1..n : j \in same PROVE g[i] = f[i]
    <3>1. CASE next[i] = 0
      BY <1>4, <1>6, <3>1 DEF Unfolds
    <3>2. CASE next[i] # 0
      <4>1. next[i] \in i + 1..n
        BY <3>2
      <4>2. g[next[i]] = f[next[i]] /\ f[next[i]] \in V
        BY <2>1, <4>1
      <4> QED BY <1>4, <1>6, <3>2, <4>2 DEF Unfolds
    <3> QED BY <3>1, <3>2
  <2>2. \A i \in 1..n : i \in same
    <3>1. \A i \in 1..n : (\A j \in i + 1..n : j \in same) => i \in same
      BY <2>1
    <3> HIDE DEF same
    <3> QED BY <3>1, FromTheEnd
  <2> QED BY <2>2
<1> QED BY <1>5, <1>6

-----------------------------------------------------------------------------
(* The three functions, of the places of a content and the one behind it.  *)

After(content, i) ==
    IF NextVariable(content, i) = None THEN 0 ELSE NextVariable(content, i).closed

LEMMA AfterIsLater ==
    ASSUME NEW content \in Contents, NEW i \in 1..Len(content) + 1
    PROVE  /\ After(content, i) \in 0..Len(content) + 1
           /\ After(content, i) = 0 <=> NextVariable(content, i) = None
           /\ After(content, i) = 0 \/ i < After(content, i)
<1>1. CASE NextVariable(content, i) = None
  BY <1>1 DEF After, Contents
<1>2. CASE NextVariable(content, i) # None
  <2>1. /\ NextVariable(content, i).opened \in i..Len(content)
        /\ NextVariable(content, i).closed \in NextVariable(content, i).opened + 2..Len(content) + 1
    BY <1>2, Found
  <2> QED BY <1>2, <2>1 DEF After, Contents
<1> QED BY <1>1, <1>2

(* The names found from position i on. *)
NamesFrom(content, f, i) ==
    LET found == NextVariable(content, i)
    IN IF found = None THEN {} ELSE {found.name} \cup f[found.closed]

LEMMA NamesUnfold ==
    ASSUME NEW content \in Contents
    PROVE  \E f \in [1..Len(content) + 1 -> SUBSET Contents] :
               /\ VariableNames(content) = f[1]
               /\ \A i \in 1..Len(content) + 1 : f[i] = NamesFrom(content, f, i)
<1> DEFINE n == Len(content) + 1
           V == SUBSET Contents
           base == [i \in 1..n |-> {}]
           next == [i \in 1..n |-> After(content, i)]
           step == [i \in 1..n |-> [v \in V |-> IF next[i] = 0 THEN v
                                               ELSE {NextVariable(content, i).name} \cup v]]
<1>1. n \in Nat /\ base \in [1..n -> V]
  BY DEF Contents
<1>2. next \in [1..n -> 0..n] /\ \A i \in 1..n : next[i] = 0 \/ i < next[i]
  BY AfterIsLater
<1>3. step \in [1..n -> [V -> V]]
  <2> SUFFICES ASSUME NEW i \in 1..n, NEW v \in V, next[i] # 0
               PROVE  {NextVariable(content, i).name} \cup v \in V
    OBVIOUS
  <2>1. NextVariable(content, i).name \in Contents
    BY AfterIsLater, Found
  <2> QED BY <2>1
<1> HIDE DEF n, V
<1>4. Recursive(n, V, base, next, step)
  BY <1>1, <1>2, <1>3 DEF Recursive
<1>5. PICK f \in [1..n -> V] :
             /\ Unfolds(f, base, next, step, V)
             /\ \A g : Unfolds(g, base, next, step, V) => \A i \in 1..n : g[i] = f[i]
  <2> HIDE DEF base, next, step
  <2> QED BY <1>4, Recursion
<1>6. \A i \in 1..n : f[i] = NamesFrom(content, f, i)
  <2> TAKE i \in 1..n
  <2>1. CASE next[i] = 0
    <3>1. NextVariable(content, i) = None
      BY <2>1, AfterIsLater DEF n
    <3>2. f[i] = base[i]
      BY <1>2, <1>5, <2>1 DEF Unfolds
    <3> QED BY <3>1, <3>2 DEF NamesFrom
  <2>2. CASE next[i] # 0
    <3>1. next[i] \in 1..n /\ next[i] = NextVariable(content, i).closed
      BY <1>2, <2>2 DEF After
    <3>2. f[i] = step[i][f[next[i]]] /\ f[next[i]] \in V
      BY <1>5, <2>2, <3>1 DEF Unfolds
    <3>3. NextVariable(content, i) # None
      BY <2>2, AfterIsLater DEF n
    <3> QED BY <2>2, <3>1, <3>2, <3>3 DEF NamesFrom
  <2> QED BY <2>1, <2>2
<1> DEFINE from[i \in 1..Len(content) + 1] ==
             LET found == NextVariable(content, i)
             IN IF found = None THEN {} ELSE {found.name} \cup from[found.closed]
<1>7. VariableNames(content) = from[1]
  BY DEF VariableNames
<1>8. from = [i \in 1..n |-> NamesFrom(content, from, i)]
  <2>1. f = [i \in 1..n |-> NamesFrom(content, f, i)]
    BY <1>6
  <2> QED BY <2>1, Zenon DEF NamesFrom, n
<1> HIDE DEF from
<1>9. from[1] = f[1]
  <2>1. Unfolds(from, base, next, step, V)
    <3> SUFFICES ASSUME NEW i \in 1..n
                 PROVE  IF next[i] = 0 THEN from[i] = base[i]
                        ELSE from[next[i]] \in V => from[i] = step[i][from[next[i]]]
      BY DEF Unfolds
    <3>1. from[i] = NamesFrom(content, from, i)
      BY <1>8
    <3>2. CASE next[i] = 0
      BY <3>1, <3>2, AfterIsLater DEF NamesFrom, n
    <3>3. CASE next[i] # 0
      <4>1. NextVariable(content, i) # None /\ next[i] = NextVariable(content, i).closed
        BY <3>3, AfterIsLater DEF n, After
      <4> QED BY <3>1, <3>3, <4>1 DEF NamesFrom
    <3> QED BY <3>2, <3>3
  <2>2. 1 \in 1..n
    BY DEF n, Contents
  <2> HIDE DEF base, next, step
  <2> QED BY <1>5, <2>1, <2>2
<1> QED BY <1>5, <1>6, <1>7, <1>9 DEF n, V

LEMMA WrittenIsText ==
    ASSUME NEW values, Valued(values), NEW name \in DOMAIN values
    PROVE  Written(values[name]) \in Contents
  BY DEF Valued, Written, Contents

(* What is written from position i on. *)
FilledFrom(content, variables, f, i) ==
    LET found == NextVariable(content, i)
    IN IF found = None THEN SubSeq(content, i, Len(content))
       ELSE SubSeq(content, i, found.opened - 1)
            \o (IF found.name \in DOMAIN variables
                THEN Written(variables[found.name])
                ELSE SubSeq(content, found.opened, found.closed - 1))
            \o f[found.closed]

LEMMA FillUnfolds ==
    ASSUME NEW content \in Contents, NEW variables, Valued(variables)
    PROVE  \E f \in [1..Len(content) + 1 -> Contents] :
               /\ Fill(content, variables) = f[1]
               /\ \A i \in 1..Len(content) + 1 : f[i] = FilledFrom(content, variables, f, i)
<1> DEFINE n == Len(content) + 1
           V == Contents
           written(i) == LET found == NextVariable(content, i)
                         IN SubSeq(content, i, found.opened - 1)
                            \o (IF found.name \in DOMAIN variables
                                THEN Written(variables[found.name])
                                ELSE SubSeq(content, found.opened, found.closed - 1))
           base == [i \in 1..n |-> SubSeq(content, i, Len(content))]
           next == [i \in 1..n |-> After(content, i)]
           step == [i \in 1..n |-> [v \in V |-> IF next[i] = 0 THEN v ELSE written(i) \o v]]
<1>1. n \in Nat /\ base \in [1..n -> V]
  BY DEF Contents
<1>2. next \in [1..n -> 0..n] /\ \A i \in 1..n : next[i] = 0 \/ i < next[i]
  BY AfterIsLater
<1>3. \A i \in 1..n : next[i] # 0 => written(i) \in Contents
  <2> SUFFICES ASSUME NEW i \in 1..n, NEW found, found = NextVariable(content, i), found # None
               PROVE  SubSeq(content, i, found.opened - 1)
                        \o (IF found.name \in DOMAIN variables
                            THEN Written(variables[found.name])
                            ELSE SubSeq(content, found.opened, found.closed - 1)) \in Contents
    BY AfterIsLater
  <2>1. /\ found.opened \in i..Len(content)
        /\ found.closed \in found.opened + 2..Len(content) + 1
    BY Found
  <2>2. SubSeq(content, i, found.opened - 1) \in Seq(Tokens)
    BY <2>1 DEF Contents
  <2>3. SubSeq(content, found.opened, found.closed - 1) \in Seq(Tokens)
    BY <2>1 DEF Contents
  <2>4. found.name \in DOMAIN variables => Written(variables[found.name]) \in Seq(Tokens)
    BY WrittenIsText DEF Contents
  <2> QED BY <2>2, <2>3, <2>4 DEF Contents
<1> HIDE DEF written
<1>4. step \in [1..n -> [V -> V]]
  BY <1>3 DEF Contents
<1> HIDE DEF n, V
<1>5. Recursive(n, V, base, next, step)
  BY <1>1, <1>2, <1>4 DEF Recursive
<1>6. PICK f \in [1..n -> V] :
             /\ Unfolds(f, base, next, step, V)
             /\ \A g : Unfolds(g, base, next, step, V) => \A i \in 1..n : g[i] = f[i]
  <2> HIDE DEF base, next, step
  <2> QED BY <1>5, Recursion
<1>7. \A i \in 1..n : f[i] = FilledFrom(content, variables, f, i)
  <2> TAKE i \in 1..n
  <2>1. CASE next[i] = 0
    <3>1. NextVariable(content, i) = None
      BY <2>1, AfterIsLater DEF n
    <3>2. f[i] = base[i]
      BY <1>2, <1>6, <2>1 DEF Unfolds
    <3> QED BY <3>1, <3>2 DEF FilledFrom
  <2>2. CASE next[i] # 0
    <3>1. next[i] \in 1..n /\ next[i] = NextVariable(content, i).closed
      BY <1>2, <2>2 DEF After
    <3>2. f[i] = step[i][f[next[i]]] /\ f[next[i]] \in V
      BY <1>6, <2>2, <3>1 DEF Unfolds
    <3>3. NextVariable(content, i) # None
      BY <2>2, AfterIsLater DEF n
    <3> QED BY <2>2, <3>1, <3>2, <3>3 DEF FilledFrom, written
  <2> QED BY <2>1, <2>2
<1> DEFINE from[i \in 1..Len(content) + 1] ==
             LET found == NextVariable(content, i)
             IN IF found = None THEN SubSeq(content, i, Len(content))
                ELSE SubSeq(content, i, found.opened - 1)
                     \o (IF found.name \in DOMAIN variables
                         THEN Written(variables[found.name])
                         ELSE SubSeq(content, found.opened, found.closed - 1))
                     \o from[found.closed]
<1>8. Fill(content, variables) = from[1]
  BY DEF Fill
<1>9. from = [i \in 1..n |-> FilledFrom(content, variables, from, i)]
  <2>1. f = [i \in 1..n |-> FilledFrom(content, variables, f, i)]
    BY <1>7
  <2> QED BY <2>1, Zenon DEF FilledFrom, n
<1> HIDE DEF from
<1>10. from[1] = f[1]
  <2>1. Unfolds(from, base, next, step, V)
    <3> SUFFICES ASSUME NEW i \in 1..n
                 PROVE  IF next[i] = 0 THEN from[i] = base[i]
                        ELSE from[next[i]] \in V => from[i] = step[i][from[next[i]]]
      BY DEF Unfolds
    <3>1. from[i] = FilledFrom(content, variables, from, i)
      BY <1>9
    <3>2. CASE next[i] = 0
      BY <3>1, <3>2, AfterIsLater DEF FilledFrom, n
    <3>3. CASE next[i] # 0
      <4>1. NextVariable(content, i) # None /\ next[i] = NextVariable(content, i).closed
        BY <3>3, AfterIsLater DEF n, After
      <4> QED BY <3>1, <3>3, <4>1 DEF FilledFrom, written
    <3> QED BY <3>2, <3>3
  <2>2. 1 \in 1..n
    BY DEF n, Contents
  <2> HIDE DEF base, next, step
  <2> QED BY <1>6, <2>1, <2>2
<1> QED BY <1>6, <1>7, <1>8, <1>10 DEF n, V

LEMMA BecomesText ==
    ASSUME NEW content \in Contents, NEW values, Valued(values),
           Names(content) \subseteq DOMAIN values, NEW p \in 1..Len(content)
    PROVE  Becomes(content, values, p) \in Contents
<1>1. CASE Begins(content, p) = 0
  BY <1>1 DEF Becomes, Contents
<1>2. CASE Begins(content, p) # 0 /\ content[p] = Closing
  <2>1. NameBefore(content, p) \in DOMAIN values
    BY <1>2 DEF Names, Ends
  <2> QED BY <1>2, <2>1, WrittenIsText DEF Becomes
<1>3. CASE Begins(content, p) # 0 /\ content[p] # Closing
  BY <1>3 DEF Becomes, Contents
<1> QED BY <1>1, <1>2, <1>3

(* What the content from token p on becomes. *)
ExpectedFrom(content, values, f, p) ==
    IF p > Len(content) THEN <<>> ELSE Becomes(content, values, p) \o f[p + 1]

LEMMA ExpectedUnfolds ==
    ASSUME NEW content \in Contents, NEW values, Valued(values),
           Names(content) \subseteq DOMAIN values
    PROVE  \E f \in [1..Len(content) + 1 -> Contents] :
               /\ Expected(content, values) = f[1]
               /\ \A p \in 1..Len(content) + 1 : f[p] = ExpectedFrom(content, values, f, p)
<1> DEFINE n == Len(content) + 1
           V == Contents
           base == [p \in 1..n |-> <<>>]
           next == [p \in 1..n |-> IF p = n THEN 0 ELSE p + 1]
           step == [p \in 1..n |-> [v \in V |-> IF p = n THEN v ELSE Becomes(content, values, p) \o v]]
<1>1. n \in Nat /\ Len(content) \in Nat /\ base \in [1..n -> V]
  BY DEF Contents
<1>2. next \in [1..n -> 0..n] /\ \A p \in 1..n : next[p] = 0 \/ p < next[p]
  BY <1>1
<1>3. step \in [1..n -> [V -> V]]
  <2> SUFFICES ASSUME NEW p \in 1..n, NEW v \in V, p # n
               PROVE  Becomes(content, values, p) \o v \in V
    OBVIOUS
  <2>1. Becomes(content, values, p) \in Contents
    BY <1>1, BecomesText
  <2> QED BY <2>1 DEF Contents
<1> HIDE DEF V
<1>4. Recursive(n, V, base, next, step)
  BY <1>1, <1>2, <1>3 DEF Recursive
<1>5. PICK f \in [1..n -> V] :
             /\ Unfolds(f, base, next, step, V)
             /\ \A g : Unfolds(g, base, next, step, V) => \A p \in 1..n : g[p] = f[p]
  <2> HIDE DEF n, base, next, step
  <2> QED BY <1>4, Recursion
<1>6. \A p \in 1..n : f[p] = ExpectedFrom(content, values, f, p)
  <2> TAKE p \in 1..n
  <2>1. CASE p = n
    <3>1. next[p] = 0 /\ base[p] = <<>> /\ p > Len(content)
      BY <1>1, <2>1
    <3>2. f[p] = base[p]
      BY <1>5, <3>1 DEF Unfolds
    <3> QED BY <3>1, <3>2 DEF ExpectedFrom
  <2>2. CASE p # n
    <3>1. next[p] = p + 1 /\ p + 1 \in 1..n /\ p <= Len(content) /\ next[p] # 0
      BY <1>1, <2>2
    <3>2. f[p] = step[p][f[p + 1]] /\ f[p + 1] \in V
      BY <1>5, <3>1 DEF Unfolds
    <3> QED BY <1>1, <2>2, <3>1, <3>2 DEF ExpectedFrom
  <2> QED BY <2>1, <2>2
<1> DEFINE rest[p \in 1..Len(content) + 1] ==
             IF p > Len(content) THEN <<>> ELSE Becomes(content, values, p) \o rest[p + 1]
<1>7. Expected(content, values) = rest[1]
  BY DEF Expected
<1>8. rest = [p \in 1..n |-> ExpectedFrom(content, values, rest, p)]
  <2>1. f = [p \in 1..n |-> ExpectedFrom(content, values, f, p)]
    BY <1>6
  <2> QED BY <2>1, Zenon DEF ExpectedFrom
<1> HIDE DEF rest
<1>9. rest[1] = f[1]
  <2>1. Unfolds(rest, base, next, step, V)
    <3> SUFFICES ASSUME NEW p \in 1..n
                 PROVE  IF next[p] = 0 THEN rest[p] = base[p]
                        ELSE rest[next[p]] \in V => rest[p] = step[p][rest[next[p]]]
      BY DEF Unfolds
    <3>1. rest[p] = ExpectedFrom(content, values, rest, p)
      BY <1>8
    <3> QED BY <1>1, <3>1 DEF ExpectedFrom
  <2>2. 1 \in 1..n
    BY <1>1
  <2> HIDE DEF base, next, step
  <2> QED BY <1>5, <2>1, <2>2
<1> QED BY <1>5, <1>6, <1>7, <1>9 DEF V

-----------------------------------------------------------------------------
(* Where a cursor may stand: at the start, or behind closing braces.  From *)
(* there on, the placeholders are those that the cursor is yet to find.    *)
Boundary(content, i) == i = 1 \/ content[i - 1] = Closing

LEMMA OpensAfter ==
    ASSUME NEW content \in Contents, NEW i \in 1..Len(content) + 1, Boundary(content, i),
           NEW p \in i..Len(content), NEW b \in 1..p,
           \A q \in b..p - 1 : content[q] # Closing
    PROVE  b >= i
<1>1. i = 1 \/ (content[i - 1] = Closing /\ i - 1 \in 1..p - 1)
  BY DEF Boundary, Contents
<1>2. Len(content) \in Nat
  BY DEF Contents
<1> QED BY <1>1, <1>2

LEMMA NoneLeft ==
    ASSUME NEW content \in Contents, NEW i \in 1..Len(content) + 1, Boundary(content, i),
           NextVariable(content, i) = None, NEW p \in i..Len(content)
    PROVE  Begins(content, p) = 0
<1> DEFINE opens == {b \in 1..p : content[b] = Opening /\ \A q \in b..p - 1 : content[q] # Closing}
<1> SUFFICES ASSUME opens # {}, NEW q \in p..Len(content), content[q] = Closing
             PROVE  FALSE
  BY DEF Begins
<1>1. PICK b \in 1..p : content[b] = Opening /\ \A j \in b..p - 1 : content[j] # Closing
  OBVIOUS
<1>2. b >= i
  BY <1>1, OpensAfter
<1>3. b \in i..Len(content) /\ q \in i..Len(content) /\ b <= q
  BY <1>2 DEF Contents
<1> QED BY <1>1, <1>3, NotFound

LEMMA NextPlaceholder ==
    ASSUME NEW content \in Contents, NEW i \in 1..Len(content) + 1, Boundary(content, i),
           NEW found, found = NextVariable(content, i), found # None
    PROVE  /\ \A p \in i..found.opened - 1 : Begins(content, p) = 0
           /\ \A p \in found.opened..found.closed - 1 : Begins(content, p) = found.opened
<1> DEFINE opens(p) == {b \in 1..p : /\ content[b] = Opening
                                     /\ \A q \in b..p - 1 : content[q] # Closing}
<1>1. PICK o, c : o = found.opened /\ c = found.closed
  OBVIOUS
<1>2. /\ o \in i..Len(content) /\ c \in o + 2..Len(content) + 1
      /\ content[o] = Opening /\ content[c - 1] = Closing
      /\ \A q \in i..o - 1 : content[q] # Opening
      /\ \A q \in o..c - 2 : content[q] # Closing
  BY <1>1, Found
<1>3. Len(content) \in Nat
  BY DEF Contents
<1>4. ASSUME NEW p \in i..Len(content), NEW b \in opens(p) PROVE b >= o
  <2>1. b >= i /\ content[b] = Opening
    BY <1>4, OpensAfter
  <2> QED BY <1>2, <1>3, <2>1
<1>5. ASSUME NEW p \in i..o - 1 PROVE Begins(content, p) = 0
  <2>1. p \in i..Len(content)
    BY <1>2, <1>3
  <2>2. \A b \in opens(p) : b >= o /\ b <= p
    BY <1>4, <2>1
  <2>3. opens(p) = {}
    BY <1>2, <1>3, <2>2
  <2> QED BY <2>3 DEF Begins
<1>6. ASSUME NEW p \in o..c - 1 PROVE Begins(content, p) = o
  <2>1. p \in i..Len(content) /\ c - 1 \in p..Len(content)
    BY <1>2, <1>3
  <2>2. \A q \in o..p - 1 : content[q] # Closing
    BY <1>2, <1>3
  <2>3. o \in opens(p)
    BY <1>2, <1>3, <2>2
  <2>4. opens(p) \in SUBSET Nat /\ opens(p) # {}
    BY <2>3
  <2>5. Least(opens(p)) = o
    <3>1. Least(opens(p)) \in opens(p) /\ \A b \in opens(p) : Least(opens(p)) <= b
      BY <2>4, LeastIs
    <3>2. Least(opens(p)) >= o /\ Least(opens(p)) <= o
      BY <1>4, <2>1, <2>3, <3>1
    <3> QED BY <1>2, <3>1, <3>2
  <2> QED BY <1>2, <2>1, <2>4, <2>5 DEF Begins
<1> QED BY <1>1, <1>5, <1>6

-----------------------------------------------------------------------------
(* variable_names finds the names of the placeholders, and no others,      *)
(* in every content: adjacent, nested, unclosed or stray braces included.  *)
THEOREM NamesAreFound ==
    ASSUME NEW content \in Contents
    PROVE  VariableNames(content) = Names(content)
<1> DEFINE n == Len(content) + 1
           left(i) == {p \in Ends(content) : i <= p}
           names(i) == {NameBefore(content, p) : p \in left(i)}
<1>1. PICK f \in [1..n -> SUBSET Contents] :
             /\ VariableNames(content) = f[1]
             /\ \A i \in 1..n : f[i] = NamesFrom(content, f, i)
  BY NamesUnfold
<1>2. n \in Nat /\ Len(content) \in Nat /\ 1 \in 1..n
  BY DEF Contents
<1> DEFINE found == {i \in 1..n : Boundary(content, i) => f[i] = names(i)}
<1>3. ASSUME NEW i \in 1..n, Boundary(content, i), \A j \in i + 1..n : j \in found
      PROVE  f[i] = names(i)
  <2>1. PICK next : next = NextVariable(content, i)
    OBVIOUS
  <2>2. CASE next = None
    <3>1. \A p \in i..Len(content) : Begins(content, p) = 0
      BY <1>3, <2>1, <2>2, NoneLeft
    <3>2. left(i) = {}
      BY <1>2, <3>1 DEF Ends
    <3>3. f[i] = {}
      BY <1>1, <2>1, <2>2 DEF NamesFrom
    <3> QED BY <3>2, <3>3
  <2>3. CASE next # None
    <3>1. PICK o, c : o = next.opened /\ c = next.closed
      OBVIOUS
    <3>2. /\ o \in i..Len(content) /\ c \in o + 2..n
          /\ content[c - 1] = Closing
          /\ \A q \in o..c - 2 : content[q] # Closing
          /\ next.name = Strip(SubSeq(content, o + 1, c - 2))
      BY <2>1, <2>3, <3>1, Found
    <3>3. /\ \A p \in i..o - 1 : Begins(content, p) = 0
          /\ \A p \in o..c - 1 : Begins(content, p) = o
      BY <1>3, <2>1, <2>3, <3>1, NextPlaceholder
    <3>4. c \in i + 1..n /\ Boundary(content, c) /\ c - 1 \in o..c - 1 /\ (c - 1) - 1 = c - 2
      BY <1>2, <3>2 DEF Boundary
    <3>5. f[c] = names(c)
      BY <1>3, <3>4
    <3>6. NameBefore(content, c - 1) = next.name
      BY <3>2, <3>3, <3>4 DEF NameBefore
    <3>7. left(i) = {c - 1} \cup left(c)
      <4>1. c - 1 \in left(i)
        BY <1>2, <3>2, <3>3, <3>4 DEF Ends
      <4>2. ASSUME NEW p \in left(i), p < c - 1 PROVE FALSE
        <5>1. p \in 1..Len(content) /\ content[p] = Closing /\ Begins(content, p) # 0
          BY DEF Ends
        <5>2. p \in i..o - 1 \/ p \in o..c - 2
          BY <1>2, <3>2, <4>2, <5>1
        <5> QED BY <3>2, <3>3, <5>1, <5>2
      <4>3. left(c) \subseteq left(i)
        BY <1>2, <3>2 DEF Ends
      <4>4. \A p \in left(i) : p = c - 1 \/ p \in left(c)
        BY <1>2, <3>2, <4>2 DEF Ends
      <4> QED BY <4>1, <4>3, <4>4
    <3>8. f[i] = {next.name} \cup f[c]
      BY <1>1, <2>1, <2>3, <3>1 DEF NamesFrom
    <3> QED BY <3>5, <3>6, <3>7, <3>8
  <2> QED BY <2>2, <2>3
<1>4. \A i \in 1..n : i \in found
  <2>1. \A i \in 1..n : (\A j \in i + 1..n : j \in found) => i \in found
    BY <1>3
  <2> HIDE DEF found, n
  <2> QED BY <1>2, <2>1, FromTheEnd
<1>5. f[1] = names(1)
  BY <1>2, <1>4 DEF Boundary
<1>6. left(1) = Ends(content)
  BY <1>2 DEF Ends
<1> QED BY <1>1, <1>5, <1>6 DEF Names

-----------------------------------------------------------------------------
(* What the reference definition makes of a stretch outside placeholders,  *)
(* and of the inside of one.                                               *)
LEMMA Kept ==
    ASSUME NEW content \in Contents, NEW values, NEW o \in 1..Len(content) + 1, NEW i \in 1..o,
           NEW f \in [1..Len(content) + 1 -> Contents],
           \A p \in i..o - 1 : f[p] = <<content[p]>> \o f[p + 1]
    PROVE  f[i] = SubSeq(content, i, o - 1) \o f[o]
<1> DEFINE S == {p \in 1..o : p >= i => f[p] = SubSeq(content, p, o - 1) \o f[o]}
<1>1. Len(content) \in Nat /\ o \in Nat /\ content \in Seq(Tokens)
  BY DEF Contents
<1>2. ASSUME NEW p \in 1..o, p >= i, \A q \in p + 1..o : q \in S
      PROVE  f[p] = SubSeq(content, p, o - 1) \o f[o]
  <2>1. f[o] \in Seq(Tokens)
    BY <1>1 DEF Contents
  <2>2. CASE p = o
    <3>1. SubSeq(content, p, o - 1) = <<>>
      BY <1>1, <2>2
    <3> QED BY <2>1, <2>2, <3>1
  <2>3. CASE p # o
    <3>1. p + 1 \in 1..o /\ p \in 1..Len(content) /\ p \in i..o - 1 /\ o - 1 \in p..Len(content)
      BY <1>1, <1>2, <2>3
    <3>2. f[p + 1] = SubSeq(content, p + 1, o - 1) \o f[o]
      BY <1>1, <1>2, <3>1
    <3>3. SubSeq(content, p, o - 1) = <<content[p]>> \o SubSeq(content, p + 1, o - 1)
      BY <1>1, <3>1
    <3>4. SubSeq(content, p + 1, o - 1) \in Seq(Tokens) /\ <<content[p]>> \in Seq(Tokens)
      BY <1>1, <3>1
    <3>5. f[p] = <<content[p]>> \o (SubSeq(content, p + 1, o - 1) \o f[o])
      BY <3>1, <3>2
    <3>6. <<content[p]>> \o (SubSeq(content, p + 1, o - 1) \o f[o])
            = (<<content[p]>> \o SubSeq(content, p + 1, o - 1)) \o f[o]
      BY <2>1, <3>4, ConcatAssociative
    <3> QED BY <3>3, <3>5, <3>6
  <2> QED BY <2>2, <2>3
<1>3. \A p \in 1..o : p \in S
  <2>1. \A p \in 1..o : (\A q \in p + 1..o : q \in S) => p \in S
    BY <1>2
  <2> HIDE DEF S
  <2> QED BY <1>1, <2>1, FromTheEnd
<1> QED BY <1>1, <1>3

LEMMA Dropped ==
    ASSUME NEW content \in Contents, NEW e \in 1..Len(content) + 1, NEW o \in 1..e,
           NEW f \in [1..Len(content) + 1 -> Contents],
           \A p \in o..e - 1 : f[p] = <<>> \o f[p + 1]
    PROVE  f[o] = f[e]
<1> DEFINE S == {p \in 1..e : p >= o => f[p] = f[e]}
<1>1. Len(content) \in Nat /\ e \in Nat
  BY DEF Contents
<1>2. ASSUME NEW p \in 1..e, p >= o, \A q \in p + 1..e : q \in S
      PROVE  f[p] = f[e]
  <2>1. CASE p # e
    <3>1. p + 1 \in 1..e /\ p \in o..e - 1
      BY <1>1, <1>2, <2>1
    <3>2. f[p + 1] = f[e] /\ f[e] \in Seq(Tokens)
      BY <1>1, <1>2, <3>1 DEF Contents
    <3> QED BY <3>1, <3>2
  <2> QED BY <2>1
<1>3. \A p \in 1..e : p \in S
  <2>1. \A p \in 1..e : (\A q \in p + 1..e : q \in S) => p \in S
    BY <1>2
  <2> HIDE DEF S
  <2> QED BY <1>1, <2>1, FromTheEnd
<1> QED BY <1>1, <1>3

(* _fill writes the content with a value for each placeholder, and never   *)
(* looks into a value.                                                     *)
THEOREM FillIsExpected ==
    ASSUME NEW content \in Contents, NEW values, Valued(values),
           Names(content) \subseteq DOMAIN values
    PROVE  Fill(content, values) = Expected(content, values)
<1> DEFINE n == Len(content) + 1
<1>1. PICK f \in [1..n -> Contents] :
             /\ Fill(content, values) = f[1]
             /\ \A i \in 1..n : f[i] = FilledFrom(content, values, f, i)
  BY FillUnfolds
<1>2. PICK r \in [1..n -> Contents] :
             /\ Expected(content, values) = r[1]
             /\ \A p \in 1..n : r[p] = ExpectedFrom(content, values, r, p)
  BY ExpectedUnfolds
<1>3. n \in Nat /\ Len(content) \in Nat /\ 1 \in 1..n /\ content \in Seq(Tokens)
  BY DEF Contents
<1>4. r[n] = <<>> /\ \A p \in 1..Len(content) : r[p] = Becomes(content, values, p) \o r[p + 1]
  <2>1. n \in 1..n /\ n > Len(content)
    BY <1>3
  <2>2. r[n] = ExpectedFrom(content, values, r, n)
    BY <1>2, <2>1
  <2>3. ASSUME NEW p \in 1..Len(content)
        PROVE  r[p] = Becomes(content, values, p) \o r[p + 1]
    <3>1. p \in 1..n /\ ~(p > Len(content))
      BY <1>3
    <3>2. r[p] = ExpectedFrom(content, values, r, p)
      BY <1>2, <3>1
    <3> QED BY <3>1, <3>2 DEF ExpectedFrom
  <2> QED BY <2>1, <2>2, <2>3 DEF ExpectedFrom
<1> DEFINE equal == {i \in 1..n : Boundary(content, i) => f[i] = r[i]}
<1>5. ASSUME NEW i \in 1..n, Boundary(content, i), \A j \in i + 1..n : j \in equal
      PROVE  f[i] = r[i]
  <2>1. PICK next : next = NextVariable(content, i)
    OBVIOUS
  <2>2. CASE next = None
    <3>1. \A p \in i..Len(content) : Begins(content, p) = 0
      BY <1>5, <2>1, <2>2, NoneLeft
    <3>2. ASSUME NEW p \in i..n - 1 PROVE r[p] = <<content[p]>> \o r[p + 1]
      <4>1. p \in i..Len(content) /\ p \in 1..Len(content)
        BY <1>3
      <4>2. Becomes(content, values, p) = <<content[p]>>
        BY <3>1, <4>1 DEF Becomes
      <4> QED BY <1>4, <4>1, <4>2
    <3>3. r[i] = SubSeq(content, i, n - 1) \o r[n]
      <4>1. n \in 1..Len(content) + 1 /\ i \in 1..n
        BY <1>3
      <4> HIDE DEF n
      <4> QED BY <3>2, <4>1, Kept DEF n
    <3>4. SubSeq(content, i, n - 1) \in Seq(Tokens) /\ n - 1 = Len(content)
      BY <1>3
    <3>5. r[i] = SubSeq(content, i, Len(content))
      BY <1>4, <3>3, <3>4
    <3> QED BY <1>1, <2>1, <2>2, <3>5 DEF FilledFrom
  <2>3. CASE next # None
    <3>1. PICK o, c : o = next.opened /\ c = next.closed
      OBVIOUS
    <3>2. /\ o \in i..Len(content) /\ c \in o + 2..n
          /\ content[c - 1] = Closing
          /\ \A q \in o..c - 2 : content[q] # Closing
          /\ next.name = Strip(SubSeq(content, o + 1, c - 2))
      BY <2>1, <2>3, <3>1, Found
    <3>3. /\ \A p \in i..o - 1 : Begins(content, p) = 0
          /\ \A p \in o..c - 1 : Begins(content, p) = o
      BY <1>5, <2>1, <2>3, <3>1, NextPlaceholder
    <3>4. /\ c \in i + 1..n /\ Boundary(content, c) /\ c - 1 \in o..c - 1
          /\ (c - 1) - 1 = c - 2 /\ (c - 1) + 1 = c /\ c - 1 \in 1..Len(content)
          /\ o # 0 /\ o \in 1..c - 1 /\ o \in 1..n
      BY <1>3, <3>2 DEF Boundary
    <3>5. f[c] = r[c]
      BY <1>5, <3>4
    <3>6. NameBefore(content, c - 1) = next.name /\ next.name \in DOMAIN values
      <4>1. NameBefore(content, c - 1) = next.name
        BY <3>2, <3>3, <3>4 DEF NameBefore
      <4>2. c - 1 \in Ends(content)
        BY <3>2, <3>3, <3>4 DEF Ends
      <4> QED BY <4>1, <4>2 DEF Names
    <3> DEFINE before == SubSeq(content, i, o - 1)
               value  == Written(values[next.name])
    <3>7. r[i] = before \o r[o]
      <4>1. ASSUME NEW p \in i..o - 1 PROVE r[p] = <<content[p]>> \o r[p + 1]
        <5>1. p \in 1..Len(content)
          BY <1>3, <3>2
        <5>2. Becomes(content, values, p) = <<content[p]>>
          BY <3>3 DEF Becomes
        <5> QED BY <1>4, <5>1, <5>2
      <4>2. i \in 1..o
        BY <3>2
      <4> QED BY <3>4, <4>1, <4>2, Kept
    <3>8. r[o] = r[c - 1]
      <4>1. ASSUME NEW p \in o..(c - 1) - 1 PROVE r[p] = <<>> \o r[p + 1]
        <5>1. p \in 1..Len(content) /\ p \in o..c - 2 /\ p \in o..c - 1
          BY <1>3, <3>2
        <5>2. Becomes(content, values, p) = <<>>
          BY <3>2, <3>3, <3>4, <5>1 DEF Becomes
        <5> QED BY <1>4, <5>1, <5>2
      <4>2. c - 1 \in 1..n
        BY <1>3, <3>4
      <4> QED BY <3>4, <4>1, <4>2, Dropped
    <3>9. r[c - 1] = value \o r[c]
      BY <1>4, <3>2, <3>3, <3>4, <3>6 DEF Becomes
    <3>10. f[i] = before \o value \o f[c]
      BY <1>1, <2>1, <2>3, <3>1, <3>6 DEF FilledFrom
    <3>11. before \in Seq(Tokens) /\ value \in Seq(Tokens) /\ r[c] \in Seq(Tokens)
      <4>1. before \in Seq(Tokens)
        BY <1>3, <3>2
      <4>2. value \in Seq(Tokens)
        BY <3>6, WrittenIsText DEF Contents
      <4>3. r[c] \in Seq(Tokens)
        BY <3>4 DEF Contents
      <4> QED BY <4>1, <4>2, <4>3
    <3>12. (before \o value) \o r[c] = before \o (value \o r[c])
      <4>1. PICK a, b, d : a = before /\ b = value /\ d = r[c]
        OBVIOUS
      <4>2. a \in Seq(Tokens) /\ b \in Seq(Tokens) /\ d \in Seq(Tokens)
        BY <3>11, <4>1
      <4>3. (a \o b) \o d = a \o (b \o d)
        BY <4>2, ConcatAssociative
      <4> QED BY <4>1, <4>3
    <3> HIDE DEF before, value
    <3> QED BY <3>5, <3>7, <3>8, <3>9, <3>10, <3>12
  <2> QED BY <2>2, <2>3
<1>6. \A i \in 1..n : i \in equal
  <2>1. \A i \in 1..n : (\A j \in i + 1..n : j \in equal) => i \in equal
    BY <1>5
  <2> HIDE DEF equal, n
  <2> QED BY <1>3, <2>1, FromTheEnd
<1>7. f[1] = r[1]
  BY <1>3, <1>6 DEF Boundary
<1> QED BY <1>1, <1>2, <1>7

(* A filled content is blank when all that its tokens become is. *)
LEMMA BlankWhenAllAre ==
    ASSUME NEW content \in Contents, NEW values, Valued(values),
           Names(content) \subseteq DOMAIN values
    PROVE  Strip(Expected(content, values)) = <<>>
             <=> \A p \in DOMAIN content : Strip(Becomes(content, values, p)) = <<>>
<1> DEFINE n == Len(content) + 1
           blank(text) == \A q \in DOMAIN text : text[q] = Blank
           all(p) == \A q \in p..Len(content) : blank(Becomes(content, values, q))
<1>1. PICK r \in [1..n -> Contents] :
             /\ Expected(content, values) = r[1]
             /\ \A p \in 1..n : r[p] = ExpectedFrom(content, values, r, p)
  BY ExpectedUnfolds
<1>2. n \in Nat /\ Len(content) \in Nat /\ 1 \in 1..n /\ DOMAIN content = 1..Len(content)
  BY DEF Contents
<1>3. ASSUME NEW s \in Contents, NEW t \in Contents
      PROVE  blank(s \o t) <=> blank(s) /\ blank(t)
  <2>1. /\ s \in Seq(Tokens) /\ t \in Seq(Tokens)
        /\ DOMAIN s = 1..Len(s) /\ DOMAIN t = 1..Len(t)
        /\ Len(s) \in Nat /\ Len(t) \in Nat
        /\ DOMAIN (s \o t) = 1..Len(s) + Len(t)
    BY DEF Contents
  <2>2. /\ \A q \in 1..Len(s) : (s \o t)[q] = s[q]
        /\ \A q \in 1..Len(t) : (s \o t)[Len(s) + q] = t[q]
    BY <2>1
  <2>3. ASSUME blank(s \o t), NEW q \in 1..Len(t) PROVE t[q] = Blank
    BY <2>1, <2>2, <2>3, Len(s) + q \in 1..Len(s) + Len(t)
  <2>4. ASSUME blank(s \o t), NEW q \in 1..Len(s) PROVE s[q] = Blank
    BY <2>1, <2>2, <2>4
  <2>5. ASSUME blank(s), blank(t), NEW q \in 1..Len(s) + Len(t) PROVE (s \o t)[q] = Blank
    <3>1. CASE q <= Len(s)
      BY <2>1, <2>2, <2>5, <3>1
    <3>2. CASE q > Len(s)
      <4>1. PICK k \in 1..Len(t) : q = Len(s) + k
        <5>1. q - Len(s) \in 1..Len(t) /\ q = Len(s) + (q - Len(s))
          BY <2>1, <3>2
        <5> QED BY <5>1
      <4> QED BY <2>1, <2>2, <2>5, <4>1
    <3> QED BY <2>1, <3>1, <3>2
  <2> QED BY <2>1, <2>3, <2>4, <2>5
<1> DEFINE agree == {p \in 1..n : blank(r[p]) <=> all(p)}
<1>4. ASSUME NEW p \in 1..n, \A q \in p + 1..n : q \in agree PROVE blank(r[p]) <=> all(p)
  <2>1. CASE p = n
    <3>1. r[p] = <<>>
      BY <1>1, <1>2, <2>1 DEF ExpectedFrom
    <3> QED BY <1>2, <2>1, <3>1
  <2>2. CASE p # n
    <3>1. p \in 1..Len(content) /\ p + 1 \in p + 1..n /\ p + 1 \in 1..n
      BY <1>2, <2>2
    <3>2. r[p] = Becomes(content, values, p) \o r[p + 1]
      BY <1>1, <1>2, <3>1 DEF ExpectedFrom
    <3>3. blank(r[p + 1]) <=> all(p + 1)
      BY <1>4, <3>1
    <3>4. Becomes(content, values, p) \in Contents /\ r[p + 1] \in Contents
      BY <3>1, BecomesText
    <3>5. blank(r[p]) <=> blank(Becomes(content, values, p)) /\ blank(r[p + 1])
      <4>1. PICK s, t : s = Becomes(content, values, p) /\ t = r[p + 1]
        OBVIOUS
      <4>2. blank(s \o t) <=> blank(s) /\ blank(t)
        BY <1>3, <3>4, <4>1
      <4> QED BY <3>2, <4>1, <4>2
    <3>6. all(p) <=> blank(Becomes(content, values, p)) /\ all(p + 1)
      <4>1. p..Len(content) = {p} \cup (p + 1..Len(content))
        BY <1>2, <3>1
      <4> QED BY <4>1
    <3> QED BY <3>3, <3>5, <3>6
  <2> QED BY <2>1, <2>2
<1>5. blank(r[1]) <=> all(1)
  <2>1. \A p \in 1..n : (\A q \in p + 1..n : q \in agree) => p \in agree
    BY <1>4
  <2>2. \A p \in 1..n : p \in agree
    <3> HIDE DEF agree, n
    <3> QED BY <1>2, <2>1, FromTheEnd
  <2> QED BY <1>2, <2>2
<1>6. Strip(Expected(content, values)) = <<>> <=> blank(r[1])
  BY <1>1, <1>2, StripIs
<1>7. \A p \in DOMAIN content :
          Strip(Becomes(content, values, p)) = <<>> <=> blank(Becomes(content, values, p))
  BY <1>2, BecomesText, StripIs
<1> QED BY <1>2, <1>5, <1>6, <1>7
=============================================================================

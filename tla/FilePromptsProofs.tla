-------------------------- MODULE FilePromptsProofs --------------------------
(***************************************************************************)
(* Proofs about the cache of FilePrompts, for any number of threads, any   *)
(* contents and any sizes.                                                 *)
(***************************************************************************)
EXTENDS FilePrompts, TLAPS

(* No file carries a time that has not come. *)
FilesAreWritten == \A p \in Paths : file[p] # None => file[p].mtime <= clock

(* What a thread holds: a stamp of the path it chose, of a time that has   *)
(* come, so that the next write gives the file a stamp that nobody holds.  *)
(* What it read under the stamp its file has now, the file holds now.      *)
(* Only what had a stamp is stored.                                        *)
HoldsATrueStamp(t) ==
    /\ pc[t] \in {"idle", "choose", "stamp"} => stamp[t] = None
    /\ stamp[t] # None => stamp[t][1] = path[t] /\ stamp[t][2] <= clock
    /\ pc[t] \in {"check", "store"} /\ stamp[t] # None /\ stamp[t] = StampOf(path[t])
           => got[t] = file[path[t]].content
    /\ pc[t] = "store" => stamp[t] # None

CacheHasATrueStamp ==
    /\ cache # None => cache.stamp[1] = cache.template[1] /\ cache.stamp[2] <= clock
    /\ CacheIsTrue

CacheInv ==
    /\ TypeOK
    /\ FilesAreWritten
    /\ \A t \in Threads : HoldsATrueStamp(t)
    /\ CacheHasATrueStamp

-----------------------------------------------------------------------------
(* The stamp of a file names its path and carries its time. *)
LEMMA StampIsOfItsPath ==
    ASSUME TypeOK, NEW p \in Paths
    PROVE  /\ file[p] = None => StampOf(p) = None
           /\ file[p] # None => /\ StampOf(p) \in Stamps
                                /\ StampOf(p) # None
                                /\ StampOf(p)[1] = p
                                /\ StampOf(p)[2] = file[p].mtime
  <1>1. CASE file[p] = None
    BY <1>1 DEF StampOf
  <1>2. CASE file[p] # None
    <2>1. file[p] \in Files
      BY <1>2 DEF TypeOK
    <2>2. file[p].mtime \in Nat /\ file[p].content \in Held
      BY <2>1 DEF Files
    <2>3. Size[file[p].content] \in Nat
      BY <2>2, FilePromptsAssumption
    <2>4. StampOf(p) = <<p, file[p].mtime, Size[file[p].content]>>
      BY <1>2 DEF StampOf
    <2>5. StampOf(p) \in Stamps
      BY <2>2, <2>3, <2>4 DEF Stamps
    <2> QED
      BY <1>2, <2>4, <2>5, FilePromptsAssumption
  <1> QED
    BY <1>1, <1>2

LEMMA TypeInit == Init => TypeOK
  <1> SUFFICES ASSUME Init PROVE TypeOK
    OBVIOUS
  <1>1. file \in [Paths -> Files \cup {None}]
    BY DEF Init, Files, Held
  <1>2. Empty \in Held /\ "md" \in Paths
    BY DEF Held, Paths
  <1> QED
    BY <1>1, <1>2 DEF Init, TypeOK

(* A call that ends leaves the state well typed. *)
LEMMA ReturnType ==
    ASSUME TypeOK, NEW t \in Threads, NEW template \in Templates \cup {None},
           Return(t, template), UNCHANGED fileVars,
           cache' \in [stamp : Stamps, template : Templates] \cup {None}
    PROVE  TypeOK'
  <1>1. Empty \in Held /\ "md" \in Paths
    BY DEF Held, Paths
  <1> QED
    BY <1>1 DEF TypeOK, Return, fileVars

LEMMA PresentType ==
    ASSUME NEW f \in [Paths -> Files \cup {None}]
    PROVE  AtPaths(f) \in SUBSET Sights
  <1>1. ASSUME NEW p \in Paths, f[p] # None PROVE f[p].content \in Held
    <2>1. f[p] \in Files
      BY <1>1
    <2> QED
      BY <2>1 DEF Files
  <1> QED
    BY <1>1 DEF AtPaths, Sights

(* A step of the author leaves the state well typed. *)
LEMMA PlaceType ==
    ASSUME TypeOK, NEW f \in [Paths -> Files \cup {None}], Place(f),
           clock' \in Nat, writing' \in Paths \cup {None}
    PROVE  TypeOK'
  <1>1. AtPaths(f) \in SUBSET Sights
    BY PresentType
  <1>2. present' \in [Threads -> SUBSET Sights]
    BY <1>1 DEF TypeOK, Place
  <1> QED
    BY <1>2 DEF TypeOK, Place, threadVars

(* A file that is written is one of the files. *)
LEMMA WrittenType ==
    ASSUME TypeOK, NEW p \in Paths, NEW c \in Held
    PROVE  [file EXCEPT ![p] = [content |-> c, mtime |-> clock + 1]] \in [Paths -> Files \cup {None}]
  <1>1. [content |-> c, mtime |-> clock + 1] \in Files
    BY DEF TypeOK, Files
  <1> QED
    BY <1>1 DEF TypeOK

LEMMA TypeStep == CacheInv /\ [Next]_vars => TypeOK'
  <1> SUFFICES ASSUME CacheInv, TypeOK, [Next]_vars PROVE TypeOK'
    BY DEF CacheInv
  <1>1. ASSUME NEW t \in Threads, Call(t) PROVE TypeOK'
    <2>1. AtPaths(file) \in SUBSET Sights
      BY PresentType DEF TypeOK
    <2>2. present' \in [Threads -> SUBSET Sights]
      BY <1>1, <2>1 DEF TypeOK, Call
    <2> QED
      BY <1>1, <2>2 DEF TypeOK, Call, Goto, fileVars
  <1>2. ASSUME NEW t \in Threads, Choose(t) PROVE TypeOK'
    BY <1>2 DEF TypeOK, Choose, Goto, fileVars, Paths
  <1>3. ASSUME NEW t \in Threads, TakeStamp(t) PROVE TypeOK'
    <2>1. path[t] \in Paths
      BY DEF TypeOK
    <2>2. StampOf(path[t]) \in Stamps \cup {None}
      BY <2>1, StampIsOfItsPath
    <2> QED
      BY <1>3, <2>2 DEF TypeOK, TakeStamp, Goto, fileVars
  <1>4. ASSUME NEW t \in Threads, Look(t) PROVE TypeOK'
    <2>1. CASE stamp[t] # None /\ cache # None /\ cache.stamp = stamp[t]
      <3>1. cache.template \in Templates
        BY <2>1 DEF TypeOK
      <3>2. Return(t, cache.template) /\ UNCHANGED fileVars /\ cache' = cache
        BY <1>4, <2>1 DEF Look
      <3> QED
        BY <3>1, <3>2, ReturnType DEF TypeOK
    <2>2. CASE ~(stamp[t] # None /\ cache # None /\ cache.stamp = stamp[t])
      BY <1>4, <2>2 DEF TypeOK, Look, Goto, fileVars
    <2> QED
      BY <2>1, <2>2
  <1>5. ASSUME NEW t \in Threads, Read(t) PROVE TypeOK'
    <2> DEFINE fails == file[path[t]] = None \/ (path[t] = "chat" /\ file[path[t]].content \in Malformed)
    <2>1. CASE fails
      <3>1. Return(t, None) /\ UNCHANGED fileVars /\ cache' = cache
        BY <1>5, <2>1 DEF Read
      <3> QED
        BY <3>1, ReturnType DEF TypeOK
    <2>2. CASE ~fails
      <3>1. file[path[t]] \in Files
        BY <2>2 DEF TypeOK
      <3>2. file[path[t]].content \in Held
        BY <3>1 DEF Files
      <3> QED
        BY <1>5, <2>2, <3>2 DEF TypeOK, Read, Goto, fileVars
    <2> QED
      BY <2>1, <2>2
  <1>6. ASSUME NEW t \in Threads, Check(t) PROVE TypeOK'
    <2>1. CASE stamp[t] # None /\ StampOf(path[t]) = stamp[t]
      BY <1>6, <2>1 DEF TypeOK, Check, Goto, fileVars
    <2>2. CASE ~(stamp[t] # None /\ StampOf(path[t]) = stamp[t])
      <3>1. <<path[t], got[t]>> \in Templates
        BY DEF TypeOK, Templates
      <3>2. Return(t, <<path[t], got[t]>>) /\ UNCHANGED fileVars /\ cache' = cache
        BY <1>6, <2>2 DEF Check
      <3> QED
        BY <3>1, <3>2, ReturnType DEF TypeOK
    <2> QED
      BY <2>1, <2>2
  <1>7. ASSUME NEW t \in Threads, Store(t) PROVE TypeOK'
    <2>1. stamp[t] \in Stamps
      BY <1>7 DEF TypeOK, CacheInv, HoldsATrueStamp, Store
    <2>2. <<path[t], got[t]>> \in Templates
      BY DEF TypeOK, Templates
    <2>3. cache' \in [stamp : Stamps, template : Templates]
      BY <1>7, <2>1, <2>2 DEF Store
    <2>4. Return(t, <<path[t], got[t]>>) /\ UNCHANGED fileVars
      BY <1>7 DEF Store
    <2> QED
      BY <2>2, <2>3, <2>4, ReturnType
  <1>8. ASSUME NEW p \in Paths, Open(p) PROVE TypeOK'
    <2>1. Empty \in Held
      BY DEF Held
    <2> DEFINE f == [file EXCEPT ![p] = [content |-> Empty, mtime |-> clock + 1]]
    <2>2. f \in [Paths -> Files \cup {None}]
      BY <2>1, WrittenType
    <2>3. Place(f) /\ clock' \in Nat /\ writing' \in Paths \cup {None}
      BY <1>8, <2>1 DEF TypeOK, Open, Tick
    <2> HIDE DEF f
    <2> QED
      BY <2>2, <2>3, PlaceType
  <1>9. ASSUME NEW c \in Contents, Write(c) PROVE TypeOK'
    <2>1. c \in Held /\ writing \in Paths
      BY <1>9 DEF Held, Write, TypeOK
    <2> DEFINE f == [file EXCEPT ![writing] = [content |-> c, mtime |-> clock + 1]]
    <2>2. f \in [Paths -> Files \cup {None}]
      BY <2>1, WrittenType
    <2>3. Place(f) /\ clock' \in Nat /\ writing' \in Paths \cup {None}
      BY <1>9, <2>1 DEF TypeOK, Write, Tick
    <2> HIDE DEF f
    <2> QED
      BY <2>2, <2>3, PlaceType
  <1>10. ASSUME NEW p \in Paths, NEW c \in Contents, Replace(p, c) PROVE TypeOK'
    <2>1. c \in Held
      BY DEF Held
    <2> DEFINE f == [file EXCEPT ![p] = [content |-> c, mtime |-> clock + 1]]
    <2>2. f \in [Paths -> Files \cup {None}]
      BY <2>1, WrittenType
    <2>3. Place(f) /\ clock' \in Nat /\ writing' \in Paths \cup {None}
      BY <1>10, <2>1 DEF TypeOK, Replace, Tick
    <2> HIDE DEF f
    <2> QED
      BY <2>2, <2>3, PlaceType
  <1>11. ASSUME NEW p \in Paths, Remove(p) PROVE TypeOK'
    <2>1. [file EXCEPT ![p] = None] \in [Paths -> Files \cup {None}]
      BY DEF TypeOK
    <2> QED
      BY <1>11, <2>1, PlaceType DEF TypeOK, Remove
  <1>12. CASE UNCHANGED vars
    BY <1>12 DEF TypeOK, vars, fileVars, threadVars
  <1> QED
    BY <1>1, <1>2, <1>3, <1>4, <1>5, <1>6, <1>7, <1>8, <1>9, <1>10, <1>11, <1>12 DEF Next, Step

-----------------------------------------------------------------------------
(* A step of a thread: the files stay, and what the others hold. *)

LEMMA FilesStay ==
    ASSUME FilesAreWritten, UNCHANGED fileVars
    PROVE  FilesAreWritten'
  BY DEF FilesAreWritten, fileVars

LEMMA OthersStay ==
    ASSUME CacheInv, NEW t \in Threads, UNCHANGED fileVars,
           \A u \in Threads : u # t => /\ pc'[u] = pc[u] /\ stamp'[u] = stamp[u]
                                      /\ path'[u] = path[u] /\ got'[u] = got[u],
           HoldsATrueStamp(t)'
    PROVE  \A u \in Threads : HoldsATrueStamp(u)'
  <1> SUFFICES ASSUME NEW u \in Threads, u # t PROVE HoldsATrueStamp(u)'
    OBVIOUS
  <1>1. HoldsATrueStamp(u)
    BY DEF CacheInv
  <1>2. file' = file /\ clock' = clock
    BY DEF fileVars
  <1> QED
    BY <1>1, <1>2 DEF HoldsATrueStamp, StampOf

LEMMA CacheStays ==
    ASSUME CacheHasATrueStamp, UNCHANGED fileVars, cache' = cache
    PROVE  CacheHasATrueStamp'
  BY DEF CacheHasATrueStamp, CacheIsTrue, StampOf, fileVars

(* A call that ends holds nothing. *)
LEMMA ReturnKeeps ==
    ASSUME CacheInv, NEW t \in Threads, NEW template, Return(t, template), UNCHANGED fileVars
    PROVE  FilesAreWritten' /\ \A u \in Threads : HoldsATrueStamp(u)'
  <1>1. HoldsATrueStamp(t)'
    BY DEF Return, HoldsATrueStamp, CacheInv, TypeOK
  <1>2. \A u \in Threads : u # t => /\ pc'[u] = pc[u] /\ stamp'[u] = stamp[u]
                                    /\ path'[u] = path[u] /\ got'[u] = got[u]
    BY DEF Return, CacheInv, TypeOK
  <1> QED
    BY <1>1, <1>2, FilesStay, OthersStay DEF CacheInv

(* A step of the author changes one file, to nothing or to what was        *)
(* written after every stamp was taken.                                    *)
LEMMA AuthorKeeps ==
    ASSUME CacheInv, NEW p \in Paths, NEW e \in Files \cup {None},
           Place([file EXCEPT ![p] = e]),
           \/ e = None /\ clock' = clock
           \/ e # None /\ e.mtime = clock + 1 /\ clock' = clock + 1
    PROVE  /\ FilesAreWritten'
           /\ \A t \in Threads : HoldsATrueStamp(t)'
           /\ CacheHasATrueStamp'
  <1>1. /\ file' = [file EXCEPT ![p] = e]
        /\ cache' = cache /\ pc' = pc /\ path' = path /\ stamp' = stamp /\ got' = got
    BY DEF Place, threadVars
  <1>2. clock \in Nat /\ clock' \in Nat /\ clock <= clock'
    BY DEF CacheInv, TypeOK
  <1>3. \A q \in Paths : q # p => file'[q] = file[q]
    BY <1>1 DEF CacheInv, TypeOK
  <1>4. file'[p] = e
    BY <1>1 DEF CacheInv, TypeOK
  <1>5. FilesAreWritten'
    <2> SUFFICES ASSUME NEW q \in Paths, file'[q] # None PROVE file'[q].mtime <= clock'
      BY DEF FilesAreWritten
    <2>1. CASE q = p
      BY <1>2, <1>4, <2>1
    <2>2. CASE q # p
      <3>1. file[q] # None /\ file'[q] = file[q]
        BY <1>3, <2>2
      <3>2. file[q] \in Files
        BY <3>1 DEF CacheInv, TypeOK
      <3>3. file[q].mtime \in Nat /\ file[q].mtime <= clock
        BY <3>1, <3>2 DEF CacheInv, FilesAreWritten, Files
      <3> QED
        BY <1>2, <3>1, <3>3
    <2> QED
      BY <2>1, <2>2
  (* A stamp of the past is no stamp of the file that was written. *)
  <1>6. ASSUME NEW s \in Stamps, NEW q \in Paths, s[2] <= clock, s = StampOf(q)'
        PROVE  q # p /\ s = StampOf(q) /\ file'[q] = file[q]
    <2>1. ASSUME q = p PROVE FALSE
      <3>1. CASE e = None
        <4>1. StampOf(q)' = None
          BY <1>4, <2>1, <3>1 DEF StampOf
        <4> QED
          BY <1>6, <4>1, FilePromptsAssumption
      <3>2. CASE e # None
        <4>1. StampOf(q)' = <<q, e.mtime, Size[e.content]>>
          BY <1>4, <2>1, <3>2 DEF StampOf
        <4>2. s[2] = clock + 1
          BY <1>6, <3>2, <4>1
        <4> QED
          BY <1>2, <1>6, <4>2
      <3> QED
        BY <3>1, <3>2
    <2>2. file'[q] = file[q]
      BY <1>3, <2>1
    <2>3. StampOf(q)' = StampOf(q)
      BY <2>2 DEF StampOf
    <2> QED
      BY <1>6, <2>1, <2>2, <2>3
  <1>7. ASSUME NEW t \in Threads PROVE HoldsATrueStamp(t)'
    <2>1. HoldsATrueStamp(t) /\ path[t] \in Paths /\ stamp[t] \in Stamps \cup {None}
      BY DEF CacheInv, TypeOK
    <2>2. stamp[t] # None => stamp[t][2] \in Nat
      BY <2>1 DEF Stamps
    <2>3. ASSUME pc[t] \in {"check", "store"}, stamp[t] # None, stamp[t] = (StampOf(path[t]))'
          PROVE  got[t] = file'[path[t]].content
      <3>1. PICK q \in Paths : q = path[t]
        BY <2>1
      <3>2. stamp[t] = StampOf(q)'
        BY <1>1, <2>3, <3>1 DEF StampOf
      <3>3. stamp[t] = StampOf(q) /\ file'[q] = file[q]
        BY <1>6, <2>1, <2>3, <3>2 DEF HoldsATrueStamp
      <3> QED
        BY <2>1, <2>3, <3>1, <3>3 DEF HoldsATrueStamp
    <2>4. stamp[t] # None => stamp[t][2] <= clock'
      BY <1>2, <2>1, <2>2 DEF HoldsATrueStamp
    <2> QED
      BY <1>1, <2>1, <2>3, <2>4 DEF HoldsATrueStamp
  <1>8. CacheHasATrueStamp'
    <2> SUFFICES ASSUME cache # None
                 PROVE  /\ cache.stamp[1] = cache.template[1] /\ cache.stamp[2] <= clock'
                        /\ cache.stamp = (StampOf(cache.template[1]))'
                               => cache.template[2] = file'[cache.template[1]].content
      BY <1>1 DEF CacheHasATrueStamp, CacheIsTrue
    <2>1. cache.stamp \in Stamps /\ cache.template \in Templates
      BY DEF CacheInv, TypeOK
    <2>2. cache.stamp[2] \in Nat /\ cache.template[1] \in Paths
      BY <2>1 DEF Stamps, Templates
    <2>3. cache.stamp[1] = cache.template[1] /\ cache.stamp[2] <= clock
      BY DEF CacheInv, CacheHasATrueStamp
    <2>4. ASSUME cache.stamp = (StampOf(cache.template[1]))'
          PROVE  cache.template[2] = file'[cache.template[1]].content
      <3>1. PICK q \in Paths : q = cache.template[1]
        BY <2>2
      <3>2. cache.stamp = StampOf(q)'
        BY <1>1, <2>4, <3>1 DEF StampOf
      <3>3. cache.stamp = StampOf(q) /\ file'[q] = file[q]
        BY <1>6, <2>1, <2>3, <3>2
      <3> QED
        BY <3>1, <3>3 DEF CacheInv, CacheHasATrueStamp, CacheIsTrue
    <2> QED
      BY <1>2, <2>2, <2>3, <2>4
  <1> QED
    BY <1>5, <1>7, <1>8

LEMMA CacheInvInit == Init => CacheInv
  <1> SUFFICES ASSUME Init PROVE CacheInv
    OBVIOUS
  <1>1. TypeOK
    BY TypeInit
  <1>2. FilesAreWritten
    BY DEF Init, FilesAreWritten
  <1>3. \A t \in Threads : HoldsATrueStamp(t)
    BY DEF Init, HoldsATrueStamp
  <1>4. CacheHasATrueStamp
    BY DEF Init, CacheHasATrueStamp, CacheIsTrue
  <1> QED
    BY <1>1, <1>2, <1>3, <1>4 DEF CacheInv

LEMMA CacheInvStep == CacheInv /\ [Next]_vars => CacheInv'
  <1> SUFFICES ASSUME CacheInv, [Next]_vars PROVE CacheInv'
    OBVIOUS
  <1>1. TypeOK'
    BY TypeStep
  <1>2. ASSUME NEW t \in Threads, Call(t) PROVE CacheInv'
    <2>1. HoldsATrueStamp(t)'
      BY <1>2 DEF Call, Goto, HoldsATrueStamp, CacheInv, TypeOK
    <2>2. \A u \in Threads : u # t => /\ pc'[u] = pc[u] /\ stamp'[u] = stamp[u]
                                      /\ path'[u] = path[u] /\ got'[u] = got[u]
      BY <1>2 DEF Call, Goto, CacheInv, TypeOK
    <2>3. UNCHANGED fileVars /\ cache' = cache
      BY <1>2 DEF Call
    <2> QED
      BY <1>1, <2>1, <2>2, <2>3, FilesStay, OthersStay, CacheStays DEF CacheInv
  <1>3. ASSUME NEW t \in Threads, Choose(t) PROVE CacheInv'
    <2>1. HoldsATrueStamp(t)'
      BY <1>3 DEF Choose, Goto, HoldsATrueStamp, CacheInv, TypeOK
    <2>2. \A u \in Threads : u # t => /\ pc'[u] = pc[u] /\ stamp'[u] = stamp[u]
                                      /\ path'[u] = path[u] /\ got'[u] = got[u]
      BY <1>3 DEF Choose, Goto, CacheInv, TypeOK
    <2>3. UNCHANGED fileVars /\ cache' = cache
      BY <1>3 DEF Choose
    <2> QED
      BY <1>1, <2>1, <2>2, <2>3, FilesStay, OthersStay, CacheStays DEF CacheInv
  <1>4. ASSUME NEW t \in Threads, TakeStamp(t) PROVE CacheInv'
    <2>1. HoldsATrueStamp(t)'
      <3>1. path[t] \in Paths
        BY DEF CacheInv, TypeOK
      <3>2. stamp'[t] = StampOf(path[t]) /\ path'[t] = path[t] /\ pc'[t] = "look" /\ clock' = clock
        BY <1>4 DEF TakeStamp, Goto, fileVars, CacheInv, TypeOK
      <3>3. StampOf(path[t]) # None => StampOf(path[t])[1] = path[t] /\ StampOf(path[t])[2] <= clock
        BY <3>1, StampIsOfItsPath DEF CacheInv, FilesAreWritten
      <3> QED
        BY <3>2, <3>3 DEF HoldsATrueStamp
    <2>2. \A u \in Threads : u # t => /\ pc'[u] = pc[u] /\ stamp'[u] = stamp[u]
                                      /\ path'[u] = path[u] /\ got'[u] = got[u]
      BY <1>4 DEF TakeStamp, Goto, CacheInv, TypeOK
    <2>3. UNCHANGED fileVars /\ cache' = cache
      BY <1>4 DEF TakeStamp
    <2> QED
      BY <1>1, <2>1, <2>2, <2>3, FilesStay, OthersStay, CacheStays DEF CacheInv
  <1>5. ASSUME NEW t \in Threads, Look(t) PROVE CacheInv'
    <2>1. CASE stamp[t] # None /\ cache # None /\ cache.stamp = stamp[t]
      BY <1>1, <1>5, <2>1, ReturnKeeps, CacheStays DEF Look, CacheInv
    <2>2. CASE ~(stamp[t] # None /\ cache # None /\ cache.stamp = stamp[t])
      <3>1. HoldsATrueStamp(t)'
        BY <1>5, <2>2 DEF Look, Goto, HoldsATrueStamp, CacheInv, TypeOK, fileVars
      <3>2. \A u \in Threads : u # t => /\ pc'[u] = pc[u] /\ stamp'[u] = stamp[u]
                                        /\ path'[u] = path[u] /\ got'[u] = got[u]
        BY <1>5, <2>2 DEF Look, Goto, CacheInv, TypeOK
      <3>3. UNCHANGED fileVars /\ cache' = cache
        BY <1>5 DEF Look
      <3> QED
        BY <1>1, <3>1, <3>2, <3>3, FilesStay, OthersStay, CacheStays DEF CacheInv
    <2> QED
      BY <2>1, <2>2
  <1>6. ASSUME NEW t \in Threads, Read(t) PROVE CacheInv'
    <2> DEFINE fails == file[path[t]] = None \/ (path[t] = "chat" /\ file[path[t]].content \in Malformed)
    <2>1. CASE fails
      BY <1>1, <1>6, <2>1, ReturnKeeps, CacheStays DEF Read, CacheInv
    <2>2. CASE ~fails
      <3>1. HoldsATrueStamp(t)'
        BY <1>6, <2>2 DEF Read, Goto, HoldsATrueStamp, CacheInv, TypeOK, fileVars
      <3>2. \A u \in Threads : u # t => /\ pc'[u] = pc[u] /\ stamp'[u] = stamp[u]
                                        /\ path'[u] = path[u] /\ got'[u] = got[u]
        BY <1>6, <2>2 DEF Read, Goto, CacheInv, TypeOK
      <3>3. UNCHANGED fileVars /\ cache' = cache
        BY <1>6 DEF Read
      <3> QED
        BY <1>1, <3>1, <3>2, <3>3, FilesStay, OthersStay, CacheStays DEF CacheInv
    <2> QED
      BY <2>1, <2>2
  <1>7. ASSUME NEW t \in Threads, Check(t) PROVE CacheInv'
    <2>1. CASE stamp[t] # None /\ StampOf(path[t]) = stamp[t]
      <3>1. HoldsATrueStamp(t)'
        <4>1. pc[t] = "check" /\ HoldsATrueStamp(t)
          BY <1>7 DEF Check, CacheInv
        <4>2. /\ pc'[t] = "store" /\ path'[t] = path[t] /\ stamp'[t] = stamp[t] /\ got'[t] = got[t]
              /\ file' = file /\ clock' = clock
          BY <1>7, <2>1 DEF Check, Goto, fileVars, CacheInv, TypeOK
        <4> QED
          BY <2>1, <4>1, <4>2 DEF HoldsATrueStamp
      <3>2. \A u \in Threads : u # t => /\ pc'[u] = pc[u] /\ stamp'[u] = stamp[u]
                                        /\ path'[u] = path[u] /\ got'[u] = got[u]
        BY <1>7, <2>1 DEF Check, Goto, CacheInv, TypeOK
      <3>3. UNCHANGED fileVars /\ cache' = cache
        BY <1>7 DEF Check
      <3> QED
        BY <1>1, <3>1, <3>2, <3>3, FilesStay, OthersStay, CacheStays DEF CacheInv
    <2>2. CASE ~(stamp[t] # None /\ StampOf(path[t]) = stamp[t])
      BY <1>1, <1>7, <2>2, ReturnKeeps, CacheStays DEF Check, CacheInv
    <2> QED
      BY <2>1, <2>2
  <1>8. ASSUME NEW t \in Threads, Store(t) PROVE CacheInv'
    <2>1. FilesAreWritten' /\ \A u \in Threads : HoldsATrueStamp(u)'
      BY <1>8, ReturnKeeps DEF Store
    <2>2. CacheHasATrueStamp'
      <3>1. /\ pc[t] = "store" /\ file' = file /\ clock' = clock
            /\ cache' = [stamp |-> stamp[t], template |-> <<path[t], got[t]>>]
        BY <1>8 DEF Store, fileVars
      <3>2. HoldsATrueStamp(t)
        BY DEF CacheInv
      <3> QED
        BY <3>1, <3>2 DEF HoldsATrueStamp, CacheHasATrueStamp, CacheIsTrue, StampOf
    <2> QED
      BY <1>1, <2>1, <2>2 DEF CacheInv
  <1>9. ASSUME NEW p \in Paths, Open(p) PROVE CacheInv'
    <2>1. [content |-> Empty, mtime |-> clock + 1] \in Files
      BY DEF Files, Held, CacheInv, TypeOK
    <2> QED
      BY <1>1, <1>9, <2>1, AuthorKeeps, FilePromptsAssumption DEF Open, Tick, CacheInv
  <1>10. ASSUME NEW c \in Contents, Write(c) PROVE CacheInv'
    <2>1. [content |-> c, mtime |-> clock + 1] \in Files /\ writing \in Paths
      BY <1>10 DEF Write, Files, Held, CacheInv, TypeOK
    <2> QED
      BY <1>1, <1>10, <2>1, AuthorKeeps, FilePromptsAssumption DEF Write, Tick, CacheInv
  <1>11. ASSUME NEW p \in Paths, NEW c \in Contents, Replace(p, c) PROVE CacheInv'
    <2>1. [content |-> c, mtime |-> clock + 1] \in Files
      BY DEF Files, Held, CacheInv, TypeOK
    <2> QED
      BY <1>1, <1>11, <2>1, AuthorKeeps, FilePromptsAssumption DEF Replace, Tick, CacheInv
  <1>12. ASSUME NEW p \in Paths, Remove(p) PROVE CacheInv'
    BY <1>1, <1>12, AuthorKeeps DEF Remove, CacheInv
  <1>13. CASE UNCHANGED vars
    BY <1>13 DEF CacheInv, TypeOK, FilesAreWritten, HoldsATrueStamp, CacheHasATrueStamp,
                 CacheIsTrue, StampOf, vars, fileVars, threadVars
  <1> QED
    BY <1>2, <1>3, <1>4, <1>5, <1>6, <1>7, <1>8, <1>9, <1>10, <1>11, <1>12, <1>13 DEF Next, Step

(* Every reachable state of the readers, the author and the cache is well  *)
(* typed: in particular nothing without a stamp is remembered.             *)
THEOREM CacheTypeCorrect == Spec => []TypeOK
  <1>1. CacheInv => TypeOK
    BY DEF CacheInv
  <1> QED
    BY <1>1, CacheInvInit, CacheInvStep, PTL DEF Spec

(* What is cached under the stamp a file has now is what the file holds:   *)
(* no order of stamps, reads, checks and stores of any number of threads,  *)
(* and no edit between them, files a template under the wrong version.     *)
THEOREM CacheIsAlwaysTrue == Spec => []CacheIsTrue
  <1>1. CacheInv => CacheIsTrue
    BY DEF CacheInv, CacheHasATrueStamp
  <1> QED
    BY <1>1, CacheInvInit, CacheInvStep, PTL DEF Spec

-----------------------------------------------------------------------------
(* Freshness.  While a thread with a stamp looks into the cache, another   *)
(* may be about to file a template under the same stamp; what it read was  *)
(* at the path since the first took its stamp.                             *)

SeesTheFiles(t) == pc[t] # "idle" => AtPaths(file) \subseteq present[t]

ReadIsFresh(t) == pc[t] \in {"check", "store"} => <<path[t], got[t]>> \in present[t]

(* What thread u is about to store would be fresh for t, which looks. *)
WouldBeFresh(t, u) ==
    /\ pc[t] = "look" /\ stamp[t] # None
    /\ pc[u] \in {"check", "store"} /\ stamp[u] = stamp[t]
    => <<path[u], got[u]>> \in present[t]

CacheIsFresh(t) ==
    pc[t] = "look" /\ stamp[t] # None /\ cache # None /\ cache.stamp = stamp[t]
    => cache.template \in present[t]

FreshInv ==
    \A t \in Threads :
        /\ SeesTheFiles(t)
        /\ ReadIsFresh(t)
        /\ \A u \in Threads : WouldBeFresh(t, u)
        /\ CacheIsFresh(t)

LEMMA FileIsAtPaths ==
    ASSUME NEW f, NEW p \in Paths
    PROVE  /\ f[p] # None => <<p, f[p].content>> \in AtPaths(f)
           /\ f[p] = None => <<p, None>> \in AtPaths(f)
  BY DEF AtPaths

LEMMA FreshInit == Init => FreshInv
  BY DEF Init, FreshInv, SeesTheFiles, ReadIsFresh, WouldBeFresh, CacheIsFresh

(* A call that ends, the cache being what it was, disturbs no other. *)
LEMMA ReturnFresh ==
    ASSUME CacheInv, FreshInv, NEW t \in Threads, NEW template, Return(t, template),
           UNCHANGED fileVars,
           \/ cache' = cache
           \/ pc[t] = "store" /\ cache' = [stamp |-> stamp[t], template |-> <<path[t], got[t]>>]
    PROVE  FreshInv'
  <1>1. \A u \in Threads : u # t => /\ pc'[u] = pc[u] /\ stamp'[u] = stamp[u]
                                    /\ path'[u] = path[u] /\ got'[u] = got[u]
                                    /\ present'[u] = present[u]
    BY DEF Return, CacheInv, TypeOK
  <1>2. pc'[t] = "idle" /\ stamp'[t] = None /\ file' = file
    BY DEF Return, CacheInv, TypeOK, fileVars
  <1>3. ASSUME NEW u \in Threads, u # t PROVE CacheIsFresh(u)'
    <2>1. CacheIsFresh(u) /\ WouldBeFresh(u, t)
      BY DEF FreshInv
    <2> QED
      BY <1>1, <1>3, <2>1 DEF CacheIsFresh, WouldBeFresh
  <1>4. ASSUME NEW u \in Threads, u # t PROVE SeesTheFiles(u)' /\ ReadIsFresh(u)'
    <2>1. SeesTheFiles(u) /\ ReadIsFresh(u)
      BY DEF FreshInv
    <2>2. AtPaths(file)' = AtPaths(file)
      BY <1>2 DEF AtPaths
    <2> QED
      BY <1>1, <1>4, <2>1, <2>2 DEF SeesTheFiles, ReadIsFresh
  <1>5. ASSUME NEW u \in Threads, NEW v \in Threads, u # t, v # t PROVE WouldBeFresh(u, v)'
    <2>1. WouldBeFresh(u, v)
      BY DEF FreshInv
    <2> QED
      BY <1>1, <1>5, <2>1 DEF WouldBeFresh
  <1>6. SeesTheFiles(t)' /\ ReadIsFresh(t)' /\ CacheIsFresh(t)'
    BY <1>2 DEF SeesTheFiles, ReadIsFresh, CacheIsFresh
  <1>7. \A u \in Threads : WouldBeFresh(t, u)' /\ WouldBeFresh(u, t)'
    BY <1>2 DEF WouldBeFresh
  <1> QED
    BY <1>3, <1>4, <1>5, <1>6, <1>7 DEF FreshInv

(* A step of the author only adds to what has been at the paths. *)
LEMMA AuthorFresh ==
    ASSUME CacheInv, FreshInv, NEW f, Place(f)
    PROVE  FreshInv'
  <1>1. /\ file' = f /\ cache' = cache /\ pc' = pc /\ path' = path
        /\ stamp' = stamp /\ got' = got
    BY DEF Place, threadVars
  <1>2. \A t \in Threads : pc[t] # "idle" => present'[t] = present[t] \cup AtPaths(f)
    BY DEF Place
  <1>3. AtPaths(file)' = AtPaths(f)
    BY <1>1 DEF AtPaths
  <1>4. ASSUME NEW t \in Threads PROVE SeesTheFiles(t)' /\ ReadIsFresh(t)' /\ CacheIsFresh(t)'
    <2>1. ReadIsFresh(t) /\ CacheIsFresh(t)
      BY DEF FreshInv
    <2> QED
      BY <1>1, <1>2, <1>3, <2>1 DEF SeesTheFiles, ReadIsFresh, CacheIsFresh
  <1>5. ASSUME NEW t \in Threads, NEW u \in Threads PROVE WouldBeFresh(t, u)'
    <2>1. WouldBeFresh(t, u)
      BY DEF FreshInv
    <2> QED
      BY <1>1, <1>2, <2>1 DEF WouldBeFresh
  <1> QED
    BY <1>4, <1>5 DEF FreshInv

(* A step of a thread that neither ends its call nor starts to look. *)
LEMMA GotoFresh ==
    ASSUME CacheInv, FreshInv, NEW t \in Threads,
           UNCHANGED <<fileVars, cache>>,
           \A u \in Threads : u # t => /\ pc'[u] = pc[u] /\ stamp'[u] = stamp[u]
                                      /\ path'[u] = path[u] /\ got'[u] = got[u]
                                      /\ present'[u] = present[u],
           SeesTheFiles(t)', ReadIsFresh(t)', CacheIsFresh(t)',
           \A u \in Threads : WouldBeFresh(t, u)' /\ WouldBeFresh(u, t)'
    PROVE  FreshInv'
  <1>1. AtPaths(file)' = AtPaths(file)
    BY DEF AtPaths, fileVars
  <1>2. ASSUME NEW u \in Threads, u # t
        PROVE  SeesTheFiles(u)' /\ ReadIsFresh(u)' /\ CacheIsFresh(u)'
    <2>1. SeesTheFiles(u) /\ ReadIsFresh(u) /\ CacheIsFresh(u)
      BY DEF FreshInv
    <2> QED
      BY <1>1, <1>2, <2>1 DEF SeesTheFiles, ReadIsFresh, CacheIsFresh
  <1>3. ASSUME NEW u \in Threads, NEW v \in Threads, u # t, v # t PROVE WouldBeFresh(u, v)'
    <2>1. WouldBeFresh(u, v)
      BY DEF FreshInv
    <2> QED
      BY <1>3, <2>1 DEF WouldBeFresh
  <1> QED
    BY <1>2, <1>3 DEF FreshInv

LEMMA FreshStep == CacheInv /\ FreshInv /\ [Next]_vars => FreshInv'
  <1> SUFFICES ASSUME CacheInv, FreshInv, [Next]_vars PROVE FreshInv'
    OBVIOUS
  <1> DEFINE others(t) == \A u \in Threads : u # t => /\ pc'[u] = pc[u] /\ stamp'[u] = stamp[u]
                                                     /\ path'[u] = path[u] /\ got'[u] = got[u]
                                                     /\ present'[u] = present[u]
  <1>1. ASSUME NEW t \in Threads, Call(t) PROVE FreshInv'
    <2>1. others(t) /\ UNCHANGED <<fileVars, cache>>
      BY <1>1 DEF Call, Goto, CacheInv, TypeOK
    <2>2. pc'[t] = "choose" /\ present'[t] = AtPaths(file) /\ file' = file
      BY <1>1 DEF Call, Goto, CacheInv, TypeOK, fileVars
    <2>3. SeesTheFiles(t)' /\ ReadIsFresh(t)' /\ CacheIsFresh(t)'
      BY <2>2 DEF SeesTheFiles, ReadIsFresh, CacheIsFresh, AtPaths
    <2>4. \A u \in Threads : WouldBeFresh(t, u)' /\ WouldBeFresh(u, t)'
      BY <2>2 DEF WouldBeFresh
    <2> QED
      BY <2>1, <2>3, <2>4, GotoFresh
  <1>2. ASSUME NEW t \in Threads, Choose(t) PROVE FreshInv'
    <2>1. others(t) /\ UNCHANGED <<fileVars, cache>>
      BY <1>2 DEF Choose, Goto, CacheInv, TypeOK
    <2>2. pc[t] = "choose" /\ pc'[t] = "stamp" /\ present'[t] = present[t] /\ file' = file
      BY <1>2 DEF Choose, Goto, CacheInv, TypeOK, fileVars
    <2>3. SeesTheFiles(t)
      BY DEF FreshInv
    <2>4. SeesTheFiles(t)' /\ ReadIsFresh(t)' /\ CacheIsFresh(t)'
      BY <2>2, <2>3 DEF SeesTheFiles, ReadIsFresh, CacheIsFresh, AtPaths
    <2>5. \A u \in Threads : WouldBeFresh(t, u)' /\ WouldBeFresh(u, t)'
      BY <2>2 DEF WouldBeFresh
    <2> QED
      BY <2>1, <2>4, <2>5, GotoFresh
  <1>3. ASSUME NEW t \in Threads, TakeStamp(t) PROVE FreshInv'
    <2>1. others(t) /\ UNCHANGED <<fileVars, cache>>
      BY <1>3 DEF TakeStamp, Goto, CacheInv, TypeOK
    <2>2. /\ pc[t] = "stamp" /\ pc'[t] = "look" /\ present'[t] = present[t]
          /\ stamp'[t] = StampOf(path[t]) /\ file' = file /\ cache' = cache
      BY <1>3 DEF TakeStamp, Goto, CacheInv, TypeOK, fileVars
    <2>3. AtPaths(file) \subseteq present[t]
      BY <2>2 DEF FreshInv, SeesTheFiles
    <2>4. SeesTheFiles(t)' /\ ReadIsFresh(t)'
      BY <2>2, <2>3 DEF SeesTheFiles, ReadIsFresh, AtPaths
    <2>5. path[t] \in Paths
      BY DEF CacheInv, TypeOK
    (* What the path holds as its stamp is taken has been there. *)
    <2>6. ASSUME StampOf(path[t]) # None
          PROVE  /\ StampOf(path[t])[1] = path[t]
                 /\ <<path[t], file[path[t]].content>> \in present[t]
      <3>1. file[path[t]] # None
        BY <2>6 DEF StampOf
      <3> QED
        BY <2>3, <2>5, <3>1, StampIsOfItsPath, FileIsAtPaths DEF CacheInv
    <2>7. CacheIsFresh(t)'
      <3> SUFFICES ASSUME StampOf(path[t]) # None, cache # None, cache.stamp = StampOf(path[t])
                   PROVE  cache.template \in present[t]
        BY <2>2 DEF CacheIsFresh
      <3>1. cache.template[1] = path[t]
        BY <2>6 DEF CacheInv, CacheHasATrueStamp
      <3>2. cache.template[2] = file[path[t]].content
        BY <3>1 DEF CacheInv, CacheHasATrueStamp, CacheIsTrue
      <3>3. cache.template = <<cache.template[1], cache.template[2]>>
        BY DEF CacheInv, TypeOK, Templates
      <3> QED
        BY <2>6, <3>1, <3>2, <3>3
    <2>8. ASSUME NEW u \in Threads PROVE WouldBeFresh(t, u)'
      <3> SUFFICES ASSUME u # t, StampOf(path[t]) # None,
                          pc[u] \in {"check", "store"}, stamp[u] = StampOf(path[t])
                   PROVE  <<path[u], got[u]>> \in present[t]
        BY <2>1, <2>2 DEF WouldBeFresh
      <3>1. HoldsATrueStamp(u)
        BY DEF CacheInv
      <3>2. path[u] = path[t]
        BY <2>6, <3>1 DEF HoldsATrueStamp
      <3>3. got[u] = file[path[u]].content
        BY <3>1, <3>2 DEF HoldsATrueStamp
      <3> QED
        BY <2>6, <3>2, <3>3
    <2>9. \A u \in Threads : WouldBeFresh(u, t)'
      BY <2>2 DEF WouldBeFresh
    <2> QED
      BY <2>1, <2>4, <2>7, <2>8, <2>9, GotoFresh
  <1>4. ASSUME NEW t \in Threads, Look(t) PROVE FreshInv'
    <2>1. CASE stamp[t] # None /\ cache # None /\ cache.stamp = stamp[t]
      BY <1>4, <2>1, ReturnFresh DEF Look
    <2>2. CASE ~(stamp[t] # None /\ cache # None /\ cache.stamp = stamp[t])
      <3>1. others(t) /\ UNCHANGED <<fileVars, cache>>
        BY <1>4, <2>2 DEF Look, Goto, CacheInv, TypeOK
      <3>2. pc[t] = "look" /\ pc'[t] = "read" /\ present'[t] = present[t] /\ file' = file
        BY <1>4, <2>2 DEF Look, Goto, CacheInv, TypeOK, fileVars
      <3>3. SeesTheFiles(t)
        BY DEF FreshInv
      <3>4. SeesTheFiles(t)' /\ ReadIsFresh(t)' /\ CacheIsFresh(t)'
        BY <3>2, <3>3 DEF SeesTheFiles, ReadIsFresh, CacheIsFresh, AtPaths
      <3>5. \A u \in Threads : WouldBeFresh(t, u)' /\ WouldBeFresh(u, t)'
        BY <3>2 DEF WouldBeFresh
      <3> QED
        BY <3>1, <3>4, <3>5, GotoFresh
    <2> QED
      BY <2>1, <2>2
  <1>5. ASSUME NEW t \in Threads, Read(t) PROVE FreshInv'
    <2> DEFINE fails == file[path[t]] = None \/ (path[t] = "chat" /\ file[path[t]].content \in Malformed)
    <2>1. CASE fails
      BY <1>5, <2>1, ReturnFresh DEF Read
    <2>2. CASE ~fails
      <3>1. others(t) /\ UNCHANGED <<fileVars, cache>>
        BY <1>5, <2>2 DEF Read, Goto, CacheInv, TypeOK
      <3>2. /\ pc[t] = "read" /\ pc'[t] = "check" /\ present'[t] = present[t] /\ file' = file
            /\ path'[t] = path[t] /\ stamp'[t] = stamp[t] /\ got'[t] = file[path[t]].content
        BY <1>5, <2>2 DEF Read, Goto, CacheInv, TypeOK, fileVars
      <3>3. <<path[t], file[path[t]].content>> \in AtPaths(file)
        BY <2>2, FileIsAtPaths DEF CacheInv, TypeOK
      <3>4. \A u \in Threads : pc[u] # "idle" => AtPaths(file) \subseteq present[u]
        BY DEF FreshInv, SeesTheFiles
      <3>5. SeesTheFiles(t)' /\ ReadIsFresh(t)' /\ CacheIsFresh(t)'
        BY <3>2, <3>3, <3>4 DEF SeesTheFiles, ReadIsFresh, CacheIsFresh, AtPaths
      <3>6. \A u \in Threads : WouldBeFresh(t, u)' /\ WouldBeFresh(u, t)'
        BY <3>1, <3>2, <3>3, <3>4 DEF WouldBeFresh
      <3> QED
        BY <3>1, <3>5, <3>6, GotoFresh
    <2> QED
      BY <2>1, <2>2
  <1>6. ASSUME NEW t \in Threads, Check(t) PROVE FreshInv'
    <2>1. CASE stamp[t] # None /\ StampOf(path[t]) = stamp[t]
      <3>1. others(t) /\ UNCHANGED <<fileVars, cache>>
        BY <1>6, <2>1 DEF Check, Goto, CacheInv, TypeOK
      <3>2. /\ pc[t] = "check" /\ pc'[t] = "store" /\ present'[t] = present[t] /\ file' = file
            /\ path'[t] = path[t] /\ stamp'[t] = stamp[t] /\ got'[t] = got[t]
        BY <1>6, <2>1 DEF Check, Goto, CacheInv, TypeOK, fileVars
      <3>3. SeesTheFiles(t) /\ ReadIsFresh(t) /\ \A u \in Threads : WouldBeFresh(u, t)
        BY DEF FreshInv
      <3>4. SeesTheFiles(t)' /\ ReadIsFresh(t)' /\ CacheIsFresh(t)'
        BY <3>2, <3>3 DEF SeesTheFiles, ReadIsFresh, CacheIsFresh, AtPaths
      <3>5. \A u \in Threads : WouldBeFresh(t, u)' /\ WouldBeFresh(u, t)'
        BY <3>1, <3>2, <3>3 DEF WouldBeFresh
      <3> QED
        BY <3>1, <3>4, <3>5, GotoFresh
    <2>2. CASE ~(stamp[t] # None /\ StampOf(path[t]) = stamp[t])
      BY <1>6, <2>2, ReturnFresh DEF Check
    <2> QED
      BY <2>1, <2>2
  <1>7. ASSUME NEW t \in Threads, Store(t) PROVE FreshInv'
    BY <1>7, ReturnFresh DEF Store
  <1>8. ASSUME NEW p \in Paths, Open(p) PROVE FreshInv'
    BY <1>8, AuthorFresh DEF Open
  <1>9. ASSUME NEW c \in Contents, Write(c) PROVE FreshInv'
    BY <1>9, AuthorFresh DEF Write
  <1>10. ASSUME NEW p \in Paths, NEW c \in Contents, Replace(p, c) PROVE FreshInv'
    BY <1>10, AuthorFresh DEF Replace
  <1>11. ASSUME NEW p \in Paths, Remove(p) PROVE FreshInv'
    BY <1>11, AuthorFresh DEF Remove
  <1>12. CASE UNCHANGED vars
    BY <1>12 DEF FreshInv, SeesTheFiles, ReadIsFresh, WouldBeFresh, CacheIsFresh, AtPaths,
                 vars, fileVars, threadVars
  <1> QED
    BY <1>1, <1>2, <1>3, <1>4, <1>5, <1>6, <1>7, <1>8, <1>9, <1>10, <1>11, <1>12 DEF Next, Step

-----------------------------------------------------------------------------
(* The choice of a path had a reason at the moment it was made, which is   *)
(* a moment of the call.                                                   *)
ChoiceHasAReason(t) ==
    pc[t] \in {"stamp", "look", "read", "check", "store"} =>
        /\ path[t] = "md" => <<"chat", None>> \in present[t]
        /\ path[t] = "chat" => \E c \in Held : <<"chat", c>> \in present[t]

ChoiceInv == \A t \in Threads : ChoiceHasAReason(t)

LEMMA ChoiceInit == Init => ChoiceInv
  BY DEF Init, ChoiceInv, ChoiceHasAReason

(* Once a path is chosen, what has been seen is not forgotten. *)
LEMMA ChoiceStays ==
    ASSUME ChoiceInv, NEW t \in Threads,
           pc'[t] \in {"idle", "choose"} \/
               (pc[t] \in {"stamp", "look", "read", "check", "store"} /\ path'[t] = path[t]
                /\ present[t] \subseteq present'[t])
    PROVE  ChoiceHasAReason(t)'
  BY DEF ChoiceInv, ChoiceHasAReason

LEMMA ChoiceStep == CacheInv /\ FreshInv /\ ChoiceInv /\ [Next]_vars => ChoiceInv'
  <1> SUFFICES ASSUME CacheInv, FreshInv, ChoiceInv, [Next]_vars, NEW t \in Threads
               PROVE  ChoiceHasAReason(t)'
    BY DEF ChoiceInv
  <1>1. pc[t] \in {"idle", "choose", "stamp", "look", "read", "check", "store"}
    BY DEF CacheInv, TypeOK
  <1>2. ASSUME UNCHANGED <<pc, path>>, pc[t] # "idle" => present[t] \subseteq present'[t]
        PROVE  ChoiceHasAReason(t)'
    BY <1>1, <1>2, ChoiceStays
  <1>3. ASSUME NEW u \in Threads, Step(u), u # t PROVE ChoiceHasAReason(t)'
    <2>1. pc'[t] = pc[t] /\ path'[t] = path[t] /\ present'[t] = present[t]
      BY <1>3 DEF Step, Call, Choose, TakeStamp, Look, Read, Check, Store, Goto, Return,
                  CacheInv, TypeOK
    <2> QED
      BY <1>1, <2>1, ChoiceStays
  <1>4. CASE Choose(t)
    <2>1. /\ path'[t] = IF file["chat"] # None THEN "chat" ELSE "md"
          /\ pc[t] = "choose" /\ present' = present
      BY <1>4 DEF Choose, CacheInv, TypeOK
    <2>2. AtPaths(file) \subseteq present[t]
      BY <2>1 DEF FreshInv, SeesTheFiles
    <2>3. CASE file["chat"] = None
      <3>1. <<"chat", None>> \in present[t]
        BY <2>2, <2>3, FileIsAtPaths DEF Paths
      <3> QED
        BY <2>1, <2>3, <3>1 DEF ChoiceHasAReason
    <2>4. CASE file["chat"] # None
      <3>1. file["chat"] \in Files
        BY <2>4 DEF CacheInv, TypeOK, Paths
      <3>2. file["chat"].content \in Held
        BY <3>1 DEF Files
      <3>3. <<"chat", file["chat"].content>> \in present[t]
        BY <2>2, <2>4, FileIsAtPaths DEF Paths
      <3> QED
        BY <2>1, <2>4, <3>2, <3>3 DEF ChoiceHasAReason
    <2> QED
      BY <2>3, <2>4
  <1>5. ASSUME Step(t), ~Choose(t) PROVE ChoiceHasAReason(t)'
    <2>1. pc'[t] \in {"idle", "choose"} \/
            (pc[t] \in {"stamp", "look", "read", "check", "store"} /\ path'[t] = path[t]
             /\ present'[t] = present[t])
      BY <1>5 DEF Step, Call, TakeStamp, Look, Read, Check, Store, Goto, Return, CacheInv, TypeOK
    <2> QED
      BY <2>1, ChoiceStays
  <1>6. ASSUME NEW f, Place(f) PROVE ChoiceHasAReason(t)'
    BY <1>2, <1>6 DEF Place, threadVars
  <1>7. CASE UNCHANGED vars
    BY <1>2, <1>7 DEF vars, threadVars
  <1> QED
    BY <1>3, <1>4, <1>5, <1>6, <1>7 DEF Next, Open, Write, Replace, Remove

(* What is cached under a thread's stamp is of the path the thread chose. *)
LEMMA CachedIsOfThePath ==
    ASSUME CacheInv, NEW t \in Threads, stamp[t] # None, cache # None, cache.stamp = stamp[t]
    PROVE  cache.template[1] = path[t]
  BY DEF CacheInv, CacheHasATrueStamp, HoldsATrueStamp

(* A thread that reads and finds no prompt has a reason to fail. *)
LEMMA FailureHasAReason ==
    ASSUME CacheInv, FreshInv, ChoiceInv, NEW t \in Threads, pc[t] = "read",
           file[path[t]] = None \/ (path[t] = "chat" /\ file[path[t]].content \in Malformed)
    PROVE  MayFail(t)
  <1>1. ChoiceHasAReason(t) /\ AtPaths(file) \subseteq present[t]
    BY DEF FreshInv, SeesTheFiles, ChoiceInv
  <1>2. path[t] = "chat" \/ path[t] = "md"
    BY DEF CacheInv, TypeOK, Paths
  <1>3. CASE file[path[t]] = None
    <2>1. <<path[t], None>> \in present[t]
      BY <1>1, <1>2, <1>3, FileIsAtPaths DEF Paths
    <2> QED
      BY <1>1, <1>2, <2>1 DEF ChoiceHasAReason, MayFail
  <1>4. CASE file[path[t]] # None /\ path[t] = "chat" /\ file[path[t]].content \in Malformed
    <2>1. <<"chat", file["chat"].content>> \in present[t]
      BY <1>1, <1>4, FileIsAtPaths DEF Paths
    <2> QED
      BY <1>4, <2>1 DEF MayFail
  <1> QED
    BY <1>3, <1>4

(* A call returns what one of the files held at some moment of the call,   *)
(* from the cache or not: no edit that was finished before it is missed.   *)
(* It returns a text prompt only if there was a moment without a chat      *)
(* prompt, and fails only for what the files were at moments of the call.  *)
THEOREM AnswersAreAlwaysFresh == Spec => AnswersAreFresh
  <1> DEFINE justified(t) == IF answer' = None THEN MayFail(t)
                             ELSE /\ answer' \in present[t]
                                  /\ answer'[1] = "md" => <<"chat", None>> \in present[t]
             fresh == \A t \in Threads : pc[t] # "idle" /\ pc'[t] = "idle" => justified(t)
  <1>1. CacheInv /\ FreshInv /\ ChoiceInv /\ [Next]_vars => [fresh]_vars
    <2> SUFFICES ASSUME CacheInv, FreshInv, ChoiceInv, Next, NEW t \in Threads,
                        pc[t] # "idle", pc'[t] = "idle"
                 PROVE  justified(t)
      OBVIOUS
    <2>1. /\ \A p \in Paths : ~Open(p) /\ ~Remove(p)
          /\ \A c \in Contents : ~Write(c) /\ \A p \in Paths : ~Replace(p, c)
      BY DEF Open, Write, Replace, Remove, Place, threadVars
    <2>2. PICK u \in Threads : Step(u)
      BY <2>1 DEF Next
    <2>3. u = t
      BY <2>2 DEF Step, Call, Choose, TakeStamp, Look, Read, Check, Store, Goto, Return,
                  CacheInv, TypeOK
    <2>4. Look(t) \/ Read(t) \/ Check(t) \/ Store(t)
      BY <2>2, <2>3 DEF Step, Call, Choose, TakeStamp, Goto, CacheInv, TypeOK
    (* A template of the path that was chosen, and that has been there. *)
    <2>5. ASSUME NEW template \in Templates, answer' = template, template \in present[t],
                 template[1] = path[t], pc[t] \in {"look", "check", "store"}
          PROVE  justified(t)
      BY <2>5, FilePromptsAssumption DEF ChoiceInv, ChoiceHasAReason
    <2>6. <<path[t], got[t]>> \in Templates
      BY DEF CacheInv, TypeOK, Templates
    <2>7. CASE Look(t)
      <3>1. /\ pc[t] = "look" /\ stamp[t] # None /\ cache # None /\ cache.stamp = stamp[t]
            /\ answer' = cache.template
        BY <2>7 DEF Look, Goto, Return, CacheInv, TypeOK
      <3>2. cache.template \in Templates /\ cache.template \in present[t]
        BY <3>1 DEF CacheInv, TypeOK, FreshInv, CacheIsFresh
      <3> QED
        BY <2>5, <3>1, <3>2, CachedIsOfThePath
    <2>8. CASE Read(t)
      <3>1. /\ pc[t] = "read" /\ answer' = None
            /\ file[path[t]] = None \/ (path[t] = "chat" /\ file[path[t]].content \in Malformed)
        BY <2>8 DEF Read, Goto, Return, CacheInv, TypeOK
      <3> QED
        BY <3>1, FailureHasAReason
    <2>9. CASE Check(t)
      <3>1. pc[t] = "check" /\ answer' = <<path[t], got[t]>>
        BY <2>9 DEF Check, Goto, Return, CacheInv, TypeOK
      <3>2. <<path[t], got[t]>> \in present[t]
        BY <3>1 DEF FreshInv, ReadIsFresh
      <3> QED
        BY <2>5, <2>6, <3>1, <3>2
    <2>10. CASE Store(t)
      <3>1. pc[t] = "store" /\ answer' = <<path[t], got[t]>>
        BY <2>10 DEF Store, Return
      <3>2. <<path[t], got[t]>> \in present[t]
        BY <3>1 DEF FreshInv, ReadIsFresh
      <3> QED
        BY <2>5, <2>6, <3>1, <3>2
    <2> QED
      BY <2>4, <2>7, <2>8, <2>9, <2>10
  <1> QED
    BY <1>1, CacheInvInit, CacheInvStep, FreshInit, FreshStep, ChoiceInit, ChoiceStep,
       PTL DEF Spec, AnswersAreFresh
=============================================================================

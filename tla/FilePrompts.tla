----------------------------- MODULE FilePrompts -----------------------------
(***************************************************************************)
(* integrations/prompts.py, FilePrompts: one prompt, read by worker        *)
(* threads (`asyncio.to_thread`) through a cache they share, while an      *)
(* author writes its two possible files, `<name>.chat.json` and            *)
(* `<name>.md`.  Every access to the file system and to the cache is a     *)
(* step.                                                                   *)
(*                                                                         *)
(* A cached template stands for what its file looked like: path, time and  *)
(* size.  The author never gives two writes the same time: a copy that     *)
(* preserves the time and the size of the file it replaces is not noticed, *)
(* as the code says of itself (prompts.py:416).                            *)
(***************************************************************************)
EXTENDS Naturals

CONSTANTS Threads,
          Contents,     \* what an author writes
          Empty,        \* what a file holds once it is opened for writing
          Size,         \* Size[c]: the size of a file that holds c
          Malformed,    \* the contents that are no list of messages
          MaxTime,      \* bound: times of writes
          None

Paths == {"chat", "md"}
Held  == Contents \cup {Empty}
Files == [content : Held, mtime : Nat]
Templates == Paths \X Held
Sights == Paths \X (Held \cup {None})  \* None: there was no file
Stamps == Paths \X Nat \X Nat

ASSUME FilePromptsAssumption ==
    /\ Empty \notin Contents
    /\ Size \in [Held -> Nat]
    /\ Malformed \subseteq Held
    /\ MaxTime \in Nat
    /\ None \notin Files /\ None \notin Templates /\ None \notin Stamps
    /\ None \notin Paths /\ None \notin Held /\ None \notin [stamp : Stamps, template : Templates]

VARIABLES file,     \* file[p]: what is at path p, or None
          clock,    \* the time of the last write
          writing,  \* the path that is open for writing, or None
          cache,    \* the entry of the prompt: a stamp and a template, or None
          pc,       \* where each thread is
          path,     \* the path it chose
          stamp,    \* the stamp it took, None if there was no file
          got,      \* the content it read
          present,  \* what has been at the paths since its call began: sights
          answer    \* the template that the last step, if it ended a call, returned

fileVars   == <<file, clock, writing>>
threadVars == <<pc, path, stamp, got>>
vars == <<fileVars, cache, threadVars, present, answer>>

TypeOK ==
    /\ file \in [Paths -> Files \cup {None}]
    /\ clock \in Nat
    /\ writing \in Paths \cup {None}
    /\ cache \in [stamp : Stamps, template : Templates] \cup {None}
    /\ pc \in [Threads -> {"idle", "choose", "stamp", "look", "read", "check", "store"}]
    /\ path \in [Threads -> Paths]
    /\ stamp \in [Threads -> Stamps \cup {None}]
    /\ got \in [Threads -> Held]
    /\ present \in [Threads -> SUBSET Sights]
    /\ answer \in Templates \cup {None}

Init ==
    /\ file \in [Paths -> {[content |-> c, mtime |-> 0] : c \in Contents} \cup {None}]
    /\ clock = 0
    /\ writing = None
    /\ cache = None
    /\ pc = [t \in Threads |-> "idle"]
    /\ path = [t \in Threads |-> "md"]
    /\ stamp = [t \in Threads |-> None]
    /\ got = [t \in Threads |-> Empty]
    /\ present = [t \in Threads |-> {}]
    /\ answer = None

-----------------------------------------------------------------------------
(* A call of `template` for a reference without a snapshot *)

StampOf(p) == IF file[p] = None THEN None
              ELSE <<p, file[p].mtime, Size[file[p].content]>>

AtPaths(f) == {<<p, IF f[p] = None THEN None ELSE f[p].content>> : p \in Paths}

Goto(t, place) ==
    /\ pc' = [pc EXCEPT ![t] = place]
    /\ answer' = None

(* None is a PromptError.  What the call held is forgotten. *)
Return(t, template) ==
    /\ pc' = [pc EXCEPT ![t] = "idle"]
    /\ path' = [path EXCEPT ![t] = "md"]
    /\ stamp' = [stamp EXCEPT ![t] = None]
    /\ got' = [got EXCEPT ![t] = Empty]
    /\ present' = [present EXCEPT ![t] = {}]
    /\ answer' = template

Call(t) ==
    /\ pc[t] = "idle"
    /\ Goto(t, "choose")
    /\ present' = [present EXCEPT ![t] = AtPaths(file)]
    /\ UNCHANGED <<fileVars, cache, path, stamp, got>>

(* A chat prompt wins over a text prompt of the same name. *)
Choose(t) ==
    /\ pc[t] = "choose"
    /\ path' = [path EXCEPT ![t] = IF file["chat"] # None THEN "chat" ELSE "md"]
    /\ Goto(t, "stamp")
    /\ UNCHANGED <<fileVars, cache, stamp, got, present>>

TakeStamp(t) ==
    /\ pc[t] = "stamp"
    /\ stamp' = [stamp EXCEPT ![t] = StampOf(path[t])]
    /\ Goto(t, "look")
    /\ UNCHANGED <<fileVars, cache, path, got, present>>

(* Mutant: the time of a file is taken for the file. *)
LookByTime(t) ==
    /\ pc[t] = "look"
    /\ IF stamp[t] # None /\ cache # None /\ cache.stamp[2] = stamp[t][2]
       THEN Return(t, cache.template)
       ELSE Goto(t, "read") /\ UNCHANGED <<path, stamp, got, present>>
    /\ UNCHANGED <<fileVars, cache>>

(* `_cached` *)
Look(t) ==
    /\ pc[t] = "look"
    /\ IF stamp[t] # None /\ cache # None /\ cache.stamp = stamp[t]
       THEN Return(t, cache.template)
       ELSE Goto(t, "read") /\ UNCHANGED <<path, stamp, got, present>>
    /\ UNCHANGED <<fileVars, cache>>

(* A file that is not there, or holds no prompt, is a PromptError. *)
Read(t) ==
    /\ pc[t] = "read"
    /\ IF file[path[t]] = None \/ (path[t] = "chat" /\ file[path[t]].content \in Malformed)
       THEN Return(t, None)
       ELSE /\ got' = [got EXCEPT ![t] = file[path[t]].content]
            /\ Goto(t, "check")
            /\ UNCHANGED <<path, stamp, present>>
    /\ UNCHANGED <<fileVars, cache>>

(* Mutant: the stamp that is remembered is taken after the file is read. *)
CheckTakingTheStamp(t) ==
    /\ pc[t] = "check"
    /\ IF StampOf(path[t]) # None
       THEN /\ stamp' = [stamp EXCEPT ![t] = StampOf(path[t])]
            /\ Goto(t, "store")
            /\ UNCHANGED <<path, got, present>>
       ELSE Return(t, <<path[t], got[t]>>)
    /\ UNCHANGED <<fileVars, cache>>

(* Mutant: a file that was not there is remembered too. *)
CheckWithoutStamp(t) ==
    /\ pc[t] = "check"
    /\ IF StampOf(path[t]) = stamp[t]
       THEN Goto(t, "store") /\ UNCHANGED <<path, stamp, got, present>>
       ELSE Return(t, <<path[t], got[t]>>)
    /\ UNCHANGED <<fileVars, cache>>

(* `_remember`: what changed while it was read is not remembered. *)
Check(t) ==
    /\ pc[t] = "check"
    /\ IF stamp[t] # None /\ StampOf(path[t]) = stamp[t]
       THEN Goto(t, "store") /\ UNCHANGED <<path, stamp, got, present>>
       ELSE Return(t, <<path[t], got[t]>>)
    /\ UNCHANGED <<fileVars, cache>>

Store(t) ==
    /\ pc[t] = "store"
    /\ cache' = [stamp |-> stamp[t], template |-> <<path[t], got[t]>>]
    /\ Return(t, <<path[t], got[t]>>)
    /\ UNCHANGED fileVars

-----------------------------------------------------------------------------
(* The author *)

Place(f) ==
    /\ file' = f
    /\ present' = [t \in Threads |-> IF pc[t] = "idle" THEN {} ELSE present[t] \cup AtPaths(f)]
    /\ answer' = None
    /\ UNCHANGED <<cache, threadVars>>

(* Two writes never carry the same time.                                   *)
Tick == clock < MaxTime /\ clock' = clock + 1

(* Opening a file for writing empties it; its content follows. *)
Open(p) ==
    /\ writing = None
    /\ Tick
    /\ Place([file EXCEPT ![p] = [content |-> Empty, mtime |-> clock + 1]])
    /\ writing' = p

Write(c) ==
    /\ writing # None
    /\ Tick
    /\ Place([file EXCEPT ![writing] = [content |-> c, mtime |-> clock + 1]])
    /\ writing' = None

(* A file written elsewhere is moved into place. *)
Replace(p, c) ==
    /\ writing = None
    /\ Tick
    /\ Place([file EXCEPT ![p] = [content |-> c, mtime |-> clock + 1]])
    /\ UNCHANGED writing

Remove(p) ==
    /\ writing = None
    /\ Place([file EXCEPT ![p] = None])
    /\ UNCHANGED <<clock, writing>>

-----------------------------------------------------------------------------
Step(t) == \/ Call(t) \/ Choose(t) \/ TakeStamp(t) \/ Look(t)
           \/ Read(t) \/ Check(t) \/ Store(t)

Next == \/ \E t \in Threads : Step(t)
        \/ \E p \in Paths : Open(p) \/ Remove(p) \/ \E c \in Contents : Replace(p, c)
        \/ \E c \in Contents : Write(c)

Spec == Init /\ [][Next]_vars

-----------------------------------------------------------------------------
(* Properties *)

(* What is cached under the stamp a file has now is what the file holds,   *)
(* whatever was written between a thread's stamp, its read and its store,  *)
(* and however the threads' stores are ordered (D-16 of the design).       *)
CacheIsTrue ==
    cache # None =>
        LET p == cache.template[1] IN
        cache.stamp = StampOf(p) => cache.template[2] = file[p].content

(* A call fails for a chat prompt that is no list of messages, for a name *)
(* that has no file, or for a chat prompt that came or went meanwhile.     *)
MayFail(t) ==
    \/ \E c \in Malformed : <<"chat", c>> \in present[t]
    \/ /\ <<"chat", None>> \in present[t]
       /\ <<"md", None>> \in present[t] \/ \E c \in Held : <<"chat", c>> \in present[t]

(* A call returns what was in one of the files at some moment of the call: *)
(* an edit finished before it is always picked up (README.md:184).  A text *)
(* prompt is returned only if the chat prompt of its name was missing at   *)
(* some moment of the call, and nothing only if the files give a reason.   *)
AnswersAreFresh ==
    [][\A t \in Threads : pc[t] # "idle" /\ pc'[t] = "idle" =>
          IF answer' = None THEN MayFail(t)
          ELSE /\ answer' \in present[t]
               /\ answer'[1] = "md" => <<"chat", None>> \in present[t]]_vars
=============================================================================

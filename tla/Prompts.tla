------------------------------- MODULE Prompts -------------------------------
(***************************************************************************)
(* integrations/prompts.py: from what an author stores to what an agent is *)
(* told.  A definition refers to a prompt; publication pins the reference; *)
(* every run of the published definition resolves it again, with the       *)
(* values its request brings, while authors go on editing the source.      *)
(*                                                                         *)
(* A content is a sequence of tokens: the two braces, a blank, and words.  *)
(* What stands between two braces, less the blanks around it, is a name.   *)
(***************************************************************************)
EXTENDS Naturals, Sequences

CONSTANTS Tokens,      \* what contents are made of
          Providers,   \* where prompts may be kept: "langfuse", "file"
          Raws,        \* what an author may store as a prompt
          Labels,      \* labels of the provider, "production" among them
          Drafts,      \* the references of definitions handed in
          Requests,    \* the values a request may bring: functions of names
          MaxVersions, \* bound: versions of the prompt at the provider
          None

ASSUME PromptsAssumption ==
    /\ Providers \subseteq {"langfuse", "file"}
    /\ "production" \in Labels
    /\ MaxVersions \in Nat
    /\ None \notin Nat

Contents == Seq(Tokens)
Roles == {"system", "user"}

Items(contents, roles) == [content : contents, role : roles]
Messages == Seq(Items(Contents, Roles))

(* What NextVariable finds is not None. *)
ASSUME NoneAssumption ==
    None \notin [closed : Nat, name : Contents, opened : Nat]

(* A value is a text, or nothing. *)
Valued(variables) == \A n \in DOMAIN variables : variables[n] \in Contents \cup {None}

(* A prompt is a text or a chat, whose items need not be text. *)
ASSUME InputsAssumption ==
    /\ \A raw \in Raws : IF raw.chat = None THEN raw.text \in Contents
                         ELSE raw.chat \in Seq(Items(Contents \cup {None}, STRING))
    /\ \A request \in Requests : Valued(request)

Ref(by, variables, what) == [variables |-> variables, by |-> by, what |-> what]

(* PromptRef: one selector.  A label names one of the provider's labels. *)
ASSUME DraftsAssumption ==
    /\ None \notin Drafts
    /\ \A ref \in Drafts :
          /\ ref = Ref(ref.by, ref.variables, ref.what)
          /\ ref.by \in {"label", "version", "snapshot", "snapshot_messages"}
          /\ ref.by = "label" => ref.what \in Labels
          /\ ref.by = "snapshot" => ref.what \in Contents
          /\ ref.by = "snapshot_messages" => ref.what \in Messages
          /\ Valued(ref.variables)

VARIABLES provider,   \* where this platform keeps its prompts; it stays
          versions,   \* Langfuse: the versions of the prompt, oldest first
          labels,     \* Langfuse: the version a label is on, 0 for none
          file,       \* files: what the prompt's file holds, None if missing
          draft,      \* the reference the definition was created with
          published,  \* the reference stored at publication, None before
          meaning,    \* what every request would have got at publication
          ran         \* the last run: its request and what it was told

sourceVars == <<provider, versions, labels, file>>
vars == <<sourceVars, draft, published, meaning, ran>>

-----------------------------------------------------------------------------
(* Placeholders *)

Opening == "{{"
Closing == "}}"
Blank == " "

Least(S)    == CHOOSE i \in S : \A j \in S : i <= j
Greatest(S) == CHOOSE i \in S : \A j \in S : j <= i

Strip(s) ==
    LET solid == {i \in DOMAIN s : s[i] # Blank}
    IN IF solid = {} THEN <<>> ELSE SubSeq(s, Least(solid), Greatest(solid))

(* The next opening braces, and the next closing ones after them. *)
NextVariable(content, start) ==
    LET opens == {i \in start..Len(content) : content[i] = Opening}
        ends  == {i \in Least(opens)..Len(content) : content[i] = Closing}
    IN IF opens = {} THEN None
       ELSE IF ends = {} THEN None
       ELSE [closed |-> Least(ends) + 1,
             name   |-> Strip(SubSeq(content, Least(opens) + 1, Least(ends) - 1)),
             opened |-> Least(opens)]

VariableNames(content) ==
    LET from[i \in 1..Len(content) + 1] ==
          LET found == NextVariable(content, i)
          IN IF found = None THEN {} ELSE {found.name} \cup from[found.closed]
    IN from[1]

(* None is written as nothing. *)
Written(value) == IF value = None THEN <<>> ELSE value

(* Mutant: what a value brings is scanned as well. *)
FillRescanning(content, variables) ==
    LET once(text) ==
          LET from[i \in 1..Len(text) + 1] ==
                LET found == NextVariable(text, i)
                IN IF found = None THEN SubSeq(text, i, Len(text))
                   ELSE SubSeq(text, i, found.opened - 1)
                        \o (IF found.name \in DOMAIN variables
                            THEN Written(variables[found.name])
                            ELSE SubSeq(text, found.opened, found.closed - 1))
                        \o from[found.closed]
          IN from[1]
    IN once(once(content))

(* Values are put in once, from left to right. *)
Fill(content, variables) ==
    LET from[i \in 1..Len(content) + 1] ==
          LET found == NextVariable(content, i)
          IN IF found = None THEN SubSeq(content, i, Len(content))
             ELSE SubSeq(content, i, found.opened - 1)
                  \o (IF found.name \in DOMAIN variables
                      THEN Written(variables[found.name])
                      ELSE SubSeq(content, found.opened, found.closed - 1))
                  \o from[found.closed]
    IN from[1]

-----------------------------------------------------------------------------
(* Templates *)

Message(role, content) == [content |-> content, role |-> role]

(* A text, or a chat: a list of messages, some of which may not be text (a *)
(* placeholder for messages, a list of parts), or have another role.       *)
AsMessages(raw) ==
    IF raw.chat = None THEN <<Message("system", raw.text)>>
    ELSE IF \A i \in DOMAIN raw.chat : /\ raw.chat[i].role \in Roles
                                       /\ raw.chat[i].content # None
         THEN raw.chat
         ELSE <<>>

(* A reference selects by label, by version, or carries the prompt itself. *)
Snapshot(ref) == ref.by \in {"snapshot", "snapshot_messages"}

SnapshotTemplate(ref) ==
    [is_chat  |-> ref.by = "snapshot_messages",
     messages |-> IF ref.by = "snapshot" THEN <<Message("system", ref.what)>>
                  ELSE ref.what,
     version  |-> None]

(* The version a provider's selector names, 0 when there is none. *)
Selected(ref) ==
    IF ref.by = "label" THEN labels[ref.what]
    ELSE IF ref.what \in DOMAIN versions THEN ref.what ELSE 0

Stored(raw, version) ==
    IF AsMessages(raw) = <<>> THEN None
    ELSE [is_chat |-> raw.chat # None, messages |-> AsMessages(raw), version |-> version]

LangfuseTemplate(ref) ==
    IF Selected(ref) = 0 THEN None
    ELSE Stored(versions[Selected(ref)], Selected(ref))

(* A file has no versions, and no label but the default one. *)
FileTemplate(ref) ==
    IF ref.by = "label" /\ ref.what = "production" /\ file # None
    THEN Stored(file, None)
    ELSE None

(* `template` of the two providers: None stands for a PromptError. *)
TemplateOf(ref) ==
    IF Snapshot(ref) THEN SnapshotTemplate(ref)
    ELSE IF provider = "langfuse" THEN LangfuseTemplate(ref) ELSE FileTemplate(ref)

(* One system message that is not blank, and at most a user message. *)
Shaped(messages) ==
    /\ [i \in DOMAIN messages |-> messages[i].role]
          \in {<<"system">>, <<"system", "user">>}
    /\ Strip(messages[1].content) # <<>>

Wanted(template) ==
    UNION {VariableNames(template.messages[i].content) : i \in DOMAIN template.messages}

-----------------------------------------------------------------------------
(* Resolving *)

(* Mutant: a request may bring another value for a name already answered. *)
MayFillAnything(ref, request, template) == DOMAIN request \subseteq Wanted(template)

(* merge_variables: a request replaces no value of the definition, and     *)
(* brings none the prompt does not ask for.                                *)
MayFill(ref, request, template) ==
    /\ DOMAIN ref.variables \cap DOMAIN request = {}
    /\ DOMAIN request \subseteq Wanted(template)

Merged(ref, request) ==
    [n \in DOMAIN ref.variables \cup DOMAIN request |->
        IF n \in DOMAIN request THEN request[n] ELSE ref.variables[n]]

Told(error, instructions, messages) ==
    [error |-> error, messages |-> messages, instructions |-> instructions]

Failure(error) == Told(error, <<>>, <<>>)

Render(template, variables) ==
    LET rendered == [i \in DOMAIN template.messages |->
                       Message(template.messages[i].role,
                               Fill(template.messages[i].content, variables))]
    IN IF ~(Wanted(template) \subseteq DOMAIN variables) THEN Failure("variable")
       ELSE IF ~Shaped(rendered) THEN Failure("shape")
       ELSE Told("none", rendered[1].content, Tail(rendered))

Resolve(ref, request) ==
    IF TemplateOf(ref) = None THEN Failure("prompt")
    ELSE IF ~MayFill(ref, request, TemplateOf(ref)) THEN Failure("variable")
    ELSE Render(TemplateOf(ref), Merged(ref, request))

-----------------------------------------------------------------------------
(* Publication *)

(* Mutant: a chat prompt is stored as its first message. *)
PinToTheSystemMessage(ref) ==
    LET template == TemplateOf(ref)
    IN IF Snapshot(ref) THEN ref
       ELSE IF template = None THEN None
       ELSE IF ~Shaped(template.messages) THEN None
       ELSE IF template.version # None
            THEN Ref("version", ref.variables, template.version)
            ELSE Ref("snapshot", ref.variables, template.messages[1].content)

(* Mutant: the shape is not looked at. *)
PinAnyShape(ref) ==
    LET template == TemplateOf(ref)
    IN IF Snapshot(ref) THEN ref
       ELSE IF template = None THEN None
       ELSE IF template.version # None
            THEN Ref("version", ref.variables, template.version)
       ELSE IF template.is_chat
            THEN Ref("snapshot_messages", ref.variables, template.messages)
            ELSE Ref("snapshot", ref.variables, template.messages[1].content)

(* Mutant: a label is stored as it is. *)
PinTheLabel(ref) ==
    IF Snapshot(ref) THEN ref
    ELSE IF TemplateOf(ref) = None THEN None
    ELSE IF Shaped(TemplateOf(ref).messages) THEN ref ELSE None

(* pin_prompt: a version where the provider has them, else the template    *)
(* itself.  None stands for a refusal.                                     *)
Pin(ref) ==
    LET template == TemplateOf(ref)
    IN IF Snapshot(ref) THEN ref
       ELSE IF template = None THEN None
       ELSE IF ~Shaped(template.messages) THEN None
       ELSE IF template.version # None
            THEN Ref("version", ref.variables, template.version)
       ELSE IF template.is_chat
            THEN Ref("snapshot_messages", ref.variables, template.messages)
            ELSE Ref("snapshot", ref.variables, template.messages[1].content)

-----------------------------------------------------------------------------
Init ==
    /\ provider \in Providers
    /\ versions = <<>>
    /\ labels = [l \in Labels |-> 0]
    /\ file = None
    /\ draft \in Drafts
    /\ published = None
    /\ meaning = None
    /\ ran = None

(* An author adds a version, which may take labels with it. *)
AddVersion(raw, moved) ==
    /\ provider = "langfuse"
    /\ Len(versions) < MaxVersions
    /\ versions' = Append(versions, raw)
    /\ labels' = [l \in Labels |-> IF l \in moved THEN Len(versions) + 1 ELSE labels[l]]
    /\ UNCHANGED <<provider, file, draft, published, meaning, ran>>

MoveLabel(l, v) ==
    /\ provider = "langfuse"
    /\ v \in DOMAIN versions
    /\ labels' = [labels EXCEPT ![l] = v]
    /\ UNCHANGED <<provider, versions, file, draft, published, meaning, ran>>

(* An author writes the file, or removes it. *)
SaveFile(raw) ==
    /\ provider = "file"
    /\ file' = raw
    /\ UNCHANGED <<provider, versions, labels, draft, published, meaning, ran>>

Publish ==
    /\ published = None
    /\ Pin(draft) # None
    /\ published' = Pin(draft)
    /\ meaning' = [request \in Requests |-> Resolve(draft, request)]
    /\ UNCHANGED <<sourceVars, draft, ran>>

Run(request) ==
    /\ published # None
    /\ ran' = [told |-> Resolve(published, request), request |-> request]
    /\ UNCHANGED <<sourceVars, draft, published, meaning>>

(* The prompt service does not answer. *)
RunUnreached(request) ==
    /\ published # None
    /\ ~Snapshot(published)
    /\ ran' = [told |-> Failure("prompt"), request |-> request]
    /\ UNCHANGED <<sourceVars, draft, published, meaning>>

Next ==
    \/ \E raw \in Raws : \/ \E moved \in SUBSET Labels : AddVersion(raw, moved)
                         \/ SaveFile(raw)
    \/ \E l \in Labels, v \in 1..MaxVersions : MoveLabel(l, v)
    \/ SaveFile(None)
    \/ Publish
    \/ \E request \in Requests : Run(request) \/ RunUnreached(request)

Spec == Init /\ [][Next]_vars

-----------------------------------------------------------------------------
(* Properties *)

(* Labels are on versions there are, and a published reference is none of  *)
(* them: it names a version or carries texts, with the definition's values.*)
TypeOK ==
    /\ provider \in Providers
    /\ versions \in Seq(Raws) /\ Len(versions) <= MaxVersions
    /\ labels \in [Labels -> 0..Len(versions)]
    /\ file \in Raws \cup {None}
    /\ draft \in Drafts
    /\ published # None =>
          /\ published.by \in {"version", "snapshot", "snapshot_messages"}
          /\ published.variables = draft.variables
          /\ TemplateOf(published).messages \in Messages
    /\ ran # None => published # None /\ ran.request \in Requests

(* What an agent is told depends on its published definition and on the    *)
(* request, never on what authors did to the prompt since: every run gets  *)
(* what the same request would have got at publication, unless the prompt  *)
(* service is out of reach; a prompt kept in files needs no file any more  *)
(* (R-PUB-3, R-PUB-4).                                                     *)
PublishedMeansTheSame ==
    ran # None =>
        \/ ran.told = meaning[ran.request]
        \/ provider = "langfuse" /\ ran.told = Failure("prompt")

-----------------------------------------------------------------------------
(* What a placeholder is, told without a cursor. *)

(* Where the placeholder that token p belongs to begins, 0 for none: at    *)
(* the first opening braces that no closing ones part from p, if closing   *)
(* ones follow.                                                            *)
Begins(content, p) ==
    LET opens == {b \in 1..p : /\ content[b] = Opening
                               /\ \A q \in b..p - 1 : content[q] # Closing}
    IN IF opens # {} /\ \E q \in p..Len(content) : content[q] = Closing
       THEN Least(opens) ELSE 0

(* The tokens that end a placeholder, and the name it holds. *)
Ends(content) == {p \in 1..Len(content) : content[p] = Closing /\ Begins(content, p) # 0}
NameBefore(content, p) == Strip(SubSeq(content, Begins(content, p) + 1, p - 1))
Names(content) == {NameBefore(content, p) : p \in Ends(content)}
Asked(messages) == UNION {Names(messages[i].content) : i \in DOMAIN messages}

(* What a token becomes: the end of a placeholder its value, the rest of   *)
(* the placeholder nothing, and any other token stays.                     *)
Becomes(content, values, p) ==
    IF Begins(content, p) = 0 THEN <<content[p]>>
    ELSE IF content[p] = Closing THEN Written(values[NameBefore(content, p)])
    ELSE <<>>

Expected(content, values) ==
    LET rest[p \in 1..Len(content) + 1] ==
          IF p > Len(content) THEN <<>> ELSE Becomes(content, values, p) \o rest[p + 1]
    IN rest[1]

(* A request is turned away for its values exactly when they are not the   *)
(* names the prompt asks for less those the definition answers: none       *)
(* missing, none idle, none replaced (R-PR-3 to R-PR-6).                   *)
AcceptsExactlyTheOpenNames ==
    ran # None /\ ran.told.error # "prompt" =>
        (ran.told.error = "variable" <=>
            DOMAIN ran.request
               # Asked(TemplateOf(published).messages) \ DOMAIN published.variables)

(* An agent that is told something is told its prompt, word for word, with *)
(* a value where each placeholder stood, and whatever looks like a         *)
(* placeholder in a value left as it is (R-PR-2, R-PR-3, R-PR-7).          *)
ValuesAreNotScanned ==
    ran # None /\ ran.told.error = "none" =>
        LET values == Merged(published, ran.request)
            messages == TemplateOf(published).messages
        IN <<ran.told.instructions>> \o [i \in DOMAIN ran.told.messages |-> ran.told.messages[i].content]
             = [i \in DOMAIN messages |-> Expected(messages[i].content, values)]

(* The shape of a prompt is settled at its publication, but for one thing: *)
(* a run with the right values is refused exactly when nothing of the      *)
(* system message is left but blanks.  Prompts that a definition brings    *)
(* itself are stored as they are, and their shape is first seen by a run.  *)
OnlyBlanksAreRefused ==
    ran # None /\ ran.told.error \in {"none", "shape"} /\ ~Snapshot(draft) =>
        LET values == Merged(published, ran.request)
            system == TemplateOf(published).messages[1].content
        IN ran.told.error = "shape" <=>
             \A p \in DOMAIN system : Strip(Becomes(system, values, p)) = <<>>
=============================================================================

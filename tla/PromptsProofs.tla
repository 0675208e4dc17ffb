---------------------------- MODULE PromptsProofs ----------------------------
(* Proofs about Prompts: what a published definition resolves to is fixed  *)
(* at its publication, whatever authors do afterwards; and what a run is   *)
(* told is the prompt with its values put in.                              *)
EXTENDS PlaceholdersProofs, TLAPS

(* A reference that no edit of the source reaches. *)
Fixed(ref) ==
    \/ Snapshot(ref)
    \/ provider = "langfuse" /\ ref.by = "version" /\ ref.what \in DOMAIN versions

SourceOK ==
    /\ provider \in Providers /\ provider \in {"langfuse", "file"}
    /\ versions \in Seq(Raws) /\ Len(versions) <= MaxVersions
    /\ labels \in [Labels -> 0..Len(versions)]
    /\ file \in Raws \cup {None}
    /\ draft \in Drafts

(* The inductive invariant: a published reference is fixed and still       *)
(* resolves, for every request, to what the draft resolved to.             *)
Pinned ==
    /\ SourceOK
    /\ published # None =>
          /\ Fixed(published)
          /\ meaning = [request \in Requests |-> Resolve(published, request)]
    /\ ran # None =>
          /\ published # None
          /\ ran.request \in Requests
          /\ \/ ran.told = Resolve(published, ran.request)
             \/ provider = "langfuse" /\ ran.told = Failure("prompt")

-----------------------------------------------------------------------------
(* A reference resolves through its template and its variables only. *)
LEMMA SameTemplate ==
    ASSUME NEW ref, NEW other, NEW request,
           other.variables = ref.variables, TemplateOf(other) = TemplateOf(ref)
    PROVE  Resolve(other, request) = Resolve(ref, request)
  BY DEF Resolve, MayFill, Merged

(* Versions are only ever added, so a fixed reference keeps its template. *)
LEMMA FixedStays ==
    ASSUME NEW ref, SourceOK, Fixed(ref), provider' = provider,
           versions' = versions \/ \E raw \in Raws : versions' = Append(versions, raw)
    PROVE  /\ Fixed(ref)'
           /\ TemplateOf(ref)' = TemplateOf(ref)
           /\ \A request : Resolve(ref, request)' = Resolve(ref, request)
<1>1. CASE Snapshot(ref)
  <2>1. Fixed(ref)' /\ TemplateOf(ref)' = TemplateOf(ref)
    BY <1>1 DEF Fixed, Snapshot, TemplateOf
  <2> QED BY <2>1 DEF Resolve
<1>2. CASE ~Snapshot(ref)
  <2>1. /\ provider = "langfuse" /\ ref.by = "version"
        /\ ref.what \in DOMAIN versions
    BY <1>2 DEF Fixed
  <2>2. ref.what \in DOMAIN versions' /\ versions'[ref.what] = versions[ref.what]
    BY <2>1 DEF SourceOK
  <2>3. Selected(ref)' = Selected(ref) /\ Selected(ref) = ref.what
    BY <2>1, <2>2 DEF Selected
  <2>4. Fixed(ref)' /\ TemplateOf(ref)' = TemplateOf(ref)
    BY <1>2, <2>1, <2>2, <2>3 DEF Fixed, Snapshot, TemplateOf, LangfuseTemplate, Stored, AsMessages
  <2> QED BY <2>4 DEF Resolve
<1> QED BY <1>1, <1>2

(* What is stored of a template that has no version. *)
Stores(ref, template) ==
    IF template.is_chat
    THEN Ref("snapshot_messages", ref.variables, template.messages)
    ELSE Ref("snapshot", ref.variables, template.messages[1].content)

LEMMA PinStores ==
    ASSUME NEW ref, ~Snapshot(ref), Pin(ref) # None, TemplateOf(ref).version = None
    PROVE  Pin(ref) = Stores(ref, TemplateOf(ref))
  BY DEF Pin, Stores

(* pin_prompt: the reference it returns is fixed, keeps the variables and  *)
(* stands for the template that was there.                                 *)
LEMMA PinKeepsTheTemplate ==
    ASSUME SourceOK, NEW ref \in Drafts, Pin(ref) # None
    PROVE  /\ Fixed(Pin(ref))
           /\ Pin(ref).variables = ref.variables
           /\ TemplateOf(Pin(ref)) = TemplateOf(ref)
<1>1. CASE Snapshot(ref)
  BY <1>1 DEF Pin, Fixed
<1>2. CASE ~Snapshot(ref)
  <2> DEFINE template == TemplateOf(ref)
  <2>1. template # None
    BY <1>2 DEF Pin
  <2>2. CASE provider = "langfuse"
    <3>1. Selected(ref) \in DOMAIN versions /\ Selected(ref) \in Nat
      <4>1. Selected(ref) # 0
        BY <1>2, <2>1, <2>2 DEF TemplateOf, LangfuseTemplate
      <4>2. ref.by = "label" => labels[ref.what] \in 0..Len(versions)
        BY DraftsAssumption DEF SourceOK
      <4> QED BY <4>1, <4>2 DEF Selected, SourceOK
    <3>2. template.version = Selected(ref) /\ template.version # None
      BY <1>2, <2>1, <2>2, <3>1, PromptsAssumption DEF TemplateOf, LangfuseTemplate, Stored
    <3>3. Pin(ref) = Ref("version", ref.variables, Selected(ref))
      BY <1>2, <3>2 DEF Pin
    <3>4. Selected(Pin(ref)) = Selected(ref) /\ ~Snapshot(Pin(ref))
      BY <3>1, <3>3 DEF Selected, Ref, Snapshot
    <3>5. TemplateOf(Pin(ref)) = TemplateOf(ref)
      BY <1>2, <2>2, <3>4 DEF TemplateOf, LangfuseTemplate
    <3> QED BY <2>2, <3>1, <3>3, <3>5 DEF Fixed, Ref
  <2>3. CASE provider = "file"
    <3>1. template = Stored(file, None)
      BY <1>2, <2>1, <2>3 DEF TemplateOf, FileTemplate
    <3>2. /\ template = [is_chat |-> file.chat # None, messages |-> AsMessages(file),
                         version |-> None]
      BY <2>1, <3>1 DEF Stored
    <3>3. CASE file.chat = None
      <4>1. /\ template.messages = <<Message("system", file.text)>>
            /\ template.is_chat = FALSE /\ template.version = None
        <5>1. AsMessages(file) = <<Message("system", file.text)>>
          BY <3>3 DEF AsMessages
        <5>2. template.messages = AsMessages(file) /\ template.version = None
          BY <3>2
        <5>3. template.is_chat = (file.chat # None)
          BY <3>2
        <5> QED BY <3>3, <5>1, <5>2, <5>3
      <4>2. Pin(ref) = Ref("snapshot", ref.variables, file.text)
        <5>1. template.messages[1].content = file.text
          BY <4>1 DEF Message
        <5>2. Pin(ref) = Stores(ref, template)
          BY <1>2, <4>1, PinStores
        <5> QED BY <4>1, <5>1, <5>2 DEF Stores
      <4>3. TemplateOf(Pin(ref)) = template
        BY <3>2, <3>3, <4>1, <4>2 DEF TemplateOf, SnapshotTemplate, Snapshot, Ref
      <4> QED BY <4>2, <4>3 DEF Fixed, Snapshot, Ref
    <3>4. CASE file.chat # None
      <4>1. Pin(ref) = Ref("snapshot_messages", ref.variables, template.messages)
        <5>1. template.is_chat = (file.chat # None) /\ template.version = None
          BY <3>2
        <5>2. template.is_chat
          BY <3>4, <5>1
        <5>3. Pin(ref) = Stores(ref, template)
          BY <1>2, <5>1, PinStores
        <5> QED BY <5>2, <5>3 DEF Stores
      <4>2. TemplateOf(Pin(ref)) = template
        BY <3>2, <3>4, <4>1 DEF TemplateOf, SnapshotTemplate, Snapshot, Ref
      <4> QED BY <4>1, <4>2 DEF Fixed, Snapshot, Ref
    <3> QED BY <3>3, <3>4
  <2> QED BY <2>2, <2>3 DEF SourceOK
<1> QED BY <1>1, <1>2

-----------------------------------------------------------------------------
LEMMA SourceStep ==
    SourceOK /\ [Next]_vars =>
        /\ SourceOK' /\ provider' = provider
        /\ versions' = versions \/ \E raw \in Raws : versions' = Append(versions, raw)
<1> SUFFICES ASSUME SourceOK, [Next]_vars
             PROVE  /\ SourceOK' /\ provider' = provider
                    /\ versions' = versions \/ \E raw \in Raws : versions' = Append(versions, raw)
  OBVIOUS
<1> USE DEF SourceOK
<1>1. ASSUME NEW raw \in Raws, NEW moved \in SUBSET Labels, AddVersion(raw, moved)
      PROVE  SourceOK' /\ provider' = provider /\ versions' = Append(versions, raw)
  <2>1. /\ versions' = Append(versions, raw) /\ Len(versions) < MaxVersions
        /\ labels' = [l \in Labels |-> IF l \in moved THEN Len(versions) + 1 ELSE labels[l]]
        /\ UNCHANGED <<provider, file, draft>>
    BY <1>1 DEF AddVersion
  <2>2. versions' \in Seq(Raws) /\ Len(versions') = Len(versions) + 1 /\ Len(versions) \in Nat
    BY <2>1
  <2>3. labels' \in [Labels -> 0..Len(versions')]
    BY <2>1, <2>2
  <2> QED BY <2>1, <2>2, <2>3, PromptsAssumption
<1>2. ASSUME NEW l \in Labels, NEW v \in 1..MaxVersions, MoveLabel(l, v)
      PROVE  SourceOK' /\ provider' = provider /\ versions' = versions
  BY <1>2 DEF MoveLabel
<1>3. ASSUME UNCHANGED <<provider, versions, labels, draft>>, file' = file \/ file' \in Raws \cup {None}
      PROVE  SourceOK' /\ provider' = provider /\ versions' = versions
  BY <1>3
<1> QED BY <1>1, <1>2, <1>3 DEF Next, SaveFile, Publish, Run, RunUnreached, vars, sourceVars

LEMMA PinnedStep == Pinned /\ [Next]_vars => Pinned'
<1> SUFFICES ASSUME Pinned, [Next]_vars PROVE Pinned'
  OBVIOUS
<1>1. /\ SourceOK /\ SourceOK' /\ provider' = provider
      /\ versions' = versions \/ \E raw \in Raws : versions' = Append(versions, raw)
  BY SourceStep DEF Pinned
<1>2. ASSUME UNCHANGED <<published, meaning, ran>> PROVE Pinned'
  <2>1. PICK ref : ref = published
    OBVIOUS
  <2>2. published # None =>
          Fixed(ref)' /\ \A request : Resolve(ref, request)' = Resolve(ref, request)
    BY <1>1, <2>1, FixedStays DEF Pinned
  <2> QED BY <1>1, <1>2, <2>1, <2>2 DEF Pinned
<1>3. CASE Publish
  <2>1. PICK ref : ref = Pin(draft)
    OBVIOUS
  <2>2. /\ Fixed(ref)
        /\ \A request : Resolve(ref, request) = Resolve(draft, request)
    BY <1>1, <1>3, <2>1, PinKeepsTheTemplate, SameTemplate DEF Publish, SourceOK
  <2>3. Fixed(ref)' /\ \A request : Resolve(ref, request)' = Resolve(ref, request)
    BY <1>1, <2>2, FixedStays
  <2>4. meaning' = [request \in Requests |-> Resolve(ref, request)']
    BY <1>3, <2>2, <2>3 DEF Publish
  <2>5. ran = None /\ ran' = None /\ published' = ref
    BY <1>3, <2>1 DEF Publish, Pinned
  <2> QED BY <1>1, <2>3, <2>4, <2>5 DEF Pinned
<1>4. ASSUME NEW request \in Requests, Run(request) \/ RunUnreached(request)
      PROVE  Pinned'
  <2>1. PICK ref : ref = published
    OBVIOUS
  <2>2. published # None /\ published' = ref /\ meaning' = meaning
    BY <1>4, <2>1 DEF Run, RunUnreached
  <2>3. Fixed(ref)' /\ \A q : Resolve(ref, q)' = Resolve(ref, q)
    BY <1>1, <2>1, <2>2, FixedStays DEF Pinned
  <2>4. ran'.request = request
    BY <1>4 DEF Run, RunUnreached
  <2>5. \/ ran'.told = Resolve(ref, request)
        \/ provider = "langfuse" /\ ran'.told = Failure("prompt")
    BY <1>4, <2>1 DEF Run, RunUnreached, Pinned, Fixed
  <2> QED BY <1>1, <2>1, <2>2, <2>3, <2>4, <2>5 DEF Pinned
<1> QED
  BY <1>2, <1>3, <1>4 DEF Next, vars, sourceVars, AddVersion, MoveLabel, SaveFile

LEMMA PinnedInit == Init => Pinned
<1> SUFFICES ASSUME Init PROVE Pinned
  OBVIOUS
<1>1. versions \in Seq(Raws) /\ Len(versions) = 0
  BY DEF Init
<1>2. SourceOK
  BY <1>1, PromptsAssumption DEF Init, SourceOK
<1> QED BY <1>2 DEF Init, Pinned

THEOREM PinnedAlways == Spec => []Pinned
  BY PinnedInit, PinnedStep, PTL DEF Spec

-----------------------------------------------------------------------------
(* Every run of a published definition is told what the same request would *)
(* have been told at publication, for every prompt, edit and request.      *)
THEOREM PublishedAlwaysMeansTheSame == Spec => []PublishedMeansTheSame
<1>1. Pinned => PublishedMeansTheSame
  BY DEF Pinned, PublishedMeansTheSame
<1> QED BY <1>1, PinnedAlways, PTL

-----------------------------------------------------------------------------
(* What a published reference carries. *)
Carried ==
    published # None =>
        /\ published.by \in {"version", "snapshot", "snapshot_messages"}
        /\ published.variables = draft.variables
        /\ TemplateOf(published).messages \in Messages
        /\ ~Snapshot(draft) => Shaped(TemplateOf(published).messages)

LEMMA OneMessage ==
    ASSUME NEW text \in Contents
    PROVE  <<Message("system", text)>> \in Messages
<1>1. Message("system", text) \in Items(Contents, Roles)
  BY DEF Message, Items, Roles
<1> QED BY <1>1 DEF Messages

LEMMA StoredIsTyped ==
    ASSUME NEW raw \in Raws, NEW version, Stored(raw, version) # None
    PROVE  Stored(raw, version).messages \in Messages
<1>1. AsMessages(raw) # <<>> /\ Stored(raw, version).messages = AsMessages(raw)
  BY DEF Stored
<1>2. CASE raw.chat = None
  <2>1. AsMessages(raw) = <<Message("system", raw.text)>> /\ raw.text \in Contents
    BY <1>2, InputsAssumption DEF AsMessages
  <2> QED BY <1>1, <2>1, OneMessage
<1>3. CASE raw.chat # None
  <2>1. raw.chat \in Seq(Items(Contents \cup {None}, STRING))
    BY <1>3, InputsAssumption
  <2>2. AsMessages(raw) = raw.chat /\ \A i \in DOMAIN raw.chat : /\ raw.chat[i].role \in Roles
                                           /\ raw.chat[i].content # None
    BY <1>1, <1>3 DEF AsMessages
  <2>3. \A i \in DOMAIN raw.chat : raw.chat[i] \in Items(Contents, Roles)
    <3> TAKE i \in DOMAIN raw.chat
    <3>1. raw.chat[i] \in Items(Contents \cup {None}, STRING)
      BY <2>1 DEF Messages
    <3> QED BY <2>2, <3>1 DEF Items
  <2>4. raw.chat \in Messages
    BY <2>1, <2>3 DEF Messages
  <2> QED BY <1>1, <2>2, <2>4
<1> QED BY <1>2, <1>3

LEMMA DraftIsTyped ==
    ASSUME SourceOK, NEW ref \in Drafts, Snapshot(ref) \/ TemplateOf(ref) # None
    PROVE  TemplateOf(ref).messages \in Messages
<1>1. CASE Snapshot(ref)
  <2>1. TemplateOf(ref).messages = IF ref.by = "snapshot" THEN <<Message("system", ref.what)>>
                                   ELSE ref.what
    BY <1>1 DEF TemplateOf, SnapshotTemplate
  <2>2. CASE ref.by = "snapshot"
    <3>1. ref.what \in Contents
      BY <2>2, DraftsAssumption
    <3> QED BY <2>1, <2>2, <3>1, OneMessage
  <2>3. CASE ref.by = "snapshot_messages"
    BY <2>1, <2>3, DraftsAssumption
  <2> QED BY <1>1, <2>2, <2>3 DEF Snapshot
<1>2. CASE ~Snapshot(ref)
  <2>1. CASE provider = "langfuse"
    <3>1. /\ Selected(ref) # 0 /\ TemplateOf(ref) = Stored(versions[Selected(ref)], Selected(ref))
      BY <1>2, <2>1 DEF TemplateOf, LangfuseTemplate
    <3>2. Selected(ref) \in DOMAIN versions
      <4>1. ref.by = "label" => labels[ref.what] \in 0..Len(versions)
        BY DraftsAssumption DEF SourceOK
      <4> QED BY <3>1, <4>1 DEF Selected, SourceOK
    <3>3. versions[Selected(ref)] \in Raws
      BY <3>2 DEF SourceOK
    <3> QED BY <1>2, <3>1, <3>3, StoredIsTyped
  <2>2. CASE provider = "file"
    <3>1. file # None /\ TemplateOf(ref) = Stored(file, None)
      BY <1>2, <2>2 DEF TemplateOf, FileTemplate
    <3> QED BY <1>2, <3>1, StoredIsTyped DEF SourceOK
  <2> QED BY <2>1, <2>2 DEF SourceOK
<1> QED BY <1>1, <1>2

LEMMA CarriedStep == Pinned /\ Carried /\ [Next]_vars => Carried'
<1> SUFFICES ASSUME Pinned, Carried, [Next]_vars, published' # None PROVE Carried'
  BY DEF Carried
<1>1. /\ SourceOK /\ SourceOK' /\ provider' = provider
      /\ versions' = versions \/ \E raw \in Raws : versions' = Append(versions, raw)
  BY SourceStep DEF Pinned
<1>2. draft' = draft
  BY DEF Next, vars, sourceVars, AddVersion, MoveLabel, SaveFile, Publish, Run, RunUnreached
<1>3. CASE published' = published
  <2>1. PICK ref : ref = published
    OBVIOUS
  <2>2. TemplateOf(ref)' = TemplateOf(ref)
    BY <1>1, <1>3, <2>1, FixedStays DEF Pinned
  <2>3. TemplateOf(published)' = TemplateOf(published)
    BY <1>3, <2>1, <2>2
  <2> QED BY <1>2, <1>3, <2>3 DEF Carried, Snapshot
<1>4. CASE Publish
  <2>1. PICK ref : ref = Pin(draft)
    OBVIOUS
  <2>2. published' = ref /\ ref # None /\ draft \in Drafts
    BY <1>1, <1>4, <2>1 DEF Publish, SourceOK
  <2>3. Fixed(ref) /\ ref.variables = draft.variables /\ TemplateOf(ref) = TemplateOf(draft)
    BY <1>1, <2>1, <2>2, PinKeepsTheTemplate
  <2>4. TemplateOf(ref)' = TemplateOf(draft)
    BY <1>1, <2>3, FixedStays
  <2>5. ref.by \in {"version", "snapshot", "snapshot_messages"}
    BY <2>3 DEF Fixed, Snapshot
  <2>6. ~Snapshot(draft) => TemplateOf(draft) # None /\ Shaped(TemplateOf(draft).messages)
    BY <2>1, <2>2 DEF Pin
  <2>7. TemplateOf(draft).messages \in Messages
    BY <1>1, <2>2, <2>6, DraftIsTyped
  <2>8. TemplateOf(published)' = TemplateOf(draft)
    BY <2>2, <2>4
  <2> QED BY <1>2, <2>2, <2>3, <2>5, <2>6, <2>7, <2>8 DEF Carried, Snapshot
<1> QED
  BY <1>3, <1>4 DEF Next, vars, sourceVars, AddVersion, MoveLabel, SaveFile, Run, RunUnreached

THEOREM CarriedAlways == Spec => [](Pinned /\ Carried)
<1>1. Init => Carried
  BY DEF Init, Carried
<1> QED BY <1>1, CarriedStep, PinnedInit, PinnedStep, PTL DEF Spec

(* Type correctness. *)
THEOREM TypeCorrect == Spec => []TypeOK
<1>1. Pinned /\ Carried => TypeOK
  BY DEF Pinned, Carried, SourceOK, TypeOK
<1> QED BY <1>1, CarriedAlways, PTL

(* The three checks on a request, in merge_variables and in render, amount *)
(* to one: it brings the open names of the prompt, and nothing else.       *)
LEMMA OpenNames ==
    ASSUME NEW ref, NEW request, TemplateOf(ref) # None
    PROVE  Resolve(ref, request).error = "variable"
             <=> DOMAIN request # Wanted(TemplateOf(ref)) \ DOMAIN ref.variables
<1> DEFINE wanted == Wanted(TemplateOf(ref))
           given  == DOMAIN ref.variables
           brings == DOMAIN request
<1>1. /\ MayFill(ref, request, TemplateOf(ref))
         <=> given \cap brings = {} /\ brings \subseteq wanted
      /\ DOMAIN Merged(ref, request) = given \cup brings
  BY DEF MayFill, Merged
<1>2. Resolve(ref, request).error = "variable"
        <=> \/ ~MayFill(ref, request, TemplateOf(ref))
            \/ ~(wanted \subseteq DOMAIN Merged(ref, request))
  BY DEF Resolve, Render, Failure, Told
<1>3. (\/ ~(given \cap brings = {} /\ brings \subseteq wanted)
       \/ ~(wanted \subseteq given \cup brings))
        <=> brings # wanted \ given
  OBVIOUS
<1> QED BY <1>1, <1>2, <1>3

(* What a resolution that gets as far as the prompt works with. *)
LEMMA Brought ==
    ASSUME Pinned, Carried, ran # None, ran.told.error # "prompt"
    PROVE  /\ ran.told = Resolve(published, ran.request)
           /\ TemplateOf(published) # None
           /\ TemplateOf(published).messages \in Messages
           /\ Valued(Merged(published, ran.request))
<1>1. published # None /\ ran.request \in Requests /\ draft \in Drafts
  BY DEF Pinned, SourceOK
<1>2. ran.told = Resolve(published, ran.request)
  BY DEF Pinned, Failure, Told
<1>3. TemplateOf(published) # None
  BY <1>2 DEF Resolve, Failure, Told
<1>4. Valued(published.variables) /\ Valued(ran.request)
  BY <1>1, DraftsAssumption, InputsAssumption DEF Carried
<1>5. Valued(Merged(published, ran.request))
  BY <1>4 DEF Valued, Merged
<1> QED BY <1>1, <1>2, <1>3, <1>5 DEF Carried, Messages

(* variable_names of every message, told without a cursor. *)
LEMMA WantedIs ==
    ASSUME NEW template, template.messages \in Messages
    PROVE  /\ \A i \in DOMAIN template.messages :
                  /\ template.messages[i].content \in Contents
                  /\ VariableNames(template.messages[i].content)
                       = Names(template.messages[i].content)
           /\ Wanted(template) = Asked(template.messages)
<1>1. ASSUME NEW i \in DOMAIN template.messages
      PROVE  /\ template.messages[i].content \in Contents
             /\ VariableNames(template.messages[i].content) = Names(template.messages[i].content)
  <2>1. template.messages[i] \in Items(Contents, Roles)
    BY DEF Messages
  <2>2. template.messages[i].content \in Contents
    BY <2>1 DEF Items
  <2> QED BY <2>2, NamesAreFound
<1> QED BY <1>1 DEF Wanted, Asked

(* A request is turned away for its values exactly when they are not the   *)
(* open names of the published prompt.                                     *)
THEOREM AlwaysAcceptsExactlyTheOpenNames == Spec => []AcceptsExactlyTheOpenNames
<1>1. Pinned /\ Carried => AcceptsExactlyTheOpenNames
  <2> SUFFICES ASSUME Pinned, Carried, ran # None, ran.told.error # "prompt"
               PROVE  ran.told.error = "variable" <=>
                        DOMAIN ran.request
                          # Asked(TemplateOf(published).messages) \ DOMAIN published.variables
    BY DEF AcceptsExactlyTheOpenNames
  <2>1. /\ ran.told = Resolve(published, ran.request)
        /\ TemplateOf(published) # None
        /\ TemplateOf(published).messages \in Messages
    BY Brought
  <2>2. ran.told.error = "variable" <=>
          DOMAIN ran.request # Wanted(TemplateOf(published)) \ DOMAIN published.variables
    BY <2>1, OpenNames
  <2> QED BY <2>1, <2>2, WantedIs
<1> QED BY <1>1, CarriedAlways, PTL

-----------------------------------------------------------------------------
LEMMA FirstAndRest ==
    ASSUME NEW S, NEW s \in Seq(S), Len(s) # 0, NEW rest \in Seq(S),
           Len(rest) = Len(s) - 1, \A i \in 1..Len(rest) : rest[i] = s[i + 1]
    PROVE  <<s[1]>> \o rest = s
<1>1. s[1] \in S /\ <<s[1]>> \o rest \in Seq(S) /\ Len(<<s[1]>> \o rest) = Len(s)
  OBVIOUS
<1>2. \A i \in 1..Len(s) : (<<s[1]>> \o rest)[i] = s[i]
  OBVIOUS
<1> QED BY <1>1, <1>2, SeqEqual

(* What a run with the right values is told, or refused. *)
LEMMA Rendering ==
    ASSUME NEW template, template.messages \in Messages,
           NEW values, Valued(values), Wanted(template) \subseteq DOMAIN values
    PROVE  \E rendered \in Messages :
               /\ Len(rendered) = Len(template.messages)
               /\ \A i \in DOMAIN rendered :
                     /\ rendered[i].role = template.messages[i].role
                     /\ rendered[i].content = Expected(template.messages[i].content, values)
               /\ Render(template, values)
                     = IF ~Shaped(rendered) THEN Failure("shape")
                       ELSE Told("none", rendered[1].content, Tail(rendered))
<1> DEFINE messages == template.messages
           rendered == [i \in DOMAIN messages |->
                          Message(messages[i].role, Fill(messages[i].content, values))]
<1>1. ASSUME NEW i \in DOMAIN messages
      PROVE  /\ Fill(messages[i].content, values) = Expected(messages[i].content, values)
             /\ Fill(messages[i].content, values) \in Contents
             /\ messages[i].role \in Roles
  <2>1. messages[i].content \in Contents /\ Names(messages[i].content) \subseteq DOMAIN values
    BY WantedIs DEF Asked
  <2>2. Fill(messages[i].content, values) \in Contents
    <3>1. 1 \in 1..Len(messages[i].content) + 1
      BY <2>1 DEF Contents
    <3>2. PICK f \in [1..Len(messages[i].content) + 1 -> Contents] :
                 Fill(messages[i].content, values) = f[1]
      BY <2>1, FillUnfolds
    <3> QED BY <3>1, <3>2
  <2>3. messages[i] \in Items(Contents, Roles)
    BY DEF Messages
  <2> QED BY <2>1, <2>2, <2>3, FillIsExpected DEF Items
<1>2. \A i \in DOMAIN messages : rendered[i] \in Items(Contents, Roles)
  BY <1>1 DEF Items, Message
<1>3. Len(messages) \in Nat /\ DOMAIN messages = 1..Len(messages)
  BY DEF Messages
<1>4. rendered \in Messages /\ Len(rendered) = Len(messages)
  <2>1. DOMAIN rendered = 1..Len(messages)
    BY <1>3
  <2>2. rendered \in [1..Len(messages) -> Items(Contents, Roles)]
    BY <1>2, <1>3
  <2> HIDE DEF rendered
  <2> QED BY <1>3, <2>1, <2>2 DEF Messages
<1>5. \A i \in DOMAIN rendered : /\ rendered[i].role = messages[i].role
                                 /\ rendered[i].content = Expected(messages[i].content, values)
  BY <1>1 DEF Message
<1>6. Render(template, values) = IF ~Shaped(rendered) THEN Failure("shape")
                                 ELSE Told("none", rendered[1].content, Tail(rendered))
  BY DEF Render
<1> HIDE DEF rendered
<1> QED BY <1>4, <1>5, <1>6

(* An agent is told its prompt, word for word, with a value where each     *)
(* placeholder stood, for every content, whatever its braces and whatever  *)
(* the values look like.                                                   *)
THEOREM ValuesAreNeverScanned == Spec => []ValuesAreNotScanned
<1>1. Pinned /\ Carried => ValuesAreNotScanned
  <2> DEFINE template == TemplateOf(published)
             values == Merged(published, ran.request)
             messages == template.messages
  <2> SUFFICES ASSUME Pinned, Carried, ran # None, ran.told.error = "none"
               PROVE  <<ran.told.instructions>>
                        \o [i \in DOMAIN ran.told.messages |-> ran.told.messages[i].content]
                        = [i \in DOMAIN messages |-> Expected(messages[i].content, values)]
    BY DEF ValuesAreNotScanned
  <2>1. /\ ran.told = Resolve(published, ran.request) /\ template # None
        /\ messages \in Messages /\ Valued(values)
    BY Brought
  <2>2. /\ Wanted(template) \subseteq DOMAIN values
        /\ ran.told = Render(template, values)
    BY <2>1 DEF Resolve, Render, Failure, Told
  <2>3. PICK rendered \in Messages :
               /\ Len(rendered) = Len(messages)
               /\ \A i \in DOMAIN rendered :
                     /\ rendered[i].role = messages[i].role
                     /\ rendered[i].content = Expected(messages[i].content, values)
               /\ ran.told = IF ~Shaped(rendered) THEN Failure("shape")
                             ELSE Told("none", rendered[1].content, Tail(rendered))
    BY <2>1, <2>2, Rendering
  <2>4. /\ Shaped(rendered) /\ ran.told.instructions = rendered[1].content
        /\ ran.told.messages = Tail(rendered)
    BY <2>3 DEF Failure, Told
  <2>5. Len(rendered) \in Nat /\ DOMAIN rendered = 1..Len(rendered) /\ Len(rendered) # 0
        /\ DOMAIN messages = 1..Len(rendered)
    <3>1. DOMAIN rendered = 1..Len(rendered) /\ DOMAIN messages = 1..Len(messages)
          /\ Len(rendered) \in Nat
      BY <2>1 DEF Messages
    <3>2. DOMAIN rendered = {1} \/ DOMAIN rendered = {1, 2}
      <4> DEFINE roles == [i \in DOMAIN rendered |-> rendered[i].role]
      <4>1. roles = <<"system">> \/ roles = <<"system", "user">>
        BY <2>4 DEF Shaped
      <4>2. DOMAIN roles = DOMAIN rendered
        OBVIOUS
      <4> HIDE DEF roles
      <4>3. DOMAIN roles = {1} \/ DOMAIN roles = {1, 2}
        BY <4>1
      <4> QED BY <4>2, <4>3
    <3> QED BY <2>3, <3>1, <3>2
  <2> DEFINE opening == [i \in DOMAIN Tail(rendered) |-> Tail(rendered)[i].content]
             expected == [i \in DOMAIN messages |-> Expected(messages[i].content, values)]
  <2>6. /\ DOMAIN Tail(rendered) = 1..Len(rendered) - 1
        /\ \A i \in 1..Len(rendered) - 1 : Tail(rendered)[i] = rendered[i + 1]
    BY <2>5 DEF Messages
  <2>7. opening = [i \in 1..Len(rendered) - 1 |-> expected[i + 1]]
    BY <2>3, <2>5, <2>6
  <2>8. rendered[1].content = expected[1]
    BY <2>3, <2>5
  <2>9. expected \in Seq({expected[i] : i \in 1..Len(rendered)}) /\ Len(expected) = Len(rendered)
    BY <2>5
  <2> HIDE DEF expected
  <2>10. <<rendered[1].content>> \o opening = expected
    <3>1. opening \in Seq({expected[i] : i \in 1..Len(rendered)})
          /\ Len(opening) = Len(rendered) - 1
          /\ \A i \in 1..Len(opening) : opening[i] = expected[i + 1]
      <4>1. Len(rendered) - 1 \in Nat
            /\ \A i \in 1..Len(rendered) - 1 : i + 1 \in 1..Len(rendered)
        BY <2>5
      <4>2. \A i \in 1..Len(rendered) - 1 :
              /\ opening[i] = expected[i + 1]
              /\ opening[i] \in {expected[j] : j \in 1..Len(rendered)}
        BY <2>7, <4>1
      <4>3. DOMAIN opening = 1..Len(rendered) - 1
        BY <2>7
      <4>4. opening \in [1..Len(rendered) - 1 -> {expected[j] : j \in 1..Len(rendered)}]
        BY <2>7, <4>2
      <4>5. PICK S, k : /\ S = {expected[j] : j \in 1..Len(rendered)}
                        /\ k = Len(rendered) - 1
        OBVIOUS
      <4> HIDE DEF opening
      <4>6. opening \in Seq(S) /\ Len(opening) = k
        BY <4>1, <4>4, <4>5
      <4> QED BY <4>2, <4>5, <4>6
    <3> HIDE DEF opening
    <3> QED BY <2>5, <2>8, <2>9, <3>1, FirstAndRest
  <2> QED BY <2>4, <2>10 DEF expected
<1> QED BY <1>1, CarriedAlways, PTL

(* The shape that publication accepted is refused by no run that brings    *)
(* the right values, unless it leaves nothing but blanks to the agent.     *)
THEOREM OnlyBlanksAreEverRefused == Spec => []OnlyBlanksAreRefused
<1>1. Pinned /\ Carried => OnlyBlanksAreRefused
  <2> DEFINE template == TemplateOf(published)
             values == Merged(published, ran.request)
             messages == template.messages
             system == messages[1].content
  <2> SUFFICES ASSUME Pinned, Carried, ran # None, ran.told.error \in {"none", "shape"},
                      ~Snapshot(draft)
               PROVE  ran.told.error = "shape" <=>
                        \A p \in DOMAIN system : Strip(Becomes(system, values, p)) = <<>>
    BY DEF OnlyBlanksAreRefused
  <2>1. /\ ran.told = Resolve(published, ran.request) /\ template # None
        /\ messages \in Messages /\ Valued(values)
    BY Brought
  <2>2. /\ Wanted(template) \subseteq DOMAIN values
        /\ ran.told = Render(template, values)
    BY <2>1 DEF Resolve, Render, Failure, Told
  <2>3. PICK rendered \in Messages :
               /\ Len(rendered) = Len(messages)
               /\ \A i \in DOMAIN rendered :
                     /\ rendered[i].role = messages[i].role
                     /\ rendered[i].content = Expected(messages[i].content, values)
               /\ ran.told = IF ~Shaped(rendered) THEN Failure("shape")
                             ELSE Told("none", rendered[1].content, Tail(rendered))
    BY <2>1, <2>2, Rendering
  <2>4. ran.told.error = "shape" <=> ~Shaped(rendered)
    BY <2>3 DEF Failure, Told
  <2>5. Shaped(messages)
    BY DEF Carried, Pinned
  <2>6. DOMAIN rendered = DOMAIN messages /\ 1 \in DOMAIN messages
    <3>1. DOMAIN rendered = 1..Len(rendered) /\ DOMAIN messages = 1..Len(messages)
      BY <2>1 DEF Messages
    <3>2. 1 \in DOMAIN messages
      <4> DEFINE roles == [i \in DOMAIN messages |-> messages[i].role]
      <4>1. roles = <<"system">> \/ roles = <<"system", "user">>
        BY <2>5 DEF Shaped
      <4>2. DOMAIN roles = DOMAIN messages
        OBVIOUS
      <4> HIDE DEF roles
      <4>3. 1 \in DOMAIN roles
        BY <4>1
      <4> QED BY <4>2, <4>3
    <3> QED BY <2>3, <3>1, <3>2
  <2>7. [i \in DOMAIN rendered |-> rendered[i].role] = [i \in DOMAIN messages |-> messages[i].role]
    BY <2>3, <2>6
  <2>8. Shaped(rendered) <=> Strip(Expected(system, values)) # <<>>
    BY <2>3, <2>5, <2>6, <2>7 DEF Shaped
  <2>9. system \in Contents /\ Names(system) \subseteq DOMAIN values
    BY <2>1, <2>2, <2>6, WantedIs DEF Asked
  <2> HIDE DEF values, system
  <2> QED BY <2>1, <2>4, <2>8, <2>9, BlankWhenAllAre
<1> QED BY <1>1, CarriedAlways, PTL
=============================================================================

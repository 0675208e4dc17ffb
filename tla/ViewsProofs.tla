------------------------------ MODULE ViewsProofs ------------------------------
(* Proofs about Views: what is told is of one published version, a variant *)
(* keeps the instructions of the version it was made of, and what a list   *)
(* says holds when it is told.                                             *)
EXTENDS Views, WellFoundedInduction, TLAPS

(* A definition that a client holds is, and stays, a published version's.  *)
IsPublished(v, config) ==
    v \in DOMAIN versions /\ versions[v] = [status |-> "published", config |-> config]

HeldIsPublished ==
    \A c \in Clients : saw[c].definition # None =>
        /\ saw[c].definition \in Definitions
        /\ IsPublished(saw[c].definition.version, saw[c].definition.config)

ToldIsPublished ==
    \A c \in Clients :
        (answer[c] # None /\ (answer[c].kind = "offered" \/ (answer[c].kind = "ran" /\ c \notin Keyed))) =>
            IsPublished(answer[c].version, answer[c].config)

KeyedRun == \A c \in Clients : pc[c] = "run" => c \in Keyed

Inv == TypeOK /\ HeldIsPublished /\ ToldIsPublished /\ KeyedRun /\ VariantsKeepTheInstructions

-----------------------------------------------------------------------------
(* What the registry may do to its versions: it adds and publishes them.   *)
Grows ==
    /\ versions' \in Seq(Rows) /\ Len(versions') <= MaxVersion
    /\ Len(versions) <= Len(versions')
    /\ \A v \in DOMAIN versions' :
          versions'[v].status = "published" => versions'[v].config.prompt \in Texts
    /\ \A v \in DOMAIN versions :
          /\ versions[v].status = "published" => versions'[v] = versions[v]
          /\ versions[v].config.prompt # None =>
                versions'[v].config.prompt = versions[v].config.prompt
          /\ versions'[v].config.model = versions[v].config.model

BindsStay ==
    /\ live' \in [ToSet(Environments) -> 0..Len(versions')]
    /\ \A e \in DOMAIN live' : live'[e] > 0 => versions'[live'[e]].status = "published"
    /\ live'[ENVIRONMENT] > 0
    /\ binds' \in 0..MaxBinds
    /\ label' \in Texts

RegistryStep == Grows /\ BindsStay

LEMMA CreateDraftGrows ==
    ASSUME TypeOK, NEW config \in Configs, CreateDraft(config)
    PROVE  RegistryStep
<1> USE ViewsAssumption
<1>1. [status |-> "draft", config |-> config] \in Rows
  BY DEF Rows
<1>2. /\ versions' \in Seq(Rows) /\ Len(versions') = Len(versions) + 1
      /\ \A v \in 1..Len(versions) : versions'[v] = versions[v]
      /\ versions'[Len(versions) + 1] = [status |-> "draft", config |-> config]
  BY <1>1 DEF TypeOK, CreateDraft
<1>3. Grows
  BY <1>2 DEF TypeOK, CreateDraft, Grows, NextVersion
<1>4. BindsStay
  BY <1>2 DEF TypeOK, CreateDraft, BindsStay, ToSet
<1> QED BY <1>3, <1>4 DEF RegistryStep

LEMMA PublishGrows ==
    ASSUME TypeOK, NEW v \in DOMAIN versions, Publish(v)
    PROVE  RegistryStep
<1> USE ViewsAssumption
<1>1. versions[v] \in Rows /\ versions[v].status = "draft"
  BY DEF TypeOK, Publish
<1> DEFINE row == [versions[v] EXCEPT !.status = "published",
                                      !.config.prompt = Pinned(versions[v].config.prompt)]
<1>2. /\ row \in Rows /\ row.status = "published"
      /\ row.config.prompt \in Texts /\ row.config.model = versions[v].config.model
      /\ versions[v].config.prompt # None => row.config.prompt = versions[v].config.prompt
  BY <1>1 DEF Rows, Configs, Pinned, TypeOK
<1>3. versions' = [versions EXCEPT ![v] = row]
  BY DEF Publish
<1> HIDE DEF row
<1>4. /\ versions' \in Seq(Rows) /\ Len(versions') = Len(versions)
      /\ DOMAIN versions' = DOMAIN versions /\ versions'[v] = row
      /\ \A w \in DOMAIN versions : w # v => versions'[w] = versions[w]
  BY <1>2, <1>3 DEF TypeOK
<1>5. Grows
  <2>1. \A w \in DOMAIN versions' :
          versions'[w].status = "published" => versions'[w].config.prompt \in Texts
    BY <1>2, <1>4 DEF TypeOK
  <2>2. \A w \in DOMAIN versions :
          /\ versions[w].status = "published" => versions'[w] = versions[w]
          /\ versions[w].config.prompt # None =>
                versions'[w].config.prompt = versions[w].config.prompt
          /\ versions'[w].config.model = versions[w].config.model
    BY <1>1, <1>2, <1>4
  <2> QED BY <1>4, <2>1, <2>2 DEF Grows, TypeOK
<1>6. BindsStay
  BY <1>1, <1>2, <1>4 DEF BindsStay, TypeOK, Publish, ToSet
<1> QED BY <1>5, <1>6 DEF RegistryStep

LEMMA BindGrows ==
    ASSUME TypeOK, NEW e \in ToSet(Environments), NEW v \in DOMAIN versions, Bind(e, v)
    PROVE  RegistryStep
<1> USE ViewsAssumption
<1>1. versions' = versions /\ label' = label
  BY DEF Bind
<1>2. Grows
  BY <1>1 DEF Grows, TypeOK
<1>3. BindsStay
  BY <1>1 DEF BindsStay, TypeOK, Bind
<1> QED BY <1>2, <1>3 DEF RegistryStep

LEMMA StillGrows ==
    ASSUME TypeOK, UNCHANGED registryVars
    PROVE  RegistryStep
  BY DEF TypeOK, registryVars, RegistryStep, Grows, BindsStay

-----------------------------------------------------------------------------
(* What a step may make of one client, over the versions there are then.   *)
Places == {"idle", "sample", "run", "draft", "publish", "bind", "offer", "mark", "bindings"}

PublishedNext(v, config) ==
    v \in DOMAIN versions' /\ versions'[v] = [status |-> "published", config |-> config]

Fits(c, place, seen, told) ==
    /\ place \in Places
    /\ seen \in [definition : Definitions' \cup {None}, version : 0..Len(versions'), rows : Seq(Rows)]
    /\ Len(seen.rows) <= Len(versions')
    /\ told \in Answers' \cup {None}
    /\ place \in {"sample", "run", "draft", "publish", "bind"} => seen.definition \in Definitions'
    /\ place \in {"publish", "bind", "offer"} => seen.version > 0
    /\ place = "run" => c \in Keyed
    /\ seen.definition # None =>
          /\ seen.definition \in Definitions'
          /\ PublishedNext(seen.definition.version, seen.definition.config)
    /\ (told # None /\ (told.kind = "offered" \/ (told.kind = "ran" /\ c \notin Keyed))) =>
          PublishedNext(told.version, told.config)
    /\ place \in {"publish", "bind"} =>
          versions'[seen.version].config.prompt = seen.definition.config.prompt

(* Whoever a step is not about fits as before. *)
LEMMA OthersFit ==
    ASSUME Inv, RegistryStep, NEW c \in Clients
    PROVE  Fits(c, pc[c], saw[c], answer[c])
<1> USE DEF Inv, RegistryStep, Grows
<1>1. Definitions \subseteq Definitions' /\ Answers \subseteq Answers'
  BY DEF Definitions, Answers, TypeOK
<1>2. \A v, config : IsPublished(v, config) => PublishedNext(v, config)
  BY DEF IsPublished, PublishedNext, TypeOK
<1>3. /\ pc[c] \in Places
      /\ saw[c] \in [definition : Definitions \cup {None}, version : 0..Len(versions), rows : Seq(Rows)]
      /\ Len(saw[c].rows) <= Len(versions)
      /\ answer[c] \in Answers \cup {None}
      /\ pc[c] \in {"sample", "run", "draft", "publish", "bind"} => saw[c].definition \in Definitions
      /\ pc[c] \in {"publish", "bind", "offer"} => saw[c].version > 0
  BY DEF TypeOK, Places
<1>4. saw[c] \in [definition : Definitions' \cup {None}, version : 0..Len(versions'), rows : Seq(Rows)]
  <2>1. Len(versions) \in Nat /\ Len(versions') \in Nat
    BY DEF TypeOK
  <2> QED BY <1>1, <1>3, <2>1
<1>5. Len(saw[c].rows) <= Len(versions')
  BY <1>3 DEF TypeOK
<1>6. pc[c] = "run" => c \in Keyed
  BY DEF KeyedRun
<1>7. saw[c].definition # None =>
        /\ saw[c].definition \in Definitions'
        /\ PublishedNext(saw[c].definition.version, saw[c].definition.config)
  BY <1>1, <1>2 DEF HeldIsPublished
<1>8. (answer[c] # None /\ (answer[c].kind = "offered" \/ (answer[c].kind = "ran" /\ c \notin Keyed))) =>
        PublishedNext(answer[c].version, answer[c].config)
  BY <1>2 DEF ToldIsPublished
<1>9. ASSUME pc[c] \in {"publish", "bind"}
      PROVE  versions'[saw[c].version].config.prompt = saw[c].definition.config.prompt
  <2>1. saw[c].version \in DOMAIN versions
    BY <1>3, <1>9 DEF TypeOK
  <2>2. saw[c].definition.version \in DOMAIN versions
        /\ versions[saw[c].definition.version].status = "published"
        /\ versions[saw[c].definition.version].config = saw[c].definition.config
    <3>1. saw[c].definition \in Definitions
      BY <1>3, <1>9
    <3>2. saw[c].definition # None
      <4>1. Definitions \subseteq [version : Nat, config : Configs]
        BY DEF Definitions, TypeOK
      <4> QED BY <3>1, <4>1, ViewsAssumption
    <3>3. IsPublished(saw[c].definition.version, saw[c].definition.config)
      BY <3>2 DEF HeldIsPublished
    <3> HIDE DEF Inv, RegistryStep, Grows
    <3> QED BY <3>3 DEF IsPublished
  <2>3. saw[c].definition.config.prompt \in Texts
    BY <2>2 DEF TypeOK
  <2>4. versions[saw[c].version].config.prompt = saw[c].definition.config.prompt
    BY <1>9 DEF VariantsKeepTheInstructions
  <2> QED BY <2>1, <2>3, <2>4, ViewsAssumption
<1> QED BY <1>1, <1>3, <1>4, <1>5, <1>6, <1>7, <1>8, <1>9 DEF Fits

(* If everybody fits, the invariant holds. *)
LEMMA AllFit ==
    ASSUME RegistryStep,
           pc' \in [Clients -> Places], DOMAIN saw' = Clients, DOMAIN answer' = Clients,
           saw' = [c \in Clients |-> saw'[c]], answer' = [c \in Clients |-> answer'[c]],
           \A c \in Clients : Fits(c, pc'[c], saw'[c], answer'[c])
    PROVE  Inv'
<1> USE DEF Fits
<1>1. saw' \in [Clients -> [definition : Definitions' \cup {None}, version : 0..Len(versions'),
                            rows : Seq(Rows)]]
  OBVIOUS
<1>2. answer' \in [Clients -> Answers' \cup {None}]
  OBVIOUS
<1>3. TypeOK'
  BY <1>1, <1>2 DEF TypeOK, Places, RegistryStep, Grows, BindsStay
<1>4. HeldIsPublished' /\ ToldIsPublished'
  BY DEF HeldIsPublished, ToldIsPublished, IsPublished, PublishedNext
<1>5. KeyedRun' /\ VariantsKeepTheInstructions'
  BY DEF KeyedRun, VariantsKeepTheInstructions
<1> QED BY <1>3, <1>4, <1>5 DEF Inv

LEMMA ClientFits ==
    ASSUME Inv, RegistryStep, NEW c \in Clients,
           \E place, seen, told :
              /\ Fits(c, place, seen, told)
              /\ pc' = [pc EXCEPT ![c] = place]
              /\ saw' = [saw EXCEPT ![c] = seen]
              /\ answer' = [answer EXCEPT ![c] = told]
    PROVE  Inv'
<1>1. PICK place, seen, told :
        /\ Fits(c, place, seen, told)
        /\ pc' = [pc EXCEPT ![c] = place]
        /\ saw' = [saw EXCEPT ![c] = seen]
        /\ answer' = [answer EXCEPT ![c] = told]
  OBVIOUS
<1>2. /\ pc \in [Clients -> Places] /\ place \in Places
      /\ saw = [d \in Clients |-> saw[d]] /\ answer = [d \in Clients |-> answer[d]]
  BY <1>1 DEF Inv, TypeOK, Places, Fits
<1>3. \A d \in Clients : Fits(d, pc'[d], saw'[d], answer'[d])
  <2> SUFFICES ASSUME NEW d \in Clients PROVE Fits(d, pc'[d], saw'[d], answer'[d])
    OBVIOUS
  <2>1. CASE d = c
    BY <1>1, <1>2, <2>1
  <2>2. CASE d # c
    <3>1. pc'[d] = pc[d] /\ saw'[d] = saw[d] /\ answer'[d] = answer[d]
      BY <1>1, <1>2, <2>2
    <3> QED BY <3>1, OthersFit
  <2> QED BY <2>1, <2>2
<1>4. /\ pc' \in [Clients -> Places]
      /\ DOMAIN saw' = Clients /\ saw' = [d \in Clients |-> saw'[d]]
      /\ DOMAIN answer' = Clients /\ answer' = [d \in Clients |-> answer'[d]]
  BY <1>1, <1>2
<1> QED BY <1>3, <1>4, AllFit

-----------------------------------------------------------------------------
LEMMA InitInv == Init => Inv
<1> SUFFICES ASSUME Init PROVE Inv
  OBVIOUS
<1> USE ViewsAssumption DEF Init
<1>1. PICK config \in [model : Models, prompt : Texts] :
        versions = <<[status |-> "published", config |-> config]>>
  OBVIOUS
<1>2. /\ versions \in Seq(Rows) /\ Len(versions) = 1 /\ DOMAIN versions = {1}
      /\ versions[1].status = "published" /\ versions[1].config.prompt \in Texts
  BY <1>1 DEF Rows, Configs
<1>3. \A c \in Clients : saw[c] \in [definition : Definitions \cup {None}, version : 0..Len(versions),
                                     rows : Seq(Rows)] /\ Len(saw[c].rows) <= Len(versions)
  BY <1>2 DEF Nothing
<1>4. TypeOK
  <2>1. saw \in [Clients -> [definition : Definitions \cup {None}, version : 0..Len(versions),
                            rows : Seq(Rows)]]
    BY <1>3 DEF Nothing
  <2>2. /\ live \in [ToSet(Environments) -> 0..Len(versions)] /\ live[ENVIRONMENT] > 0
        /\ \A e \in DOMAIN live : live[e] > 0 => versions[live[e]].status = "published"
    BY <1>2
  <2>3. answer \in [Clients -> Answers \cup {None}]
    OBVIOUS
  <2>4. pc \in [Clients -> {"idle"}] /\ \A c \in Clients : pc[c] = "idle"
    OBVIOUS
  <2> QED BY <1>2, <1>3, <2>1, <2>2, <2>3, <2>4 DEF TypeOK
<1>5. HeldIsPublished /\ ToldIsPublished /\ KeyedRun /\ VariantsKeepTheInstructions
  BY DEF HeldIsPublished, ToldIsPublished, KeyedRun, VariantsKeepTheInstructions, Nothing
<1> QED BY <1>4, <1>5 DEF Inv

(* What is live is a definition, and a published one. *)
LEMMA LiveIsPublished ==
    ASSUME Inv
    PROVE  /\ live[ENVIRONMENT] \in DOMAIN versions
           /\ Definition(live[ENVIRONMENT]) \in Definitions
           /\ IsPublished(live[ENVIRONMENT], versions[live[ENVIRONMENT]].config)
<1> USE ViewsAssumption
<1>1. live[ENVIRONMENT] \in DOMAIN versions /\ versions[live[ENVIRONMENT]].status = "published"
  BY DEF Inv, TypeOK
<1>2. versions[live[ENVIRONMENT]] \in Rows
  BY <1>1 DEF Inv, TypeOK
<1> QED BY <1>1, <1>2 DEF Definition, Definitions, IsPublished, Rows, Inv, TypeOK

LEMMA ElsewhereInv ==
    ASSUME Inv, Elsewhere PROVE Inv'
<1> USE DEF Inv
<1>1. RegistryStep
  <2>1. CASE \E config \in Configs : CreateDraft(config)
    BY <2>1, CreateDraftGrows
  <2>2. CASE \E v \in DOMAIN versions : Publish(v)
    BY <2>2, PublishGrows
  <2>3. CASE \E e \in DOMAIN live, v \in DOMAIN versions : Bind(e, v)
    BY <2>3, BindGrows DEF TypeOK
  <2>4. CASE label' \in Texts /\ UNCHANGED <<versions, live, binds>>
    BY <2>4 DEF RegistryStep, Grows, BindsStay, TypeOK
  <2> QED BY <2>1, <2>2, <2>3, <2>4 DEF Elsewhere
<1>2. pc' = pc /\ saw' = saw /\ answer' = answer
  BY DEF Elsewhere
<1>3. \A c \in Clients : Fits(c, pc'[c], saw'[c], answer'[c])
  BY <1>1, <1>2, OthersFit
<1>4. /\ pc' \in [Clients -> Places]
      /\ DOMAIN saw' = Clients /\ saw' = [c \in Clients |-> saw'[c]]
      /\ DOMAIN answer' = Clients /\ answer' = [c \in Clients |-> answer'[c]]
  BY <1>2 DEF TypeOK, Places
<1> QED BY <1>1, <1>3, <1>4, AllFit

(* A client is told something, or nothing, and is idle. *)
LEMMA TellInv ==
    ASSUME Inv, RegistryStep, NEW c \in Clients, NEW what,
           Tell(c, what), what \in Answers' \cup {None},
           (what # None /\ (what.kind = "offered" \/ (what.kind = "ran" /\ c \notin Keyed))) =>
              PublishedNext(what.version, what.config)
    PROVE  Inv'
<1>1. Len(versions') \in Nat
  BY DEF RegistryStep, Grows
<1>2. /\ Nothing \in [definition : Definitions' \cup {None}, version : 0..Len(versions'), rows : Seq(Rows)]
      /\ Len(Nothing.rows) <= Len(versions') /\ Nothing.definition = None
  BY <1>1 DEF Nothing
<1>3. Fits(c, "idle", Nothing, what)
  BY <1>2 DEF Fits, Places
<1> QED BY <1>3, ClientFits DEF Tell, Goto

(* A client begins, having been given something. *)
LEMMA BeginInv ==
    ASSUME Inv, NEW c \in Clients, NEW place \in Places, NEW seen,
           Begin(c, place), saw' = [saw EXCEPT ![c] = seen],
           Fits(c, place, seen, None)
    PROVE  Inv'
<1>1. RegistryStep
  BY StillGrows DEF Inv, Begin
<1> QED BY <1>1, ClientFits DEF Begin, Goto

LEMMA GetActiveInv ==
    ASSUME Inv, NEW c \in Clients, NEW place \in {"sample", "run", "draft"},
           place = "run" => c \in Keyed, GetActive(c, place)
    PROVE  Inv'
<1> DEFINE seen == [saw[c] EXCEPT !.definition = Definition(live[ENVIRONMENT])]
<1>1. saw' = [saw EXCEPT ![c] = seen] /\ Begin(c, place) /\ versions' = versions
  BY DEF GetActive, Begin, registryVars, Inv, TypeOK
<1>2. /\ seen.definition = Definition(live[ENVIRONMENT])
      /\ seen.definition \in Definitions' /\ seen.rows = saw[c].rows
      /\ seen \in [definition : Definitions' \cup {None}, version : 0..Len(versions'), rows : Seq(Rows)]
  <2>1. saw[c] \in [definition : Definitions \cup {None}, version : 0..Len(versions), rows : Seq(Rows)]
    BY DEF Inv, TypeOK
  <2>2. Definition(live[ENVIRONMENT]) \in Definitions /\ Definitions' = Definitions
    BY <1>1, LiveIsPublished DEF Definitions
  <2> QED BY <1>1, <2>1, <2>2
<1>3. PublishedNext(seen.definition.version, seen.definition.config)
  BY <1>1, <1>2, LiveIsPublished DEF Definition, IsPublished, PublishedNext
<1> HIDE DEF seen
<1>4. Fits(c, place, seen, None)
  <2>1. Len(saw[c].rows) <= Len(versions')
    BY <1>1 DEF Inv, TypeOK
  <2> QED BY <1>2, <1>3, <2>1 DEF Fits, Places
<1> QED BY <1>1, <1>4, BeginInv DEF Places

(* Each step of a client. *)
LEMMA StepInv ==
    ASSUME Inv, NEW c \in Clients, Step(c) PROVE Inv'
<1> USE ViewsAssumption
<1>1. CASE Fails(c)
  BY <1>1, StillGrows, TellInv DEF Fails, Inv
<1>2. CASE StartRun(c)
  BY <1>2, GetActiveInv DEF StartRun
<1>3. CASE TellSample(c)
  <2>1. saw[c].definition \in Definitions /\ versions' = versions
    BY <1>3 DEF TellSample, registryVars, Inv, TypeOK
  <2>2. saw[c].definition # None
    <3>1. Definitions \subseteq [version : Nat, config : Configs]
      BY DEF Definitions, Inv, TypeOK
    <3> QED BY <2>1, <3>1
  <2>3. PublishedNext(saw[c].definition.version, saw[c].definition.config)
    <3>1. IsPublished(saw[c].definition.version, saw[c].definition.config)
      BY <2>2 DEF Inv, HeldIsPublished
    <3> QED BY <2>1, <3>1 DEF IsPublished, PublishedNext
  <2> DEFINE told == Told("ran", saw[c].definition.version, saw[c].definition.config)
  <2>4. told \in Answers' /\ told.version = saw[c].definition.version
        /\ told.config = saw[c].definition.config
    BY <2>1 DEF Told, Answers, Definitions
  <2>5. Tell(c, told) /\ UNCHANGED registryVars
    BY <1>3 DEF TellSample
  <2> HIDE DEF told
  <2> QED BY <2>3, <2>4, <2>5, StillGrows, TellInv DEF Inv
<1>4. CASE FinishRun(c)
  <2>1. c \in Keyed /\ saw[c].definition \in Definitions /\ versions' = versions
    BY <1>4 DEF FinishRun, registryVars, Inv, TypeOK, KeyedRun
  <2> DEFINE told == Told("ran", live[ENVIRONMENT], saw[c].definition.config)
  <2>2. told \in Answers' /\ told.kind = "ran"
    BY <2>1, LiveIsPublished DEF Told, Answers, Definitions, Inv, TypeOK
  <2>3. Tell(c, told) /\ UNCHANGED registryVars
    BY <1>4 DEF FinishRun
  <2> HIDE DEF told
  <2> QED BY <2>1, <2>2, <2>3, StillGrows, TellInv DEF Inv
<1>5. CASE StartOptions(c)
  <2> DEFINE seen == [saw[c] EXCEPT !.version = live[ENVIRONMENT]]
  <2>1. /\ saw' = [saw EXCEPT ![c] = seen] /\ Begin(c, "offer")
        /\ UNCHANGED registryVars /\ versions' = versions
    BY <1>5 DEF StartOptions, Begin, registryVars, Inv, TypeOK
  <2>2. Fits(c, pc[c], saw[c], answer[c])
    BY <2>1, StillGrows, OthersFit DEF Inv
  <2>3. live[ENVIRONMENT] \in 1..Len(versions')
    BY <2>1, LiveIsPublished DEF Inv, TypeOK
  <2>4. saw[c] \in [definition : Definitions' \cup {None}, version : 0..Len(versions'), rows : Seq(Rows)]
    BY <2>2 DEF Fits
  <2>5. /\ seen \in [definition : Definitions' \cup {None}, version : 0..Len(versions'), rows : Seq(Rows)]
        /\ seen.definition = saw[c].definition /\ seen.rows = saw[c].rows
        /\ seen.version = live[ENVIRONMENT]
    BY <2>3, <2>4
  <2> HIDE DEF seen
  <2>6. Fits(c, "offer", seen, None)
    BY <2>2, <2>3, <2>5 DEF Fits, Places
  <2> QED BY <2>1, <2>6, BeginInv DEF Places
<1>6. CASE Offer(c)
  <2> DEFINE told == Told("offered", live[ENVIRONMENT], versions[live[ENVIRONMENT]].config)
  <2>1. Tell(c, told) /\ UNCHANGED registryVars /\ versions' = versions
    BY <1>6 DEF Offer, Definition, registryVars
  <2>2. told \in Answers' /\ PublishedNext(told.version, told.config)
    BY <2>1, LiveIsPublished DEF Told, Answers, Definition, Definitions, IsPublished, PublishedNext
  <2> HIDE DEF told
  <2> QED BY <2>1, <2>2, StillGrows, TellInv DEF Inv
<1>7. CASE Show(c)
  <2>1. PICK v \in DOMAIN versions : Tell(c, Told("shown", v, versions[v].config))
    BY <1>7 DEF Show
  <2> DEFINE told == Told("shown", v, versions[v].config)
  <2>2. UNCHANGED registryVars /\ versions' = versions /\ Tell(c, told)
    BY <1>7, <2>1 DEF Show, registryVars
  <2>3. told \in Answers' /\ told.kind = "shown"
    <3>1. versions[v] \in Rows /\ v \in 1..Len(versions)
      BY DEF Inv, TypeOK
    <3> QED BY <2>2, <3>1 DEF Told, Answers, Rows
  <2> HIDE DEF told
  <2> QED BY <2>2, <2>3, StillGrows, TellInv DEF Inv
<1>8. CASE StartVariant(c)
  BY <1>8, GetActiveInv DEF StartVariant
<1>9. CASE SaveVariant(c)
  <2>1. saw[c].definition \in Definitions
    BY <1>9 DEF SaveVariant, Inv, TypeOK
  <2>2. PICK model \in Models : CreateDraft([saw[c].definition.config EXCEPT !.model = model])
    BY <1>9 DEF SaveVariant
  <2> DEFINE config == [saw[c].definition.config EXCEPT !.model = model]
  <2>3. config \in Configs /\ config.prompt = saw[c].definition.config.prompt
    BY <2>1 DEF Definitions, Configs
  <2> HIDE DEF config
  <2>4. CreateDraft(config)
    BY <2>2 DEF config
  <2>5. RegistryStep
    BY <2>3, <2>4, CreateDraftGrows DEF Inv
  <2>6. Fits(c, pc[c], saw[c], answer[c])
    BY <2>5, OthersFit
  <2>7. /\ NextVersion \in 1..Len(versions')
        /\ versions'[NextVersion].config = config
    BY <2>4 DEF CreateDraft, NextVersion, Inv, TypeOK
  <2> DEFINE seen == [saw[c] EXCEPT !.version = NextVersion]
  <2>8. saw[c] \in [definition : Definitions' \cup {None}, version : 0..Len(versions'), rows : Seq(Rows)]
    BY <2>6 DEF Fits
  <2>9. /\ seen \in [definition : Definitions' \cup {None}, version : 0..Len(versions'), rows : Seq(Rows)]
        /\ seen.definition = saw[c].definition /\ seen.rows = saw[c].rows
        /\ seen.version = NextVersion
    BY <2>7, <2>8
  <2>10. /\ saw' = [saw EXCEPT ![c] = seen] /\ pc' = [pc EXCEPT ![c] = "publish"]
         /\ answer' = [answer EXCEPT ![c] = answer[c]] /\ pc[c] = "draft"
    BY <1>9 DEF SaveVariant, Goto, Inv, TypeOK
  <2> HIDE DEF seen
  <2>11. Fits(c, "publish", seen, answer[c])
    BY <2>3, <2>6, <2>7, <2>9, <2>10 DEF Fits, Places
  <2> QED BY <2>5, <2>10, <2>11, ClientFits
<1>10. CASE PublishVariant(c)
  <2>1. saw[c].version \in DOMAIN versions
    BY <1>10 DEF PublishVariant, Inv, TypeOK
  <2>2. RegistryStep
    BY <1>10, <2>1, PublishGrows DEF PublishVariant, Inv
  <2>3. CASE Goto(c, "bind") /\ UNCHANGED <<saw, answer>>
    <3>1. Fits(c, pc[c], saw[c], answer[c])
      BY <2>2, OthersFit
    <3>2. Fits(c, "bind", saw[c], answer[c])
      BY <1>10, <3>1 DEF Fits, Places, PublishVariant
    <3>3. /\ pc' = [pc EXCEPT ![c] = "bind"] /\ saw' = [saw EXCEPT ![c] = saw[c]]
          /\ answer' = [answer EXCEPT ![c] = answer[c]]
      BY <2>3 DEF Goto, Inv, TypeOK
    <3> QED BY <2>2, <3>2, <3>3, ClientFits
  <2>4. CASE Tell(c, None)
    BY <2>2, <2>4, TellInv
  <2> QED BY <1>10, <2>3, <2>4 DEF PublishVariant
<1>11. CASE BindVariant(c)
  <2>1. saw[c].version \in DOMAIN versions /\ ENVIRONMENT \in ToSet(Environments)
    BY <1>11 DEF BindVariant, Inv, TypeOK
  <2> QED BY <1>11, <2>1, BindGrows, TellInv DEF BindVariant, Inv
<1>12. CASE Rollback(c)
  BY <1>12, BindGrows, TellInv DEF Rollback, Inv
<1>13. CASE ListVersions(c)
  <2>1. PICK place \in {"mark", "bindings"} : Begin(c, place)
    BY <1>13 DEF ListVersions
  <2> DEFINE seen == [saw[c] EXCEPT !.rows = versions]
  <2>2. /\ saw' = [saw EXCEPT ![c] = seen]
        /\ UNCHANGED registryVars /\ versions' = versions
    BY <1>13, <2>1 DEF ListVersions, Begin, registryVars, Inv, TypeOK
  <2>3. Fits(c, pc[c], saw[c], answer[c])
    BY <2>2, StillGrows, OthersFit DEF Inv
  <2>4. saw[c] \in [definition : Definitions' \cup {None}, version : 0..Len(versions'), rows : Seq(Rows)]
    BY <2>3 DEF Fits
  <2>5. /\ seen \in [definition : Definitions' \cup {None}, version : 0..Len(versions'), rows : Seq(Rows)]
        /\ seen.definition = saw[c].definition /\ seen.rows = versions'
    BY <2>2, <2>4 DEF Inv, TypeOK
  <2>6. Len(versions') <= Len(versions')
    BY <2>2 DEF Inv, TypeOK
  <2> HIDE DEF seen
  <2>7. Fits(c, place, seen, None)
    BY <2>3, <2>5, <2>6 DEF Fits, Places
  <2> QED BY <2>1, <2>2, <2>7, BeginInv DEF Places
<1>14. CASE Mark(c)
  <2> DEFINE told == [kind |-> "versions", rows |-> saw[c].rows,
                      marks |-> {<<v, ENVIRONMENT>> : v \in DOMAIN saw[c].rows \cap {live[ENVIRONMENT]}}]
  <2>1. Tell(c, told) /\ UNCHANGED registryVars
    BY <1>14 DEF Mark
  <2>2. saw[c].rows \in Seq(Rows) /\ live[ENVIRONMENT] \in 1..MaxVersion
        /\ ENVIRONMENT \in ToSet(Environments)
    BY LiveIsPublished DEF Inv, TypeOK
  <2>3. told \in Answers' /\ told.kind = "versions"
    BY <2>2 DEF Answers
  <2> HIDE DEF told
  <2> QED BY <2>1, <2>3, StillGrows, TellInv DEF Inv
<1>15. CASE MarkByVersion(c)
  <2> DEFINE runs(i) == live[Environments[i]]
             kept == {i \in DOMAIN Environments :
                        /\ runs(i) \in DOMAIN saw[c].rows
                        /\ \A j \in DOMAIN Environments : j > i => runs(j) # runs(i)}
             told == [kind |-> "list", rows |-> saw[c].rows,
                      marks |-> {<<runs(i), Environments[i]>> : i \in kept}]
  <2>1. Tell(c, told) /\ UNCHANGED registryVars
    BY <1>15 DEF MarkByVersion
  <2>2. saw[c].rows \in Seq(Rows) /\ DOMAIN saw[c].rows \subseteq 1..MaxVersion
    BY DEF Inv, TypeOK
  <2>3. \A i \in kept : runs(i) \in 1..MaxVersion /\ Environments[i] \in ToSet(Environments)
    BY <2>2 DEF ToSet
  <2>4. told \in Answers' /\ told.kind = "list"
    BY <2>2, <2>3 DEF Answers
  <2> HIDE DEF told
  <2> QED BY <2>1, <2>4, StillGrows, TellInv DEF Inv
<1> QED BY <1>1, <1>2, <1>3, <1>4, <1>5, <1>6, <1>7, <1>8, <1>9, <1>10, <1>11, <1>12, <1>13,
           <1>14, <1>15 DEF Step

-----------------------------------------------------------------------------
LEMMA InvHolds == Spec => []Inv
<1>1. Init => Inv
  BY InitInv
<1>2. Inv /\ [Next]_vars => Inv'
  <2> SUFFICES ASSUME Inv, [Next]_vars PROVE Inv'
    OBVIOUS
  <2>1. CASE Elsewhere
    BY <2>1, ElsewhereInv
  <2>2. CASE \E c \in Clients : Step(c)
    BY <2>2, StepInv
  <2>3. CASE UNCHANGED vars
    BY <2>3 DEF vars, registryVars, Inv, TypeOK, Definitions, Answers, HeldIsPublished,
       ToldIsPublished, IsPublished, KeyedRun, VariantsKeepTheInstructions
  <2> QED BY <2>1, <2>2, <2>3 DEF Next
<1> QED BY <1>1, <1>2, PTL DEF Spec

(* The types of the registry, the clients and the answers are kept.  *)
THEOREM ViewsTypeCorrect == Spec => []TypeOK
<1>1. Inv => TypeOK
  BY DEF Inv
<1> QED BY <1>1, InvHolds, PTL

(* The recruiting console tells of one published version, in a sample and  *)
(* in what it offers (app.py, run and options).                            *)
THEOREM AlwaysTellsOfOneVersion == Spec => []TellsOfOneVersion
<1>1. Inv => TellsOfOneVersion
  BY DEF Inv, ToldIsPublished, IsPublished, TellsOfOneVersion
<1> QED BY <1>1, InvHolds, PTL

(* A variant keeps the instructions of what it was made of (app.py,        *)
(* variant, and prompts.py, pin_prompt).                                   *)
THEOREM VariantsAlwaysKeepTheInstructions == Spec => []VariantsKeepTheInstructions
<1>1. Inv => VariantsKeepTheInstructions
  BY DEF Inv
<1> QED BY <1>1, InvHolds, PTL

-----------------------------------------------------------------------------
(* The registry of Views, whose calls are single steps, is one that module *)
(* Registry allows: each of its steps is a step of RegistryPromise, which  *)
(* Registry implements, of one agent that has been seeded.                 *)
Published == {v \in DOMAIN versions : versions[v].status = "published"}

Catalog == [k \in {"agent"} |-> [v \in Published |-> versions[v].config]]

Live == [ke \in {"agent"} \X ToSet(Environments) |->
            IF live[ke[2]] = 0 THEN None ELSE versions[live[ke[2]]].config]

Promise == INSTANCE RegistryPromise
             WITH AgentKeys <- {"agent"}, Environments <- ToSet(Environments),
                  Releases <- [model : Models, prompt : Texts],
                  catalog <- Catalog, live <- Live

LEMMA CreateDraftIsInvisible ==
    ASSUME TypeOK, NEW config \in Configs, CreateDraft(config)
    PROVE  UNCHANGED <<Catalog, Live>>
<1> USE ViewsAssumption
<1>1. [status |-> "draft", config |-> config] \in Rows
  BY DEF Rows
<1>2. /\ versions' \in Seq(Rows) /\ Len(versions') = Len(versions) + 1
      /\ \A v \in 1..Len(versions) : versions'[v] = versions[v]
      /\ versions'[Len(versions) + 1] = [status |-> "draft", config |-> config]
  BY <1>1 DEF TypeOK, CreateDraft
<1>3. Published' = Published
  <2>1. DOMAIN versions' = 1..(Len(versions) + 1) /\ DOMAIN versions = 1..Len(versions)
    BY <1>2 DEF TypeOK
  <2>2. Len(versions) \in Nat /\ versions'[Len(versions) + 1].status # "published"
    BY <1>2 DEF TypeOK
  <2>3. \A v \in DOMAIN versions' : v \in DOMAIN versions \/ v = Len(versions) + 1
    BY <2>1, <2>2
  <2>4. \A v \in DOMAIN versions : v \in DOMAIN versions' /\ versions'[v] = versions[v]
    BY <1>2, <2>1, <2>2
  <2> QED BY <2>2, <2>3, <2>4 DEF Published
<1>4. Catalog' = Catalog
  <2>1. DOMAIN versions = 1..Len(versions)
    BY DEF TypeOK
  <2>2. \A v \in Published : versions'[v].config = versions[v].config
    BY <1>2, <2>1 DEF Published
  <2> QED BY <1>3, <2>2 DEF Catalog
<1>5. Live' = Live
  <2>1. \A e \in ToSet(Environments) : live'[e] = live[e] /\ live[e] \in 0..Len(versions)
    BY DEF CreateDraft, TypeOK
  <2> QED BY <1>2, <2>1 DEF Live
<1> QED BY <1>4, <1>5

LEMMA PublishIsPromised ==
    ASSUME TypeOK, NEW v \in DOMAIN versions, Publish(v)
    PROVE  Promise!Publish("agent", v) /\ v \in DOMAIN Catalog'["agent"]
<1> USE ViewsAssumption
<1>1. versions[v] \in Rows /\ versions[v].status = "draft"
  BY DEF TypeOK, Publish
<1> DEFINE row == [versions[v] EXCEPT !.status = "published",
                                      !.config.prompt = Pinned(versions[v].config.prompt)]
<1>2. /\ row \in Rows /\ row.status = "published"
      /\ row.config \in [model : Models, prompt : Texts]
  BY <1>1 DEF Rows, Configs, Pinned, TypeOK
<1>3. versions' = [versions EXCEPT ![v] = row]
  BY DEF Publish
<1> HIDE DEF row
<1>4. /\ DOMAIN versions' = DOMAIN versions /\ versions'[v] = row
      /\ \A w \in DOMAIN versions : w # v => versions'[w] = versions[w]
  BY <1>2, <1>3 DEF TypeOK
<1>5. v \notin Published /\ Published' = Published \cup {v}
  BY <1>1, <1>2, <1>4 DEF Published
<1>6. v \notin DOMAIN Catalog["agent"] /\ v \in DOMAIN Catalog'["agent"]
  BY <1>5 DEF Catalog
<1>7. Catalog'["agent"][v] = row.config
  BY <1>4, <1>5 DEF Catalog
<1> DEFINE grown == [n \in DOMAIN Catalog["agent"] \cup {v} |->
                       IF n = v THEN Catalog'["agent"][v] ELSE Catalog["agent"][n]]
<1>8. Catalog'["agent"] = grown
  <2>1. ASSUME NEW n \in Published \cup {v}
        PROVE  versions'[n].config =
                 IF n = v THEN Catalog'["agent"][v] ELSE Catalog["agent"][n]
    BY <1>4, <1>5, <1>7 DEF Catalog, Published
  <2>2. DOMAIN Catalog["agent"] = Published
    BY DEF Catalog
  <2>3. Catalog'["agent"] = [n \in Published \cup {v} |-> versions'[n].config]
    BY <1>5 DEF Catalog
  <2> QED BY <2>1, <2>2, <2>3
<1> HIDE DEF grown
<1>9. Catalog' = [Catalog EXCEPT !["agent"] = grown]
  BY <1>8 DEF Catalog
<1>10. Live' = Live
  <2>1. \A e \in ToSet(Environments) :
          /\ live'[e] = live[e]
          /\ live[e] \in 0..Len(versions)
          /\ live[e] > 0 => versions[live[e]].status = "published"
    BY DEF Publish, TypeOK
  <2>2. \A e \in ToSet(Environments) : live[e] > 0 => versions'[live[e]] = versions[live[e]]
    BY <1>1, <1>4, <2>1 DEF TypeOK
  <2> QED BY <2>1, <2>2 DEF Live
<1> QED BY <1>2, <1>6, <1>7, <1>9, <1>10 DEF Promise!Publish, grown

LEMMA BindIsPromised ==
    ASSUME TypeOK, NEW e \in ToSet(Environments), NEW v \in DOMAIN versions, Bind(e, v)
    PROVE  Promise!Bind("agent", e, v)
<1>1. versions' = versions /\ live' = [live EXCEPT ![e] = v] /\ v \in Published /\ v # 0
  BY DEF Bind, Published, TypeOK
<1>2. Catalog' = Catalog /\ v \in DOMAIN Catalog["agent"] /\ Catalog["agent"][v] = versions[v].config
  BY <1>1 DEF Catalog, Published
<1>3. Live' = [Live EXCEPT ![<<"agent", e>>] = Catalog["agent"][v]]
  <2>1. ASSUME NEW ke \in {"agent"} \X ToSet(Environments)
        PROVE  (IF live'[ke[2]] = 0 THEN None ELSE versions'[live'[ke[2]]].config)
                 = IF ke = <<"agent", e>> THEN Catalog["agent"][v]
                   ELSE IF live[ke[2]] = 0 THEN None ELSE versions[live[ke[2]]].config
    BY <1>1, <1>2 DEF TypeOK
  <2> QED BY <2>1 DEF Live
<1> QED BY <1>2, <1>3 DEF Promise!Bind

(* What a console or another author does to the registry is one call.      *)
LEMMA OneCallAtATime ==
    ASSUME Inv, [Next]_vars
    PROVE  \/ UNCHANGED <<versions, live>>
           \/ \E config \in Configs : CreateDraft(config)
           \/ \E v \in DOMAIN versions : Publish(v)
           \/ \E e \in ToSet(Environments), v \in DOMAIN versions : Bind(e, v)
<1>1. DOMAIN live = ToSet(Environments)
  BY DEF Inv, TypeOK
<1>2. CASE Elsewhere
  BY <1>1, <1>2 DEF Elsewhere
<1>3. CASE UNCHANGED vars
  BY <1>3 DEF vars, registryVars
<1>4. ASSUME NEW c \in Clients, Step(c)
      PROVE  \/ UNCHANGED <<versions, live>>
             \/ \E config \in Configs : CreateDraft(config)
             \/ \E v \in DOMAIN versions : Publish(v)
             \/ \E e \in ToSet(Environments), v \in DOMAIN versions : Bind(e, v)
  <2>1. CASE SaveVariant(c)
    <3>1. saw[c].definition \in Definitions
      BY <2>1 DEF SaveVariant, Inv, TypeOK
    <3>2. saw[c].definition.config \in Configs
      BY <3>1 DEF Definitions
    <3>3. PICK model \in Models : CreateDraft([saw[c].definition.config EXCEPT !.model = model])
      BY <2>1 DEF SaveVariant
    <3>4. [saw[c].definition.config EXCEPT !.model = model] \in Configs
      BY <3>2 DEF Configs
    <3> QED BY <3>3, <3>4
  <2>2. CASE PublishVariant(c)
    <3>1. saw[c].version \in DOMAIN versions /\ Publish(saw[c].version)
      BY <2>2 DEF PublishVariant, Inv, TypeOK
    <3> QED BY <3>1
  <2>3. CASE BindVariant(c)
    <3>1. saw[c].version \in DOMAIN versions /\ Bind(ENVIRONMENT, saw[c].version)
      BY <2>3 DEF BindVariant, Inv, TypeOK
    <3> QED BY <3>1, ViewsAssumption
  <2>4. CASE Rollback(c)
    BY <2>4, ViewsAssumption DEF Rollback
  <2>5. CASE ~(SaveVariant(c) \/ PublishVariant(c) \/ BindVariant(c) \/ Rollback(c))
    BY <1>4, <2>5 DEF Step, Fails, StartRun, TellSample, FinishRun, StartOptions, Offer, Show,
       StartVariant, ListVersions, Mark, MarkByVersion, GetActive, Begin, registryVars
  <2> QED BY <2>1, <2>2, <2>3, <2>4, <2>5
<1> QED BY <1>2, <1>3, <1>4 DEF Next

(* Whatever consoles, command lines and authors do, a version that was     *)
(* published keeps its one meaning and environments run what a published   *)
(* version means: what Registry is proved to promise, Views assumes no     *)
(* more than.                                                              *)
THEOREM ViewsKeepThePromise == Spec => [][Promise!Next]_<<Catalog, Live>>
<1>1. ASSUME Inv, [Next]_vars PROVE [Promise!Next]_<<Catalog, Live>>
  <2> USE DEF Inv
  <2>1. CASE UNCHANGED <<versions, live>>
    BY <2>1 DEF Catalog, Live, Published
  <2>2. CASE \E config \in Configs : CreateDraft(config)
    BY <1>1, <2>2, CreateDraftIsInvisible
  <2>3. CASE \E v \in DOMAIN versions : Publish(v)
    BY <1>1, <2>3, PublishIsPromised DEF Promise!Next
  <2>4. CASE \E e \in ToSet(Environments), v \in DOMAIN versions : Bind(e, v)
    <3>1. PICK e \in ToSet(Environments), v \in DOMAIN versions : Bind(e, v)
      BY <2>4
    <3>2. Promise!Bind("agent", e, v)
      BY <1>1, <3>1, BindIsPromised
    <3>3. v \in DOMAIN Catalog["agent"]
      BY <3>2 DEF Promise!Bind
    <3> QED BY <3>2, <3>3 DEF Promise!Next
  <2> QED BY <1>1, <2>1, <2>2, <2>3, <2>4, OneCallAtATime
<1> QED BY <1>1, InvHolds, PTL DEF Spec

-----------------------------------------------------------------------------
(* Lists.  Between its two reads, what a client has read of a version is   *)
(* what the registry has, but that a draft may have been published.        *)
RowsHold ==
    \A c \in Clients : pc[c] \in {"mark", "bindings"} =>
        \A v \in DOMAIN saw[c].rows :
            /\ v \in DOMAIN versions
            /\ saw[c].rows[v].status = "published" => versions[v] = saw[c].rows[v]
            /\ versions[v].config.model = saw[c].rows[v].config.model

LEMMA VersionsGrow == ASSUME Inv, [Next]_vars PROVE Grows
<1> USE DEF Inv
<1>1. CASE UNCHANGED <<versions, live>>
  BY <1>1 DEF Grows, TypeOK
<1>2. CASE \E config \in Configs : CreateDraft(config)
  BY <1>2, CreateDraftGrows DEF RegistryStep
<1>3. CASE \E v \in DOMAIN versions : Publish(v)
  BY <1>3, PublishGrows DEF RegistryStep
<1>4. CASE \E e \in ToSet(Environments), v \in DOMAIN versions : Bind(e, v)
  BY <1>4, BindGrows DEF RegistryStep
<1> QED BY <1>1, <1>2, <1>3, <1>4, OneCallAtATime

(* A client has its rows from one read, and keeps them until it tells.     *)
LEMMA RowsAreReadOnce ==
    ASSUME TypeOK, [Next]_vars, NEW c \in Clients, pc'[c] \in {"mark", "bindings"}
    PROVE  \/ pc[c] \in {"mark", "bindings"} /\ saw'[c].rows = saw[c].rows
           \/ versions' = versions /\ saw'[c].rows = versions
<1>1. ASSUME NEW d \in Clients, Step(d), d # c
      PROVE  pc'[c] = pc[c] /\ saw'[c] = saw[c]
  BY <1>1 DEF Step, Fails, StartRun, TellSample, FinishRun, StartOptions, Offer, Show,
        StartVariant, SaveVariant, PublishVariant, BindVariant, Rollback, ListVersions, Mark,
        MarkByVersion, GetActive, Begin, Goto, Tell, TypeOK
<1>2. CASE ListVersions(c)
  BY <1>2 DEF ListVersions, Begin, Goto, registryVars, TypeOK
<1>3. CASE Step(c) /\ ~ListVersions(c)
  BY <1>3 DEF Step, Fails, StartRun, TellSample, FinishRun, StartOptions, Offer, Show,
        StartVariant, SaveVariant, PublishVariant, BindVariant, Rollback, Mark,
        MarkByVersion, GetActive, Begin, Goto, Tell, TypeOK
<1>4. CASE Elsewhere \/ UNCHANGED vars
  BY <1>4 DEF Elsewhere, vars
<1> QED BY <1>1, <1>2, <1>3, <1>4 DEF Next

LEMMA RowsStillHold ==
    ASSUME Inv, RowsHold, [Next]_vars
    PROVE  RowsHold'
<1> SUFFICES ASSUME NEW c \in Clients, pc'[c] \in {"mark", "bindings"}, NEW v \in DOMAIN saw'[c].rows
             PROVE  /\ v \in DOMAIN versions'
                    /\ saw'[c].rows[v].status = "published" => versions'[v] = saw'[c].rows[v]
                    /\ versions'[v].config.model = saw'[c].rows[v].config.model
  BY DEF RowsHold
<1>1. CASE pc[c] \in {"mark", "bindings"} /\ saw'[c].rows = saw[c].rows
  <2>1. /\ v \in DOMAIN versions
        /\ saw[c].rows[v].status = "published" => versions[v] = saw[c].rows[v]
        /\ versions[v].config.model = saw[c].rows[v].config.model
    BY <1>1 DEF RowsHold
  <2>2. /\ v \in DOMAIN versions'
        /\ versions[v].status = "published" => versions'[v] = versions[v]
        /\ versions'[v].config.model = versions[v].config.model
    BY <2>1, VersionsGrow DEF Grows, Inv, TypeOK
  <2> QED BY <1>1, <2>1, <2>2
<1>2. CASE versions' = versions /\ saw'[c].rows = versions
  BY <1>2
<1> QED BY <1>1, <1>2, RowsAreReadOnce DEF Inv

(* A client that is about to mark is told something by marking only.       *)
LEMMA OnlyMarkingTells ==
    ASSUME TypeOK, NEW c \in Clients, [Next]_vars,
           pc[c] \in {"mark", "bindings"}, pc'[c] = "idle", answer'[c] # None
    PROVE  \/ pc[c] = "mark" /\ Mark(c)
           \/ pc[c] = "bindings" /\ MarkByVersion(c)
<1>1. ASSUME NEW d \in Clients, Step(d), d # c PROVE FALSE
  <2> QED BY <1>1 DEF Step, Fails, StartRun, TellSample, FinishRun, StartOptions, Offer, Show,
        StartVariant, SaveVariant, PublishVariant, BindVariant, Rollback, ListVersions, Mark,
        MarkByVersion, GetActive, Begin, Goto, Tell, TypeOK
<1>2. CASE Step(c)
  <2>1. CASE Fails(c)
    BY <2>1 DEF Fails, Tell, TypeOK
  <2>2. CASE Mark(c) \/ MarkByVersion(c)
    BY <2>2 DEF Mark, MarkByVersion
  <2> QED BY <1>2, <2>1, <2>2 DEF Step, StartRun, TellSample, FinishRun, StartOptions, Offer, Show,
        StartVariant, SaveVariant, PublishVariant, BindVariant, Rollback, ListVersions,
        GetActive, Begin
<1>3. CASE Elsewhere
  BY <1>3 DEF Elsewhere
<1>4. CASE UNCHANGED vars
  BY <1>4 DEF vars
<1> QED BY <1>1, <1>2, <1>3, <1>4 DEF Next

(* Among some of the first n places one is the last. *)
LEMMA LastPlace ==
    ASSUME NEW n \in Nat, NEW S \in SUBSET (1..n), S # {}
    PROVE  \E i \in S : \A j \in S : j <= i
<1> DEFINE D == {n - i : i \in S}
           R == OpToRel(<, Nat)
<1>0. \A i \in S : i \in 1..n /\ n - i \in Nat
  OBVIOUS
<1>1. D \subseteq Nat /\ D # {}
  BY <1>0
<1>2. \E d \in D : \A e \in D : ~(<<e, d>> \in R)
  BY <1>1, NatLessThanWellFounded, WFMin
<1>3. \A d, e \in Nat : <<e, d>> \in R <=> e < d
  BY DEF OpToRel
<1>4. PICK i \in S : \A e \in D : ~(<<e, n - i>> \in R)
  BY <1>2
<1>5. \A j \in S : n - j \in D /\ n - j \in Nat /\ n - i \in Nat
  BY <1>0
<1> HIDE DEF D, R
<1>6. \A j \in S : ~(n - j < n - i)
  BY <1>3, <1>4, <1>5
<1> QED BY <1>0, <1>6

(* The environments by version: the last that runs one is kept, so that    *)
(* none that runs is without a mark.                                       *)
LEMMA TheLastEnvironmentIsKept ==
    ASSUME TypeOK, NEW rows, NEW e \in DOMAIN live, live[e] \in DOMAIN rows
    PROVE  \E i \in DOMAIN Environments :
              /\ live[Environments[i]] = live[e]
              /\ \A j \in DOMAIN Environments : j > i => live[Environments[j]] # live[Environments[i]]
<1> DEFINE S == {i \in DOMAIN Environments : live[Environments[i]] = live[e]}
<1>1. e \in ToSet(Environments)
  BY DEF TypeOK
<1>2. S # {}
  BY <1>1 DEF ToSet
<1>3. Environments \in Seq(ToSet(Environments)) /\ Len(Environments) \in Nat
      /\ DOMAIN Environments = 1..Len(Environments)
  BY ViewsAssumption
<1>4. S \in SUBSET (1..Len(Environments))
  BY <1>3
<1>5. PICK i \in S : \A j \in S : j <= i
  BY <1>2, <1>3, <1>4, LastPlace
<1>6. \A j \in DOMAIN Environments : j > i => j \notin S
  BY <1>3, <1>5
<1> QED BY <1>5, <1>6

(* What a list says of published versions holds when it is told; what it   *)
(* marks has been published with the model that is listed, and runs there; *)
(* and no version that is listed and runs goes unmarked, for any number of *)
(* environments, versions and clients.                                     *)
LEMMA WhatIsToldHolds ==
    ASSUME Inv, RowsHold, [Next]_vars, NEW c \in Clients,
           pc[c] \in {"mark", "bindings"}, pc'[c] = "idle", answer'[c] # None
    PROVE  LET rows == answer'[c].rows
               marks == answer'[c].marks
           IN /\ \A v \in DOMAIN rows : rows[v].status = "published" => versions[v] = rows[v]
              /\ \A mark \in marks :
                    LET v == mark[1] IN
                    /\ live[mark[2]] = v /\ versions[v].status = "published"
                    /\ versions[v].config.model = rows[v].config.model
              /\ \A e \in IF pc[c] = "mark" THEN {ENVIRONMENT} ELSE DOMAIN live :
                    live[e] \in DOMAIN rows => \E mark \in marks : mark[1] = live[e]
<1> DEFINE rows == saw[c].rows
<1>1. \A v \in DOMAIN rows :
        /\ rows[v].status = "published" => versions[v] = rows[v]
        /\ versions[v].config.model = rows[v].config.model
  BY DEF RowsHold
<1>2. /\ DOMAIN rows = 1..Len(rows) /\ Len(rows) \in Nat
      /\ \A e \in DOMAIN live : live[e] \in DOMAIN rows => versions[live[e]].status = "published"
  BY DEF Inv, TypeOK
<1>3. DOMAIN live = ToSet(Environments) /\ ENVIRONMENT \in DOMAIN live
  BY ViewsAssumption DEF Inv, TypeOK
<1>4. CASE pc[c] = "mark" /\ Mark(c)
  <2> DEFINE marks == {<<v, ENVIRONMENT>> : v \in DOMAIN rows \cap {live[ENVIRONMENT]}}
  <2>1. answer'[c].rows = rows /\ answer'[c].marks = marks
    BY <1>4 DEF Mark, Tell, Inv, TypeOK
  <2>2. \A mark \in marks :
          /\ mark[1] \in DOMAIN rows /\ live[mark[2]] = mark[1] /\ mark[2] = ENVIRONMENT
    OBVIOUS
  <2>3. live[ENVIRONMENT] \in DOMAIN rows => \E mark \in marks : mark[1] = live[ENVIRONMENT]
    <3>1. ASSUME live[ENVIRONMENT] \in DOMAIN rows
          PROVE  <<live[ENVIRONMENT], ENVIRONMENT>> \in marks
      BY <3>1
    <3> QED BY <3>1
  <2> HIDE DEF rows, marks
  <2> QED BY <1>1, <1>2, <1>3, <1>4, <2>1, <2>2, <2>3
<1>5. CASE pc[c] = "bindings" /\ MarkByVersion(c)
  <2> DEFINE runs(i) == live[Environments[i]]
             kept == {i \in DOMAIN Environments :
                        /\ runs(i) \in DOMAIN rows
                        /\ \A j \in DOMAIN Environments : j > i => runs(j) # runs(i)}
             marks == {<<runs(i), Environments[i]>> : i \in kept}
  <2>1. answer'[c].rows = rows /\ answer'[c].marks = marks
    BY <1>5 DEF MarkByVersion, Tell, Inv, TypeOK
  <2>2. \A mark \in marks :
          mark[1] \in DOMAIN rows /\ live[mark[2]] = mark[1] /\ mark[2] \in DOMAIN live
    BY <1>3 DEF ToSet
  <2>3. ASSUME NEW e \in DOMAIN live, live[e] \in DOMAIN rows
        PROVE  \E mark \in marks : mark[1] = live[e]
    <3>1. PICK i \in DOMAIN Environments :
            /\ live[Environments[i]] = live[e]
            /\ \A j \in DOMAIN Environments : j > i => live[Environments[j]] # live[Environments[i]]
      BY <2>3, TheLastEnvironmentIsKept DEF Inv
    <3>2. i \in kept
      BY <2>3, <3>1
    <3>3. <<runs(i), Environments[i]>> \in marks
      BY <3>2
    <3> QED BY <3>1, <3>3
  <2> HIDE DEF rows, marks
  <2>4. \A mark \in marks :
          /\ live[mark[2]] = mark[1] /\ versions[mark[1]].status = "published"
          /\ versions[mark[1]].config.model = rows[mark[1]].config.model
    BY <1>1, <1>2, <2>2
  <2> QED BY <1>1, <1>5, <2>1, <2>3, <2>4
<1> QED BY <1>4, <1>5, OnlyMarkingTells DEF Inv

THEOREM ListsAlwaysHoldWhenTold == Spec => ListsHoldWhenTold
<1>1. Init => RowsHold
  BY DEF Init, RowsHold
<1>2. Inv /\ RowsHold /\ [Next]_vars => RowsHold'
  BY RowsStillHold
<1>3. Inv /\ RowsHold /\ [Next]_vars =>
        [\A c \in Clients : pc[c] \in {"mark", "bindings"} /\ pc'[c] = "idle" /\ answer'[c] # None =>
            LET rows == answer'[c].rows
                marks == answer'[c].marks
            IN /\ \A v \in DOMAIN rows : rows[v].status = "published" => versions[v] = rows[v]
               /\ \A mark \in marks :
                     LET v == mark[1] IN
                     /\ live[mark[2]] = v /\ versions[v].status = "published"
                     /\ versions[v].config.model = rows[v].config.model
               /\ \A e \in IF pc[c] = "mark" THEN {ENVIRONMENT} ELSE DOMAIN live :
                     live[e] \in DOMAIN rows => \E mark \in marks : mark[1] = live[e]]_vars
  BY WhatIsToldHolds
<1> QED BY <1>1, <1>2, <1>3, InvHolds, PTL DEF Spec, ListsHoldWhenTold
==============================================================================

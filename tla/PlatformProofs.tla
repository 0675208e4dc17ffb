---------------------------- MODULE PlatformProofs ----------------------------
(* Proofs about Platform and Schema: what is posted, what doctor may say,  *)
(* what a close has closed, and what a migration leaves behind, for any    *)
(* number of migrations, runs and providers and any settings.              *)
EXTENDS Platform, TLAPS

(* Where there is no process there is no platform. *)
NobodyBuilds == process = None => stage = "unbuilt"

(* A doctor whose platform could be built has settings that can be built   *)
(* with; past its look at the tables it has found something or they are    *)
(* there.                                                                  *)
DoctorFinds ==
    process = "doctor" =>
        /\ stage = "failed" => problems # {}
        /\ Built => BuildFault("doctor") = None
        /\ Built /\ stage # "open" /\ problems = {} => tables = Tables

(* The clients before the one the iterator is at have been closed, and     *)
(* when it has ended quietly all that it counted.                          *)
ClosedSoFar ==
    /\ stage \in {"open", "listing"} => position = 0
    /\ stage = "next" => \A i \in 1..position : clients[i] \in closed
    /\ stage = "awaiting" =>
          position > 0 /\ \A i \in 1..(position - 1) : clients[i] \in closed
    /\ stage \in {"disposing", "closed"} /\ ~raised => \A i \in 1..size : clients[i] \in closed

Inv == /\ TypeOK /\ NobodyBuilds /\ SchemaIsWholeOrAbsent /\ NothingIsPostedToOpenAI
       /\ DoctorFinds /\ QuietDoctorMeansServing /\ ClosedSoFar

-----------------------------------------------------------------------------
LEMMA InitInv == Init => Inv
<1> SUFFICES ASSUME Init PROVE Inv
  OBVIOUS
<1> USE PlatformAssumption DEF BuildFaults, Init, SchemaInit
<1>1. TypeOK
  <2>1. SchemaTypeOK
    BY DEF TypeOK, SchemaTypeOK, Created
  <2>2. (settings \in Settings /\ process \in Users \cup {None})
    BY DEF TypeOK
  <2>3. (processors \subseteq Processors /\ attached \in BOOLEAN /\ traced \in BOOLEAN)
    BY DEF TypeOK, SettingsType, Processors
  <2>4. (stage \in {"unbuilt", "failed", "open", "listing", "next", "awaiting", "disposing", "closed"})
    BY DEF TypeOK
  <2>5. (clients \in Seq(Providers) /\ \A i, j \in DOMAIN clients : clients[i] = clients[j] => i = j)
    BY DEF TypeOK, Members
  <2>6. (closed \subseteq Members(clients))
    BY DEF TypeOK, Members
  <2>7. (run \in [Runs -> Providers \cup {None}])
    BY DEF TypeOK
  <2>8. (position \in 0..Len(clients) /\ size \in 0..Len(clients))
    BY DEF TypeOK
  <2>9. (raised \in BOOLEAN /\ disposed \in BOOLEAN /\ problems \subseteq Problems
            /\ verdict \in {None, "fine", "problems"})
    BY DEF TypeOK, Problems
  <2> QED BY <2>1, <2>2, <2>3, <2>4, <2>5, <2>6, <2>7, <2>8, <2>9 DEF TypeOK
<1>2. NobodyBuilds /\ SchemaIsWholeOrAbsent /\ NothingIsPostedToOpenAI
  BY DEF NobodyBuilds, SchemaIsWholeOrAbsent, NothingIsPostedToOpenAI, Built
<1>3. DoctorFinds /\ QuietDoctorMeansServing /\ ClosedSoFar
  BY DEF DoctorFinds, QuietDoctorMeansServing, ClosedSoFar, Users, Commands
<1> QED BY <1>1, <1>2, <1>3 DEF Inv

-----------------------------------------------------------------------------
(* The process and its platform *)

LEMMA StartInv ==
    ASSUME Inv, NEW u \in Users, Start(u), UNCHANGED schemaVars
    PROVE  Inv'
<1> USE PlatformAssumption DEF Inv, Users, Commands, BuildFaults, Start, schemaVars, traceVars, registryVars, closeVars, doctorVars
<1>1. TypeOK'
  BY DEF TypeOK, SchemaTypeOK, Problems
<1>2. NobodyBuilds'
  BY DEF TypeOK, NobodyBuilds
<1>3. SchemaIsWholeOrAbsent'
  BY DEF SchemaIsWholeOrAbsent, TypeOK, SchemaTypeOK
<1>4. NothingIsPostedToOpenAI'
  BY DEF TypeOK, NothingIsPostedToOpenAI, Built, Exported
<1>5. DoctorFinds'
  BY DEF TypeOK, DoctorFinds, NobodyBuilds, SchemaIsWholeOrAbsent, Tables, Created, Problems, Built, BuildFault, ProviderFails, LangfuseFails, NeedsPrompts
<1>6. QuietDoctorMeansServing'
  BY DEF TypeOK, QuietDoctorMeansServing, DoctorFinds, Built, Problems, BuildFault, ProviderFails, LangfuseFails, NeedsPrompts
<1>7. ClosedSoFar'
  BY DEF TypeOK, ClosedSoFar
<1> QED BY <1>1, <1>2, <1>3, <1>4, <1>5, <1>6, <1>7

LEMMA ExitInv ==
    ASSUME Inv, Exit, UNCHANGED schemaVars
    PROVE  Inv'
<1> USE PlatformAssumption DEF Inv, Users, Commands, BuildFaults, Exit, Leave, Renew, Processors, schemaVars, traceVars, registryVars, closeVars, doctorVars
<1>1. TypeOK'
  <2>1. SchemaTypeOK'
    BY DEF TypeOK, SchemaTypeOK, Created
  <2>2. (settings \in Settings /\ process \in Users \cup {None})'
    BY DEF TypeOK
  <2>3. (processors \subseteq Processors /\ attached \in BOOLEAN /\ traced \in BOOLEAN)'
    BY DEF TypeOK, SettingsType, Processors
  <2>4. (stage \in {"unbuilt", "failed", "open", "listing", "next", "awaiting", "disposing", "closed"})'
    BY DEF TypeOK
  <2>5. (clients \in Seq(Providers) /\ \A i, j \in DOMAIN clients : clients[i] = clients[j] => i = j)'
    BY DEF TypeOK, Members
  <2>6. (closed \subseteq Members(clients))'
    BY DEF TypeOK, Members
  <2>7. (run \in [Runs -> Providers \cup {None}])'
    BY DEF TypeOK
  <2>8. (position \in 0..Len(clients) /\ size \in 0..Len(clients))'
    BY DEF TypeOK
  <2>9. (raised \in BOOLEAN /\ disposed \in BOOLEAN /\ problems \subseteq Problems
            /\ verdict \in {None, "fine", "problems"})'
    BY DEF TypeOK, Problems
  <2> QED BY <2>1, <2>2, <2>3, <2>4, <2>5, <2>6, <2>7, <2>8, <2>9 DEF TypeOK
<1>2. NobodyBuilds'
  BY DEF TypeOK, NobodyBuilds
<1>3. SchemaIsWholeOrAbsent'
  BY DEF SchemaIsWholeOrAbsent, TypeOK, SchemaTypeOK
<1>4. NothingIsPostedToOpenAI'
  BY DEF TypeOK, NothingIsPostedToOpenAI, Built, Exported
<1>5. DoctorFinds'
  BY DEF TypeOK, DoctorFinds, NobodyBuilds, SchemaIsWholeOrAbsent, Tables, Created, Problems, Built, BuildFault, ProviderFails, LangfuseFails, NeedsPrompts
<1>6. QuietDoctorMeansServing'
  BY DEF TypeOK, QuietDoctorMeansServing, DoctorFinds, Built, Problems, BuildFault, ProviderFails, LangfuseFails, NeedsPrompts
<1>7. ClosedSoFar'
  BY DEF TypeOK, ClosedSoFar
<1> QED BY <1>1, <1>2, <1>3, <1>4, <1>5, <1>6, <1>7

LEMMA HostInstallsInv ==
    ASSUME Inv, HostInstalls, UNCHANGED schemaVars
    PROVE  Inv'
<1> USE PlatformAssumption DEF Inv, Users, Commands, BuildFaults, HostInstalls, Processors, schemaVars, traceVars, registryVars, closeVars, doctorVars
<1>1. TypeOK'
  BY DEF TypeOK, SchemaTypeOK, Problems
<1>2. NobodyBuilds'
  BY DEF TypeOK, NobodyBuilds
<1>3. SchemaIsWholeOrAbsent'
  BY DEF SchemaIsWholeOrAbsent, TypeOK, SchemaTypeOK
<1>4. NothingIsPostedToOpenAI'
  BY DEF TypeOK, NothingIsPostedToOpenAI, Built, Exported
<1>5. DoctorFinds'
  BY DEF TypeOK, DoctorFinds, NobodyBuilds, SchemaIsWholeOrAbsent, Tables, Created, Problems, Built, BuildFault, ProviderFails, LangfuseFails, NeedsPrompts
<1>6. QuietDoctorMeansServing'
  BY DEF TypeOK, QuietDoctorMeansServing, DoctorFinds, Built, Problems, BuildFault, ProviderFails, LangfuseFails, NeedsPrompts
<1>7. ClosedSoFar'
  BY DEF TypeOK, ClosedSoFar
<1> QED BY <1>1, <1>2, <1>3, <1>4, <1>5, <1>6, <1>7

(* What building a tracer makes of the list of processors. *)
LEMMA TracerKeepsTypes ==
    ASSUME TypeOK, BuildTracer
    PROVE  (processors \subseteq Processors /\ attached \in BOOLEAN)'
<1> USE DEF TypeOK, Processors
<1>1. CASE settings.tracing
  <2>1. PICK i \in Instrumentations : processors' = Swept(i[1]) /\ attached' = i[2]
    BY <1>1 DEF BuildTracer
  <2>2. i = <<processors, attached>> \/ i = <<{"internal"}, TRUE>>
    BY DEF Instrumentations
  <2>3. CASE i = <<processors, attached>>
    <3>1. i[1] = processors /\ i[2] = attached
      BY <2>3
    <3> QED BY <2>1, <3>1 DEF Swept
  <2>4. CASE i = <<{"internal"}, TRUE>>
    <3>1. i[1] = {"internal"} /\ i[2] = TRUE
      BY <2>4
    <3> QED BY <2>1, <3>1 DEF Swept
  <2> QED BY <2>2, <2>3, <2>4
<1>2. CASE ~settings.tracing
  BY <1>2 DEF BuildTracer, traceVars
<1> QED BY <1>1, <1>2

LEMMA BuildInv ==
    ASSUME Inv, Build, UNCHANGED schemaVars
    PROVE  Inv'
<1> USE PlatformAssumption DEF Inv, Users, Commands, BuildFaults, Build, BuildTracer, Instrumentations, Swept, Renew, Processors, schemaVars, traceVars, registryVars, closeVars, doctorVars
<1>1. TypeOK'
  <2>1. SchemaTypeOK'
    BY DEF TypeOK, SchemaTypeOK, Created
  <2>2. (settings \in Settings /\ process \in Users \cup {None})'
    BY DEF TypeOK
  <2>3. (processors \subseteq Processors /\ attached \in BOOLEAN /\ traced \in BOOLEAN)'
    <3>1. (processors \subseteq Processors /\ attached \in BOOLEAN)'
      <4>1. BuildTracer \/ UNCHANGED traceVars
        BY DEF Build
      <4> QED BY <4>1, TracerKeepsTypes DEF TypeOK, traceVars, Processors
    <3>2. settings.tracing \in BOOLEAN
      BY DEF TypeOK, SettingsType
    <3>3. traced' = settings.tracing \/ traced' = traced
      BY DEF Build
    <3> QED BY <3>1, <3>2, <3>3 DEF TypeOK
  <2>4. (stage \in {"unbuilt", "failed", "open", "listing", "next", "awaiting", "disposing", "closed"})'
    BY DEF TypeOK
  <2>5. (clients \in Seq(Providers) /\ \A i, j \in DOMAIN clients : clients[i] = clients[j] => i = j)'
    <3>1. clients' = <<>> \/ clients' = clients
      BY DEF Build, Renew
    <3>2. <<>> \in Seq(Providers) /\ DOMAIN <<>> = {}
      OBVIOUS
    <3>3. CASE clients' = <<>>
      BY <3>2, <3>3, Zenon
    <3>4. CASE clients' = clients
      BY <3>4, Zenon DEF TypeOK
    <3> QED BY <3>1, <3>3, <3>4
  <2>6. (closed \subseteq Members(clients))'
    BY DEF TypeOK, Members
  <2>7. (run \in [Runs -> Providers \cup {None}])'
    BY DEF TypeOK
  <2>8. (position \in 0..Len(clients) /\ size \in 0..Len(clients))'
    BY DEF TypeOK
  <2>9. (raised \in BOOLEAN /\ disposed \in BOOLEAN /\ problems \subseteq Problems
            /\ verdict \in {None, "fine", "problems"})'
    BY DEF TypeOK, Problems
  <2> QED BY <2>1, <2>2, <2>3, <2>4, <2>5, <2>6, <2>7, <2>8, <2>9 DEF TypeOK
<1>2. NobodyBuilds'
  BY DEF TypeOK, NobodyBuilds
<1>3. SchemaIsWholeOrAbsent'
  BY DEF SchemaIsWholeOrAbsent, TypeOK, SchemaTypeOK
<1>4. NothingIsPostedToOpenAI'
  BY DEF TypeOK, NothingIsPostedToOpenAI, Built, Exported
<1>5. DoctorFinds'
  BY DEF TypeOK, DoctorFinds, NobodyBuilds, SchemaIsWholeOrAbsent, Tables, Created, Problems, Built, BuildFault, ProviderFails, LangfuseFails, NeedsPrompts
<1>6. QuietDoctorMeansServing'
  BY DEF TypeOK, QuietDoctorMeansServing, DoctorFinds, Built, Problems, BuildFault, ProviderFails, LangfuseFails, NeedsPrompts
<1>7. ClosedSoFar'
  BY DEF TypeOK, ClosedSoFar
<1> QED BY <1>1, <1>2, <1>3, <1>4, <1>5, <1>6, <1>7

LEMMA ResolveInv ==
    ASSUME Inv, NEW r \in Runs, NEW p \in Providers, Resolve(r, p), UNCHANGED schemaVars
    PROVE  Inv'
<1> USE PlatformAssumption DEF Inv, Users, Commands, BuildFaults, Resolve, Members, schemaVars, traceVars, registryVars, closeVars, doctorVars
<1>1. TypeOK'
  <2>1. SchemaTypeOK'
    BY DEF TypeOK, SchemaTypeOK, Created
  <2>2. (settings \in Settings /\ process \in Users \cup {None})'
    BY DEF TypeOK
  <2>3. (processors \subseteq Processors /\ attached \in BOOLEAN /\ traced \in BOOLEAN)'
    BY DEF TypeOK, SettingsType, Processors
  <2>4. (stage \in {"unbuilt", "failed", "open", "listing", "next", "awaiting", "disposing", "closed"})'
    BY DEF TypeOK
  <2>5. (clients \in Seq(Providers) /\ \A i, j \in DOMAIN clients : clients[i] = clients[j] => i = j)'
    BY DEF TypeOK, Members
  <2>6. (closed \subseteq Members(clients))'
    BY DEF TypeOK, Members
  <2>7. (run \in [Runs -> Providers \cup {None}])'
    BY DEF TypeOK
  <2>8. (position \in 0..Len(clients) /\ size \in 0..Len(clients))'
    BY DEF TypeOK
  <2>9. (raised \in BOOLEAN /\ disposed \in BOOLEAN /\ problems \subseteq Problems
            /\ verdict \in {None, "fine", "problems"})'
    BY DEF TypeOK, Problems
  <2> QED BY <2>1, <2>2, <2>3, <2>4, <2>5, <2>6, <2>7, <2>8, <2>9 DEF TypeOK
<1>2. NobodyBuilds'
  BY DEF TypeOK, NobodyBuilds
<1>3. SchemaIsWholeOrAbsent'
  BY DEF SchemaIsWholeOrAbsent, TypeOK, SchemaTypeOK
<1>4. NothingIsPostedToOpenAI'
  BY DEF TypeOK, NothingIsPostedToOpenAI, Built, Exported
<1>5. DoctorFinds'
  BY DEF TypeOK, DoctorFinds, NobodyBuilds, SchemaIsWholeOrAbsent, Tables, Created, Problems, Built, BuildFault, ProviderFails, LangfuseFails, NeedsPrompts
<1>6. QuietDoctorMeansServing'
  BY DEF TypeOK, QuietDoctorMeansServing, DoctorFinds, Built, Problems, BuildFault, ProviderFails, LangfuseFails, NeedsPrompts
<1>7. ClosedSoFar'
  BY DEF TypeOK, ClosedSoFar
<1> QED BY <1>1, <1>2, <1>3, <1>4, <1>5, <1>6, <1>7

LEMMA EndRunInv ==
    ASSUME Inv, NEW r \in Runs, EndRun(r), UNCHANGED schemaVars
    PROVE  Inv'
<1> USE PlatformAssumption DEF Inv, Users, Commands, BuildFaults, EndRun, Members, schemaVars, traceVars, registryVars, closeVars, doctorVars
<1>1. TypeOK'
  BY DEF TypeOK, SchemaTypeOK, Problems
<1>2. NobodyBuilds'
  BY DEF TypeOK, NobodyBuilds
<1>3. SchemaIsWholeOrAbsent'
  BY DEF SchemaIsWholeOrAbsent, TypeOK, SchemaTypeOK
<1>4. NothingIsPostedToOpenAI'
  BY DEF TypeOK, NothingIsPostedToOpenAI, Built, Exported
<1>5. DoctorFinds'
  BY DEF TypeOK, DoctorFinds, NobodyBuilds, SchemaIsWholeOrAbsent, Tables, Created, Problems, Built, BuildFault, ProviderFails, LangfuseFails, NeedsPrompts
<1>6. QuietDoctorMeansServing'
  BY DEF TypeOK, QuietDoctorMeansServing, DoctorFinds, Built, Problems, BuildFault, ProviderFails, LangfuseFails, NeedsPrompts
<1>7. ClosedSoFar'
  BY DEF TypeOK, ClosedSoFar
<1> QED BY <1>1, <1>2, <1>3, <1>4, <1>5, <1>6, <1>7

LEMMA CommandEndsInv ==
    ASSUME Inv, CommandEnds, UNCHANGED schemaVars
    PROVE  Inv'
<1> USE PlatformAssumption DEF Inv, Users, Commands, BuildFaults, CommandEnds, BeginClose, schemaVars, traceVars, registryVars, closeVars, doctorVars
<1>1. TypeOK'
  BY DEF TypeOK, SchemaTypeOK, Problems
<1>2. NobodyBuilds'
  BY DEF TypeOK, NobodyBuilds
<1>3. SchemaIsWholeOrAbsent'
  BY DEF SchemaIsWholeOrAbsent, TypeOK, SchemaTypeOK
<1>4. NothingIsPostedToOpenAI'
  BY DEF TypeOK, NothingIsPostedToOpenAI, Built, Exported
<1>5. DoctorFinds'
  BY DEF TypeOK, DoctorFinds, NobodyBuilds, SchemaIsWholeOrAbsent, Tables, Created, Problems, Built, BuildFault, ProviderFails, LangfuseFails, NeedsPrompts
<1>6. QuietDoctorMeansServing'
  BY DEF TypeOK, QuietDoctorMeansServing, DoctorFinds, Built, Problems, BuildFault, ProviderFails, LangfuseFails, NeedsPrompts
<1>7. ClosedSoFar'
  BY DEF TypeOK, ClosedSoFar
<1> QED BY <1>1, <1>2, <1>3, <1>4, <1>5, <1>6, <1>7

LEMMA HostClosesInv ==
    ASSUME Inv, HostCloses, UNCHANGED schemaVars
    PROVE  Inv'
<1> USE PlatformAssumption DEF Inv, Users, Commands, BuildFaults, HostCloses, BeginClose, schemaVars, traceVars, registryVars, closeVars, doctorVars
<1>1. TypeOK'
  BY DEF TypeOK, SchemaTypeOK, Problems
<1>2. NobodyBuilds'
  BY DEF TypeOK, NobodyBuilds
<1>3. SchemaIsWholeOrAbsent'
  BY DEF SchemaIsWholeOrAbsent, TypeOK, SchemaTypeOK
<1>4. NothingIsPostedToOpenAI'
  BY DEF TypeOK, NothingIsPostedToOpenAI, Built, Exported
<1>5. DoctorFinds'
  BY DEF TypeOK, DoctorFinds, NobodyBuilds, SchemaIsWholeOrAbsent, Tables, Created, Problems, Built, BuildFault, ProviderFails, LangfuseFails, NeedsPrompts
<1>6. QuietDoctorMeansServing'
  BY DEF TypeOK, QuietDoctorMeansServing, DoctorFinds, Built, Problems, BuildFault, ProviderFails, LangfuseFails, NeedsPrompts
<1>7. ClosedSoFar'
  BY DEF TypeOK, ClosedSoFar
<1> QED BY <1>1, <1>2, <1>3, <1>4, <1>5, <1>6, <1>7

LEMMA LookForTablesInv ==
    ASSUME Inv, LookForTables, UNCHANGED schemaVars
    PROVE  Inv'
<1> USE PlatformAssumption DEF Inv, Users, Commands, BuildFaults, LookForTables, BeginClose, Finds, schemaVars, traceVars, registryVars, closeVars, doctorVars
<1>1. TypeOK'
  <2>1. SchemaTypeOK'
    BY DEF TypeOK, SchemaTypeOK, Created
  <2>2. (settings \in Settings /\ process \in Users \cup {None})'
    BY DEF TypeOK
  <2>3. (processors \subseteq Processors /\ attached \in BOOLEAN /\ traced \in BOOLEAN)'
    BY DEF TypeOK, SettingsType, Processors
  <2>4. (stage \in {"unbuilt", "failed", "open", "listing", "next", "awaiting", "disposing", "closed"})'
    BY DEF TypeOK
  <2>5. (clients \in Seq(Providers) /\ \A i, j \in DOMAIN clients : clients[i] = clients[j] => i = j)'
    BY DEF TypeOK, Members
  <2>6. (closed \subseteq Members(clients))'
    BY DEF TypeOK, Members
  <2>7. (run \in [Runs -> Providers \cup {None}])'
    BY DEF TypeOK
  <2>8. (position \in 0..Len(clients) /\ size \in 0..Len(clients))'
    BY DEF TypeOK
  <2>9. (raised \in BOOLEAN /\ disposed \in BOOLEAN /\ problems \subseteq Problems
            /\ verdict \in {None, "fine", "problems"})'
    BY DEF TypeOK, Problems
  <2> QED BY <2>1, <2>2, <2>3, <2>4, <2>5, <2>6, <2>7, <2>8, <2>9 DEF TypeOK
<1>2. NobodyBuilds'
  BY DEF TypeOK, NobodyBuilds
<1>3. SchemaIsWholeOrAbsent'
  BY DEF SchemaIsWholeOrAbsent, TypeOK, SchemaTypeOK
<1>4. NothingIsPostedToOpenAI'
  BY DEF TypeOK, NothingIsPostedToOpenAI, Built, Exported
<1>5. DoctorFinds'
  BY DEF TypeOK, DoctorFinds, NobodyBuilds, SchemaIsWholeOrAbsent, Tables, Created, Problems, Built, BuildFault, ProviderFails, LangfuseFails, NeedsPrompts
<1>6. QuietDoctorMeansServing'
  BY DEF TypeOK, QuietDoctorMeansServing, DoctorFinds, Built, Problems, BuildFault, ProviderFails, LangfuseFails, NeedsPrompts
<1>7. ClosedSoFar'
  BY DEF TypeOK, ClosedSoFar
<1> QED BY <1>1, <1>2, <1>3, <1>4, <1>5, <1>6, <1>7

LEMMA ListBindingsInv ==
    ASSUME Inv, ListBindings, UNCHANGED schemaVars
    PROVE  Inv'
<1> USE PlatformAssumption DEF Inv, Users, Commands, BuildFaults, ListBindings, BeginClose, Finds, schemaVars, traceVars, registryVars, closeVars, doctorVars
<1>1. TypeOK'
  <2>1. SchemaTypeOK'
    BY DEF TypeOK, SchemaTypeOK, Created
  <2>2. (settings \in Settings /\ process \in Users \cup {None})'
    BY DEF TypeOK
  <2>3. (processors \subseteq Processors /\ attached \in BOOLEAN /\ traced \in BOOLEAN)'
    BY DEF TypeOK, SettingsType, Processors
  <2>4. (stage \in {"unbuilt", "failed", "open", "listing", "next", "awaiting", "disposing", "closed"})'
    BY DEF TypeOK
  <2>5. (clients \in Seq(Providers) /\ \A i, j \in DOMAIN clients : clients[i] = clients[j] => i = j)'
    BY DEF TypeOK, Members
  <2>6. (closed \subseteq Members(clients))'
    BY DEF TypeOK, Members
  <2>7. (run \in [Runs -> Providers \cup {None}])'
    BY DEF TypeOK
  <2>8. (position \in 0..Len(clients) /\ size \in 0..Len(clients))'
    BY DEF TypeOK
  <2>9. (raised \in BOOLEAN /\ disposed \in BOOLEAN /\ problems \subseteq Problems
            /\ verdict \in {None, "fine", "problems"})'
    BY DEF TypeOK, Problems
  <2> QED BY <2>1, <2>2, <2>3, <2>4, <2>5, <2>6, <2>7, <2>8, <2>9 DEF TypeOK
<1>2. NobodyBuilds'
  BY DEF TypeOK, NobodyBuilds
<1>3. SchemaIsWholeOrAbsent'
  BY DEF SchemaIsWholeOrAbsent, TypeOK, SchemaTypeOK
<1>4. NothingIsPostedToOpenAI'
  BY DEF TypeOK, NothingIsPostedToOpenAI, Built, Exported
<1>5. DoctorFinds'
  BY DEF TypeOK, DoctorFinds, NobodyBuilds, SchemaIsWholeOrAbsent, Tables, Created, Problems, Built, BuildFault, ProviderFails, LangfuseFails, NeedsPrompts
<1>6. QuietDoctorMeansServing'
  BY DEF TypeOK, QuietDoctorMeansServing, DoctorFinds, Built, Problems, BuildFault, ProviderFails, LangfuseFails, NeedsPrompts
<1>7. ClosedSoFar'
  BY DEF TypeOK, ClosedSoFar
<1> QED BY <1>1, <1>2, <1>3, <1>4, <1>5, <1>6, <1>7

LEMMA ReportInv ==
    ASSUME Inv, Report, UNCHANGED schemaVars
    PROVE  Inv'
<1> USE PlatformAssumption DEF Inv, Users, Commands, BuildFaults, Report, Leave, Renew, Finds, Processors, schemaVars, traceVars, registryVars, closeVars, doctorVars
<1>1. TypeOK'
  <2>1. SchemaTypeOK'
    BY DEF TypeOK, SchemaTypeOK, Created
  <2>2. (settings \in Settings /\ process \in Users \cup {None})'
    BY DEF TypeOK
  <2>3. (processors \subseteq Processors /\ attached \in BOOLEAN /\ traced \in BOOLEAN)'
    BY DEF TypeOK, SettingsType, Processors
  <2>4. (stage \in {"unbuilt", "failed", "open", "listing", "next", "awaiting", "disposing", "closed"})'
    BY DEF TypeOK
  <2>5. (clients \in Seq(Providers) /\ \A i, j \in DOMAIN clients : clients[i] = clients[j] => i = j)'
    BY DEF TypeOK, Members
  <2>6. (closed \subseteq Members(clients))'
    BY DEF TypeOK, Members
  <2>7. (run \in [Runs -> Providers \cup {None}])'
    BY DEF TypeOK
  <2>8. (position \in 0..Len(clients) /\ size \in 0..Len(clients))'
    BY DEF TypeOK
  <2>9. (raised \in BOOLEAN /\ disposed \in BOOLEAN /\ problems \subseteq Problems
            /\ verdict \in {None, "fine", "problems"})'
    BY DEF TypeOK, Problems
  <2> QED BY <2>1, <2>2, <2>3, <2>4, <2>5, <2>6, <2>7, <2>8, <2>9 DEF TypeOK
<1>2. NobodyBuilds'
  BY DEF TypeOK, NobodyBuilds
<1>3. SchemaIsWholeOrAbsent'
  BY DEF SchemaIsWholeOrAbsent, TypeOK, SchemaTypeOK
<1>4. NothingIsPostedToOpenAI'
  BY DEF TypeOK, NothingIsPostedToOpenAI, Built, Exported
<1>5. DoctorFinds'
  BY DEF TypeOK, DoctorFinds, NobodyBuilds, SchemaIsWholeOrAbsent, Tables, Created, Problems, Built, BuildFault, ProviderFails, LangfuseFails, NeedsPrompts
<1>6. QuietDoctorMeansServing'
  BY DEF TypeOK, QuietDoctorMeansServing, DoctorFinds, Built, Problems, BuildFault, ProviderFails, LangfuseFails, NeedsPrompts
<1>7. ClosedSoFar'
  BY DEF TypeOK, ClosedSoFar
<1> QED BY <1>1, <1>2, <1>3, <1>4, <1>5, <1>6, <1>7

LEMMA NextClientInv ==
    ASSUME Inv, NextClient, UNCHANGED schemaVars
    PROVE  Inv'
<1> USE PlatformAssumption DEF Inv, Users, Commands, BuildFaults, NextClient, Members, schemaVars, traceVars, registryVars, closeVars, doctorVars
<1>1. TypeOK'
  <2>1. SchemaTypeOK'
    BY DEF TypeOK, SchemaTypeOK, Created
  <2>2. (settings \in Settings /\ process \in Users \cup {None})'
    BY DEF TypeOK
  <2>3. (processors \subseteq Processors /\ attached \in BOOLEAN /\ traced \in BOOLEAN)'
    BY DEF TypeOK, SettingsType, Processors
  <2>4. (stage \in {"unbuilt", "failed", "open", "listing", "next", "awaiting", "disposing", "closed"})'
    BY DEF TypeOK
  <2>5. (clients \in Seq(Providers) /\ \A i, j \in DOMAIN clients : clients[i] = clients[j] => i = j)'
    BY DEF TypeOK, Members
  <2>6. (closed \subseteq Members(clients))'
    BY DEF TypeOK, Members
  <2>7. (run \in [Runs -> Providers \cup {None}])'
    BY DEF TypeOK
  <2>8. (position \in 0..Len(clients) /\ size \in 0..Len(clients))'
    BY DEF TypeOK
  <2>9. (raised \in BOOLEAN /\ disposed \in BOOLEAN /\ problems \subseteq Problems
            /\ verdict \in {None, "fine", "problems"})'
    BY DEF TypeOK, Problems
  <2> QED BY <2>1, <2>2, <2>3, <2>4, <2>5, <2>6, <2>7, <2>8, <2>9 DEF TypeOK
<1>2. NobodyBuilds'
  BY DEF TypeOK, NobodyBuilds
<1>3. SchemaIsWholeOrAbsent'
  BY DEF SchemaIsWholeOrAbsent, TypeOK, SchemaTypeOK
<1>4. NothingIsPostedToOpenAI'
  BY DEF TypeOK, NothingIsPostedToOpenAI, Built, Exported
<1>5. DoctorFinds'
  BY DEF TypeOK, DoctorFinds, NobodyBuilds, SchemaIsWholeOrAbsent, Tables, Created, Problems, Built, BuildFault, ProviderFails, LangfuseFails, NeedsPrompts
<1>6. QuietDoctorMeansServing'
  BY DEF TypeOK, QuietDoctorMeansServing, DoctorFinds, Built, Problems, BuildFault, ProviderFails, LangfuseFails, NeedsPrompts
<1>7. ClosedSoFar'
  BY DEF TypeOK, ClosedSoFar
<1> QED BY <1>1, <1>2, <1>3, <1>4, <1>5, <1>6, <1>7

LEMMA ClientClosesInv ==
    ASSUME Inv, ClientCloses, UNCHANGED schemaVars
    PROVE  Inv'
<1> USE PlatformAssumption DEF Inv, Users, Commands, BuildFaults, ClientCloses, Members, schemaVars, traceVars, registryVars, closeVars, doctorVars
<1>1. TypeOK'
  <2>1. SchemaTypeOK'
    BY DEF TypeOK, SchemaTypeOK, Created
  <2>2. (settings \in Settings /\ process \in Users \cup {None})'
    BY DEF TypeOK
  <2>3. (processors \subseteq Processors /\ attached \in BOOLEAN /\ traced \in BOOLEAN)'
    BY DEF TypeOK, SettingsType, Processors
  <2>4. (stage \in {"unbuilt", "failed", "open", "listing", "next", "awaiting", "disposing", "closed"})'
    BY DEF TypeOK
  <2>5. (clients \in Seq(Providers) /\ \A i, j \in DOMAIN clients : clients[i] = clients[j] => i = j)'
    BY DEF TypeOK, Members
  <2>6. (closed \subseteq Members(clients))'
    BY DEF TypeOK, ClosedSoFar, Members
  <2>7. (run \in [Runs -> Providers \cup {None}])'
    BY DEF TypeOK
  <2>8. (position \in 0..Len(clients) /\ size \in 0..Len(clients))'
    BY DEF TypeOK
  <2>9. (raised \in BOOLEAN /\ disposed \in BOOLEAN /\ problems \subseteq Problems
            /\ verdict \in {None, "fine", "problems"})'
    BY DEF TypeOK, Problems
  <2> QED BY <2>1, <2>2, <2>3, <2>4, <2>5, <2>6, <2>7, <2>8, <2>9 DEF TypeOK
<1>2. NobodyBuilds'
  BY DEF TypeOK, NobodyBuilds
<1>3. SchemaIsWholeOrAbsent'
  BY DEF SchemaIsWholeOrAbsent, TypeOK, SchemaTypeOK
<1>4. NothingIsPostedToOpenAI'
  BY DEF TypeOK, NothingIsPostedToOpenAI, Built, Exported
<1>5. DoctorFinds'
  BY DEF TypeOK, DoctorFinds, NobodyBuilds, SchemaIsWholeOrAbsent, Tables, Created, Problems, Built, BuildFault, ProviderFails, LangfuseFails, NeedsPrompts
<1>6. QuietDoctorMeansServing'
  BY DEF TypeOK, QuietDoctorMeansServing, DoctorFinds, Built, Problems, BuildFault, ProviderFails, LangfuseFails, NeedsPrompts
<1>7. ClosedSoFar'
  BY DEF TypeOK, ClosedSoFar
<1> QED BY <1>1, <1>2, <1>3, <1>4, <1>5, <1>6, <1>7

LEMMA CloseFailsInv ==
    ASSUME Inv, CloseFails, UNCHANGED schemaVars
    PROVE  Inv'
<1> USE PlatformAssumption DEF Inv, Users, Commands, BuildFaults, CloseFails, Members, schemaVars, traceVars, registryVars, closeVars, doctorVars
<1>1. TypeOK'
  BY DEF TypeOK, SchemaTypeOK, Problems
<1>2. NobodyBuilds'
  BY DEF TypeOK, NobodyBuilds
<1>3. SchemaIsWholeOrAbsent'
  BY DEF SchemaIsWholeOrAbsent, TypeOK, SchemaTypeOK
<1>4. NothingIsPostedToOpenAI'
  BY DEF TypeOK, NothingIsPostedToOpenAI, Built, Exported
<1>5. DoctorFinds'
  BY DEF TypeOK, DoctorFinds, NobodyBuilds, SchemaIsWholeOrAbsent, Tables, Created, Problems, Built, BuildFault, ProviderFails, LangfuseFails, NeedsPrompts
<1>6. QuietDoctorMeansServing'
  BY DEF TypeOK, QuietDoctorMeansServing, DoctorFinds, Built, Problems, BuildFault, ProviderFails, LangfuseFails, NeedsPrompts
<1>7. ClosedSoFar'
  BY DEF TypeOK, ClosedSoFar
<1> QED BY <1>1, <1>2, <1>3, <1>4, <1>5, <1>6, <1>7

LEMMA DisposeInv ==
    ASSUME Inv, Dispose, UNCHANGED schemaVars
    PROVE  Inv'
<1> USE PlatformAssumption DEF Inv, Users, Commands, BuildFaults, Dispose, Members, schemaVars, traceVars, registryVars, closeVars, doctorVars
<1>1. TypeOK'
  BY DEF TypeOK, SchemaTypeOK, Problems
<1>2. NobodyBuilds'
  BY DEF TypeOK, NobodyBuilds
<1>3. SchemaIsWholeOrAbsent'
  BY DEF SchemaIsWholeOrAbsent, TypeOK, SchemaTypeOK
<1>4. NothingIsPostedToOpenAI'
  BY DEF TypeOK, NothingIsPostedToOpenAI, Built, Exported
<1>5. DoctorFinds'
  BY DEF TypeOK, DoctorFinds, NobodyBuilds, SchemaIsWholeOrAbsent, Tables, Created, Problems, Built, BuildFault, ProviderFails, LangfuseFails, NeedsPrompts
<1>6. QuietDoctorMeansServing'
  BY DEF TypeOK, QuietDoctorMeansServing, DoctorFinds, Built, Problems, BuildFault, ProviderFails, LangfuseFails, NeedsPrompts
<1>7. ClosedSoFar'
  BY DEF TypeOK, ClosedSoFar
<1> QED BY <1>1, <1>2, <1>3, <1>4, <1>5, <1>6, <1>7

-----------------------------------------------------------------------------
(* Migrations *)

(* A migration leaves tables and stamp alone, or commits both. *)
LEMMA MigrationsCommitWhole ==
    ASSUME NEW m \in Migrators, NEW STATE url, Migrate(m, url)
    PROVE  \/ UNCHANGED <<tables, revision>>
           \/ tables' = tables \cup Tables /\ revision' = HeadRevision
BY DEF Migrate, StartMigration, ReadRevision, CreateTable, CommitMigration, MigrationFails

LEMMA MigrationsKeepTypes ==
    ASSUME SchemaTypeOK, NEW m \in Migrators, NEW STATE url, Migrate(m, url)
    PROVE  SchemaTypeOK'
<1> USE DEF SchemaTypeOK, Ends
<1>1. Len(Created) = 3 /\ DOMAIN Created = 1..3
  BY DEF Created
<1>2. (tables \subseteq Tables /\ revision \in {None, HeadRevision})'
  BY MigrationsCommitWhole
<1>3. CASE \E looping \in BOOLEAN : StartMigration(m, url, looping)
  BY <1>2, <1>3 DEF StartMigration
<1>4. CASE ReadRevision(m)
  BY <1>1, <1>2, <1>4 DEF ReadRevision
<1>5. CASE CreateTable(m)
  BY <1>1, <1>2, <1>5 DEF CreateTable
<1>6. CASE CommitMigration(m)
  BY <1>1, <1>2, <1>6 DEF CommitMigration
<1>7. CASE MigrationFails(m)
  BY <1>1, <1>2, <1>7 DEF MigrationFails
<1> QED BY <1>3, <1>4, <1>5, <1>6, <1>7 DEF Migrate

LEMMA MigrateInv ==
    ASSUME Inv, NEW m \in Migrators, NEW STATE url, Migrate(m, url), UNCHANGED platformVars
    PROVE  Inv'
<1> USE DEF Inv, platformVars, traceVars, registryVars, closeVars, doctorVars
<1>1. TypeOK'
  BY MigrationsKeepTypes DEF TypeOK, Members
<1>2. SchemaIsWholeOrAbsent' /\ (tables = Tables => tables' = Tables)
  BY MigrationsCommitWhole DEF SchemaIsWholeOrAbsent, Tables
<1>3. NobodyBuilds' /\ NothingIsPostedToOpenAI' /\ ClosedSoFar'
  BY DEF NobodyBuilds, NothingIsPostedToOpenAI, Built, Exported, ClosedSoFar
<1>4. DoctorFinds' /\ QuietDoctorMeansServing'
  BY <1>2 DEF DoctorFinds, QuietDoctorMeansServing, Built, BuildFault, ProviderFails,
              LangfuseFails, NeedsPrompts
<1> QED BY <1>1, <1>2, <1>3, <1>4

-----------------------------------------------------------------------------
LEMMA StutterInv == ASSUME Inv, UNCHANGED vars PROVE Inv'
<1> USE DEF Inv, vars, schemaVars, platformVars, traceVars, registryVars, closeVars, doctorVars
<1>1. TypeOK' /\ NobodyBuilds' /\ SchemaIsWholeOrAbsent'
  BY DEF TypeOK, SchemaTypeOK, Members, NobodyBuilds, SchemaIsWholeOrAbsent
<1>2. NothingIsPostedToOpenAI' /\ ClosedSoFar'
  BY DEF NothingIsPostedToOpenAI, Built, Exported, ClosedSoFar
<1>3. DoctorFinds' /\ QuietDoctorMeansServing'
  BY DEF DoctorFinds, QuietDoctorMeansServing, Built, BuildFault, ProviderFails,
         LangfuseFails, NeedsPrompts
<1> QED BY <1>1, <1>2, <1>3

LEMMA NextInv == Inv /\ [Next]_vars => Inv'
<1> SUFFICES ASSUME Inv, [Next]_vars PROVE Inv'
  OBVIOUS
<1>1. CASE /\ UNCHANGED schemaVars
           /\ \/ \E u \in Users : Start(u)
              \/ HostInstalls \/ Build \/ Work \/ HostCloses \/ Close \/ Report \/ Exit
              \/ \E r \in Runs : EndRun(r) \/ (\E p \in Providers : Resolve(r, p))
  BY <1>1, StartInv, HostInstallsInv, BuildInv, CommandEndsInv, LookForTablesInv,
     ListBindingsInv, HostClosesInv, NextClientInv, ClientClosesInv, CloseFailsInv, DisposeInv,
     ReportInv, ExitInv, EndRunInv, ResolveInv DEF Work, Close
<1>2. CASE \E m \in Migrators : Migrate(m, settings.url) /\ UNCHANGED platformVars
  BY <1>2, MigrateInv
<1> QED BY <1>1, <1>2, StutterInv DEF Next

THEOREM InvHolds == Spec => []Inv
BY InitInv, NextInv, PTL DEF Spec

-----------------------------------------------------------------------------
(* The state of a process, its platform and its database has the types its *)
(* code gives it.                                                          *)
THEOREM PlatformTypeCorrect == Spec => []TypeOK
BY InvHolds, PTL DEF Inv

(* However many migrations run at once, and wherever they die, all tables  *)
(* are there with the stamp, or none is.                                   *)
THEOREM SchemaIsAlwaysWholeOrAbsent == Spec => []SchemaIsWholeOrAbsent
BY InvHolds, PTL DEF Inv

(* No run of a platform is ever posted to OpenAI, whatever a host installs *)
(* and however often it builds.                                            *)
THEOREM NothingIsEverPostedToOpenAI == Spec => []NothingIsPostedToOpenAI
BY InvHolds, PTL DEF Inv

(* A doctor that found nothing wrong is right about every setting a server *)
(* is built from, and about the tables.                                    *)
THEOREM QuietDoctorAlwaysMeansServing == Spec => []QuietDoctorMeansServing
BY InvHolds, PTL DEF Inv

(* What a host installed is only ever lost to the instrumentation when it  *)
(* attaches.                                                               *)
LEMMA BuildingKeepsProcessors ==
    ASSUME Inv, BuildTracer, NEW p \in AppProcessors \cap processors
    PROVE  p \in processors' \/ (~attached /\ attached')
<1>1. p # "openai"
  BY PlatformAssumption
<1>2. CASE settings.tracing
  <2>1. PICK i \in Instrumentations : processors' = Swept(i[1]) /\ attached' = i[2]
    BY <1>2 DEF BuildTracer
  <2>2. i = <<processors, attached>> \/ (~attached /\ i = <<{"internal"}, TRUE>>)
    BY DEF Instrumentations
  <2>3. CASE i = <<processors, attached>>
    <3>1. i[1] = processors
      BY <2>3
    <3> QED BY <1>1, <2>1, <3>1 DEF Swept
  <2>4. CASE ~attached /\ i = <<{"internal"}, TRUE>>
    <3>1. i[2] = TRUE
      BY <2>4
    <3> QED BY <2>1, <2>4, <3>1, Zenon
  <2> QED BY <2>2, <2>3, <2>4
<1>3. CASE ~settings.tracing
  BY <1>3 DEF BuildTracer, traceVars
<1> QED BY <1>2, <1>3

LEMMA StepsKeepProcessors ==
    ASSUME Inv, [Next]_vars, process' # None, NEW p \in AppProcessors \cap processors
    PROVE  p \in processors' \/ (~attached /\ attached')
<1>1. CASE Build
  BY <1>1, BuildingKeepsProcessors DEF Build, traceVars
<1>2. CASE HostInstalls
  BY <1>2 DEF HostInstalls
<1>3. CASE UNCHANGED processors
  BY <1>3
<1>4. CASE Report \/ Exit
  BY <1>4 DEF Report, Exit, Leave
<1> QED BY <1>1, <1>2, <1>3, <1>4
        DEF Next, vars, platformVars, traceVars, Start, Work, CommandEnds, LookForTables,
            ListBindings, HostCloses, Close, NextClient, ClientCloses, CloseFails, Dispose,
            EndRun, Resolve

THEOREM OthersProcessorsAlwaysStay == Spec => OthersProcessorsStay
<1>1. Inv /\ [Next]_vars =>
        [process' # None =>
            \A p \in AppProcessors \cap processors : p \in processors' \/ (~attached /\ attached')]_vars
  BY StepsKeepProcessors
<1> QED BY <1>1, InvHolds, PTL DEF Spec, OthersProcessorsStay

(* When its iterator ends quietly, a close has closed every client, of     *)
(* however many, and when the engine is disposed of every one that was     *)
(* there then.                                                             *)
LEMMA QuietStepsClosedAll ==
    ASSUME Inv, [Next]_vars, stage = "next", stage' = "disposing", ~raised'
    PROVE  closed = Members(clients)
<1>1. NextClient
  BY DEF Next, vars, platformVars, traceVars, Start, HostInstalls, Build, Built, Work, CommandEnds,
         LookForTables, ListBindings, HostCloses, Close, ClientCloses, CloseFails, Dispose,
         EndRun, Resolve, Report, Exit, Leave, BeginClose
<1>2. Len(clients) = size /\ position = size
  BY <1>1 DEF NextClient, closeVars
<1>3. \A i \in 1..Len(clients) : clients[i] \in closed
  BY <1>2 DEF Inv, ClosedSoFar
<1> QED BY <1>3 DEF Inv, TypeOK, Members

LEMMA QuietCloseClosedThose ==
    ASSUME Inv, [Next]_vars, stage = "disposing", stage' = "closed", ~raised',
           NEW i \in DOMAIN clients, i <= size
    PROVE  clients[i] \in closed
<1>1. Dispose
  BY DEF Next, vars, platformVars, traceVars, Start, HostInstalls, Build, Built, Work, CommandEnds,
         LookForTables, ListBindings, HostCloses, Close, ClientCloses, CloseFails, NextClient,
         EndRun, Resolve, Report, Exit, Leave, BeginClose
<1>2. i \in 1..size /\ ~raised
  BY <1>1 DEF Dispose, Inv, TypeOK
<1> QED BY <1>2 DEF Inv, ClosedSoFar

THEOREM QuietCloseAlwaysMissesOnlyTheLate == Spec => QuietCloseMissesOnlyTheLate
<1>1. Inv /\ [Next]_vars =>
        [~raised' =>
            /\ stage = "next" /\ stage' = "disposing" => closed = Members(clients)
            /\ stage = "disposing" /\ stage' = "closed" =>
                  \A i \in DOMAIN clients : i <= size => clients[i] \in closed]_vars
  BY QuietStepsClosedAll, QuietCloseClosedThose
<1> QED BY <1>1, InvHolds, PTL DEF Spec, QuietCloseMissesOnlyTheLate
===============================================================================

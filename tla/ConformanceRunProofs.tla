------------------------ MODULE ConformanceRunProofs ------------------------
(***************************************************************************)
(* Proofs about ConformanceRun, for any plan and any settings of a run.    *)
(* The invariant follows a module from the line that announces it          *)
(* over the hook that is started for it to the result of that hook.        *)
(***************************************************************************)
EXTENDS ConformanceRun, TLAPS, SequenceTheorems, FiniteSetTheorems

Created(m) == [says |-> "created", module |-> m]
Running(m) == [says |-> "running", module |-> m]

\* A line announces the module that the line before it has named.
Paired ==
    \A i \in 1..Len(printed) :
        /\ printed[i].says = "running" =>
              i < Len(printed) /\ printed[i + 1] = Created(printed[i].module)
        /\ printed[i].says = "created" =>
              IF i = 1 THEN currentModule = printed[i].module
              ELSE printed[i - 1] = Running(printed[i].module)

\* A module is announced once, and has no hook before that is read.
Announced ==
    /\ \A i, j \in 1..Len(printed) :
          printed[i].says = "created" /\ printed[j] = printed[i] => i = j
    /\ \A i \in 1..Len(printed) :
          printed[i].says = "created" => /\ hook[printed[i].module] = "none"
                                         /\ status[printed[i].module] # "NONE"
    /\ \A m \in Modules : status[m] # "NONE" =>
          \/ m \in settings.labels \/ hook[m] # "none"
          \/ \E i \in 1..Len(printed) : printed[i] = Created(m)
    /\ \A m \in Modules : hook[m] # "none" => m \notin settings.labels /\ status[m] # "NONE"
    /\ driver \in {"hooks", "evidence", "returned"} => printed = <<>> /\ runner = "exited"

\* The exported rows are of modules that ran, and a finished one stays as it is.
Exported ==
    /\ runner = "running" => exported = {}
    /\ \A x \in exported :
          /\ status[x.module] # "NONE"
          /\ x.status = "FINISHED" => status[x.module] = "FINISHED" /\ result[x.module] = x.result

\* The driver knows every hook, and has the result of those it waited for.
Joined ==
    /\ \A m \in Modules : hook[m] # "none" => \E i \in 1..Len(hooks) : hooks[i] = m
    /\ driver = "reading" => waited = 0
    /\ \A i \in 1..waited : /\ hook[hooks[i]] \in HookExits
                            /\ hookResult = 0 => hook[hooks[i]] = "ok"
    /\ driver \in {"evidence", "returned"} => waited = Len(hooks)

\* A hook that is past a step has done it.
Accounted ==
    \A m \in Modules :
        /\ hook[m] \in {"relationships", "createRelationship"} => entity[m] \in entities
        /\ hook[m] \in {"none", "endpoint", "flow"} \cup Governing => flow[m] = "none"
        /\ hook[m] = "flow" /\ DynamicGovernance => Governed
        /\ hook[m] \in {"audit", "submit", "recheck"} /\ DynamicGovernance => flow[m] = "governed"
        /\ hook[m] \in {"audit", "submit", "recheck"} => flow[m] # "none"
        /\ hook[m] = "submit" /\ settings.audit => m \in audited

\* What was sent was recorded, in a run with audits.
Sent ==
    \A d \in received : /\ settings.audit => d[1] \in audited
                        /\ hook[d[1]] # "none"
                        /\ flow[d[1]] # "none"
                        /\ DynamicGovernance => flow[d[1]] = "governed"

Judged ==
    verdict = "passed" => /\ driver = "returned" /\ hookResult = 0
                          /\ StrictModuleSummary
                          /\ {x.module : x \in exported} = Modules

IInv == TypeOK /\ Paired /\ Announced /\ Exported /\ Joined /\ Accounted /\ Sent
          /\ ExcusedModuleHasFinished /\ Judged

-----------------------------------------------------------------------------
LEMMA InitIInv == Init => IInv
<1> SUFFICES ASSUME Init PROVE IInv
  OBVIOUS
<1> USE DEF Init, SuiteInit, HookInit
<1>1. TypeOK
  <2>1. SuiteTypeOK
    <3>1. position \in 1..(Len(Plan) + 1)
      BY SuiteAssumption
    <3>. QED  BY <3>1 DEF SuiteTypeOK, Statuses, Results, Line
  <2>2. HookTypeOK
    BY DEF HookTypeOK
  <2>. QED  BY <2>1, <2>2 DEF TypeOK
<1>2. Paired /\ Announced /\ Exported
  BY DEF Paired, Announced, Exported
<1>3. Joined /\ Accounted /\ Sent
  BY DEF Joined, Accounted, Sent, Governing
<1>4. ExcusedModuleHasFinished /\ Judged
  BY DEF ExcusedModuleHasFinished, Judged
<1>. QED  BY <1>1, <1>2, <1>3, <1>4 DEF IInv

-----------------------------------------------------------------------------
(* The suite and its runner. *)

\* What does not depend on the suite at all.
LEMMA SuiteFrame ==
    ASSUME IInv, UNCHANGED <<hookVars, driverVars, received, settings>>
    PROVE  HookTypeOK' /\ Joined' /\ Accounted' /\ Sent'
BY DEF IInv, TypeOK, HookTypeOK, Joined, Accounted, Sent, Governed, hookVars, driverVars

LEMMA RunnerCreatesIInv ==
    ASSUME IInv, RunnerCreates, UNCHANGED <<hookVars, driverVars>>
    PROVE  IInv'
<1> DEFINE m == Plan[position]
<1>1. /\ m \in Modules /\ status[m] = "NONE" /\ runner = "running"
      /\ status' = [status EXCEPT ![m] = "RUNNING"]
      /\ printed' = printed \o <<Running(m), Created(m)>>
  BY DEF RunnerCreates, Modules, IInv, TypeOK, SuiteTypeOK, Running, Created
<1> HIDE DEF m
<1>2. Running(m) \in Line /\ Created(m) \in Line
  BY <1>1 DEF Running, Created, Line
<1>3. <<Running(m), Created(m)>> \in Seq(Line)
  BY <1>2
<1>4. printed \in Seq(Line)
  BY DEF IInv, TypeOK, SuiteTypeOK
<1>5. /\ printed' \in Seq(Line)
      /\ Len(printed') = Len(printed) + 2
      /\ \A i \in 1..Len(printed) : printed'[i] = printed[i]
      /\ printed'[Len(printed) + 1] = Running(m)
      /\ printed'[Len(printed) + 2] = Created(m)
  <2>. DEFINE two == <<Running(m), Created(m)>>
  <2>1. Len(two) = 2 /\ two[1] = Running(m) /\ two[2] = Created(m)
    OBVIOUS
  <2>2. two \in Seq(Line)
    BY <1>3
  <2>. HIDE DEF two
  <2>3. printed' = printed \o two
    BY <1>1 DEF two
  <2>4. /\ printed \o two \in Seq(Line)
        /\ Len(printed \o two) = Len(printed) + Len(two)
        /\ \A i \in 1..(Len(printed) + Len(two)) : (printed \o two)[i] =
              IF i <= Len(printed) THEN printed[i] ELSE two[i - Len(printed)]
    BY <1>4, <2>2, ConcatProperties, Zenon
  <2>5. Len(printed) \in Nat
    BY <1>4
  <2>. QED  BY <2>1, <2>3, <2>4, <2>5
<1>6. Len(printed) \in Nat
  BY <1>4
<1>7. /\ Running(m).says = "running" /\ Created(m).says = "created"
      /\ Running(m).module = m /\ Created(m).module = m
  BY DEF Running, Created
<1>8. HookTypeOK' /\ Joined' /\ Accounted' /\ Sent'
  BY SuiteFrame DEF RunnerCreates
<1>9. SuiteTypeOK'
  BY <1>1, <1>5 DEF RunnerCreates, m, IInv, TypeOK, SuiteTypeOK, Statuses
<1>10. TypeOK'
  BY <1>8, <1>9 DEF driverVars, IInv, TypeOK
<1>11. Paired'
  BY <1>5, <1>6, <1>7 DEF IInv, Paired, driverVars
<1>12. hook' = hook /\ hook[m] = "none" /\ settings' = settings /\ driver' = driver
  BY <1>1 DEF IInv, Announced, RunnerCreates, hookVars, driverVars
<1>13. \A n \in Modules : status'[n] = IF n = m THEN "RUNNING" ELSE status[n]
  BY <1>1 DEF IInv, TypeOK, SuiteTypeOK
<1>14. \A i \in 1..Len(printed) : printed[i].module \in Modules
  <2>1. \A i \in 1..Len(printed) : printed[i] \in Line
    BY <1>4
  <2>2. \A l \in Line : l.module \in Modules
    BY DEF Line
  <2>. QED  BY <2>1, <2>2
<1>15. Announced'
  <2>1. \A i, j \in 1..Len(printed') :
          printed'[i].says = "created" /\ printed'[j] = printed'[i] => i = j
    BY <1>1, <1>5, <1>6, <1>7 DEF IInv, Announced
  <2>2. ASSUME NEW i \in 1..Len(printed'), printed'[i].says = "created"
        PROVE  hook'[printed'[i].module] = "none" /\ status'[printed'[i].module] # "NONE"
    <3>1. CASE i \in 1..Len(printed)
      <4>1. /\ hook[printed[i].module] = "none" /\ status[printed[i].module] # "NONE"
            /\ printed[i].module \in Modules
        BY <1>5, <1>14, <2>2, <3>1 DEF IInv, Announced
      <4>. QED  BY <1>5, <1>12, <1>13, <3>1, <4>1
    <3>2. CASE i = Len(printed) + 1
      BY <1>5, <1>7, <2>2, <3>2
    <3>3. CASE i = Len(printed) + 2
      BY <1>1, <1>5, <1>7, <1>12, <1>13, <3>3
    <3>. QED  BY <1>5, <1>6, <3>1, <3>2, <3>3
  <2>3. ASSUME NEW n \in Modules, status'[n] # "NONE"
        PROVE  \/ n \in settings'.labels \/ hook'[n] # "none"
               \/ \E i \in 1..Len(printed') : printed'[i] = Created(n)
    <3>1. CASE n = m
      BY <1>5, <1>6, <3>1
    <3>2. CASE n # m
      BY <1>5, <1>6, <1>12, <1>13, <2>3, <3>2 DEF IInv, Announced
    <3>. QED  BY <3>1, <3>2
  <2>4. \A n \in Modules : hook'[n] # "none" => n \notin settings'.labels /\ status'[n] # "NONE"
    BY <1>12, <1>13 DEF IInv, Announced
  <2>5. driver' \notin {"hooks", "evidence", "returned"}
    BY <1>1, <1>12 DEF IInv, Announced
  <2>. QED  BY <2>1, <2>2, <2>3, <2>4, <2>5 DEF Announced, Created
<1>16. Exported'
  BY <1>1 DEF IInv, Exported, RunnerCreates
<1>17. ExcusedModuleHasFinished'
  BY <1>1, <1>13 DEF IInv, ExcusedModuleHasFinished, RunnerCreates, hookVars
<1>18. Judged'
  BY <1>12, <1>1 DEF IInv, Judged, Announced, driverVars
<1>. QED  BY <1>8, <1>10, <1>11, <1>15, <1>16, <1>17, <1>18 DEF IInv

\* The other steps of the suite print nothing.
LEMMA SuiteQuiet ==
    ASSUME IInv, SuiteSteps, ~RunnerCreates, UNCHANGED <<hookVars, driverVars>>
    PROVE  IInv'
<1>1. UNCHANGED <<received, settings, printed, alias, selected>>
  BY DEF SuiteSteps, RunnerMovesOn, RunnerExits, SuiteFalls, SuiteExposes, SuiteEnds
<1>2. HookTypeOK' /\ Joined' /\ Accounted' /\ Sent'
  BY <1>1, SuiteFrame
<1> DEFINE Kept(n) == /\ status[n] # "RUNNING" => status'[n] = status[n] /\ result'[n] = result[n]
                      /\ status[n] = "RUNNING" => status'[n] # "NONE"
<1>3. /\ status' \in [Modules -> Statuses] /\ result' \in [Modules -> Results \cup {"UNKNOWN"}]
      /\ \A n \in Modules : Kept(n)
  <2>1. CASE UNCHANGED <<status, result>>
    BY <2>1 DEF IInv, TypeOK, SuiteTypeOK
  <2>2. CASE \E m \in Modules : SuiteEnds(m)
    <3>1. PICK m \in Modules : SuiteEnds(m)
      BY <2>2
    <3>2. status' \in [Modules -> Statuses] /\ result' \in [Modules -> Results \cup {"UNKNOWN"}]
      BY <3>1 DEF SuiteEnds, IInv, TypeOK, SuiteTypeOK, Statuses
    <3>3. ASSUME NEW n \in Modules
          PROVE  Kept(n)
      BY <3>1 DEF SuiteEnds, IInv, TypeOK, SuiteTypeOK
    <3>. QED  BY <3>2, <3>3
  <2>. QED
    BY <2>1, <2>2 DEF SuiteSteps, RunnerMovesOn, RunnerExits, SuiteFalls, SuiteExposes
<1>4. \/ UNCHANGED <<exported, runner>>
      \/ /\ runner = "running" /\ runner' = "exited"
         /\ UNCHANGED <<status, result>>
         /\ \E S \in SUBSET {m \in Modules : status[m] # "NONE"} :
              exported' = {[module |-> m, status |-> status[m], result |-> result[m]] : m \in S}
  BY DEF SuiteSteps, RunnerMovesOn, RunnerExits, SuiteFalls, SuiteExposes, SuiteEnds
<1>5. exported' \subseteq [module : Modules, status : Statuses, result : Results \cup {"UNKNOWN"}]
  BY <1>4 DEF IInv, TypeOK, SuiteTypeOK
<1>6. SuiteTypeOK'
  <2>1. position' \in 1..(Len(Plan) + 1)
    <3>1. Len(Plan) \in Nat
      BY SuiteAssumption
    <3>. QED
      BY <3>1 DEF SuiteSteps, RunnerMovesOn, RunnerExits, SuiteFalls, SuiteExposes, SuiteEnds,
         IInv, TypeOK, SuiteTypeOK
  <2>2. up' \in BOOLEAN /\ runnerExit' \in 0..1 /\ runner' \in {"running", "exited"}
    BY DEF SuiteSteps, RunnerMovesOn, RunnerExits, SuiteFalls, SuiteExposes, SuiteEnds,
       IInv, TypeOK, SuiteTypeOK
  <2>3. exposed' \subseteq Modules
    BY DEF SuiteSteps, RunnerMovesOn, RunnerExits, SuiteFalls, SuiteExposes, SuiteEnds,
       IInv, TypeOK, SuiteTypeOK
  <2>. QED  BY <1>1, <1>3, <1>5, <2>1, <2>2, <2>3 DEF IInv, TypeOK, SuiteTypeOK
<1>7. TypeOK'
  BY <1>2, <1>6 DEF driverVars, IInv, TypeOK
<1>8. Paired'
  BY <1>1 DEF IInv, Paired, driverVars
<1>9. \A m \in Modules : status'[m] = "NONE" <=> status[m] = "NONE"
  BY <1>3 DEF IInv, TypeOK, SuiteTypeOK, Statuses
<1>10. Announced'
  <2>1. \A i \in 1..Len(printed) : printed[i].module \in Modules
    <3>1. \A i \in 1..Len(printed) : printed[i] \in Line
      BY DEF IInv, TypeOK, SuiteTypeOK
    <3>. QED  BY <3>1 DEF Line
  <2>2. runner = "exited" => runner' = "exited"
    BY <1>4
  <2>. QED  BY <1>1, <1>9, <2>1, <2>2 DEF IInv, Announced, hookVars, driverVars
<1>11. Exported'
  <2>1. CASE UNCHANGED <<exported, runner>>
    <3>1. \A x \in exported : x.module \in Modules
      BY DEF IInv, TypeOK, SuiteTypeOK
    <3>2. \A m \in Modules : status[m] = "FINISHED" => status'[m] = "FINISHED" /\ result'[m] = result[m]
      BY <1>3
    <3>. QED  BY <1>9, <2>1, <3>1, <3>2 DEF IInv, Exported
  <2>2. CASE runner' = "exited" /\ UNCHANGED <<status, result>>
             /\ \E S \in SUBSET {m \in Modules : status[m] # "NONE"} :
                  exported' = {[module |-> m, status |-> status[m], result |-> result[m]] : m \in S}
    BY <2>2 DEF Exported
  <2>. QED  BY <1>4, <2>1, <2>2
<1>12. ExcusedModuleHasFinished'
  <2>1. \A m \in Modules : status[m] = "FINISHED" => status'[m] = "FINISHED"
    BY <1>3
  <2>. QED  BY <1>1, <2>1 DEF IInv, ExcusedModuleHasFinished, hookVars
<1>13. Judged'
  <2>1. verdict' = "passed" => runner = "exited"
    BY DEF IInv, Judged, Announced, driverVars
  <2>. QED  BY <1>1, <1>4, <2>1 DEF IInv, Judged, StrictModuleSummary, ExpectedSkip, driverVars
<1>. QED  BY <1>2, <1>7, <1>8, <1>10, <1>11, <1>12, <1>13 DEF IInv

-----------------------------------------------------------------------------
(* The hooks. *)

LEMMA SkipsAreNoHooks ==
    ASSUME NEW m \in Modules, hook[m] \in HookSteps
    PROVE  hook[m] # "none" /\ hook[m] \notin HookExits
BY DEF HookSteps, HookExits, Governing

\* A hook that goes on disturbs neither the driver nor the suite.
LEMMA HookFrame ==
    ASSUME IInv, NEW m \in Modules, hook[m] \in HookSteps,
           NEW step \in HookSteps \cup HookExits, Goto(m, step),
           UNCHANGED <<up, status, result, exposed, alias, selected, settings, runner, position,
                       runnerExit, printed, exported, driverVars>>
    PROVE  /\ Paired' /\ Announced' /\ Exported' /\ Joined' /\ Judged'
           /\ hook' \in [Modules -> {"none"} \cup HookSteps \cup HookExits]
           /\ received' \subseteq Modules \X Modules => SuiteTypeOK'
           /\ \A n \in Modules : hook'[n] = IF n = m THEN step ELSE hook[n]
<1>1. hook \in [Modules -> {"none"} \cup HookSteps \cup HookExits]
  BY DEF IInv, TypeOK, HookTypeOK
<1>2. hook' \in [Modules -> {"none"} \cup HookSteps \cup HookExits]
  BY <1>1 DEF Goto
<1>3. \A n \in Modules : hook'[n] = IF n = m THEN step ELSE hook[n]
  BY <1>1 DEF Goto
<1>4. hook[m] # "none" /\ hook[m] \notin HookExits /\ step # "none"
  BY SkipsAreNoHooks DEF HookSteps, HookExits, Governing
<1>5. Paired' /\ Exported' /\ Judged'
  BY DEF IInv, Paired, Exported, Judged, StrictModuleSummary, ExpectedSkip, driverVars
<1>6. Announced'
  <2>1. \A i \in 1..Len(printed) : printed[i].module \in Modules
    <3>1. \A i \in 1..Len(printed) : printed[i] \in Line
      BY DEF IInv, TypeOK, SuiteTypeOK
    <3>. QED  BY <3>1 DEF Line
  <2>2. \A n \in Modules : hook'[n] = "none" <=> hook[n] = "none"
    BY <1>3, <1>4
  <2>. QED  BY <2>1, <2>2 DEF IInv, Announced, driverVars
<1>7. Joined'
  <2>1. \A i \in 1..waited : i \in 1..Len(hooks) /\ hooks[i] \in Modules
    BY DEF IInv, TypeOK
  <2>2. \A n \in Modules : hook[n] \in HookExits => hook'[n] = hook[n]
    BY <1>3, <1>4
  <2>3. \A n \in Modules : hook'[n] # "none" => hook[n] # "none"
    BY <1>3, <1>4
  <2>. QED  BY <2>1, <2>2, <2>3 DEF IInv, Joined, driverVars
<1>8. received' \subseteq Modules \X Modules => SuiteTypeOK'
  BY DEF IInv, TypeOK, SuiteTypeOK
<1>. QED  BY <1>2, <1>3, <1>5, <1>6, <1>7, <1>8

\* What a hook has done is not undone by another one.
LEMMA HookIInv ==
    ASSUME IInv, NEW m \in Modules,
           HookRuns(m) \/ Deadline(m) \/ HookFails(m), UNCHANGED driverVars
    PROVE  IInv'
<1> USE DEF Goto, Answered, marty
<1> DEFINE Actions ==
      \/ ExposedEndpoint(m) \/ ExistingModuleIssuerEntity(m) \/ CreateEntity(m)
      \/ HasModuleIssuerRelationship(m) \/ CreateRelationship(m) \/ StartFlow(m)
      \/ WritePrivateFlowAudit(m) \/ SubmitToOfficialWallet(m) \/ SubmissionFails(m)
      \/ ModuleFinished(m) \/ Deadline(m) \/ HookFails(m)
<1>1. Actions
  BY DEF HookRuns
<1>2. /\ hook[m] \in HookSteps
      /\ \E step \in HookSteps \cup HookExits : Goto(m, step)
      /\ UNCHANGED <<up, status, result, exposed, alias, selected, settings, runner, position,
                     runnerExit, printed, exported>>
  <2>1. CASE ExposedEndpoint(m)
    BY <2>1 DEF ExposedEndpoint, HookSteps, HookExits, Governing, suiteVars
  <2>2. CASE ExistingModuleIssuerEntity(m) \/ CreateEntity(m)
    BY <2>2 DEF ExistingModuleIssuerEntity, CreateEntity, HookSteps, HookExits, Governing, suiteVars
  <2>3. CASE HasModuleIssuerRelationship(m)
    BY <2>3 DEF HasModuleIssuerRelationship, HookSteps, HookExits, Governing, suiteVars
  <2>4. CASE CreateRelationship(m) \/ StartFlow(m) \/ WritePrivateFlowAudit(m)
    BY <2>4 DEF CreateRelationship, StartFlow, WritePrivateFlowAudit, HookSteps, HookExits, Governing, suiteVars
  <2>5. CASE SubmitToOfficialWallet(m) \/ SubmissionFails(m) \/ ModuleFinished(m)
    BY <2>5 DEF SubmitToOfficialWallet, SubmissionFails, ModuleFinished, HookSteps, HookExits, Governing, suiteVars
  <2>6. CASE Deadline(m) \/ HookFails(m)
    BY <2>6 DEF Deadline, HookFails, HookSteps, HookExits, Governing, suiteVars
  <2>. QED  BY <1>1, <2>1, <2>2, <2>3, <2>4, <2>5, <2>6
<1>3. PICK step \in HookSteps \cup HookExits : Goto(m, step)
  BY <1>2
<1>4. /\ Paired' /\ Announced' /\ Exported' /\ Joined' /\ Judged'
      /\ hook' \in [Modules -> {"none"} \cup HookSteps \cup HookExits]
      /\ received' \subseteq Modules \X Modules => SuiteTypeOK'
      /\ \A n \in Modules : hook'[n] = IF n = m THEN step ELSE hook[n]
  BY <1>2, <1>3, HookFrame
<1>5. /\ hook[m] # "none" /\ hook[m] \notin HookExits
      /\ step # "none"
  BY <1>2, <1>3, SkipsAreNoHooks DEF HookSteps, HookExits, Governing
<1>6. /\ hook \in [Modules -> {"none"} \cup HookSteps \cup HookExits]
      /\ entity \in [Modules -> Modules \cup {NoModule}] /\ entities \subseteq Modules
      /\ related \in [Modules -> Nat] /\ audited \subseteq Modules
      /\ flow \in [Modules -> {"none", "governed", "ungoverned"}]
      /\ overlapped \in BOOLEAN /\ received \subseteq Modules \X Modules
      /\ alias \in Modules \cup {NoModule}
  BY DEF IInv, TypeOK, SuiteTypeOK, HookTypeOK
<1>7. /\ hook[m] \in {"relationships", "createRelationship"} => entity[m] \in entities
      /\ hook[m] \in {"endpoint", "flow"} \cup Governing => flow[m] = "none"
      /\ hook[m] = "flow" /\ DynamicGovernance => Governed
      /\ hook[m] \in {"audit", "submit", "recheck"} /\ DynamicGovernance => flow[m] = "governed"
      /\ hook[m] \in {"audit", "submit", "recheck"} => flow[m] # "none"
      /\ hook[m] = "submit" /\ settings.audit => m \in audited
  BY DEF IInv, Accounted
\* What any step of the hook may do ...
<1> DEFINE Effects ==
      /\ entities \subseteq entities' /\ entities' \subseteq Modules
      /\ related' \in [Modules -> Nat] /\ \A e \in Modules : related'[e] >= related[e]
      /\ audited \subseteq audited' /\ audited' \subseteq Modules
      /\ flow' \in [Modules -> {"none", "governed", "ungoverned"}]
      /\ \A n \in Modules : n # m \/ hook[m] # "flow" => flow'[n] = flow[n]
      /\ entity' \in [Modules -> Modules \cup {NoModule}]
      /\ \A n \in Modules : n # m => entity'[n] = entity[n]
      /\ received \subseteq received' /\ received' \subseteq Modules \X Modules
      /\ \A d \in received' : d \in received \/ (d[1] = m /\ hook[m] = "submit")
\* ... and what holds of the module it stands at.
      Reached ==
      /\ hook'[m] \in {"relationships", "createRelationship"} => entity'[m] \in entities'
      /\ hook'[m] \in {"endpoint", "flow"} \cup Governing => flow'[m] = "none"
      /\ hook'[m] = "flow" /\ DynamicGovernance => \E e \in entities' : related'[e] > 0
      /\ hook'[m] \in {"audit", "submit", "recheck"} /\ DynamicGovernance => flow'[m] = "governed"
      /\ hook'[m] \in {"audit", "submit", "recheck"} => flow'[m] # "none"
      /\ hook'[m] = "submit" /\ settings'.audit => m \in audited'
      /\ hook'[m] = "ok" => \/ flow'[m] = "none" \/ status[m] = "FINISHED"
                            \/ \E n \in Modules : <<m, n>> \in received'
<1>8. ASSUME ExposedEndpoint(m) PROVE Effects /\ Reached
  <2>1. Effects
    BY <1>6, <1>7, <1>8 DEF ExposedEndpoint, suiteVars
  <2>2. Reached
    BY <1>6, <1>7, <1>8 DEF ExposedEndpoint, suiteVars, Governing, HookSteps, Governed
  <2>. QED  BY <2>1, <2>2
<1>9. ASSUME ExistingModuleIssuerEntity(m) PROVE Effects /\ Reached
  <2>1. Effects
    BY <1>6, <1>7, <1>9 DEF ExistingModuleIssuerEntity, suiteVars
  <2>2. Reached
    BY <1>6, <1>7, <1>9 DEF ExistingModuleIssuerEntity, suiteVars, Governing, HookSteps, Governed
  <2>. QED  BY <2>1, <2>2
<1>10. ASSUME CreateEntity(m) PROVE Effects /\ Reached
  <2>1. Effects
    BY <1>6, <1>7, <1>10 DEF CreateEntity, suiteVars
  <2>2. Reached
    BY <1>6, <1>7, <1>10 DEF CreateEntity, suiteVars, Governing, HookSteps, Governed
  <2>. QED  BY <2>1, <2>2
<1>11. ASSUME HasModuleIssuerRelationship(m) PROVE Effects /\ Reached
  <2>1. Effects
    BY <1>6, <1>7, <1>11 DEF HasModuleIssuerRelationship, suiteVars
  <2>2. Reached
    BY <1>6, <1>7, <1>11 DEF HasModuleIssuerRelationship, suiteVars, Governing, HookSteps, Governed
  <2>. QED  BY <2>1, <2>2
<1>12. ASSUME CreateRelationship(m) PROVE Effects /\ Reached
  <2>1. Effects
    BY <1>6, <1>7, <1>12 DEF CreateRelationship, suiteVars
  <2>2. Reached
    BY <1>6, <1>7, <1>12 DEF CreateRelationship, suiteVars, Governing, HookSteps, Governed
  <2>. QED  BY <2>1, <2>2
<1>13. ASSUME StartFlow(m) PROVE Effects /\ Reached
  <2>1. Effects
    BY <1>6, <1>7, <1>13 DEF StartFlow, suiteVars
  <2>2. Reached
    BY <1>6, <1>7, <1>13 DEF StartFlow, suiteVars, Governing, HookSteps, Governed
  <2>. QED  BY <2>1, <2>2
<1>14. ASSUME WritePrivateFlowAudit(m) PROVE Effects /\ Reached
  <2>1. Effects
    BY <1>6, <1>7, <1>14 DEF WritePrivateFlowAudit, suiteVars
  <2>2. Reached
    BY <1>6, <1>7, <1>14 DEF WritePrivateFlowAudit, suiteVars, Governing, HookSteps, Governed
  <2>. QED  BY <2>1, <2>2
<1>15. ASSUME SubmitToOfficialWallet(m) PROVE Effects /\ Reached
  <2>1. Effects
    BY <1>6, <1>7, <1>15 DEF SubmitToOfficialWallet, suiteVars
  <2>2. Reached
    BY <1>6, <1>7, <1>15 DEF SubmitToOfficialWallet, suiteVars, Governing, HookSteps, Governed
  <2>. QED  BY <2>1, <2>2
<1>16. ASSUME SubmissionFails(m) PROVE Effects /\ Reached
  <2>1. Effects
    BY <1>6, <1>7, <1>16 DEF SubmissionFails, suiteVars
  <2>2. Reached
    BY <1>6, <1>7, <1>16 DEF SubmissionFails, suiteVars, Governing, HookSteps, Governed
  <2>. QED  BY <2>1, <2>2
<1>17. ASSUME ModuleFinished(m) PROVE Effects /\ Reached
  <2>1. Effects
    BY <1>6, <1>7, <1>17 DEF ModuleFinished, suiteVars
  <2>2. Reached
    BY <1>6, <1>7, <1>17 DEF ModuleFinished, suiteVars, Governing, HookSteps, Governed
  <2>. QED  BY <2>1, <2>2
<1>18. ASSUME Deadline(m) PROVE Effects /\ Reached
  <2>1. Effects
    BY <1>6, <1>7, <1>18 DEF Deadline, suiteVars
  <2>2. Reached
    BY <1>6, <1>7, <1>18 DEF Deadline, suiteVars, Governing, HookSteps, Governed
  <2>. QED  BY <2>1, <2>2
<1>19. ASSUME HookFails(m) PROVE Effects /\ Reached
  <2>1. Effects
    BY <1>6, <1>7, <1>19 DEF HookFails, suiteVars
  <2>2. Reached
    BY <1>6, <1>7, <1>19 DEF HookFails, suiteVars, Governing, HookSteps, Governed
  <2>. QED  BY <2>1, <2>2
<1>20. Effects /\ Reached
  BY <1>1, <1>8, <1>9, <1>10, <1>11, <1>12, <1>13, <1>14, <1>15, <1>16, <1>17, <1>18, <1>19
<1>21. overlapped' \in BOOLEAN
  BY <1>1, <1>6
  DEF ExposedEndpoint, ExistingModuleIssuerEntity, CreateEntity, HasModuleIssuerRelationship,
      CreateRelationship, StartFlow, WritePrivateFlowAudit, SubmitToOfficialWallet, SubmissionFails,
      ModuleFinished, Deadline, HookFails
<1> HIDE DEF Actions, Goto, Answered, marty
<1>22. TypeOK'
  <2>1. SuiteTypeOK'
    BY <1>4, <1>20
  <2>2. HookTypeOK'
    BY <1>4, <1>20, <1>21 DEF HookTypeOK
  <2>. QED  BY <2>1, <2>2 DEF IInv, TypeOK, driverVars
<1>23. Governed => Governed'
  BY <1>6, <1>20 DEF Governed
<1>24. Accounted'
  <2> SUFFICES ASSUME NEW n \in Modules
               PROVE  /\ hook'[n] \in {"relationships", "createRelationship"} => entity'[n] \in entities'
                      /\ hook'[n] \in {"none", "endpoint", "flow"} \cup Governing => flow'[n] = "none"
                      /\ hook'[n] = "flow" /\ DynamicGovernance => Governed'
                      /\ hook'[n] \in {"audit", "submit", "recheck"} /\ DynamicGovernance => flow'[n] = "governed"
                      /\ hook'[n] \in {"audit", "submit", "recheck"} => flow'[n] # "none"
                      /\ hook'[n] = "submit" /\ settings'.audit => n \in audited'
    BY DEF Accounted
  <2>1. CASE n = m
    BY <1>4, <1>5, <1>20, <2>1 DEF Governed
  <2>2. CASE n # m
    <3>1. hook'[n] = hook[n] /\ flow'[n] = flow[n] /\ entity'[n] = entity[n]
      BY <1>4, <1>20, <2>2
    <3>. QED  BY <1>2, <1>20, <1>23, <3>1 DEF IInv, Accounted
  <2>. QED  BY <2>1, <2>2
<1>25. Sent'
  <2> SUFFICES ASSUME NEW d \in received'
               PROVE  /\ (settings'.audit => d[1] \in audited') /\ hook'[d[1]] # "none" /\ flow'[d[1]] # "none"
                      /\ DynamicGovernance => flow'[d[1]] = "governed"
    BY DEF Sent
  <2>1. d[1] \in Modules
    BY <1>20
  <2>2. CASE d \in received
    <3>1. /\ (settings.audit => d[1] \in audited) /\ hook[d[1]] # "none" /\ flow[d[1]] # "none"
          /\ DynamicGovernance => flow[d[1]] = "governed"
      BY <2>2 DEF IInv, Sent
    <3>2. flow'[d[1]] = flow[d[1]]
      BY <1>7, <1>20, <2>1, <3>1
    <3>. QED  BY <1>2, <1>4, <1>5, <1>20, <2>1, <3>1, <3>2
  <2>3. CASE d[1] = m /\ hook[m] = "submit"
    BY <1>2, <1>4, <1>5, <1>7, <1>20, <2>3
  <2>. QED  BY <1>20, <2>2, <2>3
<1>26. ExcusedModuleHasFinished'
  <2> SUFFICES ASSUME NEW n \in Modules, hook'[n] = "ok", flow'[n] # "none",
                      \A k \in Modules : <<n, k>> \notin received'
               PROVE  status'[n] = "FINISHED"
    BY DEF ExcusedModuleHasFinished
  <2>1. CASE n = m
    BY <1>2, <1>20, <2>1
  <2>2. CASE n # m
    <3>1. hook'[n] = hook[n] /\ flow'[n] = flow[n] /\ received \subseteq received'
      BY <1>4, <1>20, <2>2
    <3>. QED  BY <1>2, <3>1 DEF IInv, ExcusedModuleHasFinished
  <2>. QED  BY <2>1, <2>2
<1>. QED  BY <1>4, <1>22, <1>24, <1>25, <1>26 DEF IInv

-----------------------------------------------------------------------------
(* The driver. *)

\* The first line is read.
LEMMA LineRead ==
    ASSUME IInv, printed # <<>>, printed' = Tail(printed)
    PROVE  /\ Len(printed) \in Nat \ {0} /\ printed' \in Seq(Line)
           /\ Len(printed') = Len(printed) - 1
           /\ \A i \in 1..Len(printed') : printed'[i] = printed[i + 1]
           /\ \A i \in 1..Len(printed) : printed[i] \in Line /\ printed[i].module \in Modules
           /\ Head(printed) = printed[1]
<1>1. printed \in Seq(Line)
  BY DEF IInv, TypeOK, SuiteTypeOK
<1>2. \A l \in Line : l.module \in Modules
  BY DEF Line
<1>. QED  BY <1>1, <1>2

LEMMA ReadRunningIInv ==
    ASSUME IInv, ReadRunning
    PROVE  IInv'
<1> USE DEF ReadRunning, marty
<1>1. /\ Len(printed) \in Nat \ {0} /\ printed' \in Seq(Line)
      /\ Len(printed') = Len(printed) - 1
      /\ \A i \in 1..Len(printed') : printed'[i] = printed[i + 1]
      /\ \A i \in 1..Len(printed) : printed[i] \in Line /\ printed[i].module \in Modules
      /\ Head(printed) = printed[1]
  BY LineRead
<1>2. /\ printed[1].says = "running" /\ currentModule' = printed[1].module
      /\ 1 < Len(printed) /\ printed[2] = Created(printed[1].module)
  BY <1>1 DEF IInv, Paired
<1>3. SuiteTypeOK' /\ HookTypeOK'
  BY <1>1 DEF IInv, TypeOK, SuiteTypeOK, HookTypeOK, hookVars
<1>4. TypeOK'
  BY <1>1, <1>2, <1>3 DEF IInv, TypeOK
<1>5. Paired'
  <2> SUFFICES ASSUME NEW i \in 1..Len(printed')
               PROVE  /\ printed'[i].says = "running" =>
                            i < Len(printed') /\ printed'[i + 1] = Created(printed'[i].module)
                      /\ printed'[i].says = "created" =>
                            IF i = 1 THEN currentModule' = printed'[i].module
                            ELSE printed'[i - 1] = Running(printed'[i].module)
    BY DEF Paired, Created, Running
  <2>1. /\ printed[i + 1].says = "running" =>
              i + 1 < Len(printed) /\ printed[i + 2] = Created(printed[i + 1].module)
        /\ printed[i + 1].says = "created" => printed[i] = Running(printed[i + 1].module)
    BY <1>1 DEF IInv, Paired
  <2>2. printed'[i] = printed[i + 1]
    BY <1>1
  <2>3. CASE i = 1
    BY <1>1, <1>2, <2>1, <2>2, <2>3 DEF Created
  <2>4. CASE i # 1
    BY <1>1, <2>1, <2>2, <2>4
  <2>. QED  BY <2>3, <2>4
<1>6. Announced'
  <2>1. \A m \in Modules : (\E i \in 1..Len(printed) : printed[i] = Created(m)) =>
                           (\E i \in 1..Len(printed') : printed'[i] = Created(m))
    <3> SUFFICES ASSUME NEW m \in Modules, NEW i \in 1..Len(printed), printed[i] = Created(m)
                 PROVE  \E j \in 1..Len(printed') : printed'[j] = Created(m)
      OBVIOUS
    <3>1. i # 1
      BY <1>2 DEF Created
    <3>2. i - 1 \in 1..Len(printed') /\ printed'[i - 1] = Created(m)
      BY <1>1, <3>1
    <3>. QED  BY <3>2
  <2>. QED  BY <1>1, <2>1 DEF IInv, Announced, Created, hookVars
<1>7. Exported' /\ Joined'
  BY DEF IInv, Exported, Joined, hookVars
<1>8. Accounted' /\ Sent' /\ ExcusedModuleHasFinished'
  BY DEF IInv, Accounted, Governed, Sent, ExcusedModuleHasFinished, hookVars
<1>9. Judged'
  BY DEF IInv, Judged
<1>. QED  BY <1>4, <1>5, <1>6, <1>7, <1>8, <1>9 DEF IInv

LEMMA ReadCreatedIInv ==
    ASSUME IInv, ReadCreated
    PROVE  IInv'
<1> DEFINE m == printed[1].module
<1>1. /\ Len(printed) \in Nat \ {0} /\ printed' \in Seq(Line)
      /\ Len(printed') = Len(printed) - 1
      /\ \A i \in 1..Len(printed') : printed'[i] = printed[i + 1]
      /\ \A i \in 1..Len(printed) : printed[i] \in Line /\ printed[i].module \in Modules
      /\ Head(printed) = printed[1]
  BY LineRead DEF ReadCreated
<1>2. printed[1].says = "created" /\ currentModule = m /\ m \in Modules
  BY <1>1 DEF ReadCreated, IInv, Paired
<1>3. hook[m] = "none" /\ status[m] # "NONE"
  BY <1>1, <1>2 DEF IInv, Announced
<1>4. /\ \/ /\ m \notin settings.labels
            /\ hook' = [hook EXCEPT ![m] = "endpoint"] /\ hooks' = Append(hooks, m)
         \/ m \in settings.labels /\ UNCHANGED <<hook, hooks>>
      /\ driver = "reading"
      /\ UNCHANGED <<up, status, result, exposed, alias, received, selected, settings, runner,
                     position, runnerExit, exported, entity, entities, related, flow, audited,
                     overlapped, driver, currentModule, waited, hookResult, verdict>>
  BY <1>1, <1>2 DEF ReadCreated, RequiresInteractionHook, marty
<1>5. \A i \in 1..Len(printed) : printed[i] = Created(m) => i = 1
  <2>1. printed[1] = Created(m)
    BY <1>1, <1>2 DEF Line, Created
  <2>. QED  BY <1>1, <1>2, <2>1 DEF IInv, Announced
<1>6. \A i \in 1..Len(printed) : printed[i].says = "created" /\ printed[i].module = m => i = 1
  <2>1. \A l \in Line : l.says = "created" /\ l.module = m => l = Created(m)
    BY DEF Line, Created
  <2>. QED  BY <1>1, <1>5, <2>1
<1> HIDE DEF m
<1>7. hook \in [Modules -> {"none"} \cup HookSteps \cup HookExits] /\ hooks \in Seq(Modules)
  BY DEF IInv, TypeOK, HookTypeOK
<1>8. /\ hook' \in [Modules -> {"none"} \cup HookSteps \cup HookExits]
      /\ \A n \in Modules : n # m => hook'[n] = hook[n]
      /\ hook'[m] \in {"none", "endpoint"}
      /\ hook'[m] = "none" => m \in settings.labels
  BY <1>2, <1>3, <1>4, <1>7 DEF HookSteps
<1>9. /\ hooks' \in Seq(Modules) /\ Len(hooks') \in Nat /\ Len(hooks') >= Len(hooks)
      /\ \A i \in 1..Len(hooks) : hooks'[i] = hooks[i]
      /\ hook'[m] # "none" => \E i \in 1..Len(hooks') : hooks'[i] = m
  <2>1. CASE UNCHANGED <<hook, hooks>>
    BY <1>3, <1>7, <2>1
  <2>2. CASE hooks' = Append(hooks, m)
    <3>1. /\ hooks' \in Seq(Modules) /\ Len(hooks') = Len(hooks) + 1 /\ hooks'[Len(hooks) + 1] = m
          /\ \A i \in 1..Len(hooks) : hooks'[i] = hooks[i]
      BY <1>2, <1>7, <2>2, AppendProperties
    <3>. QED  BY <1>7, <3>1
  <2>. QED  BY <1>4, <2>1, <2>2
<1>10. TypeOK'
  <2>1. SuiteTypeOK' /\ HookTypeOK'
    BY <1>1, <1>4, <1>8 DEF IInv, TypeOK, SuiteTypeOK, HookTypeOK
  <2>2. waited' \in 0..Len(hooks')
    BY <1>4, <1>9 DEF IInv, Joined
  <2>. QED  BY <1>4, <1>9, <2>1, <2>2 DEF IInv, TypeOK
<1>11. Paired'
  <2> SUFFICES ASSUME NEW i \in 1..Len(printed')
               PROVE  /\ printed'[i].says = "running" =>
                            i < Len(printed') /\ printed'[i + 1] = Created(printed'[i].module)
                      /\ printed'[i].says = "created" =>
                            IF i = 1 THEN currentModule' = printed'[i].module
                            ELSE printed'[i - 1] = Running(printed'[i].module)
    BY DEF Paired, Created, Running
  <2>1. /\ printed[i + 1].says = "running" =>
              i + 1 < Len(printed) /\ printed[i + 2] = Created(printed[i + 1].module)
        /\ printed[i + 1].says = "created" => printed[i] = Running(printed[i + 1].module)
    BY <1>1 DEF IInv, Paired
  <2>2. printed'[i] = printed[i + 1]
    BY <1>1
  <2>3. CASE i = 1
    BY <1>1, <1>2, <2>1, <2>2, <2>3 DEF Running
  <2>4. CASE i # 1
    BY <1>1, <2>1, <2>2, <2>4
  <2>. QED  BY <2>3, <2>4
<1>12. Announced'
  <2>1. ASSUME NEW i \in 1..Len(printed'), NEW j \in 1..Len(printed'),
               printed'[i].says = "created", printed'[j] = printed'[i]
        PROVE  i = j
    <3>1. /\ i + 1 \in 1..Len(printed) /\ printed'[i] = printed[i + 1]
          /\ j + 1 \in 1..Len(printed) /\ printed'[j] = printed[j + 1]
      BY <1>1
    <3>2. i + 1 = j + 1
      BY <2>1, <3>1 DEF IInv, Announced
    <3>. QED  BY <3>2
  <2>2. ASSUME NEW i \in 1..Len(printed'), printed'[i].says = "created"
        PROVE  hook'[printed'[i].module] = "none" /\ status'[printed'[i].module] # "NONE"
    <3>1. i + 1 \in 1..Len(printed) /\ i + 1 # 1 /\ printed'[i] = printed[i + 1]
      BY <1>1
    <3>2. printed[i + 1].module # m /\ printed[i + 1].module \in Modules
      BY <1>1, <1>6, <2>2, <3>1
    <3>. QED  BY <1>4, <1>8, <2>2, <3>1, <3>2 DEF IInv, Announced
  <2>3. ASSUME NEW n \in Modules, status'[n] # "NONE"
        PROVE  \/ n \in settings'.labels \/ hook'[n] # "none"
               \/ \E i \in 1..Len(printed') : printed'[i] = Created(n)
    <3>1. CASE n = m
      BY <1>4, <1>8, <3>1
    <3>2. ASSUME n # m, NEW i \in 1..Len(printed), printed[i] = Created(n)
          PROVE  \E j \in 1..Len(printed') : printed'[j] = Created(n)
      <4>1. i # 1
        BY <3>2 DEF m, Created
      <4>2. i - 1 \in 1..Len(printed') /\ printed'[i - 1] = Created(n)
        BY <1>1, <3>2, <4>1
      <4>. QED  BY <4>2
    <3>. QED  BY <1>4, <1>8, <2>3, <3>1, <3>2 DEF IInv, Announced
  <2>4. \A n \in Modules : hook'[n] # "none" => n \notin settings'.labels /\ status'[n] # "NONE"
    BY <1>3, <1>4, <1>8 DEF IInv, Announced
  <2>. QED  BY <1>4, <2>1, <2>2, <2>3, <2>4 DEF Announced, Created
<1>13. Exported'
  BY <1>4 DEF IInv, Exported
<1>14. Joined'
  <2>1. waited' = 0
    BY <1>4 DEF IInv, Joined
  <2>2. ASSUME NEW n \in Modules, hook'[n] # "none"
        PROVE  \E i \in 1..Len(hooks') : hooks'[i] = n
    <3>1. CASE n = m
      BY <1>9, <2>2, <3>1
    <3>2. CASE n # m
      <4>1. PICK i \in 1..Len(hooks) : hooks[i] = n
        BY <1>8, <2>2, <3>2 DEF IInv, Joined
      <4>. QED  BY <1>7, <1>9, <4>1
    <3>. QED  BY <3>1, <3>2
  <2>. QED  BY <1>4, <2>1, <2>2 DEF Joined
<1>15. Accounted'
  <2>1. flow[m] = "none"
    BY <1>2, <1>3 DEF IInv, Accounted
  <2>. QED  BY <1>4, <1>8, <2>1 DEF IInv, Accounted, Governed
<1>16. Sent'
  BY <1>3, <1>4, <1>8 DEF IInv, Sent, TypeOK, SuiteTypeOK
<1>17. ExcusedModuleHasFinished'
  BY <1>4, <1>8 DEF IInv, ExcusedModuleHasFinished
<1>18. Judged'
  BY <1>4 DEF IInv, Judged
<1>. QED  BY <1>10, <1>11, <1>12, <1>13, <1>14, <1>15, <1>16, <1>17, <1>18 DEF IInv

\* Reading has ended: the driver waits and judges.
LEMMA DriverIInv ==
    ASSUME IInv,
           ReadEnd \/ WaitForHook \/ BeginEvidence \/ WriteEvidence \/ DriverRaises
    PROVE  IInv'
<1>1. UNCHANGED <<suiteVars, hookVars, currentModule, hooks>>
  BY DEF ReadEnd, WaitForHook, BeginEvidence, WriteEvidence, DriverRaises
<1>2. SuiteTypeOK' /\ HookTypeOK'
  BY <1>1 DEF IInv, TypeOK, SuiteTypeOK, HookTypeOK, suiteVars, hookVars
<1>3. Paired' /\ Exported' /\ Accounted' /\ Sent' /\ ExcusedModuleHasFinished'
  BY <1>1 DEF IInv, Paired, Exported, Accounted, Governed, Sent, ExcusedModuleHasFinished,
     suiteVars, hookVars
<1>4. hooks \in Seq(Modules) /\ waited \in 0..Len(hooks) /\ hookResult \in {0, 2}
  BY DEF IInv, TypeOK
<1>5. driver \in {"hooks", "evidence", "returned"} => printed = <<>> /\ runner = "exited"
  BY DEF IInv, Announced
<1>6. CASE WaitForHook
  <2>1. /\ driver' = driver /\ verdict' = verdict /\ driver = "hooks"
        /\ waited' = waited + 1 /\ waited' \in 0..Len(hooks)
        /\ hookResult' \in {0, 2}
        /\ hook[hooks[waited']] \in HookExits
        /\ hookResult' = 0 => hook[hooks[waited']] = "ok" /\ hookResult = 0
    BY <1>4, <1>6 DEF WaitForHook, HookExits
  <2>2. TypeOK'
    BY <1>1, <1>2, <2>1 DEF IInv, TypeOK
  <2>3. Announced'
    BY <1>1, <2>1 DEF IInv, Announced, suiteVars, hookVars
  <2>4. Joined'
    <3>1. \A i \in 1..waited' : i = waited' \/ i \in 1..waited
      BY <1>4, <2>1
    <3>. QED  BY <1>1, <2>1, <3>1 DEF IInv, Joined, hookVars
  <2>5. Judged'
    BY <2>1 DEF IInv, Judged
  <2>. QED  BY <1>3, <2>2, <2>3, <2>4, <2>5 DEF IInv
<1>7. CASE ReadEnd \/ BeginEvidence \/ DriverRaises
  <2>1. /\ UNCHANGED <<waited, hookResult, verdict>>
        /\ driver' \in {"hooks", "evidence", "raised"}
        /\ driver' \in {"hooks", "evidence"} => printed = <<>> /\ runner = "exited"
        /\ driver' = "evidence" => waited = Len(hooks)
        /\ driver # "returned"
    BY <1>5, <1>7 DEF ReadEnd, BeginEvidence, HooksWaited, DriverRaises
  <2>2. TypeOK'
    BY <1>1, <1>2, <2>1 DEF IInv, TypeOK
  <2>3. Announced'
    BY <1>1, <2>1 DEF IInv, Announced, suiteVars, hookVars
  <2>4. Joined'
    BY <1>1, <2>1 DEF IInv, Joined, hookVars
  <2>5. Judged'
    BY <2>1 DEF IInv, Judged
  <2>. QED  BY <1>3, <2>2, <2>3, <2>4, <2>5 DEF IInv
<1>8. CASE WriteEvidence
  <2>1. /\ UNCHANGED <<waited, hookResult>> /\ driver = "evidence" /\ driver' = "returned"
        /\ verdict' \in {"passed", "failed"}
        /\ verdict' = "passed" => hookResult = 0 /\ StrictModuleSummary /\ OfficialPlanCoverage
    BY <1>8 DEF WriteEvidence
  <2>2. TypeOK'
    BY <1>1, <1>2, <2>1 DEF IInv, TypeOK
  <2>3. Announced'
    BY <1>1, <1>5, <2>1 DEF IInv, Announced, suiteVars, hookVars
  <2>4. Joined'
    BY <1>1, <2>1 DEF IInv, Joined, hookVars
  <2>5. Judged'
    BY <1>1, <2>1 DEF Judged, StrictModuleSummary, ExpectedSkip, OfficialPlanCoverage, suiteVars
  <2>. QED  BY <1>3, <2>2, <2>3, <2>4, <2>5 DEF IInv
<1>. QED  BY <1>6, <1>7, <1>8

LEMMA NextIInv == IInv /\ [Next]_vars => IInv'
<1> SUFFICES ASSUME IInv, [Next]_vars PROVE IInv'
  OBVIOUS
<1>1. CASE SuiteSteps /\ UNCHANGED <<hookVars, driverVars>>
  BY <1>1, RunnerCreatesIInv, SuiteQuiet
<1>2. CASE \E m \in Modules : HookActs(m) \/ HookGivesUp(m)
  BY <1>2, HookIInv DEF HookActs, HookGivesUp
<1>3. CASE DriverSteps \/ DriverRaises
  BY <1>3, ReadRunningIInv, ReadCreatedIInv, DriverIInv DEF DriverSteps
<1>4. CASE UNCHANGED vars
  <2>1. SuiteTypeOK' /\ HookTypeOK'
    BY <1>4 DEF vars, suiteVars, hookVars, IInv, TypeOK, SuiteTypeOK, HookTypeOK
  <2>2. TypeOK'
    BY <1>4, <2>1 DEF vars, driverVars, IInv, TypeOK
  <2>3. Paired' /\ Announced' /\ Exported' /\ Joined'
    BY <1>4 DEF vars, suiteVars, hookVars, driverVars, IInv, Paired, Announced, Exported, Joined
  <2>4. Accounted' /\ Sent' /\ ExcusedModuleHasFinished' /\ Judged'
    BY <1>4 DEF vars, suiteVars, hookVars, driverVars, IInv, Accounted, Governed, Sent,
       ExcusedModuleHasFinished, Judged, StrictModuleSummary, ExpectedSkip
  <2>. QED  BY <2>2, <2>3, <2>4 DEF IInv
<1>. QED  BY <1>1, <1>2, <1>3, <1>4 DEF Next

LEMMA Invariance == Spec => []IInv
BY InitIInv, NextIInv, PTL DEF Spec

-----------------------------------------------------------------------------

\* Every variable keeps its type, for any plan.
THEOREM TypeCorrect == Spec => []TypeOK
<1>1. IInv => TypeOK
  BY DEF IInv
<1>. QED  BY Invariance, <1>1, PTL

\* Whatever the suite received was governed, was recorded where the run has a
\* directory for it, and was for a module whose label no declaration names,
\* whichever hooks overlapped and whatever they lost (start_flow,
\* write_private_flow_audit, requires_interaction_hook).
THEOREM DeliveryCorrect == Spec => []DeliveredIsAccountable
<1>1. IInv => DeliveredIsAccountable
  BY DEF IInv, Sent, Announced, DeliveredIsAccountable, TypeOK, SuiteTypeOK
<1>. QED  BY Invariance, <1>1, PTL

\* A driver that returned has joined every hook it started (cmd_run).
THEOREM ReturnCorrect == Spec => []ReturnLeavesNoHook
<1>1. IInv => ReturnLeavesNoHook
  <2> SUFFICES ASSUME IInv, driver = "returned", NEW m \in Modules
               PROVE  hook[m] \notin HookSteps
    BY DEF ReturnLeavesNoHook
  <2>1. hook[m] # "none" => hook[m] \in HookExits
    BY DEF IInv, Joined
  <2>. QED  BY <2>1 DEF HookSteps, HookExits, Governing
<1>. QED  BY Invariance, <1>1, PTL

\* Only a module that had finished excuses a hook that could not submit
\* (oidf_marty_verifier.py, main).
THEOREM ExcuseCorrect == Spec => []ExcusedModuleHasFinished
<1>1. IInv => ExcusedModuleHasFinished
  BY DEF IInv
<1>. QED  BY Invariance, <1>1, PTL

\* Evidence that says "passed" stands for every module of the plan, and for a
\* hook that succeeded wherever one was needed (write_evidence).
THEOREM PassCorrect == Spec => []PassedIsComplete
<1>1. IInv => PassedIsComplete
  <2> SUFFICES ASSUME IInv, verdict = "passed", NEW m \in Modules
               PROVE  /\ status[m] = "FINISHED"
                      /\ result[m] = "PASSED" \/ (result[m] = "SKIPPED" /\ m \in settings.names)
                      /\ m \notin settings.labels => hook[m] = "ok"
    BY DEF PassedIsComplete
  <2>1. /\ driver = "returned" /\ hookResult = 0 /\ StrictModuleSummary
        /\ {x.module : x \in exported} = Modules
    BY DEF IInv, Judged
  <2>2. PICK x \in exported : x.module = m
    BY <2>1
  <2>3. x.status = "FINISHED" /\ (x.result = "PASSED" \/ (x.result = "SKIPPED" /\ m \in settings.names))
    BY <2>1, <2>2 DEF StrictModuleSummary, ExpectedSkip
  <2>4. status[m] = "FINISHED" /\ result[m] = x.result
    BY <2>2, <2>3 DEF IInv, Exported
  <2>5. m \notin settings.labels => hook[m] # "none"
    BY <2>1, <2>4 DEF IInv, Announced
  <2>6. hook[m] # "none" => hook[m] = "ok"
    BY <2>1 DEF IInv, Joined
  <2>. QED  BY <2>3, <2>4, <2>5, <2>6
<1>. QED  BY Invariance, <1>1, PTL

-----------------------------------------------------------------------------
(* Find or create.  Without an overlap one hook at a time is between what it *)
(* has not found and what it creates, and what it has not found is not there. *)

OneEntity == \A e, f \in entities : e = f
Lone ==
    ~ overlapped =>
        /\ OneEntity
        /\ \A m, n \in Modules : hook[m] = "createEntity" /\ hook[n] = "createEntity" => m = n
        /\ \A m \in Modules : hook[m] = "createEntity" => entities = {}
        /\ \A e \in Modules : related[e] <= 1
        /\ \A m, n \in Modules : hook[m] = "createRelationship" /\ hook[n] = "createRelationship" => m = n
        /\ \A m \in Modules : hook[m] = "createRelationship" => related[entity[m]] = 0

\* A step in which nobody comes to create anything, and nothing is created.
LEMMA LoneStays ==
    ASSUME Lone, UNCHANGED <<entities, related, entity, overlapped>>,
           \A n \in Modules : hook'[n] \in {"createEntity", "createRelationship"} => hook'[n] = hook[n]
    PROVE  Lone'
BY DEF Lone, OneEntity

LEMMA NextLone == IInv /\ Lone /\ [Next]_vars => Lone'
<1> SUFFICES ASSUME IInv, Lone, [Next]_vars PROVE Lone'
  OBVIOUS
<1>1. /\ hook \in [Modules -> {"none"} \cup HookSteps \cup HookExits]
      /\ entity \in [Modules -> Modules \cup {NoModule}] /\ entities \subseteq Modules
      /\ related \in [Modules -> Nat] /\ overlapped \in BOOLEAN
  BY DEF IInv, TypeOK, HookTypeOK
<1>2. ASSUME NEW m \in Modules, ExistingModuleIssuerEntity(m) PROVE Lone'
  <2> SUFFICES ASSUME ~ overlapped' PROVE Lone'
    BY DEF Lone
  <2>1. /\ ~ overlapped /\ \A n \in Modules \ {m} : hook[n] # "createEntity"
        /\ hook[m] = "entities" /\ UNCHANGED <<entities, related>>
    BY <1>2 DEF ExistingModuleIssuerEntity
  <2>2. /\ \A n \in Modules \ {m} : hook'[n] = hook[n] /\ entity'[n] = entity[n]
        /\ hook'[m] # "createRelationship"
        /\ hook'[m] = "createEntity" => entities = {}
    BY <1>1, <1>2 DEF ExistingModuleIssuerEntity, Goto
  <2>. QED  BY <2>1, <2>2 DEF Lone, OneEntity
<1>3. ASSUME NEW m \in Modules, CreateEntity(m) PROVE Lone'
  <2> SUFFICES ASSUME ~ overlapped' PROVE Lone'
    BY DEF Lone
  <2>1. /\ ~ overlapped /\ hook[m] = "createEntity" /\ entities' = entities \cup {m} /\ UNCHANGED related
    BY <1>3 DEF CreateEntity
  <2>2. /\ \A n \in Modules \ {m} : hook'[n] = hook[n] /\ entity'[n] = entity[n]
        /\ hook'[m] \notin {"createEntity", "createRelationship"}
    BY <1>1, <1>3 DEF CreateEntity, Goto, Answered
  <2>3. entities' = {m} /\ \A n \in Modules \ {m} : hook[n] # "createEntity"
    BY <2>1 DEF Lone
  <2>. QED  BY <2>1, <2>2, <2>3 DEF Lone, OneEntity
<1>4. ASSUME NEW m \in Modules, HasModuleIssuerRelationship(m) PROVE Lone'
  <2> SUFFICES ASSUME ~ overlapped' PROVE Lone'
    BY DEF Lone
  <2>1. /\ ~ overlapped /\ \A n \in Modules \ {m} : hook[n] # "createRelationship"
        /\ hook[m] = "relationships" /\ UNCHANGED <<entities, related, entity>>
    BY <1>4 DEF HasModuleIssuerRelationship
  <2>2. /\ \A n \in Modules \ {m} : hook'[n] = hook[n]
        /\ hook'[m] # "createEntity"
        /\ hook'[m] = "createRelationship" => related[entity[m]] = 0
    BY <1>1, <1>4 DEF HasModuleIssuerRelationship, Goto
  <2>. QED  BY <2>1, <2>2 DEF Lone, OneEntity
<1>5. ASSUME NEW m \in Modules, CreateRelationship(m) PROVE Lone'
  <2> SUFFICES ASSUME ~ overlapped' PROVE Lone'
    BY DEF Lone
  <2>1. /\ ~ overlapped /\ hook[m] = "createRelationship" /\ UNCHANGED <<entities, entity>>
        /\ related' = [related EXCEPT ![entity[m]] = @ + 1]
    BY <1>5 DEF CreateRelationship
  <2>2. /\ \A n \in Modules \ {m} : hook'[n] = hook[n]
        /\ hook'[m] \notin {"createEntity", "createRelationship"}
    BY <1>1, <1>5 DEF CreateRelationship, Goto, Answered
  <2>3. related[entity[m]] = 0 /\ \A n \in Modules \ {m} : hook[n] # "createRelationship"
    BY <2>1 DEF Lone
  <2>4. \A e \in Modules : related'[e] <= 1
    BY <1>1, <2>1, <2>3 DEF Lone
  <2>. QED  BY <2>1, <2>2, <2>3, <2>4 DEF Lone, OneEntity
<1>6. ASSUME NEW m \in Modules,
             \/ ExposedEndpoint(m) \/ StartFlow(m) \/ WritePrivateFlowAudit(m) \/ SubmitToOfficialWallet(m)
             \/ SubmissionFails(m) \/ ModuleFinished(m) \/ Deadline(m) \/ HookFails(m)
      PROVE  Lone'
  <2>1. UNCHANGED <<entities, related, entity, overlapped>>
    BY <1>6 DEF ExposedEndpoint, StartFlow, WritePrivateFlowAudit, SubmitToOfficialWallet, SubmissionFails,
                ModuleFinished, Deadline, HookFails, marty
  <2>2. PICK next \in {"entities", "flow", "audit", "submit", "recheck", "ok", "failed"} : Goto(m, next)
    BY <1>6 DEF ExposedEndpoint, StartFlow, WritePrivateFlowAudit, SubmitToOfficialWallet, SubmissionFails,
                ModuleFinished, Deadline, HookFails, Answered
  <2>3. \A n \in Modules : hook'[n] = hook[n] \/ hook'[n] \notin {"createEntity", "createRelationship"}
    BY <1>1, <2>2 DEF Goto
  <2>. QED  BY <2>1, <2>3, LoneStays
<1>7. CASE DriverSteps
  <2>1. UNCHANGED <<entities, related, entity, overlapped>>
    BY <1>7 DEF DriverSteps, ReadRunning, ReadCreated, ReadEnd, WaitForHook, BeginEvidence, WriteEvidence,
                hookVars, marty
  <2>2. UNCHANGED hook \/ \E m \in Modules : hook' = [hook EXCEPT ![m] = "endpoint"]
    BY <1>1, <1>7 DEF DriverSteps, ReadRunning, ReadCreated, ReadEnd, WaitForHook, BeginEvidence, WriteEvidence,
                hookVars
  <2>3. \A n \in Modules : hook'[n] = hook[n] \/ hook'[n] = "endpoint"
    BY <1>1, <2>2
  <2>. QED  BY <2>1, <2>3, LoneStays
<1>8. CASE UNCHANGED hookVars
  BY <1>8, LoneStays DEF hookVars
<1>. QED
  BY <1>2, <1>3, <1>4, <1>5, <1>6, <1>7, <1>8
  DEF Next, HookActs, HookRuns, HookGivesUp, DriverRaises, vars

\* Without an overlap of two hooks Marty has at most one entity for the issuer
\* and one relationship of it (existing_module_issuer_entity, find or create).
THEOREM OverlapCorrect == Spec => []OverlapIsTheOnlyWindow
<1>1. Init => Lone
  BY DEF Init, HookInit, Lone, OneEntity
<1>2. IInv /\ Lone => OverlapIsTheOnlyWindow
  <2> SUFFICES ASSUME IInv, Lone, ~ overlapped
               PROVE  ~ (Cardinality(entities) > 1) /\ ~ \E e \in Modules : related[e] > 1
    BY DEF OverlapIsTheOnlyWindow
  <2>1. related \in [Modules -> Nat] /\ \A e \in Modules : related[e] <= 1
    BY DEF IInv, TypeOK, HookTypeOK, Lone
  <2>2. CASE entities = {}
    BY <2>1, <2>2, FS_EmptySet
  <2>3. CASE entities # {}
    <3>1. PICK e \in entities : entities = {e}
      BY <2>3 DEF Lone, OneEntity
    <3>2. Cardinality({e}) = 1
      BY FS_Singleton
    <3>. QED  BY <2>1, <3>1, <3>2
  <2>. QED  BY <2>2, <2>3
<1>. QED  BY <1>1, <1>2, NextLone, Invariance, PTL DEF Spec

-----------------------------------------------------------------------------
(* The end of a run.  What fairness adds to it stays with RunEnds.          *)

\* The runner works on one module at a time, which it was asked to run.
OneAtATime ==
    /\ \A m \in Modules : status[m] # "NONE" => m \in selected
    /\ \A m \in Modules : status[m] = "RUNNING" => position <= Len(Plan) /\ Plan[position] = m
    /\ runner = "exited" => position > Len(Plan) \/ ~up

\* What the runner has still to do: to start a module, to see it end, to move on.
Turns(m) == CASE status[m] = "NONE" -> 2 [] status[m] = "RUNNING" -> 1 [] OTHER -> 0
RunnerLeft ==
    IF runner = "exited" THEN 0
    ELSE 1 + 3 * (Len(Plan) + 1 - position)
           + (IF position <= Len(Plan) THEN Turns(Plan[position]) ELSE 0)

DriverLeft == CASE driver = "reading" -> 3 [] driver = "hooks" -> 2
                [] driver = "evidence" -> 1 [] OTHER -> 0

\* A module that starts prints two lines, and a line may start a hook.
Work == 5 * RunnerLeft + 2 * Len(printed) + (Len(hooks) - waited) + DriverLeft

HookLeft(m) ==
    CASE hook[m] = "none"               -> 11
      [] hook[m] = "endpoint"           -> 10
      [] hook[m] = "entities"           -> 9
      [] hook[m] = "createEntity"       -> 8
      [] hook[m] = "relationships"      -> 7
      [] hook[m] = "createRelationship" -> 6
      [] hook[m] = "flow"               -> 5
      [] hook[m] = "audit"              -> 4
      [] hook[m] = "submit"             -> 3
      [] hook[m] = "recheck"            -> 2
      [] OTHER                          -> 1

\* Every step of the runner, of a module that ends and of the driver leaves less
\* for them to do; every step of a hook leaves less for that hook; and nobody
\* makes more work for another.
WorkCountsDown ==
    [][/\ Work' <= Work
       /\ SuiteProgress /\ UNCHANGED <<hookVars, driverVars>> => Work' < Work
       /\ DriverSteps \/ DriverRaises => Work' < Work
       /\ \A m \in Modules : /\ HookLeft(m)' <= HookLeft(m)
                             /\ HookActs(m) \/ HookGivesUp(m) => HookLeft(m)' < HookLeft(m)]_vars

LEMMA NextOneAtATime == IInv /\ OneAtATime /\ [Next]_vars => OneAtATime'
<1> SUFFICES ASSUME IInv, OneAtATime, [Next]_vars PROVE OneAtATime'
  OBVIOUS
<1>1. /\ position \in 1..(Len(Plan) + 1) /\ status \in [Modules -> Statuses] /\ Len(Plan) \in Nat
      /\ runner \in {"running", "exited"} /\ up \in BOOLEAN
      /\ \A i \in 1..Len(Plan) : Plan[i] \in Modules
  BY SuiteAssumption, LenProperties DEF IInv, TypeOK, SuiteTypeOK, Modules
<1>2. CASE RunnerCreates
  BY <1>1, <1>2 DEF OneAtATime, RunnerCreates, Statuses
<1>3. CASE RunnerMovesOn
  <2>1. /\ position' = position + 1 /\ position <= Len(Plan) /\ runner = "running"
        /\ status' = status /\ selected' = selected /\ runner' = runner /\ up' = up
        /\ Plan[position] \notin selected \/ Ended(Plan[position])
    BY <1>3 DEF RunnerMovesOn
  <2>2. status[Plan[position]] # "RUNNING"
    BY <1>1, <2>1 DEF OneAtATime, Ended
  <2>3. \A m \in Modules : status[m] # "RUNNING"
    BY <2>2 DEF OneAtATime
  <2>. QED  BY <2>1, <2>3 DEF OneAtATime
<1>4. CASE RunnerExits
  BY <1>4 DEF OneAtATime, RunnerExits
<1>5. CASE SuiteFalls
  BY <1>5 DEF OneAtATime, SuiteFalls
<1>6. ASSUME NEW n \in Modules, SuiteEnds(n) PROVE OneAtATime'
  BY <1>1, <1>6 DEF OneAtATime, SuiteEnds, Statuses
<1>7. CASE UNCHANGED <<up, status, selected, runner, position>>
  BY <1>7 DEF OneAtATime
<1>8. ASSUME NEW n \in Modules, SuiteExposes(n) PROVE OneAtATime'
  BY <1>7, <1>8 DEF SuiteExposes
<1>9. ASSUME NEW m \in Modules, HookActs(m) \/ HookGivesUp(m) PROVE OneAtATime'
  BY <1>7, <1>9 DEF HookActs, HookGivesUp, HookRuns, Deadline, HookFails, ExposedEndpoint,
     ExistingModuleIssuerEntity, CreateEntity, HasModuleIssuerRelationship, CreateRelationship,
     StartFlow, WritePrivateFlowAudit, SubmitToOfficialWallet, SubmissionFails, ModuleFinished, suiteVars
<1>10. CASE DriverSteps \/ DriverRaises
  BY <1>7, <1>10 DEF DriverSteps, DriverRaises, ReadRunning, ReadCreated, ReadEnd, WaitForHook,
     BeginEvidence, WriteEvidence, suiteVars
<1>11. CASE UNCHANGED vars
  BY <1>7, <1>11 DEF vars, suiteVars
<1>. QED  BY <1>2, <1>3, <1>4, <1>5, <1>6, <1>8, <1>9, <1>10, <1>11 DEF Next, SuiteSteps

LEMMA OneAtATimeHolds == Spec => []OneAtATime
<1>1. Init => OneAtATime
  BY DEF Init, SuiteInit, OneAtATime
<1>. QED  BY <1>1, NextOneAtATime, Invariance, PTL DEF Spec

\* The parts of Work.
LEMMA WorkNat ==
  ASSUME IInv
  PROVE  /\ RunnerLeft \in Nat /\ DriverLeft \in 0..3
         /\ Len(printed) \in Nat /\ Len(hooks) \in Nat /\ waited \in 0..Len(hooks)
         /\ Work \in Nat
<1>1. /\ position \in 1..(Len(Plan) + 1) /\ Len(Plan) \in Nat
      /\ Len(printed) \in Nat /\ Len(hooks) \in Nat /\ waited \in 0..Len(hooks)
  BY SuiteAssumption, LenProperties DEF IInv, TypeOK, SuiteTypeOK
<1>2. \A m : Turns(m) \in 0..2
  BY DEF Turns
<1>3. DriverLeft \in 0..3
  BY DEF DriverLeft
<1>4. RunnerLeft \in Nat
  <2> DEFINE own == IF position <= Len(Plan) THEN Turns(Plan[position]) ELSE 0
  <2>1. own \in 0..2
    BY <1>2
  <2>2. RunnerLeft = IF runner = "exited" THEN 0 ELSE 1 + 3 * (Len(Plan) + 1 - position) + own
    BY DEF RunnerLeft
  <2> HIDE DEF own
  <2>. QED  BY <1>1, <2>1, <2>2
<1>. QED  BY <1>1, <1>3, <1>4 DEF Work

\* A module that starts is announced with two lines.
LEMMA PrintedGrows ==
  ASSUME IInv, RunnerCreates PROVE Len(printed') = Len(printed) + 2
<1> DEFINE m == Plan[position]
           two == <<Running(m), Created(m)>>
<1>1. m \in Modules /\ printed' = printed \o two
  BY DEF RunnerCreates, Modules, IInv, TypeOK, SuiteTypeOK, Running, Created
<1>2. printed \in Seq(Line)
  BY DEF IInv, TypeOK, SuiteTypeOK
<1> HIDE DEF m
<1>3. two \in Seq(Line) /\ Len(two) = 2
  BY <1>1 DEF Running, Created, Line
<1> HIDE DEF two
<1>4. Len(printed \o two) = Len(printed) + Len(two)
  BY <1>2, <1>3, ConcatProperties, Zenon
<1>. QED  BY <1>1, <1>3, <1>4

\* Each actor's own measure.
LEMMA SuiteWorks ==
  ASSUME IInv, IInv', OneAtATime, SuiteProgress, UNCHANGED <<hookVars, driverVars>>
  PROVE  Work' < Work
<1>1. /\ position \in 1..(Len(Plan) + 1) /\ status \in [Modules -> Statuses] /\ Len(Plan) \in Nat
      /\ runner \in {"running", "exited"} /\ up \in BOOLEAN
      /\ \A i \in 1..Len(Plan) : Plan[i] \in Modules
  BY SuiteAssumption, LenProperties DEF IInv, TypeOK, SuiteTypeOK, Modules
<1>2. \A m : Turns(m) \in 0..2 /\ Turns(m)' \in 0..2
  BY DEF Turns
<1>3. /\ RunnerLeft \in Nat /\ Len(printed) \in Nat /\ Len(hooks) \in Nat /\ waited \in 0..Len(hooks)
      /\ DriverLeft \in 0..3
  BY WorkNat
<1>4. hooks' = hooks /\ waited' = waited /\ DriverLeft' = DriverLeft
  BY DEF driverVars, DriverLeft
<1>5. CASE RunnerCreates
  <2>1. /\ position \in 1..Len(Plan) /\ position' = position /\ runner = "running" /\ runner' = runner
        /\ status[Plan[position]] = "NONE" /\ status' = [status EXCEPT ![Plan[position]] = "RUNNING"]
    BY <1>1, <1>5 DEF RunnerCreates
  <2>2. Turns(Plan[position]) = 2 /\ Turns(Plan[position])' = 1
    BY <1>1, <2>1 DEF Turns
  <2>3. RunnerLeft' = RunnerLeft - 1
    BY <1>1, <2>1, <2>2 DEF RunnerLeft
  <2>4. Len(printed') = Len(printed) + 2
    BY <1>5, PrintedGrows
  <2>5. RunnerLeft' \in Nat
    BY <1>1, <2>1, <2>2 DEF RunnerLeft
  <2>. QED  BY <1>3, <1>4, <2>3, <2>4, <2>5 DEF Work
<1>6. CASE RunnerMovesOn
  <2>1. /\ position \in 1..Len(Plan) /\ position' = position + 1 /\ runner = "running" /\ runner' = runner
        /\ printed' = printed
    BY <1>1, <1>6 DEF RunnerMovesOn
  <2>2. RunnerLeft' \in Nat /\ RunnerLeft' < RunnerLeft
    BY <1>1, <1>2, <2>1 DEF RunnerLeft
  <2>. QED  BY <1>3, <1>4, <2>1, <2>2 DEF Work
<1>7. CASE RunnerExits
  <2>1. runner = "running" /\ runner' = "exited" /\ printed' = printed
    BY <1>7 DEF RunnerExits
  <2>2. RunnerLeft' = 0 /\ RunnerLeft > 0
    BY <1>1, <1>2, <2>1 DEF RunnerLeft
  <2>. QED  BY <1>3, <1>4, <2>1, <2>2 DEF Work
<1>8. ASSUME NEW m \in Modules, SuiteEnds(m) PROVE Work' < Work
  <2>1. /\ up /\ status[m] = "RUNNING" /\ status'[m] \in {"FINISHED", "INTERRUPTED"}
        /\ position' = position /\ runner' = runner /\ printed' = printed
    BY <1>1, <1>8 DEF SuiteEnds
  <2>2. position \in 1..Len(Plan) /\ Plan[position] = m /\ runner = "running"
    BY <1>1, <2>1 DEF OneAtATime
  <2>3. Turns(m) = 1 /\ Turns(m)' = 0
    BY <2>1 DEF Turns
  <2>4. RunnerLeft' = RunnerLeft - 1 /\ RunnerLeft' \in Nat
    BY <1>1, <2>1, <2>2, <2>3 DEF RunnerLeft
  <2>. QED  BY <1>3, <1>4, <2>1, <2>4 DEF Work
<1>. QED  BY <1>5, <1>6, <1>7, <1>8 DEF SuiteProgress

LEMMA DriverWorks ==
  ASSUME IInv, IInv', DriverSteps \/ DriverRaises PROVE Work' < Work
<1>1. /\ RunnerLeft \in Nat /\ Len(printed) \in Nat /\ Len(hooks) \in Nat /\ waited \in 0..Len(hooks)
      /\ DriverLeft \in 0..3
  BY WorkNat
<1>2. RunnerLeft' = RunnerLeft
  <2>1. UNCHANGED <<runner, position, status>>
    BY DEF DriverSteps, DriverRaises, ReadRunning, ReadCreated, ReadEnd, WaitForHook, BeginEvidence,
           WriteEvidence, suiteVars
  <2>. QED  BY <2>1 DEF RunnerLeft, Turns
<1>3. CASE ReadRunning
  <2>1. printed # <<>> /\ printed' = Tail(printed) /\ hooks' = hooks /\ waited' = waited /\ driver' = driver
    BY <1>3 DEF ReadRunning
  <2>2. Len(printed') = Len(printed) - 1
    BY <2>1, LineRead
  <2>3. DriverLeft' = DriverLeft
    BY <2>1 DEF DriverLeft
  <2>. QED  BY <1>1, <1>2, <2>1, <2>2, <2>3 DEF Work
<1>4. CASE ReadCreated
  <2>1. printed # <<>> /\ printed' = Tail(printed) /\ waited' = waited /\ driver' = driver
    BY <1>4 DEF ReadCreated
  <2>2. Len(printed') = Len(printed) - 1
    BY <2>1, LineRead
  <2>3. DriverLeft' = DriverLeft
    BY <2>1 DEF DriverLeft
  <2>4. Len(hooks') <= Len(hooks) + 1 /\ Len(hooks') \in Nat
    <3>1. hooks \in Seq(Modules) /\ Head(printed).module \in Modules
      BY <2>1, LineRead DEF IInv, TypeOK, SuiteTypeOK, Line
    <3>2. hooks' = hooks \/ hooks' = Append(hooks, Head(printed).module)
      BY <1>4 DEF ReadCreated
    <3>. QED  BY <1>1, <3>1, <3>2, AppendProperties
  <2>. QED  BY <1>1, <1>2, <2>1, <2>2, <2>3, <2>4 DEF Work
<1>5. CASE ReadEnd
  <2>1. printed' = printed /\ hooks' = hooks /\ waited' = waited
    BY <1>5 DEF ReadEnd, suiteVars
  <2>2. DriverLeft = 3 /\ DriverLeft' = 2
    BY <1>5 DEF ReadEnd, DriverLeft
  <2>. QED  BY <1>1, <1>2, <2>1, <2>2 DEF Work
<1>6. CASE WaitForHook
  <2>1. printed' = printed /\ hooks' = hooks /\ waited' = waited + 1 /\ driver' = driver
    BY <1>6 DEF WaitForHook, suiteVars
  <2>2. DriverLeft' = DriverLeft
    BY <2>1 DEF DriverLeft
  <2>. QED  BY <1>1, <1>2, <2>1, <2>2 DEF Work
<1>7. CASE BeginEvidence
  <2>1. printed' = printed /\ hooks' = hooks /\ waited' = waited
    BY <1>7 DEF BeginEvidence, suiteVars
  <2>2. DriverLeft = 2 /\ DriverLeft' = 1
    BY <1>7 DEF BeginEvidence, DriverLeft
  <2>. QED  BY <1>1, <1>2, <2>1, <2>2 DEF Work
<1>8. CASE WriteEvidence
  <2>1. printed' = printed /\ hooks' = hooks /\ waited' = waited
    BY <1>8 DEF WriteEvidence, suiteVars
  <2>2. DriverLeft = 1 /\ DriverLeft' = 0
    BY <1>8 DEF WriteEvidence, DriverLeft
  <2>. QED  BY <1>1, <1>2, <2>1, <2>2 DEF Work
<1>9. CASE DriverRaises
  <2>1. printed' = printed /\ hooks' = hooks /\ waited' = waited
    BY <1>9 DEF DriverRaises, suiteVars
  <2>2. DriverLeft > 0 /\ DriverLeft' = 0
    BY <1>9 DEF DriverRaises, DriverLeft
  <2>. QED  BY <1>1, <1>2, <2>1, <2>2 DEF Work
<1>. QED  BY <1>3, <1>4, <1>5, <1>6, <1>7, <1>8, <1>9 DEF DriverSteps

\* What the driver counts is not touched by a hook, nor by a suite that falls or
\* a module that exposes its endpoint.
LEMMA WorkUntouched ==
  ASSUME UNCHANGED <<runner, position, status, printed, hooks, waited, driver>> PROVE Work' = Work
BY DEF Work, RunnerLeft, Turns, DriverLeft

LEMMA HookWorks ==
  ASSUME IInv, NEW m \in Modules, HookActs(m) \/ HookGivesUp(m)
  PROVE  /\ HookLeft(m)' < HookLeft(m)
         /\ \A n \in Modules \ {m} : hook'[n] = hook[n]
         /\ UNCHANGED <<runner, position, status, printed, hooks, waited, driver>>
<1>1. hook \in [Modules -> {"none"} \cup HookSteps \cup HookExits]
  BY DEF IInv, TypeOK, HookTypeOK
<1>2. UNCHANGED <<runner, position, status, printed, hooks, waited, driver>>
  BY DEF HookActs, HookGivesUp, HookRuns, Deadline, HookFails, ExposedEndpoint,
     ExistingModuleIssuerEntity, CreateEntity, HasModuleIssuerRelationship, CreateRelationship,
     StartFlow, WritePrivateFlowAudit, SubmitToOfficialWallet, SubmissionFails, ModuleFinished,
     suiteVars, driverVars
<1>3. PICK to : hook' = [hook EXCEPT ![m] = to] /\
        \/ hook[m] = "endpoint" /\ to \in {"entities", "flow", "ok"}
        \/ hook[m] = "entities" /\ to \in {"createEntity", "relationships"}
        \/ hook[m] = "createEntity" /\ to = "relationships"
        \/ hook[m] = "relationships" /\ to \in {"createRelationship", "flow"}
        \/ hook[m] = "createRelationship" /\ to = "flow"
        \/ hook[m] = "flow" /\ to = "audit"
        \/ hook[m] = "audit" /\ to = "submit"
        \/ hook[m] = "submit" /\ to \in {"ok", "recheck"}
        \/ hook[m] = "recheck" /\ to = "ok"
        \/ hook[m] \in HookSteps /\ to = "failed"
  BY DEF HookActs, HookGivesUp, HookRuns, Deadline, HookFails, ExposedEndpoint,
     ExistingModuleIssuerEntity, CreateEntity, HasModuleIssuerRelationship, CreateRelationship,
     StartFlow, WritePrivateFlowAudit, SubmitToOfficialWallet, SubmissionFails, ModuleFinished,
     Goto, Answered, HookSteps, Governing
<1>4. hook'[m] = to /\ \A n \in Modules \ {m} : hook'[n] = hook[n]
  BY <1>1, <1>3
<1>5. HookLeft(m)' < HookLeft(m)
  BY <1>3, <1>4 DEF HookLeft, HookSteps, Governing
<1>. QED  BY <1>2, <1>4, <1>5

\* A hook is started once: it had not been started before.
LEMMA StartedOnce ==
  ASSUME IInv, ReadCreated, NEW n \in Modules
  PROVE  \/ hook'[n] = hook[n]
         \/ hook[n] = "none" /\ hook'[n] = "endpoint"
<1>1. hook \in [Modules -> {"none"} \cup HookSteps \cup HookExits]
  BY DEF IInv, TypeOK, HookTypeOK
<1>2. printed # <<>> /\ Head(printed).says = "created"
  BY DEF ReadCreated
<1>3. hook[Head(printed).module] = "none"
  <2>1. 1 \in 1..Len(printed) /\ Head(printed) = printed[1]
    BY <1>2, LineRead
  <2>. QED  BY <1>2, <2>1 DEF IInv, Announced
<1> DEFINE h == Head(printed).module
<1>4. hook' = [hook EXCEPT ![h] = "endpoint"] \/ hook' = hook
  BY DEF ReadCreated
<1>5. hook[h] = "none"
  BY <1>3
<1> HIDE DEF h
<1>6. CASE n = h
  BY <1>1, <1>4, <1>5, <1>6
<1>7. CASE n # h
  BY <1>1, <1>4, <1>7
<1>. QED  BY <1>6, <1>7

\* A run takes a bounded number of steps of its own, for any plan, whatever goes
\* down under it and whichever hooks overlap: cmd_run, lines 940-1000.  Only the
\* deadline of a hook is needed for one that would poll for ever.
THEOREM EndsInBoundedSteps == Spec => WorkCountsDown /\ [](Work \in Nat)
<1>1. IInv => Work \in Nat
  BY WorkNat
<1>2. IInv' => (Work \in Nat)'
  BY <1>1, PTL
<1>3. ASSUME IInv, IInv', OneAtATime, Next
      PROVE  /\ Work' <= Work
             /\ SuiteProgress /\ UNCHANGED <<hookVars, driverVars>> => Work' < Work
             /\ DriverSteps \/ DriverRaises => Work' < Work
             /\ \A m \in Modules : /\ HookLeft(m)' <= HookLeft(m)
                                   /\ HookActs(m) \/ HookGivesUp(m) => HookLeft(m)' < HookLeft(m)
  <2>1. Work \in Nat /\ Work' \in Nat /\ \A m : HookLeft(m) \in Nat
    BY <1>1, <1>2, <1>3 DEF HookLeft
  <2>2. SuiteProgress /\ UNCHANGED <<hookVars, driverVars>> => Work' < Work
    BY <1>3, SuiteWorks
  <2>3. DriverSteps \/ DriverRaises => Work' < Work
    BY <1>3, DriverWorks
  <2>4. \A m \in Modules : HookActs(m) \/ HookGivesUp(m) => HookLeft(m)' < HookLeft(m)
    BY <1>3, HookWorks
  <2>5. \A n : hook'[n] = hook[n] => HookLeft(n)' = HookLeft(n)
    BY DEF HookLeft
  <2>6. CASE SuiteSteps /\ UNCHANGED <<hookVars, driverVars>>
    <3>1. UNCHANGED <<hook, hooks, waited, driver>>
      BY <2>6 DEF hookVars, driverVars
    <3>2. SuiteProgress \/ UNCHANGED <<runner, position, status, printed>>
      BY <2>6 DEF SuiteSteps, SuiteProgress, SuiteFalls, SuiteExposes
    <3>3. Work' <= Work
      BY <2>1, <2>2, <2>6, <3>1, <3>2, WorkUntouched
    <3>. QED  BY <2>1, <2>2, <2>3, <2>4, <2>5, <3>1, <3>3
  <2>7. ASSUME NEW m \in Modules, HookActs(m) \/ HookGivesUp(m)
        PROVE  Work' <= Work /\ \A n \in Modules : HookLeft(n)' <= HookLeft(n)
    <3>1. /\ HookLeft(m)' < HookLeft(m)
          /\ \A n \in Modules \ {m} : hook'[n] = hook[n]
          /\ UNCHANGED <<runner, position, status, printed, hooks, waited, driver>>
      BY <1>3, <2>7, HookWorks
    <3>2. Work' = Work
      BY <3>1, WorkUntouched
    <3>3. \A n : HookLeft(n)' \in Nat
      BY DEF HookLeft
    <3>. QED  BY <2>1, <2>5, <3>1, <3>2, <3>3
  <2>8. CASE DriverSteps \/ DriverRaises
    <3>1. Work' <= Work
      BY <2>1, <2>3, <2>8
    <3>2. ReadCreated \/ hook' = hook
      BY <2>8 DEF DriverSteps, DriverRaises, ReadRunning, ReadEnd, WaitForHook, BeginEvidence,
                  WriteEvidence, hookVars
    <3>3. ASSUME NEW n \in Modules PROVE HookLeft(n)' <= HookLeft(n)
      <4>1. \/ hook'[n] = hook[n]
            \/ hook[n] = "none" /\ hook'[n] = "endpoint"
        BY <1>3, <3>2, StartedOnce
      <4>. QED  BY <2>1, <4>1 DEF HookLeft
    <3>. QED  BY <2>2, <2>3, <2>4, <3>1, <3>3
  <2>. QED  BY <1>3, <2>2, <2>3, <2>4, <2>6, <2>7, <2>8 DEF Next
<1>4. IInv /\ IInv' /\ OneAtATime /\ [Next]_vars =>
        [/\ Work' <= Work
         /\ SuiteProgress /\ UNCHANGED <<hookVars, driverVars>> => Work' < Work
         /\ DriverSteps \/ DriverRaises => Work' < Work
         /\ \A m \in Modules : /\ HookLeft(m)' <= HookLeft(m)
                               /\ HookActs(m) \/ HookGivesUp(m) => HookLeft(m)' < HookLeft(m)]_vars
  BY <1>3
<1>. QED  BY <1>1, <1>4, Invariance, OneAtATimeHolds, PTL DEF Spec, WorkCountsDown
=============================================================================

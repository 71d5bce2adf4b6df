---------------------------- MODULE VerifierHook ----------------------------
(***************************************************************************)
(* scripts/oidf_marty_verifier.py and its flow command, oidf_marty_start_  *)
(* verification.py: one process for each module the driver saw created.    *)
(* Hooks of different modules overlap. Before it starts a flow a hook      *)
(* makes sure that the module's issuer is governed: an issuer entity, and  *)
(* its relationship with the trust profile. All modules of a plan have the *)
(* same issuer, the address behind the shared alias.                       *)
(***************************************************************************)
EXTENDS OfficialSuite, FiniteSets

CONSTANT DynamicGovernance   \* OIDF_MARTY_DYNAMIC_ISSUER_GOVERNANCE = 1

ASSUME HookAssumption == DynamicGovernance \in BOOLEAN

VARIABLES
    hook,       \* what the hook of a module does next, or how it exited
    entity,     \* the issuer entity a hook uses
    entities,   \* Marty: issuer entities of the issuer, named by their creator
    related,    \* Marty: relationships of an entity with the trust profile
    flow,       \* Marty: the flow a hook started; governed when it started?
    audited,    \* hooks whose flow is recorded in the audit directory
    overlapped  \* observation only: a hook looked for entities while another
                \* was about to create what it did not find

hookVars == <<hook, entity, entities, related, flow, audited, overlapped>>

Governing == {"entities", "createEntity", "relationships", "createRelationship"}
HookSteps == {"endpoint", "flow", "audit", "submit", "recheck"} \cup Governing
HookExits == {"ok", "failed"}

HookTypeOK ==
    /\ hook \in [Modules -> {"none"} \cup HookSteps \cup HookExits]
    /\ entity \in [Modules -> Modules \cup {NoModule}]
    /\ entities \subseteq Modules
    /\ related \in [Modules -> Nat]
    /\ flow \in [Modules -> {"none", "governed", "ungoverned"}]
    /\ audited \subseteq Modules
    /\ overlapped \in BOOLEAN

HookInit ==
    /\ hook = [m \in Modules |-> "none"]
    /\ entity = [m \in Modules |-> NoModule]
    /\ entities = {}
    /\ related = [m \in Modules |-> 0]
    /\ flow = [m \in Modules |-> "none"]
    /\ audited = {}
    /\ overlapped = FALSE

Goto(m, step) == hook' = [hook EXCEPT ![m] = step]
\* A POST that took effect; its answer may be lost.
Answered(m, step) == Goto(m, step) \/ Goto(m, "failed")
marty == <<entity, entities, related, flow, audited, overlapped>>

-----------------------------------------------------------------------------
(* wait_for_exposed_authorization_endpoint: an endpoint, even of a module  *)
(* that has ended since, before the status. Answers other than 200 are     *)
(* polled again until the deadline.                                        *)

ExposedEndpoint(m) ==
    /\ hook[m] = "endpoint" /\ up
    /\ \/ m \in exposed /\ Goto(m, IF DynamicGovernance THEN "entities" ELSE "flow")
       \/ m \notin exposed /\ Ended(m) /\ Goto(m, "ok")
    /\ UNCHANGED <<suiteVars, marty>>

\* Mutant: there is no deadline.
DeadlineNever(m) == FALSE /\ UNCHANGED <<hookVars, suiteVars>>

Deadline(m) ==
    /\ hook[m] = "endpoint"
    /\ Goto(m, "failed")
    /\ UNCHANGED <<suiteVars, marty>>

-----------------------------------------------------------------------------
(* govern_official_module_issuer. *)

\* Mutant: an entity is created whatever the list says.
ExistingModuleIssuerEntityIgnored(m) ==
    /\ hook[m] = "entities"
    /\ Goto(m, "createEntity")
    /\ overlapped' = (overlapped \/ \E n \in Modules \ {m} : hook[n] = "createEntity")
    /\ UNCHANGED <<suiteVars, entity, entities, related, flow, audited>>

ExistingModuleIssuerEntity(m) ==
    /\ hook[m] = "entities"
    /\ \/ entities = {} /\ Goto(m, "createEntity") /\ UNCHANGED entity
       \/ /\ Cardinality(entities) = 1
          /\ \E e \in entities : entity' = [entity EXCEPT ![m] = e]
          /\ Goto(m, "relationships")
       \/ Cardinality(entities) > 1 /\ Goto(m, "failed") /\ UNCHANGED entity
    /\ overlapped' = (overlapped \/ \E n \in Modules \ {m} : hook[n] = "createEntity")
    /\ UNCHANGED <<suiteVars, entities, related, flow, audited>>

CreateEntity(m) ==
    /\ hook[m] = "createEntity"
    /\ entities' = entities \cup {m}
    /\ entity' = [entity EXCEPT ![m] = m]
    /\ Answered(m, "relationships")
    /\ UNCHANGED <<suiteVars, related, flow, audited, overlapped>>

\* Mutant: an entity that exists is taken to be related.
ModuleIssuerRelationshipAssumed(m) ==
    /\ hook[m] = "relationships"
    /\ Goto(m, IF entity[m] # m THEN "flow" ELSE "createRelationship")
    /\ UNCHANGED <<suiteVars, marty>>

HasModuleIssuerRelationship(m) ==
    /\ hook[m] = "relationships"
    /\ Goto(m, CASE related[entity[m]] = 0 -> "createRelationship"
                 [] related[entity[m]] = 1 -> "flow"
                 [] OTHER -> "failed")
    /\ overlapped' = (overlapped \/ \E n \in Modules \ {m} : hook[n] = "createRelationship")
    /\ UNCHANGED <<suiteVars, entity, entities, related, flow, audited>>

CreateRelationship(m) ==
    /\ hook[m] = "createRelationship"
    /\ related' = [related EXCEPT ![entity[m]] = @ + 1]
    /\ Answered(m, "flow")
    /\ UNCHANGED <<suiteVars, entity, entities, flow, audited, overlapped>>

-----------------------------------------------------------------------------
(* The flow, its audit record, and the request to the official wallet.     *)

Governed == \E e \in entities : related[e] > 0

StartFlow(m) ==
    /\ hook[m] = "flow"
    /\ flow' = [flow EXCEPT ![m] = IF Governed THEN "governed" ELSE "ungoverned"]
    /\ Answered(m, "audit")
    /\ UNCHANGED <<suiteVars, entity, entities, related, audited, overlapped>>

\* Mutant: the record is best effort.
WritePrivateFlowAuditBestEffort(m) ==
    /\ hook[m] = "audit"
    /\ audited' \in {audited, audited \cup {m}}
    /\ Goto(m, "submit")
    /\ UNCHANGED <<suiteVars, entity, entities, related, flow, overlapped>>

\* Only a run that was given a directory, as the lanes are, records anything.
WritePrivateFlowAudit(m) ==
    /\ hook[m] = "audit"
    /\ audited' = IF settings.audit THEN audited \cup {m} ELSE audited
    /\ Goto(m, "submit")
    /\ UNCHANGED <<suiteVars, entity, entities, related, flow, overlapped>>

\* The request goes to the endpoint the hook was given at the start.
SubmitToOfficialWallet(m) ==
    /\ hook[m] = "submit" /\ up
    /\ alias # NoModule
    /\ IF status[alias] = "RUNNING" /\ alias \in exposed
       THEN received' = received \cup {<<m, alias>>} /\ Goto(m, "ok")
       ELSE Goto(m, "recheck") /\ UNCHANGED received
    /\ UNCHANGED <<up, status, result, exposed, alias, selected, settings, runner, position, runnerExit,
                   printed, exported, marty>>

SubmissionFails(m) ==
    /\ hook[m] = "submit"
    /\ Goto(m, "recheck")
    /\ UNCHANGED <<suiteVars, marty>>

\* Mutant: a failed submission is reconciled with any module.
ModuleFinishedAssumed(m) == hook[m] = "recheck" /\ Goto(m, "ok") /\ UNCHANGED <<suiteVars, marty>>

\* Only a module that finished excuses a failed submission.
ModuleFinished(m) ==
    /\ hook[m] = "recheck"
    /\ Goto(m, IF up /\ status[m] = "FINISHED" THEN "ok" ELSE "failed")
    /\ UNCHANGED <<suiteVars, marty>>

\* A request fails or answers something else than expected.
HookFails(m) ==
    /\ hook[m] \in HookSteps
    /\ Goto(m, "failed")
    /\ UNCHANGED <<suiteVars, marty>>

HookRuns(m) ==
    \/ ExposedEndpoint(m) \/ ExistingModuleIssuerEntity(m) \/ CreateEntity(m)
    \/ HasModuleIssuerRelationship(m) \/ CreateRelationship(m) \/ StartFlow(m)
    \/ WritePrivateFlowAudit(m) \/ SubmitToOfficialWallet(m) \/ SubmissionFails(m)
    \/ ModuleFinished(m)
=============================================================================

--------------------------- MODULE ConformanceRun ---------------------------
(***************************************************************************)
(* scripts/oidf_conformance.py, cmd_run: the driver reads the output of    *)
(* the official runner, starts a hook for every module that is created,    *)
(* waits for the runner and then for the hooks, and writes the evidence    *)
(* that says whether the run qualifies.                                    *)
(***************************************************************************)
EXTENDS VerifierHook

VARIABLES
    driver,        \* what the driver does next, or how it ended
    currentModule,
    hooks,         \* the hooks it started, in order
    waited,        \* how many of them it has waited for
    hookResult,
    verdict        \* evidence.json: "none", "passed" or "failed"

driverVars == <<driver, currentModule, hooks, waited, hookResult, verdict>>
vars == <<suiteVars, hookVars, driverVars>>

TypeOK ==
    /\ SuiteTypeOK /\ HookTypeOK
    /\ driver \in {"reading", "hooks", "evidence", "returned", "raised"}
    /\ currentModule \in Modules \cup {NoModule}
    /\ hooks \in Seq(Modules)
    /\ waited \in 0..Len(hooks)
    /\ hookResult \in {0, 2}
    /\ verdict \in {"none", "passed", "failed"}

Init ==
    /\ SuiteInit /\ HookInit
    /\ driver = "reading"
    /\ currentModule = NoModule
    /\ hooks = <<>>
    /\ waited = 0
    /\ hookResult = 0
    /\ verdict = "none"

-----------------------------------------------------------------------------
\* Mutant: every module gets a hook.
RequiresInteractionHookAlways(m) == TRUE
\* The label the runner prints, its variant included, is compared as it is.
RequiresInteractionHook(m) == m \notin settings.labels

ReadRunning ==
    /\ driver = "reading" /\ printed # <<>>
    /\ Head(printed).says = "running"
    /\ currentModule' = Head(printed).module
    /\ printed' = Tail(printed)
    /\ UNCHANGED <<up, status, result, exposed, alias, received, selected, settings, runner, position,
                   runnerExit, exported, hookVars, driver, hooks, waited, hookResult, verdict>>

\* The hook is a process of its own from here on.
ReadCreated ==
    /\ driver = "reading" /\ printed # <<>>
    /\ Head(printed).says = "created"
    /\ printed' = Tail(printed)
    /\ IF RequiresInteractionHook(currentModule)
       THEN /\ hook' = [hook EXCEPT ![Head(printed).module] = "endpoint"]
            /\ hooks' = Append(hooks, Head(printed).module)
       ELSE UNCHANGED <<hook, hooks>>
    /\ UNCHANGED <<up, status, result, exposed, alias, received, selected, settings, runner, position,
                   runnerExit, exported, marty, driver, currentModule, waited, hookResult, verdict>>

ReadEnd ==
    /\ driver = "reading" /\ printed = <<>> /\ runner = "exited"
    /\ driver' = "hooks"
    /\ UNCHANGED <<suiteVars, hookVars, currentModule, hooks, waited, hookResult, verdict>>

\* Mutant: the result of the last hook is the result of all.
WaitForHookLast ==
    /\ driver = "hooks" /\ waited < Len(hooks)
    /\ hook[hooks[waited + 1]] \in HookExits
    /\ hookResult' = IF hook[hooks[waited + 1]] = "failed" THEN 2 ELSE 0
    /\ waited' = waited + 1
    /\ UNCHANGED <<suiteVars, hookVars, driver, currentModule, hooks, verdict>>

\* hook.wait() or hook_result: a hook that failed exited with 2.
WaitForHook ==
    /\ driver = "hooks" /\ waited < Len(hooks)
    /\ hook[hooks[waited + 1]] \in HookExits
    /\ hookResult' = IF hook[hooks[waited + 1]] = "failed" THEN 2 ELSE hookResult
    /\ waited' = waited + 1
    /\ UNCHANGED <<suiteVars, hookVars, driver, currentModule, hooks, verdict>>

\* Mutant: hooks are not waited for when the runner failed.
HooksWaitedIfRunnerPassed == waited = Len(hooks) \/ runnerExit # 0
HooksWaited == waited = Len(hooks)

\* Everything is waited for, and the runner checkout is still clean.
BeginEvidence ==
    /\ driver = "hooks" /\ HooksWaited
    /\ driver' = "evidence"
    /\ UNCHANGED <<suiteVars, hookVars, currentModule, hooks, waited, hookResult, verdict>>

\* The exported name, without the variant, is matched as a pattern.
ExpectedSkip(x) == x.result = "SKIPPED" /\ x.module \in settings.names

\* Mutant: a module may be left for review.
StrictModuleSummaryLenient ==
    /\ \E x \in exported : x.result = "PASSED"
    /\ \A x \in exported : x.status = "FINISHED" /\ x.result # "FAILED"

\* Mutant: any skip is accepted.
StrictModuleSummaryAnySkip ==
    /\ \E x \in exported : x.result = "PASSED"
    /\ \A x \in exported : x.status = "FINISHED" /\ x.result \in {"PASSED", "SKIPPED"}

\* The exported modules: no interrupted, failed or review-only result.
StrictModuleSummary ==
    /\ \E x \in exported : x.result = "PASSED"
    /\ \A x \in exported : x.status = "FINISHED" /\ (x.result = "PASSED" \/ ExpectedSkip(x))

\* Mutant: what is exported is enough.
OfficialPlanCoverageOffline == exported # {}

\* The live plan, if the suite still answers: every module is exported.
OfficialPlanCoverage == up /\ {x.module : x \in exported} = Modules

WriteEvidence ==
    /\ driver = "evidence"
    /\ verdict' = IF runnerExit = 0 /\ hookResult = 0 /\ StrictModuleSummary /\ OfficialPlanCoverage
                  THEN "passed" ELSE "failed"
    /\ driver' = "returned"
    /\ UNCHANGED <<suiteVars, hookVars, currentModule, hooks, waited, hookResult>>

\* A process cannot be started, the checkout changed, an archive cannot be read.
DriverRaises ==
    /\ driver \in {"reading", "hooks", "evidence"}
    /\ driver' = "raised"
    /\ UNCHANGED <<suiteVars, hookVars, currentModule, hooks, waited, hookResult, verdict>>

DriverSteps ==
    ReadRunning \/ ReadCreated \/ ReadEnd \/ WaitForHook \/ BeginEvidence \/ WriteEvidence

HookActs(m) == HookRuns(m) /\ UNCHANGED driverVars
HookGivesUp(m) == (Deadline(m) \/ HookFails(m)) /\ UNCHANGED driverVars

Next ==
    \/ SuiteSteps /\ UNCHANGED <<hookVars, driverVars>>
    \/ \E m \in Modules : HookActs(m) \/ HookGivesUp(m)
    \/ DriverSteps \/ DriverRaises

Spec == Init /\ [][Next]_vars

\* Processes run; a hook that polls has a deadline; requests are answered or
\* fail within their timeouts, and so do the modules of the suite.
FairSpec ==
    /\ Spec
    /\ WF_vars(SuiteProgress /\ UNCHANGED <<hookVars, driverVars>>)
    /\ WF_vars(DriverSteps)
    /\ \A m \in Modules : WF_vars(HookActs(m) \/ (Deadline(m) /\ UNCHANGED driverVars))

-----------------------------------------------------------------------------
(* Properties. *)

\* Evidence that says "passed": every module of the plan, run or not, finished
\* with an accepted result, and every module had a hook that exited with 0
\* unless its label is declared, whatever its name matches.
PassedIsComplete ==
    verdict = "passed" =>
        \A m \in Modules :
            /\ status[m] = "FINISHED"
            /\ result[m] = "PASSED" \/ (result[m] = "SKIPPED" /\ m \in settings.names)
            /\ m \notin settings.labels => hook[m] = "ok"

\* A driver that returned leaves no hook behind that could still act on a
\* module, on Marty or in the output directory.
ReturnLeavesNoHook ==
    driver = "returned" => \A m \in Modules : hook[m] \notin HookSteps

\* Whatever a module of the suite received comes from a flow that is recorded,
\* where the run has a directory for it, that was started after its issuer was
\* governed, and for a module whose label is not declared as a skip - also from
\* a hook that goes on after the driver raised.
DeliveredIsAccountable ==
    \A d \in received :
        /\ settings.audit => d[1] \in audited
        /\ d[1] \notin settings.labels
        /\ DynamicGovernance => flow[d[1]] = "governed"

\* An issuer entity, or its relationship, is duplicated only by two hooks one
\* of which looked while the other was about to create.
OverlapIsTheOnlyWindow ==
    Cardinality(entities) > 1 \/ (\E e \in Modules : related[e] > 1) => overlapped

\* A hook that failed to submit and says it is fine was late for a module that
\* had finished, not for one that still waits.
ExcusedModuleHasFinished ==
    \A m \in Modules :
        hook[m] = "ok" /\ flow[m] # "none" /\ (\A n \in Modules : <<m, n>> \notin received)
            => status[m] = "FINISHED"

\* The run ends, whatever ends, hangs or goes down under it.
RunEnds == <>(driver \in {"returned", "raised"})

\* oidf_marty_start_verification.py:214: "Create one exact issuer entity and
\* relationship before starting a flow."
OneIssuerEntity == Cardinality(entities) <= 1
=============================================================================

---------------------------- MODULE BoundaryLane ----------------------------
(***************************************************************************)
(* scripts/public_boundary_lane.py: the repository's own security lane.    *)
(* It has Marty alone brought up (SuiteCompose), a trust registry beside   *)
(* it, signs in twice, runs pytest, and writes a summary before it takes   *)
(* everything down.                                                        *)
(***************************************************************************)
EXTENDS SuiteCompose

VARIABLES
    boundary,            \* what the lane does next
    registry,            \* the containers of the trust registry's project
    registryAttempted,
    registryStuck,       \* Docker failed to remove them
    policy,              \* the directory with the sender's custody exists
    required,            \* DIDCOMM_INDEPENDENT_VERIFIER_REQUIRED
    junit,               \* pytest.xml: is it of this run, and how did the DIDComm test end
    exitCode,            \* of pytest, and so of the lane
    summary,             \* summary.json: "none", "passed" or "failed"
    claimed,             \* it says that the other implementation decrypted
    cutShort             \* where an exception left the lane before its last command

boundaryVars == <<boundary, registry, registryAttempted, registryStuck, policy, required, junit,
                  exitCode, summary, claimed, cutShort>>
processVars == <<registry, registryAttempted, registryStuck, junit, exitCode, summary, claimed>>

BoundaryTypeOK ==
    /\ SuiteTypeOK
    /\ boundary \in {"prepare", "policy", "up", "starting", "wait", "registryUp", "sessions", "pytest", "summary",
                     "registryLogs", "registryDown", "logs", "reading", "down", "stopping", "ended"}
    /\ registry \in {"absent", "partial", "up"}
    /\ {registryAttempted, registryStuck, policy, required, claimed} \subseteq BOOLEAN
    /\ junit \in [own : BOOLEAN, didcomm : {"none", "passed", "skipped", "failed"}]
    /\ exitCode \in {"zero", "nonzero"}
    /\ summary \in {"none", "passed", "failed"}
    /\ cutShort \in {"no", "start", "summary", "registry", "logs"}

\* boundary_compose_command: Marty alone, by the launcher that environment has seen.
BoundarySuite == [f \in Flags |-> f = "launcher"]

\* The output directory may hold the pytest.xml of an earlier run.
BoundaryFresh ==
    /\ boundary = "prepare"
    /\ registry = "absent" /\ registryAttempted = FALSE /\ registryStuck = FALSE
    /\ policy = FALSE
    /\ exitCode = "nonzero" /\ summary = "none" /\ claimed = FALSE
    /\ cutShort = "no"

InitBoundary ==
    /\ SuiteInit /\ suite = BoundarySuite
    /\ project["marty"] = "absent"
    /\ BoundaryFresh
    /\ required \in BOOLEAN
    /\ \E d \in {"none", "passed", "failed"} : junit = [own |-> FALSE, didcomm |-> d]

-----------------------------------------------------------------------------
BoundaryGoto(l) == boundary' = l /\ UNCHANGED <<policy, required, cutShort>>

\* The exception leaves the lane, and the context manager of execute.
Leave(where) ==
    /\ boundary' = "ended" /\ cutShort' = where
    /\ policy' = FALSE
    /\ UNCHANGED required

\* execute makes the directory, environment reads what the lane is given.
Prepare ==
    /\ boundary = "prepare"
    /\ \/ boundary' = "policy" /\ policy' = TRUE /\ UNCHANGED <<required, cutShort>>
       \/ Leave("start")
    /\ UNCHANGED <<suiteVars, processVars>>

\* The empty policy is there before the issuance container starts.
InitializeDidcommPolicy ==
    /\ boundary = "policy"
    /\ BoundaryGoto("up") \/ Leave("start")
    /\ UNCHANGED <<suiteVars, processVars>>

BoundaryUp ==
    /\ boundary = "up"
    /\ Call("up", FALSE)
    /\ BoundaryGoto("starting")
    /\ UNCHANGED processVars

\* The first command is outside of the `try'.
BoundaryUpRaises ==
    /\ boundary = "up"
    /\ Leave("start")
    /\ UNCHANGED <<suiteVars, processVars>>

\* Mutant: what "up" answers is not looked at.
StartedAlways == TRUE
Started == code = "zero"

BoundaryUpReturns ==
    /\ boundary = "starting" /\ compose = "ended"
    /\ BoundaryGoto(IF Started THEN "wait" ELSE "summary")
    /\ UNCHANGED <<suiteVars, processVars>>

WaitForPublicStack ==
    /\ boundary = "wait"
    /\ BoundaryGoto("registryUp") \/ BoundaryGoto("summary")
    /\ UNCHANGED <<suiteVars, processVars>>

\* The registry is a project of its own on a network of Marty's.
RegistryUp ==
    /\ boundary = "registryUp"
    /\ registryAttempted' = TRUE
    /\ \/ project["marty"] # "absent" /\ registry' = "up" /\ BoundaryGoto("sessions")
       \/ registry' \in {registry, "partial"} /\ BoundaryGoto("summary")
    /\ UNCHANGED <<suiteVars, registryStuck, junit, exitCode, summary, claimed>>

\* trust_registry_control_url, and two public_sessions.
PublicSessions ==
    /\ boundary = "sessions"
    /\ BoundaryGoto("pytest") \/ BoundaryGoto("summary")
    /\ UNCHANGED <<suiteVars, processVars>>

\* pytest answers zero also when it skipped the DIDComm tests; it may end
\* without a pytest.xml, and the diagnostic of a failure may raise.
Pytest ==
    /\ boundary = "pytest"
    /\ \E zero \in BOOLEAN, d \in {"passed", "skipped", "failed"} :
          /\ zero => d # "failed"
          /\ exitCode' = IF zero THEN "zero" ELSE "nonzero"
          /\ junit' \in {[own |-> TRUE, didcomm |-> d]} \cup (IF zero THEN {} ELSE {junit})
    /\ BoundaryGoto("summary")
    /\ UNCHANGED <<suiteVars, registry, registryAttempted, registryStuck, summary, claimed>>

\* Mutant: a test that is in the file has passed.
DidcommTestFound(d) == d \in {"passed", "skipped"}
\* didcomm_test_passed: executed, and neither failed nor skipped.
DidcommTestPassed(d) == d = "passed"

\* Mutant: after a failed or finished run the clean-up goes straight to Marty and
\* forgets the registry, whether it was attempted or not.
WriteSummaryTolerant ==
    /\ boundary = "summary"
    /\ summary' = IF exitCode = "zero" THEN "passed" ELSE "failed"
    /\ claimed' = (required /\ DidcommTestPassed(junit.didcomm))
    /\ BoundaryGoto("logs")
    /\ UNCHANGED <<suiteVars, registry, registryAttempted, registryStuck, junit, exitCode>>
\* The first thing in the `finally'; when it raises, the rest is skipped.
WriteSummary ==
    /\ boundary = "summary"
    /\ \/ /\ summary' = IF exitCode = "zero" THEN "passed" ELSE "failed"
          /\ claimed' = (required /\ DidcommTestPassed(junit.didcomm))
          /\ BoundaryGoto(IF registryAttempted THEN "registryLogs" ELSE "logs")
       \/ UNCHANGED <<summary, claimed>> /\ Leave("summary")
    /\ UNCHANGED <<suiteVars, registry, registryAttempted, registryStuck, junit, exitCode>>

\* Reading the logs changes nothing; writing or showing them may raise.
RegistryLogs ==
    /\ boundary = "registryLogs"
    /\ BoundaryGoto("registryDown") \/ Leave("registry")
    /\ UNCHANGED <<suiteVars, processVars>>

\* Nobody looks at what this answers.
RegistryDown ==
    /\ boundary = "registryDown"
    /\ \/ registry' = "absent" /\ UNCHANGED registryStuck
       \/ registry' \in {registry, IF registry = "absent" THEN "absent" ELSE "partial"} /\ registryStuck' = TRUE
    /\ BoundaryGoto("logs")
    /\ UNCHANGED <<suiteVars, registryAttempted, junit, exitCode, summary, claimed>>

BoundaryLogs ==
    /\ boundary = "logs"
    /\ Call("logs", FALSE)
    /\ BoundaryGoto("reading")
    /\ UNCHANGED processVars

BoundaryLogsReturn ==
    /\ boundary = "reading" /\ compose = "ended"
    /\ BoundaryGoto("down") \/ Leave("logs")
    /\ UNCHANGED <<suiteVars, processVars>>

BoundaryDown ==
    /\ boundary = "down"
    /\ Call("down", FALSE)
    /\ BoundaryGoto("stopping")
    /\ UNCHANGED processVars

BoundaryDownReturns ==
    /\ boundary = "stopping" /\ compose = "ended"
    /\ Leave("no")
    /\ UNCHANGED <<suiteVars, processVars>>

BoundaryStep ==
    \/ Prepare \/ InitializeDidcommPolicy \/ BoundaryUp \/ BoundaryUpRaises \/ BoundaryUpReturns \/ WaitForPublicStack
    \/ RegistryUp \/ PublicSessions \/ Pytest \/ WriteSummary
    \/ RegistryLogs \/ RegistryDown \/ BoundaryLogs \/ BoundaryLogsReturn
    \/ BoundaryDown \/ BoundaryDownReturns

NextBoundary ==
    \/ BoundaryStep
    \/ ComposeNext /\ UNCHANGED boundaryVars
    \/ MaterialGoes /\ UNCHANGED boundaryVars

SpecBoundary == InitBoundary /\ [][NextBoundary]_<<suiteVars, boundaryVars>>

-----------------------------------------------------------------------------
\* The tests run beside Marty and the registry, with the sender's custody in
\* place; a summary that says passed is of a pytest of this run, and what it
\* then claims of the other DIDComm implementation was executed by it and not
\* read from the file of an earlier run (the order of
\* _execute_with_didcomm_policy, write_summary, didcomm_test_passed).
BoundaryEvidenceIsOwn ==
    /\ boundary = "pytest" => project["marty"] = "up" /\ registry = "up" /\ policy
    /\ summary = "passed" =>
          /\ junit.own
          /\ claimed => required /\ junit.didcomm = "passed"

\* A lane that ended has removed the sender's custody, and the registry and
\* Marty unless Docker failed or an exception left it in the `finally': then
\* whatever came after that line is still there.
BoundaryLeavesNothing ==
    boundary = "ended" =>
        /\ ~policy
        /\ registry = "absent" \/ registryStuck \/ cutShort \in {"summary", "registry"}
        /\ \/ project["marty"] = "absent" \/ "marty" \in stuck
           \/ cutShort # "no" \/ code = "raised"
=============================================================================

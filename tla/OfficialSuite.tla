---------------------------- MODULE OfficialSuite ----------------------------
(***************************************************************************)
(* The official OIDF conformance suite and its runner (run-test-plan.py),  *)
(* which are not part of the repository: what oidf_conformance.py and      *)
(* oidf_marty_verifier.py see of them. The runner works through the        *)
(* modules of a plan one by one and prints a line when it starts a module  *)
(* and when the module has an instance. A module may expose an             *)
(* authorization endpoint, the same for every module of the plan because   *)
(* their configuration has one alias: a request to it reaches the module   *)
(* that took the alias last.                                               *)
(***************************************************************************)
EXTENDS Naturals, Sequences

CONSTANTS Plan,           \* the modules of the selected plan, in order
          Settings,       \* what a run may be given
          NoModule

Modules == {Plan[i] : i \in 1..Len(Plan)}

ASSUME SuiteAssumption ==
    /\ Plan \in Seq(Modules)
    /\ \A i, j \in 1..Len(Plan) : Plan[i] = Plan[j] => i = j
    /\ Settings \subseteq [labels : SUBSET Modules, names : SUBSET Modules, audit : BOOLEAN]
    /\ NoModule \notin Modules

VARIABLES
    up,          \* the suite answers
    status,      \* status of every module
    result,      \* its result, once it has ended
    exposed,     \* modules that exposed their authorization endpoint
    alias,       \* the module the shared endpoint belongs to
    received,    \* pairs: the hook that sent a request, the module that took it
    selected,    \* modules the runner was asked to run (--rerun)
    settings,    \* of the run: the modules whose label, with its variant, is
                 \* declared in expected-skips.json; those whose name matches a
                 \* declaration; and is there a directory for flow audits?
    runner, position, runnerExit,
    printed,     \* lines of the runner that the driver has not read
    exported     \* rows of the exported result archives

suiteVars == <<up, status, result, exposed, alias, received, selected, settings, runner,
               position, runnerExit, printed, exported>>

Statuses == {"NONE", "RUNNING", "FINISHED", "INTERRUPTED"}
Results == {"PASSED", "FAILED", "REVIEW", "SKIPPED"}
Ended(m) == status[m] \in {"FINISHED", "INTERRUPTED"}
Line == [says : {"running", "created"}, module : Modules]

SuiteTypeOK ==
    /\ up \in BOOLEAN
    /\ status \in [Modules -> Statuses]
    /\ result \in [Modules -> Results \cup {"UNKNOWN"}]
    /\ exposed \subseteq Modules
    /\ alias \in Modules \cup {NoModule}
    /\ received \subseteq Modules \X Modules
    /\ selected \subseteq Modules
    /\ settings \in Settings
    /\ runner \in {"running", "exited"}
    /\ position \in 1..(Len(Plan) + 1)
    /\ runnerExit \in 0..1
    /\ printed \in Seq(Line)
    /\ exported \subseteq [module : Modules, status : Statuses, result : Results \cup {"UNKNOWN"}]

SuiteInit ==
    /\ up = TRUE
    /\ status = [m \in Modules |-> "NONE"]
    /\ result = [m \in Modules |-> "UNKNOWN"]
    /\ exposed = {}
    /\ alias = NoModule
    /\ received = {}
    /\ selected \in SUBSET Modules
    /\ settings \in Settings
    /\ runner = "running"
    /\ position = 1
    /\ runnerExit = 0
    /\ printed = <<>>
    /\ exported = {}

-----------------------------------------------------------------------------
RunnerCreates ==
    /\ runner = "running" /\ up /\ position <= Len(Plan)
    /\ LET m == Plan[position] IN
          /\ m \in selected /\ status[m] = "NONE"
          /\ status' = [status EXCEPT ![m] = "RUNNING"]
          /\ alias' = m
          /\ printed' = printed \o <<[says |-> "running", module |-> m],
                                     [says |-> "created", module |-> m]>>
    /\ UNCHANGED <<up, result, exposed, received, selected, settings, runner, position, runnerExit, exported>>

RunnerMovesOn ==
    /\ runner = "running" /\ position <= Len(Plan)
    /\ LET m == Plan[position] IN m \notin selected \/ Ended(m)
    /\ position' = position + 1
    /\ UNCHANGED <<up, status, result, exposed, alias, received, selected, settings, runner, runnerExit,
                   printed, exported>>

\* The runner ends after the last module, or gives up before it. Its exit code
\* says nothing of results it was told to accept or leaves for review.
RunnerExits ==
    /\ runner = "running"
    /\ position > Len(Plan) \/ ~up
    /\ runner' = "exited"
    /\ runnerExit' \in 0..1
    /\ \E S \in SUBSET {m \in Modules : status[m] # "NONE"} :
          exported' = {[module |-> m, status |-> status[m], result |-> result[m]] : m \in S}
    /\ UNCHANGED <<up, status, result, exposed, alias, received, selected, settings, position, printed>>

SuiteExposes(m) ==
    /\ up /\ status[m] = "RUNNING" /\ m \notin exposed
    /\ exposed' = exposed \cup {m}
    /\ UNCHANGED <<up, status, result, alias, received, selected, settings, runner, position, runnerExit,
                   printed, exported>>

\* A module ends by itself, after a request or without one.
SuiteEnds(m) ==
    /\ up /\ status[m] = "RUNNING"
    /\ \/ /\ status' = [status EXCEPT ![m] = "FINISHED"]
          /\ \E r \in Results : result' = [result EXCEPT ![m] = r]
       \/ /\ status' = [status EXCEPT ![m] = "INTERRUPTED"]
          /\ UNCHANGED result
    /\ UNCHANGED <<up, exposed, alias, received, selected, settings, runner, position, runnerExit,
                   printed, exported>>

SuiteFalls ==
    /\ up
    /\ up' = FALSE
    /\ UNCHANGED <<status, result, exposed, alias, received, selected, settings, runner, position, runnerExit,
                   printed, exported>>

SuiteSteps ==
    \/ RunnerCreates \/ RunnerMovesOn \/ RunnerExits \/ SuiteFalls
    \/ \E m \in Modules : SuiteExposes(m) \/ SuiteEnds(m)

\* The runner's modules end: the suite has timeouts of its own.
SuiteProgress ==
    RunnerCreates \/ RunnerMovesOn \/ RunnerExits \/ \E m \in Modules : SuiteEnds(m)
=============================================================================

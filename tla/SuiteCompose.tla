---------------------------- MODULE SuiteCompose ----------------------------
(***************************************************************************)
(* scripts/official_suite_compose.py: one process that starts, reads or    *)
(* removes the Compose projects of a run - Marty, the OIDF runner and the  *)
(* EUDI reference services - through one launcher for each.  The projects  *)
(* meet on a network, the bridge, that belongs to Marty's project.         *)
(*                                                                         *)
(* Spec lets an operator call it again and again for one selection;        *)
(* OfficialLane calls it from the lanes instead.                           *)
(***************************************************************************)
EXTENDS Naturals, Sequences, SequencesExt

CONSTANTS
    Suites,         \* the selections a caller may have made for its run
    MaterialMayGo   \* may the generated TLS material be deleted meanwhile?

Projects == {"marty", "oidf", "eudi"}
Others == Projects \ {"marty"}
\* "runner" and "launcher" say that the checkouts on the command line are there.
Flags == {"oidf", "eudi", "haip", "runner", "launcher", "certified", "local"}

ASSUME SuitesAssumption == Suites \subseteq [Flags -> BOOLEAN]
ASSUME MaterialAssumption == MaterialMayGo \in BOOLEAN

VARIABLES
    \* what Docker and the file system hold
    project,    \* the containers of each project
    bridge,     \* Marty's network <project>_oidf-runner exists
    stuck,      \* the projects Docker has failed to remove
    material,   \* the TLS files of the runner are there
    authority,  \* the key of the disposable HAIP root is there
    leaf,       \* the certificate in the HAIP material
    served,     \* the certificate Marty was started with
    \* the process, and the command line it was given
    suite, action, retain,
    compose,    \* what it does next
    todo, started,
    code,       \* how it has ended
    fresh       \* nothing but Marty's project existed at the last "up"

dockerVars == <<project, bridge, stuck, served>>
fileVars == <<material, authority, leaf>>
requestVars == <<suite, action, retain, fresh>>
composeVars == <<compose, todo, started, code>>
suiteVars == <<dockerVars, fileVars, requestVars, composeVars>>

\* The projects the caller selected, in the order of their start.
Entries == <<"marty">> \o (IF suite["oidf"] THEN <<"oidf">> ELSE <<>>)
                       \o (IF suite["eudi"] THEN <<"eudi">> ELSE <<>>)

Certificates == {"none", "startup", "final", "external"}

SuiteTypeOK ==
    /\ project \in [Projects -> {"absent", "partial", "up"}]
    /\ bridge \in BOOLEAN /\ material \in BOOLEAN /\ authority \in BOOLEAN
    /\ stuck \subseteq Projects
    /\ leaf \in {"none", "startup", "final"}
    /\ served \in Certificates
    /\ suite \in Suites
    /\ action \in {"none", "up", "down", "logs"}
    /\ retain \in BOOLEAN /\ fresh \in BOOLEAN
    /\ compose \in {"idle", "begin", "cache", "base", "stage", "resume", "each", "readiness", "unwind", "ended"}
    /\ todo \in Seq(Projects) /\ started \in Seq(Projects)
    /\ Len(todo) <= Len(Entries) /\ Len(started) <= Len(Entries)
    /\ code \in {"none", "zero", "nonzero", "raised", "escaped"}

\* The KMS bootstrap may have started a part of Marty's project.
SuiteInit ==
    /\ \E m \in {"absent", "partial"} : project = [p \in Projects |-> IF p = "marty" THEN m ELSE "absent"]
    /\ bridge = FALSE /\ stuck = {} /\ served = "none"
    /\ material = TRUE /\ authority = TRUE /\ leaf = "none"
    /\ suite \in Suites
    /\ action = "none" /\ retain = FALSE /\ fresh = TRUE
    /\ compose = "idle" /\ todo = <<>> /\ started = <<>> /\ code = "none"

-----------------------------------------------------------------------------
(* The launchers.  Marty's is outside this repository; the two others check *)
(* their own conditions before they call "docker compose".                  *)

\* oidf_runner_compose.py: the TLS files must be there, whatever the command.
OidfAccepts == material

\* eudi_reference_compose.py: the bridge must be there, whatever the command.
EudiAccepts == bridge

Accepts(p) ==
    /\ p = "oidf" => OidfAccepts
    /\ p = "eudi" => EudiAccepts

\* Compose refuses to start a service on an external network that is not there.
CanStart(p) == Accepts(p) /\ (p = "oidf" => bridge)

ComesUp(p, certificate) ==
    /\ CanStart(p)
    /\ project' = [project EXCEPT ![p] = "up"]
    /\ stuck' = stuck \ {p}
    /\ IF p = "marty" THEN bridge' = TRUE /\ served' = certificate
                      ELSE UNCHANGED <<bridge, served>>

FailsToComeUp(p, certificate) ==
    /\ project' \in IF CanStart(p) THEN {project, [project EXCEPT ![p] = "partial"]} ELSE {project}
    /\ IF p = "marty" THEN bridge' \in {bridge, TRUE} /\ served' \in {served, certificate}
                      ELSE UNCHANGED <<bridge, served>>
    /\ UNCHANGED stuck

\* A project that is up holds an endpoint on the bridge, one that came up
\* halfway may; Docker keeps a network while there is one.
BridgesLeft ==
    IF \E p \in Others : project[p] = "up" THEN {bridge}
    ELSE IF \E p \in Others : project[p] = "partial" THEN {bridge, FALSE}
    ELSE {FALSE}

GoesAway(p) ==
    /\ Accepts(p)
    /\ project' = [project EXCEPT ![p] = "absent"]
    /\ stuck' = stuck \ {p}
    /\ IF p = "marty" THEN bridge' \in BridgesLeft /\ served' = "none"
                      ELSE UNCHANGED <<bridge, served>>

\* Docker fails half-way, or the launcher does not even call it.
StaysBehind(p) ==
    /\ project' \in {project} \cup
                    (IF Accepts(p) /\ project[p] # "absent" THEN {[project EXCEPT ![p] = "partial"]} ELSE {})
    /\ stuck' = IF Accepts(p) THEN stuck \cup {p} ELSE stuck
    /\ UNCHANGED <<bridge, served>>

-----------------------------------------------------------------------------
(* execute                                                                 *)

Selected == ToSet(Entries)

\* Mutant: every command goes through the projects in the same order.
ComponentsForward(a) == IF a = "up" THEN Entries ELSE Entries
Components(a) == IF a = "up" THEN Entries ELSE Reverse(Entries)

Staged == suite["haip"] /\ ~suite["certified"]

ValidRequest ==
    /\ suite["haip"] => (suite["oidf"] \/ suite["eudi"])
    /\ retain => action = "up"

End(result) == compose' = "ended" /\ todo' = <<>> /\ code' = result

\* An exception that no handler of execute turns into an unwinding: whatever
\* was started stays, retained or not.
Escape == End("escaped")

\* The command of a project is built when its turn comes.
Buildable(p) ==
    /\ p = "oidf" => suite["runner"]
    /\ p = "marty" => suite["launcher"]

\* A failed "up": stop_started, unless the caller wants to look first.
Unwind(result) ==
    IF retain THEN End(result)
              ELSE compose' = "unwind" /\ todo' = Reverse(started') /\ code' = result

Call(a, keep) ==
    /\ compose \in {"idle", "ended"}
    /\ action' = a /\ retain' = keep
    /\ fresh' = IF a = "up" THEN \A p \in Others : project[p] = "absent" ELSE fresh
    /\ compose' = "begin" /\ todo' = <<>> /\ started' = <<>> /\ code' = "none"
    /\ UNCHANGED <<suite, dockerVars, fileVars>>

\* The request is invalid, or the environment or the Docker context is.
BeginRaises ==
    /\ compose = "begin"
    /\ End("raised")
    /\ UNCHANGED <<requestVars, dockerVars, fileVars, started>>

\* child_environment: "up" needs the generated material, the others do without.
ChildEnvironment == action = "up" /\ suite["eudi"] => material

Begin ==
    /\ compose = "begin" /\ ValidRequest /\ ChildEnvironment
    /\ IF action # "up"                        THEN compose' = "each" /\ todo' = Components(action)
       ELSE IF suite["oidf"] /\ suite["local"] THEN compose' = "cache" /\ UNCHANGED todo
       ELSE IF Staged                          THEN compose' = "base" /\ UNCHANGED todo
                                               ELSE compose' = "each" /\ todo' = Components(action)
    /\ UNCHANGED <<requestVars, dockerVars, fileVars, started, code>>

Certificate == IF suite["haip"] /\ suite["certified"] THEN "external" ELSE "none"

\* The images of the runner must be cached before Marty creates a project, and
\* an external certificate must be accepted.
CacheCheck ==
    /\ compose = "cache"
    /\ \/ /\ suite["runner"] /\ OidfAccepts
          /\ IF Staged THEN compose' = "base" /\ UNCHANGED todo
                       ELSE compose' = "each" /\ todo' = Components("up")
          /\ UNCHANGED code
       \/ /\ suite["runner"]
          /\ End("nonzero")
       \/ /\ ~suite["runner"] \/ Certificate = "external"
          /\ End("raised")
    /\ UNCHANGED <<requestVars, dockerVars, fileVars, started>>

BaseUp ==
    /\ compose = "base" /\ Buildable("marty")
    /\ started' = <<"marty">>
    /\ \/ ComesUp("marty", "none") /\ compose' = "stage" /\ UNCHANGED <<todo, code>>
       \/ FailsToComeUp("marty", "none") /\ Unwind("nonzero")
    /\ UNCHANGED <<requestVars, fileVars>>

\* Mutant: Marty is not brought up again.
StageOnly ==
    /\ compose = "stage" /\ authority /\ leaf = "none"
    /\ leaf' = "startup"
    /\ authority' = (suite["oidf"] \/ suite["eudi"])
    /\ compose' = "each" /\ todo' = Tail(Entries)
    /\ UNCHANGED <<requestVars, dockerVars, material, started, code>>
\* stage_haip_profile_certificate: certifies the key of the running issuer
\* profile, once; the authority is kept whenever a suite follows.
Stage ==
    /\ compose = "stage" /\ authority /\ leaf = "none"
    /\ leaf' = "startup"
    /\ authority' = (suite["oidf"] \/ suite["eudi"])
    /\ compose' = "resume"
    /\ UNCHANGED <<requestVars, dockerVars, material, todo, started, code>>

\* The identity cannot be resolved, the certificate cannot be issued, or the
\* one just issued cannot be configured.  Only an OSError and a ValueError are
\* unwound; the environment may lack the URL of the certificate, or the key of
\* the identity a member: a KeyError is not.
StageFails ==
    /\ compose = "stage"
    /\ UNCHANGED started
    /\ \/ UNCHANGED <<leaf, authority>> /\ (Unwind("raised") \/ Escape)
       \/ /\ authority /\ leaf = "none"
          /\ leaf' = "startup"
          /\ authority' = (suite["oidf"] \/ suite["eudi"])
          /\ Unwind("raised")
    /\ UNCHANGED <<requestVars, dockerVars, material>>

\* Mutant: the loop goes through all entries, Marty's again.
ResumeUpAll ==
    /\ compose = "resume"
    /\ UNCHANGED started
    /\ \/ ComesUp("marty", leaf) /\ compose' = "each" /\ todo' = Entries /\ UNCHANGED code
       \/ FailsToComeUp("marty", leaf) /\ Unwind("nonzero")
    /\ UNCHANGED <<requestVars, fileVars>>
ResumeUp ==
    /\ compose = "resume"
    /\ UNCHANGED started
    /\ \/ ComesUp("marty", leaf) /\ compose' = "each" /\ todo' = Tail(Entries) /\ UNCHANGED code
       \/ FailsToComeUp("marty", leaf) /\ Unwind("nonzero")
    /\ UNCHANGED <<requestVars, fileVars>>

\* Without the runner's checkout or Marty's launcher that raises, and nobody
\* unwinds.  After the first command of Marty its launcher is there.
CommandRaises ==
    /\ \/ /\ compose = "base" /\ ~Buildable("marty")
          /\ started' = <<"marty">>
       \/ /\ compose = "each" /\ todo # <<>> /\ ~Buildable(Head(todo))
          /\ started' = IF action = "up" THEN Append(started, Head(todo)) ELSE started
    /\ IF action = "up" THEN Escape ELSE End("raised")
    /\ UNCHANGED <<requestVars, dockerVars, fileVars>>

\* What the EUDI verifier logged is classified before the unwinding, and an
\* exception of that is not caught.
EachUp ==
    /\ compose = "each" /\ action = "up" /\ todo # <<>>
    /\ LET p == Head(todo) IN
       /\ Buildable(p)
       /\ started' = Append(started, p)
       /\ \/ /\ ComesUp(p, Certificate)
             /\ compose' = IF p = "eudi" THEN "readiness" ELSE "each"
             /\ todo' = Tail(todo)
             /\ UNCHANGED code
          \/ /\ FailsToComeUp(p, Certificate)
             /\ Unwind("nonzero") \/ (p = "eudi" /\ Escape)
    /\ UNCHANGED <<requestVars, fileVars>>

\* wait_for_eudi_readiness, bounded by its deadline.  Only a ValueError is
\* unwound, which its probes raise: what is wrong with the CA file or the URLs
\* of its client is another exception.
Readiness ==
    /\ compose = "readiness"
    /\ UNCHANGED started
    /\ \/ compose' = "each" /\ UNCHANGED <<todo, code>>
       \/ Unwind("raised")
       \/ Escape
    /\ UNCHANGED <<requestVars, dockerVars, fileVars>>

\* Mutant: "down" answers with the last failure.
FirstFailureLast(zero) == code' = IF zero THEN "none" ELSE "nonzero"
\* "down" goes on after a failure and answers with the first one.
FirstFailure(zero) == code' = IF zero THEN code ELSE "nonzero"

EachDown ==
    /\ compose = "each" /\ action = "down" /\ todo # <<>>
    /\ LET p == Head(todo) IN
       /\ Buildable(p)
       /\ \/ GoesAway(p) /\ FirstFailure(TRUE)
          \/ StaysBehind(p) /\ FirstFailure(FALSE)
    /\ todo' = Tail(todo)
    /\ UNCHANGED <<requestVars, fileVars, compose, started>>

EachLogs ==
    /\ compose = "each" /\ action = "logs" /\ todo # <<>>
    /\ LET p == Head(todo) IN
       /\ Buildable(p)
       /\ \E zero \in BOOLEAN : (zero => Accepts(p)) /\ FirstFailure(zero)
    /\ todo' = Tail(todo)
    /\ UNCHANGED <<requestVars, fileVars, dockerVars, compose, started>>

EachDone ==
    /\ compose = "each" /\ todo = <<>>
    /\ End(IF code = "none" THEN "zero" ELSE code)
    /\ UNCHANGED <<requestVars, dockerVars, fileVars, started>>

\* Mutant: a project that stays behind ends the unwinding.
StopStartedGivesUp ==
    /\ compose = "unwind" /\ todo # <<>>
    /\ \/ GoesAway(Head(todo)) /\ todo' = Tail(todo)
       \/ StaysBehind(Head(todo)) /\ todo' = <<>>
    /\ UNCHANGED <<requestVars, fileVars, compose, started, code>>
\* stop_started: whatever a project answers, the next one follows.
StopStarted ==
    /\ compose = "unwind" /\ todo # <<>>
    /\ GoesAway(Head(todo)) \/ StaysBehind(Head(todo))
    /\ todo' = Tail(todo)
    /\ UNCHANGED <<requestVars, fileVars, compose, started, code>>

StopDone ==
    /\ compose = "unwind" /\ todo = <<>>
    /\ End(code)
    /\ UNCHANGED <<requestVars, dockerVars, fileVars, started>>

ComposeNext ==
    \/ BeginRaises \/ Begin \/ CacheCheck \/ BaseUp \/ Stage \/ StageFails \/ ResumeUp
    \/ CommandRaises \/ EachUp \/ Readiness \/ EachDown \/ EachLogs \/ EachDone
    \/ StopStarted \/ StopDone

MaterialGoes ==
    /\ MaterialMayGo /\ material
    /\ material' = FALSE
    /\ UNCHANGED <<requestVars, dockerVars, composeVars, authority, leaf>>

Operator == \E a \in {"up", "down", "logs"}, keep \in BOOLEAN : Call(a, keep)

Next == Operator \/ ComposeNext \/ MaterialGoes

Spec == SuiteInit /\ [][Next]_suiteVars

-----------------------------------------------------------------------------
\* "up" answers zero only when every selected project is up, on a bridge, and
\* Marty runs with the certificate its HAIP profile needs; "down" only when
\* every selected project is gone, although it goes on after a failure
\* (execute: the staged start, the loops over the entries, first_failure).
AnswerIsTrue ==
    [][compose # "ended" /\ compose' = "ended" /\ code' = "zero" =>
          /\ action = "up" =>
                /\ \A p \in Selected : project'[p] = "up"
                /\ bridge'
                /\ suite["haip"] => served' = IF Staged THEN "startup" ELSE "external"
          /\ action = "down" => \A p \in Selected : project'[p] = "absent"]_suiteVars

\* Where an exception passes the handlers of execute by.
MayEscape ==
    \/ Staged \/ suite["eudi"]
    \/ ~suite["launcher"] \/ (suite["oidf"] /\ ~suite["runner"])

\* An "up" that fails and was not told to retain leaves a project it started
\* behind only when Docker failed to remove it, when the runner's launcher
\* wants its TLS files, or when an exception escaped that execute does not
\* unwind on: in the staging of the certificate, in the diagnosis of the EUDI
\* services or the wait for them, or where a command could not be built
\* (stop_started, the "except" clauses around it, and the lambdas of components).
FailedUpUnwinds ==
    compose = "ended" /\ action = "up" /\ code # "zero" /\ ~retain =>
        \/ \A p \in ToSet(started) :
               \/ project[p] = "absent"
               \/ p \in stuck
               \/ p = "oidf" /\ ~material
        \/ code = "escaped" /\ MayEscape

\* Marty, whose network the other projects need and without which the EUDI
\* launcher refuses even "down", goes last (components reverses its entries,
\* stop_started its list) - unless "up" is called over projects that a former
\* call left: then the unwinding stops what it started and not the rest.
MartyOutlivesItsUsers ==
    [][project["marty"] # "absent" /\ project'["marty"] = "absent" =>
          \/ \A p \in Others : project[p] = "absent" \/ p \in stuck \/ (p = "oidf" /\ ~material)
          \/ ~fresh]_suiteVars

\* conformance/README.md: diagnostics and teardown "can still remove the
\* project if the disposable material directory was deleted".
TeardownNeedsNoMaterial ==
    compose = "ended" /\ action = "down" /\ code # "raised" /\ ~material /\ fresh /\ stuck = {} =>
        \A p \in Selected : project[p] = "absent"
=============================================================================

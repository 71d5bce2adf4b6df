---------------------------- MODULE OfficialLane ----------------------------
(***************************************************************************)
(* scripts/official_interoperability_lane.py: one lane of the              *)
(* interoperability matrix.  It has a stack brought up (SuiteCompose, or   *)
(* Marty's own launcher in the W3C lane), fixtures created and the request *)
(* signing certificate exchanged, runs the official suite, collects the    *)
(* evidence and takes the stack down again.                                *)
(***************************************************************************)
EXTENDS SuiteCompose

CONSTANT Kinds   \* of the lanes that are run

\* "signed" is the HAIP and the mdoc lane, "local" the issuer lane with a
\* native functional binding.
AllKinds == {"issuer", "local", "final", "signed", "urlQuery", "w3c", "eudi"}
ASSUME KindsAssumption == Kinds \subseteq AllKinds

VerifierKinds == {"final", "signed", "urlQuery"}
IssuerKinds == {"issuer", "local"}
HaipKinds == VerifierKinds \cup {"eudi"}
SignedKinds == HaipKinds \ {"urlQuery"}

VARIABLES
    kind,
    lane,      \* what it does next
    passed,    \* the commands that answered zero
    result,    \* the lane's own answer
    before,    \* the native processes were attested before the suite ran
    error,     \* an exception is on its way out
    skipped    \* where it gave up before "down"

laneVars == <<kind, lane, passed, result, before, error, skipped>>
vars == <<suiteVars, laneVars>>

Commands == {"browser", "official", "evidence", "attachments"}

LaneTypeOK ==
    /\ SuiteTypeOK
    /\ kind \in Kinds
    /\ lane \in {"preflight", "up", "starting", "diagnose", "ready", "fixtures", "certificate", "adopt",
                 "browser", "official", "evidence", "attachments", "native", "logs", "down", "stopping",
                 "checkout", "ended"}
    /\ passed \subseteq Commands
    /\ result \in {"zero", "nonzero"}
    /\ before \in BOOLEAN /\ error \in BOOLEAN
    /\ skipped \in {"no", "preflight", "start", "logs"}

\* compose_command: the selection of each lane.  The preflight has seen the
\* launcher, and the lane passes the runner on.
SuiteOf(k) ==
    [f \in Flags |-> CASE f = "oidf"  -> k \in VerifierKinds \cup IssuerKinds
                       [] f = "eudi"  -> k = "eudi"
                       [] f = "haip"  -> k \in HaipKinds
                       [] f = "local" -> k = "local"
                       [] f = "runner" -> TRUE
                       [] f = "launcher" -> TRUE
                       [] f = "certified" -> FALSE]

InitLane ==
    /\ SuiteInit
    /\ project["marty"] = "partial"     \* official_kms_bootstrap ran before
    /\ kind \in Kinds
    /\ suite = SuiteOf(kind)
    /\ lane = "preflight"
    /\ passed = {} /\ result = "nonzero"
    /\ before = FALSE /\ error = FALSE /\ skipped = "no"

-----------------------------------------------------------------------------
Goto(l) == lane' = l /\ UNCHANGED <<kind, passed, result, before, error, skipped>>
Raise(l) == lane' = l /\ error' = TRUE /\ UNCHANGED <<kind, passed, result, before, skipped>>

\* On to what follows the teardown, by an exception or without one.
SkipTeardown(reason, raised) ==
    /\ lane' = "checkout"
    /\ skipped' = reason
    /\ error' = raised
    /\ UNCHANGED <<kind, passed, result, before>>

\* base_environment, the binding and the checkout are checked first.
Preflight ==
    /\ lane = "preflight"
    /\ \/ Goto("up")
       \/ /\ lane' = "ended" /\ error' = TRUE /\ skipped' = "preflight"
          /\ UNCHANGED <<kind, passed, result, before>>
    /\ UNCHANGED suiteVars

\* The verifier lanes want to look at a stack that failed to start.
Up ==
    /\ lane = "up"
    /\ IF kind = "w3c"
       THEN /\ \/ ComesUp("marty", "none") /\ Goto("ready")
               \/ FailsToComeUp("marty", "none") /\ Goto("logs")
            /\ UNCHANGED <<requestVars, composeVars, fileVars>>
       ELSE Call("up", kind \in VerifierKinds) /\ Goto("starting")

\* The process cannot even be started, or its inputs cannot be written.
UpRaises ==
    /\ lane = "up"
    /\ CASE kind = "w3c"   -> Raise("logs")
         [] kind = "local" -> Raise("down")
         [] OTHER          -> SkipTeardown("start", TRUE)
    /\ UNCHANGED suiteVars

UpReturns ==
    /\ lane = "starting" /\ compose = "ended"
    /\ Goto(IF code = "zero" THEN "ready" ELSE "diagnose")
    /\ UNCHANGED suiteVars

\* Mutant: nobody takes a retained stack down.
DiagnoseReturns ==
    /\ lane = "diagnose"
    /\ IF kind = "local" THEN Goto("down") \/ Raise("down") ELSE \E raised \in BOOLEAN : SkipTeardown("start", raised)
    /\ UNCHANGED suiteVars
\* A stack that did not start: compose has unwound it, except in the verifier
\* lanes, which asked to retain it; the local lane makes sure.
Diagnose ==
    /\ lane = "diagnose"
    /\ IF kind \in VerifierKinds \cup {"local"} THEN Goto("down") \/ Raise("down")
                                               ELSE \E raised \in BOOLEAN : SkipTeardown("start", raised)
    /\ UNCHANGED suiteVars

\* wait_for_public_stack and the attestation of the native processes.
Ready ==
    /\ lane = "ready"
    /\ \/ /\ lane' = "fixtures" /\ before' = (kind = "local")
          /\ UNCHANGED <<kind, passed, result, error, skipped>>
       \/ Raise("native")
    /\ UNCHANGED suiteVars

Fixtures ==
    /\ lane = "fixtures"
    /\ \/ Goto(IF kind \in HaipKinds THEN "certificate" ELSE "official")
       \/ Raise("native")
    /\ UNCHANGED suiteVars

\* Mutant: the authority is kept.
FinalCertificateKept ==
    /\ lane = "certificate"
    /\ \/ /\ authority
          /\ IF kind \in SignedKinds THEN leaf' = "final" /\ Goto("adopt")
                                     ELSE UNCHANGED leaf /\ Goto("official")
          /\ UNCHANGED <<authority, material>>
       \/ Raise("native") /\ UNCHANGED fileVars
    /\ UNCHANGED <<dockerVars, requestVars, composeVars>>
\* The disposable authority signs the certificate of the final identity and is
\* destroyed; an unsigned lane has no use for it.
FinalCertificate ==
    /\ lane = "certificate"
    /\ \/ /\ authority
          /\ IF kind \in SignedKinds THEN leaf' = "final" /\ Goto("adopt")
                                     ELSE UNCHANGED leaf /\ Goto("official")
          /\ authority' = FALSE
          /\ UNCHANGED material
       \/ Raise("native") /\ UNCHANGED fileVars
    /\ UNCHANGED <<dockerVars, requestVars, composeVars>>

\* Marty is brought up once more, with the final certificate.
Adopt ==
    /\ lane = "adopt"
    /\ \/ ComesUp("marty", leaf) /\ Goto(IF kind = "final" THEN "browser" ELSE "official")
       \/ ComesUp("marty", leaf) /\ Raise("native")
       \/ FailsToComeUp("marty", leaf) /\ Raise("native")
    /\ UNCHANGED <<requestVars, composeVars, fileVars>>

Answer(c, zero) == passed' = IF zero THEN passed \cup {c} ELSE passed

Browser ==
    /\ lane = "browser"
    /\ \E zero \in BOOLEAN : Answer("browser", zero)
    /\ lane' = "official"
    /\ UNCHANGED <<kind, result, before, error, skipped, suiteVars>>

\* Mutant: the official result alone.
OfficialAlone ==
    /\ lane = "official"
    /\ \E zero \in BOOLEAN :
          /\ Answer("official", zero)
          /\ result' = IF zero THEN "zero" ELSE "nonzero"
    /\ lane' = IF kind \in VerifierKinds THEN "evidence" ELSE "native"
    /\ UNCHANGED <<kind, before, error, skipped, suiteVars>>
\* The official suite: result = browser_result or official_result.
Official ==
    /\ lane = "official"
    /\ \E zero \in BOOLEAN :
          /\ Answer("official", zero)
          /\ result' = IF zero /\ (kind = "final" => "browser" \in passed) THEN "zero" ELSE "nonzero"
    /\ lane' = IF kind \in VerifierKinds THEN "evidence" ELSE "native"
    /\ UNCHANGED <<kind, before, error, skipped, suiteVars>>

\* The images are collected only for evidence that stands.
Evidence ==
    /\ lane = "evidence"
    /\ \E zero \in BOOLEAN :
          /\ Answer("evidence", zero)
          /\ result' = IF zero THEN result ELSE "nonzero"
          /\ lane' = IF zero THEN "attachments" ELSE "native"
    /\ UNCHANGED <<kind, before, error, skipped, suiteVars>>

Attachments ==
    /\ lane = "attachments"
    /\ \E zero \in BOOLEAN :
          /\ Answer("attachments", zero)
          /\ result' = IF zero THEN result ELSE "nonzero"
    /\ lane' = "native"
    /\ UNCHANGED <<kind, before, error, skipped, suiteVars>>

\* From here on it is the "finally" of the lane.  A change of the attested
\* processes is raised, but only after the stack is down.
Native ==
    /\ lane = "native"
    /\ Goto("logs") \/ (before /\ Raise("logs"))
    /\ UNCHANGED suiteVars

\* The logs are read (which changes nothing) and written, a failed lane is diagnosed.  An exception of
\* these skips "down" everywhere but in the local lane.
Logs ==
    /\ lane = "logs"
    /\ \/ Goto("down")
       \/ kind = "local" /\ Raise("down")
       \/ SkipTeardown("logs", TRUE) /\ kind # "local" /\ (kind = "w3c" => result = "nonzero")
    /\ UNCHANGED suiteVars

Down ==
    /\ lane = "down"
    /\ IF kind = "w3c"
       THEN /\ GoesAway("marty") \/ StaysBehind("marty")
            /\ Goto("checkout")
            /\ UNCHANGED <<requestVars, composeVars, fileVars>>
       ELSE Call("down", FALSE) /\ Goto("stopping")

\* Only the local lane looks at what "down" answers.
\* Mutant: it does not either.
DownIgnored ==
    /\ lane = "stopping" /\ compose = "ended"
    /\ Goto("checkout")
    /\ UNCHANGED suiteVars
DownReturns ==
    /\ lane = "stopping" /\ compose = "ended"
    /\ IF kind = "local" /\ code # "zero" THEN Raise("checkout") ELSE Goto("checkout")
    /\ UNCHANGED suiteVars

\* main's own finally: the official sources must be what they were.
VerifyCheckout ==
    /\ lane = "checkout"
    /\ Goto("ended") \/ (kind # "eudi" /\ Raise("ended"))
    /\ UNCHANGED suiteVars

LaneStep ==
    \/ Preflight \/ Up \/ UpRaises \/ UpReturns \/ Diagnose \/ Ready \/ Fixtures \/ FinalCertificate \/ Adopt
    \/ Browser \/ Official \/ Evidence \/ Attachments
    \/ Native \/ Logs \/ Down \/ DownReturns \/ VerifyCheckout

ComposeStep == ComposeNext /\ UNCHANGED laneVars
LaneMaterialGoes == MaterialGoes /\ UNCHANGED laneVars

NextLane == LaneStep \/ ComposeStep \/ LaneMaterialGoes

SpecLane == InitLane /\ [][NextLane]_vars

-----------------------------------------------------------------------------
Passed == lane = "ended" /\ ~error /\ result = "zero"

\* The official suite runs only on the stack it is meant for: every project
\* selected is up, the signed lanes are served the certificate of the final
\* identity, and the key of the disposable authority is gone (the order of
\* run_oidf and run_eudi, refresh_request_signing_certificate, and the
\* retention in stage_haip_profile_certificate).
OfficialRunsOnFinalStack ==
    lane \in {"browser", "official"} =>
        /\ \A p \in Selected : project[p] = "up"
        /\ bridge
        /\ kind \in SignedKinds => served = "final"
        /\ kind \in HaipKinds => ~authority

\* A lane passes only when every command it is made of passed, in the verifier
\* lanes the evidence and its attachments too, and for the native binding only
\* between two attestations (the "or" chains over the results, and what the
\* "finally" blocks raise).
LanePassIsComplete ==
    Passed =>
        /\ "official" \in passed
        /\ kind = "final" => "browser" \in passed
        /\ kind \in VerifierKinds => {"evidence", "attachments"} \subseteq passed
        /\ kind = "local" => before

\* A lane that got as far as its stack leaves nothing of it, unless Docker
\* fails, the runner's TLS files are gone, compose was not called or refused to
\* begin, or reading the logs raised - or unless the start of the EUDI lane,
\* which relies on compose to unwind it, met an exception compose does not
\* unwind on; and the local issuer lane, when it returns
\* instead of raising, has left nothing without any "unless" (the "finally"
\* blocks of the lanes, stop_started and down_local_native_issuer).
StackIsTornDown ==
    lane = "ended" /\ skipped \notin {"preflight", "logs"} =>
        \A p \in Projects :
            \/ project[p] = "absent"
            \/ kind = "eudi" /\ code = "escaped"
            \/ /\ kind = "local" => error
               /\ \/ p \in stuck
                  \/ p = "oidf" /\ ~material
                  \/ code \in {"none", "raised"} /\ started = <<>>
=============================================================================

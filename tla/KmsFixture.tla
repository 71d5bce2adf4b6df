----------------------------- MODULE KmsFixture -----------------------------
(***************************************************************************)
(* scripts/run_remote_kms_verifier_fixture.py: a command is run beside a   *)
(* disposable key service in a container and the two signer agents that    *)
(* have its keys.                                                          *)
(***************************************************************************)
EXTENDS Naturals

CONSTANTS HealthAttempts, ReadyAttempts   \* 30 and 100 in the code

ASSUME AttemptsAssumption == HealthAttempts \in Nat \ {0} /\ ReadyAttempts \in Nat \ {0}

VARIABLES
    kms,         \* what the fixture does next
    attempted, launched,   \* docker run was called, and came back
    tries,
    openbao,     \* "absent", "running", or "late": the daemon still starts it
    agent,       \* "none", "alive", "told" (to terminate) or "dead"
    waitedFor,   \* the agents the clean-up has waited for
    kmsCode,     \* its exit code
    survived,    \* an agent outlived its kill
    refused      \* Docker did not remove or list, or started the container late

kmsVars == <<kms, attempted, launched, tries, openbao, agent, waitedFor, kmsCode, survived, refused>>

KmsTypeOK ==
    /\ kms \in {"run", "health", "roles", "agents", "ready", "command", "terminate", "wait", "remove", "ended"}
    /\ {attempted, launched, survived, refused} \subseteq BOOLEAN
    /\ tries \in 0..(HealthAttempts + ReadyAttempts)
    /\ openbao \in {"absent", "late", "running"}
    /\ agent \in [1..2 -> {"none", "alive", "told", "dead"}]
    /\ waitedFor \in 0..2
    /\ kmsCode \in {"none", "zero", "nonzero"}

InitKms ==
    /\ kms = "run"
    /\ attempted = FALSE /\ launched = FALSE /\ tries = 0
    /\ openbao = "absent"
    /\ agent = [r \in 1..2 |-> "none"] /\ waitedFor = 0
    /\ kmsCode = "none" /\ survived = FALSE /\ refused = FALSE

-----------------------------------------------------------------------------
KmsGoto(l) == kms' = l /\ tries' = 0 /\ UNCHANGED kmsCode
KmsRaise == kms' = "terminate" /\ tries' = 0 /\ kmsCode' = "nonzero"
Retry(bound) ==
    IF tries + 1 < bound THEN tries' = tries + 1 /\ UNCHANGED <<kms, kmsCode>>
                         ELSE KmsRaise

\* docker run; a command that timed out may have started its container, or the
\* daemon is still at it.
RunOpenBao ==
    /\ kms = "run"
    /\ attempted' = TRUE
    /\ \/ openbao' = "running" /\ launched' = TRUE /\ KmsGoto("health") /\ UNCHANGED refused
       \/ /\ openbao' \in {"absent", "running", "late"}
          /\ refused' = (openbao' = "late")
          /\ UNCHANGED launched /\ KmsRaise
    /\ UNCHANGED <<agent, waitedFor, survived>>

StartsLate ==
    /\ openbao = "late"
    /\ openbao' = "running"
    /\ UNCHANGED <<kms, attempted, launched, tries, agent, waitedFor, kmsCode, survived, refused>>

\* Its port, its certificate and its health.  A docker exec that times out is
\* not tried again.
Health ==
    /\ kms = "health"
    /\ KmsGoto("roles") \/ Retry(HealthAttempts) \/ KmsRaise
    /\ UNCHANGED <<attempted, launched, openbao, agent, waitedFor, survived, refused>>

\* create_role, twice: a key that cannot leave, and a token for that key only.
CreateRoles ==
    /\ kms = "roles"
    /\ KmsGoto("agents") \/ KmsRaise
    /\ UNCHANGED <<attempted, launched, openbao, agent, waitedFor, survived, refused>>

StartAgent ==
    /\ kms = "agents"
    /\ \/ \E r \in 1..2 :
             /\ agent[r] = "none" /\ (r = 2 => agent[1] # "none")
             /\ agent' = [agent EXCEPT ![r] = "alive"]
             /\ IF r = 2 THEN KmsGoto("ready") ELSE UNCHANGED <<kms, tries, kmsCode>>
       \/ KmsRaise /\ UNCHANGED agent
    /\ UNCHANGED <<attempted, launched, openbao, waitedFor, survived, refused>>

\* An agent that has exited is seen before its endpoint is.
EndpointsReady ==
    /\ kms = "ready"
    /\ IF \E r \in 1..2 : agent[r] = "dead" THEN KmsRaise
                                            ELSE KmsGoto("command") \/ Retry(ReadyAttempts)
    /\ UNCHANGED <<attempted, launched, openbao, agent, waitedFor, survived, refused>>

RunCommand ==
    /\ kms = "command"
    /\ \E zero \in BOOLEAN : kmsCode' = IF zero THEN "zero" ELSE "nonzero"
    /\ kms' = "terminate"
    /\ UNCHANGED <<attempted, launched, tries, openbao, agent, waitedFor, survived, refused>>

AgentExits(r) ==
    /\ agent[r] \in {"alive", "told"}
    /\ agent' = [agent EXCEPT ![r] = "dead"]
    /\ UNCHANGED <<kms, attempted, launched, tries, openbao, waitedFor, kmsCode, survived, refused>>

\* The `finally': everybody is told before anybody is waited for.
Terminate ==
    /\ kms = "terminate"
    /\ agent' = [r \in 1..2 |-> IF agent[r] = "alive" THEN "told" ELSE agent[r]]
    /\ kms' = "wait"
    /\ UNCHANGED <<attempted, launched, tries, openbao, waitedFor, kmsCode, survived, refused>>

\* Mutant: an agent that outlives its kill is left behind in silence.
OutlivesSilently(r) ==
    waitedFor' = r /\ UNCHANGED <<kms, kmsCode, agent, survived>>
\* A second wait that times out raises: nobody after it is waited for, and the
\* container is not removed.
Outlives(r) ==
    kms' = "ended" /\ kmsCode' = "nonzero" /\ survived' = TRUE /\ UNCHANGED <<waitedFor, agent>>

WaitForAgent ==
    /\ kms = "wait" /\ waitedFor < 2
    /\ LET r == waitedFor + 1 IN
          IF agent[r] \in {"none", "dead"}
          THEN waitedFor' = r /\ UNCHANGED <<kms, kmsCode, agent, survived>>
          ELSE \/ \* it is killed
                  /\ agent' = [agent EXCEPT ![r] = "dead"]
                  /\ waitedFor' = r /\ UNCHANGED <<kms, kmsCode, survived>>
               \/ Outlives(r)
    /\ UNCHANGED <<attempted, launched, tries, openbao, refused>>

AllWaited ==
    /\ kms = "wait" /\ waitedFor = 2
    /\ kms' = "remove"
    /\ UNCHANGED <<attempted, launched, tries, openbao, agent, waitedFor, kmsCode, survived, refused>>

\* Mutant: a container that was not announced is not looked for.
OwnedIfLaunched == launched
\* By its name if docker run came back, by its label otherwise.
Owned == launched \/ attempted

RemoveOpenBao ==
    /\ kms = "remove"
    /\ kms' = "ended"
    /\ \/ /\ openbao' = IF Owned /\ openbao = "running" THEN "absent" ELSE openbao
          /\ UNCHANGED <<kmsCode, refused>>
       \/ kmsCode' = "nonzero" /\ refused' = TRUE /\ UNCHANGED openbao
    /\ UNCHANGED <<attempted, launched, tries, agent, waitedFor, survived>>

NextKms ==
    \/ RunOpenBao \/ StartsLate \/ Health \/ CreateRoles \/ StartAgent \/ EndpointsReady \/ RunCommand
    \/ \E r \in 1..2 : AgentExits(r)
    \/ Terminate \/ WaitForAgent \/ AllWaited \/ RemoveOpenBao

SpecKms == InitKms /\ [][NextKms]_kmsVars

-----------------------------------------------------------------------------
\* A fixture that ended has left neither an agent nor its container, unless an
\* agent outlived its kill, Docker failed, or the container was started after
\* the fixture had looked for it - and then it did not exit with 0 (the
\* `finally' of run, and "a timed-out Docker CLI may still have started its
\* container").
KmsLeavesNothing ==
    kms = "ended" =>
        /\ (\E r \in 1..2 : agent[r] \in {"alive", "told"}) => survived
        /\ openbao # "absent" => survived \/ refused
        /\ survived \/ refused => kmsCode = "nonzero"
=============================================================================

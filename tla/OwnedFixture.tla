---------------------------- MODULE OwnedFixture ----------------------------
(***************************************************************************)
(* What README.md ("Release controls") promises of the release probe,      *)
(* whatever fails: it creates at most one release, it removes no release   *)
(* but that one, it succeeds only if the release existed and is gone, and  *)
(* after its verdict it touches nothing.                                   *)
(***************************************************************************)
CONSTANT ReleaseIds

VARIABLES holds,    \* what each identity of the service stands for
          created,  \* the probe has created its release
          verdict   \* how the run ended

vars == <<holds, created, verdict>>

Init ==
    /\ holds \in [ReleaseIds -> {"unused", "foreign"}]
    /\ created = FALSE
    /\ verdict = "open"

\* The run may end in the very step that creates or removes the release.
CreateOwn(id) ==
    /\ verdict = "open" /\ ~created
    /\ holds[id] = "unused"
    /\ holds' = [holds EXCEPT ![id] = "own"]
    /\ created' = TRUE
    /\ verdict' \in {"open", "failed"}

RemoveOwn(id) ==
    /\ verdict = "open"
    /\ holds[id] = "own"
    /\ holds' = [holds EXCEPT ![id] = "deleted"]
    /\ verdict' \in {"open", "failed"}
    /\ UNCHANGED created

Conclude ==
    /\ verdict = "open"
    /\ \/ /\ created
          /\ \A id \in ReleaseIds : holds[id] # "own"
          /\ verdict' = "passed"
       \/ verdict' = "failed"
    /\ UNCHANGED <<holds, created>>

\* Others create releases and remove any of them, the probe's too.
OthersAct(id) ==
    /\ \/ holds[id] = "unused" /\ holds' = [holds EXCEPT ![id] = "foreign"]
       \/ holds[id] \in {"own", "foreign"} /\ holds' = [holds EXCEPT ![id] = "deleted"]
    /\ UNCHANGED <<created, verdict>>

Next == \/ \E id \in ReleaseIds : CreateOwn(id) \/ RemoveOwn(id) \/ OthersAct(id)
        \/ Conclude

Spec == Init /\ [][Next]_vars
=============================================================================

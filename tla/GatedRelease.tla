---------------------------- MODULE GatedRelease ----------------------------
(***************************************************************************)
(* What README.md ("Release controls") promises of tag publication: only a *)
(* commit of protected main that passed every official lane gets a release,*)
(* publication creates a new release and never adopts an existing draft,   *)
(* and a release that is published is the last one: corrections use a new  *)
(* version.                                                                *)
(***************************************************************************)
CONSTANT Runs       \* runs of the release workflow for one tag

VARIABLES qualified,  \* runs whose commit is in main and passed every lane
          drafted,    \* runs whose draft is at the service
          released    \* runs whose release is published

vars == <<qualified, drafted, released>>

Init == qualified \in SUBSET Runs /\ drafted = {} /\ released = {}

\* Lanes pass and commits are merged; nothing is taken back.
Qualify ==
    /\ qualified' \in SUBSET Runs
    /\ qualified \subseteq qualified'
    /\ UNCHANGED <<drafted, released>>

CreateNew(r) ==
    /\ r \in qualified
    /\ drafted = {} /\ released = {}
    /\ drafted' = {r}
    /\ UNCHANGED <<qualified, released>>

\* The run or a person removes a draft.
Withdraw(r) ==
    /\ r \in drafted
    /\ drafted' = drafted \ {r}
    /\ UNCHANGED <<qualified, released>>

Publish(r) ==
    /\ r \in drafted
    /\ drafted' = drafted \ {r}
    /\ released' = {r}
    /\ UNCHANGED qualified

Next == Qualify \/ \E r \in Runs : CreateNew(r) \/ Withdraw(r) \/ Publish(r)

Spec == Init /\ [][Next]_vars
=============================================================================

------------------------ MODULE ReleaseWorkflowProofs ------------------------
(***************************************************************************)
(* Why what the workflow publishes is qualified, for any runs, commits and *)
(* lanes and any number of attempts: a job that is run again goes back to  *)
(* its own first step only, so a run that is past a check of an earlier    *)
(* job has passed it once and for all; and what was checked either never   *)
(* changes back (main, the lanes) or is checked again (the tag).           *)
(***************************************************************************)
EXTENDS ReleaseWorkflow, SequenceTheorems, TLAPS

AttestAt == OfficialAt + 6
LastAt == OfficialAt + 12

\* A run past the comparison of the first job is in main.
Merged == \A r \in Runs : step[r] > 2 => CommitOf[r] \in main
\* A run in the last job has passed its lanes.
Qualified == \A r \in Runs : step[r] > OfficialAt => \A l \in Lanes : lane[r][l] = "passed"
\* Behind the last look at the tag, it has named the commit since the
\* attestation; before it, at least if it names the commit now.
Witnessed == \A r \in Runs :
    step[r] > AttestAt /\ (tag = CommitOf[r] \/ step[r] > AttestAt + 1) => seen[r]
\* The run that published never goes back behind its lanes.
Settled == published \in Runs => step[published] > OfficialAt

\* A run begins its first attempt once.
Counted == \A r \in Runs : run[r] = "unborn" => attempt[r] = 0

IInv == TypeOK /\ Merged /\ Qualified /\ Witnessed /\ Settled /\ Counted

\* One sequence of steps behind another one.
LEMMA Behind ==
    ASSUME NEW S, NEW first \in Seq(S), NEW second \in Seq(S)
    PROVE  /\ first \o second \in Seq(S)
           /\ Len(first \o second) = Len(first) + Len(second)
           /\ \A n \in 1..(Len(first) + Len(second)) :
                 (first \o second)[n] = IF n <= Len(first) THEN first[n] ELSE second[n - Len(first)]
BY ConcatProperties, Zenon

Names == {"resolve", "ancestry", "absent", "official", "build", "attest", "create", "upload", "publish"}

\* The places of the three jobs.
LEMMA Places ==
    /\ OfficialAt = 4 /\ AttestAt = 10 /\ LastAt = 16
    /\ Len(Steps) = 16
    /\ Steps[1] = "resolve" /\ Steps[2] = "ancestry" /\ Steps[3] = "absent" /\ Steps[4] = "official"
    /\ Steps[5] = "resolve" /\ Steps[6] = "ancestry" /\ Steps[7] = "absent" /\ Steps[8] = "build"
    /\ Steps[9] = "absent" /\ Steps[10] = "attest" /\ Steps[11] = "resolve" /\ Steps[12] = "ancestry"
    /\ Steps[13] = "absent" /\ Steps[14] = "create" /\ Steps[15] = "upload" /\ Steps[16] = "publish"
<1> DEFINE Official == <<"official">>
           First == VerifyJob \o Official
<1>1. /\ VerifyJob \in Seq(Names) /\ Len(VerifyJob) = 3
      /\ ReleaseJob \in Seq(Names) /\ Len(ReleaseJob) = 12
      /\ Official \in Seq(Names) /\ Len(Official) = 1
  BY DEF VerifyJob, ReleaseJob, Names
<1>2. Official[1] = "official"
  OBVIOUS
<1> HIDE DEF Official
<1>3. /\ First \in Seq(Names) /\ Len(First) = 4
      /\ \A n \in 1..4 : First[n] = IF n <= 3 THEN VerifyJob[n] ELSE Official[n - 3]
  <2>1. /\ First \in Seq(Names)
        /\ Len(First) = Len(VerifyJob) + Len(Official)
        /\ \A n \in 1..(Len(VerifyJob) + Len(Official)) :
              First[n] = IF n <= Len(VerifyJob) THEN VerifyJob[n] ELSE Official[n - Len(VerifyJob)]
    BY <1>1, Behind, Zenon
  <2>2. Len(VerifyJob) = 3 /\ Len(VerifyJob) + Len(Official) = 4
    BY <1>1
  <2>. QED  BY <2>1, <2>2, Zenon
<1>4. /\ Len(Steps) = 16
      /\ \A n \in 1..16 : Steps[n] = IF n <= 4 THEN First[n] ELSE ReleaseJob[n - 4]
  <2>1. Steps = First \o ReleaseJob
    BY DEF Steps, Official
  <2> HIDE DEF First
  <2>2. /\ Len(Steps) = Len(First) + Len(ReleaseJob)
        /\ \A n \in 1..(Len(First) + Len(ReleaseJob)) :
              Steps[n] = IF n <= Len(First) THEN First[n] ELSE ReleaseJob[n - Len(First)]
    BY <1>1, <1>3, <2>1, Behind, Zenon
  <2>3. Len(First) = 4 /\ Len(First) + Len(ReleaseJob) = 16
    BY <1>1, <1>3
  <2>. QED  BY <2>2, <2>3, Zenon
<1> HIDE DEF First
<1>5. Steps[1] = "resolve" /\ Steps[2] = "ancestry" /\ Steps[3] = "absent" /\ Steps[4] = "official"
  BY <1>2, <1>3, <1>4 DEF VerifyJob
<1>6. \A n \in 1..12 : Steps[n + 4] = ReleaseJob[n]
  BY <1>4
<1>7. /\ Steps[5] = "resolve" /\ Steps[6] = "ancestry" /\ Steps[7] = "absent" /\ Steps[8] = "build"
      /\ Steps[9] = "absent" /\ Steps[10] = "attest" /\ Steps[11] = "resolve" /\ Steps[12] = "ancestry"
      /\ Steps[13] = "absent" /\ Steps[14] = "create" /\ Steps[15] = "upload" /\ Steps[16] = "publish"
  BY <1>6 DEF ReleaseJob
<1>8. OfficialAt = 4 /\ AttestAt = 10 /\ LastAt = 16
  BY <1>1 DEF OfficialAt, AttestAt, LastAt
<1>. QED
  BY <1>4, <1>5, <1>7, <1>8

-----------------------------------------------------------------------------
\* The states between the steps.
States == {"unborn", "pending", "running", "failed", "cancelled", "succeeded"}

LEMMA InitIInv == Init => IInv
<1> SUFFICES ASSUME Init PROVE IInv
  OBVIOUS
<1>1. TypeOK
  BY Places, WorkflowAssumption DEF Init, TypeOK
<1>2. Settled
  BY WorkflowAssumption DEF Init, Settled
<1>. QED
  BY <1>1, <1>2, Places DEF Init, IInv, Merged, Qualified, Witnessed, Counted

\* A job that is run again starts in the same job, and not behind its place.
LEMMA JobStarts ==
    ASSUME NEW k \in 1..16
    PROVE  /\ JobStart(k) \in 1..5
           /\ JobStart(k) > 2 => k > 2
           /\ JobStart(k) > 4 <=> k > 4
BY Places DEF JobStart

\* A step that succeeds: what is behind it needs what it has checked.
LEMMA Advancing ==
    ASSUME IInv, NEW r \in Runs, run[r] = "running", Advance(r),
           UNCHANGED <<world, published, attempt, lane, seen>>,
           drafts' \in [Owners -> Nat],
           step[r] \notin {10, 16},
           step[r] = 2 => CommitOf[r] \in main,
           step[r] = 4 => \A l \in Lanes : lane[r][l] = "passed",
           step[r] = 11 => tag = CommitOf[r]
    PROVE  IInv'
<1>1. /\ step[r] \in 1..16 /\ step' = [step EXCEPT ![r] = step[r] + 1]
      /\ UNCHANGED <<tag, main, published, run, attempt, lane, seen>>
  BY Places DEF IInv, TypeOK, Advance, world
<1>2. TypeOK'
  BY <1>1, Places DEF IInv, TypeOK
<1>3. \A q \in Runs : step[q] \in 1..16 /\ step'[q] = IF q = r THEN step[r] + 1 ELSE step[q]
  BY <1>1, Places DEF IInv, TypeOK
<1>4. Merged'
  BY <1>1, <1>3 DEF IInv, Merged
<1>5. Qualified'
  BY <1>1, <1>3, Places DEF IInv, Qualified
<1>6. Witnessed'
  BY <1>1, <1>3, Places DEF IInv, Witnessed
<1>7. Settled'
  BY <1>1, <1>3, Places DEF IInv, Settled
<1>8. Counted'
  BY <1>1 DEF IInv, Counted
<1>. QED  BY <1>2, <1>4, <1>5, <1>6, <1>7, <1>8 DEF IInv

\* A run that was not over gets another state; drafts come and go.
LEMMA Elsewhere ==
    ASSUME IInv,
           UNCHANGED <<tag, published, step, lane, seen>>,
           run' \in [Runs -> States], attempt' \in [Runs -> 0..MaxAttempts],
           \A q \in Runs : /\ run[q] = "succeeded" => run'[q] = "succeeded"
                           /\ run'[q] = "unborn" => attempt'[q] = 0,
           drafts' \in [Owners -> Nat],
           main \subseteq main', main' \subseteq Commits
    PROVE  IInv'
<1>1. TypeOK'
  BY DEF IInv, TypeOK, States
<1>2. Merged' /\ Qualified' /\ Witnessed' /\ Settled' /\ Counted'
  BY DEF IInv, Merged, Qualified, Witnessed, Settled, Counted
<1>. QED  BY <1>1, <1>2 DEF IInv

\* What Queue does to the runs.
LEMMA Queued ==
    ASSUME TypeOK, Counted, NEW r \in Runs, Queue(r), attempt[r] < MaxAttempts,
           run[r] # "succeeded"
    PROVE  /\ run' \in [Runs -> States] /\ attempt' \in [Runs -> 0..MaxAttempts]
           /\ \A q \in Runs : run[q] = "succeeded" => run'[q] = "succeeded"
           /\ Counted'
<1>1. run' \in [Runs -> States]
  BY DEF Queue, TypeOK, States
<1>2. attempt' \in [Runs -> 0..MaxAttempts]
  BY WorkflowAssumption DEF Queue, TypeOK
<1>3. \A q \in Runs : run[q] = "succeeded" => run'[q] = "succeeded"
  BY DEF Queue, TypeOK
<1>4. Counted'
  BY DEF Queue, TypeOK, Counted
<1>. QED  BY <1>1, <1>2, <1>3, <1>4

LEMMA RunStepsIInv ==
    ASSUME IInv, NEW r \in Runs, RunSteps(r)
    PROVE  IInv'
<1> USE DEF IInv
<1>1. TypeOK /\ step[r] \in 1..16 /\ drafts \in [Owners -> Nat] /\ r \in Owners
  BY Places DEF TypeOK, Owners
<1>2. CASE ResolveTag(r) \/ RequireMainAncestor(r) \/ EnsureReleaseAbsent(r) \/ Build(r) \/ UploadAssets(r)
  <2>1. /\ run[r] = "running" /\ Advance(r) /\ UNCHANGED <<world, service, attempt, lane, seen>>
        /\ Steps[step[r]] \in {"resolve", "ancestry", "absent", "build", "upload"}
        /\ Steps[step[r]] = "resolve" => tag = CommitOf[r]
        /\ Steps[step[r]] = "ancestry" => CommitOf[r] \in main
    BY <1>2 DEF ResolveTag, RequireMainAncestor, EnsureReleaseAbsent, Build, UploadAssets, At
  <2>2. step[r] \notin {4, 10, 16} /\ (step[r] = 11 => tag = CommitOf[r]) /\ (step[r] = 2 => CommitOf[r] \in main)
    BY <1>1, <2>1, Places
  <2>3. drafts' \in [Owners -> Nat] /\ UNCHANGED published
    BY <1>1, <2>1 DEF service
  <2>. QED  BY <2>1, <2>2, <2>3, Advancing
<1>3. CASE Attest(r)
  <2>1. /\ step[r] = 10 /\ step' = [step EXCEPT ![r] = step[r] + 1]
        /\ seen' = [seen EXCEPT ![r] = (tag = CommitOf[r])]
        /\ UNCHANGED <<tag, main, drafts, published, run, attempt, lane>>
    BY <1>1, <1>3, Places DEF Attest, At, Advance, world, service
  <2>2. \A q \in Runs : step[q] \in 1..16 /\ step'[q] = IF q = r THEN 11 ELSE step[q]
    BY <1>1, <2>1, Places DEF TypeOK
  <2>3. TypeOK'
    BY <2>1, Places DEF TypeOK
  <2>4. Merged' /\ Qualified'
    BY <2>1, <2>2, Places DEF Merged, Qualified
  <2>5. /\ tag = CommitOf[r] => seen'[r]
        /\ \A q \in Runs : q # r => seen'[q] = seen[q]
    BY <2>1, Zenon DEF TypeOK
  <2>6. Witnessed'
    <3> SUFFICES ASSUME NEW q \in Runs,
                        step'[q] > AttestAt, tag' = CommitOf[q] \/ step'[q] > AttestAt + 1
                 PROVE  seen'[q]
      BY DEF Witnessed
    <3>1. CASE q = r
      BY <2>1, <2>2, <2>5, <3>1, Places
    <3>2. CASE q # r
      BY <2>1, <2>2, <2>5, <3>2 DEF Witnessed
    <3>. QED  BY <3>1, <3>2
  <2>7. Settled'
    BY <2>1, <2>2, Places DEF Settled
  <2>. QED  BY <2>1, <2>3, <2>4, <2>6, <2>7 DEF Counted
<1>4. CASE LaneEnds(r)
  <2>1. PICK l \in Lanes, result \in {"passed", "failed"} :
            lane[r][l] = "todo" /\ lane' = [lane EXCEPT ![r][l] = result]
    BY <1>4 DEF LaneEnds
  <2>2. UNCHANGED <<tag, main, drafts, published, run, attempt, step, seen>>
    BY <1>4 DEF LaneEnds, world, service
  <2>3. TypeOK'
    BY <2>1, <2>2 DEF TypeOK
  <2>4. step[r] = 4
    BY <1>1, <1>4, Places DEF LaneEnds, At
  <2>5. \A q \in Runs : q # r => lane'[q] = lane[q]
    BY <2>1 DEF TypeOK
  <2>6. Qualified'
    BY <2>2, <2>4, <2>5, Places DEF Qualified
  <2>. QED  BY <2>2, <2>3, <2>6 DEF Merged, Witnessed, Settled, Counted
<1>5. CASE OfficialEnds(r)
  <2>1. step[r] = 4 /\ run[r] = "running" /\ UNCHANGED <<world, service, attempt, lane, seen>>
    BY <1>1, <1>5, Places DEF OfficialEnds, At
  <2>2. CASE Fail(r)
    <3>1. run' = [run EXCEPT ![r] = "failed"] /\ UNCHANGED <<tag, main, drafts, published, attempt, step, lane, seen>>
      BY <2>1, <2>2 DEF Fail, world, service
    <3>. QED  BY <1>1, <2>1, <3>1, Elsewhere DEF TypeOK, States, Counted
  <2>3. CASE ~ Fail(r)
    <3>1. Advance(r) /\ \A l \in Lanes : lane[r][l] = "passed"
      BY <1>5, <2>3 DEF OfficialEnds
    <3>. QED  BY <1>1, <2>1, <3>1, Advancing DEF service
  <2>. QED  BY <2>2, <2>3
<1>6. CASE CreateRelease(r)
  <2>1. /\ run[r] = "running" /\ Advance(r) /\ UNCHANGED <<world, published, attempt, lane, seen>>
        /\ Steps[step[r]] = "create"
        /\ drafts' = [drafts EXCEPT ![r] = @ + 1]
    BY <1>6 DEF CreateRelease, At
  <2>2. step[r] \notin {2, 4, 10, 11, 16}
    BY <1>1, <2>1, Places
  <2>3. drafts' \in [Owners -> Nat]
    BY <1>1, <2>1
  <2>. QED  BY <2>1, <2>2, <2>3, Advancing
<1>7. CASE PublishRelease(r)
  <2>1. /\ step[r] = 16 /\ drafts[r] > 0
        /\ published' = r /\ drafts' = [drafts EXCEPT ![r] = @ - 1]
        /\ UNCHANGED <<tag, main, attempt, step, lane, seen>>
    BY <1>1, <1>7, Places DEF PublishRelease, At, world
  <2>5. PICK end \in {"succeeded", "failed"} : run' = [run EXCEPT ![r] = end]
    BY <1>7 DEF PublishRelease
  <2>2. TypeOK'
    <3>1. drafts' \in [Owners -> Nat]
      BY <1>1, <2>1
    <3>. QED  BY <2>1, <2>5, <3>1 DEF TypeOK, Owners
  <2>3. Settled'
    BY <2>1, Places DEF TypeOK, Settled
  <2>4. Counted'
    BY <2>1, <2>5 DEF TypeOK, Counted
  <2>. QED  BY <2>1, <2>2, <2>3, <2>4 DEF Merged, Qualified, Witnessed
<1>8. CASE StepFails(r)
  <2>1. /\ run[r] = "running" /\ run' = [run EXCEPT ![r] = "failed"]
        /\ UNCHANGED <<tag, main, published, attempt, step, lane, seen>>
    BY <1>8 DEF StepFails, Fail, world
  <2>2. drafts' \in [Owners -> Nat]
    BY <1>1, <1>8 DEF StepFails
  <2>3. run' \in [Runs -> States] /\ attempt' \in [Runs -> 0..MaxAttempts]
    BY <1>1, <2>1 DEF TypeOK, States
  <2>4. \A q \in Runs : /\ run[q] = "succeeded" => run'[q] = "succeeded"
                        /\ run'[q] = "unborn" => attempt'[q] = 0
    BY <1>1, <2>1 DEF TypeOK, Counted
  <2>. QED  BY <1>1, <2>1, <2>2, <2>3, <2>4, Elsewhere DEF TypeOK
<1>. QED
  BY <1>2, <1>3, <1>4, <1>5, <1>6, <1>7, <1>8 DEF RunSteps

LEMMA NextIInv == IInv /\ [Next]_vars => IInv'
<1> SUFFICES ASSUME IInv, [Next]_vars PROVE IInv'
  OBVIOUS
<1> USE DEF IInv
<1>1. ASSUME NEW r \in Runs, PushTag(r) PROVE IInv'
  <2>1. /\ run[r] = "unborn" /\ Queue(r) /\ attempt[r] < MaxAttempts
        /\ tag' = CommitOf[r]
        /\ seen' = [q \in Runs |-> seen[q] \/ CommitOf[q] = CommitOf[r]]
        /\ UNCHANGED <<main, drafts, published, step, lane>>
    BY <1>1, WorkflowAssumption DEF PushTag, service, Counted
  <2>2. /\ run' \in [Runs -> States] /\ attempt' \in [Runs -> 0..MaxAttempts]
        /\ \A q \in Runs : run[q] = "succeeded" => run'[q] = "succeeded"
        /\ Counted'
    BY <2>1, Queued
  <2>3. \A q \in Runs : seen'[q] = (seen[q] \/ CommitOf[q] = CommitOf[r])
    BY <2>1
  <2>4. TypeOK'
    BY <2>1, <2>2, WorkflowAssumption DEF TypeOK, States
  <2>5. Witnessed'
    BY <2>1, <2>3 DEF Witnessed, TypeOK
  <2>. QED  BY <2>1, <2>2, <2>4, <2>5 DEF Merged, Qualified, Settled
<1>2. ASSUME NEW r \in Runs, Start(r) PROVE IInv'
  <2>1. /\ run[r] = "pending" /\ run' = [run EXCEPT ![r] = "running"]
        /\ UNCHANGED <<tag, main, drafts, published, attempt, step, lane, seen>>
    BY <1>2 DEF Start, world, service
  <2>2. /\ run' \in [Runs -> States] /\ attempt' \in [Runs -> 0..MaxAttempts]
        /\ \A q \in Runs : /\ run[q] = "succeeded" => run'[q] = "succeeded"
                           /\ run'[q] = "unborn" => attempt'[q] = 0
    BY <2>1 DEF TypeOK, States, Counted
  <2>. QED  BY <2>1, <2>2, Elsewhere DEF TypeOK
<1>3. ASSUME NEW r \in Runs, Rerun(r) PROVE IInv'
  <2>1. /\ run[r] \in {"failed", "cancelled"} /\ attempt[r] < MaxAttempts /\ Queue(r)
        /\ step' = [step EXCEPT ![r] = JobStart(step[r])]
        /\ lane' = [lane EXCEPT ![r] = [l \in Lanes |-> IF lane[r][l] = "passed" THEN "passed" ELSE "todo"]]
        /\ UNCHANGED <<tag, main, drafts, published, seen>>
    BY <1>3 DEF Rerun, world, service
  <2>2. /\ run' \in [Runs -> States] /\ attempt' \in [Runs -> 0..MaxAttempts]
        /\ \A q \in Runs : run[q] = "succeeded" => run'[q] = "succeeded"
        /\ Counted'
    BY <2>1, Queued
  <2>3. \A q \in Runs : step[q] \in 1..16 /\ step'[q] = IF q = r THEN JobStart(step[r]) ELSE step[q]
    BY <2>1, Places DEF TypeOK
  <2>4. step'[r] \in 1..5 /\ (step'[r] > 2 => step[r] > 2) /\ (step'[r] > 4 <=> step[r] > 4)
    BY <2>3, JobStarts
  <2>5. TypeOK'
    <3>1. step' \in [Runs -> 1..Len(Steps)]
      BY <2>1, <2>3, <2>4, Places DEF TypeOK
    <3>2. lane' \in [Runs -> [Lanes -> {"todo", "passed", "failed"}]]
      BY <2>1 DEF TypeOK
    <3>. QED  BY <2>1, <2>2, <3>1, <3>2 DEF TypeOK, States
  <2>6. Merged'
    BY <2>1, <2>3, <2>4 DEF Merged
  <2>7. Qualified'
    <3>1. \A q \in Runs, l \in Lanes : lane[q][l] = "passed" => lane'[q][l] = "passed"
      BY <2>1 DEF TypeOK
    <3>. QED  BY <2>3, <2>4, <3>1, Places DEF Qualified
  <2>8. Witnessed'
    BY <2>1, <2>3, <2>4, Places DEF Witnessed
  <2>9. Settled'
    BY <2>1, <2>3, <2>4, Places DEF Settled
  <2>. QED  BY <2>2, <2>5, <2>6, <2>7, <2>8, <2>9
<1>4. CASE OtherMerges \/ OtherDrafts
  <2>1. /\ UNCHANGED <<tag, published, run, attempt, step, lane, seen>>
        /\ main \subseteq main' /\ main' \subseteq Commits
        /\ drafts' \in [Owners -> Nat]
    BY <1>4 DEF OtherMerges, OtherDrafts, world, service, TypeOK, Owners
  <2>. QED  BY <2>1, Elsewhere DEF TypeOK, States, Counted
<1>5. CASE OtherDeletesTag
  <2>1. tag' = NoCommit /\ UNCHANGED <<main, drafts, published, run, attempt, step, lane, seen>>
    BY <1>5 DEF OtherDeletesTag, service
  <2>2. \A q \in Runs : CommitOf[q] # NoCommit
    BY WorkflowAssumption
  <2>. QED  BY <2>1, <2>2 DEF TypeOK, Merged, Qualified, Witnessed, Settled, Counted
<1>6. CASE OtherPublishes \/ OtherRemoves
  <2>1. /\ UNCHANGED <<tag, main, run, attempt, step, lane, seen>>
        /\ published' \in {published, Other, NoOne}
    BY <1>6 DEF OtherPublishes, OtherRemoves, world
  <2>2. drafts' \in [Owners -> Nat]
    <3>1. drafts \in [Owners -> Nat] /\ Other \in Owners
      BY DEF TypeOK, Owners
    <3>2. \/ UNCHANGED drafts
          \/ \E o \in Owners : drafts[o] > 0 /\ drafts' = [drafts EXCEPT ![o] = drafts[o] - 1]
      BY <1>6, <3>1 DEF OtherPublishes, OtherRemoves
    <3>. QED  BY <3>1, <3>2
  <2>3. TypeOK'
    BY <2>1, <2>2 DEF TypeOK, Owners
  <2>. QED  BY <2>1, <2>3, WorkflowAssumption DEF Merged, Qualified, Witnessed, Settled, Counted
<1>7. CASE UNCHANGED vars
  BY <1>7 DEF vars, TypeOK, Merged, Qualified, Witnessed, Settled, Counted
<1>. QED
  BY <1>1, <1>2, <1>3, <1>4, <1>5, <1>6, <1>7, RunStepsIInv DEF Next

LEMMA Inductive == Spec => []IInv
  BY InitIInv, NextIInv, PTL DEF Spec

-----------------------------------------------------------------------------
\* Every variable keeps its type; in particular no run is attempted more often
\* than the bound says.
THEOREM TypeCorrect == Spec => []TypeOK
<1>1. IInv => TypeOK
  BY DEF IInv
<1>. QED  BY <1>1, Inductive, PTL

\* What a run published passed every official lane, for a commit of main,
\* however often jobs were run again (release.yml, check_release_lineage.py).
THEOREM PublishedCorrect == Spec => []PublishedIsQualified
<1>1. IInv => PublishedIsQualified
  BY Places DEF IInv, TypeOK, Settled, Merged, Qualified, PublishedIsQualified
<1>. QED  BY <1>1, Inductive, PTL

\* Nothing is published for a tag that had moved away before the attestation
\* and has not come back: the tag is resolved once more after it.
THEOREM TagCorrect == Spec => MovedTagIsNotPublished
<1>1. IInv /\ [Next]_vars => [\A r \in Runs : published # r /\ published' = r => seen[r]]_vars
  <2> SUFFICES ASSUME IInv, Next, NEW r \in Runs, published # r, published' = r
               PROVE  seen[r]
    BY DEF vars
  <2>1. r # Other /\ r # NoOne
    BY WorkflowAssumption
  <2>2. PICK q \in Runs : PublishRelease(q)
    <3>1. ~ (OtherMerges \/ OtherDeletesTag \/ OtherDrafts \/ OtherPublishes \/ OtherRemoves)
      BY <2>1 DEF OtherMerges, OtherDeletesTag, OtherDrafts, OtherPublishes, OtherRemoves, service
    <3>2. \A q \in Runs : ~ (PushTag(q) \/ Start(q) \/ Rerun(q))
      BY DEF PushTag, Start, Rerun, service
    <3>3. \A q \in Runs : RunSteps(q) => PublishRelease(q)
      BY DEF RunSteps, ResolveTag, RequireMainAncestor, EnsureReleaseAbsent, Build, Attest,
             LaneEnds, OfficialEnds, CreateRelease, UploadAssets, StepFails, service
    <3>. QED  BY <3>1, <3>2, <3>3 DEF Next
  <2>3. q = r
    BY <2>2 DEF PublishRelease
  <2>4. step[r] \in 1..16 /\ Steps[step[r]] = "publish"
    BY <2>2, <2>3, Places DEF PublishRelease, At, IInv, TypeOK
  <2>. QED  BY <2>4, Places DEF IInv, Witnessed
<1>. QED  BY <1>1, Inductive, PTL DEF Spec, MovedTagIsNotPublished

-----------------------------------------------------------------------------
(* Two releases.  The concurrency group lets one run act, and the last look *)
(* before a draft is created finds no release of any run.                   *)

Acting(r) == run[r] = "running"
Alone == \A q, r \in Runs : Acting(q) /\ Acting(r) => q = r
\* A run that has yet to begin an attempt begins a job.
Waiting == \A r \in Runs : run[r] \in {"unborn", "pending"} => step[r] < LastAt - 2
\* Behind the last look there is only the draft of the run itself, and none
\* before it is created.
Cleared == \A r \in Runs : Acting(r) /\ step[r] >= LastAt - 2 =>
    /\ published \notin Runs
    /\ \A q \in Runs : drafts[q] > 0 => q = r /\ step[r] > LastAt - 2
Sole == Alone /\ Waiting /\ Cleared /\ OneReleaseOfOurs

\* Releases are not added, and no other run begins to act or goes on.
LEMMA Stays ==
    ASSUME IInv, IInv', Sole,
           \A q \in Runs : drafts'[q] <= drafts[q],
           published' \in Runs => published' = published,
           \A q \in Runs : Acting(q)' => Acting(q) /\ (step'[q] >= LastAt - 2 => step'[q] = step[q]),
           Waiting'
    PROVE  Sole'
<1>1. /\ \A q \in Runs : drafts[q] \in Nat /\ drafts'[q] \in Nat
      /\ \A q \in Runs : step[q] \in 1..16 /\ step'[q] \in 1..16
  BY Places DEF IInv, TypeOK, Owners
<1>2. \A q \in Runs : drafts'[q] > 0 => drafts[q] > 0 /\ (drafts[q] = 1 => drafts'[q] = 1)
  BY <1>1
<1>3. OneReleaseOfOurs'
  BY <1>2 DEF Sole, OneReleaseOfOurs
<1>4. Alone'
  BY DEF Sole, Alone
<1>5. Cleared'
  BY <1>2 DEF Sole, Cleared
<1>. QED  BY <1>3, <1>4, <1>5 DEF Sole

LEMMA NextSole == IInv /\ IInv' /\ Sole /\ [Next]_vars => Sole'
<1> SUFFICES ASSUME IInv, IInv', Sole, [Next]_vars PROVE Sole'
  OBVIOUS
<1>1. /\ \A q \in Runs : q \in Owners /\ q # Other /\ q # NoOne
      /\ drafts \in [Owners -> Nat] /\ step \in [Runs -> 1..16] /\ run \in [Runs -> States]
  BY Places, WorkflowAssumption DEF IInv, TypeOK, Owners, States
<1>2. ASSUME NEW r \in Runs, PushTag(r) \/ Rerun(r) PROVE Sole'
  <2>1. /\ run[r] # "pending" /\ run[r] # "running" /\ UNCHANGED <<drafts, published>>
        /\ run' = [q \in Runs |-> IF q = r THEN "pending"
                                  ELSE IF run[q] = "pending" THEN "cancelled" ELSE run[q]]
        /\ \/ run[r] = "unborn" /\ step' = step
           \/ step' = [step EXCEPT ![r] = JobStart(step[r])]
    BY <1>2 DEF PushTag, Rerun, Queue, service
  <2>2. JobStart(step[r]) \in 1..5
    BY <1>1, JobStarts
  <2>3. \A q \in Runs : step'[q] = step[q] \/ (q = r /\ step'[q] \in 1..5)
    BY <1>1, <2>1, <2>2
  <2>4. \A q \in Runs : /\ Acting(q)' => Acting(q) /\ q # r
                        /\ run'[q] \in {"unborn", "pending"} => q = r \/ run[q] = "unborn"
    BY <1>1, <2>1 DEF Acting
  <2>5. Waiting'
    BY <1>1, <2>1, <2>2, <2>3, <2>4, Places DEF Sole, Waiting
  <2>. QED  BY <1>1, <2>1, <2>3, <2>4, <2>5, Places, Stays
<1>3. ASSUME NEW r \in Runs, Start(r) PROVE Sole'
  <2>1. /\ run[r] = "pending" /\ \A q \in Runs : ~ Acting(q)
        /\ run' = [run EXCEPT ![r] = "running"] /\ UNCHANGED <<drafts, published, step>>
    BY <1>3 DEF Start, Acting, service
  <2>2. \A q \in Runs : Acting(q)' <=> q = r
    BY <1>1, <2>1 DEF Acting
  <2>3. Alone' /\ OneReleaseOfOurs' /\ Waiting'
    BY <1>1, <2>1, <2>2 DEF Sole, Alone, OneReleaseOfOurs, Waiting
  <2>4. Cleared'
    BY <1>1, <2>1, <2>2, Places DEF Sole, Waiting, Cleared
  <2>. QED  BY <2>3, <2>4 DEF Sole
<1>4. ASSUME NEW r \in Runs, RunSteps(r) PROVE Sole'
  <2> DEFINE s == step[r]
  <2>1. s \in 1..16 /\ Acting(r)
    BY <1>1, <1>4
    DEF RunSteps, ResolveTag, RequireMainAncestor, EnsureReleaseAbsent, Build, Attest, LaneEnds, OfficialEnds,
        CreateRelease, UploadAssets, PublishRelease, StepFails, At, Acting
  <2>2. \A q \in Runs : Acting(q) => q = r
    BY <2>1 DEF Sole, Alone
  <2>3. CASE StepFails(r)
    <3>1. run' = [run EXCEPT ![r] = "failed"] /\ UNCHANGED <<step, published>>
      BY <2>3 DEF StepFails, Fail
    <3>2. \A q \in Runs : drafts'[q] <= drafts[q]
      BY <1>1, <2>3 DEF StepFails
    <3>3. \A q \in Runs : ~ Acting(q)' /\ (run'[q] \in {"unborn", "pending"} => run'[q] = run[q])
      BY <1>1, <2>2, <3>1 DEF Acting
    <3>4. Waiting'
      BY <3>1, <3>3 DEF Sole, Waiting
    <3>. QED  BY <3>1, <3>2, <3>3, <3>4, Stays
  <2>4. CASE LaneEnds(r) \/ OfficialEnds(r)
    <3>1. s = 4 /\ UNCHANGED <<drafts, published>>
      BY <1>1, <2>1, <2>4, Places DEF LaneEnds, OfficialEnds, At, service
    <3>2. \/ UNCHANGED <<run, step>>
          \/ step' = [step EXCEPT ![r] = 5] /\ UNCHANGED run
          \/ run' = [run EXCEPT ![r] = "failed"] /\ UNCHANGED step
      BY <2>4, <3>1 DEF LaneEnds, OfficialEnds, Advance, Fail
    <3>3. \A q \in Runs : /\ Acting(q)' => Acting(q)
                          /\ step'[q] = step[q] \/ step'[q] = 5
                          /\ run'[q] \in {"unborn", "pending"} => run'[q] = run[q]
      BY <1>1, <3>2 DEF Acting
    <3>4. Waiting'
      BY <3>3, Places DEF Sole, Waiting
    <3>. QED  BY <1>1, <3>1, <3>3, <3>4, Places, Stays
  <2>5. CASE ResolveTag(r) \/ RequireMainAncestor(r) \/ Build(r) \/ Attest(r)
    <3>1. s \notin {13, 14, 15, 16} /\ Advance(r) /\ UNCHANGED <<drafts, published>>
      BY <1>1, <2>1, <2>5, Places DEF ResolveTag, RequireMainAncestor, Build, Attest, At, service
    <3>2. run' = run /\ step' = [step EXCEPT ![r] = s + 1] /\ s + 1 < 14
      BY <2>1, <3>1 DEF Advance
    <3>3. \A q \in Runs : step'[q] = step[q] \/ step'[q] < 14
      BY <1>1, <3>2
    <3>4. Waiting' /\ \A q \in Runs : Acting(q)' => Acting(q)
      BY <1>1, <3>2, <3>3, Places DEF Sole, Waiting, Acting
    <3>5. \A q \in Runs : step'[q] >= LastAt - 2 => step'[q] = step[q]
      BY <1>1, <3>2, <3>3, Places
    <3>6. \A q \in Runs : drafts'[q] <= drafts[q]
      BY <1>1, <3>1
    <3>. QED  BY <3>1, <3>4, <3>5, <3>6, Stays
  <2>6. CASE EnsureReleaseAbsent(r)
    <3>1. /\ \A q \in Runs : drafts[q] = 0
          /\ published \notin Runs
          /\ run' = run /\ step' = [step EXCEPT ![r] = s + 1] /\ UNCHANGED <<drafts, published>>
      BY <1>1, <2>6 DEF EnsureReleaseAbsent, ReleaseAbsent, Advance, service
    <3>2. Alone' /\ OneReleaseOfOurs' /\ Cleared'
      BY <1>1, <3>1 DEF Sole, Alone, Acting, OneReleaseOfOurs, Cleared
    <3>3. Waiting'
      BY <1>1, <2>1, <3>1 DEF Sole, Waiting, Acting
    <3>. QED  BY <3>2, <3>3 DEF Sole
  <2>7. CASE CreateRelease(r) \/ UploadAssets(r)
    <3>1. /\ run' = run /\ step' = [step EXCEPT ![r] = s + 1] /\ UNCHANGED published
          /\ \/ s = 14 /\ drafts' = [drafts EXCEPT ![r] = @ + 1]
             \/ s = 15 /\ UNCHANGED drafts
      BY <1>1, <2>1, <2>7, Places DEF CreateRelease, UploadAssets, At, Advance, service
    <3>2. /\ published \notin Runs
          /\ \A q \in Runs : drafts[q] > 0 => q = r /\ s > 14
      BY <2>1, <3>1, Places DEF Sole, Cleared
    <3>3. \A q \in Runs : /\ q # r => drafts'[q] = drafts[q] /\ ~ (drafts'[q] > 0)
                          /\ drafts'[r] > 0 => drafts'[r] = 1
      BY <1>1, <3>1, <3>2 DEF Sole, OneReleaseOfOurs
    <3>4. \A q \in Runs : Acting(q)' => q = r
      BY <2>2, <3>1 DEF Acting
    <3>5. step'[r] > 14
      BY <1>1, <3>1
    <3>6. Alone' /\ OneReleaseOfOurs' /\ Cleared'
      BY <3>1, <3>2, <3>3, <3>4, <3>5, Places DEF Alone, OneReleaseOfOurs, Cleared
    <3>7. Waiting'
      BY <1>1, <2>1, <3>1 DEF Sole, Waiting, Acting
    <3>. QED  BY <3>6, <3>7 DEF Sole
  <2>8. CASE PublishRelease(r)
    <3>1. /\ s = 16 /\ drafts[r] > 0 /\ published' = r
          /\ drafts' = [drafts EXCEPT ![r] = @ - 1] /\ UNCHANGED step
      BY <1>1, <2>1, <2>8, Places DEF PublishRelease, At
    <3>6. PICK end \in {"succeeded", "failed"} : run' = [run EXCEPT ![r] = end]
      BY <2>8 DEF PublishRelease
    <3>2. drafts[r] = 1 /\ \A q \in Runs : drafts[q] > 0 => q = r
      BY <3>1 DEF Sole, OneReleaseOfOurs
    <3>3. \A q \in Runs : drafts'[q] = 0
      BY <1>1, <3>1, <3>2
    <3>4. \A q \in Runs : ~ Acting(q)' /\ (run'[q] \in {"unborn", "pending"} => run'[q] = run[q])
      BY <1>1, <2>2, <3>1, <3>6 DEF Acting
    <3>5. Waiting'
      BY <3>1, <3>4 DEF Sole, Waiting
    <3>. QED  BY <3>3, <3>4, <3>5 DEF Sole, Alone, Cleared, OneReleaseOfOurs
  <2>. QED  BY <1>4, <2>3, <2>4, <2>5, <2>6, <2>7, <2>8 DEF RunSteps
<1>5. CASE OtherMerges \/ OtherDeletesTag \/ OtherDrafts \/ OtherPublishes \/ OtherRemoves \/ UNCHANGED vars
  <2>1. /\ UNCHANGED <<run, step>>
        /\ published' \in {published, Other, NoOne}
    BY <1>5 DEF OtherMerges, OtherDeletesTag, OtherDrafts, OtherPublishes, OtherRemoves, vars, service
  <2>2. \A q \in Runs : drafts'[q] <= drafts[q]
    <3>1. \/ UNCHANGED drafts \/ drafts' = [drafts EXCEPT ![Other] = 1]
          \/ \E o \in Owners : drafts' = [drafts EXCEPT ![o] = @ - 1] /\ drafts[o] > 0
      BY <1>1, <1>5 DEF OtherMerges, OtherDeletesTag, OtherDrafts, OtherPublishes, OtherRemoves, vars, service, Owners
    <3>. QED  BY <1>1, <3>1
  <2>3. Waiting' /\ \A q \in Runs : Acting(q)' => Acting(q)
    BY <2>1 DEF Sole, Waiting, Acting
  <2>. QED  BY <1>1, <2>1, <2>2, <2>3, Stays
<1>. QED  BY <1>2, <1>3, <1>4, <1>5 DEF Next

\* The workflow never has two releases of the tag, however its runs fail and
\* are started again: the group of release.yml lets one of them act, and the
\* last step before gh release create looks for drafts, too.
THEOREM OneCorrect == Spec => []OneReleaseOfOurs
<1>1. Init => Sole
  BY Places, WorkflowAssumption DEF Init, Sole, Alone, Acting, Waiting, Cleared, OneReleaseOfOurs, Owners
<1>2. Sole => OneReleaseOfOurs
  BY DEF Sole
<1>. QED  BY <1>1, <1>2, NextSole, Inductive, PTL DEF Spec
-----------------------------------------------------------------------------
(* The promise of README.md, as GatedRelease states it.                     *)

QualifiedRuns == {r \in Runs : CommitOf[r] \in main /\ \A l \in Lanes : lane[r][l] = "passed"}
Drafted == {r \in Runs : drafts[r] > 0}
Released == {r \in Runs : published = r}

\* Neither a merge nor a lane that passed is taken back.
LEMMA QualifiedGrows == IInv /\ [Next]_vars => QualifiedRuns \subseteq QualifiedRuns'
<1> SUFFICES ASSUME IInv, [Next]_vars PROVE QualifiedRuns \subseteq QualifiedRuns'
  OBVIOUS
<1>1. lane \in [Runs -> [Lanes -> {"todo", "passed", "failed"}]]
  BY DEF IInv, TypeOK
<1>2. main \subseteq main' /\ \A q \in Runs, l \in Lanes : lane[q][l] = "passed" => lane'[q][l] = "passed"
  <2>1. ASSUME NEW r \in Runs, PushTag(r) \/ Start(r) PROVE UNCHANGED <<main, lane>>
    BY <2>1 DEF PushTag, Start, world
  <2>2. ASSUME NEW r \in Runs, Rerun(r)
        PROVE  main' = main /\ \A q \in Runs, l \in Lanes : lane[q][l] = "passed" => lane'[q][l] = "passed"
    <3>1. /\ main' = main
          /\ lane' = [lane EXCEPT ![r] = [l \in Lanes |-> IF lane[r][l] = "passed" THEN "passed" ELSE "todo"]]
      BY <2>2 DEF Rerun, world
    <3>. QED  BY <1>1, <3>1
  <2>3. ASSUME NEW r \in Runs, LaneEnds(r)
        PROVE  main' = main /\ \A q \in Runs, l \in Lanes : lane[q][l] = "passed" => lane'[q][l] = "passed"
    <3>1. PICK k \in Lanes, result \in {"passed", "failed"} :
              lane[r][k] = "todo" /\ lane' = [lane EXCEPT ![r][k] = result]
      BY <2>3 DEF LaneEnds
    <3>2. main' = main
      BY <2>3 DEF LaneEnds, world
    <3>. QED  BY <1>1, <3>1, <3>2
  <2>4. ASSUME NEW r \in Runs, RunSteps(r), ~ LaneEnds(r) PROVE UNCHANGED <<main, lane>>
    BY <2>4 DEF RunSteps, ResolveTag, RequireMainAncestor, EnsureReleaseAbsent, Build, Attest, OfficialEnds,
                CreateRelease, UploadAssets, PublishRelease, StepFails, world
  <2>5. CASE OtherMerges \/ OtherDeletesTag \/ OtherDrafts \/ OtherPublishes \/ OtherRemoves \/ UNCHANGED vars
    BY <2>5 DEF OtherMerges, OtherDeletesTag, OtherDrafts, OtherPublishes, OtherRemoves, world, vars
  <2>. QED  BY <2>1, <2>2, <2>3, <2>4, <2>5 DEF Next
<1>. QED  BY <1>2 DEF QualifiedRuns

\* The releases of the runs change in three ways only: a draft of a qualified
\* run when there is nothing yet, a draft that goes, a draft that is published.
LEMMA ReleasesChange ==
    ASSUME IInv, Sole, [Next]_vars
    PROVE  \/ Drafted' = Drafted /\ Released' = Released
           \/ /\ QualifiedRuns' = QualifiedRuns
              /\ \E r \in Runs :
                   \/ /\ r \in QualifiedRuns /\ Drafted = {} /\ Released = {}
                      /\ Drafted' = {r} /\ Released' = Released
                   \/ r \in Drafted /\ Drafted' = Drafted \ {r} /\ Released' = Released
                   \/ r \in Drafted /\ Drafted' = Drafted \ {r} /\ Released' = {r}
<1>1. /\ \A q \in Runs : q \in Owners /\ q # Other /\ q # NoOne
      /\ drafts \in [Owners -> Nat] /\ step \in [Runs -> 1..16]
  BY Places, WorkflowAssumption DEF IInv, TypeOK, Owners
\* A draft of a run, or of others, goes.
<1>2. ASSUME NEW o \in Owners, drafts[o] > 0, drafts' = [drafts EXCEPT ![o] = drafts[o] - 1]
      PROVE  Drafted' = Drafted \/ (o \in Drafted /\ Drafted' = Drafted \ {o})
  <2>1. CASE o \in Runs
    <3>1. drafts[o] = 1
      BY <1>2, <2>1 DEF Sole, OneReleaseOfOurs
    <3>2. drafts'[o] = 0 /\ \A q \in Runs : q # o => drafts'[q] = drafts[q]
      BY <1>1, <1>2, <3>1
    <3>. QED  BY <1>2, <2>1, <3>2 DEF Drafted
  <2>2. CASE o \notin Runs
    <3>1. \A q \in Runs : drafts'[q] = drafts[q]
      BY <1>1, <1>2, <2>2
    <3>. QED  BY <3>1 DEF Drafted
  <2>. QED  BY <2>1, <2>2
<1>3. ASSUME NEW r \in Runs, CreateRelease(r)
      PROVE  /\ r \in QualifiedRuns /\ Drafted = {} /\ Released = {}
             /\ Drafted' = {r} /\ Released' = Released /\ QualifiedRuns' = QualifiedRuns
  <2>1. /\ step[r] = 14 /\ Acting(r) /\ drafts' = [drafts EXCEPT ![r] = drafts[r] + 1]
        /\ UNCHANGED <<main, published, lane>>
    BY <1>1, <1>3, Places DEF CreateRelease, At, Acting, world
  <2>2. published \notin Runs /\ \A q \in Runs : drafts[q] = 0
    <3>1. published \notin Runs /\ \A q \in Runs : ~ (drafts[q] > 0)
      BY <2>1, Places DEF Sole, Cleared
    <3>. QED  BY <1>1, <3>1
  <2>3. \A q \in Runs : drafts'[q] = IF q = r THEN 1 ELSE 0
    BY <1>1, <2>1, <2>2
  <2>4. r \in QualifiedRuns
    BY <2>1, Places DEF IInv, Merged, Qualified, QualifiedRuns
  <2>5. Drafted = {} /\ Drafted' = {r}
    BY <2>2, <2>3 DEF Drafted
  <2>6. Released = {} /\ Released' = Released /\ QualifiedRuns' = QualifiedRuns
    BY <2>1, <2>2 DEF Released, QualifiedRuns
  <2>. QED  BY <2>4, <2>5, <2>6
<1>4. ASSUME NEW r \in Runs, PublishRelease(r)
      PROVE  /\ r \in Drafted /\ Drafted' = Drafted \ {r} /\ Released' = {r}
             /\ QualifiedRuns' = QualifiedRuns
  <2>1. /\ drafts[r] > 0 /\ drafts' = [drafts EXCEPT ![r] = drafts[r] - 1]
        /\ published' = r /\ UNCHANGED <<main, lane>>
    BY <1>4 DEF PublishRelease, world
  <2>2. drafts[r] = 1
    BY <2>1 DEF Sole, OneReleaseOfOurs
  <2>3. drafts'[r] = 0 /\ \A q \in Runs : q # r => drafts'[q] = drafts[q]
    BY <1>1, <2>1, <2>2
  <2>4. r \in Drafted /\ Drafted' = Drafted \ {r}
    BY <2>1, <2>3 DEF Drafted
  <2>. QED  BY <2>1, <2>4 DEF Released, QualifiedRuns
<1>5. ASSUME NEW r \in Runs, StepFails(r)
      PROVE  /\ Released' = Released /\ QualifiedRuns' = QualifiedRuns
             /\ Drafted' = Drafted \/ (r \in Drafted /\ Drafted' = Drafted \ {r})
  <2>1. /\ UNCHANGED <<main, published, lane>>
        /\ UNCHANGED drafts \/ (drafts[r] > 0 /\ drafts' = [drafts EXCEPT ![r] = drafts[r] - 1])
    BY <1>5 DEF StepFails, world
  <2>2. Released' = Released /\ QualifiedRuns' = QualifiedRuns
    BY <2>1 DEF Released, QualifiedRuns
  <2>3. CASE UNCHANGED drafts
    BY <2>2, <2>3 DEF Drafted
  <2>4. CASE ~ UNCHANGED drafts
    <3>1. r \in Owners /\ drafts[r] > 0 /\ drafts' = [drafts EXCEPT ![r] = drafts[r] - 1]
      BY <1>1, <2>1, <2>4
    <3>. QED  BY <1>2, <2>2, <3>1
  <2>. QED  BY <2>3, <2>4
<1>6. CASE OtherRemoves
  <2>1. UNCHANGED <<main, lane>>
    BY <1>6 DEF OtherRemoves, world
  <2>2. QualifiedRuns' = QualifiedRuns
    BY <2>1 DEF QualifiedRuns
  <2>3. CASE published = Other /\ published' = NoOne /\ UNCHANGED drafts
    BY <1>1, <2>3 DEF Drafted, Released
  <2>4. CASE \E o \in Owners : drafts[o] > 0 /\ drafts' = [drafts EXCEPT ![o] = drafts[o] - 1] /\ UNCHANGED published
    <3>1. PICK o \in Owners : drafts[o] > 0 /\ drafts' = [drafts EXCEPT ![o] = drafts[o] - 1] /\ UNCHANGED published
      BY <2>4
    <3>2. Released' = Released
      BY <3>1 DEF Released
    <3>3. Drafted' = Drafted \/ (o \in Drafted /\ Drafted' = Drafted \ {o})
      BY <1>2, <3>1
    <3>4. o \in Drafted => o \in Runs
      BY DEF Drafted
    <3>. QED  BY <2>2, <3>2, <3>3, <3>4
  <2>. QED  BY <1>6, <2>3, <2>4 DEF OtherRemoves
<1>7. CASE OtherDrafts \/ OtherPublishes
  <2>1. /\ \A q \in Runs : drafts'[q] = drafts[q]
        /\ published' = published \/ (published = NoOne /\ published' = Other)
    BY <1>1, <1>7 DEF OtherDrafts, OtherPublishes
  <2>2. Drafted' = Drafted
    BY <2>1 DEF Drafted
  <2>3. Released' = Released
    BY <1>1, <2>1 DEF Released
  <2>. QED  BY <2>2, <2>3
<1>8. ASSUME UNCHANGED <<drafts, published>> PROVE Drafted' = Drafted /\ Released' = Released
  BY <1>8 DEF Drafted, Released
<1>9. CASE OtherMerges \/ OtherDeletesTag \/ UNCHANGED vars
  BY <1>8, <1>9 DEF OtherMerges, OtherDeletesTag, vars, service
<1>10. ASSUME NEW r \in Runs,
              \/ PushTag(r) \/ Start(r) \/ Rerun(r) \/ ResolveTag(r) \/ RequireMainAncestor(r)
              \/ EnsureReleaseAbsent(r) \/ Build(r) \/ Attest(r) \/ LaneEnds(r) \/ OfficialEnds(r)
              \/ UploadAssets(r)
       PROVE  Drafted' = Drafted /\ Released' = Released
  BY <1>8, <1>10 DEF PushTag, Start, Rerun, ResolveTag, RequireMainAncestor, EnsureReleaseAbsent, Build,
                     Attest, LaneEnds, OfficialEnds, UploadAssets, service
<1>. QED  BY <1>3, <1>4, <1>5, <1>6, <1>7, <1>9, <1>10, Zenon DEF Next, RunSteps

LEMMA GateStep == IInv /\ Sole /\ [Next]_vars => [Gate!Next]_(Gate!vars)
<1> SUFFICES ASSUME IInv, Sole, [Next]_vars PROVE [Gate!Next]_(Gate!vars)
  OBVIOUS
<1>1. QualifiedRuns \subseteq QualifiedRuns' /\ QualifiedRuns' \in SUBSET Runs
  BY QualifiedGrows DEF QualifiedRuns
<1>2. CASE Drafted' = Drafted /\ Released' = Released
  <2>1. Gate!Qualify
    BY <1>1, <1>2 DEF Gate!Qualify, QualifiedRuns, Drafted, Released
  <2>. QED  BY <2>1 DEF Gate!Next
<1>3. ASSUME NEW r \in Runs, QualifiedRuns' = QualifiedRuns,
             r \in QualifiedRuns, Drafted = {}, Released = {}, Drafted' = {r}, Released' = Released
      PROVE  Gate!Next
  <2>1. Gate!CreateNew(r)
    BY <1>3 DEF Gate!CreateNew, QualifiedRuns, Drafted, Released
  <2>. QED  BY <2>1 DEF Gate!Next
<1>4. ASSUME NEW r \in Runs, QualifiedRuns' = QualifiedRuns,
             r \in Drafted, Drafted' = Drafted \ {r}, Released' = Released
      PROVE  Gate!Next
  <2>1. Gate!Withdraw(r)
    BY <1>4 DEF Gate!Withdraw, QualifiedRuns, Drafted, Released
  <2>. QED  BY <2>1 DEF Gate!Next
<1>5. ASSUME NEW r \in Runs, QualifiedRuns' = QualifiedRuns,
             r \in Drafted, Drafted' = Drafted \ {r}, Released' = {r}
      PROVE  Gate!Next
  <2>1. Gate!Publish(r)
    BY <1>5 DEF Gate!Publish, QualifiedRuns, Drafted, Released
  <2>. QED  BY <2>1 DEF Gate!Next
<1>. QED  BY <1>2, <1>3, <1>4, <1>5, ReleasesChange

\* What README.md ("Release controls") promises of tag publication holds of any
\* number of runs of release.yml, and of any behaviour of the people around it: a
\* new draft for a qualified run while there is no other, its publication, and
\* nothing after it.
THEOREM WorkflowIsGated == Spec => GatedSpec
<1>1. Init => Gate!Init
  <2> SUFFICES ASSUME Init PROVE Gate!Init
    OBVIOUS
  <2>1. \A r \in Runs : r \in Owners /\ r # NoOne
    BY WorkflowAssumption DEF Owners
  <2>2. \A r \in Runs : drafts[r] = 0 /\ published # r
    BY <2>1 DEF Init
  <2>. QED  BY <2>2 DEF Gate!Init
<1>2. Init => Sole
  BY Places, WorkflowAssumption DEF Init, Sole, Alone, Acting, Waiting, Cleared, OneReleaseOfOurs, Owners
<1>. QED
  BY <1>1, <1>2, NextSole, Inductive, GateStep, PTL DEF Spec, GatedSpec, Gate!Spec
=============================================================================

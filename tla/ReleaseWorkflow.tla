--------------------------- MODULE ReleaseWorkflow ---------------------------
(***************************************************************************)
(* .github/workflows/release.yml with scripts/check_release_lineage.py.    *)
(* A push of a version tag starts a run for the commit the tag names then. *)
(* Runs of one tag share a concurrency group; failed runs are started      *)
(* again by people; the tag, main and the releases change under the run.   *)
(***************************************************************************)
EXTENDS Naturals, Sequences

CONSTANTS Runs,         \* runs of the workflow, one for each push of the tag
          Commits,
          CommitOf,     \* GITHUB_SHA of a run
          Lanes,        \* the lanes of the official suite
          Other,        \* everybody else, as the owner of a release
          NoOne, NoCommit,
          MaxAttempts   \* bound of the model: attempts of a run

ASSUME WorkflowAssumption ==
    /\ CommitOf \in [Runs -> Commits]
    /\ Other \notin Runs /\ NoOne \notin Runs \cup {Other}
    /\ NoCommit \notin Commits
    /\ MaxAttempts \in Nat

VARIABLES
    tag,        \* the commit the tag names, NoCommit when it is deleted
    main,       \* the commits in the history of protected main
    drafts,     \* drafts of the tag, counted by owner
    published,  \* owner of the published release: the service allows one
    run,        \* state of every run in the concurrency group
    attempt,
    step,       \* the step a run is at
    lane,       \* results of the official lanes of a run
    seen        \* observation only: the tag has named the run's commit at
                \* some time since the attestation of the run

vars == <<tag, main, drafts, published, run, attempt, step, lane, seen>>
world == <<tag, main>>
service == <<drafts, published>>

Owners == Runs \cup {Other}

-----------------------------------------------------------------------------
(* The three jobs are one line of steps; a job that is run again starts at *)
(* its first step.                                                         *)

VerifyJob  == <<"resolve", "ancestry", "absent">>
ReleaseJob == <<"resolve", "ancestry", "absent", "build", "absent", "attest",
                "resolve", "ancestry", "absent", "create", "upload", "publish">>
Steps == VerifyJob \o <<"official">> \o ReleaseJob

OfficialAt == Len(VerifyJob) + 1
JobStart(k) == IF k < OfficialAt THEN 1
               ELSE IF k = OfficialAt THEN OfficialAt ELSE OfficialAt + 1

TypeOK ==
    /\ tag \in Commits \cup {NoCommit}
    /\ main \subseteq Commits
    /\ drafts \in [Owners -> Nat]
    /\ published \in Owners \cup {NoOne}
    /\ run \in [Runs -> {"unborn", "pending", "running", "failed", "cancelled", "succeeded"}]
    /\ attempt \in [Runs -> 0..MaxAttempts]
    /\ step \in [Runs -> 1..Len(Steps)]
    /\ lane \in [Runs -> [Lanes -> {"todo", "passed", "failed"}]]
    /\ seen \in [Runs -> BOOLEAN]

Init ==
    /\ tag = NoCommit
    /\ main \in SUBSET Commits
    /\ drafts = [o \in Owners |-> 0]
    /\ published = NoOne
    /\ run = [r \in Runs |-> "unborn"]
    /\ attempt = [r \in Runs |-> 0]
    /\ step = [r \in Runs |-> 1]
    /\ lane = [r \in Runs |-> [l \in Lanes |-> "todo"]]
    /\ seen = [r \in Runs |-> FALSE]

-----------------------------------------------------------------------------
(* Runs and the concurrency group. *)

At(r, name) == run[r] = "running" /\ Steps[step[r]] = name

Advance(r) == step' = [step EXCEPT ![r] = @ + 1] /\ UNCHANGED run

\* A step that fails ends its job, and with it the run.
Fail(r) == run' = [run EXCEPT ![r] = "failed"] /\ UNCHANGED step

\* A run waits for its turn; one that waited before it is cancelled.
Queue(r) ==
    /\ run' = [q \in Runs |-> IF q = r THEN "pending"
                              ELSE IF run[q] = "pending" THEN "cancelled" ELSE run[q]]
    /\ attempt' = [attempt EXCEPT ![r] = @ + 1]

\* A push of the tag creates or moves it, and starts a run for its commit.
PushTag(r) ==
    /\ run[r] = "unborn" /\ MaxAttempts > 0
    /\ tag # CommitOf[r]
    /\ tag' = CommitOf[r]
    /\ seen' = [q \in Runs |-> seen[q] \/ CommitOf[q] = CommitOf[r]]
    /\ Queue(r)
    /\ UNCHANGED <<main, service, step, lane>>

\* Mutant: no concurrency group.
StartUngrouped(r) ==
    /\ run[r] = "pending"
    /\ run' = [run EXCEPT ![r] = "running"]
    /\ UNCHANGED <<world, service, attempt, step, lane, seen>>

Start(r) ==
    /\ run[r] = "pending"
    /\ \A q \in Runs : run[q] # "running"
    /\ run' = [run EXCEPT ![r] = "running"]
    /\ UNCHANGED <<world, service, attempt, step, lane, seen>>

\* "Re-run failed jobs": jobs and lanes that passed keep their result.
Rerun(r) ==
    /\ run[r] \in {"failed", "cancelled"}
    /\ attempt[r] < MaxAttempts
    /\ Queue(r)
    /\ step' = [step EXCEPT ![r] = JobStart(@)]
    /\ lane' = [lane EXCEPT ![r] = [l \in Lanes |-> IF @[l] = "passed" THEN "passed" ELSE "todo"]]
    /\ UNCHANGED <<world, service, seen>>

-----------------------------------------------------------------------------
(* The steps of a run. *)

\* Mutant: the tag is not compared with the commit of the run.
ResolveTagUnchecked(r) ==
    /\ At(r, "resolve")
    /\ tag # NoCommit
    /\ Advance(r)
    /\ UNCHANGED <<world, service, attempt, lane, seen>>

\* GET git/ref/tags/{tag}, and the tag object if it is annotated.
ResolveTag(r) ==
    /\ At(r, "resolve")
    /\ tag = CommitOf[r]
    /\ Advance(r)
    /\ UNCHANGED <<world, service, attempt, lane, seen>>

\* Mutant: the comparison with main is not made.
RequireMainAncestorSkipped(r) ==
    /\ At(r, "ancestry")
    /\ Advance(r)
    /\ UNCHANGED <<world, service, attempt, lane, seen>>

\* GET branches/main, then the comparison of the two commits.
RequireMainAncestor(r) ==
    /\ At(r, "ancestry")
    /\ CommitOf[r] \in main
    /\ Advance(r)
    /\ UNCHANGED <<world, service, attempt, lane, seen>>

\* Mutant: drafts are not looked for.
ReleaseAbsentPublished == published = NoOne
ReleaseAbsent == published = NoOne /\ \A o \in Owners : drafts[o] = 0

EnsureReleaseAbsent(r) ==
    /\ At(r, "absent")
    /\ ReleaseAbsent
    /\ Advance(r)
    /\ UNCHANGED <<world, service, attempt, lane, seen>>

\* Tests, build, source archive, bill of materials, signatures.
Build(r) ==
    /\ At(r, "build")
    /\ Advance(r)
    /\ UNCHANGED <<world, service, attempt, lane, seen>>

Attest(r) ==
    /\ At(r, "attest")
    /\ seen' = [seen EXCEPT ![r] = (tag = CommitOf[r])]
    /\ Advance(r)
    /\ UNCHANGED <<world, service, attempt, lane>>

\* The lanes end in any order; none stops the others (fail-fast: false).
LaneEnds(r) ==
    /\ At(r, "official")
    /\ \E l \in Lanes, result \in {"passed", "failed"} :
          /\ lane[r][l] = "todo"
          /\ lane' = [lane EXCEPT ![r][l] = result]
    /\ UNCHANGED <<world, service, run, attempt, step, seen>>

\* Mutant: the release job waits for the lanes and not for their results.
OfficialEndsUnqualified(r) ==
    /\ At(r, "official")
    /\ \A l \in Lanes : lane[r][l] # "todo"
    /\ Advance(r)
    /\ UNCHANGED <<world, service, attempt, lane, seen>>

OfficialEnds(r) ==
    /\ At(r, "official")
    /\ \A l \in Lanes : lane[r][l] # "todo"
    /\ IF \A l \in Lanes : lane[r][l] = "passed" THEN Advance(r) ELSE Fail(r)
    /\ UNCHANGED <<world, service, attempt, lane, seen>>

\* gh release create: a draft, if the tag exists (--verify-tag); the assets;
\* and the draft is published.
CreateRelease(r) ==
    /\ At(r, "create")
    /\ tag # NoCommit
    /\ drafts' = [drafts EXCEPT ![r] = @ + 1]
    /\ Advance(r)
    /\ UNCHANGED <<world, published, attempt, lane, seen>>

UploadAssets(r) ==
    /\ At(r, "upload")
    /\ Advance(r)
    /\ UNCHANGED <<world, service, attempt, lane, seen>>

\* The release may be published and the answer lost: the job fails, and may
\* be run again.  (A clean-up that gh then makes of what it takes for a draft is
\* one of the outcomes of StepFails.)
PublishRelease(r) ==
    /\ At(r, "publish")
    /\ published = NoOne /\ drafts[r] > 0
    /\ published' = r
    /\ drafts' = [drafts EXCEPT ![r] = @ - 1]
    /\ \E end \in {"succeeded", "failed"} : run' = [run EXCEPT ![r] = end]
    /\ UNCHANGED <<world, attempt, step, lane, seen>>

\* A check refuses, a request fails or a command exits with an error. gh then
\* removes the draft it could not complete, if it still can.
StepFails(r) ==
    /\ run[r] = "running" /\ Steps[step[r]] # "official"
    /\ Fail(r)
    /\ \/ UNCHANGED drafts
       \/ /\ Steps[step[r]] \in {"upload", "publish"} /\ drafts[r] > 0
          /\ drafts' = [drafts EXCEPT ![r] = @ - 1]
    /\ UNCHANGED <<world, published, attempt, lane, seen>>

RunSteps(r) ==
    \/ ResolveTag(r) \/ RequireMainAncestor(r) \/ EnsureReleaseAbsent(r)
    \/ Build(r) \/ Attest(r) \/ LaneEnds(r) \/ OfficialEnds(r)
    \/ CreateRelease(r) \/ UploadAssets(r) \/ PublishRelease(r) \/ StepFails(r)

-----------------------------------------------------------------------------
(* Everybody else. *)

\* main only grows: force pushes to it are refused.
OtherMerges ==
    /\ \E c \in Commits \ main : main' = main \cup {c}
    /\ UNCHANGED <<tag, service, run, attempt, step, lane, seen>>

OtherDeletesTag ==
    /\ tag # NoCommit
    /\ tag' = NoCommit
    /\ UNCHANGED <<main, service, run, attempt, step, lane, seen>>

OtherDrafts ==
    /\ drafts[Other] = 0
    /\ drafts' = [drafts EXCEPT ![Other] = 1]
    /\ UNCHANGED <<world, published, run, attempt, step, lane, seen>>

OtherPublishes ==
    /\ published = NoOne /\ drafts[Other] > 0
    /\ published' = Other
    /\ drafts' = [drafts EXCEPT ![Other] = @ - 1]
    /\ UNCHANGED <<world, run, attempt, step, lane, seen>>

\* A person removes a draft, whose it may be, or a release of others.
OtherRemoves ==
    /\ \/ /\ \E o \in Owners : drafts[o] > 0 /\ drafts' = [drafts EXCEPT ![o] = @ - 1]
          /\ UNCHANGED published
       \/ /\ published = Other
          /\ published' = NoOne
          /\ UNCHANGED drafts
    /\ UNCHANGED <<world, run, attempt, step, lane, seen>>

Next ==
    \/ \E r \in Runs : PushTag(r) \/ Start(r) \/ Rerun(r) \/ RunSteps(r)
    \/ OtherMerges \/ OtherDeletesTag \/ OtherDrafts \/ OtherPublishes \/ OtherRemoves

Spec == Init /\ [][Next]_vars

-----------------------------------------------------------------------------
(* Properties. *)

\* What a run publishes passed every official lane, for a commit of main.
PublishedIsQualified ==
    published \in Runs =>
        /\ CommitOf[published] \in main
        /\ \A l \in Lanes : lane[published][l] = "passed"

\* However runs fail, wait, are started again and leave drafts behind, the
\* workflow never has two releases of the tag at the service.
OneReleaseOfOurs ==
    /\ \A r \in Runs : drafts[r] > 0 => drafts[r] = 1 /\ published \notin Runs
    /\ \A q, r \in Runs : drafts[q] > 0 /\ drafts[r] > 0 => q = r

\* Nothing is published for a tag that had moved away from the commit of the
\* run before its artifacts were attested, and did not come back.
MovedTagIsNotPublished ==
    [][\A r \in Runs : published # r /\ published' = r => seen[r]]_vars

\* The workflow keeps the promise of README.md ("Release controls"): a draft
\* is created only for a run that passed every lane with a commit of main,
\* while there is no draft and no release of any run; what is published is
\* that draft, and after it the workflow creates nothing.
Gate == INSTANCE GatedRelease WITH
    qualified <- {r \in Runs : CommitOf[r] \in main /\ \A l \in Lanes : lane[r][l] = "passed"},
    drafted   <- {r \in Runs : drafts[r] > 0},
    released  <- {r \in Runs : published = r}
GatedSpec == Gate!Spec
=============================================================================

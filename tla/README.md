# A verification model of marty-integration-tests

The repository qualifies other people's software: it brings up a stack of Marty,
runs official conformance suites and release controls against it, and writes
evidence that says whether the stack, an image or a release qualifies.  The
risk in such a program is not the happy path.  It is that something is called
qualified that is not, or that the program removes, publishes or leaves behind
what it should not - after a lost answer, a repeated job, a killed process, a
second run on the same machine or a person who edits a release meanwhile.
These modules model those parts and say what may be relied on.

Contents: 1 the system, 2 the modules and the code, 3 the runs, 4 fairness,
5 the proofs, 6 what is only model-checked, 7 where code and documents disagree,
8 what the models leave out, 9 the plan.

## 1. The system

Every component is listed in `PROJECT.json` with its sources and status.  What
follows is what each one keeps and does, how it interacts, what is hard about
it and what would make it correct.

### Release controls

| Component | State | Operations | Interacts with | Hard behaviour | Correct when |
|---|---|---|---|---|---|
| `probe_release_lookup.py` (`exercise`) | a receipt file with an owner nonce, one draft release | create a draft, look for it, have it refused, remove it, recheck the tag | the GitHub release service, other maintainers and workflows | lost answers, interrupts, a draft that is edited or published between check and DELETE | it returns only if its draft, or a release put in its place, was refused, its draft is gone and the tag held still; it touches nothing else; what it leaves can be found |
| `check_release_absent.py` | none | one lookup by tag, permissions, pages of the listing | the release service, which changes between the pages | pagination under change, the page bound | "absent" is never said of a tag that is held |
| `release.yml`, `check_release_lineage.py` | job results, the tag, `main`, drafts and releases | three jobs of steps, `gh release create` | concurrency groups, people who re-run failed jobs or move the tag | repeated attempts, a dead runner between draft and publication | what is published was qualified, once, for the commit the tag named |

### OIDF conformance

| Component | State | Operations | Interacts with | Hard behaviour | Correct when |
|---|---|---|---|---|---|
| `oidf_conformance.py` (`cmd_run`) | the processes it started, the current module, `evidence.json` | read the runner's output, start a hook per module, wait, judge | the official runner and suite (external), hooks | hooks that overlap and fail, partial exports, a suite that goes down | "passed" stands for every module of the plan; no hook outlives the run |
| `oidf_marty_verifier.py` | none of its own | poll the module, start a flow, submit, reconcile | suite, flow command | the module ends while the hook works | a failed submission is excused only if the module had finished |
| `oidf_marty_start_verification.py`, `oidf_marty_public_login.py` | Marty's issuer entities, relationships, flows; audit records | govern the issuer, start a flow, record it | Marty's API | find-or-create by two hooks at once, lost answers | what reaches the suite is recorded and governed |
| `oidf_marty_offer.py` and the issuance commands | the number of the interaction | poll, create an offer, deliver it, once or twice | suite, Marty | a stale WAITING between two offers, keys only one transport looks at | success means an offer for every client; an offer reaches its own client |
| browser helpers | a browser container | console steps | Marty's pages | - | not modelled |

### Stacks and lanes

| Component | State | Operations | Interacts with | Hard behaviour | Correct when |
|---|---|---|---|---|---|
| `official_suite_compose.py` and the launchers `oidf_runner_compose.py`, `eudi_reference_compose.py` | three Compose projects, a network, generated files | `up`, `down`, `logs`, `ps` | Docker; the projects depend on a network of Marty's project | failures half-way, unwinding, teardown without the generated files | an answer of zero is complete; a failed start is unwound, and where an exception gets past the unwinding is known; Marty goes last |
| `haip_test_certificates.py` | a disposable authority, a leaf | stage, refresh, discard | Marty serves the leaf | the key must not outlive its use | the suite sees the final certificate, the key is gone |
| `official_interoperability_lane.py` | the lane's results | one lane of seven kinds | all of the above | exceptions in `finally`, chains of results | a pass means that every part passed; the stack is taken down |
| `official_kms_bootstrap.py` | the KMS containers of the project | a sequence before the lane | Docker, OpenBao | a lane that fails before its teardown | covered as the initial state of the lanes |
| `public_boundary_lane.py` | the project of the trust registry, the sender's custody directory, `pytest.xml`, a summary | a lane like the others | Marty, the registry | a summary or logs that raise in `finally`, a `pytest.xml` of an earlier run | a summary that says passed is of this run; the custody is removed, and the projects unless an exception cut the clean-up short |
| `trust_registry_fixture.py` | a feed and counters | four operations under one lock | the boundary lane's tests | - | the server is not modelled |
| `run_remote_kms_verifier_fixture.py`, `bootstrap_*.sh` | one container, two agents | start, wait, run a command, clean up | Docker, OpenBao | an agent that survives its kill, a container that starts after `docker run` timed out | neither agent nor container is left by a fixture that exits with 0 |

### Artifacts

| Component | State | Operations | Interacts with | Hard behaviour | Correct when |
|---|---|---|---|---|---|
| `credentials_verifier_artifact.py` | a staged archive, two tags of the daemon, containers, evidence | `run-candidate` and three related commands | Docker, `gh`, other runs on the daemon | tags that name a commit and not a build, commands that time out after their effect, kills | the image that passed is the pinned one; nothing of others is touched; nothing of its own is left; evidence and exit code agree |

### Fixtures

| Component | State | Operations | Interacts with | Hard behaviour | Correct when |
|---|---|---|---|---|---|
| `official_fixture_bootstrap.py` | the identifiers it has been answered, one private file | six modes, each a sequence of requests to Marty's public API | Marty; other bootstraps of the same organization | nothing is compensated, identities and metadata are shared, an API key exists before it is on file | nothing active rests on what is not; a run that returned has written down its own fixtures |

### Evidence, pins and clients

`official_stack_release.py`,
`official_suite_updates.py`, `official_suite_checkout.py` and
`render_stack_env.py` resolve and compare pins.  `eudi_reference_interop.py`,
`w3c_vc_conformance.py` run two further suites; `eudi_test_material.py`
generates their TLS files.  `sanitize_official_evidence.py`, the review scripts
and the audits read finished evidence.  The Kotlin wallet harness, the Rust
DIDComm verifier, the gateway tests and the self-hosted journeys are clients of
systems in other repositories.  None of them is modelled; `PROJECT.json` gives
the reason for each.

## 2. The modules

| Module | Models | Extends |
|---|---|---|
| `OwnedFixture` | what the release probe promises, abstractly | - |
| `ReleaseProbe` | `probe_release_lookup.exercise`; implements `OwnedFixture` | - |
| `ReleaseListing` | `check_release_absent.load_release`, page by page | - |
| `GatedRelease` | what the documentation promises of tag publication, abstractly | - |
| `ReleaseWorkflow` | `release.yml` with `check_release_lineage.py`; implements `GatedRelease` | - |
| `OfficialSuite` | the official suite and its runner, external | - |
| `VerifierHook` | the verifier hook and its flow command | `OfficialSuite` |
| `ConformanceRun` | the driver, composed with hooks and suite | `VerifierHook` |
| `OfferHook` | the issuer hook beside one module of the suite | - |
| `SuiteCompose` | one process that starts or removes the projects | - |
| `OfficialLane` | the lanes, which call it | `SuiteCompose` |
| `BoundaryLane` | the public boundary lane, which calls it too | `SuiteCompose` |
| `KmsFixture` | the key service fixture | - |
| `CandidateRun` | `run-candidate`, several times on one daemon | - |
| `ArtifactSessions` | what the artifact gate asks of the image it tests | - |
| `FixtureBootstrap` | `official_fixture_bootstrap.py`, two at once | - |
| `ReleaseProbeProofs`, `ReleaseListingProofs`, `ReleaseWorkflowProofs`, `ConformanceRunProofs`, `CandidateRunProofs`, `ArtifactSessionsProofs`, `FixtureBootstrapProofs` | theorems about the module of that name; the first and the third also the refinements | that module |
| `LaneProofs` | theorems about `SuiteCompose`, `OfficialLane` and `BoundaryLane`, and about the helpers `KmsFixture` and `OfferHook` | these |
| `MCHost` | the processes of one host, one at a time | the lanes, `KmsFixture`, `OfferHook`, `ArtifactSessions`, `ReleaseListing` |
| other `MC*` | values of the constants for the model checker | the module they name |

Operators that a comment calls *Mutant* are not part of any specification.
Each is a plausible mistake in the definition that follows it; the mutants of
`PROJECT.json` name one for every property, as evidence that the property would
notice.

### ReleaseProbe

`releases` is the service: for each identity whether it is unused, live or
deleted, whose it is, whether it is a draft, still on the tag, visible in the
listing, and *intact*, which stands for body, assets and target as the probe
wrote them.  The title and the prerelease flag are left out: the clean-up does
not compare them.  `pc` is the remote call made next; `fixtureId`, `attempts`,
`refusedId`, `removed`, `tagUnchanged` are the fields of `record`; `failure`
is the local variable of that name and `interrupted` an exception that is no
`Exception`.  One action is one call with the code up to the next one.
`Interrupt` follows Python: `except Exception` is skipped, `finally` is not, so
that `failure` stays `None`.  `Crash` may happen anywhere.  `Others` create,
edit, retag, publish and delete any release, move the tag and replace the
receipt.  One call of `save()` is one step: it reads the nonce and rewrites the
file in place, and a kill within it is not modelled.  The lookup is one step
here; `ReleaseListing` opens it up.  The second lookup, whose refusal the probe
wants, names in `refusedId` whichever release it found first.  `intruded` and
`raced` only observe: somebody else put a release on the tag between the first
absence check and the refusal; what the clean-up compares changed between its
ownership check and its DELETE.

### ReleaseListing

`listing` is the service's list, newest first.  `LoadTag`, `LoadPermissions`
and `LoadPage` are the requests; others insert at the front, publish and remove
in between.  `witness` follows one release that held the tag when the lookup
began, and `shrunk` records that anything was removed: both only observe.

### ReleaseWorkflow

The three jobs are one sequence of named steps, and a job that is run again
begins at its first step, with lanes that passed keeping their result. `Queue`
is the concurrency group: one run waits, and a newer one cancels it. `tag` and
`main` belong to everybody. `gh release create` is three steps (draft, assets,
publication), which fail separately; `--verify-tag` checks only that the tag
exists; a publication may take effect and its answer be lost, and the job that
failed may then be run again. The absence check is one step. `Gate` reads the
state as `GatedRelease` does, which has three sets of runs: those qualified,
those with a draft at the service, and the one with the release.

### OfficialSuite, VerifierHook, ConformanceRun

The suite runs the modules of a plan in order; a module has a status, a result
and may expose an authorization endpoint.  All modules of a plan share one
alias, so a request reaches the module that took it last.  `printed` holds the
lines the driver has not read.  A hook is one process per module: `hook[m]` is
its next request.  The entities and relationships of the issuer are Marty's;
its API accepts duplicates, which the code anticipates ("ambiguous").  A POST
may take effect and fail to be answered.  The driver reads lines, starts hooks,
waits for the runner, then for each hook in order, and judges: `runnerExit`,
`hookResult`, the summary of the exported rows, and the coverage of the live
plan.  Exported rows are snapshots taken when the runner exits.

`settings` is what a run is given.  Its `audit` says whether
`OIDF_MARTY_FLOW_AUDIT_DIR` is set: the lane sets it, in a direct run nothing is
recorded and the hook goes on.  A declaration of an expected skip is matched in
two ways, and the two may differ: a module gets no hook if its label, variant
and all, is the declared one (`labels`), and its skip is excused in the summary
if its name matches the declared pattern (`names`).

### SuiteCompose and OfficialLane

`project`, `bridge` and `served` are what Docker holds; `ComesUp`,
`FailsToComeUp`, `GoesAway`, `StaysBehind` are its possible answers and effects,
and `stuck` remembers which removals it failed. `compose`, `todo`, `started` and
`code` are the process: the request is checked, the cache of images, then
(staged HAIP) Marty comes up, gets a certificate and comes up again, then the
other projects, in the order of `Components`; a failure unwinds in reverse,
unless the caller asked to retain. The code unwinds on some types of exception
only: `Escape` ends the process with everything up (`code` is "escaped"), and it
is possible in the staging of the certificate, in the diagnosis of the EUDI
services and the wait for them, and where a command cannot be built
(`Buildable`: the runner's checkout and Marty's launcher may be missing, the
flags `runner` and `launcher`). An external certificate is refused after the
cache was checked and before anything is started. `Spec` lets an operator call
it repeatedly; in `OfficialLane` the lane calls it. `lane` is the lane's
position, `passed` the commands that answered zero, `error` an exception under
way, `skipped` the place where a teardown was bypassed. Two launches of Marty in
a lane do not pass through `official_suite_compose.py` (the W3C lane, and the
adoption of the final certificate) and are single steps.

### BoundaryLane

The lane goes through `boundary` and calls the same Compose process as the
official lanes (`BoundarySuite`: Marty alone).  `registry` is the project of the
trust registry on a network of Marty's, `policy` the directory with the sender's
custody, which `execute` makes in a context manager.  The `finally` is five
commands in a row, the summary first: `Leave(where)` is an exception that skips
whatever follows, and `cutShort` says where it happened.  `junit` is the
`pytest.xml` in the output directory with the run it is of; `DidcommTestPassed`
reads it whether or not pytest got that far.

### KmsFixture

One process, one container, two agents.  `attempted` and `launched` are the two
booleans with which the clean-up decides how to look for the container: by its
name, or by its label when `docker run` did not come back.  An agent may exit at
any time, outlive `terminate` and outlive `kill`; a container may come up after
its command has timed out (`StartsLate`).

### OfferHook

The hook polls a module of the suite that knows as many wallet clients as
`RequiredOfferInteractions` says.  The module's WAITING is one value, for the
next client as for one whose offer it has taken and not yet redeemed (`unread`):
`stale` records that the hook read the second as the first.  `MayCreate` is the
transport: only the public command looks at the keys of a client.

### CandidateRun and ArtifactSessions

`tag` holds the two tags the command uses on the daemon, `candidate-<commit>`
and `verified-<commit>`, with the run that set them. `run[r]` is one execution:
its position, its staged copy, the flags `loaded` and `bound` of
`load_candidate_archive`, its Docker objects and its evidence. A digest selector
resolves as long as some tag of the repository holds the manifest. A run begins
by deleting the evidence of the run before it; when that fails (`EvidenceStays`)
it ends with an error and the evidence stays. Docker commands fail with and
without effect. `raced`, `used`, `judged` and `stuck` only observe.

`CandidateRun` has one step, `Exercise`, for everything that is asked of the
image.  `ArtifactSessions` is one execution of that step: `Script` is the order
of the requests, the two that race are two callers, and the verification service
is a claim, an evaluation and a stored row with any combination of ten defects
the gate exists to find.  `heard` remembers every accepted answer, which the gate
does not.

### FixtureBootstrap

Each mode is a script of requests, built by the operators that bear the names of
the functions (`TrustRequests`, `PolicyRequests`, `BrowserRequests`, ...), and a
run carries out the next one.  A POST may take effect and its answer be lost;
nothing is taken back.  Two runs share the organization: `identity` says under
whose attestation policy an issuer identity exists (the API keeps the first
one), `Published` which templates of the type the metadata names, `file` what a
path holds.  `visible` is the delay after which an identity can be resolved.

### MCHost

Seven processes that never run at the same time are explored in one instance:
`who` is chosen at the start, and the other processes rest in one state.  They
share the state of Docker where they use it (`SuiteCompose` is under three of
them) and nothing else; that the others rest loses no behaviour.  Each module
keeps its own specification (`SpecLane`, `SpecBoundary`, `SpecKms`, `SpecOffer`,
`SpecSessions`, `SpecLookup`), and the theorems are about those.

## 3. The runs

All finish within five minutes.  "Passing" means that every property holds in
every reachable state of the instance.

| Run | Instance | States | What it shows |
|---|---|---|---|
| `release_probe` | 3 identities, 2 lookups | 2.3 million | Under lost answers, interrupts, crashes and concurrent edits, a return is qualified (removal, tag, and a refusal of the draft unless somebody intruded), drafts stay recoverable, releases of others are untouched, the check-then-delete race is the only way to remove a changed draft; it implements `OwnedFixture`; it ends |
| `release_workflow` | 2 pushes for 2 commits, 2 lanes, 2 attempts | 109 thousand | What is published passed every lane and is in `main`; never two releases of the workflow's; no publication for a tag that moved before the attestation; it implements `GatedRelease` |
| `conformance_run` | 2 modules, dynamic governance, with and without an expected skip, by label and by name, one without audits | 3.4 million | "passed" is complete, no hook is left, deliveries are governed, recorded where audits are asked for, and made for no module without a hook, duplicates need an overlap, excuses are true; it ends |
| `candidate_run` | 2 runs, 2 builds of one commit | 1.9 million | Which image is exercised, what is left, that evidence and exit code agree, that tags of others are kept |
| `fixture_bootstrap` | 2 runs in all pairs of 6 modes but three, 2 paths, 2 tries | 908 thousand | What is active rests on what is active wherever a run stops; a run that returned has its own fixtures on file; only a run that failed in its last two steps leaves a key nobody has |
| `host` | one of seven processes, see below | 470 thousand | The properties of the modules below |

The run `host` checks, of

- an operator with the Compose front end, over all 128 selections: an answer of
  zero is true (`AnswerIsTrue`), a failed start is unwound but for the escapes
  that are named (`FailedUpUnwinds`),
  Marty goes last (`MartyOutlivesItsUsers`);
- all seven kinds of lane: the suite runs on the final stack only, a pass is
  complete, the stack and the native issuer are taken down, but for named failures
  (`OfficialRunsOnFinalStack`, `LanePassIsComplete`, `StackIsTornDown`);
- the boundary lane: its evidence is of this run (`BoundaryEvidenceIsOwn`), and
  what it may leave is named (`BoundaryLeavesNothing`);
- the key service fixture, with two attempts at each of its two waits:
  `KmsLeavesNothing`;
- the issuer hook, for no, one and two clients in the request, with good and
  malformed keys, over all transports: `ExitAccountsForOffers`,
  `StaleWaitingIsTheOnlyWindow`;
- the sessions of the artifact gate, against all 1024 combinations of defects:
  a sound service passes under every order of the races (`SoundServicePasses`),
  and a pass excludes what the gate does not look at directly
  (`PassedSessionsAreSound`);
- the lookup of a release, with pages of two, at most two pages and five
  releases: "absent" is exhaustive unless something was removed meanwhile
  (`AbsentIsExhaustive`), and it ends (`LookupEnds`).

Six more runs end in a violation on purpose: section 7.

Why these bounds are enough. *Releases*: three identities are the probe's own
draft, a foreign release that hides it and another one; more are more of the
same, and the proofs cover any number. Two lookups are enough for "seen first",
"seen later" and "never". *Listing*: five releases over two pages of two include
full pages, a partial last one, the bound, and releases that cross a page
boundary in both directions. *Workflow*: two runs are needed for the concurrency
group and for competing commits, two attempts for results that survive. Two
lanes are needed for one that passes beside one that fails; they are symmetric.
*Modules*: two hooks are needed for any overlap; a third only sees what the
second left. *Selections*, *kinds*, *modes*, *transports*, *defects*: all of
them. *Pairs of modes* in `fixture_bootstrap`: `oid4vp-mdoc`, the longest
script, is not paired with the three other modes that build a verifier fixture
(`SpecPaired`); what it shares with them, the metadata and the identity of the
organization, it shares with itself and with the two issuers. The theorems about
`FixtureBootstrap` are of its `Spec` and cover every pair. *Attempts* in
`KmsFixture` and `FixtureBootstrap`: two, for one that is tried again and one
that is the last. *Clients*: no module needs more than two. *Bootstraps*: two,
for one that disturbs the other; one path for both and a path each.
*Candidates*: two runs are needed for a race, and a third would join a race that
is already recorded; the properties are also not violated in a long simulation
with three runs. Runs and builds (`candidate_run`), runs and paths
(`fixture_bootstrap`) and lanes (`release_workflow`) are interchangeable: no
property names one, and no liveness is checked under symmetry.

Deadlock is checked in `release_workflow` and `suite_compose_teardown`, where
somebody can always act.  The others model programs that end.

## 4. Fairness

Safety properties are checked without fairness; three runs also check that
something ends.

- `ReleaseProbe`: weak fairness of the probe's own steps.  Every request has a
  30-second timeout, the loop is bounded, and interrupts and crashes end it too.
- `ReleaseListing` (in `host`): weak fairness of the requests.  Others may extend the
  listing for ever; the page bound ends the lookup all the same.
- `ConformanceRun`: weak fairness of the suite and its runner (they have
  timeouts of their own), of the driver (which only reads and waits) and of each
  hook including its deadline.  The suite may go down and never come back: then
  only the deadline helps, and the mutant without it is caught.

Fairness is needed only so that the next step is taken.  That there are finitely
many of them, which is the part of these claims the code is responsible for, is
proved without any fairness (section 5, *The ends*).

No fairness is assumed of Docker, and nothing is claimed about the end of lanes
(they run most of their commands without a timeout), of candidate runs, of
bootstraps or of the key service fixture.  The issuer hook has a deadline like
the verifier hook's, and the claim that it ends is the one `ConformanceRun`
already checks.

## 5. The proofs

Eight modules hold the proofs.  `PROJECT.json` lists 52 theorems, for every value
of the constants that these named assumptions admit: `ProbeAssumption` (`NoId` is
no identity, at least one lookup), `ListingAssumption` (positive page size and
page bound), `WorkflowAssumption` (each run has a commit; nobody is a run),
`SuiteAssumption` (a plan names a module once), `HookAssumption` and
`ValuesAssumption` (distinct values), `AttemptsAssumption` and `OfferAssumption`
(natural bounds), `BootstrapAssumption` (known modes, at least one attempt,
nobody is a run), `SuitesAssumption`, `MaterialAssumption` and `KindsAssumption`
(selections are sets of flags, kinds are lanes that exist).  `DefectsAssumption`
is not needed: a defect without a name in the model changes nothing.  No proof
uses that a set of releases, runs, builds, commits, lanes or modules is finite.

*The probe.* `ReturnIsQualified` is not inductive: it speaks only of the last
state. It says what the probe's return is worth: the draft was removed, the tag
held still, and what was refused was the draft, unless somebody else put a
release on the tag meanwhile. (That it always was the draft, which the README
promises, is refuted in section 7.) `StageInv` says what has been reached at
each stage (in the clean-up without failure: an identity and a refusal; after
the confirmation: removal; after the recheck: the tag), and `OwnerInv` ties the
record to the service: as long as nothing failed and nothing was interrupted,
whatever belongs to the probe has the recorded identity, and a removal that was
recorded is real. The conjunct about *failure* is what the lost answer of the
POST breaks - and the code sets `failure` exactly there. `ForeignUntouched`
follows because the only step that deletes works on `fixtureId`, which is the
probe's own.

Two facts are kept out of that invariant and proved on top of it.  `RaceInv`: at
the DELETE the draft is as the ownership check found it, or `raced` says that it
changed since - its tag, its draft state, or its body, assets and target, which
is all the check compares.  `ReceiptInv`: before the probe creates anything there is a
receipt, and from the first lookup on a receipt that is still ours names the
draft, which is what `DraftIsRecoverable` needs of every stage a crash may end.
Theorems: `TypeCorrect`, `ReturnCorrect`, `ForeignSafe`, `RaceCorrect`, `RecoveryCorrect`.

*The refinement* (`ReleaseProbeProofs`, behind the probe).  `HoldsBar`, `CreatedBar` and
`VerdictBar` are the abstract state.  `Told` states each abstract action in these
terms once, so that the rest never opens the instance.  Most calls leave the
service alone (`Quiet`): the abstract state stands still, or the run concludes.
The POST is `CreateOwn` (`Creation`), the DELETE `RemoveOwn` or nothing
(`Removal`), and whatever others do to one release is one of their abstract
actions, or a stutter when it is an edit (`OthersStep`).  The one interesting
case is the conclusion "passed": that nothing of the probe is left then is
`StageInv` with `OwnerInv`.  Theorem: `ProbeImplementsFixture`.

*The lookup.*  The invariant is that as long as nothing was removed, a release
that held the tag from the start lies behind all places already read: releases
enter only in front, which moves it further back, and the page turned contained
it not.  At the end of the listing nothing lies behind.  The product
`page * PageSize` is kept away from the provers behind `Read`, with one lemma.
Theorems: `TypeCorrect`, `ExhaustiveCorrect`.

*The workflow.* A job that is run again goes back to its own first step, never
before it (`JobStarts`). So what an earlier job has checked stays checked if it
cannot change back: `Merged` (a run past the comparison is in `main`, which only
grows) and `Qualified` (a run in the last job has all lanes passed, and keeps
them). The tag can change back; `Witnessed` therefore ties it to the last look:
behind that look a run has seen the tag on its commit since the attestation.
`Settled` says that the run that published is behind its lanes and stays there,
even if its job failed with the answer lost and is run again. `Places` computes
once where in the sequence of steps each name stands. `OneReleaseOfOurs` has an
invariant of its own, `Sole`: the group lets one run act (`Alone`), a run that
waits will begin a job and not continue in the middle of one (`Waiting`), and
behind the last look there is no release of any run but the draft the acting run
has made (`Cleared`). Theorems: `TypeCorrect`, `PublishedCorrect`, `TagCorrect`,
`OneCorrect`.

*The promise of tag publication* (`ReleaseWorkflowProofs`, at its end).
`QualifiedRuns`, `Drafted` and `Released` are the abstract state.  Neither a merge
nor a lane that passed is taken back (`QualifiedGrows`), and the releases of the
runs change in three ways only (`ReleasesChange`): a draft appears, goes, or is
published.  That a draft appears only while nothing of any run is there, and only
for a qualified run, is `Cleared` with `Merged` and `Qualified` at one place of the
script; that a draft which goes leaves none of the same run is `OneReleaseOfOurs`.
The refinement says more than the three properties: a draft, too, is created for
a qualified run only, and after a publication there is no other draft.  Others'
drafts are not part of it: somebody may create one after the last look.
Theorem: `WorkflowIsGated`.

*The conformance run.*  The invariant follows one module through the composition.
`Paired` and `Announced`: a module is announced by two lines, once, and has no
hook before the second is read; a module that ran and has no hook is an expected
skip or still among the unread lines - which are none when the driver leaves the
loop.  `Joined`: every hook is in the driver's list, and those behind `waited`
have ended, well if `hookResult` is still zero.  `Accounted` and `Sent`: a hook
past a request has done it, and what the suite received came from such a hook.
`Exported`: a row that says FINISHED is true for good.  `Judged` puts them
together when the verdict is passed.  The sequences of lines and hooks need the
library's facts about `Append` and `Tail`.  `Lone` is the invariant of find or
create: without an overlap one hook at a time is between what it did not find and
what it creates, and what it did not find is not there.  Theorems: `TypeCorrect`,
`PassCorrect`, `ReturnCorrect`, `DeliveryCorrect`, `ExcuseCorrect`,
`OverlapCorrect`.

*The key service fixture.*  `Reaped`: the clean-up counts the agents it has seen
dead, and none is started after it began.  `Accounted`: a container is there only
if `docker run` was called, and one that is still to come was noticed as a
failure.  `Remembered`: such a failure shows in the exit code.  Theorem:
`NothingLeft`.

*The issuer hook.*  `Served`: the accepted offers are those of the interactions
behind the hook, at every step and across both of its loops.  `InStep`: as long
as no old WAITING was taken for a new one, hook and module are at the same
client.  Theorems: `ExitCorrect`, `WindowCorrect`.

*The candidate runs.* `IInv` has four parts beside the types. `Local` follows
one run by itself: what its flags, objects, copy and evidence are at each
position - yesterday's evidence is there only before the run has begun, or after
it ended at once because it could not delete it. `Mine` says for which positions
a tag may name a run: those from which some `finally` removes it, unless a
removal failed, the tag was set by a command that timed out, or the run was
killed. `Free` says that a run past an inspection faces no tag that was there
before. `Exclusion` is what makes many runs safe together, and holds only as
long as none has `raced`: the tags a run stands for keep every other one out of
the steps behind the inspections, and while a run exercises its image the
verified tag is its own. It is needed because `OwnImageOnly` speaks of the
images that ran, and those depend on who may move the tag before each launch.
The steps fall in two kinds, proved alike: those that leave the tags alone
(`Good`, one lemma for each shape of step) and the five that set or remove one
(`Swaps`), which are all taken behind the inspections, where `Exclusion` says
that no other run has a tag (`OnlyMover`). Theorems: `TypeCorrect`,
`ReturnIsClean`, `ResultIsEvidence`, `PassedRanItsPin`, and the action
properties `LocalSelectionsKept` and `TagsAreTakenByRacersOnly`.

*The fixture bootstrap.*  Half of the proof is about the scripts, without any
state: `Planned` says of each mode that every request comes after those it rests
on (`Ordered`, with `Before` for what a request rests on), that whatever is
created is activated and nothing else (`Closed`), and that a key, if there is
one, is the last request (`KeyLast`).  The scripts are concatenations of the
blocks the functions build; `BlockJoin` and `EndingJoin` carry the property from
blocks to scripts, so that `Scripts` needs one lemma for each function.  The
other half is the invariant: `Follows`, a run has done and still stands on what
its script says before its position (`Done`) and has touched nothing its script
has not asked for (`Sent`); `Ends`, a run that returned is at the end of its
script.  `ActiveRestsOnActive` is then a fact about two positions of one script.
Other runs interfere in two places, and both are handled in `Done`: an identity
under an attestation policy goes to the run that came first, which is why a
resource is tied to its own run, and the file of a path is whoever wrote it last.
Theorems: `TypeCorrect`, `ActiveCorrect`, `FixturesCorrect`, `KeysCorrect`.

*The stack and the lanes* (`LaneProofs`).  One invariant, `ComposeInv`, holds of
the Compose process whoever calls it; `LaneInv` and `BoundaryInv` add where the
caller stands, and the three specifications share the lemmas for the process's
own steps.  `MartyFirst` and `MartyLast` are the shapes of the lists the process
works through, kept by `Append`, `Tail` and `Reverse`: they are what makes the
order of start and stop an invariant.  `Extent`: outside what was selected and
started nothing stands.  `Rising` and `Falling` are the loops of "up" and "down"
(what was started and what is still to be started make up the selection; what is
no longer on the list is gone), `Unwinding` is `stop_started`, `Staging` the
start of Marty in two steps, `Settled` what the answer says - of a failed "up"
that all it started is gone, or that an exception escaped where one can
(`MayEscape`).  `Gone` names the two ways in which a project outlives its own
removal.  For the lanes,
`LaneMeetsCompose` ties the lane's position to the process's; `LaneStands` carries
the stack, the certificate and the disposable authority from the answer of "up"
to the suite; `LaneEarns` says for each position what a result of zero stands on;
`LaneLeaves` says what the teardown has left.  The boundary lane has the same
four parts.  Theorems:
`ComposeCorrect`, `FailedUpCorrect`, `AnswerCorrect`, `MartyOutlivesCorrect` (the
process alone), `LaneCorrect`, `FinalStackCorrect`, `LanePassCorrect`,
`TeardownCorrect`, `BoundaryEvidenceCorrect`, `BoundaryTeardownCorrect`, and, for
the process called by lanes, `AnswerInLanes`, `FailedUpInLanes`,
`MartyOutlivesInLanes`.

*The artifact sessions.*  Nothing can be said of this gate in general, only of
where it stands in its script; so the script is computed first, once.  It is a
concatenation of seven parts, and `ScriptParts` places them by a lemma about
joining two sequences; `Places` then says for each operation at which of the 34
steps, for which session and presentation it is done.  The service's two actions
are reduced to `Outcome`, eight ways in which one request and one row may change
(unknown, expired, claimed, taken over, conflicting, repeated, decided, too
late), and `Serves`, that nothing else does; the gate's actions to seven kinds
(looking, creating, meddling with the database, sending, hearing one answer,
judging a race, losing).  Three invariants are kept by each.
`TalkInv`: who may be asking about what at which step, and that decisions are
numbered in the order they are taken.  `SoundInv`, for a service without a
defect: a session the gate sends to for the first time is a `Contest` - if it is
processing, a claimant holds it and nobody was told anything but a conflict; if
it is decided, whoever was accepted has the stored decision - which settles,
once both are answered, into a `Steady` session that every later question finds
unchanged.  Hence each check finds what it wants to see, and the two different
presentations of the last race find exactly one winner (`OneAccepted`).
`PassInv`, for any combination of defects: `Accounts` compares everything that
was accepted with the frozen decision; `MainRow` and `Retries` are the long
argument about what the service keeps.  The main row is inspected before its
conflicting submission, so a service that stores what it refuses leaves a trace
there that nobody looks at; but it leaves the same trace in the last session
(`Traced`), unless both retries were accepted - and then there are two winners.
So at step 27 such a service has been refused, and an empty main row follows from
an inspection of another one.  `Race` is what is needed of the race itself, of
which the gate keeps only one decision: who was accepted was decided for, and the
decision is the one in the row.  Theorems: `SessionsTypeCorrect`,
`SessionsFollowTheScript`, `SoundServiceIsNotRefused`, `PassMeansSoundSessions`.

*The ends.*  Of each program that a run shows to end, a natural number is proved
to grow with no step of anybody and to fall with each step of the program's own.
The probe: `CallsLeft`, how far each stage is from the end (`Ahead`) and what is
left of the observation loop; interrupts and crashes count as steps, and until the
end one is left.  The lookup: `RequestsLeft`, from the page it is at.  The
conformance run: `Work` for runner and driver, with weights, because a module that
starts prints two lines and a line may start a hook; `HookLeft` for each hook.
That the runner's part falls needs an invariant of its own, `OneAtATime`: the
module that runs is the one the runner is at.  `Work` leaves out the polling of a
hook: a poll that finds nothing changes nothing, and only the deadline ends it.
Theorems: `EndsInBoundedCalls`, `EndsInBoundedRequests`, `EndsInBoundedSteps`.

## 6. Only model-checked

- Liveness (`Terminates`, `LookupEnds`, `RunEnds`): that the next step is taken
  rests on fairness and ENABLED, which the proof system does not reach.  That the
  steps are finitely many is proved (section 5, *The ends*).  Every safety
  invariant, action property and refinement that a run checks and finds to hold
  is also a theorem.
- The six runs of section 7, which end in a violation.

## 7. Where code and documents disagree

Each of these is a run that checks one property and finds it violated.

- `release_probe_interrupted_pass`: a `KeyboardInterrupt` leaves `failure` at
  `None`, and the `finally` block writes a receipt that says "passed" for a
  probe that was interrupted before it qualified anything.
- `release_probe_refusal`: README.md:130-131 of the repository promises that
  lookup refuses "that exact draft".  `probe_release_lookup.py:157-160` takes any
  `ReleaseAlreadyExistsError`: a release published by somebody else after the
  observation is refused in the draft's place, and the probe returns.
- `release_listing_complete`: pages are read by number.  If a release of a page
  already read is removed, a draft moves onto that page and is not seen, while
  the documentation calls the lookup exhaustive.
- `conformance_run_entity`: two hooks that overlap both find no issuer entity
  and both create one, where the docstring promises exactly one.
- `suite_compose_teardown`: without the generated TLS files the runner's
  launcher refuses every command, `down` too, while the documentation says that
  teardown still works.
- `candidate_run_governance`: any failure of `docker run` counts as the image's
  refusal of an incomplete governance, in a program that says of its other
  negative gate that such exits are not acceptance.

Noted while reading and not made a run:

- `conformance/README.md:420-424` says that the root key is destroyed at
  start-up.  `official_suite_compose.py` keeps it whenever a suite follows, and
  the lane destroys it when the final certificate is signed.  What matters, that
  it is gone before the suite runs, is `OfficialRunsOnFinalStack`.
- A second `up` of a staged HAIP suite fails because the leaf is there, and its
  unwinding stops the Marty that was running.  `MartyOutlivesItsUsers` excepts
  calls over a suite that is already up.
- When Docker fails to remove the EUDI project and Marty's is removed after it,
  the network goes too, and the EUDI launcher then refuses the next `down`.
- The clean-up of the probe compares neither title nor prerelease flag
  (`probe_release_lookup.py:173-180`): a draft that was renamed is deleted like
  any other.
- `official_suite_compose.py` unwinds on `OSError` and `ValueError` in staging
  (773) and on `ValueError` in readiness (809).  A `KeyError` at 592
  (`OIDF_PUBLIC_BASE_URL`), whatever the diagnosis of the EUDI services raises
  (800-805), an `OSError` or TLS error of the wait (225-265), and commands that
  cannot be built (520, 526, 610) leave the projects up.  Of the lanes only the
  EUDI lane relies on that unwinding (`FailedUpUnwinds`, `StackIsTornDown`).
- An expected skip is compared with the decorated label where hooks are chosen
  (`oidf_conformance.py:245`) and matched as a pattern against the bare name in
  the summary (516): a declaration may work in one place and not in the other.
- A direct run of the verifier hook without `OIDF_MARTY_FLOW_AUDIT_DIR` records
  nothing (364-366 of `oidf_marty_start_verification.py`).
- When yesterday's evidence of a candidate cannot be deleted
  (`credentials_verifier_artifact.py:4466`), the command exits with 2 and that
  evidence, which may say "passed", is still there; `ResultAgreesWithEvidence`
  names the case.
- `official_fixture_bootstrap.py:1668` says of the output file that it holds
  "identifiers and public signing material only"; the W3C mode writes an API key
  into it (1595-1596).
- Only the local lane looks at what `down` answers.
- The boundary lane reads `pytest.xml` for its summary whether or not pytest got
  so far: a summary that says "failed" may name DIDComm results of an earlier
  run.  `BoundaryEvidenceIsOwn` holds of one that says "passed".
- The same lane writes its summary first in its `finally`; when that raises,
  registry and stack stay (`cutShort` in `BoundaryLeavesNothing`).
- A signer agent that outlives its kill for five seconds makes the clean-up of
  the key service fixture raise before it removes the container (`survived` in
  `KmsLeavesNothing`); the fixture exits with an error then.
- The issuer hook polls a status that nothing ties to the offer it delivered:
  with two clients the second offer may reach the phase of the first
  (`StaleWaitingIsTheOnlyWindow`).
- The artifact gate does not look at the main session again after its
  conflicting submission; that a service which keeps something there is caught
  rests on the last race (`PassedSessionsAreSound`).
- A bootstrap whose output file exists fails after it has created an API key,
  and nobody has that key (`KeysAreOnFile`).
- A KMS started before a lane stays when the lane fails before it calls compose.
- A tag may still move between the last lineage check and the publication; the
  workflow narrows that window and cannot close it.  `MovedTagIsNotPublished`
  says what it does guarantee.
- A `docker image tag` that times out after its effect leaves the verified tag
  (`stuck` in `CandidateRun`), and every later run of the commit then refuses.

## 8. What the models leave out

Contents of messages, certificates, images and evidence are reduced to what
decides control: intact or not, pinned or not, accepted or not.  Redaction,
logging, formatting and the parsing of arguments are left out.  A malformed
answer is a failed request.  Requests are atomic at the service.

- `ReleaseProbe`: a kill inside `save()`, which rewrites the receipt in place and
  truncates it afterwards.
- `ReleaseWorkflow`: the indirection of annotated tags and the comparison with
  `main` are one step each.  Runs of other tags do not share the group.
- `ConformanceRun`: only hooks write issuer entities; the run without hooks, the
  browser hook, and the late completion of evidence are not modelled.  The issuer
  hook is a module of its own (`OfferHook`): it writes nothing that another hook
  reads, and what the driver does with its exit is the same as with the verifier
  hook's.  An exception in the driver's loop leaves runner and hooks running;
  `ReturnLeavesNoHook` speaks of a return, the other properties of hooks hold
  without the driver.
- `OfferHook`: what an offer contains, the container of the Docker transport and
  the sign-in of the public one are steps that may fail.
- `SuiteCompose`, `OfficialLane`, `BoundaryLane`: containers do not die by
  themselves, and interrupts of the Python processes are not modelled.  Two calls
  at once for one project are not either: each run has its own project name.
  A command that cannot even be started (`run` raising `OSError` by itself) is
  not modelled in the Compose process, and the diagnosis of the native issuer is
  taken to return, as its docstring promises.  What the lane's own code raises
  between the certificate and the suite (a missing key, say) is the failure of
  the step next to it.
  The tests of the boundary lane are one command, and the server of the trust
  registry is its project being up.
- `KmsFixture`: `bootstrap_*.sh`, which run once and in order inside containers;
  policies and tokens are one step that may fail.
- `CandidateRun`: the four containers of a run share one fate; the differences
  found in the evidence are "known" or none.  The archive is not read after the
  load, so it changes only before.  The commands `run` and
  `run-transaction` (the same test of a published image, without the load) and
  `run-expected-failure` are not modelled.
- `ArtifactSessions`: the service is external.  Its ten defects are those a check
  of the gate names; a session is decided by one presentation or the other and
  never by what it says.
- `FixtureBootstrap`: of a payload only the resources it names; the
  organization's other users only as what they left before.

Not modelled at all, with the reason for each in `PROJECT.json`: straight-line
checks that raise at the first mismatch and keep no state (releases of the
official stack, pins, environment files, reference material), readers of finished
evidence, and clients of systems in other repositories.

## 9. The plan

What was planned and is done: artifact sessions, the issuer hook, the public
boundary lane, the key service fixture, the fixture bootstrap, and the theorems
about every module, the two refinements, and the bounds behind what ends.  What
is left, in
this order:

1. *W3C worktree*: the canonical checkout is untouched, the runtime one removed.
2. *Trust registry*: the server's four operations under their lock, composed with
   the boundary lane's tests.
3. *Review evidence*: the judgement of pending reviews as an operator.
4. *Artifact commands*: `run`, `run-expected-failure` and `run-transaction`, as
   variants of `CandidateRun`.
5. *The driver without a hook*, and the late completion of its evidence.

Theorems come with each of these; of the modules there are, no safety property
is left without one.

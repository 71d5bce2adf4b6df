---------------------------- MODULE CandidateRun ----------------------------
(***************************************************************************)
(* `credentials_verifier_artifact.py run-candidate': an attested image     *)
(* archive is staged, validated, loaded into the Docker daemon under two   *)
(* tags that name only its commit, exercised and removed again.  Several   *)
(* executions of the command share one daemon, and each may be killed.     *)
(* What Docker, gh and the file system answer is external.                 *)
(***************************************************************************)
EXTENDS Naturals, Sequences, FiniteSets

CONSTANTS
    Runs,       \* executions of the command on one daemon, for one commit
    Candidates, \* the images their pins name: one per build of the commit
    Other,      \* an image, or a file, that nobody's pin names
    None

ASSUME RunsAssumption == IsFiniteSet(Runs)
ASSUME ValuesAssumption == Other # None /\ {Other, None} \cap (Candidates \cup Runs) = {}

VARIABLES
    pinned, \* the image the pin of each run names
    source, \* what the archive path given to each run holds now
    tag,    \* the two tags of the daemon: the image, and the run that set it
    run     \* the local state of each run

vars == <<pinned, source, tag, run>>

Refs == {"archive", "verified"}
Absent == [image |-> None, by |-> None]

\* The Docker objects of one run, in the order its last `finally' removes them:
\* its four containers, which share one fate here, and the network they are on.
Objects == <<"containers", "network">>
ObjectNames == {Objects[i] : i \in DOMAIN Objects}

\* The launches of the candidate, in order; the migrations are launched twice.
Launches == <<"migrate", "disabled", "invalid", "service", "restart">>

Loading == {"select", "verified", "load", "loaded", "bind", "bound", "untag", "unwind"}
Stages == {"start", "stage", "validate", "attest", "archive", "inspect",
           "network", "postgres", "launch", "exercise", "report", "remove", "discard",
           "done", "killed"} \cup Loading

RunState ==
    [pc : Stages,
     staged : Candidates \cup {Other, None}, \* the private copy of the archive
     loaded : BOOLEAN, bound : BOOLEAN,      \* the flags of load_candidate_archive
     next : 1 .. Len(Launches) + 1,
     failing : BOOLEAN,                      \* an exception is on its way out
     left : SUBSET ObjectNames,              \* its Docker objects that exist
     evidence : {"none", "stale", "passed", "ineligible"},
     rc : {"none", "ok", "failed"},
     raced : BOOLEAN,                        \* observed: it loaded beside another run
     used : SUBSET (Candidates \cup {Other}),\* observed: images its containers ran
     judged : SUBSET {"image", "docker"},    \* observed: who refused the bad governance
     stuck : BOOLEAN]                        \* observed: something that should go, or a tag
                                             \* that was to be bound, did not

TypeOK ==
    /\ pinned \in [Runs -> Candidates]
    /\ source \in [Runs -> Candidates \cup {Other}]
    /\ tag \in [Refs -> [image : Candidates \cup {Other, None}, by : Runs \cup {Other, None}]]
    /\ run \in [Runs -> RunState]

Init ==
    /\ pinned \in [Runs -> Candidates]
    /\ source = pinned
    /\ tag \in [Refs -> {Absent, [image |-> Other, by |-> Other]}]
    /\ run = [r \in Runs |->
         [pc |-> "start", staged |-> None, loaded |-> FALSE, bound |-> FALSE, next |-> 1,
          failing |-> FALSE, left |-> {}, evidence |-> "stale", rc |-> "none",
          raced |-> FALSE, used |-> {}, judged |-> {}, stuck |-> FALSE]]

-----------------------------------------------------------------------------
At(r, p) == run[r].pc = p
Become(r, s) == run' = [run EXCEPT ![r] = s]
Goto(r, p) == Become(r, [run[r] EXCEPT !.pc = p])
Quiet == UNCHANGED <<pinned, source, tag>>

\* inspect_oci_archive and the digests, of the private copy.
Inspected(r) == run[r].staged = pinned[r]

\* Both the manifest and the config of an image are the pinned ones.
Identified(r, image) == image = pinned[r]

\* Before anything is loaded a failure has nothing to undo but the private
\* copy: main's `finally' finds no loaded_reference.
GiveUp(r) == Become(r, [run[r] EXCEPT !.pc = "done", !.rc = "failed", !.staged = None])

\* repo@digest resolves as long as a tag of the repository holds the manifest.
Selected(r) == \E x \in Refs : tag[x].image = pinned[r]

\* Mutant: yesterday's evidence is not deleted first.
StartOverEvidence(r) ==
    /\ At(r, "start")
    /\ \E ok \in BOOLEAN :
         Become(r, [run[r] EXCEPT !.pc = IF ok THEN "stage" ELSE "done",
                                  !.rc = IF ok THEN "none" ELSE "failed"])
    /\ Quiet

\* The unlink raises, a directory that may not be written for instance: main
\* ends with it, and yesterday's evidence is still there.
EvidenceStays(r) ==
    Become(r, [run[r] EXCEPT !.pc = "done", !.rc = "failed", !.stuck = TRUE])

\* main, up to load_pin_snapshot: yesterday's evidence goes before the pin is read.
Start(r) ==
    /\ At(r, "start")
    /\ \/ \E ok \in BOOLEAN :
            Become(r, [run[r] EXCEPT !.evidence = "none",
                                     !.pc = IF ok THEN "stage" ELSE "done",
                                     !.rc = IF ok THEN "none" ELSE "failed"])
       \/ EvidenceStays(r)
    /\ Quiet

\* stage_candidate_archive: the copy is kept only if it has the pinned digest.
StageArchive(r) ==
    /\ At(r, "stage")
    /\ \/ /\ source[r] = pinned[r]
          /\ Become(r, [run[r] EXCEPT !.pc = "validate", !.staged = source[r]])
       \/ GiveUp(r)
    /\ Quiet

\* validate_candidate_inputs, of the private copy.
ValidateInputs(r) ==
    /\ At(r, "validate")
    /\ (Inspected(r) /\ Goto(r, "attest")) \/ GiveUp(r)
    /\ Quiet

\* verify_candidate_attestations, then the copy is verified once more.
VerifyAttestations(r) ==
    /\ At(r, "attest")
    /\ (Inspected(r) /\ Goto(r, "archive")) \/ GiveUp(r)
    /\ Quiet

\* Mutant: an archive tag that is there is loaded over.
ArchiveTagIgnored(r) ==
    /\ At(r, "archive")
    /\ Goto(r, "select") \/ GiveUp(r)
    /\ Quiet

\* Mutant: a verified tag that is there is bound over.
VerifiedTagIgnored(r) ==
    /\ At(r, "verified")
    /\ Goto(r, "load") \/ GiveUp(r)
    /\ Quiet

\* Mutant: the inspections are inside the `try', whose clean-up takes both tags.
VerifiedTagIsFreeOrCleared(r) ==
    /\ At(r, "verified")
    /\ \/ tag["verified"] = Absent /\ Goto(r, "load")
       \/ Become(r, [run[r] EXCEPT !.loaded = TRUE, !.bound = TRUE, !.pc = "unwind"])
    /\ Quiet

\* The three inspections before the load; an unexpected answer of Docker
\* fails like a tag that is there.  Nothing has been loaded, so nothing is undone.
ArchiveTagIsFree(r) ==
    /\ At(r, "archive")
    /\ (tag["archive"] = Absent /\ Goto(r, "select")) \/ GiveUp(r)
    /\ Quiet

SelectionIsFree(r) ==
    /\ At(r, "select")
    /\ (~ Selected(r) /\ Goto(r, "verified")) \/ GiveUp(r)
    /\ Quiet

VerifiedTagIsFree(r) ==
    /\ At(r, "verified")
    /\ (tag["verified"] = Absent /\ Goto(r, "load")) \/ GiveUp(r)
    /\ Quiet

\* Runs that have inspected the first tag and have not yet left load_candidate_archive.
Racing(r) == {q \in Runs \ {r} : run[q].pc \in Loading}

\* `docker load': a load that fails or times out may have set the tag.
DockerLoad(r) ==
    /\ At(r, "load")
    /\ \E ok, effect \in BOOLEAN :
         /\ ok => effect
         /\ tag' = IF effect
                   THEN [tag EXCEPT !["archive"] = [image |-> run[r].staged, by |-> r]]
                   ELSE tag
         /\ Become(r, [run[r] EXCEPT !.loaded = TRUE,
                                     !.raced = @ \/ Racing(r) # {},
                                     !.failing = ~ ok,
                                     !.pc = IF ok THEN "loaded" ELSE "unwind"])
    /\ UNCHANGED <<pinned, source>>

Unwind(r) == Become(r, [run[r] EXCEPT !.failing = TRUE, !.pc = "unwind"])

InspectLoaded(r) ==
    /\ At(r, "loaded")
    /\ (Selected(r) /\ Goto(r, "bind")) \/ Unwind(r)
    /\ Quiet

\* `docker image tag': `bound' is set only after the command has come back, so
\* a tag that was set by a command that timed out is not undone.
BindTag(r) ==
    /\ At(r, "bind")
    /\ \E ok, effect \in BOOLEAN :
         /\ ok => effect
         /\ effect => Selected(r)
         /\ tag' = IF effect
                   THEN [tag EXCEPT !["verified"] = [image |-> pinned[r], by |-> r]]
                   ELSE tag
         /\ Become(r, [run[r] EXCEPT !.bound = ok,
                                     !.raced = @ \/ Racing(r) # {},
                                     !.stuck = @ \/ (effect /\ ~ ok),
                                     !.failing = ~ ok,
                                     !.pc = IF ok THEN "bound" ELSE "unwind"])
    /\ UNCHANGED <<pinned, source>>

InspectBound(r) ==
    /\ At(r, "bound")
    /\ (Identified(r, tag["verified"].image) /\ Goto(r, "untag")) \/ Unwind(r)
    /\ Quiet

\* _remove_candidate_image: remove, then look; it fails unless the tag is gone.
\* `gone' is what has become of the tags, `raised' whether it raised.
Removal(refs, gone, raised) ==
    /\ gone \subseteq refs
    /\ gone # refs => raised
    /\ tag' = [x \in Refs |-> IF x \in gone THEN Absent ELSE tag[x]]

\* The archive tag goes while the verified tag stays; the private copy goes
\* with the context manager of main.
RemoveArchiveTag(r) ==
    /\ At(r, "untag")
    /\ \E gone \in SUBSET {"archive"}, raised \in BOOLEAN :
         /\ Removal({"archive"}, gone, raised)
         /\ Become(r, IF raised
                      THEN [run[r] EXCEPT !.failing = TRUE, !.pc = "unwind"]
                      ELSE [run[r] EXCEPT !.loaded = FALSE, !.bound = FALSE,
                                          !.staged = None, !.pc = "inspect"])
    /\ UNCHANGED <<pinned, source>>

\* Mutant: only the archive tag is undone.
UndoArchiveOnly(r) ==
    LET mine == IF run[r].loaded THEN {"archive"} ELSE {}
    IN /\ At(r, "unwind")
       /\ \E gone \in SUBSET mine, raised \in BOOLEAN :
            /\ Removal(mine, gone, raised)
            /\ Become(r, [run[r] EXCEPT !.stuck = @ \/ raised, !.staged = None,
                                        !.pc = "done", !.rc = "failed"])
       /\ UNCHANGED <<pinned, source>>

\* The `finally' of load_candidate_archive.
UndoLoad(r) ==
    LET mine == (IF run[r].loaded THEN {"archive"} ELSE {})
                    \cup (IF run[r].bound THEN {"verified"} ELSE {})
    IN /\ At(r, "unwind")
       /\ \E gone \in SUBSET mine, raised \in BOOLEAN :
            /\ Removal(mine, gone, raised)
            /\ Become(r, [run[r] EXCEPT !.stuck = @ \/ raised, !.staged = None,
                                        !.pc = "done", !.rc = "failed"])
       /\ UNCHANGED <<pinned, source>>

-----------------------------------------------------------------------------
\* run_artifact_test.  From "remove" on, an exception is on its way out or not.
Abort(r) == Become(r, [run[r] EXCEPT !.failing = TRUE, !.pc = "remove"])

\* The tag is inspected again before the first container; main's `finally'
\* still has the tags to remove when it is not the pinned image.
InspectReference(r) ==
    /\ At(r, "inspect")
    /\ \/ Identified(r, tag["verified"].image) /\ Goto(r, "network")
       \/ Become(r, [run[r] EXCEPT !.failing = TRUE, !.pc = "discard"])
    /\ Quiet

\* A command that fails may have created its object all the same.
CreateObject(r, stage, object, then) ==
    /\ At(r, stage)
    /\ \E ok, effect \in BOOLEAN :
         /\ ok => effect
         /\ Become(r, [run[r] EXCEPT !.left = IF effect THEN @ \cup {object} ELSE @,
                                     !.failing = ~ ok,
                                     !.pc = IF ok THEN then ELSE "remove"])
    /\ Quiet

CreateNetwork(r) == CreateObject(r, "network", "network", "postgres")
StartPostgres(r) == CreateObject(r, "postgres", "containers", "launch")

\* `docker run' of the verified tag, whatever it names now.
LaunchImage(r) ==
    LET image == tag["verified"].image
    IN /\ At(r, "launch")
       /\ Launches[run[r].next] # "invalid"
       /\ \E ok, starts \in BOOLEAN :
            /\ ok => starts
            /\ starts => image # None
            /\ Become(r, [run[r] EXCEPT
                 !.used = IF starts THEN @ \cup {image} ELSE @,
                 !.next = @ + 1,
                 !.failing = ~ ok,
                 !.pc = IF ~ ok THEN "remove"
                        ELSE IF run[r].next = Len(Launches) THEN "exercise" ELSE "launch"])
       /\ Quiet

\* The launch with a governance that lacks a check must exit with an error, and
\* any error will do: `docker run' that finds no image exits with one as well.
RejectGovernance(r) ==
    LET image == tag["verified"].image
    IN /\ At(r, "launch")
       /\ Launches[run[r].next] = "invalid"
       /\ \E ok, starts \in BOOLEAN :
            /\ starts => image # None
            /\ Become(r, [run[r] EXCEPT
                 !.used = IF starts THEN @ \cup {image} ELSE @,
                 !.judged = IF ~ ok THEN @ ELSE IF starts THEN {"image"} ELSE {"docker"},
                 !.next = @ + 1,
                 !.failing = ~ ok,
                 !.pc = IF ok THEN "launch" ELSE "remove"])
       /\ Quiet

\* The sessions, the direct verifications and the barcodes: they change nothing
\* but the container's own database, and pass or fail.
Exercise(r) ==
    /\ At(r, "exercise")
    /\ Goto(r, "report") \/ Abort(r)
    /\ Quiet

\* The evidence is written, and only then is the known difference refused.  A
\* write that fails leaves no file or one cut short, which is no evidence.
WriteEvidence(r) ==
    /\ At(r, "report")
    /\ \/ \E known \in BOOLEAN :
            Become(r, [run[r] EXCEPT !.evidence = IF known THEN "ineligible" ELSE "passed",
                                     !.failing = known,
                                     !.pc = "remove"])
       \/ Abort(r)
    /\ Quiet

\* The last `finally': each object in turn.  A refusal is ignored; a command
\* that times out raises, and the objects after it are not even tried.
RemoveObjects(r) ==
    /\ At(r, "remove")
    /\ \E refused \in SUBSET run[r].left, hung \in 1 .. Len(Objects) + 1 :
         LET skipped == {Objects[i] : i \in hung .. Len(Objects)}
             left == run[r].left \cap (refused \cup skipped)
         IN Become(r, [run[r] EXCEPT !.left = left,
                                     !.stuck = @ \/ hung <= Len(Objects) \/ left # {},
                                     !.failing = @ \/ hung <= Len(Objects),
                                     !.pc = "discard"])
    /\ Quiet

\* main's `finally': both tags are removed and must be gone.
DiscardImages(r) ==
    /\ At(r, "discard")
    /\ \E gone \in SUBSET Refs, raised \in BOOLEAN :
         /\ Removal(Refs, gone, raised)
         /\ Become(r, [run[r] EXCEPT !.stuck = @ \/ raised,
                                     !.rc = IF run[r].failing \/ raised THEN "failed" ELSE "ok",
                                     !.pc = "done"])
    /\ UNCHANGED <<pinned, source>>

-----------------------------------------------------------------------------
\* The process dies: no `finally' runs, and the private copy stays.
Kill(r) == ~ At(r, "start") /\ ~ At(r, "done") /\ ~ At(r, "killed") /\ Goto(r, "killed") /\ Quiet

\* The archive file is replaced under its path while the command may read it.
SourceChanges(r) ==
    /\ run[r].pc \in {"start", "stage", "validate", "attest"} \cup Loading
    /\ source' = [source EXCEPT ![r] = IF @ = Other THEN pinned[r] ELSE Other]
    /\ UNCHANGED <<pinned, tag, run>>

Step(r) ==
    \/ Start(r) \/ StageArchive(r) \/ ValidateInputs(r) \/ VerifyAttestations(r)
    \/ ArchiveTagIsFree(r) \/ SelectionIsFree(r) \/ VerifiedTagIsFree(r)
    \/ DockerLoad(r) \/ InspectLoaded(r) \/ BindTag(r) \/ InspectBound(r)
    \/ RemoveArchiveTag(r) \/ UndoLoad(r)
    \/ InspectReference(r) \/ CreateNetwork(r) \/ StartPostgres(r)
    \/ LaunchImage(r) \/ RejectGovernance(r) \/ Exercise(r) \/ WriteEvidence(r)
    \/ RemoveObjects(r) \/ DiscardImages(r)

Next == \E r \in Runs : Step(r) \/ Kill(r) \/ SourceChanges(r)

Spec == Init /\ [][Next]_vars

-----------------------------------------------------------------------------
NoRace == \A r \in Runs : ~ run[r].raced

\* run_artifact_test runs a mutable tag that names a commit, not a digest.  As
\* long as no two runs were inside load_candidate_archive together, a run that
\* passes ran no image but the one its pin names: the three inspections keep
\* out every other run, finished, failed, killed or still exercising.
OwnImageOnly ==
    NoRace => \A r \in Runs : run[r].evidence = "passed" => run[r].used = {pinned[r]}

\* A tag that was there before the runs is neither moved nor removed by any of
\* them, whatever else fails: they are told to keep off local selections.
ForeignTagsKept ==
    [][\A x \in Refs : tag[x].by = Other => tag'[x] = tag[x]]_vars

\* Loading side by side is also the only way for a run to lose a tag to another.
OnlyRacersTakeTags ==
    [][\A r \in Runs, x \in Refs :
          NoRace' /\ tag[x].by = r /\ tag'[x] # tag[x] => run'[r] # run[r]]_vars

\* A run that has returned has left no tag of its own and no container, unless
\* a command of the clean-up failed or the verified tag was set by a command
\* that timed out.
ReturnLeavesNothing ==
    \A r \in Runs : At(r, "done") /\ ~ run[r].stuck =>
        /\ run[r].left = {}
        /\ run[r].staged = None
        /\ \A x \in Refs : tag[x].by # r

\* The exit code and the evidence agree: success means evidence that says
\* passed and no tag of this run.  A failure leaves evidence that says passed
\* only if the clean-up failed after it, and yesterday's evidence only if that
\* could not be deleted, and then the run has exercised no image.
ResultAgreesWithEvidence ==
    \A r \in Runs :
        /\ run[r].rc = "ok" => run[r].evidence = "passed" /\ \A x \in Refs : tag[x].by # r
        /\ run[r].rc = "failed" =>
              /\ run[r].evidence = "passed" => run[r].stuck
              /\ run[r].evidence = "stale" => run[r].stuck /\ run[r].used = {}

\* The check "governance.missing-required-check-rejected" of a run that passed
\* says that the image refused the governance.
GovernanceWasJudged ==
    \A r \in Runs : run[r].rc = "ok" => run[r].judged = {"image"}
=============================================================================

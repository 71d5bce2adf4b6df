---------------------------- MODULE ReleaseProbe ----------------------------
(***************************************************************************)
(* scripts/probe_release_lookup.py: exercise.  The probe creates one draft *)
(* release on an existing tag, requires the release lookup to find and     *)
(* refuse it, and removes it again.  Everything it works on belongs to     *)
(* somebody else at the same time: people and workflows create, edit,      *)
(* publish and delete releases and move the tag; a request may fail before *)
(* its effect or after it; the job may be interrupted (KeyboardInterrupt)  *)
(* or killed between any two calls.                                        *)
(*                                                                         *)
(* One action per remote call, together with the code up to the next one.  *)
(* Body, assets and target of a release are one flag: still what the probe *)
(* wrote, or not.  Its title and its prerelease flag, which the clean-up   *)
(* does not compare, are left out.                                         *)
(***************************************************************************)
EXTENDS Naturals

CONSTANTS ReleaseIds,   \* identities the service may give to a release
          NoId,         \* None
          MaxAttempts   \* lookups tried while the draft is not visible (10)

ASSUME ProbeAssumption ==
    /\ NoId \notin ReleaseIds
    /\ MaxAttempts \in Nat \ {0}

VARIABLES
    releases,      \* the service: what it holds under each identity
    tagIntact,     \* the service: the tag still points at the frozen ref
    pc,            \* the call the probe makes next
    fixtureId,     \* record["fixture_id"]
    attempts,      \* lookups already made by the observation loop
    refusedId,     \* the release named by the refusal (draft_refused: # NoId)
    removed,       \* record["owned_draft_removed"]
    tagUnchanged,  \* record["tag_unchanged"]
    failure,       \* failure is not None
    interrupted,   \* a KeyboardInterrupt is propagating
    receipt,       \* the receipt file
    intruded,      \* observation only: somebody else put a release on the tag
                   \* after the first absence check, before the refusal
    raced          \* observation only: what the clean-up compares changed
                   \* between its ownership check and its DELETE

serviceVars == <<releases, tagIntact>>
recordVars  == <<fixtureId, attempts, refusedId, removed, tagUnchanged>>
seenVars    == <<intruded, raced>>
vars == <<serviceVars, pc, recordVars, failure, interrupted, receipt, seenVars>>

Ids == ReleaseIds \cup {NoId}

Release == [state  : {"unused", "live", "deleted"},
            owner  : {"nobody", "probe", "other"},
            draft  : BOOLEAN,
            onTag  : BOOLEAN,
            intact : BOOLEAN,    \* body, assets and target as the probe wrote them
            listed : BOOLEAN]    \* already visible to a draft listing

Unused  == [state |-> "unused", owner |-> "nobody", draft |-> FALSE,
            onTag |-> FALSE, intact |-> FALSE, listed |-> FALSE]
OwnDraft(listed) ==
    [state |-> "live", owner |-> "probe", draft |-> TRUE,
     onTag |-> TRUE, intact |-> TRUE, listed |-> listed]
Foreign(draft) ==
    [state |-> "live", owner |-> "other", draft |-> draft,
     onTag |-> TRUE, intact |-> FALSE, listed |-> TRUE]
Deleted(r) ==
    [Unused EXCEPT !.state = "deleted", !.owner = r.owner]

Receipt == [kind      : {"none", "ours", "foreign"},
            result    : {"none", "running", "passed", "failed"},
            fixtureId : Ids,
            refused   : BOOLEAN,
            removed   : BOOLEAN,
            tagUnchanged : BOOLEAN]

Blank(kind) == [kind |-> kind, result |-> "none", fixtureId |-> NoId,
                refused |-> FALSE, removed |-> FALSE, tagUnchanged |-> FALSE]

MainStages    == {"initial_absence", "create", "save_identity", "observe", "refuse"}
CleanupStages == {"cleanup_get", "delete", "confirm", "recheck_tag"}
Terminal      == {"returned", "raised", "crashed"}
Stages        == {"check_tag", "save_initial", "final_save"}
                   \cup MainStages \cup CleanupStages \cup Terminal

TypeOK ==
    /\ releases \in [ReleaseIds -> Release]
    /\ tagIntact \in BOOLEAN
    /\ pc \in Stages
    /\ fixtureId \in Ids
    /\ attempts \in 0..MaxAttempts
    /\ refusedId \in Ids
    /\ removed \in BOOLEAN
    /\ tagUnchanged \in BOOLEAN
    /\ failure \in BOOLEAN
    /\ interrupted \in BOOLEAN
    /\ receipt \in Receipt
    /\ intruded \in BOOLEAN
    /\ raced \in BOOLEAN

\* The checks of the inputs have passed, the receipt path is still free.  The
\* service may already hold releases of others on the tag.
Init ==
    /\ releases \in [ReleaseIds -> {Unused, Foreign(TRUE), Foreign(FALSE)}]
    /\ tagIntact \in BOOLEAN
    /\ pc = "check_tag"
    /\ fixtureId = NoId
    /\ attempts = 0
    /\ refusedId = NoId
    /\ removed = FALSE
    /\ tagUnchanged = FALSE
    /\ failure = FALSE
    /\ interrupted = FALSE
    /\ receipt = Blank("none")
    /\ intruded = FALSE
    /\ raced = FALSE

-----------------------------------------------------------------------------
(* What the code reads. *)

Live(id) == releases[id].state = "live"

\* load_release: the tag lookup answers with a published release, and only
\* when there is none does the listing answer, with a visible draft.
Published == {id \in ReleaseIds : Live(id) /\ releases[id].onTag /\ ~releases[id].draft}
Drafts    == {id \in ReleaseIds : /\ Live(id) /\ releases[id].onTag
                                  /\ releases[id].draft /\ releases[id].listed}
Lookup == IF Published # {} THEN Published
          ELSE IF Drafts # {} THEN Drafts ELSE {NoId}

\* The comparison the clean-up makes before it deletes: tag, draft state, body,
\* assets and target, and nothing else of the release.
Unchanged(id) == releases[id].draft /\ releases[id].onTag /\ releases[id].intact

-----------------------------------------------------------------------------
(* How control leaves a stage. *)

CleanupStart(id) == IF id # NoId THEN "cleanup_get" ELSE "recheck_tag"

\* Mutant: the handler of the main block forgets the failure.
FailMainSwallowed == /\ pc' = CleanupStart(fixtureId')
                     /\ UNCHANGED <<failure, interrupted>>

\* "except Exception" of the main block: the failure is kept, the clean-up runs.
FailMain == /\ failure' = TRUE
            /\ pc' = CleanupStart(fixtureId')
            /\ UNCHANGED interrupted

\* "except Exception" of the clean-up: straight to the final receipt.
FailCleanup == /\ failure' = TRUE
               /\ pc' = "final_save"
               /\ UNCHANGED interrupted

\* A KeyboardInterrupt is no Exception: it runs the "finally" blocks only and
\* leaves failure as it is.
InterruptTo(stage) == /\ interrupted' = TRUE
                      /\ pc' = stage
                      /\ UNCHANGED failure

Proceed(stage) == /\ pc' = stage
                  /\ UNCHANGED <<failure, interrupted>>

\* The record as save() writes it.
Saved(result, id) ==
    [kind |-> "ours", result |-> result, fixtureId |-> id,
     refused |-> refusedId # NoId, removed |-> removed,
     tagUnchanged |-> tagUnchanged]

\* save(): refuses a file that no longer holds this run's nonce.
SaveSucceeds(result) == /\ receipt.kind = "ours"
                        /\ receipt' = Saved(result, fixtureId)
SaveFails == UNCHANGED receipt

-----------------------------------------------------------------------------
(* The probe. *)

\* GET of the tag ref before anything is written.
CheckTag ==
    /\ pc = "check_tag"
    /\ \/ tagIntact /\ Proceed("save_initial")
       \/ Proceed("raised")
    /\ UNCHANGED <<serviceVars, recordVars, receipt, seenVars>>

\* Mutant: the first receipt is written if possible, and the run goes on without.
SaveInitialBestEffort ==
    /\ pc = "save_initial"
    /\ \/ receipt.kind = "none" /\ receipt' = Saved("running", NoId)
       \/ SaveFails
    /\ Proceed("initial_absence")
    /\ UNCHANGED <<serviceVars, recordVars, seenVars>>

\* save(initial=True): the receipt with the nonce exists before the draft.
SaveInitial ==
    /\ pc = "save_initial"
    /\ \/ /\ receipt.kind = "none"
          /\ receipt' = Saved("running", NoId)
          /\ Proceed("initial_absence")
       \/ SaveFails /\ Proceed("raised")
    /\ UNCHANGED <<serviceVars, recordVars, seenVars>>

\* ensure_release_absent before the draft: an existing release and a lookup
\* error both end the run.
InitialAbsence ==
    /\ pc = "initial_absence"
    /\ UNCHANGED <<serviceVars, recordVars, receipt, seenVars>>
    /\ \/ NoId \in Lookup /\ Proceed("create")
       \/ FailMain

PostEffect(id, listed) ==
    /\ releases[id].state = "unused"
    /\ releases' = [releases EXCEPT ![id] = OwnDraft(listed)]

\* POST /releases, answered with the new identity.
CreateDraft ==
    /\ pc = "create"
    /\ \E id \in ReleaseIds, listed \in BOOLEAN :
          /\ PostEffect(id, listed)
          /\ fixtureId' = id
    /\ Proceed("save_identity")
    /\ UNCHANGED <<tagIntact, attempts, refusedId, removed, tagUnchanged, receipt, seenVars>>

\* Mutant: a POST without an answer is sent again.
CreateFailsRetried ==
    /\ pc = "create"
    /\ UNCHANGED <<tagIntact, recordVars, receipt, seenVars>>
    /\ \E id \in ReleaseIds, listed \in BOOLEAN : PostEffect(id, listed)
    /\ Proceed("create")

\* POST /releases fails; or it takes effect and the answer is lost or holds
\* no identity, because of the network, an interrupt or a killed job.
CreateFails ==
    /\ pc = "create"
    /\ UNCHANGED <<tagIntact, recordVars, receipt, seenVars>>
    /\ \/ UNCHANGED releases /\ FailMain
       \/ /\ \E id \in ReleaseIds, listed \in BOOLEAN : PostEffect(id, listed)
          /\ \/ FailMain
             \/ InterruptTo(CleanupStart(fixtureId))
             \/ Proceed("crashed")

SaveIdentity ==
    /\ pc = "save_identity"
    /\ UNCHANGED <<serviceVars, recordVars, seenVars>>
    /\ \/ SaveSucceeds("running") /\ Proceed("observe")
       \/ SaveFails /\ FailMain

\* range(10).
AttemptsLeft(made) == made < MaxAttempts

\* One turn of the observation loop: look up, record, save, then stop on any
\* answer or on the last attempt.  An answer counts only if it is the draft.
Observe ==
    /\ pc = "observe"
    /\ UNCHANGED <<serviceVars, fixtureId, refusedId, removed, tagUnchanged, seenVars>>
    /\ \/ \E found \in Lookup :
            /\ attempts' = attempts + 1
            /\ SaveSucceeds("running")
            /\ IF found = NoId
               THEN IF AttemptsLeft(attempts') THEN Proceed("observe") ELSE FailMain
               ELSE IF found = fixtureId /\ releases[found].draft
                    THEN Proceed("refuse") ELSE FailMain
       \/ SaveFails /\ FailMain /\ UNCHANGED attempts   \* lookup or save error

\* ensure_release_absent must now raise ReleaseAlreadyExistsError.
Refuse ==
    /\ pc = "refuse"
    /\ UNCHANGED <<serviceVars, fixtureId, attempts, removed, tagUnchanged, receipt, seenVars>>
    /\ \/ \E found \in Lookup \ {NoId} :
            refusedId' = found /\ Proceed(CleanupStart(fixtureId))
       \/ UNCHANGED refusedId /\ FailMain               \* absent, or lookup error

\* Mutant: the release is deleted without comparing what it has become.
CleanupGetUnchecked ==
    /\ pc = "cleanup_get"
    /\ UNCHANGED <<serviceVars, recordVars, receipt, seenVars>>
    /\ Proceed(IF Live(fixtureId) THEN "delete" ELSE "confirm")

\* GET of the owned release: gone, still exactly owned, or to be preserved.
CleanupGet ==
    /\ pc = "cleanup_get"
    /\ UNCHANGED <<serviceVars, recordVars, receipt, seenVars>>
    /\ \/ ~Live(fixtureId) /\ Proceed("confirm")
       \/ Live(fixtureId) /\ Unchanged(fixtureId) /\ Proceed("delete")
       \/ FailCleanup                                   \* changed, or request error

\* Mutant: the clean-up removes every draft of the tag.
DeleteEffectByTag == releases' = [id \in ReleaseIds |->
    IF Live(id) /\ releases[id].onTag /\ releases[id].draft
    THEN Deleted(releases[id]) ELSE releases[id]]

DeleteEffect == releases' = [releases EXCEPT ![fixtureId] = Deleted(@)]

\* Mutant: the clean-up starts again whenever DELETE fails.
DeleteDraftRetried ==
    /\ pc = "delete"
    /\ UNCHANGED <<tagIntact, recordVars, receipt, seenVars>>
    /\ \/ Live(fixtureId) /\ DeleteEffect /\ Proceed("confirm")
       \/ UNCHANGED releases /\ Proceed("cleanup_get")

\* DELETE, unconditional once the check passed.  A 404 is an error here.
DeleteDraft ==
    /\ pc = "delete"
    /\ UNCHANGED <<tagIntact, recordVars, receipt, seenVars>>
    /\ \/ Live(fixtureId) /\ DeleteEffect /\ Proceed("confirm")
       \/ UNCHANGED releases /\ FailCleanup
       \/ /\ Live(fixtureId) /\ DeleteEffect            \* the answer is lost
          /\ \/ FailCleanup
             \/ InterruptTo("final_save")
             \/ Proceed("crashed")

Confirm ==
    /\ pc = "confirm"
    /\ UNCHANGED <<serviceVars, fixtureId, attempts, refusedId, tagUnchanged, receipt, seenVars>>
    /\ \/ ~Live(fixtureId) /\ removed' = TRUE /\ Proceed("recheck_tag")
       \/ UNCHANGED removed /\ FailCleanup              \* still there, or error

RecheckTag ==
    /\ pc = "recheck_tag"
    /\ UNCHANGED <<serviceVars, fixtureId, attempts, refusedId, removed, receipt, seenVars>>
    /\ \/ /\ tagUnchanged' = tagIntact
          /\ IF tagIntact THEN Proceed("final_save") ELSE FailCleanup
       \/ UNCHANGED tagUnchanged /\ FailCleanup

\* The innermost finally: the verdict follows failure alone.
FinalSave ==
    /\ pc = "final_save"
    /\ UNCHANGED <<serviceVars, recordVars, seenVars>>
    /\ \/ /\ SaveSucceeds(IF failure THEN "failed" ELSE "passed")
          /\ Proceed(IF failure \/ interrupted THEN "raised" ELSE "returned")
       \/ SaveFails /\ Proceed("raised")

Step == \/ CheckTag \/ SaveInitial \/ InitialAbsence
        \/ CreateDraft \/ CreateFails \/ SaveIdentity \/ Observe \/ Refuse
        \/ CleanupGet \/ DeleteDraft \/ Confirm \/ RecheckTag \/ FinalSave

\* KeyboardInterrupt between two calls.
Interrupt ==
    /\ pc \notin Terminal
    /\ InterruptTo(IF pc \in MainStages THEN CleanupStart(fixtureId)
                   ELSE IF pc \in CleanupStages THEN "final_save" ELSE "raised")
    /\ UNCHANGED <<serviceVars, recordVars, receipt, seenVars>>

\* The job is killed, or reaches its ten-minute limit.
Crash ==
    /\ pc \notin Terminal
    /\ Proceed("crashed")
    /\ UNCHANGED <<serviceVars, recordVars, receipt, seenVars>>

-----------------------------------------------------------------------------
(* Everybody else: maintainers, release workflows, the service itself. *)

OtherCreates(id) ==
    /\ releases[id].state = "unused"
    /\ \E draft \in BOOLEAN : releases' = [releases EXCEPT ![id] = Foreign(draft)]
OtherEdits(id) ==          \* body, assets or target
    /\ Live(id) /\ releases[id].intact
    /\ releases' = [releases EXCEPT ![id].intact = FALSE]
OtherRetags(id) ==
    /\ Live(id) /\ releases[id].draft /\ releases[id].onTag
    /\ releases' = [releases EXCEPT ![id].onTag = FALSE]
OtherPublishes(id) ==
    /\ Live(id) /\ releases[id].draft
    /\ releases' = [releases EXCEPT ![id].draft = FALSE]
OtherDeletes(id) ==
    /\ Live(id)
    /\ releases' = [releases EXCEPT ![id] = Deleted(@)]
BecomesListed(id) ==
    /\ Live(id) /\ ~releases[id].listed
    /\ releases' = [releases EXCEPT ![id].listed = TRUE]

\* Between the first absence check and the refusal.
OpenToOthers == {"create", "save_identity", "observe", "refuse"}

\* What they do once the probe has ended is left out.
Others ==
    /\ pc \notin Terminal
    /\ UNCHANGED <<pc, recordVars, failure, interrupted>>
    /\ \/ \E id \in ReleaseIds :
            /\ \/ OtherCreates(id)
               \/ OtherEdits(id)
               \/ OtherRetags(id)
               \/ OtherPublishes(id)
               \/ OtherDeletes(id)
               \/ BecomesListed(id)
            /\ intruded' = (intruded \/ (pc \in OpenToOthers /\ OtherCreates(id)))
            /\ raced' = (raced \/ (pc = "delete" /\ id = fixtureId /\ ~Unchanged(id)'))
            /\ UNCHANGED <<tagIntact, receipt>>
       \/ tagIntact' = ~tagIntact /\ UNCHANGED <<releases, receipt, seenVars>>
       \/ /\ receipt.kind # "foreign"
          /\ receipt' = Blank("foreign")
          /\ UNCHANGED <<releases, tagIntact, seenVars>>

Next == Step \/ Interrupt \/ Crash \/ Others

Spec == Init /\ [][Next]_vars

\* Every request carries a 30-second timeout and the loop is bounded, so the
\* probe's own steps are never postponed for ever.
FairSpec == Spec /\ WF_vars(Step)

-----------------------------------------------------------------------------
(* Properties. *)

OwnLive(id) == Live(id) /\ releases[id].owner = "probe"

\* The lookup refused, and what it refused was the draft of the probe unless
\* somebody else's release was there to be found instead of it.
Qualified == /\ refusedId # NoId
             /\ refusedId = fixtureId \/ intruded
             /\ removed
             /\ tagUnchanged
             /\ \A id \in ReleaseIds : ~OwnLive(id)

\* exercise() returns only if a lookup was refused, on account of its own draft
\* when nobody else put a release on the tag meanwhile, its draft is gone for
\* good and the tag was still frozen: no failure, lost answer, interrupt or
\* concurrent edit can be mistaken for a qualified token.
ReturnIsQualified == pc = "returned" => Qualified

\* Whenever a draft of the probe exists, the receipt with the owner nonce
\* exists (or was replaced by somebody); while the probe works on the draft,
\* and once the receipt has a verdict, it also names the known identity, so
\* whatever is left behind can be found.
DraftIsRecoverable ==
    \A id \in ReleaseIds : OwnLive(id) =>
        /\ receipt.kind # "none"
        /\ (/\ receipt.kind = "ours"
            /\ fixtureId = id
            /\ pc \in {"observe", "refuse"} \/ receipt.result \in {"passed", "failed"})
              => receipt.fixtureId = id

\* No step of the probe changes a release that is not its own, even when it
\* appears on the tag while the probe is looking.
ForeignUntouched ==
    [][pc' # pc => \A id \in ReleaseIds :
          releases[id].owner = "other" => releases'[id] = releases[id]]_vars

\* The probe removes a draft whose tag, draft state, body, assets or target is
\* no longer as it wrote it only when the change fell between its ownership
\* check and its DELETE.
RemovalRaceIsTheOnlyWindow ==
    [][pc = "delete" /\ pc' # pc /\ releases' # releases =>
          Unchanged(fixtureId) \/ raced]_vars

\* Whatever others do, the run ends: the wait for a hidden draft is bounded.
Terminates == <>(pc \in Terminal)

\* README.md, "Release controls": the receipt of a probe that passed stands
\* for a draft that was refused and removed.
PassedReceiptIsQualified ==
    receipt.kind = "ours" /\ receipt.result = "passed" => Qualified

\* README.md, "Release controls": the probe "requires lookup to identify and
\* refuse that exact draft".
ReturnRefusesItsDraft == pc = "returned" => refusedId = fixtureId

\* The promise of OwnedFixture, under the obvious reading of the state.
Fixture == INSTANCE OwnedFixture WITH
    holds   <- [id \in ReleaseIds |->
                   CASE releases[id].state = "unused"  -> "unused"
                     [] releases[id].state = "deleted" -> "deleted"
                     [] releases[id].state = "live" /\ releases[id].owner = "probe" -> "own"
                     [] OTHER -> "foreign"],
    created <- \E id \in ReleaseIds : releases[id].owner = "probe",
    verdict <- CASE pc = "returned" -> "passed"
                 [] pc \in {"raised", "crashed"} -> "failed"
                 [] OTHER -> "open"
FixtureSpec == Fixture!Spec
=============================================================================

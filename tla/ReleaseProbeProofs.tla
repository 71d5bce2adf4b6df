------------------------- MODULE ReleaseProbeProofs -------------------------
(***************************************************************************)
(* Proofs about ReleaseProbe, for any number of releases and any bound on  *)
(* the observation loop.  The inductive invariant follows the identity of  *)
(* the draft: as long as nothing failed and nothing was interrupted, every *)
(* live release of the probe is the one it recorded, and each stage of the *)
(* clean-up adds one of the facts that a successful return stands for.     *)
(***************************************************************************)
EXTENDS ReleaseProbe, TLAPS

Clean == ~failure /\ ~interrupted

Before    == {"check_tag", "save_initial", "initial_absence", "create"}
Holding   == {"save_identity", "observe", "refuse"}
AfterMain == {"cleanup_get", "delete", "confirm", "recheck_tag", "final_save", "returned"}

Owner(id) == releases[id].owner

\* What the service holds of the probe.
OwnerInv ==
    \* a release that nobody has made is no one's
    /\ \A id \in ReleaseIds : releases[id].state = "unused" => Owner(id) = "nobody"
    \* the recorded identity is a release of the probe
    /\ fixtureId # NoId => Owner(fixtureId) = "probe"
    \* nothing of the probe exists before the POST ...
    /\ pc \in Before => \A id \in ReleaseIds : Owner(id) # "probe"
    \* ... and afterwards everything of the probe is recorded, unless the
    \* answer of the POST was lost
    /\ Clean /\ pc # "crashed" =>
          \A id \in ReleaseIds : Owner(id) = "probe" => id = fixtureId
    /\ removed => fixtureId # NoId /\ releases[fixtureId].state = "deleted"

\* What has been reached when control is at a stage.
StageInv ==
    /\ pc \in Before => Clean /\ fixtureId = NoId
    /\ pc \in Before \cup {"save_identity"} => attempts = 0
    /\ pc = "observe" => attempts < MaxAttempts
    /\ pc \in Holding => Clean /\ fixtureId # NoId
    /\ pc \in AfterMain /\ Clean => fixtureId # NoId /\ refusedId # NoId
    /\ pc \in {"cleanup_get", "delete", "confirm"} => fixtureId # NoId
    /\ pc \in {"recheck_tag", "final_save", "returned"} /\ Clean => removed
    /\ pc \in {"final_save", "returned"} /\ Clean => tagUnchanged
    /\ pc = "returned" => Clean
    /\ receipt.result = "passed" /\ ~interrupted => pc = "returned"

IInv == TypeOK /\ OwnerInv /\ StageInv

-----------------------------------------------------------------------------
(* The records the model builds are well formed. *)

LEMMA ReleaseRecords ==
    /\ Unused \in Release
    /\ \A b \in BOOLEAN : OwnDraft(b) \in Release /\ Foreign(b) \in Release
    /\ \A r \in Release : /\ Deleted(r) \in Release
                          /\ Deleted(r).owner = r.owner
                          /\ Deleted(r).state = "deleted"
    /\ Unused.owner = "nobody" /\ Unused.state = "unused"
    /\ \A b \in BOOLEAN : /\ OwnDraft(b).owner = "probe" /\ OwnDraft(b).state = "live"
                          /\ Foreign(b).owner = "other" /\ Foreign(b).state = "live"
    /\ \A r \in Release : r.state \in {"unused", "live", "deleted"}
BY DEF Unused, Release, OwnDraft, Foreign, Deleted

LEMMA EditedRecords ==
    ASSUME NEW r \in Release
    PROVE  \A e \in {[r EXCEPT !.intact = FALSE], [r EXCEPT !.onTag = FALSE],
                    [r EXCEPT !.draft = FALSE], [r EXCEPT !.listed = TRUE]} :
              e \in Release /\ e.owner = r.owner /\ e.state = r.state
BY DEF Release

LEMMA ReceiptRecords ==
    /\ \A k \in {"none", "ours", "foreign"} : Blank(k) \in Receipt /\ Blank(k).result = "none"
    /\ TypeOK => \A r \in {"running", "passed", "failed"}, id \in Ids :
                    Saved(r, id) \in Receipt /\ Saved(r, id).result = r
BY DEF Blank, Receipt, Saved, Ids, TypeOK

LEMMA InitIInv == Init => IInv
<1> SUFFICES ASSUME Init PROVE IInv
  OBVIOUS
<1>1. TypeOK
  <2>1. releases \in [ReleaseIds -> Release]
    BY ReleaseRecords DEF Init
  <2>2. receipt \in Receipt
    BY ReceiptRecords DEF Init
  <2>3. attempts \in 0..MaxAttempts
    BY ProbeAssumption DEF Init
  <2>4. pc \in Stages /\ fixtureId \in Ids /\ refusedId \in Ids
    BY DEF Init, Stages, Ids
  <2>5. /\ tagIntact \in BOOLEAN /\ removed \in BOOLEAN /\ tagUnchanged \in BOOLEAN
        /\ failure \in BOOLEAN /\ interrupted \in BOOLEAN
        /\ intruded \in BOOLEAN /\ raced \in BOOLEAN
    BY DEF Init
  <2>. QED  BY <2>1, <2>2, <2>3, <2>4, <2>5 DEF TypeOK
<1>2. OwnerInv
  <2>1. \A id \in ReleaseIds :
          releases[id] = Unused \/ (\E b \in BOOLEAN : releases[id] = Foreign(b))
    BY DEF Init
  <2>2. \A id \in ReleaseIds : Owner(id) # "probe"
    BY <2>1, ReleaseRecords DEF Owner
  <2>3. \A id \in ReleaseIds : releases[id].state = "unused" => Owner(id) = "nobody"
    BY <2>1, ReleaseRecords DEF Owner
  <2>4. fixtureId = NoId /\ removed = FALSE
    BY DEF Init
  <2>. QED  BY <2>2, <2>3, <2>4 DEF OwnerInv
<1>3. StageInv
  <2>1. /\ pc = "check_tag" /\ fixtureId = NoId /\ attempts = 0
        /\ failure = FALSE /\ interrupted = FALSE
    BY DEF Init
  <2>2. receipt.result # "passed"
    BY ReceiptRecords DEF Init
  <2>. QED  BY <2>1, <2>2 DEF StageInv, Clean, Before, Holding, AfterMain
<1>. QED  BY <1>1, <1>2, <1>3 DEF IInv

LEMMA NextIInv == IInv /\ [Next]_vars => IInv'
<1> SUFFICES ASSUME IInv, [Next]_vars PROVE IInv'
  OBVIOUS
<1> USE ProbeAssumption DEF Before, Holding, AfterMain, Clean, MainStages, CleanupStages, Terminal,
      FailMain, FailCleanup, InterruptTo, Proceed, SaveSucceeds, SaveFails, serviceVars, recordVars, seenVars
<1>1. CASE CheckTag
  <2>1. TypeOK'
    BY <1>1, ReleaseRecords, ReceiptRecords DEF CheckTag, IInv, TypeOK, OwnerInv, StageInv, Ids, Stages
  <2>2. OwnerInv'
    BY <1>1, ReleaseRecords DEF CheckTag, IInv, TypeOK, OwnerInv, StageInv, Owner, Ids
  <2>3. StageInv'
    BY <1>1, ReceiptRecords DEF CheckTag, IInv, TypeOK, StageInv, Ids
  <2>. QED  BY <2>1, <2>2, <2>3 DEF IInv
<1>2. CASE SaveInitial
  <2>1. TypeOK'
    BY <1>2, ReleaseRecords, ReceiptRecords DEF SaveInitial, IInv, TypeOK, OwnerInv, StageInv, Ids, Stages
  <2>2. OwnerInv'
    BY <1>2, ReleaseRecords DEF SaveInitial, IInv, TypeOK, OwnerInv, StageInv, Owner, Ids
  <2>3. StageInv'
    BY <1>2, ReceiptRecords DEF SaveInitial, IInv, TypeOK, StageInv, Ids
  <2>. QED  BY <2>1, <2>2, <2>3 DEF IInv
<1>3. CASE InitialAbsence
  <2>1. TypeOK'
    BY <1>3, ReleaseRecords, ReceiptRecords DEF InitialAbsence, CleanupStart, IInv, TypeOK, OwnerInv, StageInv, Ids, Stages
  <2>2. OwnerInv'
    BY <1>3, ReleaseRecords DEF InitialAbsence, CleanupStart, IInv, TypeOK, OwnerInv, StageInv, Owner, Ids
  <2>3. StageInv'
    BY <1>3, ReceiptRecords DEF InitialAbsence, CleanupStart, IInv, TypeOK, StageInv, Ids
  <2>. QED  BY <2>1, <2>2, <2>3 DEF IInv
<1>4. CASE CreateDraft
  <2>1. TypeOK'
    BY <1>4, ReleaseRecords, ReceiptRecords DEF CreateDraft, PostEffect, IInv, TypeOK, OwnerInv, StageInv, Ids, Stages
  <2>2. OwnerInv'
    BY <1>4, ReleaseRecords DEF CreateDraft, PostEffect, IInv, TypeOK, OwnerInv, StageInv, Owner, Ids
  <2>3. StageInv'
    BY <1>4, ReceiptRecords DEF CreateDraft, PostEffect, IInv, TypeOK, StageInv, Ids
  <2>. QED  BY <2>1, <2>2, <2>3 DEF IInv
<1>5. CASE CreateFails
  <2>1. /\ UNCHANGED <<tagIntact, attempts, refusedId, removed, tagUnchanged, receipt, seenVars, fixtureId>>
        /\ failure' \in BOOLEAN /\ interrupted' \in BOOLEAN
        /\ pc = "create" /\ pc' \in {"crashed"} \cup CleanupStages
    BY <1>5 DEF CreateFails, CleanupStart, IInv, TypeOK, StageInv
  <2>2. \/ releases' = releases
        \/ \E id \in ReleaseIds, b \in BOOLEAN :
              releases[id].state = "unused" /\ releases' = [releases EXCEPT ![id] = OwnDraft(b)]
    BY <1>5 DEF CreateFails, PostEffect
  <2>3. TypeOK'
    <3>1. releases' \in [ReleaseIds -> Release]
      BY <2>2, ReleaseRecords DEF IInv, TypeOK
    <3>. QED  BY <2>1, <3>1 DEF IInv, TypeOK, Stages
  <2>4. (failure' \/ interrupted' \/ pc' = "crashed") /\ fixtureId' = NoId /\ removed' = FALSE
    BY <1>5 DEF CreateFails, CleanupStart, IInv, TypeOK, OwnerInv, StageInv
  <2>5. OwnerInv'
    <3>1. \A id \in ReleaseIds : releases'[id].state = "unused" => releases'[id].owner = "nobody"
      BY <2>2, ReleaseRecords DEF IInv, TypeOK, OwnerInv, Owner
    <3>. QED  BY <2>1, <2>4, <3>1 DEF OwnerInv, Owner, Ids
  <2>6. StageInv'
    BY <1>5, ReceiptRecords DEF CreateFails, PostEffect, CleanupStart, IInv, TypeOK, StageInv, Ids
  <2>. QED  BY <2>3, <2>5, <2>6 DEF IInv
<1>6. CASE SaveIdentity
  <2>1. TypeOK'
    <3>1. receipt' \in Receipt
      BY <1>6, ReceiptRecords DEF SaveIdentity, IInv, TypeOK
    <3>. QED  BY <1>6, <3>1 DEF SaveIdentity, CleanupStart, IInv, TypeOK, Stages
  <2>2. OwnerInv'
    <3>1. /\ releases' = releases /\ fixtureId' = fixtureId /\ removed' = removed
          /\ pc' \notin Before \cup {"crashed"} /\ pc \notin Before \cup {"crashed"}
          /\ Clean' => Clean
      BY <1>6 DEF SaveIdentity, CleanupStart
    <3>. QED  BY <3>1 DEF IInv, OwnerInv, Owner
  <2>3. StageInv'
    BY <1>6, ReceiptRecords DEF SaveIdentity, CleanupStart, IInv, TypeOK, StageInv, Ids
  <2>. QED  BY <2>1, <2>2, <2>3 DEF IInv
<1>7. CASE Observe
  <2>1. TypeOK'
    <3>1. receipt' \in Receipt
      BY <1>7, ReceiptRecords DEF Observe, IInv, TypeOK
    <3>2. attempts' \in 0..MaxAttempts
      BY <1>7 DEF Observe, IInv, TypeOK, StageInv
    <3>. QED
      BY <1>7, <3>1, <3>2 DEF Observe, CleanupStart, IInv, TypeOK, Stages
  <2>2. OwnerInv'
    <3>1. /\ releases' = releases /\ fixtureId' = fixtureId /\ removed' = removed
          /\ pc' \notin Before \cup {"crashed"} /\ pc \notin Before \cup {"crashed"}
          /\ Clean' => Clean
      BY <1>7 DEF Observe, CleanupStart
    <3>. QED  BY <3>1 DEF IInv, OwnerInv, Owner
  <2>3. StageInv'
    BY <1>7, ReceiptRecords DEF Observe, AttemptsLeft, CleanupStart, IInv, TypeOK, StageInv, Ids
  <2>. QED  BY <2>1, <2>2, <2>3 DEF IInv
<1>8. CASE Refuse
  <2>1. TypeOK'
    <3>1. refusedId' \in Ids
      BY <1>8 DEF Refuse, Lookup, Published, Drafts, IInv, TypeOK, Ids
    <3>. QED  BY <1>8, <3>1 DEF Refuse, CleanupStart, IInv, TypeOK, Stages
  <2>2. OwnerInv'
    BY <1>8, ReleaseRecords DEF Refuse, Lookup, Published, Drafts, CleanupStart, IInv, TypeOK, OwnerInv, StageInv, Owner, Ids
  <2>3. StageInv'
    BY <1>8, ReceiptRecords DEF Refuse, Lookup, Published, Drafts, CleanupStart, IInv, TypeOK, StageInv, Ids
  <2>. QED  BY <2>1, <2>2, <2>3 DEF IInv
<1>9. CASE CleanupGet
  <2>1. TypeOK'
    BY <1>9, ReleaseRecords, ReceiptRecords DEF CleanupGet, IInv, TypeOK, OwnerInv, StageInv, Ids, Stages
  <2>2. OwnerInv'
    BY <1>9, ReleaseRecords DEF CleanupGet, IInv, TypeOK, OwnerInv, StageInv, Owner, Ids
  <2>3. StageInv'
    BY <1>9, ReceiptRecords DEF CleanupGet, IInv, TypeOK, StageInv, Ids
  <2>. QED  BY <2>1, <2>2, <2>3 DEF IInv
<1>10. CASE DeleteDraft
  <2>1. fixtureId \in ReleaseIds
    BY <1>10 DEF DeleteDraft, IInv, TypeOK, StageInv, Ids
  <2>2. releases' \in [ReleaseIds -> Release]
    BY <1>10, <2>1, ReleaseRecords DEF DeleteDraft, DeleteEffect, IInv, TypeOK
  <2>3. TypeOK'
    BY <1>10, <2>2 DEF DeleteDraft, IInv, TypeOK, Stages
  <2>4. OwnerInv'
    BY <1>10, <2>1, ReleaseRecords
    DEF DeleteDraft, DeleteEffect, IInv, TypeOK, OwnerInv, StageInv, Owner, Ids
  <2>5. StageInv'
    BY <1>10 DEF DeleteDraft, IInv, TypeOK, StageInv, Ids
  <2>. QED  BY <2>3, <2>4, <2>5 DEF IInv
<1>11. CASE Confirm
  <2>1. TypeOK'
    BY <1>11, ReleaseRecords, ReceiptRecords DEF Confirm, Live, IInv, TypeOK, OwnerInv, StageInv, Ids, Stages
  <2>2. OwnerInv'
    BY <1>11, ReleaseRecords DEF Confirm, Live, IInv, TypeOK, OwnerInv, StageInv, Owner, Ids
  <2>3. StageInv'
    BY <1>11, ReceiptRecords DEF Confirm, Live, IInv, TypeOK, StageInv, Ids
  <2>. QED  BY <2>1, <2>2, <2>3 DEF IInv
<1>12. CASE RecheckTag
  <2>1. TypeOK'
    BY <1>12, ReleaseRecords, ReceiptRecords DEF RecheckTag, IInv, TypeOK, OwnerInv, StageInv, Ids, Stages
  <2>2. OwnerInv'
    BY <1>12, ReleaseRecords DEF RecheckTag, IInv, TypeOK, OwnerInv, StageInv, Owner, Ids
  <2>3. StageInv'
    BY <1>12, ReceiptRecords DEF RecheckTag, IInv, TypeOK, StageInv, Ids
  <2>. QED  BY <2>1, <2>2, <2>3 DEF IInv
<1>13. CASE FinalSave
  <2>1. TypeOK'
    BY <1>13, ReleaseRecords, ReceiptRecords DEF FinalSave, IInv, TypeOK, OwnerInv, StageInv, Ids, Stages
  <2>2. OwnerInv'
    BY <1>13, ReleaseRecords DEF FinalSave, IInv, TypeOK, OwnerInv, StageInv, Owner, Ids
  <2>3. StageInv'
    BY <1>13, ReceiptRecords DEF FinalSave, IInv, TypeOK, StageInv, Ids
  <2>. QED  BY <2>1, <2>2, <2>3 DEF IInv
<1>14. CASE Interrupt
  <2>1. TypeOK'
    BY <1>14, ReleaseRecords, ReceiptRecords DEF Interrupt, CleanupStart, IInv, TypeOK, OwnerInv, StageInv, Ids, Stages
  <2>2. OwnerInv'
    BY <1>14, ReleaseRecords DEF Interrupt, CleanupStart, IInv, TypeOK, OwnerInv, StageInv, Owner, Ids
  <2>3. StageInv'
    BY <1>14, ReceiptRecords DEF Interrupt, CleanupStart, IInv, TypeOK, StageInv, Ids
  <2>. QED  BY <2>1, <2>2, <2>3 DEF IInv
<1>15. CASE Crash
  <2>1. TypeOK'
    BY <1>15, ReleaseRecords, ReceiptRecords DEF Crash, IInv, TypeOK, OwnerInv, StageInv, Ids, Stages
  <2>2. OwnerInv'
    BY <1>15, ReleaseRecords DEF Crash, IInv, TypeOK, OwnerInv, StageInv, Owner, Ids
  <2>3. StageInv'
    BY <1>15, ReceiptRecords DEF Crash, IInv, TypeOK, StageInv, Ids
  <2>. QED  BY <2>1, <2>2, <2>3 DEF IInv
<1>16. CASE Others
  <2>. DEFINE Change(id, r) ==
         /\ releases' = [releases EXCEPT ![id] = r]
         /\ \/ releases[id].state = "unused" /\ r.owner = "other" /\ r.state = "live"
            \/ releases[id].state = "live" /\ r.owner = Owner(id) /\ r.state \in {"live", "deleted"}
  <2>1. \/ UNCHANGED releases
        \/ \E id \in ReleaseIds, r \in Release : Change(id, r)
    <3>1. SUFFICES ASSUME NEW id \in ReleaseIds,
                          \/ OtherCreates(id)
                          \/ OtherEdits(id)
                          \/ OtherRetags(id)
                          \/ OtherPublishes(id)
                          \/ OtherDeletes(id)
                          \/ BecomesListed(id)
                   PROVE  \E r \in Release : Change(id, r)
      BY <1>16 DEF Others
    <3>2. releases[id] \in Release
      BY DEF IInv, TypeOK
    <3>3. CASE OtherCreates(id)
      BY <3>3, ReleaseRecords DEF OtherCreates
    <3>4. CASE OtherDeletes(id)
      BY <3>2, <3>4, ReleaseRecords DEF OtherDeletes, Live, Owner
    <3>5. CASE OtherEdits(id)
      <4>. DEFINE r == [releases[id] EXCEPT !.intact = FALSE]
      <4>1. r \in Release /\ r.owner = Owner(id) /\ r.state = releases[id].state
        BY <3>2, EditedRecords DEF Owner
      <4>2. releases' = [releases EXCEPT ![id] = r] /\ releases[id].state = "live"
        BY <3>5 DEF OtherEdits, Live
      <4>. QED  BY <4>1, <4>2
    <3>6. CASE OtherRetags(id)
      <4>. DEFINE r == [releases[id] EXCEPT !.onTag = FALSE]
      <4>1. r \in Release /\ r.owner = Owner(id) /\ r.state = releases[id].state
        BY <3>2, EditedRecords DEF Owner
      <4>2. releases' = [releases EXCEPT ![id] = r] /\ releases[id].state = "live"
        BY <3>6 DEF OtherRetags, Live
      <4>. QED  BY <4>1, <4>2
    <3>7. CASE OtherPublishes(id)
      <4>. DEFINE r == [releases[id] EXCEPT !.draft = FALSE]
      <4>1. r \in Release /\ r.owner = Owner(id) /\ r.state = releases[id].state
        BY <3>2, EditedRecords DEF Owner
      <4>2. releases' = [releases EXCEPT ![id] = r] /\ releases[id].state = "live"
        BY <3>7 DEF OtherPublishes, Live
      <4>. QED  BY <4>1, <4>2
    <3>8. CASE BecomesListed(id)
      <4>. DEFINE r == [releases[id] EXCEPT !.listed = TRUE]
      <4>1. r \in Release /\ r.owner = Owner(id) /\ r.state = releases[id].state
        BY <3>2, EditedRecords DEF Owner
      <4>2. releases' = [releases EXCEPT ![id] = r] /\ releases[id].state = "live"
        BY <3>8 DEF BecomesListed, Live
      <4>. QED  BY <4>1, <4>2
    <3>. QED  BY <3>1, <3>3, <3>4, <3>5, <3>6, <3>7, <3>8
  <2>2. UNCHANGED <<pc, fixtureId, attempts, refusedId, removed, tagUnchanged, failure, interrupted>>
    BY <1>16 DEF Others
  <2>3. /\ tagIntact' \in BOOLEAN /\ intruded' \in BOOLEAN /\ raced' \in BOOLEAN /\ receipt' \in Receipt
        /\ receipt'.result = "passed" => receipt.result = "passed"
    BY <1>16, ReceiptRecords DEF Others, IInv, TypeOK
  <2>4. TypeOK'
    BY <2>1, <2>2, <2>3 DEF IInv, TypeOK
  <2>5. OwnerInv'
    <3>1. CASE UNCHANGED releases
      BY <2>2, <3>1 DEF IInv, OwnerInv, Owner
    <3>2. ASSUME NEW id \in ReleaseIds, NEW r \in Release, Change(id, r)
          PROVE  OwnerInv'
      <4>1. \A i \in ReleaseIds : releases'[i] = IF i = id THEN r ELSE releases[i]
        BY <3>2 DEF IInv, TypeOK
      <4>2. \A i \in ReleaseIds : (Owner(i) = "probe") <=> (Owner(i)' = "probe")
        BY <3>2, <4>1 DEF IInv, OwnerInv, Owner
      <4>3. \A i \in ReleaseIds : releases'[i].state = "unused" => Owner(i)' = "nobody"
        BY <3>2, <4>1 DEF IInv, OwnerInv, Owner
      <4>4. fixtureId # NoId => fixtureId \in ReleaseIds
        BY DEF IInv, TypeOK, Ids
      <4>5. removed => releases'[fixtureId].state = "deleted"
        BY <3>2, <4>1, <4>4 DEF IInv, OwnerInv
      <4>. QED
        BY <2>2, <4>2, <4>3, <4>4, <4>5 DEF IInv, OwnerInv
    <3>. QED  BY <2>1, <3>1, <3>2
  <2>6. StageInv'
    BY <2>2, <2>3 DEF IInv, StageInv
  <2>. QED  BY <2>4, <2>5, <2>6 DEF IInv
<1>17. CASE UNCHANGED vars
  <2>1. TypeOK'
    BY <1>17, ReleaseRecords, ReceiptRecords DEF vars, IInv, TypeOK, OwnerInv, StageInv, Ids, Stages
  <2>2. OwnerInv'
    BY <1>17, ReleaseRecords DEF vars, IInv, TypeOK, OwnerInv, StageInv, Owner, Ids
  <2>3. StageInv'
    BY <1>17, ReceiptRecords DEF vars, IInv, TypeOK, StageInv, Ids
  <2>. QED  BY <2>1, <2>2, <2>3 DEF IInv
<1>. QED
  BY <1>1, <1>2, <1>3, <1>4, <1>5, <1>6, <1>7, <1>8, <1>9, <1>10, <1>11, <1>12, <1>13, <1>14, <1>15, <1>16, <1>17 DEF Next, Step

THEOREM Invariance == Spec => []IInv
BY InitIInv, NextIInv, PTL DEF Spec

-----------------------------------------------------------------------------

\* Every variable keeps its type in every reachable state.
THEOREM TypeCorrect == Spec => []TypeOK
<1>1. IInv => TypeOK
  BY DEF IInv
<1>. QED  BY Invariance, <1>1, PTL

\* What the lookup can find, and what it has refused.
TagInv ==
    \* a live release has a maker, and every listing shows those of others
    /\ \A id \in ReleaseIds : Live(id) =>
          Owner(id) = "probe" \/ (Owner(id) = "other" /\ releases[id].listed)
    \* the absence check has seen that nobody else holds the tag, and nobody
    \* takes it from then on unnoticed
    /\ pc \in OpenToOthers /\ ~intruded =>
          \A id \in ReleaseIds : Live(id) /\ releases[id].onTag => Owner(id) = "probe"
    /\ pc \in AfterMain /\ Clean => refusedId = fixtureId \/ intruded

LEMMA InitTagInv == Init => TagInv
<1> SUFFICES ASSUME Init PROVE TagInv
  OBVIOUS
<1>1. \A id \in ReleaseIds :
        releases[id] = Unused \/ (\E b \in BOOLEAN : releases[id] = Foreign(b))
  BY DEF Init
<1>2. ~Unused.state = "live" /\ \A b \in BOOLEAN : Foreign(b).owner = "other" /\ Foreign(b).listed
  BY DEF Unused, Foreign
<1>3. pc = "check_tag"
  BY DEF Init
<1>. QED  BY <1>1, <1>2, <1>3 DEF TagInv, Live, Owner, OpenToOthers, AfterMain

\* What others do to one release, as far as TagInv can see it.
LEMMA OthersOnTag ==
    ASSUME IInv, Others
    PROVE  \/ UNCHANGED releases
           \/ \E id \in ReleaseIds :
                 /\ \A i \in ReleaseIds \ {id} : releases'[i] = releases[i]
                 /\ \/ /\ Owner(id)' = "other" /\ releases'[id].listed
                       /\ pc \in OpenToOthers => intruded'
                    \/ /\ Live(id) /\ Owner(id)' = Owner(id)
                       /\ releases[id].listed => releases'[id].listed
                       /\ releases'[id].onTag => releases[id].onTag
                    \/ ~Live(id)'
<1>1. SUFFICES ASSUME NEW id \in ReleaseIds,
                      \/ OtherCreates(id) \/ OtherEdits(id) \/ OtherRetags(id)
                      \/ OtherPublishes(id) \/ OtherDeletes(id) \/ BecomesListed(id),
                      OtherCreates(id) /\ pc \in OpenToOthers => intruded'
               PROVE  /\ \A i \in ReleaseIds \ {id} : releases'[i] = releases[i]
                      /\ \/ /\ Owner(id)' = "other" /\ releases'[id].listed
                            /\ pc \in OpenToOthers => intruded'
                         \/ /\ Live(id) /\ Owner(id)' = Owner(id)
                            /\ releases[id].listed => releases'[id].listed
                            /\ releases'[id].onTag => releases[id].onTag
                         \/ ~Live(id)'
  BY Zenon DEF Others
<1>2. releases \in [ReleaseIds -> Release] /\ releases[id] \in Release
  BY DEF IInv, TypeOK
<1>3. CASE OtherCreates(id)
  <2>1. \A b \in BOOLEAN : Foreign(b).owner = "other" /\ Foreign(b).listed
    BY DEF Foreign
  <2>. QED  BY <1>1, <1>2, <1>3, <2>1 DEF OtherCreates, Owner
<1>4. CASE OtherDeletes(id)
  BY <1>2, <1>4, ReleaseRecords DEF OtherDeletes, Live
<1>5. CASE OtherEdits(id)
  BY <1>2, <1>5 DEF OtherEdits, Live, Owner, Release
<1>6. CASE OtherRetags(id)
  BY <1>2, <1>6 DEF OtherRetags, Live, Owner, Release
<1>7. CASE OtherPublishes(id)
  BY <1>2, <1>7 DEF OtherPublishes, Live, Owner, Release
<1>8. CASE BecomesListed(id)
  BY <1>2, <1>8 DEF BecomesListed, Live, Owner, Release
<1>. QED  BY <1>1, <1>3, <1>4, <1>5, <1>6, <1>7, <1>8

LEMMA NextTagInv == IInv /\ TagInv /\ [Next]_vars => TagInv'
<1> SUFFICES ASSUME IInv, TagInv, [Next]_vars PROVE TagInv'
  OBVIOUS
<1> USE DEF OpenToOthers, AfterMain, Clean, CleanupStart, FailMain, FailCleanup, InterruptTo, Proceed,
      MainStages, CleanupStages, serviceVars, recordVars, seenVars
<1>1. CASE InitialAbsence
  <2>1. pc' = "create" => Published = {} /\ Drafts = {}
    BY <1>1, ProbeAssumption DEF InitialAbsence, IInv, StageInv, Lookup, Published, Drafts
  <2>2. pc' = "create" => \A id \in ReleaseIds : Live(id) /\ releases[id].onTag => Owner(id) = "probe"
    BY <2>1, Zenon DEF Published, Drafts, TagInv
  <2>3. pc' \in AfterMain => failure'
    BY <1>1 DEF InitialAbsence
  <2>. QED  BY <1>1, <2>2, <2>3 DEF InitialAbsence, TagInv, Live, Owner
<1>2. CASE CreateDraft \/ CreateFails
  <2>1. /\ pc = "create" /\ intruded' = intruded
        /\ pc' \in AfterMain => failure' \/ interrupted'
    BY <1>2 DEF CreateDraft, CreateFails
  <2>2. \/ releases' = releases
        \/ \E id \in ReleaseIds, b \in BOOLEAN : releases' = [releases EXCEPT ![id] = OwnDraft(b)]
    BY <1>2 DEF CreateDraft, CreateFails, PostEffect
  <2>3. \A id \in ReleaseIds : releases'[id] = releases[id] \/ Owner(id)' = "probe"
    BY <2>2, ReleaseRecords DEF IInv, TypeOK, Owner
  <2>. QED  BY <2>1, <2>3 DEF TagInv, Live, Owner
<1>3. CASE Refuse
  <2>1. CASE failure'
    BY <1>3, <2>1 DEF Refuse, TagInv, Live, Owner
  <2>2. CASE ~failure'
    <3>1. /\ refusedId' \in Published \cup Drafts /\ pc = "refuse"
          /\ UNCHANGED <<releases, fixtureId, intruded>>
      BY <1>3, <2>2 DEF Refuse, Lookup
    <3>2. refusedId' \in ReleaseIds /\ Live(refusedId') /\ releases[refusedId'].onTag
      BY <3>1 DEF Published, Drafts
    <3>3. intruded \/ refusedId' = fixtureId
      BY <3>1, <3>2, <1>3, <2>2 DEF TagInv, IInv, OwnerInv, StageInv, Holding, Refuse
    <3>4. pc' \notin OpenToOthers
      BY <1>3, <2>2 DEF Refuse
    <3>. QED  BY <3>1, <3>3, <3>4 DEF TagInv, Live, Owner
  <2>. QED  BY <2>1, <2>2
<1>4. CASE DeleteDraft
  <2>1. fixtureId \in ReleaseIds
    BY <1>4 DEF DeleteDraft, IInv, TypeOK, StageInv, Ids
  <2>2. \A id \in ReleaseIds : releases'[id] = releases[id] \/ ~Live(id)'
    BY <1>4, <2>1, ReleaseRecords DEF DeleteDraft, DeleteEffect, Live, IInv, TypeOK
  <2>. QED  BY <1>4, <2>2 DEF DeleteDraft, TagInv, Live, Owner
<1>5. CASE Others
  <2>1. UNCHANGED <<pc, refusedId, fixtureId, failure, interrupted>>
    BY <1>5 DEF Others
  <2>2. intruded => intruded'
    BY <1>5, Zenon DEF Others
  <2>3. CASE UNCHANGED releases
    BY <2>1, <2>2, <2>3 DEF TagInv, Live, Owner
  <2>4. CASE ~UNCHANGED releases
    BY <1>5, <2>1, <2>2, <2>4, OthersOnTag DEF TagInv, Live, Owner
  <2>. QED  BY <2>3, <2>4
<1>6. CASE UNCHANGED vars
  BY <1>6 DEF vars, TagInv, Live, Owner
<1>7. CASE CheckTag \/ SaveInitial \/ SaveIdentity \/ Observe
  <2>1. UNCHANGED <<releases, refusedId, fixtureId, intruded>>
    BY <1>7 DEF CheckTag, SaveInitial, SaveIdentity, Observe
  <2>2. pc' \in OpenToOthers => pc \in OpenToOthers
    BY <1>7 DEF CheckTag, SaveInitial, SaveIdentity, Observe
  <2>3. pc' \in AfterMain => failure'
    BY <1>7 DEF CheckTag, SaveInitial, SaveIdentity, Observe
  <2>. QED  BY <2>1, <2>2, <2>3 DEF TagInv, Live, Owner
<1>8. CASE CleanupGet \/ Confirm \/ RecheckTag \/ FinalSave \/ Interrupt \/ Crash
  <2>1. UNCHANGED <<releases, refusedId, fixtureId, intruded>> /\ pc' \notin OpenToOthers
    BY <1>8 DEF CleanupGet, Confirm, RecheckTag, FinalSave, Interrupt, Crash, Terminal
  <2>2. pc' \in AfterMain /\ Clean' => pc \in AfterMain /\ Clean
    BY <1>8 DEF CleanupGet, Confirm, RecheckTag, FinalSave, Interrupt, Crash, Terminal
  <2>. QED  BY <2>1, <2>2 DEF TagInv, Live, Owner
<1>. QED
  BY <1>1, <1>2, <1>3, <1>4, <1>5, <1>6, <1>7, <1>8 DEF Next, Step

\* A successful return stands for a refused lookup, a removed draft and a
\* frozen tag, and nothing of the probe is left; what was refused is the draft
\* of the probe unless somebody else put a release on the tag while the probe
\* held it, which lines 157-160 do not tell apart: exercise(), lines 110-200.
THEOREM ReturnCorrect == Spec => []ReturnIsQualified
<1>1. IInv /\ TagInv => ReturnIsQualified
  <2> SUFFICES ASSUME IInv, TagInv, pc = "returned" PROVE Qualified
    BY DEF ReturnIsQualified
  <2>1. /\ refusedId # NoId /\ removed /\ tagUnchanged /\ Clean
        /\ refusedId = fixtureId \/ intruded
    BY DEF IInv, StageInv, TagInv, AfterMain
  <2>2. \A id \in ReleaseIds : ~OwnLive(id)
    BY <2>1 DEF IInv, OwnerInv, OwnLive, Live, Owner
  <2>. QED  BY <2>1, <2>2 DEF Qualified
<1>. QED  BY Invariance, InitTagInv, NextTagInv, <1>1, PTL DEF Spec

\* No step of the probe touches a release that is not its own.
THEOREM ForeignSafe == Spec => ForeignUntouched
<1>1. IInv /\ [Next]_vars =>
        [pc' # pc => \A id \in ReleaseIds :
            releases[id].owner = "other" => releases'[id] = releases[id]]_vars
  <2> SUFFICES ASSUME IInv, [Next]_vars, pc' # pc,
                      NEW id \in ReleaseIds, releases[id].owner = "other"
               PROVE  releases'[id] = releases[id]
    OBVIOUS
  <2>1. CASE CreateDraft \/ CreateFails
    BY <2>1 DEF CreateDraft, CreateFails, PostEffect, IInv, TypeOK, OwnerInv, Owner
  <2>2. CASE DeleteDraft
    <3>1. fixtureId # NoId /\ releases[fixtureId].owner = "probe"
      BY <2>2 DEF DeleteDraft, IInv, StageInv, OwnerInv, Owner
    <3>. QED  BY <2>2, <3>1 DEF DeleteDraft, DeleteEffect, IInv, TypeOK
  <2>3. CASE UNCHANGED releases
    BY <2>3
  <2>4. Others => pc' = pc
    BY DEF Others
  <2>. QED
    BY <2>1, <2>2, <2>3, <2>4
    DEF Next, Step, vars, serviceVars, CheckTag, SaveInitial, InitialAbsence, SaveIdentity,
        Observe, Refuse, CleanupGet, Confirm, RecheckTag, FinalSave, Interrupt, Crash
<1>. QED  BY Invariance, <1>1, PTL DEF Spec, ForeignUntouched

-----------------------------------------------------------------------------
\* While DELETE is the next call, the draft is as it was checked, or somebody
\* has been faster.
RaceInv == pc = "delete" => Unchanged(fixtureId) \/ raced

LEMMA NextRaceInv == IInv /\ RaceInv /\ [Next]_vars => RaceInv'
<1> SUFFICES ASSUME IInv, RaceInv, [Next]_vars, pc' = "delete"
             PROVE  Unchanged(fixtureId)' \/ raced'
  BY DEF RaceInv
<1>1. CASE CleanupGet
  BY <1>1 DEF CleanupGet, Unchanged, Proceed, FailCleanup, serviceVars, recordVars
<1>2. CASE Others
  <2>1. pc = "delete" /\ fixtureId' = fixtureId /\ fixtureId \in ReleaseIds
    BY <1>2 DEF Others, recordVars, IInv, TypeOK, StageInv, Ids
  <2>2. CASE UNCHANGED <<releases, raced>>
    BY <2>1, <2>2 DEF RaceInv, Unchanged
  <2>3. ASSUME NEW id \in ReleaseIds,
               raced' = (raced \/ (pc = "delete" /\ id = fixtureId /\ ~Unchanged(id)')),
               id = fixtureId \/ releases'[fixtureId] = releases[fixtureId]
        PROVE  Unchanged(fixtureId)' \/ raced'
    <3>1. raced => raced'
      BY <2>3, Zenon
    <3>2. CASE id = fixtureId
      BY <2>1, <2>3, <3>2, Zenon
    <3>3. CASE id # fixtureId
      BY <2>1, <2>3, <3>1, <3>3 DEF RaceInv, Unchanged
    <3>. QED  BY <3>2, <3>3
  <2>4. \A id \in ReleaseIds :
           \/ OtherCreates(id) \/ OtherEdits(id) \/ OtherRetags(id)
           \/ OtherPublishes(id) \/ OtherDeletes(id) \/ BecomesListed(id)
           => id = fixtureId \/ releases'[fixtureId] = releases[fixtureId]
    BY <2>1 DEF OtherCreates, OtherEdits, OtherRetags, OtherPublishes, OtherDeletes, BecomesListed,
                IInv, TypeOK
  <2>. QED  BY <1>2, <2>2, <2>3, <2>4 DEF Others, seenVars
<1>3. CASE UNCHANGED vars
  BY <1>3 DEF vars, serviceVars, recordVars, seenVars, RaceInv, Unchanged
<1>. QED
  BY <1>1, <1>2, <1>3
  DEF Next, Step, CheckTag, SaveInitial, InitialAbsence, CreateDraft, CreateFails, SaveIdentity,
      Observe, Refuse, DeleteDraft, Confirm, RecheckTag, FinalSave, Interrupt, Crash, CleanupStart,
      Proceed, FailMain, FailCleanup, InterruptTo, MainStages, CleanupStages

\* The probe removes a draft whose tag, draft state, body, assets or target has
\* changed only if the change fell between its check and its DELETE: the
\* clean-up of exercise, lines 171-182.  A new title or prerelease flag is no
\* change there.
THEOREM RaceCorrect == Spec => RemovalRaceIsTheOnlyWindow
<1>1. Init => RaceInv
  BY DEF Init, RaceInv
<1>2. RaceInv /\ [Next]_vars =>
        [pc = "delete" /\ pc' # pc /\ releases' # releases => Unchanged(fixtureId) \/ raced]_vars
  BY DEF RaceInv
<1>. QED
  BY <1>1, <1>2, Invariance, NextRaceInv, PTL DEF Spec, RemovalRaceIsTheOnlyWindow
-----------------------------------------------------------------------------
\* The receipt is there before the draft is, and what it says of the draft
\* is what the probe knows.
ReceiptInv ==
    /\ pc \notin {"check_tag", "save_initial", "raised", "crashed"} => receipt.kind # "none"
    /\ receipt.kind = "none" => \A id \in ReleaseIds : Owner(id) # "probe"
    /\ pc \notin Terminal => receipt.result \notin {"passed", "failed"}
    /\ receipt.kind = "ours"
         /\ (pc \in {"observe", "refuse"} \/ receipt.result \in {"passed", "failed"})
         => receipt.fixtureId = fixtureId

LEMMA NextReceiptInv == IInv /\ ReceiptInv /\ [Next]_vars => ReceiptInv'
<1> SUFFICES ASSUME IInv, ReceiptInv, [Next]_vars PROVE ReceiptInv'
  OBVIOUS
<1> USE DEF FailMain, FailCleanup, InterruptTo, Proceed, SaveSucceeds, SaveFails, Saved, CleanupStart,
      serviceVars, recordVars, Terminal, MainStages, CleanupStages
<1>1. CASE CreateDraft \/ CreateFails
  BY <1>1 DEF CreateDraft, CreateFails, ReceiptInv
<1>2. CASE DeleteDraft
  <2>1. fixtureId \in ReleaseIds
    BY <1>2 DEF DeleteDraft, IInv, TypeOK, StageInv, Ids
  <2>2. \A id \in ReleaseIds : Owner(id)' = Owner(id)
    BY <1>2, <2>1, ReleaseRecords DEF DeleteDraft, DeleteEffect, Owner, IInv, TypeOK
  <2>. QED  BY <1>2, <2>2 DEF DeleteDraft, ReceiptInv
<1>3. CASE Others
  <2>1. \A id \in ReleaseIds : Owner(id)' = "probe" => Owner(id) = "probe"
    <3>1. ASSUME NEW id \in ReleaseIds,
                 \/ OtherCreates(id) \/ OtherEdits(id) \/ OtherRetags(id)
                 \/ OtherPublishes(id) \/ OtherDeletes(id) \/ BecomesListed(id),
                 NEW i \in ReleaseIds
          PROVE  Owner(i)' = "probe" => Owner(i) = "probe"
      <4>1. releases[id] \in Release /\ releases[i] \in Release
        BY DEF IInv, TypeOK
      <4>2. CASE OtherCreates(id)
        BY <4>2, ReleaseRecords DEF OtherCreates, Owner, IInv, TypeOK
      <4>3. CASE OtherDeletes(id)
        BY <4>1, <4>3, ReleaseRecords DEF OtherDeletes, Owner, IInv, TypeOK
      <4>4. CASE OtherEdits(id) \/ OtherRetags(id) \/ OtherPublishes(id) \/ BecomesListed(id)
        <5>1. \E r \in {[releases[id] EXCEPT !.intact = FALSE], [releases[id] EXCEPT !.onTag = FALSE],
                        [releases[id] EXCEPT !.draft = FALSE], [releases[id] EXCEPT !.listed = TRUE]} :
                releases' = [releases EXCEPT ![id] = r]
          BY <4>4, Zenon DEF OtherEdits, OtherRetags, OtherPublishes, BecomesListed
        <5>2. \E r \in Release : releases' = [releases EXCEPT ![id] = r] /\ r.owner = Owner(id)
          BY <4>1, <5>1, EditedRecords, Zenon DEF Owner
        <5>. QED  BY <5>2 DEF Owner, IInv, TypeOK
      <4>. QED  BY <3>1, <4>2, <4>3, <4>4
    <3>. QED  BY <1>3, <3>1 DEF Others, Owner
  <2>2. \/ receipt' = receipt
        \/ receipt'.kind = "foreign" /\ receipt'.result = "none"
    BY <1>3 DEF Others, Blank
  <2>3. UNCHANGED <<pc, fixtureId>>
    BY <1>3 DEF Others
  <2>. QED  BY <2>1, <2>2, <2>3 DEF ReceiptInv
<1>4. CASE UNCHANGED vars
  BY <1>4 DEF vars, ReceiptInv, Owner
<1>5. CASE SaveInitial
  BY <1>5 DEF SaveInitial, ReceiptInv, Owner, IInv, OwnerInv, Before
<1>6. CASE SaveIdentity \/ Observe \/ FinalSave
  BY <1>6 DEF SaveIdentity, Observe, FinalSave, ReceiptInv, Owner
<1>7. CASE CheckTag \/ InitialAbsence \/ Refuse \/ CleanupGet \/ Confirm \/ RecheckTag \/ Interrupt \/ Crash
  BY <1>7 DEF CheckTag, InitialAbsence, Refuse, CleanupGet, Confirm, RecheckTag, Interrupt, Crash,
     ReceiptInv, Owner
<1>. QED  BY <1>1, <1>2, <1>3, <1>4, <1>5, <1>6, <1>7 DEF Next, Step

\* Whatever of the probe is left at the service can be found: the receipt
\* with the nonce is older than the draft and names its identity as soon as
\* the probe works on it (save(), lines 73-82).
THEOREM RecoveryCorrect == Spec => []DraftIsRecoverable
<1>1. Init => ReceiptInv
  <2> SUFFICES ASSUME Init PROVE ReceiptInv
    OBVIOUS
  <2>1. pc = "check_tag" /\ receipt.result = "none" /\ receipt.kind = "none"
    BY DEF Init, Blank
  <2>2. \A id \in ReleaseIds : Owner(id) # "probe"
    BY <2>1, InitIInv DEF IInv, OwnerInv, Before
  <2>. QED  BY <2>1, <2>2 DEF ReceiptInv
<1>2. IInv /\ ReceiptInv => DraftIsRecoverable
  BY DEF ReceiptInv, DraftIsRecoverable, OwnLive, Owner
<1>. QED  BY <1>1, <1>2, Invariance, NextReceiptInv, PTL DEF Spec

-----------------------------------------------------------------------------
(* ReleaseProbe implements OwnedFixture, for any number of releases.  Most  *)
(* calls of the probe leave the service alone, and the abstract run stands  *)
(* still or concludes; the POST creates, the DELETE removes, and the others *)
(* act as they may.                                                         *)

\* The state of OwnedFixture that a state of the probe stands for.
HoldsOf(id) ==
    CASE releases[id].state = "unused"  -> "unused"
      [] releases[id].state = "deleted" -> "deleted"
      [] releases[id].state = "live" /\ releases[id].owner = "probe" -> "own"
      [] OTHER -> "foreign"
HoldsBar   == [id \in ReleaseIds |-> HoldsOf(id)]
CreatedBar == \E id \in ReleaseIds : releases[id].owner = "probe"
VerdictBar == CASE pc = "returned" -> "passed"
                [] pc \in {"raised", "crashed"} -> "failed"
                [] OTHER -> "open"

AbstractStep == Fixture!Next \/ UNCHANGED <<HoldsBar, CreatedBar, VerdictBar>>

-----------------------------------------------------------------------------
(* The abstract actions, told of the state they stand for. *)

LEMMA Told ==
    /\ \A id \in ReleaseIds :
         /\ Fixture!CreateOwn(id) <=>
              /\ VerdictBar = "open" /\ ~CreatedBar /\ HoldsBar[id] = "unused"
              /\ HoldsBar' = [HoldsBar EXCEPT ![id] = "own"]
              /\ CreatedBar' = TRUE
              /\ VerdictBar' \in {"open", "failed"}
         /\ Fixture!RemoveOwn(id) <=>
              /\ VerdictBar = "open" /\ HoldsBar[id] = "own"
              /\ HoldsBar' = [HoldsBar EXCEPT ![id] = "deleted"]
              /\ VerdictBar' \in {"open", "failed"}
              /\ UNCHANGED CreatedBar
         /\ Fixture!OthersAct(id) <=>
              /\ \/ HoldsBar[id] = "unused" /\ HoldsBar' = [HoldsBar EXCEPT ![id] = "foreign"]
                 \/ HoldsBar[id] \in {"own", "foreign"} /\ HoldsBar' = [HoldsBar EXCEPT ![id] = "deleted"]
              /\ UNCHANGED <<CreatedBar, VerdictBar>>
    /\ Fixture!Conclude <=>
         /\ VerdictBar = "open"
         /\ \/ /\ CreatedBar
               /\ \A id \in ReleaseIds : HoldsBar[id] # "own"
               /\ VerdictBar' = "passed"
            \/ VerdictBar' = "failed"
         /\ UNCHANGED <<HoldsBar, CreatedBar>>
    /\ Fixture!Next <=>
         \/ \E id \in ReleaseIds : Fixture!CreateOwn(id) \/ Fixture!RemoveOwn(id) \/ Fixture!OthersAct(id)
         \/ Fixture!Conclude
    /\ Fixture!vars = <<HoldsBar, CreatedBar, VerdictBar>>
BY Zenon DEF Fixture!CreateOwn, Fixture!RemoveOwn, Fixture!OthersAct, Fixture!Conclude,
   Fixture!Next, Fixture!vars, HoldsBar, HoldsOf, CreatedBar, VerdictBar

LEMMA Verdicts ==
    /\ pc \notin Terminal => VerdictBar = "open"
    /\ pc = "returned" => VerdictBar = "passed"
    /\ pc \in {"raised", "crashed"} => VerdictBar = "failed"
BY DEF VerdictBar, Terminal

\* The same of the state after a step.
LEMMA VerdictsNext ==
    /\ pc' \notin Terminal => VerdictBar' = "open"
    /\ pc' = "returned" => VerdictBar' = "passed"
    /\ pc' \in {"raised", "crashed"} => VerdictBar' = "failed"
BY DEF VerdictBar, Terminal
LEMMA Holdings ==
    ASSUME IInv, NEW id \in ReleaseIds
    PROVE  /\ HoldsBar[id] = HoldsOf(id)
           /\ releases[id].state = "unused" => HoldsOf(id) = "unused"
           /\ releases[id].state = "deleted" => HoldsOf(id) = "deleted"
           /\ releases[id].state = "live" /\ Owner(id) = "probe" => HoldsOf(id) = "own"
           /\ releases[id].state = "live" /\ Owner(id) # "probe" => HoldsOf(id) = "foreign"
           /\ releases[id].state \in {"unused", "deleted", "live"}
<1>1. releases[id] \in Release
  BY DEF IInv, TypeOK
<1>2. releases[id].state \in {"unused", "deleted", "live"}
  BY <1>1 DEF Release
<1>3. HoldsBar[id] = HoldsOf(id)
  BY DEF HoldsBar
<1>. QED  BY <1>2, <1>3 DEF HoldsOf, Owner

\* A step of the probe that leaves the service alone.
LEMMA Quiet ==
    ASSUME IInv, IInv', UNCHANGED releases, pc \notin Terminal
    PROVE  AbstractStep
<1>1. UNCHANGED <<HoldsBar, CreatedBar>>
  BY Zenon DEF HoldsBar, HoldsOf, CreatedBar
<1>2. VerdictBar = "open"
  BY Verdicts
<1>3. CASE pc' \notin Terminal
  <2>1. VerdictBar' = "open"
    BY <1>3, VerdictsNext
  <2>. QED  BY <1>1, <1>2, <2>1 DEF AbstractStep
<1>4. CASE pc' \in {"raised", "crashed"}
  <2>1. VerdictBar' = "failed"
    BY <1>4, VerdictsNext
  <2>. QED  BY <1>1, <1>2, <2>1, Told DEF AbstractStep
<1>5. CASE pc' = "returned"
  <2>1. VerdictBar' = "passed"
    BY <1>5, VerdictsNext
  <2>2. /\ fixtureId' # NoId /\ releases'[fixtureId'].state = "deleted"
        /\ releases'[fixtureId'].owner = "probe"
        /\ \A id \in ReleaseIds : releases'[id].owner = "probe" => id = fixtureId'
    BY <1>5 DEF IInv, StageInv, OwnerInv, Owner, Clean, AfterMain
  <2>3. CreatedBar
    BY <2>2 DEF CreatedBar, IInv, TypeOK, Ids
  <2>4. \A id \in ReleaseIds : HoldsBar[id] # "own"
    BY <2>2, Holdings DEF Owner
  <2>. QED  BY <1>1, <1>2, <2>1, <2>3, <2>4, Told DEF AbstractStep
<1>. QED  BY <1>3, <1>4, <1>5 DEF Terminal

\* A step that changes one release.
LEMMA Changed ==
    ASSUME IInv, NEW id \in ReleaseIds, NEW r \in Release,
           releases' = [releases EXCEPT ![id] = r], NEW h, h = HoldsOf(id)'
    PROVE  /\ HoldsBar' = [HoldsBar EXCEPT ![id] = h]
           /\ r.owner = Owner(id) => CreatedBar' = CreatedBar
           /\ r.owner # "probe" /\ Owner(id) # "probe" => CreatedBar' = CreatedBar
           /\ releases'[id] = r
<1>1. /\ releases'[id] = r
      /\ \A i \in ReleaseIds : i # id => releases'[i] = releases[i]
  BY DEF IInv, TypeOK
<1>2. \A i \in ReleaseIds : i # id => HoldsOf(i)' = HoldsOf(i)
  BY <1>1, Zenon DEF HoldsOf
<1>3. HoldsBar' = [i \in ReleaseIds |-> HoldsOf(i)']
  BY DEF HoldsBar
<1>4. HoldsBar' = [HoldsBar EXCEPT ![id] = h]
  BY <1>2, <1>3 DEF HoldsBar
<1>5. r.owner = Owner(id) => (CreatedBar' <=> CreatedBar)
  BY <1>1 DEF CreatedBar, Owner
<1>6. r.owner # "probe" /\ Owner(id) # "probe" => (CreatedBar' <=> CreatedBar)
  BY <1>1 DEF CreatedBar, Owner
<1>7. CreatedBar \in BOOLEAN /\ CreatedBar' \in BOOLEAN
  BY DEF CreatedBar
<1>. QED  BY <1>1, <1>4, <1>5, <1>6, <1>7, Zenon

\* What the changed release stands for after the step.
LEMMA HoldingsNext ==
    ASSUME NEW id \in ReleaseIds
    PROVE  /\ releases'[id].state = "deleted" => HoldsOf(id)' = "deleted"
           /\ releases'[id].state = "live" /\ releases'[id].owner = "probe" => HoldsOf(id)' = "own"
           /\ releases'[id].state = "live" /\ releases'[id].owner # "probe" => HoldsOf(id)' = "foreign"
BY DEF HoldsOf

\* The POST takes effect, whatever becomes of its answer.
LEMMA Creation ==
    ASSUME IInv, pc = "create", NEW id \in ReleaseIds, NEW listed \in BOOLEAN,
           PostEffect(id, listed), pc' \in Stages \ {"returned"}
    PROVE  AbstractStep
<1>1. /\ OwnDraft(listed) \in Release
      /\ OwnDraft(listed).state = "live" /\ OwnDraft(listed).owner = "probe"
  BY ReleaseRecords
<1>2. releases'[id] = OwnDraft(listed) /\ HoldsOf(id)' = "own"
  BY <1>1, Changed, HoldingsNext DEF PostEffect
<1>3. HoldsBar' = [HoldsBar EXCEPT ![id] = "own"]
  BY <1>1, <1>2, Changed DEF PostEffect
<1>4. HoldsBar[id] = "unused"
  BY Holdings DEF PostEffect
<1>5. ~CreatedBar
  BY DEF CreatedBar, IInv, OwnerInv, Owner, Before
<1>6. CreatedBar' = TRUE
  <2>1. CreatedBar'
    BY <1>1, <1>2 DEF CreatedBar
  <2>. QED  BY <2>1, Zenon DEF CreatedBar
<1>7. VerdictBar = "open" /\ VerdictBar' \in {"open", "failed"}
  BY Verdicts, VerdictsNext DEF Stages, Terminal
<1>8. Fixture!CreateOwn(id)
  BY <1>3, <1>4, <1>5, <1>6, <1>7, Told, Zenon
<1>. QED  BY <1>8, Told DEF AbstractStep

\* The DELETE takes effect, whatever becomes of its answer.
LEMMA Removal ==
    ASSUME IInv, pc = "delete", Live(fixtureId), DeleteEffect, pc' \in Stages \ {"returned"}
    PROVE  AbstractStep
<1>1. PICK id \in ReleaseIds : id = fixtureId /\ Owner(id) = "probe"
  BY DEF IInv, TypeOK, OwnerInv, StageInv, Ids
<1>2. /\ Deleted(releases[id]) \in Release
      /\ Deleted(releases[id]).state = "deleted"
      /\ Deleted(releases[id]).owner = Owner(id)
  BY ReleaseRecords DEF IInv, TypeOK, Owner
<1>3. releases' = [releases EXCEPT ![id] = Deleted(releases[id])]
  BY <1>1 DEF DeleteEffect
<1>4. releases'[id] = Deleted(releases[id]) /\ HoldsOf(id)' = "deleted"
  BY <1>2, <1>3, Changed, HoldingsNext
<1>5. HoldsBar' = [HoldsBar EXCEPT ![id] = "deleted"] /\ UNCHANGED CreatedBar
  BY <1>2, <1>3, <1>4, Changed
<1>6. HoldsBar[id] = "own"
  BY <1>1, Holdings DEF Live
<1>7. VerdictBar = "open" /\ VerdictBar' \in {"open", "failed"}
  BY Verdicts, VerdictsNext DEF Stages, Terminal
<1>8. Fixture!RemoveOwn(id)
  BY <1>5, <1>6, <1>7, Told, Zenon
<1>. QED  BY <1>8, Told DEF AbstractStep

\* Everybody else.
LEMMA OthersStep ==
    ASSUME IInv, Others
    PROVE  AbstractStep
<1>1. UNCHANGED VerdictBar
  BY Zenon DEF Others, VerdictBar
<1>2. CASE UNCHANGED releases
  <2>1. UNCHANGED <<HoldsBar, CreatedBar>>
    BY <1>2, Zenon DEF HoldsBar, HoldsOf, CreatedBar
  <2>. QED  BY <1>1, <2>1 DEF AbstractStep
<1>3. ASSUME NEW id \in ReleaseIds, OtherCreates(id)
      PROVE  AbstractStep
  <2>1. PICK draft \in BOOLEAN : releases' = [releases EXCEPT ![id] = Foreign(draft)]
    BY <1>3 DEF OtherCreates
  <2>2. /\ Foreign(draft) \in Release
        /\ Foreign(draft).state = "live" /\ Foreign(draft).owner = "other"
    BY ReleaseRecords
  <2>3. releases'[id] = Foreign(draft) /\ HoldsOf(id)' = "foreign"
    BY <2>1, <2>2, Changed, HoldingsNext
  <2>4. Owner(id) # "probe" /\ HoldsBar[id] = "unused"
    BY <1>3, Holdings DEF OtherCreates, IInv, OwnerInv
  <2>5. HoldsBar' = [HoldsBar EXCEPT ![id] = "foreign"] /\ UNCHANGED CreatedBar
    BY <2>1, <2>2, <2>3, <2>4, Changed
  <2>6. Fixture!OthersAct(id)
    BY <1>1, <2>4, <2>5, Told, Zenon
  <2>. QED  BY <2>6, Told DEF AbstractStep
<1>4. ASSUME NEW id \in ReleaseIds, OtherDeletes(id)
      PROVE  AbstractStep
  <2>1. releases' = [releases EXCEPT ![id] = Deleted(releases[id])]
    BY <1>4 DEF OtherDeletes
  <2>2. /\ Deleted(releases[id]) \in Release
        /\ Deleted(releases[id]).state = "deleted" /\ Deleted(releases[id]).owner = Owner(id)
    BY ReleaseRecords DEF IInv, TypeOK, Owner
  <2>3. releases'[id] = Deleted(releases[id]) /\ HoldsOf(id)' = "deleted"
    BY <2>1, <2>2, Changed, HoldingsNext
  <2>4. HoldsBar[id] \in {"own", "foreign"}
    BY <1>4, Holdings DEF OtherDeletes, Live
  <2>5. HoldsBar' = [HoldsBar EXCEPT ![id] = "deleted"] /\ UNCHANGED CreatedBar
    BY <2>1, <2>2, <2>3, Changed
  <2>6. Fixture!OthersAct(id)
    BY <1>1, <2>4, <2>5, Told, Zenon
  <2>. QED  BY <2>6, Told DEF AbstractStep
<1>5. ASSUME NEW id \in ReleaseIds, Live(id), NEW r \in Release,
             releases' = [releases EXCEPT ![id] = r],
             r.state = releases[id].state, r.owner = Owner(id)
      PROVE  AbstractStep
  <2>1. HoldsOf(id)' = HoldsOf(id)
    <3>1. releases'[id] = r
      BY <1>5, Changed
    <3>. QED  BY <1>5, <3>1, Holdings, HoldingsNext DEF Live
  <2>2. HoldsBar' = [HoldsBar EXCEPT ![id] = HoldsOf(id)] /\ UNCHANGED CreatedBar
    BY <1>5, <2>1, Changed
  <2>3. UNCHANGED HoldsBar
    BY <2>2, Holdings DEF HoldsBar
  <2>. QED  BY <1>1, <2>2, <2>3 DEF AbstractStep
<1>6. ASSUME NEW id \in ReleaseIds,
             OtherEdits(id) \/ OtherRetags(id) \/ OtherPublishes(id) \/ BecomesListed(id)
      PROVE  AbstractStep
  <2>1. releases[id] \in Release /\ Live(id)
    BY <1>6 DEF IInv, TypeOK, OtherEdits, OtherRetags, OtherPublishes, BecomesListed
  <2>2. \E r \in {[releases[id] EXCEPT !.intact = FALSE], [releases[id] EXCEPT !.onTag = FALSE],
                  [releases[id] EXCEPT !.draft = FALSE], [releases[id] EXCEPT !.listed = TRUE]} :
          releases' = [releases EXCEPT ![id] = r]
    BY <1>6, Zenon DEF OtherEdits, OtherRetags, OtherPublishes, BecomesListed
  <2>3. \E r \in Release : /\ releases' = [releases EXCEPT ![id] = r]
                           /\ r.owner = Owner(id) /\ r.state = releases[id].state
    BY <2>1, <2>2, EditedRecords, Zenon DEF Owner
  <2>. QED  BY <1>5, <2>1, <2>3
<1>. QED  BY <1>2, <1>3, <1>4, <1>6 DEF Others

LEMMA StepRefines ==
    IInv /\ IInv' /\ [Next]_vars => [Fixture!Next]_Fixture!vars
<1> SUFFICES ASSUME IInv, IInv', [Next]_vars PROVE AbstractStep
  BY Zenon DEF AbstractStep, Fixture!vars, HoldsBar, HoldsOf, CreatedBar, VerdictBar
<1>1. CASE Others
  BY <1>1, OthersStep
<1>2. CASE UNCHANGED vars
  BY <1>2, Zenon DEF vars, serviceVars, AbstractStep, HoldsBar, HoldsOf, CreatedBar, VerdictBar
<1>3. CASE CreateFails \/ CreateDraft
  <2>1. pc = "create" /\ pc' \in Stages \ {"returned"}
    BY <1>3 DEF CreateFails, CreateDraft, Proceed, FailMain, InterruptTo, CleanupStart, IInv, TypeOK
  <2>2. \/ UNCHANGED releases
        \/ \E id \in ReleaseIds, listed \in BOOLEAN : PostEffect(id, listed)
    BY <1>3 DEF CreateFails, CreateDraft
  <2>. QED  BY <2>1, <2>2, Creation, Quiet DEF Terminal
<1>4. CASE DeleteDraft
  <2>1. pc = "delete" /\ pc' \in Stages \ {"returned"}
    BY <1>4 DEF DeleteDraft, Proceed, FailCleanup, InterruptTo, IInv, TypeOK
  <2>2. UNCHANGED releases \/ (Live(fixtureId) /\ DeleteEffect)
    BY <1>4 DEF DeleteDraft
  <2>. QED  BY <2>1, <2>2, Removal, Quiet DEF Terminal
<1>5. CASE (Step /\ ~CreateFails /\ ~CreateDraft /\ ~DeleteDraft) \/ Interrupt \/ Crash
  <2>1. UNCHANGED releases /\ pc \notin Terminal
    BY <1>5 DEF Step, CheckTag, SaveInitial, InitialAbsence, SaveIdentity, Observe, Refuse,
       CleanupGet, Confirm, RecheckTag, FinalSave, Interrupt, Crash, serviceVars, Terminal
  <2>. QED  BY <2>1, Quiet
<1>. QED  BY <1>1, <1>2, <1>3, <1>4, <1>5 DEF Next

LEMMA InitRefines == Init => Fixture!Init
<1> SUFFICES ASSUME Init PROVE Fixture!Init
  OBVIOUS
<1>1. IInv /\ pc = "check_tag"
  BY InitIInv DEF Init
<1>2. VerdictBar = "open"
  BY <1>1, Verdicts DEF Terminal
<1>3. \A id \in ReleaseIds : Owner(id) # "probe"
  BY <1>1 DEF IInv, OwnerInv, Before
<1>4. CreatedBar = FALSE
  <2>1. ~CreatedBar
    BY <1>3 DEF CreatedBar, Owner
  <2>. QED  BY <2>1, Zenon DEF CreatedBar
<1>5. \A id \in ReleaseIds : releases[id].state \in {"unused", "live"}
  BY ReleaseRecords DEF Init
<1>6. \A id \in ReleaseIds : HoldsOf(id) \in {"unused", "foreign"}
  BY <1>1, <1>3, <1>5, Holdings
<1>7. HoldsBar \in [ReleaseIds -> {"unused", "foreign"}]
  BY <1>6 DEF HoldsBar
<1>8. Fixture!Init <=> /\ HoldsBar \in [ReleaseIds -> {"unused", "foreign"}]
                       /\ CreatedBar = FALSE
                       /\ VerdictBar = "open"
  BY Zenon DEF Fixture!Init, HoldsBar, HoldsOf, CreatedBar, VerdictBar
<1>. QED  BY <1>2, <1>4, <1>7, <1>8, Zenon

\* exercise() keeps the promise of the README's "Release controls": one
\* release at most, no other one removed, success only for a release that
\* was created and is gone, and nothing touched after the verdict.
THEOREM ProbeImplementsFixture == Spec => FixtureSpec
BY InitRefines, StepRefines, Invariance, PTL DEF Spec, FixtureSpec, Fixture!Spec

-----------------------------------------------------------------------------
(* The end of the probe.  What fairness adds to it stays with Terminates.   *)

\* The calls that may still come after the one at pc, without the turns of the
\* observation loop.
Ahead == [s \in Stages |->
    CASE s = "check_tag"       -> 12
      [] s = "save_initial"    -> 11
      [] s = "initial_absence" -> 10
      [] s = "create"          -> 9
      [] s = "save_identity"   -> 8
      [] s = "observe"         -> 7
      [] s = "refuse"          -> 6
      [] s = "cleanup_get"     -> 5
      [] s = "delete"          -> 4
      [] s = "confirm"         -> 3
      [] s = "recheck_tag"     -> 2
      [] s = "final_save"      -> 1
      [] OTHER                 -> 0]

CallsLeft == Ahead[pc] + (MaxAttempts - attempts)

\* Every call of the probe, an interrupt and the end of the job bring exercise()
\* nearer to its end, and nobody else can put it off: no call is sent twice but
\* the lookup, and that at most MaxAttempts times.
CallsCountDown ==
    [][/\ CallsLeft' <= CallsLeft
       /\ Step \/ Interrupt \/ Crash => CallsLeft' < CallsLeft]_vars

LEMMA CallsNat ==
  ASSUME TypeOK PROVE CallsLeft \in Nat /\ (pc \notin Terminal => CallsLeft > 0)
<1>1. pc \in Stages /\ attempts \in 0..MaxAttempts /\ MaxAttempts \in Nat
  BY ProbeAssumption DEF TypeOK
<1>2. Ahead[pc] \in 0..12 /\ (pc \notin Terminal => Ahead[pc] > 0)
  BY <1>1 DEF Ahead, Stages, MainStages, CleanupStages, Terminal
<1>. QED  BY <1>1, <1>2 DEF CallsLeft

\* A step to a later stage that makes no turn of the loop counts down.
LEMMA Later ==
  ASSUME TypeOK, TypeOK', attempts' = attempts, Ahead[pc'] < Ahead[pc]
  PROVE  CallsLeft' < CallsLeft
<1>1. attempts \in Nat /\ MaxAttempts \in Nat
  BY ProbeAssumption DEF TypeOK
<1>2. Ahead[pc] \in 0..12 /\ Ahead[pc'] \in 0..12
  BY DEF Ahead, TypeOK, Stages, MainStages, CleanupStages, Terminal
<1>3. Ahead' = Ahead
  BY DEF Ahead
<1>. QED  BY <1>1, <1>2, <1>3 DEF CallsLeft

LEMMA Places ==
  /\ Ahead["check_tag"] = 12 /\ Ahead["save_initial"] = 11 /\ Ahead["initial_absence"] = 10
  /\ Ahead["create"] = 9 /\ Ahead["save_identity"] = 8 /\ Ahead["observe"] = 7 /\ Ahead["refuse"] = 6
  /\ Ahead["cleanup_get"] = 5 /\ Ahead["delete"] = 4 /\ Ahead["confirm"] = 3
  /\ Ahead["recheck_tag"] = 2 /\ Ahead["final_save"] = 1
  /\ Ahead["returned"] = 0 /\ Ahead["raised"] = 0 /\ Ahead["crashed"] = 0
  /\ \A id : Ahead[CleanupStart(id)] \in {2, 5}
BY DEF Ahead, Stages, MainStages, CleanupStages, Terminal, CleanupStart

\* One turn of the loop, whatever it finds.
LEMMA TurnCounts ==
  ASSUME TypeOK, TypeOK', Observe PROVE CallsLeft' < CallsLeft
<1>1. pc = "observe" /\ attempts \in Nat /\ MaxAttempts \in Nat /\ Ahead' = Ahead
  BY ProbeAssumption DEF TypeOK, Observe, Ahead
<1>2. \/ attempts' = attempts + 1 /\ (pc' \in {"observe", "refuse"} \/ \E id : pc' = CleanupStart(id))
      \/ attempts' = attempts /\ \E id : pc' = CleanupStart(id)
  BY DEF Observe, Proceed, FailMain
<1>3. Ahead[pc'] \in {2, 5, 6, 7}
  BY <1>2, Places
<1>4. attempts' = attempts => Ahead[pc'] \in {2, 5}
  BY <1>1, <1>2, Places
<1>. QED  BY <1>1, <1>2, <1>3, <1>4, Places DEF CallsLeft

LEMMA StepCounts ==
  ASSUME TypeOK, TypeOK', Step \/ Interrupt \/ Crash PROVE CallsLeft' < CallsLeft
<1>1. CASE Observe
  BY <1>1, TurnCounts
<1>2. CASE CheckTag \/ SaveInitial \/ InitialAbsence
  <2>1. attempts' = attempts
    BY <1>2 DEF CheckTag, SaveInitial, InitialAbsence, recordVars
  <2>2. Ahead[pc'] < Ahead[pc]
    BY <1>2, Places DEF CheckTag, SaveInitial, InitialAbsence, Proceed, FailMain
  <2>. QED  BY <2>1, <2>2, Later
<1>3. CASE CreateDraft \/ CreateFails \/ SaveIdentity
  <2>1. attempts' = attempts
    BY <1>3 DEF CreateDraft, CreateFails, SaveIdentity, recordVars
  <2>2. Ahead[pc'] < Ahead[pc]
    BY <1>3, Places DEF CreateDraft, CreateFails, SaveIdentity, Proceed, FailMain, InterruptTo
  <2>. QED  BY <2>1, <2>2, Later
<1>4. CASE Refuse
  <2>1. attempts' = attempts
    BY <1>4 DEF Refuse
  <2>2. Ahead[pc'] < Ahead[pc]
    BY <1>4, Places DEF Refuse, Proceed, FailMain
  <2>. QED  BY <2>1, <2>2, Later
<1>5. CASE CleanupGet \/ DeleteDraft \/ Confirm \/ RecheckTag \/ FinalSave
  <2>1. attempts' = attempts
    BY <1>5 DEF CleanupGet, DeleteDraft, Confirm, RecheckTag, FinalSave, recordVars
  <2>2. Ahead[pc'] < Ahead[pc]
    BY <1>5, Places DEF CleanupGet, DeleteDraft, Confirm, RecheckTag, FinalSave,
                        Proceed, FailCleanup, InterruptTo
  <2>. QED  BY <2>1, <2>2, Later
<1>6. CASE Interrupt
  <2>1. attempts' = attempts
    BY <1>6 DEF Interrupt, recordVars
  <2>2. Ahead[pc'] < Ahead[pc]
    BY <1>6, Places DEF TypeOK, Stages, Interrupt, InterruptTo, MainStages, CleanupStages, Terminal
  <2>. QED  BY <2>1, <2>2, Later
<1>7. CASE Crash
  <2>1. attempts' = attempts
    BY <1>7 DEF Crash, recordVars
  <2>2. Ahead[pc'] < Ahead[pc]
    BY <1>7, Places DEF TypeOK, Stages, Crash, Proceed, MainStages, CleanupStages, Terminal
  <2>. QED  BY <2>1, <2>2, Later
<1>. QED  BY <1>1, <1>2, <1>3, <1>4, <1>5, <1>6, <1>7 DEF Step

\* exercise() makes at most 12 + MaxAttempts steps, whatever fails, is interrupted
\* or is changed under it, and as long as it has not ended it has one to make:
\* probe_release_lookup.py, lines 121-200.  With the timeout every call has, this
\* is why the probe ends.
THEOREM EndsInBoundedCalls ==
    Spec => /\ CallsCountDown
            /\ [](CallsLeft \in Nat /\ (pc \notin Terminal => CallsLeft > 0))
<1>1. IInv => CallsLeft \in Nat /\ (pc \notin Terminal => CallsLeft > 0)
  BY CallsNat DEF IInv
<1>2. IInv /\ IInv' /\ [Next]_vars =>
        [/\ CallsLeft' <= CallsLeft
         /\ Step \/ Interrupt \/ Crash => CallsLeft' < CallsLeft]_vars
  <2> SUFFICES ASSUME IInv, IInv', Next
               PROVE  /\ CallsLeft' <= CallsLeft
                      /\ Step \/ Interrupt \/ Crash => CallsLeft' < CallsLeft
    OBVIOUS
  <2>1. TypeOK /\ TypeOK' /\ CallsLeft \in Nat
    BY <1>1 DEF IInv
  <2>2. Step \/ Interrupt \/ Crash => CallsLeft' < CallsLeft
    BY <2>1, StepCounts
  <2>3. CallsLeft' \in Nat
    <3>1. attempts' \in 0..MaxAttempts /\ MaxAttempts \in Nat /\ Ahead[pc'] \in 0..12 /\ Ahead' = Ahead
      BY <2>1, ProbeAssumption DEF TypeOK, Ahead, Stages, MainStages, CleanupStages, Terminal
    <3>. QED  BY <3>1 DEF CallsLeft
  <2>4. CASE Others
    <3>1. pc' = pc /\ attempts' = attempts /\ Ahead' = Ahead
      BY <2>4 DEF Others, recordVars, Ahead
    <3>. QED  BY <2>1, <2>2, <2>3, <3>1 DEF CallsLeft
  <2>. QED  BY <2>1, <2>2, <2>3, <2>4 DEF Next
<1>. QED  BY <1>1, <1>2, Invariance, PTL DEF Spec, CallsCountDown
=============================================================================

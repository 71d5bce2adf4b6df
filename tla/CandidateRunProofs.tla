------------------------- MODULE CandidateRunProofs -------------------------
(***************************************************************************)
(* Proofs about CandidateRun for any set of runs and of builds.  The       *)
(* invariant has a part that follows each run by itself (Local), a part    *)
(* that says which tags a run stands for (Mine), and a part that says      *)
(* whom a tag keeps out (Exclusion): a run that has found both tags free   *)
(* has the daemon to itself, unless another one was found inside           *)
(* load_candidate_archive beside it.                                       *)
(***************************************************************************)
EXTENDS CandidateRun, TLAPS

\* In load_candidate_archive, after the last inspection.
Deep == {"load", "loaded", "bind", "bound", "untag", "unwind"}
\* From run_artifact_test to the end of main's `finally'.
Post == {"inspect", "network", "postgres", "launch", "exercise", "report", "remove", "discard"}
Early == {"start", "stage", "validate", "attest", "archive", "select", "verified"}

Local(s) ==
    /\ s.pc \in Early \cup Deep \cup {"inspect", "network", "postgres"} => s.next = 1
    /\ s.pc = "launch" => s.next <= Len(Launches)
    /\ s.pc \in {"start", "stage", "done"} \cup Post => s.staged = None
    /\ s.pc \in Early \cup Deep \cup {"inspect", "network"} => s.left = {}
    /\ s.pc \in {"discard", "done"} /\ ~ s.stuck => s.left = {}
    /\ s.pc \in Deep \ {"load"} => s.loaded
    /\ s.pc \in {"bound", "untag"} => s.bound
    /\ s.pc \in Early \cup {"load", "loaded", "bind"} => ~ s.bound
    /\ s.pc = "start" => s.used = {}
    /\ s.evidence = "stale" => s.pc = "start" \/ (s.pc = "done" /\ s.stuck /\ s.used = {})
    /\ s.evidence = "passed" => s.pc \in {"remove", "discard", "done", "killed"} /\ s.used # {}
    /\ s.evidence = "passed" /\ s.failing => s.stuck
    /\ s.pc \in {"remove", "discard"} /\ ~ s.failing => s.evidence = "passed"
    /\ s.pc = "launch" /\ s.next > 1 => s.used # {}
    /\ s.pc \in {"exercise", "report"} => s.used # {}
    /\ s.rc # "none" => s.pc = "done"
    /\ s.rc = "ok" => s.evidence = "passed"
    /\ s.rc = "failed" /\ s.evidence = "passed" => s.stuck

\* The run has bound the verified tag and has not begun to remove it.
Holding(s) == s.pc \in {"bound", "untag"} \cup Post \/ (s.pc = "unwind" /\ s.bound)

\* Why a tag names run r as the one that set it.
Mine(r) ==
    /\ tag["archive"].by = r /\ ~ run[r].stuck => run[r].pc \in (Deep \ {"load"}) \cup {"killed"}
    /\ tag["verified"].by = r /\ ~ run[r].stuck => Holding(run[r]) \/ run[r].pc = "killed"
    /\ run[r].rc = "ok" => \A x \in Refs : tag[x].by # r

\* What was there before the runs keeps every run out.
Free(r) ==
    /\ run[r].pc \in {"select", "verified"} \cup Deep \cup Post => tag["archive"].by # Other
    /\ run[r].pc \in Deep \cup Post => tag["verified"].by # Other

Exclusion ==
    NoRace => \A r \in Runs :
        /\ Holding(run[r]) => tag["verified"] = [image |-> pinned[r], by |-> r]
        /\ run[r].used \subseteq {pinned[r]}
        /\ \A q \in Runs \ {r} :
              /\ tag["archive"].by = r => run[q].pc \notin Loading \cup Post
              /\ tag["verified"].by = r => run[q].pc \notin Deep \cup Post

IInv ==
    /\ TypeOK
    /\ \A r \in Runs : Local(run[r]) /\ Mine(r) /\ Free(r)
    /\ Exclusion

-----------------------------------------------------------------------------
LEMMA LaunchFacts ==
    /\ Len(Launches) = 5
    /\ Launches[1] # "invalid" /\ Launches[2] # "invalid"
    /\ Len(Objects) = 2
    /\ ObjectNames = {"containers", "network"}
BY DEF Launches, Objects, ObjectNames

LEMMA InitIInv == Init => IInv
<1> SUFFICES ASSUME Init PROVE IInv
  OBVIOUS
<1>1. \A r \in Runs : run[r] =
         [pc |-> "start", staged |-> None, loaded |-> FALSE, bound |-> FALSE, next |-> 1,
          failing |-> FALSE, left |-> {}, evidence |-> "stale", rc |-> "none",
          raced |-> FALSE, used |-> {}, judged |-> {}, stuck |-> FALSE]
  BY DEF Init
<1>2. TypeOK
  <2>1. run \in [Runs -> RunState]
    BY LaunchFacts DEF Init, RunState, Stages, Loading
  <2>2. source \in [Runs -> Candidates \cup {Other}]
    BY DEF Init
  <2>3. tag \in [Refs -> [image : Candidates \cup {Other, None}, by : Runs \cup {Other, None}]]
    BY DEF Init, Absent
  <2>. QED  BY <2>1, <2>2, <2>3 DEF Init, TypeOK
<1>3. \A x \in Refs : tag[x].by \in {Other, None}
  BY DEF Init, Absent
<1>4. \A r \in Runs : Local(run[r])
  BY <1>1 DEF Local, Early, Deep, Post
<1>5. \A r \in Runs : Mine(r) /\ Free(r)
  BY <1>1, <1>3, ValuesAssumption DEF Mine, Free, Deep, Post, Refs, Holding
<1>6. Exclusion
  BY <1>1, <1>3, ValuesAssumption DEF Exclusion, Holding, Deep, Post, Refs
<1>. QED  BY <1>2, <1>4, <1>5, <1>6 DEF IInv

-----------------------------------------------------------------------------
(* Steps that leave the tags alone.  Continues(r, s) is what such a step,   *)
(* after which the run is in state s, may rely on and has to keep.          *)

Continues(r, s) ==
    LET u == run[r]
        AfterArchive == {"select", "verified"} \cup Deep \cup Post
    IN /\ s.pc \in AfterArchive => u.pc \in AfterArchive \/ tag["archive"] = Absent
       /\ s.pc \in Deep \cup Post => u.pc \in Deep \cup Post \/ tag["verified"] = Absent
       /\ Holding(s) => Holding(u)
       /\ Holding(u) => Holding(s) \/ s.pc = "killed"
       /\ u.pc \in Deep \ {"load"} => s.pc \in (Deep \ {"load"}) \cup {"killed"}
       /\ u.pc # "killed"
       /\ s.raced = u.raced
       /\ u.stuck => s.stuck
       /\ s.rc # "ok"
       /\ s.used # u.used => u.pc = "launch" /\ s.used = u.used \cup {tag["verified"].image}

Good(r) == \E s \in RunState : Become(r, s) /\ Local(s) /\ Continues(r, s)

LEMMA GotoGood ==
    ASSUME NEW r \in Runs, run[r] \in RunState, Local(run[r]), NEW p \in Stages, Goto(r, p),
           \/ run[r].pc = "validate" /\ p = "attest"
           \/ run[r].pc = "attest" /\ p = "archive"
           \/ run[r].pc = "archive" /\ p = "select" /\ tag["archive"] = Absent
           \/ run[r].pc = "select" /\ p = "verified"
           \/ run[r].pc = "verified" /\ p = "load" /\ tag["verified"] = Absent
           \/ run[r].pc = "loaded" /\ p = "bind"
           \/ run[r].pc = "bound" /\ p = "untag"
           \/ run[r].pc = "inspect" /\ p = "network"
           \/ run[r].pc = "exercise" /\ p = "report"
           \/ run[r].pc \notin {"start", "done", "killed"} /\ p = "killed"
    PROVE  Good(r)
<1> DEFINE u == run[r]
           s == [u EXCEPT !.pc = p]
<1>1. s \in RunState
  BY DEF RunState
<1>2. /\ s.pc = p /\ s.staged = u.staged /\ s.loaded = u.loaded /\ s.bound = u.bound
      /\ s.next = u.next /\ s.failing = u.failing /\ s.left = u.left /\ s.evidence = u.evidence
      /\ s.rc = u.rc /\ s.raced = u.raced /\ s.used = u.used /\ s.stuck = u.stuck
  BY DEF RunState
<1>3. Local(s)
  BY <1>2, LaunchFacts DEF Local, Early, Deep, Post
<1>4. Continues(r, s)
  BY <1>2 DEF Continues, Local, Early, Deep, Post, Holding
<1>. QED  BY <1>1, <1>3, <1>4 DEF Good, Goto

LEMMA GiveUpGood ==
    ASSUME NEW r \in Runs, run[r] \in RunState, Local(run[r]), GiveUp(r),
           run[r].pc \in Early \ {"start"}
    PROVE  Good(r)
<1> DEFINE u == run[r]
           s == [u EXCEPT !.pc = "done", !.rc = "failed", !.staged = None]
<1>1. s \in RunState
  BY DEF RunState, Stages, Loading
<1>2. /\ s.pc = "done" /\ s.staged = None /\ s.rc = "failed" /\ s.left = u.left
      /\ s.evidence = u.evidence /\ s.raced = u.raced /\ s.used = u.used /\ s.stuck = u.stuck
  BY DEF RunState
<1>3. Local(s)
  BY <1>2 DEF Local, Early, Deep, Post
<1>4. Continues(r, s)
  BY <1>2 DEF Continues, Local, Early, Deep, Post, Holding
<1>. QED  BY <1>1, <1>3, <1>4 DEF Good, GiveUp

LEMMA UnwindGood ==
    ASSUME NEW r \in Runs, run[r] \in RunState, Local(run[r]), Unwind(r),
           run[r].pc \in {"loaded", "bound"}
    PROVE  Good(r)
<1> DEFINE u == run[r]
           s == [u EXCEPT !.failing = TRUE, !.pc = "unwind"]
<1>1. s \in RunState
  BY DEF RunState, Stages, Loading
<1>2. /\ s.pc = "unwind" /\ s.staged = u.staged /\ s.loaded = u.loaded /\ s.bound = u.bound
      /\ s.next = u.next /\ s.failing = TRUE /\ s.left = u.left /\ s.evidence = u.evidence
      /\ s.rc = u.rc /\ s.raced = u.raced /\ s.used = u.used /\ s.stuck = u.stuck
  BY DEF RunState
<1>3. Local(s)
  BY <1>2 DEF Local, Early, Deep, Post
<1>4. Continues(r, s)
  BY <1>2 DEF Continues, Local, Early, Deep, Post, Holding
<1>. QED  BY <1>1, <1>3, <1>4 DEF Good, Unwind

\* The objects of run_artifact_test, created or not.
LEMMA CreateGood ==
    ASSUME NEW r \in Runs, run[r] \in RunState, Local(run[r]),
           NEW stage \in Stages, NEW object \in ObjectNames, NEW then \in Stages,
           \/ stage = "network" /\ then = "postgres"
           \/ stage = "postgres" /\ then = "launch",
           CreateObject(r, stage, object, then)
    PROVE  Good(r)
<1> DEFINE u == run[r]
<1>1. PICK ok \in BOOLEAN, effect \in BOOLEAN :
         Become(r, [u EXCEPT !.left = IF effect THEN @ \cup {object} ELSE @,
                             !.failing = ~ ok,
                             !.pc = IF ok THEN then ELSE "remove"])
  BY DEF CreateObject
<1> DEFINE left == IF effect THEN u.left \cup {object} ELSE u.left
           p == IF ok THEN then ELSE "remove"
           s == [u EXCEPT !.left = left, !.failing = ~ ok, !.pc = p]
<1>2. u.pc = stage /\ left \in SUBSET ObjectNames /\ p \in Stages
  BY DEF CreateObject, At, RunState, Stages
<1>3. s \in RunState
  BY <1>2 DEF RunState
<1>4. /\ s.pc = p /\ s.staged = u.staged /\ s.bound = u.bound
      /\ s.next = u.next /\ s.evidence = u.evidence
      /\ s.rc = u.rc /\ s.raced = u.raced /\ s.used = u.used /\ s.stuck = u.stuck
  BY DEF RunState
<1>7. p = "remove" => s.failing
  BY DEF RunState
<1>. HIDE DEF s
<1>5. Local(s)
  BY <1>2, <1>4, <1>7, LaunchFacts DEF Local, Early, Deep, Post
<1>6. Continues(r, s)
  BY <1>2, <1>4 DEF Continues, Local, Early, Deep, Post, Holding
<1>. QED  BY <1>1, <1>3, <1>5, <1>6 DEF Good, s

\* main, up to the staged copy.
LEMMA StartGood ==
    ASSUME NEW r \in Runs, run[r] \in RunState, Local(run[r]), Start(r)
    PROVE  Good(r)
<1> DEFINE u == run[r]
<1>1. CASE EvidenceStays(r)
  <2> DEFINE s == [u EXCEPT !.pc = "done", !.rc = "failed", !.stuck = TRUE]
  <2>1. s \in RunState
    BY DEF RunState, Stages
  <2>2. /\ s.pc = "done" /\ s.rc = "failed" /\ s.stuck /\ s.evidence = u.evidence
        /\ s.staged = u.staged /\ s.bound = u.bound /\ s.next = u.next /\ s.left = u.left
        /\ s.raced = u.raced /\ s.used = u.used
    BY DEF RunState
  <2>3. Local(s) /\ Continues(r, s)
    BY <2>2 DEF Start, At, Local, Continues, Early, Deep, Post, Holding
  <2>. QED  BY <1>1, <2>1, <2>3 DEF Good, EvidenceStays
<1>2. ASSUME NEW ok \in BOOLEAN,
             Become(r, [u EXCEPT !.evidence = "none",
                                 !.pc = IF ok THEN "stage" ELSE "done",
                                 !.rc = IF ok THEN "none" ELSE "failed"])
      PROVE  Good(r)
  <2> DEFINE p == IF ok THEN "stage" ELSE "done"
             c == IF ok THEN "none" ELSE "failed"
             s == [u EXCEPT !.evidence = "none", !.pc = p, !.rc = c]
  <2>1. s \in RunState
    BY DEF RunState, Stages
  <2>2. /\ s.pc = p /\ s.rc = c /\ s.evidence = "none" /\ s.staged = u.staged /\ s.bound = u.bound
        /\ s.next = u.next /\ s.left = u.left
        /\ s.raced = u.raced /\ s.used = u.used /\ s.stuck = u.stuck
    BY DEF RunState
  <2>3. u.pc = "start" /\ p \in {"stage", "done"} /\ (p = "stage" <=> c = "none") /\ c # "ok"
    BY DEF Start, At
  <2>. HIDE DEF s, p, c
  <2>4. Local(s)
    BY <2>2, <2>3 DEF Local, Early, Deep, Post
  <2>5. Continues(r, s)
    BY <2>2, <2>3 DEF Continues, Local, Early, Deep, Post, Holding
  <2>. QED  BY <1>2, <2>1, <2>4, <2>5 DEF Good, s, p, c
<1>. QED  BY <1>1, <1>2 DEF Start

LEMMA StageArchiveGood ==
    ASSUME TypeOK, NEW r \in Runs, run[r] \in RunState, Local(run[r]), StageArchive(r)
    PROVE  Good(r)
<1> DEFINE u == run[r]
           s == [u EXCEPT !.pc = "validate", !.staged = source[r]]
<1>1. CASE GiveUp(r)
  BY <1>1, GiveUpGood DEF StageArchive, At, Early
<1>2. CASE Become(r, s)
  <2>1. s \in RunState
    BY ZenonT(60) DEF TypeOK, RunState, Stages
  <2>2. /\ s.pc = "validate" /\ s.bound = u.bound /\ s.next = u.next /\ s.left = u.left
        /\ s.evidence = u.evidence /\ s.rc = u.rc
        /\ s.raced = u.raced /\ s.used = u.used /\ s.stuck = u.stuck
    BY DEF RunState
  <2>3. Local(s) /\ Continues(r, s)
    BY <2>2 DEF StageArchive, At, Local, Continues, Early, Deep, Post, Holding
  <2>. QED  BY <1>2, <2>1, <2>3 DEF Good
<1>. QED  BY <1>1, <1>2 DEF StageArchive

\* The launches that must succeed.
LEMMA LaunchImageGood ==
    ASSUME TypeOK, NEW r \in Runs, run[r] \in RunState, Local(run[r]), LaunchImage(r)
    PROVE  Good(r)
<1> DEFINE u == run[r]
           image == tag["verified"].image
<1>1. PICK ok \in BOOLEAN, starts \in BOOLEAN :
         /\ ok => starts
         /\ starts => image # None
         /\ Become(r, [u EXCEPT
              !.used = IF starts THEN @ \cup {image} ELSE @,
              !.next = @ + 1,
              !.failing = ~ ok,
              !.pc = IF ~ ok THEN "remove"
                     ELSE IF u.next = Len(Launches) THEN "exercise" ELSE "launch"])
  BY DEF LaunchImage
<1> DEFINE used == IF starts THEN u.used \cup {image} ELSE u.used
           p == IF ~ ok THEN "remove"
                ELSE IF u.next = Len(Launches) THEN "exercise" ELSE "launch"
           s == [u EXCEPT !.used = used, !.next = @ + 1, !.failing = ~ ok, !.pc = p]
<1>2. u.pc = "launch" /\ u.next \in 1 .. Len(Launches)
  BY LaunchFacts DEF LaunchImage, At, Local, RunState
<1>3. used \in SUBSET (Candidates \cup {Other}) /\ p \in Stages
  BY <1>1 DEF TypeOK, Refs, RunState, Stages
<1>4. s \in RunState
  <2>1. u.next + 1 \in 1 .. Len(Launches) + 1
    BY <1>2, LaunchFacts
  <2>. HIDE DEF used, p
  <2>. QED  BY <2>1, <1>3 DEF RunState
<1>5. /\ s.pc = p /\ s.next = u.next + 1 /\ s.used = used /\ s.staged = u.staged
      /\ s.evidence = u.evidence /\ s.rc = u.rc /\ s.raced = u.raced /\ s.stuck = u.stuck
  BY DEF RunState
<1>6. p = "remove" => s.failing
  BY DEF RunState
<1>7. p # "remove" => used # {}
  BY <1>1
<1>. HIDE DEF s
<1>8. Local(s)
  BY <1>2, <1>5, <1>6, <1>7, LaunchFacts DEF Local, Early, Deep, Post
<1>9. Continues(r, s)
  BY <1>2, <1>5 DEF Continues, Local, Early, Deep, Post, Holding
<1>. QED  BY <1>1, <1>4, <1>8, <1>9 DEF Good, s

\* The launch that must fail is neither the first nor the last.
LEMMA RejectGovernanceGood ==
    ASSUME TypeOK, NEW r \in Runs, run[r] \in RunState, Local(run[r]), RejectGovernance(r)
    PROVE  Good(r)
<1> DEFINE u == run[r]
           image == tag["verified"].image
<1>1. PICK ok \in BOOLEAN, starts \in BOOLEAN :
         /\ starts => image # None
         /\ Become(r, [u EXCEPT
              !.used = IF starts THEN @ \cup {image} ELSE @,
              !.judged = IF ~ ok THEN @ ELSE IF starts THEN {"image"} ELSE {"docker"},
              !.next = @ + 1,
              !.failing = ~ ok,
              !.pc = IF ok THEN "launch" ELSE "remove"])
  BY DEF RejectGovernance
<1> DEFINE used == IF starts THEN u.used \cup {image} ELSE u.used
           judged == IF ~ ok THEN u.judged ELSE IF starts THEN {"image"} ELSE {"docker"}
           p == IF ok THEN "launch" ELSE "remove"
           s == [u EXCEPT !.used = used, !.judged = judged, !.next = @ + 1,
                          !.failing = ~ ok, !.pc = p]
<1>2. u.pc = "launch" /\ u.next = 3
  <2>1. u.next \in 1 .. 5 /\ Launches[u.next] = "invalid"
    BY LaunchFacts DEF RejectGovernance, At, Local, RunState
  <2>. QED  BY <2>1 DEF RejectGovernance, At, Launches
<1>3. /\ used \in SUBSET (Candidates \cup {Other}) /\ p \in Stages
      /\ judged \in SUBSET {"image", "docker"}
  BY <1>1 DEF TypeOK, Refs, RunState, Stages
<1>4. s \in RunState
  <2>1. u.next + 1 \in 1 .. Len(Launches) + 1
    BY <1>2, LaunchFacts
  <2>. HIDE DEF used, judged, p
  <2>. QED  BY <2>1, <1>3 DEF RunState
<1>5. /\ s.pc = p /\ s.next = u.next + 1 /\ s.used = used /\ s.staged = u.staged
      /\ s.evidence = u.evidence /\ s.rc = u.rc /\ s.raced = u.raced /\ s.stuck = u.stuck
  BY DEF RunState
<1>6. p = "remove" => s.failing
  BY DEF RunState
<1>. HIDE DEF s
<1>8. Local(s)
  BY <1>2, <1>5, <1>6, LaunchFacts DEF Local, Early, Deep, Post
<1>9. Continues(r, s)
  BY <1>2, <1>5 DEF Continues, Local, Early, Deep, Post, Holding
<1>. QED  BY <1>1, <1>4, <1>8, <1>9 DEF Good, s

LEMMA AbortGood ==
    ASSUME NEW r \in Runs, run[r] \in RunState, Local(run[r]), Abort(r),
           run[r].pc \in {"exercise", "report"}
    PROVE  Good(r)
<1> DEFINE u == run[r]
           s == [u EXCEPT !.failing = TRUE, !.pc = "remove"]
<1>1. s \in RunState
  BY DEF RunState, Stages
<1>2. /\ s.pc = "remove" /\ s.failing = TRUE /\ s.staged = u.staged
      /\ s.evidence = u.evidence /\ s.rc = u.rc
      /\ s.raced = u.raced /\ s.used = u.used /\ s.stuck = u.stuck
  BY DEF RunState
<1>3. Local(s) /\ Continues(r, s)
  BY <1>2 DEF Local, Continues, Early, Deep, Post, Holding
<1>. QED  BY <1>1, <1>3 DEF Good, Abort

LEMMA ExerciseGood ==
    ASSUME NEW r \in Runs, run[r] \in RunState, Local(run[r]), Exercise(r)
    PROVE  Good(r)
<1>1. CASE Goto(r, "report")
  BY <1>1, GotoGood DEF Exercise, At, Stages
<1>2. CASE Abort(r)
  BY <1>2, AbortGood DEF Exercise, At
<1>. QED  BY <1>1, <1>2 DEF Exercise

LEMMA WriteEvidenceGood ==
    ASSUME NEW r \in Runs, run[r] \in RunState, Local(run[r]), WriteEvidence(r)
    PROVE  Good(r)
<1> DEFINE u == run[r]
<1>1. CASE Abort(r)
  BY <1>1, AbortGood DEF WriteEvidence, At
<1>2. ASSUME NEW known \in BOOLEAN,
             Become(r, [u EXCEPT !.evidence = IF known THEN "ineligible" ELSE "passed",
                                 !.failing = known,
                                 !.pc = "remove"])
      PROVE  Good(r)
  <2> DEFINE e == IF known THEN "ineligible" ELSE "passed"
             s == [u EXCEPT !.evidence = e, !.failing = known, !.pc = "remove"]
  <2>1. s \in RunState
    BY DEF RunState, Stages
  <2>2. /\ s.pc = "remove" /\ s.evidence = e /\ s.staged = u.staged
        /\ s.rc = u.rc /\ s.raced = u.raced /\ s.used = u.used /\ s.stuck = u.stuck
    BY DEF RunState
  <2>3. (e = "passed" => ~ s.failing) /\ (e # "passed" => s.failing)
    BY DEF RunState
  <2>. HIDE DEF s
  <2>4. Local(s) /\ Continues(r, s)
    BY <2>2, <2>3 DEF WriteEvidence, At, Local, Continues, Early, Deep, Post, Holding
  <2>. QED  BY <1>2, <2>1, <2>4 DEF Good, s
<1>. QED  BY <1>1, <1>2 DEF WriteEvidence

LEMMA RemoveObjectsGood ==
    ASSUME NEW r \in Runs, run[r] \in RunState, Local(run[r]), RemoveObjects(r)
    PROVE  Good(r)
<1> DEFINE u == run[r]
<1>1. PICK left \in SUBSET ObjectNames, hung \in BOOLEAN :
         Become(r, [u EXCEPT !.left = left,
                             !.stuck = @ \/ hung \/ left # {},
                             !.failing = @ \/ hung,
                             !.pc = "discard"])
  <2>1. PICK refused \in SUBSET u.left, h \in 1 .. Len(Objects) + 1 :
          LET skipped == {Objects[i] : i \in h .. Len(Objects)}
              left == u.left \cap (refused \cup skipped)
          IN Become(r, [u EXCEPT !.left = left,
                                 !.stuck = @ \/ h <= Len(Objects) \/ left # {},
                                 !.failing = @ \/ h <= Len(Objects),
                                 !.pc = "discard"])
    BY DEF RemoveObjects
  <2> DEFINE left == u.left \cap (refused \cup {Objects[i] : i \in h .. Len(Objects)})
  <2>2. left \in SUBSET ObjectNames
    BY DEF RunState
  <2>3. (h <= Len(Objects)) \in BOOLEAN
    OBVIOUS
  <2>. HIDE DEF left
  <2>. QED  BY <2>1, <2>2, <2>3, Zenon DEF left
<1>2. PICK stuck \in BOOLEAN, failing \in BOOLEAN :
         /\ stuck <=> u.stuck \/ hung \/ left # {}
         /\ failing <=> u.failing \/ hung
         /\ Become(r, [u EXCEPT !.left = left, !.stuck = stuck, !.failing = failing,
                                !.pc = "discard"])
  <2>1. (u.stuck \/ hung \/ left # {}) \in BOOLEAN /\ (u.failing \/ hung) \in BOOLEAN
    OBVIOUS
  <2>. QED  BY <1>1, <2>1, Zenon
<1> DEFINE s == [u EXCEPT !.left = left, !.stuck = stuck, !.failing = failing, !.pc = "discard"]
<1>3. s \in RunState
  BY DEF RunState, Stages
<1>4. /\ s.pc = "discard" /\ s.left = left /\ s.stuck = stuck /\ s.failing = failing
      /\ s.staged = u.staged /\ s.evidence = u.evidence
      /\ s.rc = u.rc /\ s.raced = u.raced /\ s.used = u.used
  BY DEF RunState
<1>5. Local(s) /\ Continues(r, s)
  BY <1>2, <1>4 DEF RemoveObjects, At, Local, Continues, Early, Deep, Post, Holding
<1>. QED  BY <1>2, <1>3, <1>5 DEF Good

LEMMA InspectReferenceGood ==
    ASSUME NEW r \in Runs, run[r] \in RunState, Local(run[r]), InspectReference(r)
    PROVE  Good(r)
<1> DEFINE u == run[r]
           s == [u EXCEPT !.failing = TRUE, !.pc = "discard"]
<1>1. CASE Goto(r, "network")
  BY <1>1, GotoGood DEF InspectReference, At, Stages
<1>2. CASE Become(r, s)
  <2>1. s \in RunState
    BY DEF RunState, Stages
  <2>2. /\ s.pc = "discard" /\ s.failing = TRUE /\ s.staged = u.staged /\ s.left = u.left
        /\ s.evidence = u.evidence /\ s.rc = u.rc
        /\ s.raced = u.raced /\ s.used = u.used /\ s.stuck = u.stuck
    BY DEF RunState
  <2>3. Local(s) /\ Continues(r, s)
    BY <2>2 DEF InspectReference, At, Local, Continues, Early, Deep, Post, Holding
  <2>. QED  BY <1>2, <2>1, <2>3 DEF Good
<1>. QED  BY <1>1, <1>2 DEF InspectReference

QuietStep(r) ==
    \/ Start(r) \/ StageArchive(r) \/ ValidateInputs(r) \/ VerifyAttestations(r)
    \/ ArchiveTagIsFree(r) \/ SelectionIsFree(r) \/ VerifiedTagIsFree(r)
    \/ InspectLoaded(r) \/ InspectBound(r) \/ InspectReference(r)
    \/ CreateNetwork(r) \/ StartPostgres(r) \/ LaunchImage(r) \/ RejectGovernance(r)
    \/ Exercise(r) \/ WriteEvidence(r) \/ RemoveObjects(r) \/ Kill(r)

LEMMA QuietGood ==
    ASSUME TypeOK, NEW r \in Runs, Local(run[r]), QuietStep(r)
    PROVE  Good(r) /\ Quiet
<1>. run[r] \in RunState
  BY DEF TypeOK
<1>. USE DEF At
<1>1. Quiet
  BY DEF QuietStep, Start, StageArchive, ValidateInputs, VerifyAttestations, ArchiveTagIsFree,
         SelectionIsFree, VerifiedTagIsFree, InspectLoaded, InspectBound, InspectReference,
         CreateNetwork, StartPostgres, CreateObject, LaunchImage, RejectGovernance, Exercise,
         WriteEvidence, RemoveObjects, Kill
<1>. SUFFICES Good(r)
  BY <1>1
<1>2. CASE Start(r) \/ StageArchive(r)
  BY <1>2, StartGood, StageArchiveGood
<1>3. CASE ValidateInputs(r)
  BY <1>3, GotoGood, GiveUpGood DEF ValidateInputs, Stages, Early
<1>4. CASE VerifyAttestations(r)
  BY <1>4, GotoGood, GiveUpGood DEF VerifyAttestations, Stages, Early
<1>5. CASE ArchiveTagIsFree(r)
  BY <1>5, GotoGood, GiveUpGood DEF ArchiveTagIsFree, Stages, Loading, Early
<1>6. CASE SelectionIsFree(r)
  BY <1>6, GotoGood, GiveUpGood DEF SelectionIsFree, Stages, Loading, Early
<1>7. CASE VerifiedTagIsFree(r)
  BY <1>7, GotoGood, GiveUpGood DEF VerifiedTagIsFree, Stages, Loading, Early
<1>8. CASE InspectLoaded(r)
  BY <1>8, GotoGood, UnwindGood DEF InspectLoaded, Stages, Loading
<1>9. CASE InspectBound(r)
  BY <1>9, GotoGood, UnwindGood DEF InspectBound, Stages, Loading
<1>10. CASE InspectReference(r) \/ LaunchImage(r) \/ RejectGovernance(r)
  BY <1>10, InspectReferenceGood, LaunchImageGood, RejectGovernanceGood
<1>11. CASE CreateNetwork(r) \/ StartPostgres(r)
  BY <1>11, CreateGood, LaunchFacts DEF CreateNetwork, StartPostgres, Stages
<1>12. CASE Exercise(r) \/ WriteEvidence(r) \/ RemoveObjects(r)
  BY <1>12, ExerciseGood, WriteEvidenceGood, RemoveObjectsGood
<1>13. CASE Kill(r)
  BY <1>13, GotoGood DEF Kill, Stages
<1>. QED
  BY <1>2, <1>3, <1>4, <1>5, <1>6, <1>7, <1>8, <1>9, <1>10, <1>11, <1>12, <1>13
     DEF QuietStep

-----------------------------------------------------------------------------
(* Steps that set or remove a tag.  They are all taken past the last         *)
(* inspection, where no tag was there before the runs, and as long as no run *)
(* raced, none is another run's.                                             *)

Tags == [Refs -> [image : Candidates \cup {Other, None}, by : Runs \cup {Other, None}]]

Moves(r, s) ==
    LET u == run[r]
    IN /\ u.pc \in Deep \cup Post /\ s.pc # u.pc
       /\ s.used = u.used
       /\ u.raced => s.raced
       /\ tag' \in Tags
       /\ \A x \in Refs : tag'[x] # tag[x] =>
             tag'[x] = Absent \/ (tag'[x].by = r /\ (s.raced \/ Racing(r) = {}))
       /\ Holding(s) => \/ tag'["verified"] = [image |-> pinned[r], by |-> r]
                        \/ Holding(u) /\ tag'["verified"] = tag["verified"]
       /\ tag'["archive"].by = r /\ ~ s.stuck => s.pc \in Deep \ {"load"}
       /\ tag'["verified"].by = r /\ ~ s.stuck => Holding(s)
       /\ s.rc = "ok" => \A x \in Refs : tag'[x].by # r

Swaps(r) == \E s \in RunState : Become(r, s) /\ Local(s) /\ Moves(r, s)

LEMMA DockerLoadSwaps ==
    ASSUME TypeOK, NEW r \in Runs, Local(run[r]), Mine(r), DockerLoad(r)
    PROVE  Swaps(r)
<1> DEFINE u == run[r]
<1>1. PICK ok \in BOOLEAN, effect \in BOOLEAN, raced \in BOOLEAN :
         /\ ok => effect
         /\ raced <=> u.raced \/ Racing(r) # {}
         /\ tag' = IF effect
                   THEN [tag EXCEPT !["archive"] = [image |-> u.staged, by |-> r]]
                   ELSE tag
         /\ Become(r, [u EXCEPT !.loaded = TRUE, !.raced = raced, !.failing = ~ ok,
                                !.pc = IF ok THEN "loaded" ELSE "unwind"])
  <2>1. (u.raced \/ Racing(r) # {}) \in BOOLEAN
    OBVIOUS
  <2>. QED  BY <2>1, Zenon DEF DockerLoad
<1> DEFINE p == IF ok THEN "loaded" ELSE "unwind"
           s == [u EXCEPT !.loaded = TRUE, !.raced = raced, !.failing = ~ ok, !.pc = p]
<1>2. u \in RunState /\ u.pc = "load" /\ tag \in Tags
  BY DEF TypeOK, DockerLoad, At, Tags
<1>3. s \in RunState
  BY <1>2, ZenonT(30) DEF RunState, Stages, Loading
<1>4. /\ s.pc = p /\ s.loaded = TRUE /\ s.raced = raced /\ s.staged = u.staged
      /\ s.bound = u.bound /\ s.next = u.next /\ s.left = u.left /\ s.evidence = u.evidence
      /\ s.rc = u.rc /\ s.used = u.used /\ s.stuck = u.stuck
  BY <1>2 DEF RunState
<1>. HIDE DEF s
<1>5. Local(s)
  BY <1>2, <1>4 DEF Local, Early, Deep, Post
<1>6. /\ tag' \in Tags
      /\ tag'["verified"] = tag["verified"]
      /\ tag'["archive"] # tag["archive"] => tag'["archive"].by = r
  BY <1>1, <1>2 DEF Tags, Refs, RunState
<1>7. Moves(r, s)
  BY <1>1, <1>2, <1>4, <1>6 DEF Moves, Local, Mine, Early, Deep, Post, Holding, Refs
<1>. QED  BY <1>1, <1>3, <1>5, <1>7 DEF Swaps, s

LEMMA BindTagSwaps ==
    ASSUME TypeOK, NEW r \in Runs, Local(run[r]), Mine(r), BindTag(r)
    PROVE  Swaps(r)
<1> DEFINE u == run[r]
<1>1. PICK ok \in BOOLEAN, effect \in BOOLEAN, raced \in BOOLEAN, stuck \in BOOLEAN :
         /\ ok => effect
         /\ raced <=> u.raced \/ Racing(r) # {}
         /\ stuck <=> u.stuck \/ (effect /\ ~ ok)
         /\ tag' = IF effect
                   THEN [tag EXCEPT !["verified"] = [image |-> pinned[r], by |-> r]]
                   ELSE tag
         /\ Become(r, [u EXCEPT !.bound = ok, !.raced = raced, !.stuck = stuck,
                                !.failing = ~ ok, !.pc = IF ok THEN "bound" ELSE "unwind"])
  <2>1. (u.raced \/ Racing(r) # {}) \in BOOLEAN
    OBVIOUS
  <2>2. \A ok, effect \in BOOLEAN : (u.stuck \/ (effect /\ ~ ok)) \in BOOLEAN
    OBVIOUS
  <2>. QED  BY <2>1, <2>2, Zenon DEF BindTag
<1> DEFINE p == IF ok THEN "bound" ELSE "unwind"
           s == [u EXCEPT !.bound = ok, !.raced = raced, !.stuck = stuck,
                          !.failing = ~ ok, !.pc = p]
<1>2. u \in RunState /\ u.pc = "bind" /\ tag \in Tags /\ pinned[r] \in Candidates
  BY DEF TypeOK, BindTag, At, Tags
<1>3. s \in RunState
  BY <1>2, ZenonT(60) DEF RunState, Stages, Loading
<1>4. /\ s.pc = p /\ s.loaded = u.loaded /\ s.raced = raced /\ s.staged = u.staged
      /\ s.bound = ok /\ s.next = u.next /\ s.left = u.left /\ s.evidence = u.evidence
      /\ s.rc = u.rc /\ s.used = u.used /\ s.stuck = stuck
  BY <1>2 DEF RunState
<1>. HIDE DEF s
<1>5. Local(s)
  BY <1>1, <1>2, <1>4 DEF Local, Early, Deep, Post
<1>6. /\ tag' \in Tags
      /\ tag'["archive"] = tag["archive"]
      /\ effect => tag'["verified"] = [image |-> pinned[r], by |-> r]
      /\ ~ effect => tag'["verified"] = tag["verified"]
  BY <1>1, <1>2 DEF Tags, Refs
<1>7. Moves(r, s)
  BY <1>1, <1>2, <1>4, <1>6 DEF Moves, Local, Mine, Early, Deep, Post, Holding, Refs
<1>. QED  BY <1>1, <1>3, <1>5, <1>7 DEF Swaps, s

\* What a removal does to each tag.
LEMMA RemovalFacts ==
    ASSUME TypeOK, NEW refs \in SUBSET Refs, NEW gone, NEW raised \in BOOLEAN,
           Removal(refs, gone, raised)
    PROVE  /\ tag' \in Tags
           /\ \A x \in Refs : tag'[x] = Absent \/ tag'[x] = tag[x]
           /\ \A x \in Refs \ refs : tag'[x] = tag[x]
           /\ ~ raised => \A x \in refs : tag'[x] = Absent
BY DEF Removal, TypeOK, Tags, Absent

LEMMA RemoveArchiveTagSwaps ==
    ASSUME TypeOK, NEW r \in Runs, Local(run[r]), Mine(r), RemoveArchiveTag(r)
    PROVE  Swaps(r)
<1> DEFINE u == run[r]
           t == [u EXCEPT !.failing = TRUE, !.pc = "unwind"]
           w == [u EXCEPT !.loaded = FALSE, !.bound = FALSE, !.staged = None, !.pc = "inspect"]
<1>1. PICK gone \in SUBSET {"archive"}, raised \in BOOLEAN :
         /\ Removal({"archive"}, gone, raised)
         /\ Become(r, IF raised THEN t ELSE w)
  BY DEF RemoveArchiveTag
<1>2. u \in RunState /\ u.pc = "untag" /\ u.bound
  BY DEF TypeOK, RemoveArchiveTag, At, Local
<1>3. /\ tag' \in Tags
      /\ tag'["archive"] = Absent \/ (raised /\ tag'["archive"] = tag["archive"])
      /\ tag'["verified"] = tag["verified"]
  BY <1>1, RemovalFacts DEF Refs
<1>4. CASE raised
  <2>1. t \in RunState
    BY <1>2 DEF RunState, Stages, Loading
  <2>2. /\ t.pc = "unwind" /\ t.loaded = u.loaded /\ t.raced = u.raced /\ t.staged = u.staged
        /\ t.bound = u.bound /\ t.next = u.next /\ t.left = u.left /\ t.evidence = u.evidence
        /\ t.rc = u.rc /\ t.used = u.used /\ t.stuck = u.stuck
    BY <1>2 DEF RunState
  <2>. HIDE DEF t
  <2>3. Local(t)
    BY <1>2, <2>2 DEF Local, Early, Deep, Post
  <2>4. Moves(r, t)
    BY <1>2, <1>3, <2>2 DEF Moves, Local, Mine, Early, Deep, Post, Holding, Refs
  <2>. QED  BY <1>1, <1>4, <2>1, <2>3, <2>4 DEF Swaps
<1>5. CASE ~ raised
  <2>1. w \in RunState
    BY <1>2 DEF RunState, Stages
  <2>2. /\ w.pc = "inspect" /\ w.raced = u.raced /\ w.staged = None
        /\ w.bound = FALSE /\ w.next = u.next /\ w.left = u.left /\ w.evidence = u.evidence
        /\ w.rc = u.rc /\ w.used = u.used /\ w.stuck = u.stuck
    BY <1>2 DEF RunState
  <2>. HIDE DEF w
  <2>3. Local(w)
    BY <1>2, <2>2 DEF Local, Early, Deep, Post
  <2>5. tag'["archive"].by # r
    BY <1>3, <1>5, ValuesAssumption DEF Absent
  <2>4. Moves(r, w)
    BY <1>2, <1>3, <1>5, <2>2, <2>5 DEF Moves, Local, Mine, Early, Deep, Post, Holding, Refs
  <2>. QED  BY <1>1, <1>5, <2>1, <2>3, <2>4 DEF Swaps
<1>. QED  BY <1>4, <1>5

LEMMA UndoLoadSwaps ==
    ASSUME TypeOK, NEW r \in Runs, Local(run[r]), Mine(r), UndoLoad(r)
    PROVE  Swaps(r)
<1> DEFINE u == run[r]
           mine == (IF u.loaded THEN {"archive"} ELSE {})
                       \cup (IF u.bound THEN {"verified"} ELSE {})
<1>1. PICK gone \in SUBSET mine, raised \in BOOLEAN, stuck \in BOOLEAN :
         /\ Removal(mine, gone, raised)
         /\ stuck <=> u.stuck \/ raised
         /\ Become(r, [u EXCEPT !.stuck = stuck, !.staged = None,
                                !.pc = "done", !.rc = "failed"])
  <2>1. \A raised \in BOOLEAN : (u.stuck \/ raised) \in BOOLEAN
    OBVIOUS
  <2>. QED  BY <2>1, Zenon DEF UndoLoad
<1> DEFINE s == [u EXCEPT !.stuck = stuck, !.staged = None, !.pc = "done", !.rc = "failed"]
<1>2. u \in RunState /\ u.pc = "unwind" /\ u.loaded
  BY DEF TypeOK, UndoLoad, At, Local, Deep
<1>3. s \in RunState
  BY <1>2 DEF RunState, Stages
<1>4. /\ s.pc = "done" /\ s.raced = u.raced /\ s.staged = None /\ s.left = u.left
      /\ s.evidence = u.evidence /\ s.rc = "failed" /\ s.used = u.used /\ s.stuck = stuck
  BY <1>2 DEF RunState
<1>. HIDE DEF s
<1>5. Local(s)
  BY <1>1, <1>2, <1>4 DEF Local, Early, Deep, Post
<1>6. /\ tag' \in Tags
      /\ \A x \in Refs : tag'[x] = Absent \/ tag'[x] = tag[x]
      /\ ~ raised => tag'["archive"] = Absent
      /\ ~ raised /\ u.bound => tag'["verified"] = Absent
  BY <1>1, <1>2, RemovalFacts DEF Refs
<1>7. tag'["archive"].by = r => stuck
  BY <1>1, <1>6, ValuesAssumption DEF Absent
<1>8. tag'["verified"].by = r => stuck
  <2>1. tag'["verified"].by = r => tag'["verified"] = tag["verified"]
    BY <1>6, ValuesAssumption DEF Refs, Absent
  <2>2. tag["verified"].by = r => u.stuck \/ u.bound
    BY <1>2 DEF Mine, Holding, Post
  <2>. QED  BY <1>1, <1>6, <2>1, <2>2, ValuesAssumption DEF Absent
<1>9. Moves(r, s)
  BY <1>1, <1>2, <1>4, <1>6, <1>7, <1>8 DEF Moves, Deep, Post, Holding, Refs
<1>. QED  BY <1>1, <1>3, <1>5, <1>9 DEF Swaps, s

LEMMA DiscardImagesSwaps ==
    ASSUME TypeOK, NEW r \in Runs, Local(run[r]), Mine(r), DiscardImages(r)
    PROVE  Swaps(r)
<1> DEFINE u == run[r]
<1>1. PICK gone \in SUBSET Refs, raised \in BOOLEAN, stuck \in BOOLEAN :
         /\ Removal(Refs, gone, raised)
         /\ stuck <=> u.stuck \/ raised
         /\ Become(r, [u EXCEPT !.stuck = stuck,
                                !.rc = IF u.failing \/ raised THEN "failed" ELSE "ok",
                                !.pc = "done"])
  <2>1. \A raised \in BOOLEAN : (u.stuck \/ raised) \in BOOLEAN
    OBVIOUS
  <2>. QED  BY <2>1, Zenon DEF DiscardImages
<1> DEFINE c == IF u.failing \/ raised THEN "failed" ELSE "ok"
           s == [u EXCEPT !.stuck = stuck, !.rc = c, !.pc = "done"]
<1>2. u \in RunState /\ u.pc = "discard"
  BY DEF TypeOK, DiscardImages, At
<1>3. s \in RunState
  BY <1>2 DEF RunState, Stages
<1>4. /\ s.pc = "done" /\ s.raced = u.raced /\ s.staged = u.staged /\ s.left = u.left
      /\ s.evidence = u.evidence /\ s.rc = c /\ s.used = u.used /\ s.stuck = stuck
      /\ s.failing = u.failing
  BY <1>2 DEF RunState
<1>. HIDE DEF s
<1>5. Local(s)
  BY <1>1, <1>2, <1>4 DEF Local, Early, Deep, Post
<1>6. /\ tag' \in Tags
      /\ \A x \in Refs : tag'[x] = Absent \/ tag'[x] = tag[x]
      /\ ~ raised => \A x \in Refs : tag'[x] = Absent
  BY <1>1, RemovalFacts
<1>7. ~ raised => \A x \in Refs : tag'[x].by # r
  BY <1>6, ValuesAssumption DEF Absent
<1>8. Moves(r, s)
  BY <1>1, <1>2, <1>4, <1>6, <1>7 DEF Moves, Deep, Post, Holding, Refs
<1>. QED  BY <1>1, <1>3, <1>5, <1>8 DEF Swaps, s

-----------------------------------------------------------------------------
(* A step of the system: one run moves, with the tags or without, or a file *)
(* is replaced under its path.                                              *)

LEMMA StepCases ==
    ASSUME IInv, [Next]_vars
    PROVE  \/ UNCHANGED <<pinned, tag, run>> /\ source' \in [Runs -> Candidates \cup {Other}]
           \/ \E r \in Runs : Good(r) /\ Quiet
           \/ \E r \in Runs : Swaps(r) /\ UNCHANGED <<pinned, source>>
<1>1. CASE UNCHANGED vars
  BY <1>1 DEF vars, IInv, TypeOK
<1>2. ASSUME NEW r \in Runs, SourceChanges(r)
      PROVE  UNCHANGED <<pinned, tag, run>> /\ source' \in [Runs -> Candidates \cup {Other}]
  BY <1>2 DEF SourceChanges, IInv, TypeOK
<1>3. ASSUME NEW r \in Runs, QuietStep(r)
      PROVE  Good(r) /\ Quiet
  BY <1>3, QuietGood DEF IInv
<1>4. ASSUME NEW r \in Runs, DockerLoad(r) \/ BindTag(r) \/ RemoveArchiveTag(r)
                                 \/ UndoLoad(r) \/ DiscardImages(r)
      PROVE  Swaps(r) /\ UNCHANGED <<pinned, source>>
  <2>1. TypeOK /\ Local(run[r]) /\ Mine(r)
    BY DEF IInv
  <2>2. Swaps(r)
    BY <1>4, <2>1, DockerLoadSwaps, BindTagSwaps, RemoveArchiveTagSwaps, UndoLoadSwaps,
       DiscardImagesSwaps
  <2>3. UNCHANGED <<pinned, source>>
    BY <1>4 DEF DockerLoad, BindTag, RemoveArchiveTag, UndoLoad, DiscardImages
  <2>. QED  BY <2>2, <2>3
<1>5. ASSUME NEW r \in Runs, Step(r) \/ Kill(r)
      PROVE  \/ QuietStep(r)
             \/ DockerLoad(r) \/ BindTag(r) \/ RemoveArchiveTag(r)
             \/ UndoLoad(r) \/ DiscardImages(r)
  BY <1>5 DEF Step, QuietStep
<1>. QED  BY <1>1, <1>2, <1>3, <1>4, <1>5 DEF Next

\* Only the run that moves is another one afterwards.
LEMMA BecomeFrame ==
    ASSUME TypeOK, NEW r \in Runs, NEW s \in RunState, Become(r, s)
    PROVE  /\ run' \in [Runs -> RunState]
           /\ run'[r] = s
           /\ \A q \in Runs \ {r} : run'[q] = run[q]
BY DEF TypeOK, Become

LEMMA GoodKeeps ==
    ASSUME IInv, NEW r \in Runs, Good(r), Quiet
    PROVE  IInv'
<1>1. PICK s \in RunState : Become(r, s) /\ Local(s) /\ Continues(r, s)
  BY DEF Good
<1>. DEFINE u == run[r]
<1>2. /\ run' \in [Runs -> RunState]
      /\ run'[r] = s
      /\ \A q \in Runs \ {r} : run'[q] = run[q]
  BY <1>1, BecomeFrame DEF IInv
<1>3. pinned' = pinned /\ source' = source /\ tag' = tag
  BY DEF Quiet
<1>4. TypeOK'
  BY <1>2, <1>3 DEF IInv, TypeOK
<1>5. \A q \in Runs : Local(run'[q])
  BY <1>1, <1>2 DEF IInv
<1>6. \A q \in Runs : Mine(q)'
  <2>1. \A q \in Runs \ {r} : Mine(q)'
    BY <1>2, <1>3 DEF IInv, Mine
  <2>2. Mine(r)'
    BY <1>1, <1>2, <1>3 DEF IInv, Mine, Continues
  <2>. QED  BY <2>1, <2>2
<1>7. \A q \in Runs : Free(q)'
  <2>1. \A q \in Runs \ {r} : Free(q)'
    BY <1>2, <1>3 DEF IInv, Free
  <2>2. Absent.by # Other
    BY ValuesAssumption DEF Absent
  <2>3. Free(r)'
    BY <1>1, <1>2, <1>3, <2>2 DEF IInv, Free, Continues
  <2>. QED  BY <2>1, <2>3
<1>8. Exclusion'
  <2>. SUFFICES ASSUME NoRace'
                PROVE  \A q \in Runs :
                          /\ Holding(run'[q]) => tag["verified"] = [image |-> pinned[q], by |-> q]
                          /\ run'[q].used \subseteq {pinned[q]}
                          /\ \A t \in Runs \ {q} :
                                /\ tag["archive"].by = q => run'[t].pc \notin Loading \cup Post
                                /\ tag["verified"].by = q => run'[t].pc \notin Deep \cup Post
    BY <1>3 DEF Exclusion
  <2>1. NoRace
    BY <1>1, <1>2 DEF NoRace, Continues
  <2>2. \A q \in Runs :
           /\ Holding(run[q]) => tag["verified"] = [image |-> pinned[q], by |-> q]
           /\ run[q].used \subseteq {pinned[q]}
           /\ \A t \in Runs \ {q} :
                 /\ tag["archive"].by = q => run[t].pc \notin Loading \cup Post
                 /\ tag["verified"].by = q => run[t].pc \notin Deep \cup Post
    BY <2>1 DEF IInv, Exclusion
  <2>3. \A q \in Runs : Absent.by # q
    BY ValuesAssumption DEF Absent
  <2>4. \A q \in Runs : Holding(run'[q]) => tag["verified"] = [image |-> pinned[q], by |-> q]
    BY <1>1, <1>2, <2>2 DEF Continues
  <2>5. \A q \in Runs : run'[q].used \subseteq {pinned[q]}
    <3>1. u.pc = "launch" => tag["verified"].image = pinned[r]
      <4>1. u.pc = "launch" => Holding(u)
        BY DEF Holding, Post
      <4>2. u.pc = "launch" => tag["verified"] = [image |-> pinned[r], by |-> r]
        BY <4>1, <2>2, Zenon
      <4>. QED  BY <4>2
    <3>2. s.used = u.used \/ s.used = u.used \cup {pinned[r]}
      BY <1>1, <3>1 DEF Continues
    <3>3. s.used \subseteq {pinned[r]}
      BY <2>2, <3>2
    <3>. QED  BY <1>2, <2>2, <3>3
  <2>6. ASSUME NEW q \in Runs \ {r}
        PROVE  /\ tag["archive"].by = q => s.pc \notin Loading \cup Post
               /\ tag["verified"].by = q => s.pc \notin Deep \cup Post
    BY <1>1, <2>2, <2>3, ZenonT(60) DEF Continues, Loading, Deep, Post
  <2>. QED  BY <1>2, <2>2, <2>4, <2>5, <2>6
<1>. QED  BY <1>4, <1>5, <1>6, <1>7, <1>8 DEF IInv

\* As long as no run raced, a run about to set or remove a tag is the only one
\* that any tag names.
LEMMA OnlyMover ==
    ASSUME Exclusion, NoRace, NEW r \in Runs, run[r].pc \in Deep \cup Post
    PROVE  \A q \in Runs \ {r} : ~ Holding(run[q]) /\ \A x \in Refs : tag[x].by # q
<1>1. \A q \in Runs \ {r} : tag["archive"].by # q /\ tag["verified"].by # q
  BY DEF Exclusion, Deep, Loading, Post
<1>2. ASSUME NEW q \in Runs, Holding(run[q])
      PROVE  tag["verified"].by = q
  <2>1. tag["verified"] = [image |-> pinned[q], by |-> q]
    BY <1>2 DEF Exclusion
  <2>. QED  BY <2>1
<1>. QED  BY <1>1, <1>2 DEF Refs

LEMMA SwapsKeeps ==
    ASSUME IInv, NEW r \in Runs, Swaps(r), UNCHANGED <<pinned, source>>
    PROVE  IInv'
<1>1. PICK s \in RunState : Become(r, s) /\ Local(s) /\ Moves(r, s)
  BY DEF Swaps
<1>. DEFINE u == run[r]
<1>2. /\ run' \in [Runs -> RunState]
      /\ run'[r] = s
      /\ \A q \in Runs \ {r} : run'[q] = run[q]
  BY <1>1, BecomeFrame DEF IInv
<1>3. TypeOK'
  BY <1>1, <1>2 DEF IInv, TypeOK, Moves, Tags
<1>4. \A q \in Runs : Local(run'[q])
  BY <1>1, <1>2 DEF IInv
<1>5. \A x \in Refs : tag'[x] = tag[x] \/ tag'[x] = Absent \/ tag'[x].by = r
  BY <1>1 DEF Moves
<1>6. \A q \in Runs \ {r}, x \in Refs : tag'[x].by = q => tag'[x] = tag[x]
  BY <1>5, ValuesAssumption DEF Absent
<1>7. \A x \in Refs : tag'[x].by = Other => tag[x].by = Other
  BY <1>5, ValuesAssumption DEF Absent
<1>8. \A q \in Runs : Mine(q)'
  <2>1. \A q \in Runs \ {r} : Mine(q)'
    BY <1>2, <1>6 DEF IInv, Mine, Refs
  <2>2. Mine(r)'
    BY <1>1, <1>2 DEF Mine, Moves
  <2>. QED  BY <2>1, <2>2
<1>9. \A q \in Runs : Free(q)'
  <2>1. \A q \in Runs \ {r} : Free(q)'
    BY <1>2, <1>7 DEF IInv, Free, Refs
  <2>2. Free(r)'
    BY <1>1, <1>2, <1>7 DEF IInv, Free, Moves, Refs
  <2>. QED  BY <2>1, <2>2
<1>10. Exclusion'
  <2>. SUFFICES ASSUME NoRace'
                PROVE  \A q \in Runs :
                          /\ Holding(run'[q]) => tag'["verified"] = [image |-> pinned[q], by |-> q]
                          /\ run'[q].used \subseteq {pinned[q]}
                          /\ \A t \in Runs \ {q} :
                                /\ tag'["archive"].by = q => run'[t].pc \notin Loading \cup Post
                                /\ tag'["verified"].by = q => run'[t].pc \notin Deep \cup Post
    BY DEF Exclusion
  <2>1. NoRace /\ ~ s.raced
    BY <1>1, <1>2 DEF NoRace, Moves
  <2>2. u.pc \in Deep \cup Post
    BY <1>1 DEF Moves
  <2>3. \A q \in Runs \ {r} : ~ Holding(run[q]) /\ \A x \in Refs : tag'[x].by # q
    BY <2>1, <2>2, <1>6, OnlyMover DEF IInv
  <2>4. \A q \in Runs : run'[q].used \subseteq {pinned[q]}
    BY <1>1, <1>2, <2>1 DEF IInv, Exclusion, Moves
  <2>5. Holding(s) => tag'["verified"] = [image |-> pinned[r], by |-> r]
    BY <1>1, <2>1 DEF IInv, Exclusion, Moves
  <2>6. ASSUME NEW t \in Runs \ {r}
        PROVE  /\ tag'["archive"].by = r => run[t].pc \notin Loading \cup Post
               /\ tag'["verified"].by = r => run[t].pc \notin Deep \cup Post
    <3>1. run[t].pc \notin Post
      BY <2>3 DEF Holding
    <3>2. CASE Racing(r) = {}
      BY <3>1, <3>2 DEF Racing, Loading, Deep
    <3>3. CASE Racing(r) # {}
      <4>1. \A x \in Refs : tag'[x].by = r => tag[x].by = r
        BY <1>1, <2>1, <3>3, ValuesAssumption DEF Moves, Absent
      <4>. QED  BY <2>1, <4>1 DEF IInv, Exclusion, Refs
    <3>. QED  BY <3>2, <3>3
  <2>. QED  BY <1>2, <2>3, <2>4, <2>5, <2>6 DEF Refs
<1>. QED  BY <1>3, <1>4, <1>8, <1>9, <1>10 DEF IInv

LEMMA NextIInv == IInv /\ [Next]_vars => IInv'
<1>. SUFFICES ASSUME IInv, [Next]_vars PROVE IInv'
  OBVIOUS
<1>1. CASE UNCHANGED <<pinned, tag, run>> /\ source' \in [Runs -> Candidates \cup {Other}]
  <2>1. pinned' = pinned /\ tag' = tag /\ run' = run
    BY <1>1
  <2>2. TypeOK'
    BY <1>1, <2>1 DEF IInv, TypeOK
  <2>3. \A r \in Runs : Local(run'[r]) /\ Mine(r)' /\ Free(r)'
    BY <2>1 DEF IInv, Mine, Free
  <2>4. Exclusion'
    BY <2>1 DEF IInv, Exclusion, NoRace
  <2>. QED  BY <2>2, <2>3, <2>4 DEF IInv
<1>. QED  BY <1>1, StepCases, GoodKeeps, SwapsKeeps

-----------------------------------------------------------------------------
THEOREM Invariance == Spec => []IInv
<1>1. Init => IInv
  BY InitIInv
<1>2. IInv /\ [Next]_vars => IInv'
  BY NextIInv
<1>. QED  BY <1>1, <1>2, PTL DEF Spec

\* The states of any set of runs on one daemon stay in the types declared: in
\* particular the list of launches is never indexed past its end, and the image
\* `docker run' is given is one that docker can start.
THEOREM TypeCorrect == Spec => []TypeOK
<1>1. IInv => TypeOK
  BY DEF IInv
<1>. QED  BY <1>1, Invariance, PTL

\* run_artifact_test, its `finally' and main's: however many runs share the
\* daemon, one that returns leaves no tag, no container and no private copy,
\* unless a removal failed or `docker image tag' timed out after its effect.
THEOREM ReturnIsClean == Spec => []ReturnLeavesNothing
<1>1. IInv => ReturnLeavesNothing
  <2>. SUFFICES ASSUME IInv, NEW r \in Runs, At(r, "done"), ~ run[r].stuck
                PROVE  /\ run[r].left = {}
                       /\ run[r].staged = None
                       /\ \A x \in Refs : tag[x].by # r
    BY DEF ReturnLeavesNothing
  <2>1. Local(run[r]) /\ Mine(r)
    BY DEF IInv
  <2>2. run[r].left = {} /\ run[r].staged = None
    BY <2>1 DEF Local, At, Post
  <2>3. tag["archive"].by # r /\ tag["verified"].by # r
    BY <2>1 DEF Mine, At, Deep, Holding, Post
  <2>. QED  BY <2>2, <2>3 DEF Refs
<1>. QED  BY <1>1, Invariance, PTL

\* main's exit code against the evidence file: `ok' comes only with evidence
\* that says passed and no tag of the run; `failed' comes with such evidence
\* only after a failed clean-up, and with yesterday's only when the unlink of
\* line 4466 has failed and no image was run.
THEOREM ResultIsEvidence == Spec => []ResultAgreesWithEvidence
<1>1. IInv => ResultAgreesWithEvidence
  <2>. SUFFICES ASSUME IInv, NEW r \in Runs
                PROVE  /\ run[r].rc = "ok" => /\ run[r].evidence = "passed"
                                              /\ \A x \in Refs : tag[x].by # r
                       /\ run[r].rc = "failed" =>
                            /\ run[r].evidence = "passed" => run[r].stuck
                            /\ run[r].evidence = "stale" => run[r].stuck /\ run[r].used = {}
    BY DEF ResultAgreesWithEvidence
  <2>1. Local(run[r]) /\ Mine(r)
    BY DEF IInv
  <2>2. run[r].rc = "ok" => run[r].evidence = "passed" /\ \A x \in Refs : tag[x].by # r
    BY <2>1 DEF Local, Mine
  <2>3. run[r].rc = "failed" => run[r].pc = "done"
    BY <2>1 DEF Local
  <2>4. run[r].evidence = "stale" =>
           run[r].pc = "start" \/ (run[r].stuck /\ run[r].used = {})
    BY <2>1 DEF Local
  <2>5. run[r].rc = "failed" /\ run[r].evidence = "passed" => run[r].stuck
    BY <2>1 DEF Local
  <2>. QED  BY <2>2, <2>3, <2>4, <2>5
<1>. QED  BY <1>1, Invariance, PTL

\* The three inspections of load_candidate_archive are enough for any number of
\* runs: unless two were inside it together, a run that passed ran only the
\* image of its own pin, although it names it by a tag that names the commit.
THEOREM PassedRanItsPin == Spec => []OwnImageOnly
<1>1. IInv => OwnImageOnly
  <2>. SUFFICES ASSUME IInv, NoRace, NEW r \in Runs, run[r].evidence = "passed"
                PROVE  run[r].used = {pinned[r]}
    BY DEF OwnImageOnly
  <2>1. run[r].used # {}
    BY DEF IInv, Local
  <2>2. run[r].used \subseteq {pinned[r]}
    BY DEF IInv, Exclusion
  <2>. QED  BY <2>1, <2>2
<1>. QED  BY <1>1, Invariance, PTL

\* No run moves or removes a tag that was there before the runs: its
\* inspections have turned it away before it can set or remove any.
THEOREM LocalSelectionsKept == Spec => ForeignTagsKept
<1>1. IInv /\ [Next]_vars => [\A x \in Refs : tag[x].by = Other => tag'[x] = tag[x]]_vars
  <2>. SUFFICES ASSUME IInv, [Next]_vars, NEW x \in Refs, tag[x].by = Other
                PROVE  tag'[x] = tag[x]
    OBVIOUS
  <2>1. ASSUME NEW r \in Runs, Swaps(r)
        PROVE  tag'[x] = tag[x]
    <3>1. run[r].pc \in Deep \cup Post
      BY <2>1 DEF Swaps, Moves
    <3>2. Free(r)
      BY DEF IInv
    <3>. QED  BY <3>1, <3>2 DEF Free, Refs
  <2>. QED  BY <2>1, StepCases DEF Quiet
<1>. QED  BY <1>1, Invariance, PTL DEF Spec, ForeignTagsKept

\* As long as no two runs load side by side, nobody but the run itself sets,
\* moves or removes the tags it stands for, in any of its removals.
THEOREM TagsAreTakenByRacersOnly == Spec => OnlyRacersTakeTags
<1> DEFINE Kept(r, x) == NoRace' /\ tag[x].by = r /\ tag'[x] # tag[x] => run'[r] # run[r]
<1>1. IInv /\ [Next]_vars => [\A r \in Runs, x \in Refs : Kept(r, x)]_vars
  <2>. SUFFICES ASSUME IInv, [Next]_vars, NEW r \in Runs, NEW x \in Refs,
                       NoRace', tag[x].by = r, tag'[x] # tag[x]
                PROVE  run'[r] # run[r]
    OBVIOUS
  <2>1. PICK q \in Runs : Swaps(q)
    BY StepCases DEF Quiet
  <2>2. PICK s \in RunState : Become(q, s) /\ Moves(q, s)
    BY <2>1 DEF Swaps
  <2>3. run'[q] = s /\ \A t \in Runs \ {q} : run'[t] = run[t]
    BY <2>2, BecomeFrame DEF IInv
  <2>4. NoRace
    BY <2>2, <2>3 DEF NoRace, Moves
  <2>5. r = q
    BY <2>2, <2>4, OnlyMover DEF IInv, Moves
  <2>. QED  BY <2>2, <2>3, <2>5 DEF Moves
<1>. QED  BY <1>1, Invariance, PTL DEF Spec, OnlyRacersTakeTags

=============================================================================

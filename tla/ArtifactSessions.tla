-------------------------- MODULE ArtifactSessions --------------------------
(***************************************************************************)
(* scripts/credentials_verifier_artifact.py: what _run_artifact_test sends *)
(* to the verification service of the image under test, one request after  *)
(* the other but for two races, and what it accepts as an answer.  The     *)
(* service is not part of the repository: it is modelled from what the     *)
(* gate expects of it, with defects the gate exists to find.               *)
(* CandidateRun!Exercise is one execution of this module.                  *)
(***************************************************************************)
EXTENDS Naturals, Sequences, FiniteSets

CONSTANT AllDefects   \* those a service may have, in any combination

KnownDefects ==
    {"unclaimed",     \* a submission is evaluated without claiming the session
     "unfenced",      \* an evaluation that was taken over is stored all the same
     "overwrites",    \* a refused submission replaces the stored digest
     "reevaluates",   \* a retry is evaluated again
     "retains",       \* the presentation and the nonce stay in the row
     "keepsRefused",  \* a refused presentation is stored
     "forgets",       \* a restart loses the sessions
     "unexpiring",    \* an expired session is evaluated
     "resolvesAnyone", "trustsAnyKey"}   \* barcodes

ASSUME DefectsAssumption == AllDefects \subseteq KnownDefects

VARIABLES
    defects,   \* of the service under test
    row,       \* verification_sessions
    call,      \* the requests in flight, of the gate's two threads
    resolver,  \* what the gate's own key resolver answers, and how often it was asked
    at,        \* the gate's next step
    frozen,    \* the decision later answers for this session are compared with
    won,       \* winning_presentations
    verdict,   \* "none", "passed", "refused" or "lost" (a request or a command failed)
    heard      \* every accepted submission: which presentation, which decision

serviceVars == <<row, call, resolver>>
gateVars == <<at, frozen, won, verdict>>
artifactVars == <<defects, serviceVars, gateVars, heard>>

Sessions == {"malformed", "main", "expiring", "same", "different"}
Presentations == {"a", "b"}
Callers == {"first", "second"}
None == "none"
NoDecision == [of |-> None, no |-> 0]
Absent == [status |-> "absent", digest |-> None, holder |-> None, decision |-> NoDecision,
           kept |-> {}, due |-> FALSE, evaluations |-> 0]
Pending == [Absent EXCEPT !.status = "pending", !.kept = {"nonce"}]
Idle == [stage |-> "idle", session |-> None, of |-> None, status |-> 0, decision |-> NoDecision]

-----------------------------------------------------------------------------
(* The order of the checks.                                                 *)

Step(op, s, p, status) == [op |-> op, session |-> s, of |-> p, status |-> status]
Do(op, s) == Step(op, s, None, 0)

MalformedSession ==
    <<Do("refusals", None), Do("create", "malformed"),
      Step("submit", "malformed", "b", 200), Step("row", "malformed", "b", 0)>>

\* Everything the gate asks of one session: minimized once it is decided, and
\* the same decision after a restart.
MainSession ==
    <<Do("create", "main"), Step("reload", "main", "pending", 200),
      Step("submit", "main", "a", 200), Step("row", "main", "a", 0),
      Do("restart", None), Step("reload", "main", "failed", 200),
      Step("replay", "main", "a", 200), Step("submit", "main", "b", 409)>>

ExpiringSession ==
    <<Do("refusals", None), Do("create", "expiring"), Do("expire", "expiring"),
      Step("submit", "expiring", "a", 410), Do("expiredRow", "expiring")>>

SameDigestSession ==
    <<Do("create", "same"), Step("race", "same", <<"a", "a">>, 200),
      Step("replay", "same", "a", 200), Step("row", "same", "a", 0)>>

DifferentDigestSession ==
    <<Do("create", "different"), Step("race", "different", <<"a", "b">>, 409),
      Step("retry", "different", "a", 200), Step("retry", "different", "b", 200),
      Do("winnersRow", "different")>>

DirectVerifications == <<Do("refusals", None), Do("direct", None)>>

Barcodes ==
    <<Do("refusals", None), Do("barcode", "untrusted"), Do("barcode", "unusable"),
      Do("barcode", "positive"), Do("barcode", "tampered"), Do("barcode", "malformed")>>

Script == MalformedSession \o MainSession \o ExpiringSession \o SameDigestSession
          \o DifferentDigestSession \o DirectVerifications \o Barcodes

Running == verdict = None
Doing(op) == Running /\ at <= Len(Script) /\ Script[at].op = op
Now == Script[at]

-----------------------------------------------------------------------------
SessionsTypeOK ==
    /\ defects \subseteq AllDefects
    /\ \A s \in Sessions :
         /\ row[s].status \in {"absent", "pending", "processing", "failed", "expired"}
         /\ row[s].digest \in Presentations \cup {None}
         /\ row[s].holder \in Callers \cup {None}
         /\ row[s].kept \subseteq Presentations \cup {"nonce"}
    /\ \A c \in Callers : call[c].stage \in {"idle", "sent", "claimed", "answered"}
    /\ resolver.usable \in BOOLEAN /\ resolver.asked \in Nat
    /\ at \in 1..(Len(Script) + 1)
    /\ won \subseteq Presentations
    /\ verdict \in {None, "passed", "refused", "lost"}

InitSessions ==
    /\ defects \in SUBSET AllDefects
    /\ row = [s \in Sessions |-> Absent]
    /\ call = [c \in Callers |-> Idle]
    /\ resolver = [usable |-> TRUE, asked |-> 0]
    /\ at = 1 /\ frozen = NoDecision /\ won = {} /\ verdict = None
    /\ heard = [s \in Sessions |-> {}]

-----------------------------------------------------------------------------
(* The service: a submission claims its session, is evaluated and stored.   *)

Has(d) == d \in defects
Reply(c, status, decision) ==
    call' = [call EXCEPT ![c].stage = "answered", ![c].status = status, ![c].decision = decision]
Store(s, r) == row' = [row EXCEPT ![s] = r]
Decision(r, p) == [of |-> p, no |-> r.evaluations + 1]

\* An evaluation that is stored: the presentation is not, but for its digest.
Decided(r, p) ==
    [r EXCEPT !.status = "failed", !.holder = None, !.decision = Decision(r, p),
              !.kept = IF Has("retains") THEN {p, "nonce"} ELSE {},
              !.evaluations = @ + 1]

\* A submission that is refused changes nothing.
Refused(r, p) ==
    [r EXCEPT !.digest = IF Has("overwrites") THEN p ELSE @,
              !.kept = IF Has("keepsRefused") THEN @ \cup {p} ELSE @]

Submission(c) ==
    LET s == call[c].session  p == call[c].of  r == row[s] IN
    /\ call[c].stage = "sent"
    /\ \/ r.status = "absent" /\ Reply(c, 404, NoDecision) /\ UNCHANGED row
       \/ \* it has expired
          /\ r.due /\ ~ Has("unexpiring")
          /\ Reply(c, 410, NoDecision)
          /\ Store(s, [r EXCEPT !.status = "expired", !.kept = {}])
       \/ \* it is claimed
          /\ r.status = "pending" /\ (r.due => Has("unexpiring"))
          /\ call' = [call EXCEPT ![c].stage = "claimed"]
          /\ Store(s, IF Has("unclaimed") THEN r
                      ELSE [r EXCEPT !.status = "processing", !.digest = p, !.holder = c])
       \/ \* the lease of an evaluation of the same presentation has run out
          /\ r.status = "processing" /\ r.digest = p
          /\ call' = [call EXCEPT ![c].stage = "claimed"]
          /\ Store(s, [r EXCEPT !.holder = c])
       \/ /\ r.status = "processing" \/ (r.status = "failed" /\ r.digest # p)
          /\ Reply(c, 409, NoDecision)
          /\ Store(s, Refused(r, p))
       \/ \* the decision is there
          /\ r.status = "failed" /\ r.digest = p
          /\ IF Has("reevaluates")
             THEN Reply(c, 200, Decision(r, p)) /\ Store(s, Decided(r, p))
             ELSE Reply(c, 200, r.decision) /\ UNCHANGED row
    /\ UNCHANGED <<defects, resolver, gateVars, heard>>

Evaluation(c) ==
    LET s == call[c].session  p == call[c].of  r == row[s] IN
    /\ call[c].stage = "claimed"
    /\ IF r.holder = c \/ Has("unclaimed") \/ Has("unfenced")
       THEN /\ Reply(c, 200, Decision(r, p))
            /\ Store(s, [Decided(r, p) EXCEPT !.digest = IF Has("unclaimed") THEN p ELSE @])
       ELSE \* somebody else has the session now
            /\ \/ Reply(c, 409, NoDecision)
               \/ r.status = "failed" /\ Reply(c, 200, r.decision)
            /\ UNCHANGED row
    /\ UNCHANGED <<defects, resolver, gateVars, heard>>

-----------------------------------------------------------------------------
(* The gate.                                                                *)

Passes == at' = at + 1 /\ verdict' = IF at = Len(Script) THEN "passed" ELSE None
Refuses == verdict' = "refused" /\ UNCHANGED at
Judge(ok) == IF ok THEN Passes ELSE Refuses

\* A request fails, a container does not start, a row cannot be read.
Lose ==
    /\ Running
    /\ verdict' = "lost"
    /\ UNCHANGED <<defects, serviceVars, at, frozen, won, heard>>

\* Requests without a key, with the key of another purpose, for a verifier the
\* policy does not name, of a session that does not exist.
Refusals ==
    /\ Doing("refusals")
    /\ Passes
    /\ UNCHANGED <<defects, serviceVars, frozen, won, heard>>

\* _create_safe_session: identifiers the pin forbids are only drawn again.
CreateSession ==
    /\ Doing("create")
    /\ row' = [row EXCEPT ![Now.session] = Pending]
    /\ Passes /\ frozen' = NoDecision /\ won' = {}
    /\ UNCHANGED <<defects, call, resolver, heard>>

Reload ==
    /\ Doing("reload")
    /\ Judge(row[Now.session].status = Now.of)
    /\ UNCHANGED <<defects, serviceVars, frozen, won, heard>>

\* The database outlives the container.
Restart ==
    /\ Doing("restart")
    /\ row' = IF Has("forgets") THEN [s \in Sessions |-> Absent] ELSE row
    /\ Passes
    /\ UNCHANGED <<defects, call, resolver, frozen, won, heard>>

ExpireSession ==
    /\ Doing("expire")
    /\ row' = [row EXCEPT ![Now.session].due = TRUE]
    /\ Passes
    /\ UNCHANGED <<defects, call, resolver, frozen, won, heard>>

Quiet == \A c \in Callers : call[c].stage = "idle"
Sent(s, p) == [Idle EXCEPT !.stage = "sent", !.session = s, !.of = p]

Submit ==
    /\ Doing("submit") \/ Doing("replay") \/ Doing("retry")
    /\ Quiet
    /\ call' = [call EXCEPT !["first"] = Sent(Now.session, Now.of)]
    /\ UNCHANGED <<defects, row, resolver, gateVars, heard>>

\* _parallel_submissions: a barrier, then both threads.
SubmitInParallel ==
    /\ Doing("race")
    /\ Quiet
    /\ call' = [c \in Callers |-> Sent(Now.session, Now.of[IF c = "first" THEN 1 ELSE 2])]
    /\ UNCHANGED <<defects, row, resolver, gateVars, heard>>

Accepted == {c \in Callers : call[c].stage = "answered" /\ call[c].status = 200}
Hear ==
    /\ heard' = [heard EXCEPT ![Now.session] =
                     @ \cup {[of |-> call[c].of, decision |-> call[c].decision] : c \in Accepted}]
    /\ call' = [c \in Callers |-> Idle]

Answered == call["first"].stage = "answered"

JudgeSubmission ==
    /\ Doing("submit") /\ Answered
    /\ Hear
    /\ frozen' = IF Now.status = 200 THEN call["first"].decision ELSE frozen
    /\ Judge(call["first"].status = Now.status)
    /\ UNCHANGED <<defects, row, resolver, won>>

JudgeReplay ==
    /\ Doing("replay") /\ Answered
    /\ Hear
    /\ Judge(call["first"].status = 200 /\ call["first"].decision = frozen)
    /\ UNCHANGED <<defects, row, resolver, frozen, won>>

\* Mutant: one of the two must conflict, also when both submit the same.
RaceIsFairStrict(same) == Cardinality(Accepted) = 1
\* Of two different presentations exactly one is accepted; the same one may be
\* accepted twice, with the same decision.
RaceIsFair(same) ==
    IF same THEN Accepted # {} /\ \A c, d \in Accepted : call[c].decision = call[d].decision
            ELSE Cardinality(Accepted) = 1

\* _partition_submission_outcomes, which forgets who was answered what.
JudgeRace ==
    /\ Doing("race") /\ \A c \in Callers : call[c].stage = "answered"
    /\ Hear
    /\ IF RaceIsFair(Now.status = 200) /\ \A c \in Callers : call[c].status \in {200, 409}
       THEN Passes /\ \E c \in Accepted : frozen' = call[c].decision
       ELSE Refuses /\ UNCHANGED frozen
    /\ UNCHANGED <<defects, row, resolver, won>>

\* Both presentations once more: who is accepted now is the winner.
JudgeRetry ==
    /\ Doing("retry") /\ Answered
    /\ Hear
    /\ won' = IF Accepted # {} THEN won \cup {Now.of} ELSE won
    /\ Judge(\/ Accepted # {} /\ call["first"].decision = frozen
             \/ call["first"].status = 409)
    /\ UNCHANGED <<defects, row, resolver, frozen>>

\* Mutant: only the status of the row is looked at.
MinimizedLoosely(r, p) == r.status = "failed" /\ r.holder = None
\* _assert_terminal_row_minimized: the digest of the row and the digest in its
\* evidence are of p.
Minimized(r, p) ==
    r.status = "failed" /\ r.kept = {} /\ r.digest = p /\ r.holder = None /\ r.decision.of = p

InspectRow ==
    /\ Doing("row")
    /\ Judge(Minimized(row[Now.session], Now.of))
    /\ UNCHANGED <<defects, serviceVars, frozen, won, heard>>

InspectWinnersRow ==
    /\ Doing("winnersRow")
    /\ Judge(\E p \in Presentations : won = {p} /\ Minimized(row[Now.session], p))
    /\ UNCHANGED <<defects, serviceVars, frozen, won, heard>>

InspectExpiredRow ==
    /\ Doing("expiredRow")
    /\ LET r == row[Now.session] IN
          Judge(r.status = "expired" /\ r.kept = {} /\ r.digest = None /\ r.holder = None)
    /\ UNCHANGED <<defects, serviceVars, frozen, won, heard>>

\* Presentations without a session: nothing is stored.
VerifyDirectly ==
    /\ Doing("direct")
    /\ Passes
    /\ UNCHANGED <<defects, serviceVars, frozen, won, heard>>

\* Mutant: the resolver keeps answering with the unusable key.
UsableAfterKept(b) == resolver.usable /\ b # "unusable"
\* Whether the resolver has a usable key: not for one check, and again after it.
UsableAfter(b) == TRUE

\* Only a barcode of a registered issuer makes the service ask the resolver.
VerifyBarcode ==
    /\ Doing("barcode")
    /\ LET b == Now.session
           usable == resolver.usable /\ b # "unusable"
           asks == b \in {"unusable", "positive", "tampered"} \/ (b = "untrusted" /\ Has("resolvesAnyone"))
           passes == \/ b = "positive" /\ usable
                     \/ b = "unusable" /\ Has("trustsAnyKey")
       IN /\ resolver' = [usable |-> UsableAfter(b), asked |-> resolver.asked + (IF asks THEN 1 ELSE 0)]
          /\ Judge(passes = (b = "positive") /\ (b = "untrusted" => ~ asks))
    /\ UNCHANGED <<defects, row, call, frozen, won, heard>>

NextSessions ==
    \/ \E c \in Callers : Submission(c) \/ Evaluation(c)
    \/ Refusals \/ CreateSession \/ Reload \/ Restart \/ ExpireSession
    \/ Submit \/ SubmitInParallel
    \/ JudgeSubmission \/ JudgeReplay \/ JudgeRace \/ JudgeRetry
    \/ InspectRow \/ InspectWinnersRow \/ InspectExpiredRow
    \/ VerifyDirectly \/ VerifyBarcode
    \/ Lose

SpecSessions == InitSessions /\ [][NextSessions]_artifactVars

-----------------------------------------------------------------------------
(* Properties. *)

\* A service without a defect is never refused, whatever the order in which
\* the two threads of a race claim the session, lose their lease and finish:
\* the gate does not fail by chance (_run_artifact_test,
\* _partition_submission_outcomes).
SoundServicePasses == defects = {} => verdict # "refused"

\* A pass means that no session was ever decided twice or for two
\* presentations, although the gate forgets who won a race, that nothing was
\* accepted of the expired one, and that no session holds a presentation or a
\* nonce in the end, although the main session is inspected before its
\* conflicting submission and never again: what a service keeps there shows in
\* the last race, whatever combination of the defects it has.
PassedSessionsAreSound ==
    verdict = "passed" =>
        /\ \A s \in Sessions : (\A h, k \in heard[s] : h = k) /\ row[s].kept = {}
        /\ heard["expiring"] = {}
=============================================================================

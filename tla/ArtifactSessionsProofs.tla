----------------------- MODULE ArtifactSessionsProofs -----------------------
(***************************************************************************)
(* Why the artifact gate neither fails a sound service by chance nor       *)
(* passes one that decides twice or keeps what it should not, whichever    *)
(* defects it has and however the two threads of a race are served.        *)
(*                                                                         *)
(* The script is computed once (ScriptSteps, Places).  A step of the       *)
(* service is reduced to what it does to one request and one row (Outcome, *)
(* Serves); a step of the gate to one of seven kinds.  Every kind keeps    *)
(* TalkInv, who asks what, SoundInv, what a sound service shows at each    *)
(* place, and PassInv, what a pass will rest on.                           *)
(***************************************************************************)
EXTENDS ArtifactSessions, SequenceTheorems, FiniteSetTheorems, TLAPS

-----------------------------------------------------------------------------
(* The script.                                                              *)

GateOps == {"refusals", "create", "submit", "row", "reload", "restart", "replay", "expire", "expiredRow",
            "race", "retry", "winnersRow", "direct", "barcode"}
Steps == [op : GateOps,
          session : Sessions \cup {None, "untrusted", "unusable", "positive", "tampered"},
          of : Presentations \cup {None, "pending", "failed", <<"a", "a">>, <<"a", "b">>},
          status : {0, 200, 409, 410}]

\* The parts of the script and their lengths.
LEMMA Parts ==
    /\ MalformedSession \in Seq(Steps) /\ Len(MalformedSession) = 4
    /\ MainSession \in Seq(Steps) /\ Len(MainSession) = 8
    /\ ExpiringSession \in Seq(Steps) /\ Len(ExpiringSession) = 5
    /\ SameDigestSession \in Seq(Steps) /\ Len(SameDigestSession) = 4
    /\ DifferentDigestSession \in Seq(Steps) /\ Len(DifferentDigestSession) = 5
    /\ DirectVerifications \in Seq(Steps) /\ Len(DirectVerifications) = 2
    /\ Barcodes \in Seq(Steps) /\ Len(Barcodes) = 6
<1> USE DEF Do, Step, Steps, GateOps, Sessions, Presentations, None
<1>1. MalformedSession \in Seq(Steps) /\ Len(MalformedSession) = 4
  BY DEF MalformedSession
<1>2. MainSession \in Seq(Steps) /\ Len(MainSession) = 8
  BY DEF MainSession
<1>3. ExpiringSession \in Seq(Steps) /\ Len(ExpiringSession) = 5
  BY DEF ExpiringSession
<1>4. SameDigestSession \in Seq(Steps) /\ Len(SameDigestSession) = 4
  BY DEF SameDigestSession
<1>5. DifferentDigestSession \in Seq(Steps) /\ Len(DifferentDigestSession) = 5
  BY DEF DifferentDigestSession
<1>6. DirectVerifications \in Seq(Steps) /\ Len(DirectVerifications) = 2
  BY DEF DirectVerifications
<1>7. Barcodes \in Seq(Steps) /\ Len(Barcodes) = 6
  BY DEF Barcodes
<1> QED
  BY <1>1, <1>2, <1>3, <1>4, <1>5, <1>6, <1>7

\* u is s, of length m, and then t, of length n.
Joins(u, s, t) == u = s \o t
Behind(u, s, t) ==
    /\ u \in Seq(Steps) /\ Len(u) = Len(s) + Len(t)
    /\ \A k \in 1..Len(s) : u[k] = s[k]
    /\ \A k \in 1..Len(t) : u[Len(s) + k] = t[k]

\* A sequence joined of two has the elements of both, in their order.
LEMMA Joined ==
  ASSUME NEW s \in Seq(Steps), NEW t \in Seq(Steps), NEW u, Joins(u, s, t)
  PROVE  Behind(u, s, t)
<1>1. /\ u \in Seq(Steps)
      /\ Len(u) = Len(s) + Len(t)
      /\ \A k \in 1..(Len(s) + Len(t)) : u[k] = IF k <= Len(s) THEN s[k] ELSE t[k - Len(s)]
  BY ConcatProperties DEF Joins
<1>2. Len(s) \in Nat /\ Len(t) \in Nat
  BY LenProperties
<1>3. \A k \in 1..Len(s) : u[k] = s[k]
  BY <1>1, <1>2
<1>4. \A k \in 1..Len(t) : u[Len(s) + k] = t[k]
  BY <1>1, <1>2
<1> QED
  BY <1>1, <1>3, <1>4 DEF Behind

\* Where each part of the script lies.
LEMMA ScriptParts ==
    /\ Len(Script) = 34
    /\ \A k \in 1..4 : Script[k] = MalformedSession[k]
    /\ \A k \in 1..8 : Script[4 + k] = MainSession[k]
    /\ \A k \in 1..5 : Script[12 + k] = ExpiringSession[k]
    /\ \A k \in 1..4 : Script[17 + k] = SameDigestSession[k]
    /\ \A k \in 1..5 : Script[21 + k] = DifferentDigestSession[k]
    /\ \A k \in 1..2 : Script[26 + k] = DirectVerifications[k]
    /\ \A k \in 1..6 : Script[28 + k] = Barcodes[k]
<1> DEFINE a == MalformedSession \o MainSession
           b == a \o ExpiringSession
           c == b \o SameDigestSession
           d == c \o DifferentDigestSession
           e == d \o DirectVerifications
<1>1. /\ Joins(a, MalformedSession, MainSession) /\ Joins(b, a, ExpiringSession)
      /\ Joins(c, b, SameDigestSession) /\ Joins(d, c, DifferentDigestSession)
      /\ Joins(e, d, DirectVerifications) /\ Joins(Script, e, Barcodes)
  BY DEF Joins, Script
<1> HIDE DEF a, b, c, d, e
<1>2. /\ a \in Seq(Steps) /\ Len(a) = 12
      /\ \A k \in 1..4 : a[k] = MalformedSession[k]
      /\ \A k \in 1..8 : a[4 + k] = MainSession[k]
  <2>1. MalformedSession \in Seq(Steps) /\ MainSession \in Seq(Steps)
    BY Parts
  <2>2. Behind(a, MalformedSession, MainSession)
    BY <1>1, <2>1, Joined
  <2> QED
    BY <2>2, Parts DEF Behind
<1>3. /\ b \in Seq(Steps) /\ Len(b) = 17
      /\ \A k \in 1..12 : b[k] = a[k]
      /\ \A k \in 1..5 : b[12 + k] = ExpiringSession[k]
  <2>1. a \in Seq(Steps) /\ ExpiringSession \in Seq(Steps)
    BY <1>2, Parts
  <2>2. Behind(b, a, ExpiringSession)
    BY <1>1, <2>1, Joined
  <2> QED
    BY <2>2, <1>2, Parts DEF Behind
<1>4. /\ c \in Seq(Steps) /\ Len(c) = 21
      /\ \A k \in 1..17 : c[k] = b[k]
      /\ \A k \in 1..4 : c[17 + k] = SameDigestSession[k]
  <2>1. b \in Seq(Steps) /\ SameDigestSession \in Seq(Steps)
    BY <1>3, Parts
  <2>2. Behind(c, b, SameDigestSession)
    BY <1>1, <2>1, Joined
  <2> QED
    BY <2>2, <1>3, Parts DEF Behind
<1>5. /\ d \in Seq(Steps) /\ Len(d) = 26
      /\ \A k \in 1..21 : d[k] = c[k]
      /\ \A k \in 1..5 : d[21 + k] = DifferentDigestSession[k]
  <2>1. c \in Seq(Steps) /\ DifferentDigestSession \in Seq(Steps)
    BY <1>4, Parts
  <2>2. Behind(d, c, DifferentDigestSession)
    BY <1>1, <2>1, Joined
  <2> QED
    BY <2>2, <1>4, Parts DEF Behind
<1>6. /\ e \in Seq(Steps) /\ Len(e) = 28
      /\ \A k \in 1..26 : e[k] = d[k]
      /\ \A k \in 1..2 : e[26 + k] = DirectVerifications[k]
  <2>1. d \in Seq(Steps) /\ DirectVerifications \in Seq(Steps)
    BY <1>5, Parts
  <2>2. Behind(e, d, DirectVerifications)
    BY <1>1, <2>1, Joined
  <2> QED
    BY <2>2, <1>5, Parts DEF Behind
<1>7. /\ Script \in Seq(Steps) /\ Len(Script) = 34
      /\ \A k \in 1..28 : Script[k] = e[k]
      /\ \A k \in 1..6 : Script[28 + k] = Barcodes[k]
  <2>1. e \in Seq(Steps) /\ Barcodes \in Seq(Steps)
    BY <1>6, Parts
  <2>2. Behind(Script, e, Barcodes)
    BY <1>1, <2>1, Joined
  <2> QED
    BY <2>2, <1>6, Parts DEF Behind
<1> QED
  BY <1>2, <1>3, <1>4, <1>5, <1>6, <1>7

\* The script, step by step.
LEMMA ScriptSteps ==
    /\ Script[1] = Do("refusals", None)
    /\ Script[2] = Do("create", "malformed")
    /\ Script[3] = Step("submit", "malformed", "b", 200)
    /\ Script[4] = Step("row", "malformed", "b", 0)
    /\ Script[5] = Do("create", "main")
    /\ Script[6] = Step("reload", "main", "pending", 200)
    /\ Script[7] = Step("submit", "main", "a", 200)
    /\ Script[8] = Step("row", "main", "a", 0)
    /\ Script[9] = Do("restart", None)
    /\ Script[10] = Step("reload", "main", "failed", 200)
    /\ Script[11] = Step("replay", "main", "a", 200)
    /\ Script[12] = Step("submit", "main", "b", 409)
    /\ Script[13] = Do("refusals", None)
    /\ Script[14] = Do("create", "expiring")
    /\ Script[15] = Do("expire", "expiring")
    /\ Script[16] = Step("submit", "expiring", "a", 410)
    /\ Script[17] = Do("expiredRow", "expiring")
    /\ Script[18] = Do("create", "same")
    /\ Script[19] = Step("race", "same", <<"a", "a">>, 200)
    /\ Script[20] = Step("replay", "same", "a", 200)
    /\ Script[21] = Step("row", "same", "a", 0)
    /\ Script[22] = Do("create", "different")
    /\ Script[23] = Step("race", "different", <<"a", "b">>, 409)
    /\ Script[24] = Step("retry", "different", "a", 200)
    /\ Script[25] = Step("retry", "different", "b", 200)
    /\ Script[26] = Do("winnersRow", "different")
    /\ Script[27] = Do("refusals", None)
    /\ Script[28] = Do("direct", None)
    /\ Script[29] = Do("refusals", None)
    /\ Script[30] = Do("barcode", "untrusted")
    /\ Script[31] = Do("barcode", "unusable")
    /\ Script[32] = Do("barcode", "positive")
    /\ Script[33] = Do("barcode", "tampered")
    /\ Script[34] = Do("barcode", "malformed")
<1>1. /\ Script[1] = MalformedSession[1]
      /\ Script[2] = MalformedSession[2]
      /\ Script[3] = MalformedSession[3]
      /\ Script[4] = MalformedSession[4]
  BY ScriptParts
<1>2. /\ Script[5] = MainSession[1]
      /\ Script[6] = MainSession[2]
      /\ Script[7] = MainSession[3]
      /\ Script[8] = MainSession[4]
      /\ Script[9] = MainSession[5]
      /\ Script[10] = MainSession[6]
      /\ Script[11] = MainSession[7]
      /\ Script[12] = MainSession[8]
  BY ScriptParts
<1>3. /\ Script[13] = ExpiringSession[1]
      /\ Script[14] = ExpiringSession[2]
      /\ Script[15] = ExpiringSession[3]
      /\ Script[16] = ExpiringSession[4]
      /\ Script[17] = ExpiringSession[5]
  BY ScriptParts
<1>4. /\ Script[18] = SameDigestSession[1]
      /\ Script[19] = SameDigestSession[2]
      /\ Script[20] = SameDigestSession[3]
      /\ Script[21] = SameDigestSession[4]
  BY ScriptParts
<1>5. /\ Script[22] = DifferentDigestSession[1]
      /\ Script[23] = DifferentDigestSession[2]
      /\ Script[24] = DifferentDigestSession[3]
      /\ Script[25] = DifferentDigestSession[4]
      /\ Script[26] = DifferentDigestSession[5]
  BY ScriptParts
<1>6. /\ Script[27] = DirectVerifications[1]
      /\ Script[28] = DirectVerifications[2]
  BY ScriptParts
<1>7. /\ Script[29] = Barcodes[1]
      /\ Script[30] = Barcodes[2]
      /\ Script[31] = Barcodes[3]
      /\ Script[32] = Barcodes[4]
      /\ Script[33] = Barcodes[5]
      /\ Script[34] = Barcodes[6]
  BY ScriptParts
<1> QED
  BY <1>1, <1>2, <1>3, <1>4, <1>5, <1>6, <1>7
  DEF MalformedSession, MainSession, ExpiringSession, SameDigestSession, DifferentDigestSession,
      DirectVerifications, Barcodes

\* At which steps of the script the gate does what.
LEMMA Places ==
    ASSUME at \in 1..35
    PROVE  /\ Len(Script) = 34
           /\ Doing("refusals") => at \in {1, 13, 27, 29}
           /\ Doing("create") =>
                 \/ at = 2 /\ Now.session = "malformed"
                 \/ at = 5 /\ Now.session = "main"
                 \/ at = 14 /\ Now.session = "expiring"
                 \/ at = 18 /\ Now.session = "same"
                 \/ at = 22 /\ Now.session = "different"
           /\ Doing("submit") =>
                 \/ at = 3 /\ Now.session = "malformed" /\ Now.of = "b" /\ Now.status = 200
                 \/ at = 7 /\ Now.session = "main" /\ Now.of = "a" /\ Now.status = 200
                 \/ at = 12 /\ Now.session = "main" /\ Now.of = "b" /\ Now.status = 409
                 \/ at = 16 /\ Now.session = "expiring" /\ Now.of = "a" /\ Now.status = 410
           /\ Doing("row") =>
                 \/ at = 4 /\ Now.session = "malformed" /\ Now.of = "b"
                 \/ at = 8 /\ Now.session = "main" /\ Now.of = "a"
                 \/ at = 21 /\ Now.session = "same" /\ Now.of = "a"
           /\ Doing("reload") =>
                 \/ at = 6 /\ Now.session = "main" /\ Now.of = "pending"
                 \/ at = 10 /\ Now.session = "main" /\ Now.of = "failed"
           /\ Doing("restart") => at = 9
           /\ Doing("replay") =>
                 \/ at = 11 /\ Now.session = "main" /\ Now.of = "a"
                 \/ at = 20 /\ Now.session = "same" /\ Now.of = "a"
           /\ Doing("expire") => at = 15 /\ Now.session = "expiring"
           /\ Doing("expiredRow") => at = 17 /\ Now.session = "expiring"
           /\ Doing("race") =>
                 \/ at = 19 /\ Now.session = "same" /\ Now.of[1] = "a" /\ Now.of[2] = "a" /\ Now.status = 200
                 \/ at = 23 /\ Now.session = "different" /\ Now.of[1] = "a" /\ Now.of[2] = "b" /\ Now.status = 409
           /\ Doing("retry") =>
                 \/ at = 24 /\ Now.session = "different" /\ Now.of = "a"
                 \/ at = 25 /\ Now.session = "different" /\ Now.of = "b"
           /\ Doing("winnersRow") => at = 26 /\ Now.session = "different"
           /\ Doing("direct") => at = 28
           /\ Doing("barcode") =>
                 \/ at = 30 /\ Now.session = "untrusted"
                 \/ at = 31 /\ Now.session = "unusable"
                 \/ at = 32 /\ Now.session = "positive"
                 \/ at = 33 /\ Now.session = "tampered"
                 \/ at = 34 /\ Now.session = "malformed"
<1>1. Len(Script) = 34
  BY ScriptParts
<1>2. at = 1 \/ at = 2 \/ at = 3 \/ at = 4 \/ at = 5 \/ at = 6 \/ at = 7 \/ at = 8 \/ at = 9 \/
      at = 10 \/ at = 11 \/ at = 12 \/ at = 13 \/ at = 14 \/ at = 15 \/ at = 16 \/ at = 17 \/
      at = 18 \/ at = 19 \/ at = 20 \/ at = 21 \/ at = 22 \/ at = 23 \/ at = 24 \/ at = 25 \/ at = 26 \/
      at = 27 \/ at = 28 \/ at = 29 \/ at = 30 \/ at = 31 \/ at = 32 \/ at = 33 \/ at = 34 \/ at = 35
  OBVIOUS
<1> USE DEF Doing, Now, Do, Step, None
<1>3. Doing("refusals") => at \in {1, 13, 27, 29}
  BY <1>1, <1>2, ScriptSteps
<1>4. Doing("create") =>
         \/ at = 2 /\ Now.session = "malformed"
         \/ at = 5 /\ Now.session = "main"
         \/ at = 14 /\ Now.session = "expiring"
         \/ at = 18 /\ Now.session = "same"
         \/ at = 22 /\ Now.session = "different"
  BY <1>1, <1>2, ScriptSteps
<1>5. Doing("submit") =>
         \/ at = 3 /\ Now.session = "malformed" /\ Now.of = "b" /\ Now.status = 200
         \/ at = 7 /\ Now.session = "main" /\ Now.of = "a" /\ Now.status = 200
         \/ at = 12 /\ Now.session = "main" /\ Now.of = "b" /\ Now.status = 409
         \/ at = 16 /\ Now.session = "expiring" /\ Now.of = "a" /\ Now.status = 410
  BY <1>1, <1>2, ScriptSteps
<1>6. Doing("row") =>
         \/ at = 4 /\ Now.session = "malformed" /\ Now.of = "b"
         \/ at = 8 /\ Now.session = "main" /\ Now.of = "a"
         \/ at = 21 /\ Now.session = "same" /\ Now.of = "a"
  BY <1>1, <1>2, ScriptSteps
<1>7. Doing("reload") =>
         \/ at = 6 /\ Now.session = "main" /\ Now.of = "pending"
         \/ at = 10 /\ Now.session = "main" /\ Now.of = "failed"
  BY <1>1, <1>2, ScriptSteps
<1>8. Doing("restart") => at = 9
  BY <1>1, <1>2, ScriptSteps
<1>9. Doing("replay") =>
         \/ at = 11 /\ Now.session = "main" /\ Now.of = "a"
         \/ at = 20 /\ Now.session = "same" /\ Now.of = "a"
  BY <1>1, <1>2, ScriptSteps
<1>10. Doing("expire") => at = 15 /\ Now.session = "expiring"
  BY <1>1, <1>2, ScriptSteps
<1>11. Doing("expiredRow") => at = 17 /\ Now.session = "expiring"
  BY <1>1, <1>2, ScriptSteps
<1>12. Doing("race") =>
         \/ at = 19 /\ Now.session = "same" /\ Now.of[1] = "a" /\ Now.of[2] = "a" /\ Now.status = 200
         \/ at = 23 /\ Now.session = "different" /\ Now.of[1] = "a" /\ Now.of[2] = "b" /\ Now.status = 409
  BY <1>1, <1>2, ScriptSteps
<1>13. Doing("retry") =>
         \/ at = 24 /\ Now.session = "different" /\ Now.of = "a"
         \/ at = 25 /\ Now.session = "different" /\ Now.of = "b"
  BY <1>1, <1>2, ScriptSteps
<1>14. Doing("winnersRow") => at = 26 /\ Now.session = "different"
  BY <1>1, <1>2, ScriptSteps
<1>15. Doing("direct") => at = 28
  BY <1>1, <1>2, ScriptSteps
<1>16. Doing("barcode") =>
         \/ at = 30 /\ Now.session = "untrusted"
         \/ at = 31 /\ Now.session = "unusable"
         \/ at = 32 /\ Now.session = "positive"
         \/ at = 33 /\ Now.session = "tampered"
         \/ at = 34 /\ Now.session = "malformed"
  BY <1>1, <1>2, ScriptSteps
<1> HIDE DEF Doing, Now, Do, Step, None
<1> QED
  BY <1>1, <1>3, <1>4, <1>5, <1>6, <1>7, <1>8, <1>9, <1>10, <1>11, <1>12, <1>13, <1>14, <1>15, <1>16

-----------------------------------------------------------------------------
(* Types, and who is in conversation with whom.                             *)

Decisions == [of : Presentations \cup {None}, no : Nat]
Rows == [status : {"absent", "pending", "processing", "failed", "expired"},
         digest : Presentations \cup {None}, holder : Callers \cup {None},
         decision : Decisions, kept : SUBSET (Presentations \cup {"nonce"}),
         due : BOOLEAN, evaluations : Nat]
Calls == [stage : {"idle", "sent", "claimed", "answered"}, session : Sessions \cup {None},
          of : Presentations \cup {None}, status : {0, 200, 404, 409, 410}, decision : Decisions]

SessionsTypes ==
    /\ defects \subseteq AllDefects
    /\ row \in [Sessions -> Rows]
    /\ call \in [Callers -> Calls]
    /\ resolver \in [usable : BOOLEAN, asked : Nat]
    /\ at \in 1..35
    /\ frozen \in Decisions
    /\ won \subseteq Presentations
    /\ verdict \in {None, "passed", "refused", "lost"}
    /\ (verdict = "passed") <=> (at = 35)
    /\ heard \in [Sessions -> SUBSET [of : Presentations \cup {None}, decision : Decisions]]

\* One request at step k, of p and for the session s.
Lone(k, s, p) ==
    at = k => /\ call["second"].stage = "idle"
              /\ call["first"].stage # "idle" => call["first"].session = s /\ call["first"].of = p

\* Two requests at step k.
Both(k, s, p, q) ==
    at = k => /\ call["first"].stage = "idle" <=> call["second"].stage = "idle"
              /\ call["first"].stage # "idle" =>
                    /\ call["first"].session = s /\ call["first"].of = p
                    /\ call["second"].session = s /\ call["second"].of = q

Asking == {3, 7, 11, 12, 16, 19, 20, 23, 24, 25}

Conversation ==
    /\ at \notin Asking => Quiet
    /\ Lone(3, "malformed", "b") /\ Lone(7, "main", "a") /\ Lone(11, "main", "a") /\ Lone(12, "main", "b")
    /\ Lone(16, "expiring", "a") /\ Lone(20, "same", "a")
    /\ Lone(24, "different", "a") /\ Lone(25, "different", "b")
    /\ Both(19, "same", "a", "a") /\ Both(23, "different", "a", "b")

\* Decisions are numbered, and only the one session expires.
Counted ==
    /\ \A s \in Sessions : row[s].decision.no <= row[s].evaluations /\ (row[s].due => s = "expiring")
    /\ \A c \in Callers : call[c].stage = "answered" /\ call[c].status = 200 =>
          call[c].decision.no <= row[call[c].session].evaluations

TalkInv == SessionsTypes /\ Conversation /\ Counted

-----------------------------------------------------------------------------
(* A service without a defect.                                              *)

Clean(r) == r.kept = {} /\ r.holder = None /\ r.decision.of = r.digest
Yes(c) == call[c].stage = "answered" /\ call[c].status = 200

\* A session that was created for the requests of this step.
Contest(s) ==
    /\ row[s].status \in {"pending", "processing", "failed"}
    /\ row[s].status = "pending" => \A c \in Callers : call[c].stage \in {"idle", "sent"}
    /\ row[s].status = "processing" =>
          /\ \E c \in Callers : call[c].stage = "claimed" /\ row[s].holder = c
          /\ \A c \in Callers : call[c].stage = "answered" => call[c].status = 409
    /\ row[s].status = "failed" =>
          /\ Clean(row[s])
          /\ \E c \in Callers : Yes(c)
          /\ \A c \in Callers : call[c].stage = "answered" =>
                call[c].status = 409 \/ (Yes(c) /\ call[c].of = row[s].digest /\ call[c].decision = row[s].decision)
    /\ row[s].status \in {"processing", "failed"} =>
          \A c \in Callers : call[c].stage = "claimed" => call[c].of = row[s].digest

\* A session whose decision the gate knows.
Steady(s) ==
    /\ row[s].status = "failed" /\ Clean(row[s]) /\ row[s].decision = frozen
    /\ \A c \in Callers :
          /\ call[c].stage # "claimed"
          /\ call[c].stage = "answered" =>
                IF call[c].of = row[s].digest THEN Yes(c) /\ call[c].decision = frozen
                                              ELSE call[c].status = 409

Lapsed(s) == row[s].status = "expired" /\ row[s].kept = {} /\ row[s].digest = None /\ row[s].holder = None

Expiring(s) ==
    LET c == call["first"] IN
    /\ c.stage # "claimed"
    /\ IF c.stage = "answered" THEN c.status = 410 /\ Lapsed(s)
                               ELSE row[s] = [Pending EXCEPT !.due = TRUE]

SoundPlaces ==
    /\ resolver.usable
    /\ at = 3 => Contest("malformed")
    /\ at = 4 => Steady("malformed") /\ row["malformed"].digest = "b"
    /\ at \in {6, 7} => Contest("main")
    /\ at \in 8..12 => Steady("main") /\ row["main"].digest = "a"
    /\ at = 15 => row["expiring"] = Pending
    /\ at = 16 => Expiring("expiring")
    /\ at = 17 => Lapsed("expiring")
    /\ at = 19 => Contest("same")
    /\ at \in {20, 21} => Steady("same") /\ row["same"].digest = "a"
    /\ at = 23 => Contest("different")
    /\ at \in {23, 24} => won = {}
    /\ at \in 24..26 => Steady("different") /\ row["different"].digest \in Presentations
    /\ at = 25 => won = {"a"} \cap {row["different"].digest}
    /\ at = 26 => won = {row["different"].digest}

SoundInv == defects = {} => verdict # "refused" /\ SoundPlaces

-----------------------------------------------------------------------------
(* A service with any of the defects.                                       *)

One(s) == \A h, k \in heard[s] : h = k
Same(x) == [of |-> x, decision |-> frozen]

\* What was accepted.
Accounts ==
    /\ heard["expiring"] = {}
    /\ at <= 3 => heard["malformed"] = {}
    /\ One("malformed")
    /\ at <= 7 => heard["main"] = {}
    /\ at \in 8..12 => heard["main"] \subseteq {Same("a")}
    /\ One("main")
    /\ at <= 19 => heard["same"] = {}
    /\ at \in {20, 21} => heard["same"] \subseteq {Same("a")}
    /\ One("same")
    /\ at <= 23 => heard["different"] = {}
    /\ at \in 24..26 => heard["different"] \subseteq {Same(x) : x \in won \cup {frozen.of}}
    /\ at >= 27 => One("different")

\* The main session, from its inspection to the conflicting submission.
HeldMain ==
    /\ row["main"].status = "failed" /\ row["main"].digest = "a" /\ row["main"].kept = {}
    /\ frozen.no <= row["main"].evaluations
NotFrozen == Yes("first") /\ call["first"].decision # frozen

MainRow ==
    /\ at = 8 => frozen.no <= row["main"].evaluations
    /\ at = 9 => HeldMain
    /\ at = 10 => HeldMain \/ row["main"].status = "absent"
    /\ at \in {11, 12} => call["first"].stage # "claimed"
    /\ at = 11 => HeldMain \/ NotFrozen
    /\ at = 12 => HeldMain \/ call["first"].stage = "answered"
    /\ (at = 12 /\ call["first"].stage = "answered") \/ at >= 13 =>
          row["main"].kept = {} \/ Has("keepsRefused")

\* The last race: who was accepted decided for himself, and who is still to be
\* heard finds nothing of his.
Race ==
    LET r == row["different"] IN
    at = 23 =>
        /\ won = {}
        /\ call["first"].stage = "idle" => r.digest = None
        /\ \A c \in Callers :
              /\ call[c].stage = "sent" => r.digest # call[c].of
              /\ call[c].stage = "claimed" /\ ~Has("unclaimed") => r.status = "processing" /\ r.holder = c
              /\ Yes(c) => /\ r.status = "failed" /\ call[c].decision.of = call[c].of
                           /\ r.decision = call[c].decision \/ \A d \in Callers : Yes(d)

\* The retries behind it: whoever is refused leaves a trace in a service that
\* keeps what it refuses.
Traced == Has("keepsRefused") => row["different"].kept # {}
Retries ==
    /\ at \in 24..26 => row["different"].status = "failed"
    /\ at \in {24, 25} =>
          /\ call["first"].stage # "claimed"
          /\ \/ NotFrozen
             \/ /\ row["different"].decision = frozen
                /\ call["first"].stage = "answered" /\ call["first"].status # 200 => Traced
                /\ at = 25 => "a" \in won \/ Traced
    /\ at = 24 => won = {}
    /\ at = 25 => won \subseteq {"a"}
    /\ at = 26 => row["different"].decision = frozen /\ ({"a", "b"} \subseteq won \/ Traced)
    /\ at >= 27 => ~Has("keepsRefused")

Emptied ==
    /\ at >= 5 => row["malformed"].kept = {}
    /\ at >= 18 => row["expiring"].kept = {}
    /\ at >= 22 => row["same"].kept = {}
    /\ at >= 27 => row["different"].kept = {}

PassInv == verdict # "refused" => Accounts /\ MainRow /\ Race /\ Retries /\ Emptied

-----------------------------------------------------------------------------
(* What a step of the service does, seen from one request: the row and the  *)
(* request before (r, k) and after it (q, n).                               *)

Answers(k, n, status) == n.stage = "answered" /\ n.status = status
Untouched(r, q) == q.decision = r.decision /\ q.evaluations = r.evaluations

Unknown(r, q, k, n) == k.stage = "sent" /\ Answers(k, n, 404) /\ r.status = "absent" /\ q = r
Expires(r, q, k, n) ==
    /\ k.stage = "sent" /\ Answers(k, n, 410) /\ r.due /\ Untouched(r, q)
    /\ q.status = "expired" /\ q.kept = {} /\ q.digest = r.digest /\ q.holder = r.holder
Claims(r, q, k, n, c) ==
    /\ k.stage = "sent" /\ n.stage = "claimed" /\ r.status = "pending" /\ Untouched(r, q)
    /\ r.due => Has("unexpiring")
    /\ q.kept = r.kept
    /\ IF Has("unclaimed") THEN q = r
                           ELSE q.status = "processing" /\ q.digest = k.of /\ q.holder = c
TakesOver(r, q, k, n, c) ==
    /\ k.stage = "sent" /\ n.stage = "claimed" /\ r.status = "processing" /\ r.digest = k.of
    /\ Untouched(r, q) /\ q.status = "processing" /\ q.digest = k.of /\ q.holder = c /\ q.kept = r.kept
Conflicts(r, q, k, n) ==
    /\ k.stage = "sent" /\ Answers(k, n, 409) /\ Untouched(r, q)
    /\ r.status = "processing" \/ (r.status = "failed" /\ r.digest # k.of)
    /\ q.status = r.status /\ q.holder = r.holder
    /\ q.digest = IF Has("overwrites") THEN k.of ELSE r.digest
    /\ q.kept = IF Has("keepsRefused") THEN r.kept \cup {k.of} ELSE r.kept
IsDecided(r, q, p) ==
    /\ q.status = "failed" /\ q.holder = None /\ q.decision = Decision(r, p)
    /\ q.evaluations = r.evaluations + 1
    /\ ~Has("retains") => q.kept = {}
Repeats(r, q, k, n) ==
    /\ k.stage = "sent" /\ Answers(k, n, 200) /\ r.status = "failed" /\ r.digest = k.of
    /\ q.digest = r.digest
    /\ IF Has("reevaluates") THEN n.decision = Decision(r, k.of) /\ IsDecided(r, q, k.of)
                             ELSE n.decision = r.decision /\ q = r
Decides(r, q, k, n, c) ==
    /\ k.stage = "claimed" /\ Answers(k, n, 200)
    /\ r.holder = c \/ Has("unclaimed") \/ Has("unfenced")
    /\ n.decision = Decision(r, k.of) /\ IsDecided(r, q, k.of)
    /\ q.digest = IF Has("unclaimed") THEN k.of ELSE r.digest
ComesLate(r, q, k, n, c) ==
    /\ k.stage = "claimed" /\ r.holder # c /\ ~Has("unclaimed") /\ ~Has("unfenced") /\ q = r
    /\ \/ Answers(k, n, 409)
       \/ r.status = "failed" /\ Answers(k, n, 200) /\ n.decision = r.decision

Outcome(r, q, k, n, c) ==
    \/ Unknown(r, q, k, n) \/ Expires(r, q, k, n)
    \/ Claims(r, q, k, n, c) \/ TakesOver(r, q, k, n, c) \/ Conflicts(r, q, k, n)
    \/ Repeats(r, q, k, n) \/ Decides(r, q, k, n, c) \/ ComesLate(r, q, k, n, c)

\* The request of c is at its session, and everything else stands still.
Serves(c) ==
    LET s == call[c].session IN
    /\ s \in Sessions /\ call[c].of \in Presentations /\ at \in Asking
    /\ call[c].stage \in {"sent", "claimed"}
    /\ row' \in [Sessions -> Rows] /\ call' \in [Callers -> Calls]
    /\ \A t \in Sessions : t # s => row'[t] = row[t]
    /\ \A d \in Callers : d # c => call'[d] = call[d]
    /\ call'[c].session = s /\ call'[c].of = call[c].of
    /\ row'[s].due = row[s].due
    /\ Outcome(row[s], row'[s], call[c], call'[c], c)
    /\ UNCHANGED <<defects, resolver, gateVars, heard>>

\* A row that is decided, also when its digest is set after it.
LEMMA DecidedRow ==
    ASSUME NEW r \in Rows, NEW p \in Presentations, NEW d \in Presentations \cup {None}
    PROVE  /\ Decided(r, p) \in Rows /\ [Decided(r, p) EXCEPT !.digest = d] \in Rows
           /\ IsDecided(r, Decided(r, p), p) /\ IsDecided(r, [Decided(r, p) EXCEPT !.digest = d], p)
           /\ Decided(r, p).digest = r.digest /\ [Decided(r, p) EXCEPT !.digest = d].digest = d
           /\ Decided(r, p).due = r.due /\ [Decided(r, p) EXCEPT !.digest = d].due = r.due
           /\ Decision(r, p) \in Decisions /\ Decision(r, p).of = p /\ Decision(r, p).no = r.evaluations + 1
<1>1. Decision(r, p) \in Decisions /\ Decision(r, p).of = p /\ Decision(r, p).no = r.evaluations + 1
  BY DEF Decision, Decisions, Rows
<1>2. {p, "nonce"} \in SUBSET (Presentations \cup {"nonce"}) /\ {} \in SUBSET (Presentations \cup {"nonce"})
  OBVIOUS
<1> DEFINE n == Decision(r, p)
           kept == IF Has("retains") THEN {p, "nonce"} ELSE {}
           q == [r EXCEPT !.status = "failed", !.holder = None, !.decision = n, !.kept = kept,
                          !.evaluations = @ + 1]
<1>3. kept \in SUBSET (Presentations \cup {"nonce"}) /\ (~Has("retains") => kept = {})
  BY <1>2
<1>4. Decided(r, p) = q
  BY DEF Decided
<1> HIDE DEF n, kept
<1>5. ASSUME NEW x \in Rows
      PROVE  /\ [x EXCEPT !.status = "failed"] \in Rows /\ [x EXCEPT !.holder = None] \in Rows
             /\ [x EXCEPT !.decision = n] \in Rows /\ [x EXCEPT !.kept = kept] \in Rows
             /\ [x EXCEPT !.evaluations = @ + 1] \in Rows /\ [x EXCEPT !.digest = d] \in Rows
  BY <1>1, <1>3, <1>5 DEF Rows, n
<1>6. q \in Rows
  <2>1. q = [[[[[r EXCEPT !.status = "failed"] EXCEPT !.holder = None] EXCEPT !.decision = n]
                EXCEPT !.kept = kept] EXCEPT !.evaluations = @ + 1]
    OBVIOUS
  <2> QED
    BY <1>5, <2>1
<1>7. /\ q.status = "failed" /\ q.holder = None /\ q.decision = n /\ q.kept = kept
      /\ q.evaluations = r.evaluations + 1 /\ q.digest = r.digest /\ q.due = r.due
  BY DEF Rows
<1> HIDE DEF q
<1>8. [q EXCEPT !.digest = d] \in Rows
  BY <1>5, <1>6
<1>9. IsDecided(r, q, p)
  BY <1>3, <1>7 DEF IsDecided, n
<1>10. /\ IsDecided(r, [q EXCEPT !.digest = d], p)
       /\ [q EXCEPT !.digest = d].digest = d /\ [q EXCEPT !.digest = d].due = r.due
  BY <1>3, <1>6, <1>7 DEF IsDecided, Rows, n
<1> QED
  BY <1>1, <1>4, <1>6, <1>7, <1>8, <1>9, <1>10

\* A row behind a refused submission.
LEMMA RefusedRow ==
    ASSUME NEW r \in Rows, NEW p \in Presentations
    PROVE  /\ Refused(r, p) \in Rows /\ Refused(r, p).due = r.due /\ Untouched(r, Refused(r, p))
           /\ Refused(r, p).status = r.status /\ Refused(r, p).holder = r.holder
           /\ Refused(r, p).digest = IF Has("overwrites") THEN p ELSE r.digest
           /\ Refused(r, p).kept = IF Has("keepsRefused") THEN r.kept \cup {p} ELSE r.kept
<1>1. r.kept \cup {p} \in SUBSET (Presentations \cup {"nonce"})
  BY DEF Rows
<1> QED
  BY <1>1 DEF Refused, Untouched, Rows

\* Who is in conversation, and about what.
LEMMA Partners ==
    ASSUME SessionsTypes, Conversation, NEW c \in Callers, call[c].stage # "idle"
    PROVE  call[c].session \in Sessions /\ call[c].of \in Presentations /\ at \in Asking
<1>1. at \in Asking
  BY DEF Conversation, Quiet
<1> QED
  BY <1>1 DEF Conversation, Lone, Both, Asking, Callers, Sessions, Presentations

Codes == {0, 200, 404, 409, 410}
AnsweredWith(k, status, d) == [k EXCEPT !.stage = "answered", !.status = status, !.decision = d]

\* A request that is answered is otherwise as it was sent.
LEMMA AnsweredCall ==
    ASSUME NEW k \in Calls, NEW status \in Codes, NEW d \in Decisions
    PROVE  /\ AnsweredWith(k, status, d) \in Calls /\ Answers(k, AnsweredWith(k, status, d), status)
           /\ AnsweredWith(k, status, d).decision = d
           /\ AnsweredWith(k, status, d).session = k.session /\ AnsweredWith(k, status, d).of = k.of
<1>1. [k EXCEPT !.stage = "answered"] \in Calls
  BY DEF Calls
<1>2. ASSUME NEW x \in Calls PROVE [x EXCEPT !.status = status] \in Calls
  BY <1>2 DEF Calls, Codes
<1>3. ASSUME NEW x \in Calls PROVE [x EXCEPT !.decision = d] \in Calls
  BY <1>3 DEF Calls
<1>4. AnsweredWith(k, status, d) = [[[k EXCEPT !.stage = "answered"] EXCEPT !.status = status] EXCEPT !.decision = d]
  BY DEF AnsweredWith
<1>5. [[[k EXCEPT !.stage = "answered"] EXCEPT !.status = status] EXCEPT !.decision = d] \in Calls
  BY <1>1, <1>2, <1>3
<1>6. AnsweredWith(k, status, d) \in Calls
  BY <1>4, <1>5
<1> QED
  BY <1>6 DEF Calls, Answers, AnsweredWith

\* What Reply does.
LEMMA ReplyIs ==
    ASSUME call \in [Callers -> Calls], NEW c \in Callers, NEW status \in Codes,
           NEW d \in Decisions, Reply(c, status, d)
    PROVE  /\ call' \in [Callers -> Calls] /\ Answers(call[c], call'[c], status) /\ call'[c].decision = d
           /\ call'[c].session = call[c].session /\ call'[c].of = call[c].of
           /\ \A e \in Callers : e # c => call'[e] = call[e]
<1> DEFINE n == AnsweredWith(call[c], status, d)
<1>1. /\ n \in Calls /\ Answers(call[c], n, status) /\ n.decision = d
      /\ n.session = call[c].session /\ n.of = call[c].of
  <2>1. call[c] \in Calls
    OBVIOUS
  <2> QED
    BY <2>1, AnsweredCall
<1>2. call' = [call EXCEPT ![c].stage = "answered", ![c].status = status, ![c].decision = d]
  BY DEF Reply
<1>3. call'[c] = n
  BY <1>2 DEF AnsweredWith
<1>4. \A e \in Callers : e # c => call'[e] = call[e]
  BY <1>2
<1>5. DOMAIN call' = Callers /\ call' = [e \in Callers |-> call'[e]]
  BY <1>2
<1> HIDE DEF n
<1>6. \A e \in Callers : call'[e] \in Calls
  BY <1>1, <1>3, <1>4
<1> QED
  BY <1>1, <1>3, <1>4, <1>5, <1>6

\* The two actions of the service, seen from the request and its row.
LEMMA SubmissionServes ==
    ASSUME SessionsTypes, Conversation, NEW c \in Callers, Submission(c)
    PROVE  Serves(c)
<1> DEFINE s == call[c].session  p == call[c].of  r == row[s]
<1>1. call[c].stage = "sent"
  BY DEF Submission
<1>2. s \in Sessions /\ p \in Presentations /\ at \in Asking /\ r \in Rows /\ call[c] \in Calls
  BY <1>1, Partners DEF SessionsTypes
<1>3. UNCHANGED <<defects, resolver, gateVars, heard>>
  BY DEF Submission
<1>4. ASSUME NEW status \in {200, 404, 409, 410}, NEW d \in Decisions, Reply(c, status, d)
      PROVE  /\ call' \in [Callers -> Calls] /\ Answers(call[c], call'[c], status) /\ call'[c].decision = d
             /\ call'[c].session = s /\ call'[c].of = p
             /\ \A e \in Callers : e # c => call'[e] = call[e]
  BY <1>2, <1>4, ReplyIs DEF SessionsTypes, Codes
<1>5. ASSUME call' = [call EXCEPT ![c].stage = "claimed"]
      PROVE  /\ call' \in [Callers -> Calls] /\ call'[c].stage = "claimed"
             /\ call'[c].session = s /\ call'[c].of = p
             /\ \A e \in Callers : e # c => call'[e] = call[e]
  BY <1>2, <1>5 DEF SessionsTypes, Calls
<1>6. ASSUME NEW q \in Rows, Store(s, q)
      PROVE  /\ row' \in [Sessions -> Rows] /\ row'[s] = q
             /\ \A t \in Sessions : t # s => row'[t] = row[t]
  BY <1>2, <1>6 DEF SessionsTypes, Store
<1>7. UNCHANGED row => row' \in [Sessions -> Rows] /\ \A t \in Sessions : row'[t] = row[t]
  BY DEF SessionsTypes
<1>8. NoDecision \in Decisions /\ r.decision \in Decisions
  BY <1>2 DEF NoDecision, Decisions, Rows
<1> HIDE DEF s, p, r
<1>9. SUFFICES /\ row' \in [Sessions -> Rows] /\ call' \in [Callers -> Calls]
               /\ \A t \in Sessions : t # s => row'[t] = row[t]
               /\ \A d \in Callers : d # c => call'[d] = call[d]
               /\ call'[c].session = s /\ call'[c].of = p
               /\ row'[s].due = r.due
               /\ Outcome(r, row'[s], call[c], call'[c], c)
  BY <1>1, <1>2, <1>3 DEF Serves, s, p, r
<1>10. CASE r.status = "absent" /\ Reply(c, 404, NoDecision) /\ UNCHANGED row
  <2>1. row'[s] = r
    BY <1>2, <1>7, <1>10 DEF r
  <2>2. Unknown(r, row'[s], call[c], call'[c])
    BY <1>1, <1>4, <1>8, <1>10, <2>1 DEF Unknown
  <2> QED
    BY <1>4, <1>7, <1>8, <1>10, <2>1, <2>2 DEF Outcome
<1>11. CASE r.due /\ Reply(c, 410, NoDecision) /\ Store(s, [r EXCEPT !.status = "expired", !.kept = {}])
  <2> DEFINE q == [r EXCEPT !.status = "expired", !.kept = {}]
  <2>1. /\ q \in Rows /\ q.due = r.due /\ Untouched(r, q) /\ q.status = "expired" /\ q.kept = {}
        /\ q.digest = r.digest /\ q.holder = r.holder
    BY <1>2 DEF Rows, Untouched
  <2> HIDE DEF q
  <2>2. row' \in [Sessions -> Rows] /\ row'[s] = q /\ \A t \in Sessions : t # s => row'[t] = row[t]
    BY <1>6, <1>11, <2>1 DEF q
  <2>3. /\ call' \in [Callers -> Calls] /\ Answers(call[c], call'[c], 410)
        /\ call'[c].session = s /\ call'[c].of = p
        /\ \A e \in Callers : e # c => call'[e] = call[e]
    BY <1>4, <1>8, <1>11
  <2>4. Expires(r, row'[s], call[c], call'[c])
    BY <1>1, <1>11, <2>1, <2>2, <2>3 DEF Expires
  <2> QED
    BY <2>1, <2>2, <2>3, <2>4 DEF Outcome
<1>12. CASE /\ r.status = "pending" /\ (r.due => Has("unexpiring"))
            /\ call' = [call EXCEPT ![c].stage = "claimed"]
            /\ Store(s, IF Has("unclaimed") THEN r
                        ELSE [r EXCEPT !.status = "processing", !.digest = p, !.holder = c])
  <2> DEFINE q == [r EXCEPT !.status = "processing", !.digest = p, !.holder = c]
  <2>1. /\ q \in Rows /\ q.due = r.due /\ Untouched(r, q) /\ q.status = "processing" /\ q.kept = r.kept
        /\ q.digest = p /\ q.holder = c
    BY <1>2 DEF Rows, Untouched
  <2> HIDE DEF q
  <2>2. Untouched(r, r)
    BY DEF Untouched
  <2>3. PICK x : x = IF Has("unclaimed") THEN r ELSE q
    OBVIOUS
  <2>4. row' \in [Sessions -> Rows] /\ row'[s] = x /\ \A t \in Sessions : t # s => row'[t] = row[t]
    BY <1>2, <1>6, <1>12, <2>1, <2>3 DEF q
  <2>5. x.due = r.due /\ Untouched(r, x) /\ x.kept = r.kept
    BY <2>1, <2>2, <2>3
  <2>6. Claims(r, row'[s], call[c], call'[c], c)
    BY <1>1, <1>5, <1>12, <2>1, <2>3, <2>4, <2>5 DEF Claims, p
  <2> QED
    BY <1>5, <1>12, <2>4, <2>5, <2>6 DEF Outcome
<1>13. CASE /\ r.status = "processing" /\ r.digest = p
            /\ call' = [call EXCEPT ![c].stage = "claimed"]
            /\ Store(s, [r EXCEPT !.holder = c])
  <2> DEFINE q == [r EXCEPT !.holder = c]
  <2>1. /\ q \in Rows /\ q.due = r.due /\ Untouched(r, q) /\ q.status = r.status /\ q.kept = r.kept
        /\ q.digest = r.digest /\ q.holder = c
    BY <1>2 DEF Rows, Untouched
  <2> HIDE DEF q
  <2>2. row' \in [Sessions -> Rows] /\ row'[s] = q /\ \A t \in Sessions : t # s => row'[t] = row[t]
    BY <1>6, <1>13, <2>1 DEF q
  <2>3. TakesOver(r, row'[s], call[c], call'[c], c)
    BY <1>1, <1>5, <1>13, <2>1, <2>2 DEF TakesOver, p
  <2> QED
    BY <1>5, <1>13, <2>1, <2>2, <2>3 DEF Outcome
<1>14. CASE /\ r.status = "processing" \/ (r.status = "failed" /\ r.digest # p)
            /\ Reply(c, 409, NoDecision)
            /\ Store(s, Refused(r, p))
  <2>1. /\ Refused(r, p) \in Rows /\ Refused(r, p).due = r.due /\ Untouched(r, Refused(r, p))
        /\ Refused(r, p).status = r.status /\ Refused(r, p).holder = r.holder
        /\ Refused(r, p).digest = IF Has("overwrites") THEN p ELSE r.digest
        /\ Refused(r, p).kept = IF Has("keepsRefused") THEN r.kept \cup {p} ELSE r.kept
    BY <1>2, RefusedRow
  <2>2. row' \in [Sessions -> Rows] /\ row'[s] = Refused(r, p) /\ \A t \in Sessions : t # s => row'[t] = row[t]
    BY <1>6, <1>14, <2>1
  <2>3. Conflicts(r, row'[s], call[c], call'[c])
    BY <1>1, <1>4, <1>8, <1>14, <2>1, <2>2 DEF Conflicts, p
  <2> QED
    BY <1>4, <1>8, <1>14, <2>1, <2>2, <2>3 DEF Outcome
<1>15. CASE /\ r.status = "failed" /\ r.digest = p
            /\ IF Has("reevaluates")
               THEN Reply(c, 200, Decision(r, p)) /\ Store(s, Decided(r, p))
               ELSE Reply(c, 200, r.decision) /\ UNCHANGED row
  <2>1. CASE Has("reevaluates")
    <3>1. /\ Decided(r, p) \in Rows /\ IsDecided(r, Decided(r, p), p) /\ Decided(r, p).due = r.due
          /\ Decided(r, p).digest = r.digest /\ Decision(r, p) \in Decisions
      BY <1>2, DecidedRow
    <3>2. row' \in [Sessions -> Rows] /\ row'[s] = Decided(r, p) /\ \A t \in Sessions : t # s => row'[t] = row[t]
      BY <1>6, <1>15, <2>1, <3>1
    <3>3. Repeats(r, row'[s], call[c], call'[c])
      BY <1>1, <1>4, <1>15, <2>1, <3>1, <3>2 DEF Repeats, p
    <3> QED
      BY <1>4, <1>15, <2>1, <3>1, <3>2, <3>3 DEF Outcome
  <2>2. CASE ~Has("reevaluates")
    <3>1. row'[s] = r
      BY <1>2, <1>7, <1>15, <2>2 DEF r
    <3>2. Repeats(r, row'[s], call[c], call'[c])
      BY <1>1, <1>4, <1>8, <1>15, <2>2, <3>1 DEF Repeats, p
    <3> QED
      BY <1>4, <1>7, <1>8, <1>15, <2>2, <3>1, <3>2 DEF Outcome
  <2> QED
    BY <2>1, <2>2
<1> QED
  BY <1>10, <1>11, <1>12, <1>13, <1>14, <1>15 DEF Submission, s, p, r

LEMMA EvaluationServes ==
    ASSUME SessionsTypes, Conversation, NEW c \in Callers, Evaluation(c)
    PROVE  Serves(c)
<1> DEFINE s == call[c].session  p == call[c].of  r == row[s]
<1>1. call[c].stage = "claimed"
  BY DEF Evaluation
<1>2. s \in Sessions /\ p \in Presentations /\ at \in Asking /\ r \in Rows /\ call[c] \in Calls
  BY <1>1, Partners DEF SessionsTypes
<1>3. UNCHANGED <<defects, resolver, gateVars, heard>>
  BY DEF Evaluation
<1>4. ASSUME NEW status \in {200, 404, 409, 410}, NEW d \in Decisions, Reply(c, status, d)
      PROVE  /\ call' \in [Callers -> Calls] /\ Answers(call[c], call'[c], status) /\ call'[c].decision = d
             /\ call'[c].session = s /\ call'[c].of = p
             /\ \A e \in Callers : e # c => call'[e] = call[e]
  BY <1>2, <1>4, ReplyIs DEF SessionsTypes, Codes
<1>5. NoDecision \in Decisions /\ r.decision \in Decisions /\ r.digest \in Presentations \cup {None}
  BY <1>2 DEF NoDecision, Decisions, Rows
<1> HIDE DEF s, p, r
<1>6. SUFFICES /\ row' \in [Sessions -> Rows] /\ call' \in [Callers -> Calls]
               /\ \A t \in Sessions : t # s => row'[t] = row[t]
               /\ \A d \in Callers : d # c => call'[d] = call[d]
               /\ call'[c].session = s /\ call'[c].of = p
               /\ row'[s].due = r.due
               /\ Outcome(r, row'[s], call[c], call'[c], c)
  BY <1>1, <1>2, <1>3 DEF Serves, s, p, r
<1>7. CASE r.holder = c \/ Has("unclaimed") \/ Has("unfenced")
  <2>1. PICK d \in Presentations \cup {None} : d = IF Has("unclaimed") THEN p ELSE r.digest
    BY <1>2, <1>5
  <2> DEFINE q == [Decided(r, p) EXCEPT !.digest = d]
  <2>2. /\ q \in Rows /\ IsDecided(r, q, p) /\ q.digest = d /\ q.due = r.due
        /\ Decision(r, p) \in Decisions /\ Decided(r, p).digest = r.digest
    BY <1>2, DecidedRow
  <2>3. Reply(c, 200, Decision(r, p)) /\ Store(s, q)
    BY <1>7, <2>1, <2>2 DEF Evaluation, s, p, r
  <2> HIDE DEF q
  <2>4. row' \in [Sessions -> Rows] /\ row'[s] = q /\ \A t \in Sessions : t # s => row'[t] = row[t]
    BY <1>2, <2>2, <2>3 DEF SessionsTypes, Store
  <2>5. Decides(r, row'[s], call[c], call'[c], c)
    BY <1>1, <1>4, <1>7, <2>1, <2>2, <2>3, <2>4 DEF Decides, p
  <2> QED
    BY <1>4, <2>2, <2>3, <2>4, <2>5 DEF Outcome
<1>8. CASE ~(r.holder = c \/ Has("unclaimed") \/ Has("unfenced"))
  <2>1. Reply(c, 409, NoDecision) \/ (r.status = "failed" /\ Reply(c, 200, r.decision))
    BY <1>8 DEF Evaluation, s, p, r
  <2>2. row' = row
    BY <1>8 DEF Evaluation, s, p, r
  <2>3. row' \in [Sessions -> Rows] /\ row'[s] = r /\ \A t \in Sessions : row'[t] = row[t]
    BY <2>2 DEF SessionsTypes, r
  <2>4. ComesLate(r, row'[s], call[c], call'[c], c)
    BY <1>1, <1>4, <1>5, <1>8, <2>1, <2>3 DEF ComesLate
  <2> QED
    BY <1>4, <1>5, <2>1, <2>3, <2>4 DEF Outcome
<1> QED
  BY <1>7, <1>8

\* Whatever the service does, the request is past its first stage.
LEMMA Replied ==
    ASSUME NEW c \in Callers, Serves(c)
    PROVE  call'[c].stage \in {"claimed", "answered"}
BY DEF Serves, Outcome, Unknown, Expires, Claims, TakesOver, Conflicts, Repeats, Decides, ComesLate, Answers

\* The service keeps to the conversation.
LEMMA ServiceTalk ==
    ASSUME TalkInv, NEW c \in Callers, Serves(c)
    PROVE  TalkInv'
<1> DEFINE s == call[c].session  r == row[s]  q == row'[s]
<1>1. SessionsTypes'
  BY DEF TalkInv, SessionsTypes, Serves, gateVars
<1>2. Conversation'
  <2>1. at' = at /\ at \in Asking
    BY DEF Serves, gateVars
  <2>2. /\ call'[c].stage # "idle" /\ call[c].stage # "idle"
        /\ \A d \in Callers : /\ call'[d].session = call[d].session /\ call'[d].of = call[d].of
                              /\ call'[d].stage = "idle" <=> call[d].stage = "idle"
    BY Replied DEF Serves
  <2>3. "first" \in Callers /\ "second" \in Callers
    BY DEF Callers
  <2> QED
    BY <2>1, <2>2, <2>3 DEF TalkInv, Conversation, Quiet, Lone, Both
<1>3. Counted'
  <2>1. s \in Sessions /\ r \in Rows /\ q \in Rows /\ call[c].of \in Presentations
    BY DEF Serves, TalkInv, SessionsTypes
  <2>2. r.decision.no \in Nat /\ r.evaluations \in Nat /\ q.evaluations \in Nat
    BY <2>1 DEF Rows, Decisions
  <2>3. Decision(r, call[c].of).no = r.evaluations + 1
    BY DEF Decision
  <2>4. r.decision.no <= r.evaluations
    BY <2>1 DEF TalkInv, Counted
  <2> HIDE DEF r, q
  <2>5. /\ q.decision.no <= q.evaluations /\ r.evaluations <= q.evaluations
        /\ call'[c].stage = "answered" /\ call'[c].status = 200 => call'[c].decision.no <= q.evaluations
    <3>1. Outcome(r, q, call[c], call'[c], c)
      BY DEF Serves, r, q
    <3>2. CASE Unknown(r, q, call[c], call'[c])
      BY <2>2, <2>4, <3>2 DEF Unknown, Answers
    <3>3. CASE Expires(r, q, call[c], call'[c])
      BY <2>2, <2>4, <3>3 DEF Expires, Untouched, Answers
    <3>4. CASE Claims(r, q, call[c], call'[c], c)
      BY <2>2, <2>4, <3>4 DEF Claims, Untouched
    <3>5. CASE TakesOver(r, q, call[c], call'[c], c)
      BY <2>2, <2>4, <3>5 DEF TakesOver, Untouched
    <3>6. CASE Conflicts(r, q, call[c], call'[c])
      BY <2>2, <2>4, <3>6 DEF Conflicts, Untouched, Answers
    <3>7. CASE Repeats(r, q, call[c], call'[c])
      BY <2>2, <2>3, <2>4, <3>7 DEF Repeats, IsDecided, Answers
    <3>8. CASE Decides(r, q, call[c], call'[c], c)
      BY <2>2, <2>3, <2>4, <3>8 DEF Decides, IsDecided, Answers
    <3>9. CASE ComesLate(r, q, call[c], call'[c], c)
      BY <2>2, <2>4, <3>9 DEF ComesLate, Answers
    <3> QED
      BY <3>1, <3>2, <3>3, <3>4, <3>5, <3>6, <3>7, <3>8, <3>9 DEF Outcome
  <2>6. ASSUME NEW t \in Sessions
        PROVE  row'[t].decision.no <= row'[t].evaluations /\ (row'[t].due => t = "expiring")
    <3>1. CASE t = s
      BY <2>1, <2>5, <3>1 DEF Serves, TalkInv, Counted, q
    <3>2. CASE t # s
      BY <3>2 DEF Serves, TalkInv, Counted
    <3> QED
      BY <3>1, <3>2
  <2>7. ASSUME NEW d \in Callers, call'[d].stage = "answered", call'[d].status = 200
        PROVE  call'[d].decision.no <= row'[call'[d].session].evaluations
    <3>1. CASE d = c
      BY <2>5, <2>7, <3>1 DEF Serves, q
    <3>2. CASE d # c
      <4>1. call'[d] = call[d]
        BY <3>2 DEF Serves
      <4>2. call[d].session \in Sessions /\ call[d].decision.no <= row[call[d].session].evaluations
        BY <2>7, <4>1, Partners DEF TalkInv, Counted
      <4>3. CASE call[d].session = s
        <5>1. call[d].decision.no \in Nat
          BY DEF TalkInv, SessionsTypes, Calls, Decisions
        <5> QED
          BY <2>2, <2>5, <4>1, <4>2, <4>3, <5>1 DEF r, q
      <4>4. CASE call[d].session # s
        BY <4>1, <4>2, <4>4 DEF Serves
      <4> QED
        BY <4>3, <4>4
    <3> QED
      BY <3>1, <3>2
  <2> QED
    BY <2>6, <2>7 DEF Counted
<1> QED
  BY <1>1, <1>2, <1>3 DEF TalkInv

-----------------------------------------------------------------------------
(* A service without a defect: its own steps. *)

\* What a request is about, from where the gate stands.
LEMMA Topic ==
    ASSUME Conversation, NEW c \in Callers, call[c].stage # "idle"
    PROVE  /\ at \in Asking
           /\ at = 3 => call[c].session = "malformed" /\ call[c].of = "b"
           /\ at \in {7, 11} => call[c].session = "main" /\ call[c].of = "a"
           /\ at = 12 => call[c].session = "main" /\ call[c].of = "b"
           /\ at = 16 => call[c].session = "expiring" /\ call[c].of = "a"
           /\ at \in {19, 20} => call[c].session = "same" /\ call[c].of = "a"
           /\ at \in {23, 24, 25} => call[c].session = "different"
           /\ at = 23 => call[c].of = IF c = "first" THEN "a" ELSE "b"
           /\ at = 24 => call[c].of = "a"
           /\ at = 25 => call[c].of = "b"
           /\ at \notin {19, 23} => c = "first"
<1>1. at \in Asking
  BY DEF Conversation, Quiet
<1> QED
  BY <1>1 DEF Conversation, Lone, Both, Asking, Callers

LEMMA NoDefect ==
    ASSUME defects = {}
    PROVE  \A d : ~Has(d)
BY DEF Has

\* Without a defect, a step of the service leaves a contest a contest,
LEMMA ContestGoesOn ==
    ASSUME TalkInv, defects = {}, NEW c \in Callers, Serves(c),
           NEW s, s = call[c].session, Contest(s), ~row[s].due
    PROVE  Contest(s)'
<1> DEFINE r == row[s]  q == row'[s]  k == call[c]  n == call'[c]
<1>1. \A d : ~Has(d)
  BY NoDefect
<1>2. Outcome(r, q, k, n, c)
  BY DEF Serves
<1>3. \A d \in Callers : d # c => call'[d] = call[d]
  BY DEF Serves
<1>4. n.of = k.of /\ k.of \in Presentations /\ None \notin Callers
  BY DEF Serves, None, Callers
<1>5. r.status \in {"pending", "processing", "failed"}
  BY DEF Contest
<1> HIDE DEF r, q, k, n
<1>6. ~Unknown(r, q, k, n) /\ ~Expires(r, q, k, n)
  BY <1>5 DEF Unknown, Expires, r
<1>7. CASE Claims(r, q, k, n, c)
  <2>1. \A d \in Callers : d # c => call'[d].stage \in {"idle", "sent"}
    BY <1>3, <1>7 DEF Contest, Claims, r
  <2>2. n.stage = "claimed" /\ q.status = "processing" /\ q.holder = c /\ q.digest = n.of
    BY <1>1, <1>4, <1>7 DEF Claims
  <2> QED
    BY <2>1, <2>2 DEF Contest, q, n
<1>8. CASE TakesOver(r, q, k, n, c)
  <2>1. \A d \in Callers : d # c => /\ call'[d].stage = "claimed" => call'[d].of = r.digest
                                    /\ call'[d].stage = "answered" => call'[d].status = 409
    BY <1>3, <1>8 DEF Contest, TakesOver, r
  <2>2. /\ n.stage = "claimed" /\ q.status = "processing" /\ q.holder = c
        /\ q.digest = n.of /\ q.digest = r.digest
    BY <1>4, <1>8 DEF TakesOver
  <2> QED
    BY <2>1, <2>2 DEF Contest, q, n
<1>9. CASE Conflicts(r, q, k, n)
  <2>1. /\ n.stage = "answered" /\ n.status = 409 /\ q.status = r.status /\ q.holder = r.holder
        /\ q.digest = r.digest /\ q.kept = r.kept /\ q.decision = r.decision
        /\ k.stage = "sent"
    BY <1>1, <1>9 DEF Conflicts, Answers, Untouched
  <2>2. ASSUME r.status = "processing"
        PROVE  \E e \in Callers : call'[e].stage = "claimed" /\ r.holder = e
    <3>1. PICK e \in Callers : call[e].stage = "claimed" /\ r.holder = e
      BY <2>2 DEF Contest, r
    <3> QED
      BY <1>3, <2>1, <3>1 DEF k
  <2>3. ASSUME r.status = "failed"
        PROVE  \E e \in Callers : Yes(e)'
    <3>1. PICK e \in Callers : Yes(e)
      BY <2>3 DEF Contest, r
    <3>2. e # c
      BY <2>1, <3>1 DEF k, Yes
    <3> QED
      BY <1>3, <3>1, <3>2 DEF Yes
  <2>4. \A d \in Callers : d # c => Yes(d)' = Yes(d) /\ call'[d] = call[d]
    BY <1>3 DEF Yes
  <2>5. ASSUME r.status = "failed"
        PROVE  /\ Clean(q)
               /\ \A d \in Callers : call'[d].stage = "answered" =>
                     call'[d].status = 409
                     \/ (Yes(d)' /\ call'[d].of = q.digest /\ call'[d].decision = q.decision)
    BY <2>1, <2>4, <2>5 DEF Contest, Clean, r, n
  <2>6. r.status = "processing" => \A d \in Callers : call'[d].stage = "answered" => call'[d].status = 409
    BY <2>1, <2>4 DEF Contest, r, n
  <2>7. r.status = "pending" => FALSE
    BY <1>9 DEF Conflicts
  <2>8. \A d \in Callers : call'[d].stage = "claimed" => call'[d].of = q.digest
    BY <1>5, <2>1, <2>4, <2>7 DEF Contest, r, n
  <2>9. Clean(q) => Clean(row[s])'
    BY DEF Clean, q
  <2> QED
    BY <1>5, <2>1, <2>2, <2>3, <2>5, <2>6, <2>7, <2>8, <2>9 DEF Contest, q
<1>10. CASE Repeats(r, q, k, n)
  <2>1. /\ n.stage = "answered" /\ n.status = 200 /\ n.decision = r.decision /\ n.of = r.digest
        /\ q = r /\ r.status = "failed"
    BY <1>1, <1>4, <1>10 DEF Repeats, Answers
  <2>2. \A d \in Callers : d # c => Yes(d)' = Yes(d)
    BY <1>3 DEF Yes
  <2>3. Yes(c)'
    BY <2>1 DEF Yes, n
  <2> QED
    BY <1>3, <2>1, <2>2, <2>3 DEF Contest, Clean, q, n, r
<1>11. CASE Decides(r, q, k, n, c)
  <2>1. r.holder = c /\ k.stage = "claimed" /\ n.stage = "answered" /\ n.status = 200
    BY <1>1, <1>11 DEF Decides, Answers
  <2>2. r.status = "processing"
    BY <1>4, <1>5, <2>1 DEF Contest, Clean, r, k
  <2>3. /\ q.status = "failed" /\ q.holder = None /\ q.decision = n.decision /\ q.decision.of = k.of
        /\ q.kept = {} /\ q.digest = r.digest /\ r.digest = k.of
    BY <1>1, <1>11, <2>1, <2>2 DEF Decides, IsDecided, Decision, Contest, r, k
  <2>4. \A d \in Callers : d # c => /\ call'[d].stage = "claimed" => call'[d].of = r.digest
                                    /\ call'[d].stage = "answered" => call'[d].status = 409
    BY <1>3, <2>2 DEF Contest, r
  <2>5. Yes(c)'
    BY <2>1 DEF Yes, n
  <2> QED
    BY <1>4, <2>1, <2>3, <2>4, <2>5 DEF Contest, Clean, q, n
<1>12. CASE ComesLate(r, q, k, n, c)
  <2>1. /\ k.stage = "claimed" /\ r.holder # c /\ q = r /\ n.stage = "answered"
        /\ n.status = 409 \/ (r.status = "failed" /\ n.status = 200 /\ n.decision = r.decision)
    BY <1>12 DEF ComesLate, Answers
  <2>2. r.status # "pending" /\ k.of = r.digest
    BY <1>5, <2>1 DEF Contest, r, k
  <2>3. ASSUME r.status = "processing"
        PROVE  n.status = 409 /\ \E e \in Callers : call'[e].stage = "claimed" /\ r.holder = e
    <3>1. PICK e \in Callers : call[e].stage = "claimed" /\ r.holder = e
      BY <2>3 DEF Contest, r
    <3> QED
      BY <1>3, <2>1, <2>3, <3>1
  <2>4. ASSUME r.status = "failed"
        PROVE  \E e \in Callers : Yes(e)'
    <3>1. PICK e \in Callers : Yes(e)
      BY <2>4 DEF Contest, r
    <3>2. e # c
      BY <2>1, <3>1 DEF k, Yes
    <3> QED
      BY <1>3, <3>1, <3>2 DEF Yes
  <2>5. \A d \in Callers : d # c => Yes(d)' = Yes(d)
    BY <1>3 DEF Yes
  <2>6. n.status = 200 => Yes(c)'
    BY <2>1 DEF Yes, n
  <2> QED
    BY <1>3, <1>4, <1>5, <2>1, <2>2, <2>3, <2>4, <2>5, <2>6 DEF Contest, Clean, q, n, r
<1> QED
  BY <1>2, <1>6, <1>7, <1>8, <1>9, <1>10, <1>11, <1>12 DEF Outcome

\* and a decision as it is.
LEMMA SteadyGoesOn ==
    ASSUME TalkInv, defects = {}, NEW c \in Callers, Serves(c),
           NEW s, s = call[c].session, Steady(s), ~row[s].due
    PROVE  Steady(s)' /\ row'[s].digest = row[s].digest
<1> DEFINE r == row[s]  q == row'[s]  k == call[c]  n == call'[c]
<1>1. \A d : ~Has(d)
  BY NoDefect
<1>2. Outcome(r, q, k, n, c) /\ frozen' = frozen
  BY DEF Serves, gateVars
<1>3. \A d \in Callers : d # c => call'[d] = call[d] /\ Yes(d)' = Yes(d)
  BY DEF Serves, Yes
<1>4. n.of = k.of
  BY DEF Serves
<1>5. r.status = "failed" /\ k.stage # "claimed" /\ ~r.due /\ r.decision = frozen
  BY DEF Steady
<1> HIDE DEF r, q, k, n
<1>6. Conflicts(r, q, k, n) \/ Repeats(r, q, k, n)
  BY <1>2, <1>5 DEF Outcome, Unknown, Expires, Claims, TakesOver, Decides, ComesLate
<1>7. CASE Conflicts(r, q, k, n)
  <2>1. /\ n.stage = "answered" /\ n.status = 409 /\ q.status = r.status /\ q.holder = r.holder
        /\ q.digest = r.digest /\ q.kept = r.kept /\ q.decision = r.decision /\ r.digest # k.of
    BY <1>1, <1>5, <1>7 DEF Conflicts, Answers, Untouched
  <2> QED
    BY <1>2, <1>3, <1>4, <2>1 DEF Steady, Clean, q, n, r
<1>8. CASE Repeats(r, q, k, n)
  <2>1. /\ n.stage = "answered" /\ n.status = 200 /\ n.decision = r.decision /\ q = r /\ r.digest = k.of
    BY <1>1, <1>8 DEF Repeats, Answers
  <2>2. Yes(c)'
    BY <2>1 DEF Yes, n
  <2> QED
    BY <1>2, <1>3, <1>4, <1>5, <2>1, <2>2 DEF Steady, Clean, q, n, r
<1> QED
  BY <1>6, <1>7, <1>8

LEMMA ServiceSound ==
    ASSUME TalkInv, SoundInv, NEW c \in Callers, Serves(c)
    PROVE  SoundInv'
<1> SUFFICES ASSUME defects = {} PROVE verdict' # "refused" /\ SoundPlaces'
  BY DEF SoundInv, Serves
<1>1. UNCHANGED <<at, won, verdict, frozen, resolver>> /\ verdict # "refused" /\ SoundPlaces
  BY DEF Serves, gateVars, SoundInv
<1>2. PICK s \in Sessions : s = call[c].session
  BY DEF Serves
<1>3. Conversation /\ call[c].stage # "idle" /\ \A t \in Sessions : row[t].due => t = "expiring"
  BY DEF TalkInv, Counted, Serves
<1>4. /\ Contest(s) /\ ~row[s].due => Contest(s)'
      /\ Steady(s) /\ ~row[s].due => Steady(s)' /\ row'[s].digest = row[s].digest
  BY <1>2, ContestGoesOn, SteadyGoesOn
<1>5. /\ at \in {3, 7, 11, 12, 16, 19, 20, 23, 24, 25}
      /\ at = 3 => s = "malformed"
      /\ at \in {7, 11, 12} => s = "main"
      /\ at = 16 => s = "expiring" /\ c = "first"
      /\ at \in {19, 20} => s = "same"
      /\ at \in {23, 24, 25} => s = "different"
  BY <1>2, <1>3, Topic DEF Asking
<1>6. CASE at = 3
  <2>1. s = "malformed" /\ Contest("malformed")
    BY <1>1, <1>5, <1>6 DEF SoundPlaces
  <2>2. Contest("malformed")'
    BY <1>3, <1>4, <2>1
  <2> QED
    BY <1>1, <1>6, <2>2 DEF SoundPlaces
<1>7. CASE at = 7
  <2>1. s = "main" /\ Contest("main")
    BY <1>1, <1>5, <1>7 DEF SoundPlaces
  <2>2. Contest("main")'
    BY <1>3, <1>4, <2>1
  <2> QED
    BY <1>1, <1>7, <2>2 DEF SoundPlaces
<1>8. CASE at \in {11, 12}
  <2>1. s = "main" /\ Steady("main") /\ row["main"].digest = "a"
    BY <1>1, <1>5, <1>8 DEF SoundPlaces
  <2>2. Steady("main")' /\ row'["main"].digest = row["main"].digest
    BY <1>3, <1>4, <2>1
  <2> QED
    BY <1>1, <1>8, <2>1, <2>2 DEF SoundPlaces
<1>9. CASE at = 16
  <2>1. s = "expiring" /\ c = "first"
    BY <1>5, <1>9
  <2> DEFINE r == row[s]  q == row'[s]  k == call[c]  n == call'[c]
  <2>2. k.stage = "sent" /\ r = [Pending EXCEPT !.due = TRUE]
    BY <1>1, <1>3, <1>9, <2>1 DEF SoundPlaces, Expiring, Serves
  <2>3. r.status = "pending" /\ r.digest = None /\ r.holder = None /\ r.due
    BY <2>2 DEF Pending, Absent
  <2>4. \A d : ~Has(d)
    BY NoDefect
  <2>5. Outcome(r, q, k, n, c)
    BY <1>2 DEF Serves
  <2> HIDE DEF r, q, k, n
  <2>6. Expires(r, q, k, n)
    BY <2>2, <2>3, <2>4, <2>5
       DEF Outcome, Unknown, Claims, TakesOver, Conflicts, Repeats, Decides, ComesLate
  <2>7. Expiring("expiring")'
    BY <2>1, <2>3, <2>6 DEF Expires, Expiring, Answers, Lapsed, q, n
  <2> QED
    BY <1>1, <1>9, <2>7 DEF SoundPlaces
<1>10. CASE at = 19
  <2>1. s = "same" /\ Contest("same")
    BY <1>1, <1>5, <1>10 DEF SoundPlaces
  <2>2. Contest("same")'
    BY <1>3, <1>4, <2>1
  <2> QED
    BY <1>1, <1>10, <2>2 DEF SoundPlaces
<1>11. CASE at = 20
  <2>1. s = "same" /\ Steady("same") /\ row["same"].digest = "a"
    BY <1>1, <1>5, <1>11 DEF SoundPlaces
  <2>2. Steady("same")' /\ row'["same"].digest = row["same"].digest
    BY <1>3, <1>4, <2>1
  <2> QED
    BY <1>1, <1>11, <2>1, <2>2 DEF SoundPlaces
<1>12. CASE at = 23
  <2>1. s = "different" /\ Contest("different")
    BY <1>1, <1>5, <1>12 DEF SoundPlaces
  <2>2. Contest("different")'
    BY <1>3, <1>4, <2>1
  <2> QED
    BY <1>1, <1>12, <2>2 DEF SoundPlaces
<1>13. CASE at \in {24, 25}
  <2>1. s = "different" /\ Steady("different") /\ row["different"].digest \in Presentations
    BY <1>1, <1>5, <1>13 DEF SoundPlaces
  <2>2. Steady("different")' /\ row'["different"].digest = row["different"].digest
    BY <1>3, <1>4, <2>1
  <2> QED
    BY <1>1, <1>13, <2>1, <2>2 DEF SoundPlaces
<1> QED
  BY <1>5, <1>6, <1>7, <1>8, <1>9, <1>10, <1>11, <1>12, <1>13

-----------------------------------------------------------------------------
(* A service with any of the defects: its own steps. *)

\* A settled row that is asked again by the only caller there is.
LEMMA AskedAgain ==
    ASSUME TalkInv, NEW s \in Sessions, s = call["first"].session, Serves("first"),
           row[s].status = "failed", ~row[s].due, call["first"].stage = "sent", frozen.no <= row[s].evaluations
    PROVE  /\ call'["first"].stage = "answered" /\ row'[s].status = "failed"
           /\ \/ NotFrozen' /\ row[s].digest = call["first"].of
              \/ /\ row'[s].decision = row[s].decision /\ row'[s].evaluations = row[s].evaluations
                 /\ \/ /\ row[s].digest # call["first"].of /\ call'["first"].status = 409
                       /\ row'[s].kept = IF Has("keepsRefused") THEN row[s].kept \cup {call["first"].of}
                                                                ELSE row[s].kept
                    \/ /\ row[s].digest = call["first"].of /\ call'["first"].status = 200 /\ row'[s] = row[s]
<1> DEFINE r == row[s]  q == row'[s]  k == call["first"]  n == call'["first"]
<1>1. Outcome(r, q, k, n, "first") /\ frozen' = frozen
  BY DEF Serves, gateVars
<1>2. r.evaluations \in Nat /\ frozen.no \in Nat
  BY DEF TalkInv, SessionsTypes, Rows, Decisions
<1>3. Decision(r, k.of).no = r.evaluations + 1
  BY DEF Decision
<1> HIDE DEF r, q, k, n
<1>4. Conflicts(r, q, k, n) \/ Repeats(r, q, k, n)
  BY <1>1 DEF Outcome, Unknown, Expires, Claims, TakesOver, Decides, ComesLate, r, k
<1>5. CASE Conflicts(r, q, k, n)
  <2>1. /\ n.stage = "answered" /\ n.status = 409 /\ q.status = r.status /\ q.decision = r.decision
        /\ q.evaluations = r.evaluations
        /\ q.kept = IF Has("keepsRefused") THEN r.kept \cup {k.of} ELSE r.kept
        /\ r.status = "processing" \/ r.digest # k.of
    BY <1>5 DEF Conflicts, Answers, Untouched
  <2> QED
    BY <2>1 DEF q, n, r, k
<1>6. CASE Repeats(r, q, k, n)
  <2>1. n.stage = "answered" /\ n.status = 200 /\ r.status = "failed" /\ r.digest = k.of
    BY <1>6 DEF Repeats, Answers
  <2>2. CASE Has("reevaluates")
    <3>1. n.decision = Decision(r, k.of) /\ q.status = "failed"
      BY <1>6, <2>2 DEF Repeats, IsDecided
    <3>2. n.decision # frozen
      BY <1>2, <1>3, <3>1 DEF r
    <3> QED
      BY <1>1, <2>1, <3>1, <3>2 DEF NotFrozen, Yes, q, n, r, k
  <2>3. CASE ~Has("reevaluates")
    <3>1. q = r
      BY <1>6, <2>3 DEF Repeats
    <3> QED
      BY <2>1, <3>1 DEF q, n, r, k
  <2> QED
    BY <2>2, <2>3
<1> QED
  BY <1>4, <1>5, <1>6

\* A race for different presentations.
LEMMA RaceGoesOn ==
    ASSUME TalkInv, Race, at = 23, NEW c \in Callers, Serves(c)
    PROVE  Race'
<1> DEFINE s == "different"  r == row[s]  q == row'[s]  k == call[c]  n == call'[c]
<1>1. /\ call[c].session = s /\ call[c].stage # "idle" /\ ~r.due
      /\ \A d \in Callers : d # c => call[d].of # call[c].of /\ call[d].stage # "idle"
      /\ "first" \in Callers
  <2>1. call[c].stage # "idle"
    BY DEF Serves
  <2>2. \A d \in Callers : call[d].stage # "idle"
    BY <2>1 DEF TalkInv, Conversation, Both, Callers
  <2>3. s \in Sessions
    BY DEF Sessions
  <2> QED
    BY <2>1, <2>2, <2>3, Topic DEF TalkInv, Counted, Callers
<1>2. Outcome(r, q, k, n, c) /\ UNCHANGED <<at, won, defects>> /\ n.of = k.of
  BY <1>1 DEF Serves, gateVars
<1>3. \A d \in Callers : d # c => call'[d] = call[d] /\ Yes(d)' = Yes(d)
  BY DEF Serves, Yes
<1>4. n.stage \in {"claimed", "answered"}
  BY Replied
<1>5. \A d : Has(d)' = Has(d)
  BY <1>2 DEF Has
<1>6. \A d \in Callers :
        /\ call[d].stage = "sent" => r.digest # call[d].of
        /\ call[d].stage = "claimed" /\ ~Has("unclaimed") => r.status = "processing" /\ r.holder = d
        /\ Yes(d) => /\ r.status = "failed" /\ call[d].decision.of = call[d].of
                     /\ r.decision = call[d].decision \/ \A e \in Callers : Yes(e)
  BY DEF Race
<1>7. call'["first"].stage # "idle"
  BY <1>1, <1>3, <1>4
<1>8. Decision(r, k.of).of = k.of
  BY DEF Decision
<1> HIDE DEF r, q, k, n
<1>9. SUFFICES \A d \in Callers :
        /\ call'[d].stage = "sent" => q.digest # call'[d].of
        /\ call'[d].stage = "claimed" /\ ~Has("unclaimed") => q.status = "processing" /\ q.holder = d
        /\ Yes(d)' => /\ q.status = "failed" /\ call'[d].decision.of = call'[d].of
                      /\ q.decision = call'[d].decision \/ \A e \in Callers : Yes(e)'
  BY <1>2, <1>5, <1>7 DEF Race, q
<1>10. SUFFICES ASSUME NEW d \in Callers
                PROVE  /\ call'[d].stage = "sent" => q.digest # call'[d].of
                       /\ call'[d].stage = "claimed" /\ ~Has("unclaimed") => q.status = "processing" /\ q.holder = d
                       /\ Yes(d)' => /\ q.status = "failed" /\ call'[d].decision.of = call'[d].of
                                     /\ q.decision = call'[d].decision \/ \A e \in Callers : Yes(e)'
  OBVIOUS
<1>11. CASE Unknown(r, q, k, n)
  <2>1. q = r /\ n.stage = "answered" /\ n.status # 200 /\ k.stage = "sent"
    BY <1>11 DEF Unknown, Answers
  <2>2. ~Yes(c)' /\ ~Yes(c)
    BY <2>1 DEF Yes, n, k
  <2> QED
    BY <1>3, <1>6, <2>1, <2>2 DEF n
<1>12. CASE Expires(r, q, k, n)
  BY <1>1, <1>12 DEF Expires
<1>13. CASE Claims(r, q, k, n, c)
  <2>1. /\ k.stage = "sent" /\ n.stage = "claimed" /\ r.status = "pending"
        /\ IF Has("unclaimed") THEN q = r ELSE q.status = "processing" /\ q.digest = k.of /\ q.holder = c
    BY <1>13 DEF Claims
  <2>2. \A e \in Callers : ~Yes(e) /\ ~Yes(e)'
    BY <1>3, <1>6, <2>1 DEF Yes, n, k
  <2>3. \A e \in Callers : call[e].stage = "claimed" => Has("unclaimed")
    BY <1>6, <2>1
  <2> QED
    BY <1>1, <1>3, <1>6, <2>1, <2>2, <2>3 DEF n, k
<1>14. CASE TakesOver(r, q, k, n, c)
  BY <1>6, <1>14 DEF TakesOver, k
<1>15. CASE Conflicts(r, q, k, n)
  <2>1. /\ k.stage = "sent" /\ n.stage = "answered" /\ n.status # 200
        /\ q.status = r.status /\ q.holder = r.holder /\ q.decision = r.decision
        /\ q.digest \in {r.digest, k.of}
    BY <1>15 DEF Conflicts, Answers, Untouched
  <2>2. ~Yes(c)' /\ ~Yes(c)
    BY <2>1 DEF Yes, n, k
  <2> QED
    BY <1>1, <1>3, <1>6, <2>1, <2>2 DEF n, k
<1>16. CASE Repeats(r, q, k, n)
  BY <1>6, <1>16 DEF Repeats, k
<1>17. CASE Decides(r, q, k, n, c)
  <2>1. /\ k.stage = "claimed" /\ n.stage = "answered" /\ n.status = 200
        /\ n.decision = Decision(r, k.of) /\ q.decision = Decision(r, k.of) /\ q.status = "failed"
        /\ q.digest = IF Has("unclaimed") THEN k.of ELSE r.digest
    BY <1>17 DEF Decides, IsDecided, Answers
  <2>2. Yes(c)'
    BY <2>1 DEF Yes, n
  <2>3. \A e \in Callers : e # c => (call[e].stage = "claimed" => Has("unclaimed"))
    BY <1>6, <2>1 DEF k
  <2>4. CASE d = c
    BY <1>2, <1>8, <2>1, <2>2, <2>4 DEF n
  <2>5. CASE d # c
    <3>1. Yes(d)' => \A e \in Callers : Yes(e)'
      BY <1>3, <2>2, <2>5 DEF Callers
    <3>2. Yes(d)' => call[d].decision.of = call[d].of
      BY <1>3, <1>6, <2>5
    <3> QED
      BY <1>1, <1>3, <1>6, <2>1, <2>3, <2>5, <3>1, <3>2 DEF k
  <2> QED
    BY <2>4, <2>5
<1>18. CASE ComesLate(r, q, k, n, c)
  BY <1>6, <1>18 DEF ComesLate, k
<1> QED
  BY <1>2, <1>11, <1>12, <1>13, <1>14, <1>15, <1>16, <1>17, <1>18 DEF Outcome

LEMMA ServicePass ==
    ASSUME TalkInv, PassInv, NEW c \in Callers, Serves(c)
    PROVE  PassInv'
<1>1. UNCHANGED <<at, won, verdict, frozen, resolver, heard, defects>>
  BY DEF Serves, gateVars
<1> SUFFICES ASSUME verdict # "refused"
             PROVE  Accounts' /\ MainRow' /\ Race' /\ Retries' /\ Emptied'
  BY <1>1 DEF PassInv
<1>2. Accounts /\ MainRow /\ Race /\ Retries /\ Emptied
  BY DEF PassInv
<1>3. PICK s \in Sessions : s = call[c].session
  BY DEF Serves
<1>4. /\ at \in {3, 7, 11, 12, 16, 19, 20, 23, 24, 25}
      /\ at = 3 <=> s = "malformed"
      /\ at \in {7, 11, 12} <=> s = "main"
      /\ at = 16 <=> s = "expiring"
      /\ at \in {19, 20} <=> s = "same"
      /\ at \in {23, 24, 25} <=> s = "different"
      /\ at \notin {19, 23} => c = "first"
      /\ at = 11 => call[c].of = "a"
      /\ at = 12 => call[c].of = "b"
  <2>1. Conversation /\ call[c].stage # "idle"
    BY DEF TalkInv, Serves
  <2> QED
    BY <1>3, <2>1, Topic DEF Asking
<1>5. \A t \in Sessions : t # s => row'[t] = row[t]
  BY <1>3 DEF Serves
<1>6. \A d : Has(d)' = Has(d)
  BY <1>1 DEF Has
<1>7. Accounts'
  BY <1>1, <1>2 DEF Accounts, One, Same
<1>8. Emptied'
  <2>1. /\ at >= 5 => row'["malformed"] = row["malformed"]
        /\ at >= 18 => row'["expiring"] = row["expiring"]
        /\ at >= 22 => row'["same"] = row["same"]
        /\ ~(at >= 27)
    BY <1>4, <1>5 DEF Sessions
  <2> QED
    BY <1>1, <1>2, <2>1 DEF Emptied
<1>9. Race'
  <2>1. CASE at = 23
    BY <1>2, <2>1, RaceGoesOn
  <2>2. CASE at # 23
    BY <1>1, <2>2 DEF Race
  <2> QED
    BY <2>1, <2>2
<1>10. MainRow'
  <2>1. CASE at \in {11, 12}
    <3>1. s = "main" /\ c = "first" /\ call["first"].stage = "sent"
      BY <1>2, <1>4, <2>1 DEF MainRow, Serves
    <3>2. ~NotFrozen
      BY <3>1 DEF NotFrozen, Yes
    <3>3. HeldMain
      BY <1>2, <2>1, <3>1, <3>2 DEF MainRow
    <3>4. ~row["main"].due
      BY <1>3, <3>1 DEF TalkInv, Counted
    <3>5. /\ call'["first"].stage = "answered" /\ row'["main"].status = "failed"
          /\ \/ NotFrozen' /\ row["main"].digest = call["first"].of
             \/ /\ row'["main"].decision = row["main"].decision
                /\ row'["main"].evaluations = row["main"].evaluations
                /\ \/ /\ row["main"].digest # call["first"].of /\ call'["first"].status = 409
                      /\ row'["main"].kept = IF Has("keepsRefused") THEN row["main"].kept \cup {call["first"].of}
                                                                    ELSE row["main"].kept
                   \/ /\ row["main"].digest = call["first"].of /\ call'["first"].status = 200
                      /\ row'["main"] = row["main"]
      <4>1. /\ "main" \in Sessions /\ "main" = call["first"].session /\ Serves("first")
            /\ row["main"].status = "failed" /\ frozen.no <= row["main"].evaluations
        BY <1>3, <3>1, <3>3 DEF HeldMain
      <4> QED
        BY <3>1, <3>4, <4>1, AskedAgain
    <3>6. CASE at = 11
      <4>1. NotFrozen' \/ HeldMain'
        BY <1>1, <1>4, <3>1, <3>3, <3>5, <3>6 DEF HeldMain
      <4> QED
        BY <1>1, <3>5, <3>6, <4>1 DEF MainRow
    <3>7. CASE at = 12
      <4>1. row'["main"].kept = {} \/ Has("keepsRefused")
        BY <1>4, <3>1, <3>3, <3>5, <3>7 DEF HeldMain
      <4> QED
        BY <1>1, <1>6, <3>5, <3>7, <4>1 DEF MainRow
    <3> QED
      BY <2>1, <3>6, <3>7
  <2>2. CASE at \notin {11, 12}
    <3>1. at \notin {8, 9, 10} /\ (at >= 13 => row'["main"] = row["main"])
      BY <1>4, <1>5, <2>2 DEF Sessions
    <3> QED
      BY <1>1, <1>2, <1>6, <2>2, <3>1 DEF MainRow
  <2> QED
    BY <2>1, <2>2
<1>11. Retries'
  <2>1. CASE at \in {24, 25}
    <3>1. s = "different" /\ c = "first" /\ call["first"].stage = "sent" /\ row["different"].status = "failed"
      BY <1>2, <1>4, <2>1 DEF Retries, Serves
    <3>2. ~NotFrozen
      BY <3>1 DEF NotFrozen, Yes
    <3>3. row["different"].decision = frozen /\ (at = 25 => "a" \in won \/ Traced)
      BY <1>2, <2>1, <3>1, <3>2 DEF Retries
    <3>4. ~row["different"].due /\ frozen.no <= row["different"].evaluations
      BY <1>3, <3>1, <3>3 DEF TalkInv, Counted
    <3>5. /\ call'["first"].stage = "answered" /\ row'["different"].status = "failed"
          /\ \/ NotFrozen'
             \/ /\ row'["different"].decision = row["different"].decision
                /\ \/ /\ call'["first"].status = 409
                      /\ row'["different"].kept =
                            IF Has("keepsRefused") THEN row["different"].kept \cup {call["first"].of}
                                                   ELSE row["different"].kept
                   \/ call'["first"].status = 200 /\ row'["different"] = row["different"]
      BY <1>3, <3>1, <3>4, AskedAgain, ZenonT(30)
    <3>6. \/ NotFrozen'
          \/ /\ row'["different"].decision = frozen
             /\ call'["first"].status # 200 => Traced'
             /\ at = 25 => "a" \in won \/ Traced'
      BY <1>6, <3>3, <3>5 DEF Traced
    <3> QED
      BY <1>1, <1>2, <2>1, <3>5, <3>6 DEF Retries
  <2>2. CASE at \notin {24, 25}
    <3>1. at \notin 24..26 /\ ~(at >= 27)
      BY <1>4, <2>2
    <3> QED
      BY <1>1, <3>1 DEF Retries
  <2> QED
    BY <2>1, <2>2
<1> QED
  BY <1>7, <1>8, <1>9, <1>10, <1>11

-----------------------------------------------------------------------------
(* What a step of the gate does.                                            *)

Moves == at' = at + 1 /\ verdict' = IF at = 34 THEN "passed" ELSE None

\* The steps in which the gate only looks at what is there, and what it wants
\* to see.
Looking == {1, 4, 6, 8, 10, 13, 17, 21, 26, 27, 28, 29, 30, 31, 32, 33, 34}
Seen ==
    /\ at = 4 => Minimized(row["malformed"], "b")
    /\ at = 6 => row["main"].status = "pending"
    /\ at = 8 => Minimized(row["main"], "a")
    /\ at = 10 => row["main"].status = "failed"
    /\ at = 17 => Lapsed("expiring")
    /\ at = 21 => Minimized(row["same"], "a")
    /\ at = 26 => \E p \in Presentations : won = {p} /\ Minimized(row["different"], p)
Looks ==
    /\ verdict = None /\ at \in Looking
    /\ \/ Seen /\ Moves
       \/ /\ Seen => at >= 30 /\ ~(defects = {} /\ resolver.usable)
          /\ at' = at /\ verdict' = "refused"
    /\ resolver' \in [usable : BOOLEAN, asked : Nat] /\ (resolver.usable => resolver'.usable)
    /\ UNCHANGED <<defects, row, call, frozen, won, heard>>

\* The seven actions that only look.
LEMMA Looked ==
    ASSUME SessionsTypes,
           \/ Refusals \/ Reload \/ InspectRow \/ InspectWinnersRow \/ InspectExpiredRow
           \/ VerifyDirectly \/ VerifyBarcode
    PROVE  Looks
<1>1. at \in 1..35 /\ resolver \in [usable : BOOLEAN, asked : Nat]
  BY DEF SessionsTypes
<1>2. Len(Script) = 34
  BY <1>1, Places
<1>3. ASSUME Passes PROVE Moves
  BY <1>2, <1>3 DEF Passes, Moves
<1>4. CASE Refusals
  <2>1. at \in {1, 13, 27, 29} /\ Running /\ Passes /\ UNCHANGED <<defects, row, call, resolver, frozen, won, heard>>
    BY <1>1, <1>4, Places DEF Refusals, Doing, serviceVars
  <2> QED
    BY <1>1, <1>3, <2>1 DEF Looks, Looking, Running, Seen
<1>5. CASE Reload
  <2>1. /\ Running /\ UNCHANGED <<defects, row, call, resolver, frozen, won, heard>>
        /\ Judge(row[Now.session].status = Now.of)
        /\ \/ at = 6 /\ Now.session = "main" /\ Now.of = "pending"
           \/ at = 10 /\ Now.session = "main" /\ Now.of = "failed"
    BY <1>1, <1>5, Places DEF Reload, Doing, serviceVars
  <2>2. IF Seen THEN Passes ELSE Refuses
    BY <2>1 DEF Judge, Seen
  <2> QED
    BY <1>1, <1>3, <2>1, <2>2 DEF Looks, Looking, Running, Refuses
<1>6. CASE InspectRow
  <2>1. /\ Running /\ UNCHANGED <<defects, row, call, resolver, frozen, won, heard>>
        /\ Judge(Minimized(row[Now.session], Now.of))
        /\ \/ at = 4 /\ Now.session = "malformed" /\ Now.of = "b"
           \/ at = 8 /\ Now.session = "main" /\ Now.of = "a"
           \/ at = 21 /\ Now.session = "same" /\ Now.of = "a"
    BY <1>1, <1>6, Places DEF InspectRow, Doing, serviceVars
  <2>2. IF Seen THEN Passes ELSE Refuses
    BY <2>1 DEF Judge, Seen
  <2> QED
    BY <1>1, <1>3, <2>1, <2>2 DEF Looks, Looking, Running, Refuses
<1>7. CASE InspectWinnersRow
  <2>1. /\ Running /\ UNCHANGED <<defects, row, call, resolver, frozen, won, heard>>
        /\ Judge(\E p \in Presentations : won = {p} /\ Minimized(row[Now.session], p))
        /\ at = 26 /\ Now.session = "different"
    BY <1>1, <1>7, Places DEF InspectWinnersRow, Doing, serviceVars
  <2>2. IF Seen THEN Passes ELSE Refuses
    BY <2>1 DEF Judge, Seen
  <2> QED
    BY <1>1, <1>3, <2>1, <2>2 DEF Looks, Looking, Running, Refuses
<1>8. CASE InspectExpiredRow
  <2>1. /\ Running /\ UNCHANGED <<defects, row, call, resolver, frozen, won, heard>>
        /\ Judge(/\ row[Now.session].status = "expired" /\ row[Now.session].kept = {}
                 /\ row[Now.session].digest = None /\ row[Now.session].holder = None)
        /\ at = 17 /\ Now.session = "expiring"
    BY <1>1, <1>8, Places DEF InspectExpiredRow, Doing, serviceVars
  <2>2. IF Seen THEN Passes ELSE Refuses
    BY <2>1 DEF Judge, Seen, Lapsed
  <2> QED
    BY <1>1, <1>3, <2>1, <2>2 DEF Looks, Looking, Running, Refuses
<1>9. CASE VerifyDirectly
  <2>1. at = 28 /\ Running /\ Passes /\ UNCHANGED <<defects, row, call, resolver, frozen, won, heard>>
    BY <1>1, <1>9, Places DEF VerifyDirectly, Doing, serviceVars
  <2> QED
    BY <1>1, <1>3, <2>1 DEF Looks, Looking, Running, Seen
<1>10. CASE VerifyBarcode
  <2> DEFINE b == Now.session
             usable == resolver.usable /\ b # "unusable"
             asks == b \in {"unusable", "positive", "tampered"} \/ (b = "untrusted" /\ Has("resolvesAnyone"))
             passes == (b = "positive" /\ usable) \/ (b = "unusable" /\ Has("trustsAnyKey"))
             ok == passes = (b = "positive") /\ (b = "untrusted" => ~asks)
  <2>1. /\ Running /\ UNCHANGED <<defects, row, call, frozen, won, heard>>
        /\ Judge(ok)
        /\ resolver' = [usable |-> TRUE, asked |-> resolver.asked + (IF asks THEN 1 ELSE 0)]
        /\ at \in {30, 31, 32, 33, 34}
    BY <1>1, <1>10, Places DEF VerifyBarcode, Doing, UsableAfter
  <2>2. resolver' \in [usable : BOOLEAN, asked : Nat] /\ resolver'.usable
    BY <1>1, <2>1
  <2>3. defects = {} /\ resolver.usable => ok
    <3>1. defects = {} => ~Has("trustsAnyKey") /\ ~Has("resolvesAnyone")
      BY NoDefect
    <3> QED
      BY <3>1
  <2> HIDE DEF asks, passes, ok
  <2>4. Passes \/ (Refuses /\ ~ok)
    BY <2>1 DEF Judge
  <2>5. Seen /\ at >= 30
    BY <2>1 DEF Seen
  <2> QED
    BY <1>3, <2>1, <2>2, <2>3, <2>4, <2>5 DEF Looks, Looking, Running, Refuses
<1> QED
  BY <1>4, <1>5, <1>6, <1>7, <1>8, <1>9, <1>10

\* Nobody is asking anything.
LEMMA Silence ==
    ASSUME Quiet
    PROVE  Conversation /\ \A c \in Callers : ~Yes(c)
BY DEF Quiet, Conversation, Lone, Both, Callers, Yes

LEMMA LookingTalk ==
    ASSUME TalkInv, Looks
    PROVE  TalkInv' /\ Quiet /\ Quiet'
<1>1. Quiet
  BY DEF TalkInv, Conversation, Looks, Looking, Asking
<1>2. Quiet'
  BY <1>1 DEF Looks, Quiet
<1>3. Conversation'
  BY <1>2 DEF Quiet, Conversation, Lone, Both, Callers
<1>4. Counted'
  BY DEF TalkInv, Counted, Looks
<1>5. SessionsTypes'
  <2>1. /\ at' \in 1..35 /\ verdict' \in {None, "passed", "refused", "lost"}
        /\ (verdict' = "passed") <=> (at' = 35)
    BY DEF TalkInv, SessionsTypes, Looks, Looking, Moves, None
  <2> QED
    BY <2>1 DEF TalkInv, SessionsTypes, Looks
<1> QED
  BY <1>1, <1>2, <1>3, <1>4, <1>5 DEF TalkInv

LEMMA LookingSound ==
    ASSUME TalkInv, SoundInv, Looks
    PROVE  SoundInv'
<1> SUFFICES ASSUME defects = {} PROVE verdict' # "refused" /\ SoundPlaces'
  BY DEF SoundInv, Looks
<1>1. SoundPlaces /\ verdict = None /\ at \in Looking
  BY DEF SoundInv, Looks
<1>2. UNCHANGED <<row, call, frozen, won>> /\ (resolver.usable => resolver'.usable)
  BY DEF Looks
<1>3. Quiet
  BY LookingTalk
<1>4. Seen
  <2>1. /\ at = 4 => Minimized(row["malformed"], "b")
        /\ at = 8 => Minimized(row["main"], "a")
        /\ at = 10 => row["main"].status = "failed"
        /\ at = 21 => Minimized(row["same"], "a")
    BY <1>1 DEF SoundPlaces, Steady, Clean, Minimized
  <2>2. at = 6 => row["main"].status = "pending"
    BY <1>1, <1>3 DEF SoundPlaces, Contest, Quiet, Yes
  <2>3. at = 17 => Lapsed("expiring")
    BY <1>1 DEF SoundPlaces
  <2>4. at = 26 => won = {row["different"].digest} /\ row["different"].digest \in Presentations
                   /\ Minimized(row["different"], row["different"].digest)
    BY <1>1 DEF SoundPlaces, Steady, Clean, Minimized
  <2> QED
    BY <2>1, <2>2, <2>3, <2>4 DEF Seen
<1>5. Moves
  BY <1>1, <1>4 DEF Looks, SoundPlaces
<1>6. verdict' # "refused" /\ at' = at + 1
  BY <1>5 DEF Moves, None
<1>7. /\ Contest("main") => Contest("main")'
      /\ \A s : Steady(s) => Steady(s)'
  BY <1>2 DEF Contest, Steady, Yes, Clean
<1>8. /\ at = 6 => Contest("main")'
      /\ at \in {8, 10} => Steady("main")' /\ row'["main"].digest = "a"
  BY <1>1, <1>2, <1>7 DEF SoundPlaces
<1>9. resolver'.usable
  BY <1>1, <1>2 DEF SoundPlaces
<1>10. at \in {1, 4, 6, 8, 10, 13, 17, 21} \/ at \in 26..34
  BY <1>1 DEF Looking
<1> QED
  BY <1>6, <1>8, <1>9, <1>10 DEF SoundPlaces

LEMMA LookingPass ==
    ASSUME TalkInv, PassInv, Looks
    PROVE  PassInv'
<1> SUFFICES ASSUME verdict' # "refused" PROVE Accounts' /\ MainRow' /\ Race' /\ Retries' /\ Emptied'
  BY DEF PassInv
<1>1. Seen /\ at' = at + 1 /\ verdict = None
  BY DEF Looks, Moves
<1>2. Accounts /\ MainRow /\ Race /\ Retries /\ Emptied
  BY <1>1 DEF PassInv, None
<1>3. UNCHANGED <<defects, row, call, frozen, won, heard>>
  BY DEF Looks
<1>4. Quiet
  BY LookingTalk
<1>5. at \in {1, 4, 6, 8, 10, 13, 17, 21} \/ at \in 26..34
  BY DEF Looks, Looking
<1>6. \A d : Has(d)' = Has(d)
  BY <1>3 DEF Has
<1>7. \A s : One(s)' = One(s)
  BY <1>3 DEF One
<1>8. Accounts'
  <2>1. at = 26 => won = {"a"} \/ won = {"b"}
    BY <1>1 DEF Seen, Presentations
  <2>2. at = 26 => won = {frozen.of}
    BY <1>1, <1>2 DEF Seen, Minimized, Retries
  <2>3. at = 26 => One("different")
    BY <1>2, <2>2 DEF Accounts, One, Same
  <2>4. /\ at \in {8, 9, 10, 11} => heard["main"] \subseteq {Same("a")}
        /\ Same("a")' = Same("a")
    BY <1>2, <1>3 DEF Accounts, Same
  <2> QED
    BY <1>1, <1>2, <1>3, <1>5, <1>7, <2>3, <2>4 DEF Accounts
<1>9. MainRow'
  <2>1. at = 8 => HeldMain'
    BY <1>1, <1>2, <1>3 DEF Seen, Minimized, MainRow, HeldMain
  <2>2. at = 10 => HeldMain'
    BY <1>1, <1>2, <1>3 DEF Seen, MainRow, HeldMain
  <2>3. call'["first"].stage = "idle"
    BY <1>3, <1>4 DEF Quiet, Callers
  <2>4. at >= 13 => row'["main"].kept = {} \/ Has("keepsRefused")'
    BY <1>2, <1>3, <1>6 DEF MainRow
  <2> QED
    BY <1>1, <1>5, <2>1, <2>2, <2>3, <2>4 DEF MainRow
<1>10. Race'
  BY <1>1, <1>5 DEF Race
<1>11. Retries'
  <2>1. at = 26 => ~Has("keepsRefused")
    <3>1. at = 26 => ~({"a", "b"} \subseteq won) /\ row["different"].kept = {}
      BY <1>1 DEF Seen, Minimized, Presentations
    <3> QED
      BY <1>2, <3>1 DEF Retries, Traced
  <2> QED
    BY <1>1, <1>2, <1>5, <1>6, <2>1 DEF Retries
<1>12. Emptied'
  BY <1>1, <1>2, <1>3, <1>5 DEF Emptied, Seen, Minimized, Lapsed
<1> QED
  BY <1>8, <1>9, <1>10, <1>11, <1>12

\* The steps that change the rows behind the service's back, and the two that
\* send requests.
Creates ==
    /\ verdict = None /\ Moves /\ frozen' = NoDecision /\ won' = {}
    /\ \/ at = 2 /\ row' = [row EXCEPT !["malformed"] = Pending]
       \/ at = 5 /\ row' = [row EXCEPT !["main"] = Pending]
       \/ at = 14 /\ row' = [row EXCEPT !["expiring"] = Pending]
       \/ at = 18 /\ row' = [row EXCEPT !["same"] = Pending]
       \/ at = 22 /\ row' = [row EXCEPT !["different"] = Pending]
    /\ UNCHANGED <<defects, call, resolver, heard>>

LEMMA Created ==
    ASSUME SessionsTypes, CreateSession
    PROVE  Creates
<1>1. at \in 1..35
  BY DEF SessionsTypes
<1>2. Len(Script) = 34 /\ Running /\ Moves
  BY <1>1, Places, ZenonT(30) DEF CreateSession, Passes, Moves, Doing
<1>3. \/ at = 2 /\ Now.session = "malformed"
      \/ at = 5 /\ Now.session = "main"
      \/ at = 14 /\ Now.session = "expiring"
      \/ at = 18 /\ Now.session = "same"
      \/ at = 22 /\ Now.session = "different"
  BY <1>1, Places DEF CreateSession
<1> QED
  BY <1>2, <1>3 DEF CreateSession, Creates, Running

\* The rows and requests that the gate begins with.
LEMMA Blank ==
    /\ Absent \in Rows /\ Pending \in Rows /\ Idle \in Calls /\ NoDecision \in Decisions
    /\ Absent.status = "absent" /\ Absent.kept = {} /\ Absent.due = FALSE
    /\ Absent.decision.no = 0 /\ Absent.evaluations = 0
    /\ Pending.status = "pending" /\ Pending.digest = None /\ Pending.due = FALSE
    /\ Pending.decision.no = 0 /\ Pending.evaluations = 0
    /\ Idle.stage = "idle"
<1>1. NoDecision \in Decisions /\ NoDecision.no = 0
  BY DEF NoDecision, Decisions
<1>2. Idle \in Calls /\ Idle.stage = "idle"
  BY <1>1 DEF Idle, Calls
<1>3. {} \in SUBSET (Presentations \cup {"nonce"}) /\ {"nonce"} \in SUBSET (Presentations \cup {"nonce"})
  OBVIOUS
<1>4. /\ Absent \in Rows /\ Absent.status = "absent" /\ Absent.kept = {} /\ Absent.due = FALSE
      /\ Absent.decision = NoDecision /\ Absent.evaluations = 0 /\ Absent.digest = None
  BY <1>1, <1>3 DEF Absent, Rows
<1>5. /\ Pending \in Rows /\ Pending.status = "pending" /\ Pending.digest = Absent.digest
      /\ Pending.due = Absent.due /\ Pending.decision = Absent.decision
      /\ Pending.evaluations = Absent.evaluations
  BY <1>3, <1>4 DEF Pending, Rows
<1> QED
  BY <1>1, <1>2, <1>4, <1>5

LEMMA CreatingTalk ==
    ASSUME TalkInv, Creates
    PROVE  TalkInv' /\ Quiet /\ Quiet'
<1>1. Quiet
  BY DEF TalkInv, Conversation, Creates, Asking
<1>2. Quiet'
  BY <1>1 DEF Creates, Quiet
<1>3. Conversation'
  BY <1>2 DEF Quiet, Conversation, Lone, Both, Callers
<1>4. row' \in [Sessions -> Rows] /\ \A s \in Sessions : row'[s] = row[s] \/ row'[s] = Pending
  BY Blank DEF TalkInv, SessionsTypes, Creates, Sessions
<1>5. Counted'
  <2>1. \A s \in Sessions : row'[s].decision.no <= row'[s].evaluations /\ (row'[s].due => s = "expiring")
    BY <1>4, Blank DEF TalkInv, Counted
  <2> QED
    BY <1>2, <2>1 DEF Counted, Quiet
<1>6. SessionsTypes'
  <2>1. /\ at' \in 1..35 /\ verdict' \in {None, "passed", "refused", "lost"}
        /\ (verdict' = "passed") <=> (at' = 35)
    BY DEF TalkInv, SessionsTypes, Creates, Moves, None
  <2> QED
    BY <1>4, <2>1, Blank DEF TalkInv, SessionsTypes, Creates
<1> QED
  BY <1>1, <1>2, <1>3, <1>5, <1>6 DEF TalkInv

LEMMA CreatingSound ==
    ASSUME TalkInv, SoundInv, Creates
    PROVE  SoundInv'
<1> SUFFICES ASSUME defects = {} PROVE verdict' # "refused" /\ SoundPlaces'
  BY DEF SoundInv, Creates
<1>1. SoundPlaces /\ Quiet'
  BY CreatingTalk DEF SoundInv
<1>2. ASSUME NEW s \in Sessions, row'[s] = Pending PROVE Contest(s)'
  <2>1. row'[s].status = "pending"
    BY <1>2, Blank
  <2> QED
    BY <1>1, <2>1 DEF Contest, Quiet
<1>3. row \in [Sessions -> Rows]
  BY DEF TalkInv, SessionsTypes
<1>4. verdict' # "refused" /\ at' = at + 1
  BY DEF Creates, Moves, None
<1>5. /\ at = 2 => Contest("malformed")'
      /\ at = 5 => Contest("main")'
      /\ at = 14 => row'["expiring"] = Pending
      /\ at = 18 => Contest("same")'
      /\ at = 22 => Contest("different")'
  BY <1>2, <1>3 DEF Creates, Sessions
<1>6. at \in {2, 5, 14, 18, 22} /\ won' = {} /\ resolver' = resolver
  BY DEF Creates
<1> QED
  BY <1>1, <1>4, <1>5, <1>6 DEF SoundPlaces

LEMMA CreatingPass ==
    ASSUME TalkInv, PassInv, Creates
    PROVE  PassInv'
<1> SUFFICES ASSUME verdict' # "refused" PROVE Accounts' /\ MainRow' /\ Race' /\ Retries' /\ Emptied'
  BY DEF PassInv
<1>1. /\ Accounts /\ MainRow /\ Race /\ Retries /\ Emptied
      /\ at' = at + 1 /\ at \in {2, 5, 14, 18, 22} /\ UNCHANGED <<defects, call, heard>> /\ won' = {}
  BY DEF PassInv, None, Creates, Moves
<1>2. Quiet'
  BY CreatingTalk
<1>3. \A d : Has(d)' = Has(d)
  BY <1>1 DEF Has
<1>4. row \in [Sessions -> Rows]
  BY DEF TalkInv, SessionsTypes
<1>5. /\ at \in {14, 18, 22} => row'["main"] = row["main"]
      /\ at >= 5 => row'["malformed"] = row["malformed"]
      /\ at >= 18 => row'["expiring"] = row["expiring"]
      /\ at >= 22 => row'["same"] = row["same"] /\ row'["different"] = Pending
  BY <1>4 DEF Creates, Sessions
<1>6. Accounts'
  BY <1>1 DEF Accounts, One
<1>7. MainRow'
  BY <1>1, <1>3, <1>5 DEF MainRow
<1>8. Race'
  BY <1>1, <1>2, <1>5, Blank DEF Race, Quiet, Yes
<1>9. Retries'
  BY <1>1 DEF Retries
<1>10. Emptied'
  BY <1>1, <1>5 DEF Emptied
<1> QED
  BY <1>6, <1>7, <1>8, <1>9, <1>10

Meddles ==
    /\ verdict = None /\ Moves
    /\ \/ at = 9 /\ (row' = row \/ (Has("forgets") /\ row' = [s \in Sessions |-> Absent]))
       \/ at = 15 /\ row' = [row EXCEPT !["expiring"].due = TRUE]
    /\ UNCHANGED <<defects, call, resolver, frozen, won, heard>>

LEMMA Meddled ==
    ASSUME SessionsTypes, Restart \/ ExpireSession
    PROVE  Meddles
<1>1. at \in 1..35
  BY DEF SessionsTypes
<1>2. Len(Script) = 34 /\ Running /\ Moves
  BY <1>1, Places, ZenonT(30) DEF Restart, ExpireSession, Passes, Moves, Doing
<1>3. CASE Restart
  BY <1>1, <1>2, <1>3, Places DEF Restart, Meddles, Running
<1>4. CASE ExpireSession
  BY <1>1, <1>2, <1>4, Places DEF ExpireSession, Meddles, Running
<1> QED
  BY <1>3, <1>4

LEMMA MeddlingTalk ==
    ASSUME TalkInv, Meddles
    PROVE  TalkInv' /\ Quiet /\ Quiet'
<1>1. Quiet
  BY DEF TalkInv, Conversation, Meddles, Asking
<1>2. Quiet'
  BY <1>1 DEF Meddles, Quiet
<1>3. Conversation'
  BY <1>2 DEF Quiet, Conversation, Lone, Both, Callers
<1>4. /\ row' \in [Sessions -> Rows]
      /\ \A s \in Sessions : \/ row'[s] = row[s] \/ row'[s] = Absent
                             \/ s = "expiring" /\ UNCHANGED <<row[s].decision, row[s].evaluations>>
  <2>1. CASE row' = row
    BY <2>1 DEF TalkInv, SessionsTypes
  <2>2. CASE row' = [s \in Sessions |-> Absent]
    BY <2>2, Blank
  <2>3. CASE row' = [row EXCEPT !["expiring"].due = TRUE]
    <3>1. row["expiring"] \in Rows
      BY DEF TalkInv, SessionsTypes, Sessions
    <3>2. /\ [row["expiring"] EXCEPT !.due = TRUE] \in Rows
          /\ [row["expiring"] EXCEPT !.due = TRUE].decision = row["expiring"].decision
          /\ [row["expiring"] EXCEPT !.due = TRUE].evaluations = row["expiring"].evaluations
      BY <3>1 DEF Rows
    <3> QED
      BY <2>3, <3>2 DEF TalkInv, SessionsTypes
  <2> QED
    BY <2>1, <2>2, <2>3 DEF Meddles
<1>5. Counted'
  <2>1. \A s \in Sessions : row'[s].decision.no <= row'[s].evaluations /\ (row'[s].due => s = "expiring")
    BY <1>4, Blank DEF TalkInv, Counted
  <2> QED
    BY <1>2, <2>1 DEF Counted, Quiet
<1>6. SessionsTypes'
  <2>1. /\ at' \in 1..35 /\ verdict' \in {None, "passed", "refused", "lost"}
        /\ (verdict' = "passed") <=> (at' = 35)
    BY DEF TalkInv, SessionsTypes, Meddles, Moves, None
  <2> QED
    BY <1>4, <2>1 DEF TalkInv, SessionsTypes, Meddles
<1> QED
  BY <1>1, <1>2, <1>3, <1>5, <1>6 DEF TalkInv

LEMMA MeddlingSound ==
    ASSUME TalkInv, SoundInv, Meddles
    PROVE  SoundInv'
<1> SUFFICES ASSUME defects = {} PROVE verdict' # "refused" /\ SoundPlaces'
  BY DEF SoundInv, Meddles
<1>1. SoundPlaces
  BY DEF SoundInv
<1>2. /\ verdict' # "refused" /\ at' = at + 1 /\ at \in {9, 15}
      /\ UNCHANGED <<call, resolver, frozen>>
  BY DEF Meddles, Moves, None
<1>3. at = 9 => Steady("main")' /\ row'["main"].digest = "a"
  <2>1. at = 9 => row' = row
    BY NoDefect DEF Meddles
  <2> QED
    BY <1>1, <1>2, <2>1 DEF SoundPlaces, Steady, Clean, Yes
<1>4. at = 15 => Expiring("expiring")'
  <2>1. at = 15 => row'["expiring"] = [row["expiring"] EXCEPT !.due = TRUE]
    <3>1. row \in [Sessions -> Rows] /\ "expiring" \in Sessions
      BY DEF TalkInv, SessionsTypes, Sessions
    <3>2. at = 15 => row' = [row EXCEPT !["expiring"].due = TRUE]
      BY DEF Meddles
    <3> QED
      BY <3>1, <3>2
  <2>2. call'["first"].stage = "idle"
    BY MeddlingTalk DEF Quiet, Callers
  <2> QED
    BY <1>1, <2>1, <2>2 DEF SoundPlaces, Expiring
<1> QED
  BY <1>1, <1>2, <1>3, <1>4 DEF SoundPlaces

LEMMA MeddlingPass ==
    ASSUME TalkInv, PassInv, Meddles
    PROVE  PassInv'
<1> SUFFICES ASSUME verdict' # "refused" PROVE Accounts' /\ MainRow' /\ Race' /\ Retries' /\ Emptied'
  BY DEF PassInv
<1>1. /\ Accounts /\ MainRow /\ Race /\ Retries /\ Emptied
      /\ at' = at + 1 /\ at \in {9, 15} /\ UNCHANGED <<defects, call, heard, frozen>>
  BY DEF PassInv, None, Meddles, Moves
<1>2. \A d : Has(d)' = Has(d)
  BY <1>1 DEF Has
<1>3. /\ at = 15 => row'["main"] = row["main"] /\ row'["malformed"] = row["malformed"]
      /\ at = 9 => \/ row' = row
                   \/ row'["main"].status = "absent" /\ row'["malformed"].kept = {}
  BY Blank DEF Meddles, TalkInv, SessionsTypes, Sessions
<1>4. Accounts'
  BY <1>1 DEF Accounts, One, Same
<1>5. MainRow'
  BY <1>1, <1>2, <1>3 DEF MainRow, HeldMain
<1>6. Race' /\ Retries'
  BY <1>1 DEF Race, Retries
<1>7. Emptied'
  BY <1>1, <1>3 DEF Emptied
<1> QED
  BY <1>4, <1>5, <1>6, <1>7

Sends ==
    /\ verdict = None /\ Quiet
    /\ call' \in [Callers -> Calls] /\ call'["first"].stage = "sent"
    /\ \A c \in Callers : call'[c].stage \in {"idle", "sent"}
    /\ Conversation'
    /\ UNCHANGED <<defects, row, resolver, gateVars, heard>>

LEMMA SentCall ==
    ASSUME NEW s \in Sessions, NEW p \in Presentations
    PROVE  Sent(s, p) \in Calls /\ Sent(s, p).stage = "sent" /\ Sent(s, p).session = s /\ Sent(s, p).of = p
<1>1. ASSUME NEW x \in Calls
      PROVE  /\ [x EXCEPT !.stage = "sent"] \in Calls /\ [x EXCEPT !.session = s] \in Calls
             /\ [x EXCEPT !.of = p] \in Calls
  BY DEF Calls
<1>2. Sent(s, p) = [[[Idle EXCEPT !.stage = "sent"] EXCEPT !.session = s] EXCEPT !.of = p]
  BY DEF Sent
<1>3. Sent(s, p) \in Calls
  BY <1>1, <1>2, Blank
<1> QED
  BY <1>2, <1>3, Blank DEF Calls

LEMMA Sending ==
    ASSUME SessionsTypes, Submit \/ SubmitInParallel
    PROVE  Sends
<1>1. at \in 1..35 /\ call \in [Callers -> Calls] /\ Callers = {"first", "second"}
  BY DEF SessionsTypes, Callers
<1>2. /\ verdict = None /\ Quiet /\ UNCHANGED <<defects, row, resolver, gateVars, heard>> /\ at' = at
  BY DEF Submit, SubmitInParallel, Doing, Running, gateVars
<1>3. CASE Submit
  <2>1. PICK s \in Sessions, p \in Presentations :
           /\ s = Now.session /\ p = Now.of /\ at \in Asking \ {19, 23}
           /\ at = 3 => s = "malformed" /\ p = "b"
           /\ at \in {7, 11} => s = "main" /\ p = "a"
           /\ at = 12 => s = "main" /\ p = "b"
           /\ at = 16 => s = "expiring" /\ p = "a"
           /\ at = 20 => s = "same" /\ p = "a"
           /\ at = 24 => s = "different" /\ p = "a"
           /\ at = 25 => s = "different" /\ p = "b"
    BY <1>1, <1>3, Places DEF Submit, Sessions, Presentations, Asking
  <2>2. call' = [call EXCEPT !["first"] = Sent(s, p)]
    BY <1>3, <2>1 DEF Submit
  <2> DEFINE n == Sent(s, p)
  <2>3. n \in Calls /\ n.stage = "sent" /\ n.session = s /\ n.of = p
    BY SentCall
  <2> HIDE DEF n
  <2>4. call' \in [Callers -> Calls] /\ call'["first"] = n /\ call'["second"].stage = "idle"
    BY <1>1, <1>2, <2>2, <2>3 DEF n, Quiet
  <2>5. Conversation'
    BY <1>2, <2>1, <2>3, <2>4 DEF Conversation, Lone, Both, Asking
  <2> QED
    BY <1>1, <1>2, <2>3, <2>4, <2>5 DEF Sends
<1>4. CASE SubmitInParallel
  <2>1. PICK s \in Sessions, p \in Presentations, q \in Presentations :
           /\ s = Now.session /\ p = Now.of[1] /\ q = Now.of[2] /\ at \in {19, 23}
           /\ at = 19 => s = "same" /\ p = "a" /\ q = "a"
           /\ at = 23 => s = "different" /\ p = "a" /\ q = "b"
    BY <1>1, <1>4, Places DEF SubmitInParallel, Sessions, Presentations
  <2>2. call' = [c \in Callers |-> IF c = "first" THEN Sent(s, p) ELSE Sent(s, q)]
    BY <1>1, <1>4, <2>1 DEF SubmitInParallel
  <2> DEFINE n == Sent(s, p)  o == Sent(s, q)
  <2>3. /\ n \in Calls /\ n.stage = "sent" /\ n.session = s /\ n.of = p
        /\ o \in Calls /\ o.stage = "sent" /\ o.session = s /\ o.of = q
    BY SentCall
  <2> HIDE DEF n, o
  <2>4. call' \in [Callers -> Calls] /\ call'["first"] = n /\ call'["second"] = o
    BY <1>1, <2>2, <2>3 DEF n, o
  <2>5. Conversation'
    BY <1>2, <2>1, <2>3, <2>4 DEF Conversation, Lone, Both, Asking
  <2> QED
    BY <1>1, <1>2, <2>3, <2>4, <2>5 DEF Sends
<1> QED
  BY <1>3, <1>4

LEMMA SendingTalk ==
    ASSUME TalkInv, Sends
    PROVE  TalkInv'
<1>1. SessionsTypes'
  BY DEF TalkInv, SessionsTypes, Sends, gateVars
<1>2. Counted'
  BY DEF TalkInv, Counted, Sends
<1> QED
  BY <1>1, <1>2 DEF TalkInv, Sends

LEMMA SendingSound ==
    ASSUME TalkInv, SoundInv, Sends
    PROVE  SoundInv'
<1> SUFFICES ASSUME defects = {} PROVE verdict' # "refused" /\ SoundPlaces'
  BY DEF SoundInv, Sends
<1>1. SoundPlaces /\ UNCHANGED <<at, verdict, resolver, row, frozen, won>> /\ verdict # "refused"
  BY DEF SoundInv, Sends, gateVars
<1>2. \A c \in Callers : call[c].stage = "idle" /\ call'[c].stage \in {"idle", "sent"}
  BY DEF Sends, Quiet
<1>3. \A s : Contest(s) => Contest(s)'
  BY <1>1, <1>2 DEF Contest, Yes
<1>4. \A s : Steady(s) => Steady(s)'
  BY <1>1, <1>2 DEF Steady, Clean
<1>5. \A s : Expiring(s) => Expiring(s)'
  BY <1>1, <1>2 DEF Expiring, Callers
<1>6. \A s : Lapsed(s) => Lapsed(s)'
  BY <1>1 DEF Lapsed
<1> QED
  BY <1>1, <1>3, <1>4, <1>5, <1>6 DEF SoundPlaces

LEMMA SendingPass ==
    ASSUME TalkInv, PassInv, Sends
    PROVE  PassInv'
<1> SUFFICES ASSUME verdict # "refused" PROVE Accounts' /\ MainRow' /\ Race' /\ Retries' /\ Emptied'
  BY DEF PassInv, Sends, gateVars
<1>1. /\ Accounts /\ MainRow /\ Race /\ Retries /\ Emptied
      /\ UNCHANGED <<at, verdict, defects, row, frozen, won, heard>>
  BY DEF PassInv, Sends, gateVars
<1>2. /\ \A c \in Callers : call[c].stage = "idle" /\ call'[c].stage \in {"idle", "sent"}
      /\ "first" \in Callers
  BY DEF Sends, Quiet, Callers
<1>3. \A d : Has(d)' = Has(d)
  BY <1>1 DEF Has
<1>4. ~NotFrozen
  BY <1>2 DEF NotFrozen, Yes
<1>5. Accounts'
  BY <1>1 DEF Accounts, One, Same
<1>6. MainRow'
  <2>1. HeldMain' <=> HeldMain
    BY <1>1 DEF HeldMain
  <2> QED
    BY <1>1, <1>2, <1>3, <1>4, <2>1 DEF MainRow
<1>7. Race'
  <2>1. \A c \in Callers : call'[c].stage = "sent" /\ at = 23 => call'[c].of \in Presentations
    <3>1. Conversation'
      BY DEF Sends
    <3> QED
      BY <1>1, <3>1 DEF Conversation, Both, Callers, Presentations
  <2>2. None \notin Presentations /\ call'["first"].stage = "sent"
    BY DEF None, Presentations, Sends
  <2> QED
    BY <1>1, <1>2, <2>1, <2>2 DEF Race, Yes
<1>8. Retries'
  BY <1>1, <1>2, <1>3, <1>4 DEF Retries, Traced
<1>9. Emptied'
  BY <1>1 DEF Emptied
<1> QED
  BY <1>5, <1>6, <1>7, <1>8, <1>9

LEMMA Losing ==
    ASSUME TalkInv, SoundInv, PassInv, Lose
    PROVE  TalkInv' /\ SoundInv' /\ PassInv'
<1>1. UNCHANGED <<defects, row, call, resolver, at, frozen, won, heard>> /\ verdict = None /\ verdict' = "lost"
  BY DEF Lose, Running, serviceVars
<1>2. TalkInv'
  <2>1. SessionsTypes'
    BY <1>1 DEF TalkInv, SessionsTypes, None
  <2>2. Conversation'
    BY <1>1 DEF TalkInv, Conversation, Quiet, Lone, Both
  <2>3. Counted'
    BY <1>1 DEF TalkInv, Counted
  <2> QED
    BY <2>1, <2>2, <2>3 DEF TalkInv
<1>3. SoundInv'
  <2>1. SoundPlaces' <=> SoundPlaces
    BY <1>1 DEF SoundPlaces, Contest, Steady, Expiring, Lapsed, Clean, Yes
  <2> QED
    BY <1>1, <2>1 DEF SoundInv
<1>4. PassInv'
  <2>1. \A d : Has(d)' = Has(d)
    BY <1>1 DEF Has
  <2>2. Accounts /\ MainRow /\ Race /\ Retries /\ Emptied
    BY <1>1 DEF PassInv, None
  <2>3. Accounts'
    BY <1>1, <2>2 DEF Accounts, One, Same
  <2>4. MainRow'
    BY <1>1, <2>1, <2>2 DEF MainRow, HeldMain, NotFrozen, Yes
  <2>5. Race'
    BY <1>1, <2>1, <2>2 DEF Race, Yes
  <2>6. Retries'
    BY <1>1, <2>1, <2>2 DEF Retries, Traced, NotFrozen, Yes
  <2>7. Emptied'
    BY <1>1, <2>2 DEF Emptied
  <2> QED
    BY <2>3, <2>4, <2>5, <2>6, <2>7 DEF PassInv
<1> QED
  BY <1>2, <1>3, <1>4

-----------------------------------------------------------------------------
(* What the gate makes of an answer, and of the two answers of a race.      *)

Fits ==
    LET status == call["first"].status  decision == call["first"].decision IN
    /\ at \in {3, 7} => status = 200
    /\ at = 12 => status = 409
    /\ at = 16 => status = 410
    /\ at \in {11, 20} => status = 200 /\ decision = frozen
    /\ at \in {24, 25} => (status = 200 /\ decision = frozen) \/ status = 409
Refutes == at' = at /\ verdict' = "refused"
Said(c) == [of |-> call[c].of, decision |-> call[c].decision]
Noted(s, answers) ==
    /\ heard'[s] = heard[s] \cup answers
    /\ \A t \in Sessions : t # s => heard'[t] = heard[t]
    /\ heard' \in [Sessions -> SUBSET [of : Presentations \cup {None}, decision : Decisions]]
Hears ==
    /\ verdict = None /\ at \in Asking \ {19, 23} /\ call["first"].stage = "answered"
    /\ call' = [c \in Callers |-> Idle]
    /\ IF Fits THEN Moves ELSE Refutes
    /\ frozen' = IF at \in {3, 7} THEN call["first"].decision ELSE frozen
    /\ won' = IF at \in {24, 25} /\ call["first"].status = 200 THEN won \cup {call["first"].of} ELSE won
    /\ Noted(call["first"].session, IF call["first"].status = 200 THEN {Said("first")} ELSE {})
    /\ UNCHANGED <<defects, row, resolver>>

\* What the gate notes of the answers.
LEMMA Hearing ==
    ASSUME TalkInv, NEW s \in Sessions, s = Now.session, Hear
    PROVE  /\ call' = [c \in Callers |-> Idle]
           /\ Noted(s, {Said(c) : c \in Accepted})
<1>1. heard \in [Sessions -> SUBSET [of : Presentations \cup {None}, decision : Decisions]]
  BY DEF TalkInv, SessionsTypes
<1>2. {Said(c) : c \in Accepted} \in SUBSET [of : Presentations \cup {None}, decision : Decisions]
  <2>1. \A c \in Callers : call[c].of \in Presentations \cup {None} /\ call[c].decision \in Decisions
    BY DEF TalkInv, SessionsTypes, Calls
  <2> QED
    BY <2>1 DEF Accepted, Said
<1>3. heard' = [heard EXCEPT ![s] = @ \cup {Said(c) : c \in Accepted}]
  BY DEF Hear, Said
<1> DEFINE answers == {Said(c) : c \in Accepted}
<1> HIDE DEF answers
<1>4. Noted(s, answers)
  BY <1>1, <1>2, <1>3 DEF Noted, answers
<1> QED
  BY <1>4 DEF Hear, answers

\* The three ways to judge one answer.
LEMMA Heard ==
    ASSUME TalkInv, JudgeSubmission \/ JudgeReplay \/ JudgeRetry
    PROVE  Hears
<1>1. at \in 1..35 /\ Len(Script) = 34
  <2>1. at \in 1..35
    BY DEF TalkInv, SessionsTypes
  <2> QED
    BY <2>1, Places
<1>2. verdict = None /\ call["first"].stage = "answered" /\ Hear /\ UNCHANGED <<defects, row, resolver>>
  <2>1. CASE JudgeSubmission
    BY <2>1 DEF JudgeSubmission, Answered, Doing, Running
  <2>2. CASE JudgeReplay
    BY <2>2 DEF JudgeReplay, Answered, Doing, Running
  <2>3. CASE JudgeRetry
    BY <2>3 DEF JudgeRetry, Answered, Doing, Running
  <2> QED
    BY <2>1, <2>2, <2>3
<1>3. /\ Doing("submit") =>
            \/ at = 3 /\ Now.session = "malformed" /\ Now.of = "b" /\ Now.status = 200
            \/ at = 7 /\ Now.session = "main" /\ Now.of = "a" /\ Now.status = 200
            \/ at = 12 /\ Now.session = "main" /\ Now.of = "b" /\ Now.status = 409
            \/ at = 16 /\ Now.session = "expiring" /\ Now.of = "a" /\ Now.status = 410
      /\ Doing("replay") =>
            \/ at = 11 /\ Now.session = "main" /\ Now.of = "a"
            \/ at = 20 /\ Now.session = "same" /\ Now.of = "a"
      /\ Doing("retry") =>
            \/ at = 24 /\ Now.session = "different" /\ Now.of = "a"
            \/ at = 25 /\ Now.session = "different" /\ Now.of = "b"
  BY <1>1, Places
<1>4. at \in Asking \ {19, 23}
  <2>1. Doing("submit") \/ Doing("replay") \/ Doing("retry")
    BY DEF JudgeSubmission, JudgeReplay, JudgeRetry
  <2> QED
    BY <1>3, <2>1 DEF Asking
<1>5. call["second"].stage = "idle"
  BY <1>4 DEF TalkInv, Conversation, Lone, Asking
<1>6. /\ Accepted = IF call["first"].status = 200 THEN {"first"} ELSE {}
      /\ {Said(c) : c \in Accepted} = IF call["first"].status = 200 THEN {Said("first")} ELSE {}
  <2>1. Accepted = IF call["first"].status = 200 THEN {"first"} ELSE {}
    BY <1>2, <1>5 DEF Accepted, Callers
  <2> QED
    BY <2>1
<1>7. PICK s \in Sessions : s = Now.session /\ s = call["first"].session /\ call["first"].of = Now.of
  <2>1. "first" \in Callers /\ Conversation
    BY DEF Callers, TalkInv
  <2>2. /\ at = 3 => call["first"].session = "malformed" /\ call["first"].of = "b"
        /\ at \in {7, 11} => call["first"].session = "main" /\ call["first"].of = "a"
        /\ at = 12 => call["first"].session = "main" /\ call["first"].of = "b"
        /\ at = 16 => call["first"].session = "expiring" /\ call["first"].of = "a"
        /\ at \in {19, 20} => call["first"].session = "same" /\ call["first"].of = "a"
        /\ at \in {23, 24, 25} => call["first"].session = "different"
        /\ at = 24 => call["first"].of = "a"
        /\ at = 25 => call["first"].of = "b"
    BY <1>2, <2>1, Topic
  <2> QED
    BY <1>3, <2>2, ZenonT(30) DEF JudgeSubmission, JudgeReplay, JudgeRetry, Sessions
<1>8. /\ call' = [c \in Callers |-> Idle]
      /\ Noted(call["first"].session, IF call["first"].status = 200 THEN {Said("first")} ELSE {})
  <2>1. call' = [c \in Callers |-> Idle] /\ Noted(s, {Said(c) : c \in Accepted})
    BY <1>2, <1>7, Hearing
  <2> QED
    BY <1>6, <1>7, <2>1
<1>9. /\ IF Fits THEN Moves ELSE Refutes
      /\ frozen' = IF at \in {3, 7} THEN call["first"].decision ELSE frozen
      /\ won' = IF at \in {24, 25} /\ call["first"].status = 200 THEN won \cup {call["first"].of} ELSE won
  <2>1. CASE JudgeSubmission
    <3>1. /\ Judge(call["first"].status = Now.status) /\ won' = won
          /\ frozen' = IF Now.status = 200 THEN call["first"].decision ELSE frozen
          /\ Doing("submit")
      BY <2>1 DEF JudgeSubmission
    <3>2. (call["first"].status = Now.status) <=> Fits
      BY <1>3, <3>1 DEF Fits
    <3>3. IF Fits THEN Passes ELSE Refuses
      BY <3>1, <3>2 DEF Judge
    <3> QED
      BY <1>1, <1>3, <3>1, <3>3 DEF Passes, Refuses, Moves, Refutes
  <2>2. CASE JudgeReplay
    <3>1. /\ Judge(call["first"].status = 200 /\ call["first"].decision = frozen) /\ won' = won
          /\ frozen' = frozen /\ at \in {11, 20}
      BY <1>3, <2>2 DEF JudgeReplay
    <3>2. (call["first"].status = 200 /\ call["first"].decision = frozen) <=> Fits
      BY <3>1 DEF Fits
    <3>3. IF Fits THEN Passes ELSE Refuses
      BY <3>1, <3>2 DEF Judge
    <3> QED
      BY <1>1, <3>1, <3>3 DEF Passes, Refuses, Moves, Refutes
  <2>3. CASE JudgeRetry
    <3>1. /\ Judge((Accepted # {} /\ call["first"].decision = frozen) \/ call["first"].status = 409)
          /\ won' = IF Accepted # {} THEN won \cup {Now.of} ELSE won
          /\ frozen' = frozen /\ at \in {24, 25}
      BY <1>3, <2>3 DEF JudgeRetry
    <3>2. Accepted # {} <=> call["first"].status = 200
      BY <1>6
    <3>3. ((Accepted # {} /\ call["first"].decision = frozen) \/ call["first"].status = 409) <=> Fits
      BY <3>1, <3>2 DEF Fits
    <3>4. IF Fits THEN Passes ELSE Refuses
      BY <3>1, <3>3 DEF Judge
    <3> QED
      BY <1>1, <1>7, <3>1, <3>2, <3>4 DEF Passes, Refuses, Moves, Refutes
  <2> QED
    BY <2>1, <2>2, <2>3
<1> QED
  BY <1>2, <1>4, <1>8, <1>9 DEF Hears

LEMMA HearingTalk ==
    ASSUME TalkInv, Hears
    PROVE  TalkInv' /\ Quiet'
<1>1. Quiet' /\ call' \in [Callers -> Calls]
  BY Blank DEF Hears, Quiet
<1>2. Conversation'
  BY <1>1 DEF Quiet, Conversation, Lone, Both, Callers
<1>3. Counted'
  BY <1>1 DEF TalkInv, Counted, Hears, Quiet
<1>4. SessionsTypes'
  <2>1. /\ at' \in 1..35 /\ verdict' \in {None, "passed", "refused", "lost"}
        /\ (verdict' = "passed") <=> (at' = 35)
    BY DEF TalkInv, SessionsTypes, Hears, Asking, Moves, Refutes, None
  <2>2. "first" \in Callers /\ call["first"] \in Calls
    BY DEF TalkInv, SessionsTypes, Callers
  <2>3. frozen' \in Decisions
    BY <2>2 DEF TalkInv, SessionsTypes, Hears, Calls
  <2>4. won' \subseteq Presentations
    <3>1. call["first"].of \in Presentations
      BY <2>2, Partners DEF TalkInv, Hears
    <3> QED
      BY <3>1 DEF TalkInv, SessionsTypes, Hears
  <2>5. heard' \in [Sessions -> SUBSET [of : Presentations \cup {None}, decision : Decisions]]
    BY DEF Hears, Noted
  <2> QED
    BY <1>1, <2>1, <2>3, <2>4, <2>5 DEF TalkInv, SessionsTypes, Hears
<1> QED
  BY <1>1, <1>2, <1>3, <1>4 DEF TalkInv

\* A contest that is over is settled: nobody is asking any more.
LEMMA ContestIsOver ==
    ASSUME NEW s, Contest(s), \A c \in Callers : call[c].stage \in {"idle", "answered"}, ~Quiet
    PROVE  /\ row[s].status = "failed" /\ Clean(row[s]) /\ \E c \in Callers : Yes(c)
           /\ \A c \in Callers : call[c].stage = "answered" =>
                 call[c].status = 409 \/ (Yes(c) /\ call[c].of = row[s].digest /\ call[c].decision = row[s].decision)
BY DEF Contest, Quiet

LEMMA HearingSound ==
    ASSUME TalkInv, SoundInv, Hears
    PROVE  SoundInv'
<1> SUFFICES ASSUME defects = {} PROVE verdict' # "refused" /\ SoundPlaces'
  BY DEF SoundInv, Hears
<1>1. SoundPlaces /\ at \in Asking \ {19, 23} /\ call["first"].stage = "answered"
  BY DEF SoundInv, Hears
<1>2. call["second"].stage = "idle" /\ Callers = {"first", "second"}
  BY <1>1 DEF TalkInv, Conversation, Lone, Asking, Callers
<1>3. /\ at = 3 => call["first"].of = "b"
      /\ at \in {7, 11} => call["first"].of = "a"
      /\ at = 12 => call["first"].of = "b"
      /\ at \in {20, 24} => call["first"].of = "a"
      /\ at = 25 => call["first"].of = "b"
  BY <1>1, <1>2, Topic DEF TalkInv
<1>4. /\ row' = row /\ Quiet' /\ resolver' = resolver
      /\ frozen' = IF at \in {3, 7} THEN call["first"].decision ELSE frozen
      /\ won' = IF at \in {24, 25} /\ call["first"].status = 200 THEN won \cup {call["first"].of} ELSE won
  BY HearingTalk DEF Hears
<1>5. ASSUME NEW s, Contest(s)
      PROVE  /\ row[s].status = "failed" /\ Clean(row[s]) /\ Yes("first")
             /\ call["first"].of = row[s].digest /\ call["first"].decision = row[s].decision
  <2>1. \A c \in Callers : call[c].stage \in {"idle", "answered"}
    BY <1>1, <1>2
  <2>2. ~Quiet /\ ~Yes("second")
    BY <1>1, <1>2 DEF Quiet, Yes
  <2>3. /\ row[s].status = "failed" /\ Clean(row[s]) /\ \E c \in Callers : Yes(c)
        /\ \A c \in Callers : call[c].stage = "answered" =>
              call[c].status = 409 \/ (Yes(c) /\ call[c].of = row[s].digest /\ call[c].decision = row[s].decision)
    BY <1>5, <2>1, <2>2, ContestIsOver
  <2> QED
    BY <1>1, <1>2, <2>2, <2>3 DEF Yes
<1>6. ASSUME NEW s, Steady(s)
      PROVE  IF call["first"].of = row[s].digest THEN Yes("first") /\ call["first"].decision = frozen
                                                 ELSE call["first"].status = 409
  BY <1>1, <1>2, <1>6 DEF Steady
<1>7. ASSUME NEW s, Steady(s), frozen' = frozen PROVE Steady(s)'
  BY <1>4, <1>7 DEF Steady, Clean, Quiet
<1>8. ASSUME NEW s, Contest(s), frozen' = call["first"].decision PROVE Steady(s)'
  BY <1>4, <1>5, <1>8 DEF Steady, Clean, Quiet
<1>9. Fits
  <2>1. at \in {3, 7} => call["first"].status = 200
    BY <1>1, <1>5 DEF SoundPlaces, Yes
  <2>2. at \in {11, 20} => call["first"].status = 200 /\ call["first"].decision = frozen
    BY <1>1, <1>3, <1>6 DEF SoundPlaces, Yes
  <2>3. at = 12 => call["first"].status = 409
    BY <1>1, <1>3, <1>6 DEF SoundPlaces
  <2>4. at = 16 => call["first"].status = 410
    BY <1>1 DEF SoundPlaces, Expiring
  <2>5. at \in {24, 25} => \/ call["first"].status = 200 /\ call["first"].decision = frozen
                           \/ call["first"].status = 409
    BY <1>1, <1>6 DEF SoundPlaces, Yes
  <2> QED
    BY <2>1, <2>2, <2>3, <2>4, <2>5 DEF Fits
<1>10. verdict' # "refused" /\ at' = at + 1
  BY <1>9 DEF Hears, Moves, None
<1>11. /\ at = 3 => Steady("malformed")' /\ row'["malformed"].digest = "b"
       /\ at = 7 => Steady("main")' /\ row'["main"].digest = "a"
       /\ at = 11 => Steady("main")' /\ row'["main"].digest = "a"
       /\ at = 16 => Lapsed("expiring")'
       /\ at = 20 => Steady("same")' /\ row'["same"].digest = "a"
  <2>1. at = 3 => Steady("malformed")' /\ row'["malformed"].digest = "b"
    BY <1>1, <1>3, <1>4, <1>5, <1>8 DEF SoundPlaces
  <2>2. at = 7 => Steady("main")' /\ row'["main"].digest = "a"
    BY <1>1, <1>3, <1>4, <1>5, <1>8 DEF SoundPlaces
  <2>3. at = 11 => Steady("main")' /\ row'["main"].digest = "a"
    BY <1>1, <1>4, <1>7 DEF SoundPlaces
  <2>4. at = 16 => Lapsed("expiring")'
    BY <1>1, <1>4 DEF SoundPlaces, Expiring, Lapsed
  <2>5. at = 20 => Steady("same")' /\ row'["same"].digest = "a"
    BY <1>1, <1>4, <1>7 DEF SoundPlaces
  <2> QED
    BY <2>1, <2>2, <2>3, <2>4, <2>5
<1>12. at \in {24, 25} =>
          /\ Steady("different")' /\ row'["different"].digest \in Presentations
          /\ at = 24 => won' = {"a"} \cap {row'["different"].digest}
          /\ at = 25 => won' = {row'["different"].digest}
  <2> SUFFICES ASSUME at \in {24, 25}
               PROVE  /\ Steady("different")' /\ row'["different"].digest \in Presentations
                      /\ at = 24 => won' = {"a"} \cap {row'["different"].digest}
                      /\ at = 25 => won' = {row'["different"].digest}
    OBVIOUS
  <2>1. Steady("different") /\ row["different"].digest \in {"a", "b"}
    BY <1>1 DEF SoundPlaces, Presentations
  <2>2. Steady("different")' /\ row'["different"].digest \in Presentations
    BY <1>4, <1>7, <2>1 DEF Presentations
  <2>3. (call["first"].status = 200) <=> (call["first"].of = row["different"].digest)
    BY <1>6, <2>1 DEF Yes
  <2>4. at = 24 => won = {}
    BY <1>1 DEF SoundPlaces
  <2>5. at = 25 => won = {"a"} \cap {row["different"].digest}
    BY <1>1 DEF SoundPlaces
  <2> QED
    BY <1>3, <1>4, <2>1, <2>2, <2>3, <2>4, <2>5, ZenonT(30)
<1>13. at \in {3, 7, 11, 12, 16, 20, 24, 25} /\ resolver'.usable
  BY <1>1, <1>4 DEF Asking, SoundPlaces
<1> QED
  BY <1>10, <1>11, <1>12, <1>13 DEF SoundPlaces

LEMMA HearingPass ==
    ASSUME TalkInv, PassInv, Hears
    PROVE  PassInv'
<1> SUFFICES ASSUME verdict' # "refused" PROVE Accounts' /\ MainRow' /\ Race' /\ Retries' /\ Emptied'
  BY DEF PassInv
<1>1. /\ Fits /\ at' = at + 1 /\ verdict = None /\ call["first"].stage = "answered"
      /\ UNCHANGED <<defects, row>> /\ at \in {3, 7, 11, 12, 16, 20, 24, 25}
  BY DEF Hears, Moves, Refutes, Asking
<1>2. Accounts /\ MainRow /\ Race /\ Retries /\ Emptied
  BY <1>1 DEF PassInv, None
<1>3. /\ frozen' = IF at \in {3, 7} THEN call["first"].decision ELSE frozen
      /\ won' = IF at \in {24, 25} /\ call["first"].status = 200 THEN won \cup {call["first"].of} ELSE won
  BY DEF Hears
<1>4. \A d : Has(d)' = Has(d)
  BY <1>1 DEF Has
<1>5. Quiet' /\ "first" \in Callers
  BY HearingTalk DEF Callers
<1>6. /\ at = 3 => call["first"].session = "malformed"
      /\ at \in {7, 11} => call["first"].session = "main" /\ call["first"].of = "a"
      /\ at = 12 => call["first"].session = "main"
      /\ at = 16 => call["first"].session = "expiring"
      /\ at = 20 => call["first"].session = "same" /\ call["first"].of = "a"
      /\ at \in {24, 25} => call["first"].session = "different"
      /\ at = 24 => call["first"].of = "a"
      /\ at = 25 => call["first"].of = "b"
  BY <1>1, <1>5, Topic DEF TalkInv
<1>7. NotFrozen => at \in {3, 7, 12, 16}
  BY <1>1 DEF NotFrozen, Yes, Fits
<1>8. Accounts'
  <2>1. Noted(call["first"].session, IF call["first"].status = 200 THEN {Said("first")} ELSE {})
    BY DEF Hears
  <2>2. /\ at # 3 => heard'["malformed"] = heard["malformed"]
        /\ at \notin {7, 11} => heard'["main"] = heard["main"]
        /\ heard'["expiring"] = heard["expiring"]
        /\ at # 20 => heard'["same"] = heard["same"]
        /\ at \notin {24, 25} => heard'["different"] = heard["different"]
    <3>1. ASSUME NEW t \in Sessions, t # call["first"].session PROVE heard'[t] = heard[t]
      BY <2>1, <3>1 DEF Noted
    <3>2. at = 16 => heard'["expiring"] = heard["expiring"]
      <4>1. at = 16 => Noted("expiring", {})
        BY <1>1, <1>6, <2>1 DEF Fits
      <4> QED
        BY <4>1 DEF Noted
    <3>3. at # 16 => "expiring" # call["first"].session
      BY <1>1, <1>6
    <3>4. at # 3 => "malformed" # call["first"].session
      BY <1>1, <1>6
    <3>5. at \notin {7, 11, 12} => "main" # call["first"].session
      BY <1>1, <1>6
    <3>6. at = 12 => heard'["main"] = heard["main"]
      <4>1. at = 12 => Noted("main", {})
        BY <1>1, <1>6, <2>1 DEF Fits
      <4> QED
        BY <4>1 DEF Noted
    <3>7. /\ at # 20 => "same" # call["first"].session
          /\ at \notin {24, 25} => "different" # call["first"].session
      BY <1>1, <1>6
    <3>8. /\ "malformed" \in Sessions /\ "main" \in Sessions /\ "expiring" \in Sessions
          /\ "same" \in Sessions /\ "different" \in Sessions
      BY DEF Sessions
    <3> QED
      BY <3>1, <3>2, <3>3, <3>4, <3>5, <3>6, <3>7, <3>8
  <2>3. /\ at = 3 => heard'["malformed"] \subseteq {Said("first")}
        /\ at = 7 => heard'["main"] \subseteq {Said("first")}
        /\ at = 11 => heard'["main"] \subseteq heard["main"] \cup {Said("first")}
        /\ at = 20 => heard'["same"] \subseteq heard["same"] \cup {Said("first")}
    BY <1>2, <1>6, <2>1 DEF Noted, Accounts
  <2>4. /\ at = 7 => Same("a")' = Said("first")
        /\ at \in {11, 20} => Same("a")' = Said("first") /\ Same("a") = Said("first")
    BY <1>1, <1>3, <1>6 DEF Same, Said, Fits
  <2>5. at \in {24, 25} => heard'["different"] \subseteq {Same(x)' : x \in won' \cup {frozen'.of}}
    <3> SUFFICES ASSUME at \in {24, 25}
                 PROVE  heard'["different"] \subseteq {Same(x)' : x \in won' \cup {frozen'.of}}
      OBVIOUS
    <3>1. heard["different"] \subseteq {Same(x) : x \in won \cup {frozen.of}} /\ frozen' = frozen
      BY <1>2, <1>3 DEF Accounts
    <3>2. \A x : Same(x)' = Same(x)
      BY <3>1 DEF Same
    <3>3. CASE call["first"].status = 200
      <4>1. Said("first") = Same(call["first"].of) /\ won' = won \cup {call["first"].of}
        BY <1>1, <1>3, <3>3 DEF Fits, Said, Same
      <4>2. heard'["different"] = heard["different"] \cup {Said("first")}
        BY <1>6, <2>1, <3>3 DEF Noted
      <4> QED
        BY <3>1, <3>2, <4>1, <4>2
    <3>4. CASE call["first"].status # 200
      <4>1. heard'["different"] = heard["different"] /\ won' = won
        BY <1>3, <1>6, <2>1, <3>4 DEF Noted
      <4> QED
        BY <3>1, <3>2, <4>1
    <3> QED
      BY <3>3, <3>4
  <2>6. at = 3 => One("malformed")'
    BY <2>3 DEF One
  <2>7. /\ at \in {7, 11} => heard'["main"] \subseteq {Same("a")'}
        /\ at = 20 => heard'["same"] \subseteq {Same("a")'}
    BY <1>2, <2>3, <2>4 DEF Accounts
  <2>8. One("main")'
    <3>1. at \in {7, 11} => One("main")'
      BY <2>7 DEF One
    <3> QED
      BY <1>2, <2>2, <3>1 DEF Accounts, One
  <2>9. One("same")'
    <3>1. at = 20 => One("same")'
      BY <2>7 DEF One
    <3> QED
      BY <1>2, <2>2, <3>1 DEF Accounts, One
  <2>10. One("malformed")'
    BY <1>2, <2>2, <2>6 DEF Accounts, One
  <2> QED
    BY <1>1, <1>2, <2>2, <2>5, <2>7, <2>8, <2>9, <2>10 DEF Accounts
<1>9. MainRow'
  <2>1. at = 7 => frozen'.no <= row'["main"].evaluations
    <3>1. at = 7 => call["first"].decision.no <= row["main"].evaluations
      BY <1>1, <1>5, <1>6 DEF Fits, TalkInv, Counted
    <3> QED
      BY <1>1, <1>3, <3>1
  <2>2. at = 11 => HeldMain'
    <3>1. at = 11 => HeldMain
      BY <1>2, <1>7 DEF MainRow
    <3> QED
      BY <1>1, <1>3, <3>1 DEF HeldMain
  <2>3. call'["first"].stage = "idle"
    BY <1>5 DEF Quiet
  <2> QED
    BY <1>1, <1>2, <1>4, <2>1, <2>2, <2>3 DEF MainRow
<1>10. Race'
  BY <1>1 DEF Race
<1>11. Retries'
  <2>1. call'["first"].stage = "idle"
    BY <1>5 DEF Quiet
  <2>2. Traced' <=> Traced
    BY <1>1, <1>4 DEF Traced
  <2>3. at \in {24, 25} => /\ row["different"].status = "failed" /\ row["different"].decision = frozen
                           /\ call["first"].status # 200 => Traced
                           /\ at = 25 => "a" \in won \/ Traced
    BY <1>1, <1>2, <1>7 DEF Retries
  <2>4. at = 24 => won' \subseteq {"a"} /\ ("a" \in won' \/ Traced)
    BY <1>2, <1>3, <1>6, <2>3 DEF Retries
  <2>5. at = 25 => {"a", "b"} \subseteq won' \/ Traced
    BY <1>3, <1>6, <2>3
  <2> QED
    BY <1>1, <1>3, <2>1, <2>2, <2>3, <2>4, <2>5 DEF Retries
<1>12. Emptied'
  BY <1>1, <1>2 DEF Emptied
<1> QED
  BY <1>8, <1>9, <1>10, <1>11, <1>12

Races ==
    /\ verdict = None /\ at \in {19, 23}
    /\ \A c \in Callers : call[c].stage = "answered"
    /\ call' = [c \in Callers |-> Idle]
    /\ IF RaceIsFair(at = 19) /\ \A c \in Callers : call[c].status \in {200, 409}
       THEN Moves /\ \E c \in Accepted : frozen' = call[c].decision
       ELSE Refutes /\ frozen' = frozen
    /\ Noted(IF at = 19 THEN "same" ELSE "different", {Said(c) : c \in Accepted})
    /\ UNCHANGED <<defects, row, resolver, won>>

\* The judgement of the two answers of a race.
LEMMA Raced ==
    ASSUME TalkInv, JudgeRace
    PROVE  Races
<1>1. at \in 1..35 /\ Len(Script) = 34
  <2>1. at \in 1..35
    BY DEF TalkInv, SessionsTypes
  <2> QED
    BY <2>1, Places
<1>2. /\ verdict = None /\ Hear /\ UNCHANGED <<defects, row, resolver, won>>
      /\ \A c \in Callers : call[c].stage = "answered"
  BY DEF JudgeRace, Doing, Running
<1>3. \/ at = 19 /\ Now.session = "same" /\ Now.status = 200
      \/ at = 23 /\ Now.session = "different" /\ Now.status = 409
  BY <1>1, Places DEF JudgeRace
<1>4. PICK s \in Sessions : s = Now.session /\ s = IF at = 19 THEN "same" ELSE "different"
  BY <1>3 DEF Sessions
<1>5. call' = [c \in Callers |-> Idle] /\ Noted(s, {Said(c) : c \in Accepted})
  BY <1>2, <1>4, Hearing
<1>6. IF RaceIsFair(at = 19) /\ \A c \in Callers : call[c].status \in {200, 409}
      THEN Passes /\ \E c \in Accepted : frozen' = call[c].decision
      ELSE Refuses /\ frozen' = frozen
  <2>1. RaceIsFair(Now.status = 200) <=> RaceIsFair(at = 19)
    BY <1>3 DEF RaceIsFair
  <2> QED
    BY <2>1 DEF JudgeRace
<1> QED
  BY <1>1, <1>2, <1>3, <1>4, <1>5, <1>6 DEF Races, Passes, Refuses, Moves, Refutes

LEMMA RacingTalk ==
    ASSUME TalkInv, Races
    PROVE  TalkInv' /\ Quiet'
<1>1. Quiet' /\ call' \in [Callers -> Calls]
  BY Blank DEF Races, Quiet
<1>2. Conversation'
  BY <1>1 DEF Quiet, Conversation, Lone, Both, Callers
<1>3. Counted'
  BY <1>1 DEF TalkInv, Counted, Races, Quiet
<1>4. SessionsTypes'
  <2>1. /\ at' \in 1..35 /\ verdict' \in {None, "passed", "refused", "lost"}
        /\ (verdict' = "passed") <=> (at' = 35)
    BY DEF TalkInv, SessionsTypes, Races, Moves, Refutes, None
  <2>2. \A c \in Callers : call[c].decision \in Decisions
    BY DEF TalkInv, SessionsTypes, Calls
  <2>3. frozen' \in Decisions
    BY <2>2 DEF TalkInv, SessionsTypes, Races, Accepted
  <2>4. heard' \in [Sessions -> SUBSET [of : Presentations \cup {None}, decision : Decisions]]
    BY DEF Races, Noted
  <2> QED
    BY <1>1, <2>1, <2>3, <2>4 DEF TalkInv, SessionsTypes, Races
<1> QED
  BY <1>1, <1>2, <1>3, <1>4 DEF TalkInv

\* One of the two is accepted.
LEMMA OneAccepted ==
    /\ \A c \in Callers : Accepted = {c} => Cardinality(Accepted) = 1
    /\ Cardinality(Accepted) = 1 => \E c \in Callers : Accepted = {c}
<1>1. ASSUME NEW c \in Callers, Accepted = {c} PROVE Cardinality(Accepted) = 1
  BY <1>1, FS_Singleton
<1>2. ASSUME Cardinality(Accepted) = 1 PROVE \E c \in Callers : Accepted = {c}
  <2>1. IsFiniteSet({"first"}) /\ IsFiniteSet(Callers)
    <3>1. IsFiniteSet({"first"})
      BY FS_Singleton
    <3> QED
      BY <3>1, FS_AddElement DEF Callers
  <2>2. Accepted \subseteq Callers
    BY DEF Accepted
  <2>3. IsFiniteSet(Accepted)
    BY <2>1, <2>2, FS_Subset
  <2>4. PICK c : Accepted = {c}
    BY <1>2, <2>3, FS_Singleton
  <2> QED
    BY <2>2, <2>4
<1> QED
  BY <1>1, <1>2

LEMMA RacingSound ==
    ASSUME TalkInv, SoundInv, Races
    PROVE  SoundInv'
<1> SUFFICES ASSUME defects = {} PROVE verdict' # "refused" /\ SoundPlaces'
  BY DEF SoundInv, Races
<1>1. SoundPlaces /\ at \in {19, 23} /\ \A c \in Callers : call[c].stage = "answered"
  BY DEF SoundInv, Races
<1>2. row' = row /\ Quiet' /\ resolver' = resolver /\ won' = won
  BY RacingTalk DEF Races
<1>3. \A c \in Callers : Yes(c) <=> c \in Accepted
  BY DEF Yes, Accepted
<1>4. ~Quiet
  BY <1>1 DEF Quiet, Callers
<1>5. /\ at = 19 => \A c \in Callers : call[c].of = "a"
      /\ at = 23 => \A c \in Callers : call[c].of = IF c = "first" THEN "a" ELSE "b"
  BY <1>1, Topic DEF TalkInv
<1>6. PICK s : s = IF at = 19 THEN "same" ELSE "different"
  OBVIOUS
<1>7. /\ row[s].status = "failed" /\ Clean(row[s]) /\ \E c \in Callers : Yes(c)
      /\ \A c \in Callers : call[c].status = 409
            \/ (Yes(c) /\ call[c].of = row[s].digest /\ call[c].decision = row[s].decision)
  <2>1. Contest("same") \/ at # 19
    BY <1>1 DEF SoundPlaces
  <2>2. Contest("different") \/ at # 23
    BY <1>1 DEF SoundPlaces
  <2>3. \A c \in Callers : call[c].stage \in {"idle", "answered"}
    BY <1>1
  <2>4. CASE at = 19
    BY <1>1, <1>4, <1>6, <2>1, <2>3, <2>4, ContestIsOver
  <2>5. CASE at = 23
    BY <1>1, <1>4, <1>6, <2>2, <2>3, <2>5, ContestIsOver
  <2> QED
    BY <1>1, <2>4, <2>5
<1>8. PICK c \in Callers : Yes(c) /\ call[c].of = row[s].digest /\ call[c].decision = row[s].decision
  BY <1>7 DEF Yes
<1>9. \A d \in Accepted : call[d].of = row[s].digest /\ call[d].decision = row[s].decision
  BY <1>7 DEF Accepted
<1>10. at = 23 => Cardinality(Accepted) = 1
  <2>1. at = 23 => Accepted = {c}
    BY <1>3, <1>5, <1>8, <1>9 DEF Accepted, Callers
  <2> QED
    BY <2>1, OneAccepted
<1>11. RaceIsFair(at = 19)
  BY <1>1, <1>3, <1>8, <1>9, <1>10 DEF RaceIsFair
<1>12. \A d \in Callers : call[d].status \in {200, 409}
  BY <1>7 DEF Yes
<1>13. Moves /\ frozen' = row[s].decision
  BY <1>9, <1>11, <1>12 DEF Races
<1>14. verdict' # "refused" /\ at' = at + 1
  BY <1>13 DEF Moves, None, Races
<1>15. Steady(s)' /\ row'[s].digest \in Presentations /\ (at = 19 => row'[s].digest = "a")
  <2>1. row[s].digest \in Presentations /\ (at = 19 => row[s].digest = "a")
    BY <1>1, <1>5, <1>8 DEF Presentations
  <2> QED
    BY <1>2, <1>7, <1>13, <2>1 DEF Steady, Clean, Quiet
<1> QED
  BY <1>1, <1>2, <1>14, <1>15, <1>6 DEF SoundPlaces

LEMMA RacingPass ==
    ASSUME TalkInv, PassInv, Races
    PROVE  PassInv'
<1> SUFFICES ASSUME verdict' # "refused" PROVE Accounts' /\ MainRow' /\ Race' /\ Retries' /\ Emptied'
  BY DEF PassInv
<1>1. /\ at' = at + 1 /\ verdict = None /\ UNCHANGED <<defects, row, won>> /\ at \in {19, 23}
      /\ RaceIsFair(at = 19) /\ \E c \in Accepted : frozen' = call[c].decision
  BY DEF Races, Moves, Refutes
<1>2. Accounts /\ MainRow /\ Race /\ Retries /\ Emptied
  BY <1>1 DEF PassInv, None
<1>3. PICK c \in Accepted : frozen' = call[c].decision
  BY <1>1
<1>4. \A d \in Accepted : d \in Callers /\ Yes(d)
  BY DEF Accepted, Yes
<1>5. \A d : Has(d)' = Has(d)
  BY <1>1 DEF Has
<1>6. Quiet'
  BY RacingTalk
<1>7. Noted(IF at = 19 THEN "same" ELSE "different", {Said(d) : d \in Accepted})
  BY DEF Races
<1>8. /\ heard'["malformed"] = heard["malformed"] /\ heard'["main"] = heard["main"]
      /\ heard'["expiring"] = heard["expiring"]
      /\ at = 23 => heard'["same"] = heard["same"]
      /\ at = 19 => heard'["different"] = heard["different"]
  BY <1>7 DEF Noted, Sessions
<1>9. /\ at = 19 => heard'["same"] = {Said(d) : d \in Accepted}
      /\ at = 23 => heard'["different"] = {Said(d) : d \in Accepted}
  BY <1>2, <1>7 DEF Noted, Accounts
<1>10. /\ at = 19 => \A d \in Accepted : call[d].decision = call[c].decision
       /\ at = 23 => Accepted = {c}
  <2>1. at = 19 => \A d, e \in Accepted : call[d].decision = call[e].decision
    BY <1>1 DEF RaceIsFair
  <2>2. at = 23 => Cardinality(Accepted) = 1
    BY <1>1 DEF RaceIsFair
  <2>3. at = 23 => Accepted = {c}
    BY <2>2, OneAccepted
  <2> QED
    BY <2>1, <2>3
<1>11. Accounts'
  <2>1. at = 19 => heard'["same"] \subseteq {Same("a")'}
    <3>1. at = 19 => \A d \in Accepted : call[d].of = "a"
      BY <1>4, Topic DEF TalkInv, Yes
    <3>2. at = 19 => \A d \in Accepted : Said(d) = Same("a")'
      BY <1>3, <1>10, <3>1 DEF Said, Same
    <3> QED
      BY <1>9, <3>2
  <2>2. at = 23 => heard'["different"] \subseteq {Same(x)' : x \in won' \cup {frozen'.of}}
    <3>1. at = 23 => frozen'.of = call[c].of
      BY <1>2, <1>3, <1>4 DEF Race
    <3>2. at = 23 => Said(c) = [of |-> frozen'.of, decision |-> frozen']
      BY <1>3, <3>1 DEF Said
    <3> QED
      BY <1>9, <1>10, <3>2 DEF Same
  <2>3. One("malformed")' /\ One("main")'
    BY <1>2, <1>8 DEF Accounts, One
  <2>4. One("same")'
    <3>1. at = 19 => One("same")'
      BY <2>1 DEF One
    <3> QED
      BY <1>1, <1>2, <1>8, <3>1 DEF Accounts, One
  <2> QED
    BY <1>1, <1>2, <1>8, <2>1, <2>2, <2>3, <2>4 DEF Accounts
<1>12. MainRow'
  BY <1>1, <1>2, <1>5 DEF MainRow
<1>13. Race'
  BY <1>1 DEF Race
<1>14. Retries'
  <2>1. call'["first"].stage = "idle"
    BY <1>6 DEF Quiet, Callers
  <2>2. at = 23 => row["different"].status = "failed" /\ row["different"].decision = frozen' /\ won = {}
    <3>1. at = 23 => ~(\A d \in Callers : Yes(d))
      <4>1. \A d \in Callers : Yes(d) => d \in Accepted
        BY DEF Accepted, Yes
      <4> QED
        BY <1>10, <4>1 DEF Callers
    <3> QED
      BY <1>2, <1>3, <1>4, <3>1 DEF Race
  <2> QED
    BY <1>1, <2>1, <2>2 DEF Retries
<1>15. Emptied'
  BY <1>1, <1>2 DEF Emptied
<1> QED
  BY <1>11, <1>12, <1>13, <1>14, <1>15

-----------------------------------------------------------------------------
(* The invariants hold.                                                     *)

LEMMA Beginning ==
    ASSUME InitSessions
    PROVE  TalkInv /\ SoundInv /\ PassInv
<1>1. /\ defects \subseteq AllDefects /\ row = [s \in Sessions |-> Absent] /\ call = [c \in Callers |-> Idle]
      /\ resolver = [usable |-> TRUE, asked |-> 0] /\ at = 1 /\ frozen = NoDecision /\ won = {}
      /\ verdict = None /\ heard = [s \in Sessions |-> {}]
  BY DEF InitSessions
<1>2. Quiet
  BY <1>1, Blank DEF Quiet
<1>3. TalkInv
  <2>1. SessionsTypes
    BY <1>1, Blank DEF SessionsTypes, None
  <2>2. Counted
    BY <1>1, <1>2, Blank DEF Counted, Quiet
  <2> QED
    BY <1>2, <2>1, <2>2, Silence DEF TalkInv
<1>4. SoundInv
  BY <1>1 DEF SoundInv, SoundPlaces, None
<1>5. PassInv
  BY <1>1 DEF PassInv, Accounts, One, MainRow, Race, Retries, Emptied, Sessions
<1> QED
  BY <1>3, <1>4, <1>5

SessionsInv == TalkInv /\ SoundInv /\ PassInv

\* Whatever the gate and the service do, and whichever defects the service has.
LEMMA SessionsStep ==
    ASSUME SessionsInv, [NextSessions]_artifactVars
    PROVE  SessionsInv'
<1>1. TalkInv /\ SoundInv /\ PassInv /\ SessionsTypes /\ Conversation
  BY DEF SessionsInv, TalkInv
<1>2. ASSUME NEW c \in Callers, Submission(c) \/ Evaluation(c) PROVE SessionsInv'
  <2>1. Serves(c)
    BY <1>1, <1>2, SubmissionServes, EvaluationServes
  <2> QED
    BY <1>1, <2>1, ServiceTalk, ServiceSound, ServicePass DEF SessionsInv
<1>3. CASE \/ Refusals \/ Reload \/ InspectRow \/ InspectWinnersRow \/ InspectExpiredRow
           \/ VerifyDirectly \/ VerifyBarcode
  <2>1. Looks
    BY <1>1, <1>3, Looked
  <2> QED
    BY <1>1, <2>1, LookingTalk, LookingSound, LookingPass DEF SessionsInv
<1>4. CASE CreateSession
  <2>1. Creates
    BY <1>1, <1>4, Created
  <2> QED
    BY <1>1, <2>1, CreatingTalk, CreatingSound, CreatingPass DEF SessionsInv
<1>5. CASE Restart \/ ExpireSession
  <2>1. Meddles
    BY <1>1, <1>5, Meddled
  <2> QED
    BY <1>1, <2>1, MeddlingTalk, MeddlingSound, MeddlingPass DEF SessionsInv
<1>6. CASE Submit \/ SubmitInParallel
  <2>1. Sends
    BY <1>1, <1>6, Sending
  <2> QED
    BY <1>1, <2>1, SendingTalk, SendingSound, SendingPass DEF SessionsInv
<1>7. CASE JudgeSubmission \/ JudgeReplay \/ JudgeRetry
  <2>1. Hears
    BY <1>1, <1>7, Heard
  <2> QED
    BY <1>1, <2>1, HearingTalk, HearingSound, HearingPass DEF SessionsInv
<1>8. CASE JudgeRace
  <2>1. Races
    BY <1>1, <1>8, Raced
  <2> QED
    BY <1>1, <2>1, RacingTalk, RacingSound, RacingPass DEF SessionsInv
<1>9. CASE Lose
  BY <1>1, <1>9, Losing DEF SessionsInv
<1>10. CASE UNCHANGED artifactVars
  <2>1. UNCHANGED <<defects, row, call, resolver, at, frozen, won, verdict, heard>>
    BY <1>10 DEF artifactVars, serviceVars, gateVars
  <2>2. TalkInv'
    BY <1>1, <2>1 DEF TalkInv, SessionsTypes, Conversation, Quiet, Lone, Both, Counted
  <2>3. SoundInv'
    BY <1>1, <2>1 DEF SoundInv, SoundPlaces, Contest, Steady, Expiring, Lapsed, Clean, Yes
  <2>4. PassInv'
    <3>1. \A d : Has(d)' = Has(d)
      BY <2>1 DEF Has
    <3>2. /\ Accounts' = Accounts /\ MainRow' = MainRow /\ Race' = Race /\ Emptied' = Emptied
      BY <2>1, <3>1 DEF Accounts, One, Same, MainRow, HeldMain, NotFrozen, Yes, Race, Emptied
    <3>3. Retries' = Retries
      BY <2>1, <3>1 DEF Retries, Traced, NotFrozen, Yes
    <3> QED
      BY <1>1, <2>1, <3>2, <3>3 DEF PassInv
  <2> QED
    BY <2>2, <2>3, <2>4 DEF SessionsInv
<1> QED
  BY <1>2, <1>3, <1>4, <1>5, <1>6, <1>7, <1>8, <1>9, <1>10 DEF NextSessions

\* Every variable of gate and service keeps its type.
THEOREM SessionsTypeCorrect == SpecSessions => []SessionsTypeOK
<1>1. InitSessions => SessionsInv
  BY Beginning DEF SessionsInv
<1>2. SessionsInv /\ [NextSessions]_artifactVars => SessionsInv'
  BY SessionsStep
<1>3. SessionsInv => SessionsTypeOK
  <2> SUFFICES ASSUME SessionsInv PROVE SessionsTypeOK
    OBVIOUS
  <2>1. SessionsTypes /\ Len(Script) = 34
    BY Places DEF SessionsInv, TalkInv, SessionsTypes
  <2>2. \A s \in Sessions : row[s] \in Rows
    BY <2>1 DEF SessionsTypes
  <2>3. \A c \in Callers : call[c] \in Calls
    BY <2>1 DEF SessionsTypes
  <2>4. /\ defects \subseteq AllDefects /\ won \subseteq Presentations
        /\ verdict \in {None, "passed", "refused", "lost"}
        /\ resolver.usable \in BOOLEAN /\ resolver.asked \in Nat
        /\ at \in 1..(Len(Script) + 1)
    BY <2>1 DEF SessionsTypes
  <2> QED
    BY <2>2, <2>3, <2>4 DEF SessionsTypeOK, Rows, Calls
<1> QED
  BY <1>1, <1>2, <1>3, PTL DEF SpecSessions

\* The conversation of gate and service is as the script has it: every variable
\* has its type, a request is in flight only at a step of the script that sends
\* one, for that step's session and of its presentation, decisions are numbered
\* in the order they are taken, and only the session that is made to expires
\* (_run_artifact_test, _submit, _parallel_submissions).
THEOREM SessionsFollowTheScript == SpecSessions => []TalkInv
<1>1. InitSessions => SessionsInv
  BY Beginning DEF SessionsInv
<1>2. SessionsInv /\ [NextSessions]_artifactVars => SessionsInv'
  BY SessionsStep
<1>3. SessionsInv => TalkInv
  BY DEF SessionsInv
<1> QED
  BY <1>1, <1>2, <1>3, PTL DEF SpecSessions

\* A service without a defect is never refused, whatever the order in which the
\* two threads of a race claim the session, lose their lease and are answered:
\* every check of _run_artifact_test finds what it wants to see.
THEOREM SoundServiceIsNotRefused == SpecSessions => []SoundServicePasses
<1>1. InitSessions => SessionsInv
  BY Beginning DEF SessionsInv
<1>2. SessionsInv /\ [NextSessions]_artifactVars => SessionsInv'
  BY SessionsStep
<1>3. SessionsInv => SoundServicePasses
  BY DEF SessionsInv, SoundInv, SoundServicePasses
<1> QED
  BY <1>1, <1>2, <1>3, PTL DEF SpecSessions

\* Whatever combination of the defects a service has, a pass means that no
\* session was decided twice or for two presentations, that nothing of the
\* expired one was accepted, and that no row holds a presentation or a nonce in
\* the end, the main session's too, which is never inspected again: the retries
\* of the last race show what a service keeps (_run_artifact_test).
THEOREM PassMeansSoundSessions == SpecSessions => []PassedSessionsAreSound
<1>1. InitSessions => SessionsInv
  BY Beginning DEF SessionsInv
<1>2. SessionsInv /\ [NextSessions]_artifactVars => SessionsInv'
  BY SessionsStep
<1>3. SessionsInv => PassedSessionsAreSound
  <2> SUFFICES ASSUME SessionsInv, verdict = "passed"
               PROVE  /\ \A s \in Sessions : (\A h, k \in heard[s] : h = k) /\ row[s].kept = {}
                      /\ heard["expiring"] = {}
    BY DEF PassedSessionsAreSound
  <2>1. at = 35 /\ Accounts /\ MainRow /\ Retries /\ Emptied
    BY DEF SessionsInv, TalkInv, SessionsTypes, PassInv
  <2>2. /\ One("malformed") /\ One("main") /\ One("same") /\ One("different") /\ heard["expiring"] = {}
    BY <2>1 DEF Accounts
  <2>3. row["main"].kept = {}
    BY <2>1 DEF MainRow, Retries
  <2>4. /\ row["malformed"].kept = {} /\ row["expiring"].kept = {} /\ row["same"].kept = {}
        /\ row["different"].kept = {}
    BY <2>1 DEF Emptied
  <2> QED
    BY <2>2, <2>3, <2>4 DEF One, Sessions
<1> QED
  BY <1>1, <1>2, <1>3, PTL DEF SpecSessions
=============================================================================

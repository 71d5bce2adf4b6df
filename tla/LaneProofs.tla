----------------------------- MODULE LaneProofs -----------------------------
(***************************************************************************)
(* The Compose front end, the lanes that call it and the boundary lane:    *)
(* what a start and a teardown leave behind, and what a lane that passes   *)
(* has done, for every selection, kind of lane and order of failures; and, *)
(* behind them, the two helper processes of a lane: the fixture with the   *)
(* key service and the hook of an issuer module.                           *)
(*                                                                         *)
(* ComposeInv is inductive under everything that happens to the suite: the *)
(* operator of Spec, the lanes of SpecLane and SpecBoundary.  LaneInv and  *)
(* BoundaryInv add where the caller stands.  The helpers run alone.        *)
(***************************************************************************)
EXTENDS OfficialLane, BoundaryLane, KmsFixture, OfferHook, SequenceTheorems, TLAPS

-----------------------------------------------------------------------------
(* Lists of projects: Marty starts first and is stopped last.              *)

MartyFirst(l) == \A i \in 2..Len(l) : l[i] # "marty"
MartyLast(l) == \A i \in 1..(Len(l) - 1) : l[i] # "marty"

-----------------------------------------------------------------------------
(* The inductive invariant of the front end.                               *)

Phases == {"idle", "begin", "cache", "base", "stage", "resume", "each", "readiness", "unwind", "ended"}

Types ==
    /\ project \in [Projects -> {"absent", "partial", "up"}]
    /\ bridge \in BOOLEAN /\ material \in BOOLEAN /\ authority \in BOOLEAN
    /\ stuck \subseteq Projects
    /\ suite \in [Flags -> BOOLEAN]
    /\ action \in {"none", "up", "down", "logs"}
    /\ retain \in BOOLEAN /\ fresh \in BOOLEAN
    /\ compose \in Phases
    /\ todo \in Seq(Projects) /\ started \in Seq(Projects)
    /\ code \in {"none", "zero", "nonzero", "raised", "escaped"}

\* A project that a teardown has been through, and that nothing else can remove.
Gone(p) ==
    \/ project[p] = "absent"
    \/ p \in stuck
    \/ p = "oidf" /\ ~material

\* The staged start, before the loop over the entries.
Staging ==
    /\ compose \in {"idle", "begin", "cache", "base"} => todo = <<>> /\ started = <<>> /\ code = "none"
    /\ compose \in {"cache", "base", "stage", "resume", "readiness", "unwind"} => action = "up"
    /\ compose = "cache" => suite["local"]
    /\ compose \in {"base", "stage", "resume"} => Staged
    /\ compose \in {"stage", "resume"} =>
          /\ started = <<"marty">> /\ todo = <<>> /\ code = "none"
          /\ project["marty"] = "up" /\ bridge
    /\ compose = "resume" => leaf = "startup"

\* What was started, and that nothing stands beside it.
Extent ==
    /\ \A p \in Projects \ Selected : project[p] = "absent"
    /\ ToSet(started) \subseteq Selected /\ MartyFirst(started)
    /\ started # <<>> => action = "up" /\ "marty" \in ToSet(started)
    /\ action = "up" /\ fresh => \A p \in Others \ ToSet(started) : project[p] = "absent"
    /\ fresh /\ project["eudi"] # "absent" => bridge \/ "eudi" \in stuck

\* "up", in its loop.
Rising ==
    compose \in {"each", "readiness"} /\ action = "up" =>
        /\ code = "none"
        /\ MartyFirst(todo)
        /\ ToSet(started) \cup ToSet(todo) = Selected
        /\ "marty" \in ToSet(todo) => started = <<>>
        /\ Staged => started # <<>>
        /\ compose = "readiness" => "eudi" \in ToSet(started)
        /\ \A p \in ToSet(started) : project[p] = "up"
        /\ started # <<>> =>
              /\ bridge
              /\ suite["haip"] => served = IF Staged THEN "startup" ELSE "external"

\* "down", in its loop.
Falling ==
    compose = "each" /\ action = "down" =>
        /\ code \in {"none", "nonzero"}
        /\ MartyLast(todo) /\ ToSet(todo) \subseteq Selected
        /\ \A p \in Selected \ ToSet(todo) :
              /\ code = "none" => project[p] = "absent"
              /\ Gone(p) \/ (p = "eudi" /\ ~fresh)

\* stop_started, after an "up" that failed.
Unwinding ==
    compose = "unwind" =>
        /\ code \in {"nonzero", "raised"} /\ ~retain
        /\ started = <<>> => code = "raised"
        /\ MartyLast(todo) /\ ToSet(todo) \subseteq ToSet(started)
        /\ "eudi" \in ToSet(todo) => bridge
        /\ \A p \in ToSet(started) \ ToSet(todo) : Gone(p)

\* What the process has answered.
Settled ==
    compose = "ended" =>
        /\ action = "down" =>
              /\ code = "zero" => \A p \in Selected : project[p] = "absent"
              /\ code # "raised" => \A p \in Selected : Gone(p) \/ (p = "eudi" /\ ~fresh)
        /\ action = "up" /\ code # "zero" =>
              /\ ~retain => (\A p \in ToSet(started) : Gone(p)) \/ (code = "escaped" /\ MayEscape)
              /\ started = <<>> /\ ~suite["local"] => code = "raised"

ComposeInv ==
    /\ Types
    /\ Staging /\ Extent
    /\ Rising /\ Falling /\ Unwinding
    /\ Settled

-----------------------------------------------------------------------------
(* The lanes.                                                              *)

Standing == bridge /\ \A p \in Selected : project[p] = "up"

\* Where the lane is, and where the front end is then.
LaneMeetsCompose ==
    /\ suite = SuiteOf(kind) /\ fresh
    /\ compose \notin {"idle", "ended"} => lane \in {"starting", "stopping"}
    /\ kind = "w3c" => compose = "idle"
    /\ lane \in {"preflight", "up"} => compose = "idle" /\ \A p \in Others : project[p] = "absent"
    /\ lane \in {"starting", "diagnose"} =>
          /\ kind # "w3c" /\ compose # "idle" /\ action = "up"
          /\ retain <=> kind \in VerifierKinds
    /\ lane = "diagnose" => compose = "ended" /\ code # "zero"
    /\ lane = "stopping" => kind # "w3c" /\ compose # "idle" /\ action = "down"

UpLanes == {"ready", "fixtures", "certificate", "adopt", "browser", "official"}

\* The stack the suite runs on.
LaneStands ==
    /\ lane \in UpLanes => Standing /\ (kind # "w3c" => code = "zero")
    /\ lane = "starting" /\ compose = "ended" /\ code = "zero" => Standing
    /\ lane \in {"certificate", "adopt"} => kind \in HaipKinds
    /\ lane = "adopt" => kind \in SignedKinds /\ leaf = "final"
    /\ lane \in {"browser", "official"} /\ kind \in SignedKinds => served = "final"
    /\ lane \in {"adopt", "browser", "official"} /\ kind \in HaipKinds => ~authority

\* What a result of zero stands on.
LaneEarns ==
    /\ lane = "browser" => kind = "final"
    /\ lane \in {"evidence", "attachments"} => kind \in VerifierKinds
    /\ lane \in UpLanes \ {"ready"} /\ kind = "local" => before
    /\ result = "zero" =>
          /\ lane \in {"evidence", "attachments", "native", "logs", "down", "stopping", "checkout", "ended"}
          /\ "official" \in passed
          /\ kind = "final" => "browser" \in passed
          /\ kind = "local" => before
          /\ kind \in VerifierKinds /\ lane # "evidence" =>
                "evidence" \in passed /\ (lane # "attachments" => "attachments" \in passed)

\* What is left of the stack.
Torn ==
    \A p \in Projects :
        \/ project[p] = "absent"
        \/ kind = "eudi" /\ code = "escaped"
        \/ /\ kind = "local" => error
           /\ Gone(p) \/ (code \in {"none", "raised"} /\ started = <<>>)

LaneLeaves == lane \in {"checkout", "ended"} /\ skipped \notin {"preflight", "logs"} => Torn

LaneTypes ==
    /\ kind \in AllKinds
    /\ passed \subseteq Commands
    /\ result \in {"zero", "nonzero"}
    /\ error \in BOOLEAN /\ before \in BOOLEAN

LaneInv == ComposeInv /\ LaneTypes /\ LaneMeetsCompose /\ LaneStands /\ LaneEarns /\ LaneLeaves

-----------------------------------------------------------------------------
(* The boundary lane.                                                      *)

BoundaryMeetsCompose ==
    /\ suite = BoundarySuite
    /\ compose \notin {"idle", "ended"} => boundary \in {"starting", "reading", "stopping"}
    /\ boundary = "starting" => compose # "idle" /\ action = "up"
    /\ boundary = "stopping" => compose # "idle" /\ action = "down"
    /\ boundary = "starting" /\ compose = "ended" /\ code = "zero" => project["marty"] = "up"
    /\ boundary \in {"wait", "registryUp", "sessions", "pytest"} => project["marty"] = "up"

\* The trust registry and the sender's custody.
BoundaryHolds ==
    /\ policy <=> boundary \notin {"prepare", "ended"}
    /\ boundary \in {"prepare", "policy", "up", "starting", "wait", "registryUp"} => registry = "absent"
    /\ boundary \in {"sessions", "pytest"} => registry = "up"
    /\ registry # "absent" => registryAttempted
    /\ boundary \in {"logs", "reading", "down", "stopping"} => registry = "absent" \/ registryStuck

\* What pytest and the summary have said.
BoundarySays ==
    /\ junit \in [own : BOOLEAN, didcomm : {"none", "passed", "skipped", "failed"}]
    /\ boundary \in {"prepare", "policy", "up", "starting", "wait", "registryUp", "sessions", "pytest"} =>
          exitCode = "nonzero"
    /\ boundary \in {"prepare", "policy", "up", "starting", "wait", "registryUp", "sessions", "pytest", "summary"} =>
          summary = "none"
    /\ exitCode = "zero" => junit.own
    /\ summary = "passed" => exitCode = "zero" /\ (claimed => required /\ junit.didcomm = "passed")

BoundaryLeaves ==
    boundary = "ended" =>
        /\ registry = "absent" \/ registryStuck \/ cutShort \in {"summary", "registry"}
        /\ project["marty"] = "absent" \/ "marty" \in stuck \/ cutShort # "no" \/ code = "raised"

BoundaryInv == ComposeInv /\ BoundaryMeetsCompose /\ BoundaryHolds /\ BoundarySays /\ BoundaryLeaves

-----------------------------------------------------------------------------
(* Lemmas about those lists.                                               *)

\* The elements of a list and of its reverse are the same, and what comes
\* first in the one comes last in the other.
LEMMA ReversedList ==
    ASSUME NEW l \in Seq(Projects), MartyFirst(l)
    PROVE  Reverse(l) \in Seq(Projects) /\ MartyLast(Reverse(l)) /\ ToSet(Reverse(l)) = ToSet(l)
<1> DEFINE r == Reverse(l)
<1>1. Len(l) \in Nat /\ DOMAIN l = 1..Len(l) /\ \A i \in 1..Len(l) : l[i] \in Projects
  OBVIOUS
<1>2. r = [i \in 1..Len(l) |-> l[(Len(l) - i) + 1]]
  BY DEF Reverse
<1>3. \A i \in 1..Len(l) : (Len(l) - i) + 1 \in 1..Len(l) /\ r[i] = l[(Len(l) - i) + 1]
  BY <1>1, <1>2
<1>4. r \in [1..Len(l) -> Projects]
  BY <1>1, <1>2, <1>3
<1>5. r \in Seq(Projects)
  BY <1>1, <1>4, SeqDef
<1>6. Len(r) = Len(l) /\ DOMAIN r = 1..Len(l)
  BY <1>1, <1>4, <1>5, LenProperties
<1>7. MartyLast(r)
  <2> SUFFICES ASSUME NEW i \in 1..(Len(l) - 1) PROVE r[i] # "marty"
    BY <1>6 DEF MartyLast
  <2>1. (Len(l) - i) + 1 \in 2..Len(l) /\ i \in 1..Len(l)
    BY <1>1
  <2> QED
    BY <2>1, <1>3 DEF MartyFirst
<1>8. \A i \in 1..Len(l) : l[i] = r[(Len(l) - i) + 1]
  <2> SUFFICES ASSUME NEW i \in 1..Len(l) PROVE l[i] = r[(Len(l) - i) + 1]
    OBVIOUS
  <2>1. (Len(l) - i) + 1 \in 1..Len(l) /\ (Len(l) - ((Len(l) - i) + 1)) + 1 = i
    BY <1>1
  <2> QED
    BY <2>1, <1>3
<1>9. ToSet(r) = ToSet(l)
  BY <1>1, <1>3, <1>6, <1>8 DEF ToSet
<1> QED
  BY <1>5, <1>7, <1>9

\* The head of a list and the rest of it.
LEMMA ListTail ==
    ASSUME NEW l \in Seq(Projects), l # <<>>
    PROVE  /\ Head(l) \in Projects /\ Tail(l) \in Seq(Projects)
           /\ ToSet(l) = {Head(l)} \cup ToSet(Tail(l))
           /\ MartyFirst(l) => MartyFirst(Tail(l)) /\ "marty" \notin ToSet(Tail(l))
           /\ MartyFirst(l) /\ "marty" \in ToSet(l) => Head(l) = "marty"
           /\ MartyLast(l) => MartyLast(Tail(l)) /\ (Head(l) = "marty" => Tail(l) = <<>>)
<1>1. Len(l) \in Nat /\ DOMAIN l = 1..Len(l) /\ \A i \in 1..Len(l) : l[i] \in Projects
  OBVIOUS
<1>2. Len(l) > 0
  BY EmptySeq
<1>3. Head(l) = l[1] /\ Head(l) \in Projects
  BY <1>1, <1>2, HeadTailProperties
<1>4. /\ Tail(l) \in Seq(Projects) /\ Len(Tail(l)) = Len(l) - 1
      /\ \A i \in 1..Len(Tail(l)) : Tail(l)[i] = l[i + 1]
  BY <1>2, HeadTailProperties
<1>5. DOMAIN Tail(l) = 1..(Len(l) - 1)
  BY <1>4, LenProperties
<1>6. ToSet(l) = {Head(l)} \cup ToSet(Tail(l))
  <2>1. ASSUME NEW i \in 1..Len(l) PROVE l[i] \in {Head(l)} \cup ToSet(Tail(l))
    <3>1. CASE i = 1
      BY <1>3, <3>1
    <3>2. CASE i # 1
      <4>1. i - 1 \in 1..(Len(l) - 1) /\ (i - 1) + 1 = i
        BY <1>1, <3>2
      <4> QED
        BY <4>1, <1>4, <1>5 DEF ToSet
    <3> QED
      BY <3>1, <3>2
  <2>2. ASSUME NEW i \in 1..(Len(l) - 1) PROVE Tail(l)[i] \in ToSet(l)
    BY <1>1, <1>4, <1>5 DEF ToSet
  <2>3. Head(l) \in ToSet(l)
    BY <1>1, <1>2, <1>3 DEF ToSet
  <2> QED
    BY <2>1, <2>2, <2>3, <1>1, <1>5 DEF ToSet
<1>7. MartyFirst(l) => MartyFirst(Tail(l)) /\ "marty" \notin ToSet(Tail(l))
  <2> SUFFICES ASSUME MartyFirst(l) PROVE \A i \in 1..(Len(l) - 1) : Tail(l)[i] # "marty"
    BY <1>4, <1>5 DEF MartyFirst, ToSet
  <2> TAKE i \in 1..(Len(l) - 1)
  <2>1. i + 1 \in 2..Len(l)
    BY <1>1
  <2> QED
    BY <2>1, <1>4 DEF MartyFirst
<1>8. MartyFirst(l) /\ "marty" \in ToSet(l) => Head(l) = "marty"
  BY <1>1, <1>3 DEF MartyFirst, ToSet
<1>9. ASSUME MartyLast(l) PROVE MartyLast(Tail(l))
  <2> SUFFICES ASSUME NEW i \in 1..((Len(l) - 1) - 1) PROVE Tail(l)[i] # "marty"
    BY <1>4 DEF MartyLast
  <2>1. i + 1 \in 1..(Len(l) - 1) /\ i \in 1..(Len(l) - 1)
    BY <1>1
  <2>2. Tail(l)[i] = l[i + 1]
    BY <2>1, <1>4
  <2> QED
    BY <2>1, <2>2, <1>9 DEF MartyLast
<1>10. ASSUME MartyLast(l), Head(l) = "marty" PROVE Tail(l) = <<>>
  <2>1. 1 \notin 1..(Len(l) - 1)
    BY <1>3, <1>10 DEF MartyLast
  <2>2. Len(Tail(l)) = 0
    BY <2>1, <1>1, <1>2, <1>4
  <2> QED
    BY <2>2, <1>4, EmptySeq
<1> QED
  BY <1>3, <1>4, <1>6, <1>7, <1>8, <1>9, <1>10

\* A project more at the end of a list.
LEMMA ListAppend ==
    ASSUME NEW l \in Seq(Projects), NEW p \in Projects
    PROVE  /\ Append(l, p) \in Seq(Projects) /\ Append(l, p) # <<>>
           /\ ToSet(Append(l, p)) = ToSet(l) \cup {p}
           /\ MartyFirst(l) /\ (p = "marty" => l = <<>>) => MartyFirst(Append(l, p))
<1>1. Len(l) \in Nat /\ DOMAIN l = 1..Len(l) /\ \A i \in 1..Len(l) : l[i] \in Projects
  OBVIOUS
<1>2. /\ Append(l, p) \in Seq(Projects) /\ Len(Append(l, p)) = Len(l) + 1
      /\ \A i \in 1..Len(l) : Append(l, p)[i] = l[i]
      /\ Append(l, p)[Len(l) + 1] = p
  BY AppendProperties
<1>3. DOMAIN Append(l, p) = 1..(Len(l) + 1)
  BY <1>1, <1>2, LenProperties
<1>4. Append(l, p) # <<>>
  BY <1>1, <1>2, EmptySeq
<1>5. 1..(Len(l) + 1) = 1..Len(l) \cup {Len(l) + 1}
  BY <1>1
<1>6. ToSet(Append(l, p)) = ToSet(l) \cup {p}
  BY <1>1, <1>2, <1>3, <1>5 DEF ToSet
<1>7. MartyFirst(l) /\ (p = "marty" => l = <<>>) => MartyFirst(Append(l, p))
  <2> SUFFICES ASSUME MartyFirst(l), p = "marty" => l = <<>>,
                      NEW i \in 2..(Len(l) + 1)
               PROVE  Append(l, p)[i] # "marty"
    BY <1>2, <1>3 DEF MartyFirst
  <2>1. CASE i \in 2..Len(l)
    <3>1. i \in 1..Len(l)
      BY <2>1
    <3> QED
      BY <2>1, <3>1, <1>2 DEF MartyFirst
  <2>2. CASE i = Len(l) + 1
    <3>1. Len(l) # 0
      BY <2>2
    <3> QED
      BY <2>2, <3>1, <1>2, EmptySeq
  <2> QED
    BY <2>1, <2>2, <1>1
<1> QED
  BY <1>2, <1>4, <1>6, <1>7

\* Two lists, the second without Marty.
LEMMA ListConcat ==
    ASSUME NEW s \in Seq(Projects), NEW t \in Seq(Projects), MartyFirst(s), "marty" \notin ToSet(t)
    PROVE  /\ s \o t \in Seq(Projects) /\ MartyFirst(s \o t)
           /\ ToSet(s \o t) = ToSet(s) \cup ToSet(t)
<1>1. /\ s \o t \in Seq(Projects) /\ Len(s \o t) = Len(s) + Len(t)
      /\ \A k \in 1..(Len(s) + Len(t)) : (s \o t)[k] = IF k <= Len(s) THEN s[k] ELSE t[k - Len(s)]
  BY ConcatProperties
<1>2. /\ Len(s) \in Nat /\ Len(t) \in Nat
      /\ DOMAIN s = 1..Len(s) /\ DOMAIN t = 1..Len(t) /\ DOMAIN (s \o t) = 1..(Len(s) + Len(t))
  BY <1>1, LenProperties
<1>3. \A k \in 1..Len(s) : k \in 1..(Len(s) + Len(t)) /\ (s \o t)[k] = s[k]
  BY <1>1, <1>2
<1>4. ASSUME NEW k \in 1..Len(t) PROVE Len(s) + k \in 1..(Len(s) + Len(t)) /\ (s \o t)[Len(s) + k] = t[k]
  BY <1>1, <1>2
<1>5. ASSUME NEW k \in 1..(Len(s) + Len(t)), ~ (k <= Len(s))
      PROVE  k - Len(s) \in 1..Len(t) /\ (s \o t)[k] = t[k - Len(s)]
  BY <1>1, <1>2, <1>5
<1>6. ASSUME NEW k \in 1..(Len(s) + Len(t))
      PROVE  (k \in 1..Len(s) /\ (s \o t)[k] = s[k]) \/ (s \o t)[k] \in ToSet(t)
  <2>1. CASE k <= Len(s)
    BY <2>1, <1>2, <1>3
  <2>2. CASE ~ (k <= Len(s))
    BY <2>2, <1>2, <1>5 DEF ToSet
  <2> QED
    BY <2>1, <2>2
<1>7. ToSet(s \o t) = ToSet(s) \cup ToSet(t)
  <2>1. \A k \in 1..(Len(s) + Len(t)) : (s \o t)[k] \in ToSet(s) \cup ToSet(t)
    BY <1>2, <1>6 DEF ToSet
  <2>2. \A k \in 1..Len(s) : s[k] \in ToSet(s \o t)
    <3> TAKE k \in 1..Len(s)
    <3>1. (s \o t)[k] \in ToSet(s \o t)
      BY <1>2, <1>3 DEF ToSet
    <3> QED
      BY <3>1, <1>3
  <2>3. \A k \in 1..Len(t) : t[k] \in ToSet(s \o t)
    <3> TAKE k \in 1..Len(t)
    <3>1. (s \o t)[Len(s) + k] \in ToSet(s \o t)
      BY <1>2, <1>4 DEF ToSet
    <3> QED
      BY <3>1, <1>4
  <2> QED
    BY <2>1, <2>2, <2>3, <1>2 DEF ToSet
<1>8. MartyFirst(s \o t)
  <2> SUFFICES ASSUME NEW k \in 2..(Len(s) + Len(t)) PROVE (s \o t)[k] # "marty"
    BY <1>1 DEF MartyFirst
  <2>1. k \in 1..(Len(s) + Len(t))
    BY <1>2
  <2>2. CASE k \in 1..Len(s) /\ (s \o t)[k] = s[k]
    <3>1. k \in 2..Len(s)
      BY <2>2, <1>2
    <3> QED
      BY <2>2, <3>1 DEF MartyFirst
  <2> QED
    BY <2>1, <2>2, <1>6
<1> QED
  BY <1>1, <1>7, <1>8

LEMMA OneProject ==
    ASSUME NEW p \in Projects
    PROVE  /\ <<p>> \in Seq(Projects) /\ <<p>> # <<>> /\ ToSet(<<p>>) = {p}
           /\ MartyFirst(<<p>>) /\ MartyLast(<<p>>)
<1>1. <<p>> \in Seq(Projects) /\ Len(<<p>>) = 1 /\ <<p>> # <<>>
  OBVIOUS
<1>2. DOMAIN <<p>> = {1} /\ <<p>>[1] = p
  OBVIOUS
<1>3. MartyFirst(<<p>>) /\ MartyLast(<<p>>)
  BY <1>1 DEF MartyFirst, MartyLast
<1>4. ToSet(<<p>>) = {p}
  BY <1>2 DEF ToSet
<1> QED
  BY <1>1, <1>3, <1>4

LEMMA NoProject ==
    /\ <<>> \in Seq(Projects) /\ ToSet(<<>>) = {} /\ MartyFirst(<<>>) /\ MartyLast(<<>>)
    /\ \A l \in Seq(Projects) : ToSet(l) = {} => l = <<>>
<1>1. <<>> \in Seq(Projects) /\ Len(<<>>) = 0 /\ DOMAIN <<>> = {}
  OBVIOUS
<1>2. MartyFirst(<<>>) /\ MartyLast(<<>>)
  BY <1>1 DEF MartyFirst, MartyLast
<1>3. ToSet(<<>>) = {}
  BY <1>1 DEF ToSet
<1>4. ASSUME NEW l \in Seq(Projects), l # <<>> PROVE ToSet(l) # {}
  BY <1>4, ListTail
<1> QED
  BY <1>1, <1>2, <1>3, <1>4

\* What components gives for a selection.
LEMMA EntriesInOrder ==
    ASSUME suite \in [Flags -> BOOLEAN]
    PROVE  /\ Entries \in Seq(Projects) /\ Entries # <<>> /\ MartyFirst(Entries)
           /\ Selected = {"marty"} \cup (IF suite["oidf"] THEN {"oidf"} ELSE {})
                                   \cup (IF suite["eudi"] THEN {"eudi"} ELSE {})
           /\ Head(Entries) = "marty"
           /\ Tail(Entries) \in Seq(Projects) /\ MartyFirst(Tail(Entries))
           /\ "marty" \notin ToSet(Tail(Entries)) /\ {"marty"} \cup ToSet(Tail(Entries)) = Selected
<1> DEFINE o == IF suite["oidf"] THEN <<"oidf">> ELSE <<>>
<1> DEFINE e == IF suite["eudi"] THEN <<"eudi">> ELSE <<>>
<1>1. o \in Seq(Projects) /\ ToSet(o) = IF suite["oidf"] THEN {"oidf"} ELSE {}
  BY OneProject, NoProject DEF Projects
<1>2. e \in Seq(Projects) /\ ToSet(e) = IF suite["eudi"] THEN {"eudi"} ELSE {}
  BY OneProject, NoProject DEF Projects
<1>3. Entries = (<<"marty">> \o o) \o e
  BY DEF Entries
<1> HIDE DEF o, e
<1>4. <<"marty">> \in Seq(Projects) /\ MartyFirst(<<"marty">>) /\ ToSet(<<"marty">>) = {"marty"}
  BY OneProject DEF Projects
<1>5. /\ <<"marty">> \o o \in Seq(Projects) /\ MartyFirst(<<"marty">> \o o)
      /\ ToSet(<<"marty">> \o o) = {"marty"} \cup ToSet(o)
  BY <1>1, <1>4, ListConcat
<1>6. /\ Entries \in Seq(Projects) /\ MartyFirst(Entries)
      /\ ToSet(Entries) = {"marty"} \cup ToSet(o) \cup ToSet(e)
  BY <1>2, <1>3, <1>5, ListConcat
<1>7. Selected = ToSet(Entries)
  BY DEF Selected
<1>8. Entries # <<>>
  BY <1>6, NoProject
<1> QED
  BY <1>1, <1>2, <1>6, <1>7, <1>8, ListTail
-----------------------------------------------------------------------------
(* Lemmas about what Docker does to one project.                           *)

LEMMA WhenItComesUp ==
    ASSUME Types, NEW p \in Projects, NEW c, ComesUp(p, c)
    PROVE  /\ project' \in [Projects -> {"absent", "partial", "up"}]
           /\ bridge' \in BOOLEAN /\ stuck' \subseteq Projects
           /\ project'[p] = "up" /\ \A q \in Projects \ {p} : project'[q] = project[q]
           /\ stuck' = stuck \ {p}
           /\ bridge \/ p \in {"marty", "eudi"} => bridge'
           /\ IF p = "marty" THEN served' = c ELSE served' = served
<1>1. /\ CanStart(p) /\ project' = [project EXCEPT ![p] = "up"] /\ stuck' = stuck \ {p}
      /\ IF p = "marty" THEN bridge' = TRUE /\ served' = c ELSE bridge' = bridge /\ served' = served
  BY DEF ComesUp
<1>2. p = "eudi" => bridge
  BY <1>1 DEF CanStart, Accepts, EudiAccepts
<1>3. bridge' \in BOOLEAN /\ (bridge \/ p \in {"marty", "eudi"} => bridge')
  <2>1. CASE p = "marty"
    BY <2>1, <1>1
  <2>2. CASE p # "marty"
    BY <2>2, <1>1, <1>2 DEF Types
  <2> QED
    BY <2>1, <2>2
<1>4. IF p = "marty" THEN served' = c ELSE served' = served
  BY <1>1
<1>5. project' \in [Projects -> {"absent", "partial", "up"}] /\ project'[p] = "up"
      /\ \A q \in Projects \ {p} : project'[q] = project[q]
  BY <1>1 DEF Types
<1> QED
  BY <1>1, <1>3, <1>4, <1>5 DEF Types

LEMMA WhenItFailsToComeUp ==
    ASSUME Types, NEW p \in Projects, NEW c, FailsToComeUp(p, c)
    PROVE  /\ project' \in [Projects -> {"absent", "partial", "up"}]
           /\ bridge' \in BOOLEAN /\ (bridge => bridge')
           /\ stuck' = stuck
           /\ \A q \in Projects \ {p} : project'[q] = project[q]
           /\ project'[p] \in {project[p], "partial"}
           /\ p = "eudi" => bridge \/ project'[p] = project[p]
<1>1. /\ project' \in IF CanStart(p) THEN {project, [project EXCEPT ![p] = "partial"]} ELSE {project}
      /\ IF p = "marty" THEN bridge' \in {bridge, TRUE} ELSE bridge' = bridge
      /\ stuck' = stuck
  BY DEF FailsToComeUp
<1>2. p = "eudi" /\ CanStart(p) => bridge
  BY DEF CanStart, Accepts, EudiAccepts
<1>3. bridge' \in BOOLEAN /\ (bridge => bridge')
  <2>1. CASE p = "marty" /\ bridge' = TRUE
    BY <2>1
  <2>2. CASE bridge' = bridge
    BY <2>2 DEF Types
  <2> QED
    BY <1>1, <2>1, <2>2
<1>4. project' = project \/ (CanStart(p) /\ project' = [project EXCEPT ![p] = "partial"])
  BY <1>1
<1>5. /\ project' \in [Projects -> {"absent", "partial", "up"}]
      /\ \A q \in Projects \ {p} : project'[q] = project[q]
      /\ project'[p] \in {project[p], "partial"}
  BY <1>4 DEF Types
<1>6. p = "eudi" => bridge \/ project'[p] = project[p]
  BY <1>2, <1>4
<1> QED
  BY <1>1, <1>3, <1>5, <1>6

\* A teardown that answers zero has removed the project; any other has had
\* Docker fail on it, or the launcher refuse.
LEMMA WhenItIsTornDown ==
    ASSUME Types, NEW p \in Projects, GoesAway(p) \/ StaysBehind(p), UNCHANGED material,
           p = "eudi" => bridge \/ Gone(p)
    PROVE  /\ project' \in [Projects -> {"absent", "partial", "up"}]
           /\ bridge' \in BOOLEAN /\ stuck' \subseteq Projects
           /\ \A q \in Projects \ {p} : project'[q] = project[q] /\ (q \in stuck <=> q \in stuck')
           /\ p # "marty" => (bridge => bridge')
           /\ Gone(p)'
           /\ \A q \in Projects : Gone(q) => Gone(q)'
           /\ GoesAway(p) => project'[p] = "absent"
           /\ project[p] = "absent" => project'[p] = "absent"
<1>1. CASE GoesAway(p)
  <2>1. /\ project' = [project EXCEPT ![p] = "absent"] /\ stuck' = stuck \ {p}
        /\ IF p = "marty" THEN bridge' \in BridgesLeft ELSE bridge' = bridge
    BY <1>1 DEF GoesAway
  <2>2. BridgesLeft \subseteq BOOLEAN
    BY DEF BridgesLeft, Types
  <2>3. bridge' \in BOOLEAN
    BY <2>1, <2>2 DEF Types
  <2>4. p # "marty" => (bridge => bridge')
    BY <2>1
  <2>5. /\ project' \in [Projects -> {"absent", "partial", "up"}] /\ stuck' \subseteq Projects
        /\ project'[p] = "absent"
        /\ \A q \in Projects \ {p} : project'[q] = project[q] /\ (q \in stuck <=> q \in stuck')
    BY <2>1 DEF Types
  <2>6. Gone(p)' /\ \A q \in Projects : Gone(q) => Gone(q)'
    BY <2>5 DEF Gone
  <2> QED
    BY <2>3, <2>4, <2>5, <2>6
<1>2. CASE StaysBehind(p)
  <2>1. /\ project' = project \/ (project[p] # "absent" /\ project' = [project EXCEPT ![p] = "partial"])
        /\ stuck' = IF Accepts(p) THEN stuck \cup {p} ELSE stuck
        /\ bridge' = bridge
    BY <1>2 DEF StaysBehind
  <2>2. bridge' \in BOOLEAN /\ (bridge => bridge')
    BY <2>1 DEF Types
  <2>3. /\ project' \in [Projects -> {"absent", "partial", "up"}] /\ stuck' \subseteq Projects
        /\ \A q \in Projects \ {p} : project'[q] = project[q] /\ (q \in stuck <=> q \in stuck')
        /\ project[p] = "absent" => project'[p] = "absent"
        /\ stuck \subseteq stuck'
    BY <2>1 DEF Types
  <2>4. \A q \in Projects : Gone(q) => Gone(q)'
    BY <2>3 DEF Gone
  <2>5. Gone(p)'
    <3>1. CASE Accepts(p)
      BY <3>1, <2>1 DEF Gone
    <3>2. CASE ~Accepts(p)
      <4>1. (p = "oidf" /\ ~material) \/ (p = "eudi" /\ ~bridge)
        BY <3>2 DEF Accepts, OidfAccepts, EudiAccepts
      <4>2. p = "oidf" /\ ~material => Gone(p)
        BY DEF Gone
      <4> QED
        BY <4>1, <4>2, <2>4
    <3> QED
      BY <3>1, <3>2
  <2>6. ~GoesAway(p) \/ project'[p] = "absent"
    BY DEF GoesAway, Types
  <2> QED
    BY <2>2, <2>3, <2>4, <2>5, <2>6
<1> QED
  BY <1>1, <1>2
-----------------------------------------------------------------------------
(* Every step keeps the invariant of the front end.                        *)

LEMMA SameSelection ==
    ASSUME UNCHANGED suite
    PROVE  Entries' = Entries /\ Selected' = Selected /\ (Staged' <=> Staged)
<1>1. Entries' = Entries
  BY DEF Entries
<1>2. Selected' = Selected
  BY <1>1 DEF Selected
<1>3. Staged' <=> Staged
  BY DEF Staged
<1> QED
  BY <1>1, <1>2, <1>3

\* Where nothing is started or stopped, what there is stays as it is.
LEMMA ExtentStays ==
    ASSUME Extent, UNCHANGED <<project, bridge, stuck, suite, action, fresh, started>>
    PROVE  Extent'
<1>1. Selected' = Selected
  BY SameSelection
<1>2. MartyFirst(started)'
  BY DEF Extent, MartyFirst
<1> QED
  BY <1>1, <1>2 DEF Extent

LEMMA EndKeeps ==
    ASSUME Types', Extent', Settled', compose' = "ended"
    PROVE  ComposeInv'
BY DEF ComposeInv, Staging, Rising, Falling, Unwinding

LEMMA CallKeeps ==
    ASSUME ComposeInv, NEW a \in {"up", "down", "logs"}, NEW keep \in BOOLEAN, Call(a, keep)
    PROVE  ComposeInv'
<1>1. /\ action' = a /\ retain' = keep
      /\ fresh' = IF a = "up" THEN \A p \in Others : project[p] = "absent" ELSE fresh
      /\ compose' = "begin" /\ todo' = <<>> /\ started' = <<>> /\ code' = "none"
      /\ UNCHANGED suite /\ UNCHANGED dockerVars /\ UNCHANGED fileVars
  BY DEF Call
<1>2. UNCHANGED <<project, bridge, stuck, served, material, authority>>
  BY <1>1 DEF dockerVars, fileVars
<1>3. fresh' \in BOOLEAN /\ (a = "up" /\ fresh' => \A p \in Others : project[p] = "absent") /\ (a # "up" => fresh' = fresh)
  BY <1>1 DEF ComposeInv, Types
<1>4. Types'
  BY <1>1, <1>2, <1>3, NoProject DEF ComposeInv, Types, Phases
<1>5. Selected' = Selected
  BY <1>1, SameSelection
<1>6. ToSet(started)' = {} /\ MartyFirst(started)'
  BY <1>1, NoProject DEF MartyFirst
<1>7. fresh' /\ project'["eudi"] # "absent" => bridge' \/ "eudi" \in stuck'
  <2>1. CASE a = "up"
    BY <2>1, <1>2, <1>3 DEF Others, Projects
  <2>2. CASE a # "up"
    BY <2>2, <1>2, <1>3 DEF ComposeInv, Extent
  <2> QED
    BY <2>1, <2>2
<1>8. Extent'
  BY <1>1, <1>2, <1>3, <1>5, <1>6, <1>7 DEF ComposeInv, Extent
<1> QED
  BY <1>1, <1>4, <1>8 DEF ComposeInv, Staging, Rising, Falling, Unwinding, Settled

LEMMA BeginRaisesKeeps == ASSUME ComposeInv, BeginRaises PROVE ComposeInv'
<1>1. /\ compose = "begin" /\ compose' = "ended" /\ todo' = <<>> /\ code' = "raised" /\ started' = started
      /\ UNCHANGED <<suite, action, retain, fresh, project, bridge, stuck, served, material, authority>>
  BY DEF BeginRaises, End, requestVars, dockerVars, fileVars
<1>2. Types'
  BY <1>1, NoProject DEF ComposeInv, Types, Phases
<1>3. Extent'
  BY <1>1, ExtentStays DEF ComposeInv
<1>4. started' = <<>> /\ ToSet(started)' = {}
  BY <1>1, NoProject DEF ComposeInv, Staging
<1>5. Settled'
  BY <1>1, <1>4 DEF Settled
<1> QED
  BY <1>1, <1>2, <1>3, <1>5, EndKeeps

\* The loop of "up" or "down" begins: nothing has been started, or Marty.
LEMMA BeginKeeps == ASSUME ComposeInv, Begin PROVE ComposeInv'
<1>1. /\ compose = "begin" /\ UNCHANGED <<started, code>>
      /\ UNCHANGED <<suite, action, retain, fresh, project, bridge, stuck, served, material, authority, leaf>>
  BY DEF Begin, requestVars, dockerVars, fileVars
<1>2. todo = <<>> /\ started = <<>> /\ code = "none" /\ ToSet(started) = {}
  BY <1>1, NoProject DEF ComposeInv, Staging
<1>3. Extent'
  BY <1>1, ExtentStays DEF ComposeInv
<1>4. Entries' = Entries /\ Selected' = Selected /\ (Staged' <=> Staged)
  BY <1>1, SameSelection
<1>5. suite \in [Flags -> BOOLEAN]
  BY DEF ComposeInv, Types
<1>6. CASE compose' = "each" /\ todo' = Components(action)
  <2>1. CASE action = "up"
    <3>1. todo' = Entries /\ ~Staged
      BY <1>1, <1>2, <1>6, <2>1, <1>5, EntriesInOrder DEF Begin, Components
    <3>2. Types'
      BY <1>1, <1>2, <1>5, <1>6, <3>1, EntriesInOrder DEF ComposeInv, Types, Phases
    <3>3. MartyFirst(todo)' /\ ToSet(todo)' = Selected
      BY <3>1, <1>5, EntriesInOrder DEF Selected, MartyFirst
    <3>4. Rising'
      BY <1>1, <1>2, <1>4, <1>6, <3>1, <3>3 DEF Rising
    <3> QED
      BY <1>1, <1>3, <1>6, <2>1, <3>2, <3>4 DEF ComposeInv, Staging, Falling, Unwinding, Settled
  <2>2. CASE action # "up"
    <3>1. todo' = Reverse(Entries)
      BY <1>6, <2>2 DEF Components
    <3>2. Reverse(Entries) \in Seq(Projects) /\ MartyLast(Reverse(Entries)) /\ ToSet(Reverse(Entries)) = Selected
      BY <1>5, EntriesInOrder, ReversedList DEF Selected
    <3>3. Types'
      BY <1>1, <1>2, <1>6, <3>1, <3>2 DEF ComposeInv, Types, Phases
    <3>4. Falling'
      BY <1>1, <1>2, <1>4, <3>1, <3>2 DEF Falling, MartyLast
    <3> QED
      BY <1>1, <1>3, <1>6, <2>2, <3>3, <3>4 DEF ComposeInv, Staging, Rising, Unwinding, Settled
  <2> QED
    BY <2>1, <2>2
<1>7. CASE action = "up" /\ todo' = todo /\ ((compose' = "cache" /\ suite["local"]) \/ (compose' = "base" /\ Staged))
  <2>1. Types'
    BY <1>1, <1>7 DEF ComposeInv, Types, Phases
  <2> QED
    BY <1>1, <1>2, <1>3, <1>4, <1>7, <2>1 DEF ComposeInv, Staging, Rising, Falling, Unwinding, Settled
<1> QED
  BY <1>6, <1>7 DEF Begin

LEMMA CacheCheckKeeps == ASSUME ComposeInv, CacheCheck PROVE ComposeInv'
<1>1. /\ compose = "cache" /\ UNCHANGED started
      /\ UNCHANGED <<suite, action, retain, fresh, project, bridge, stuck, served, material, authority, leaf>>
  BY DEF CacheCheck, requestVars, dockerVars, fileVars
<1>2. /\ todo = <<>> /\ started = <<>> /\ code = "none" /\ ToSet(started) = {}
      /\ action = "up" /\ suite["local"] /\ ToSet(started)' = {}
  BY <1>1, NoProject DEF ComposeInv, Staging
<1>3. Extent'
  BY <1>1, ExtentStays DEF ComposeInv
<1>4. Entries' = Entries /\ Selected' = Selected /\ (Staged' <=> Staged)
  BY <1>1, SameSelection
<1>5. suite \in [Flags -> BOOLEAN]
  BY DEF ComposeInv, Types
<1>6. CASE compose' = "each" /\ todo' = Components("up") /\ ~Staged /\ code' = code
  <2>1. todo' = Entries
    BY <1>6 DEF Components
  <2>2. Types'
    BY <1>1, <1>2, <1>5, <1>6, <2>1, EntriesInOrder DEF ComposeInv, Types, Phases
  <2>3. MartyFirst(todo)' /\ ToSet(todo)' = Selected
    BY <2>1, <1>5, EntriesInOrder DEF Selected, MartyFirst
  <2>4. Rising'
    BY <1>1, <1>2, <1>4, <1>6, <2>1, <2>3 DEF Rising
  <2> QED
    BY <1>1, <1>2, <1>3, <1>6, <2>2, <2>4 DEF ComposeInv, Staging, Falling, Unwinding, Settled
<1>7. CASE compose' = "base" /\ Staged /\ todo' = todo /\ code' = code
  <2>1. Types'
    BY <1>1, <1>7 DEF ComposeInv, Types, Phases
  <2> QED
    BY <1>1, <1>2, <1>3, <1>4, <1>7, <2>1 DEF ComposeInv, Staging, Rising, Falling, Unwinding, Settled
<1>8. CASE compose' = "ended" /\ todo' = <<>> /\ code' \in {"nonzero", "raised"}
  <2>1. Types'
    BY <1>1, <1>8, NoProject DEF ComposeInv, Types, Phases
  <2>2. Settled'
    BY <1>1, <1>2, <1>8 DEF Settled
  <2> QED
    BY <1>3, <1>8, <2>1, <2>2, EndKeeps
<1> QED
  BY <1>6, <1>7, <1>8 DEF CacheCheck, End

\* A start that fails is unwound, in the order opposite to its own, unless the
\* caller wants to look first.
LEMMA UnwindKeeps ==
    ASSUME NEW r \in {"nonzero", "raised"}, Unwind(r), Types, action' = "up", fresh' = fresh, suite' = suite,
           retain' = retain, action = "up",
           project' \in [Projects -> {"absent", "partial", "up"}], bridge' \in BOOLEAN, stuck' \subseteq Projects,
           material' = material, authority' \in BOOLEAN,
           started' \in Seq(Projects), started' # <<>> \/ r = "raised", Extent', bridge' \/ "eudi" \notin ToSet(started')
    PROVE  ComposeInv'
<1>1. MartyFirst(started') /\ Selected' = Selected
  BY SameSelection DEF Extent, MartyFirst
<1>2. Reverse(started') \in Seq(Projects) /\ MartyLast(Reverse(started')) /\ ToSet(Reverse(started')) = ToSet(started')
  BY <1>1, ReversedList
<1>3. CASE retain /\ End(r)
  <2>1. compose' = "ended" /\ todo' = <<>> /\ code' = r
    BY <1>3 DEF End
  <2>2. Types'
    BY <2>1, NoProject DEF Types, Phases
  <2>3. Settled'
    BY <1>3, <2>1 DEF Settled
  <2> QED
    BY <2>1, <2>2, <2>3, EndKeeps
<1>4. CASE ~retain /\ compose' = "unwind" /\ todo' = Reverse(started') /\ code' = r
  <2>1. Types'
    BY <1>2, <1>4 DEF Types, Phases
  <2>2. Unwinding'
    <3>1. MartyLast(todo)' /\ ToSet(todo)' = ToSet(started)'
      BY <1>2, <1>4 DEF MartyLast
    <3> QED
      BY <3>1, <1>4 DEF Unwinding
  <2> QED
    BY <1>4, <2>1, <2>2 DEF ComposeInv, Staging, Rising, Falling, Settled
<1> QED
  BY <1>3, <1>4 DEF Unwind

\* An exception that is not unwound leaves what was started.
LEMMA EscapeKeeps ==
    ASSUME Escape, MayEscape, Types, UNCHANGED <<suite, action, retain, fresh, material>>,
           project' \in [Projects -> {"absent", "partial", "up"}], bridge' \in BOOLEAN, stuck' \subseteq Projects,
           action = "up", authority' \in BOOLEAN, started' \in Seq(Projects), started' # <<>>, Extent'
    PROVE  ComposeInv'
<1>1. compose' = "ended" /\ todo' = <<>> /\ code' = "escaped"
  BY DEF Escape, End
<1>2. Types'
  BY <1>1, NoProject DEF Types, Phases
<1>3. MayEscape'
  BY SameSelection DEF MayEscape
<1>4. Settled'
  BY <1>1, <1>3 DEF Settled
<1> QED
  BY <1>1, <1>2, <1>4, EndKeeps

LEMMA BaseUpKeeps == ASSUME ComposeInv, BaseUp PROVE ComposeInv'
<1>1. /\ compose = "base" /\ started' = <<"marty">>
      /\ UNCHANGED <<suite, action, retain, fresh, material, authority, leaf>>
  BY DEF BaseUp, requestVars, fileVars
<1>2. Types /\ action = "up" /\ todo = <<>> /\ code = "none" /\ Staged /\ "marty" \in Projects
  BY <1>1 DEF ComposeInv, Staging, Projects
<1>3. suite \in [Flags -> BOOLEAN] /\ Selected' = Selected /\ (Staged' <=> Staged) /\ "marty" \in Selected
      /\ Selected \subseteq Projects
  BY <1>1, <1>2, SameSelection, EntriesInOrder DEF Types, Projects
<1>4. /\ started' \in Seq(Projects) /\ started' # <<>> /\ ToSet(started)' = {"marty"} /\ MartyFirst(started)'
      /\ ToSet(started) = {}
  BY <1>1, OneProject, NoProject DEF Projects, MartyFirst, ComposeInv, Staging
<1>5. ASSUME \A q \in Projects \ {"marty"} : project'[q] = project[q], bridge => bridge',
             \A q \in Projects \ {"marty"} : q \in stuck => q \in stuck'
      PROVE  Extent'
  <2>1. Others = Projects \ {"marty"} /\ "eudi" \in Others
    BY DEF Others, Projects
  <2>2. \A p \in Others : project[p] = "absent" => project'[p] = "absent"
    BY <1>5, <2>1
  <2>3. \A p \in Projects \ Selected : project'[p] = "absent"
    BY <1>3, <1>5 DEF ComposeInv, Extent
  <2>4. fresh' /\ project'["eudi"] # "absent" => bridge' \/ "eudi" \in stuck'
    BY <1>1, <1>5, <2>1 DEF ComposeInv, Extent, Projects
  <2>5. action' = "up" /\ fresh' => \A p \in Others \ ToSet(started)' : project'[p] = "absent"
    BY <1>1, <1>4, <2>1, <2>2 DEF ComposeInv, Extent
  <2> QED
    BY <1>1, <1>2, <1>3, <1>4, <2>3, <2>4, <2>5 DEF Extent
<1>6. CASE ComesUp("marty", "none") /\ compose' = "stage" /\ todo' = todo /\ code' = code
  <2>1. /\ project' \in [Projects -> {"absent", "partial", "up"}]
        /\ bridge' \in BOOLEAN /\ stuck' \subseteq Projects
        /\ project'["marty"] = "up" /\ \A q \in Projects \ {"marty"} : project'[q] = project[q]
        /\ stuck' = stuck \ {"marty"} /\ bridge'
    BY <1>2, <1>6, WhenItComesUp
  <2>2. Extent'
    BY <1>5, <2>1
  <2>3. Types'
    BY <1>1, <1>2, <1>4, <1>6, <2>1 DEF Types, Phases
  <2> QED
    BY <1>1, <1>2, <1>3, <1>6, <2>1, <2>2, <2>3 DEF ComposeInv, Staging, Rising, Falling, Unwinding, Settled
<1>7. CASE FailsToComeUp("marty", "none") /\ Unwind("nonzero")
  <2>1. /\ project' \in [Projects -> {"absent", "partial", "up"}]
        /\ bridge' \in BOOLEAN /\ (bridge => bridge') /\ stuck' = stuck
        /\ \A q \in Projects \ {"marty"} : project'[q] = project[q]
    BY <1>2, <1>7, WhenItFailsToComeUp
  <2>2. Extent'
    BY <1>5, <2>1
  <2> QED
    BY <1>1, <1>2, <1>4, <1>7, <2>1, <2>2, UnwindKeeps DEF Types
<1> QED
  BY <1>6, <1>7 DEF BaseUp

\* The certificate is staged, or it is not: nothing is started or stopped.
LEMMA StageKeeps == ASSUME ComposeInv, Stage \/ StageFails PROVE ComposeInv'
<1>1. /\ compose = "stage" /\ started' = started
      /\ UNCHANGED <<suite, action, retain, fresh, project, bridge, stuck, served, material>>
  BY DEF Stage, StageFails, requestVars, dockerVars
<1>2. /\ Types /\ action = "up" /\ todo = <<>> /\ code = "none" /\ Staged /\ started = <<"marty">>
      /\ project["marty"] = "up" /\ bridge
  BY <1>1 DEF ComposeInv, Staging
<1>3. Selected' = Selected /\ (Staged' <=> Staged)
  BY <1>1, SameSelection
<1>4. Extent'
  BY <1>1, ExtentStays DEF ComposeInv
<1>5. authority' \in BOOLEAN
  <2>1. (suite["oidf"] \/ suite["eudi"]) \in BOOLEAN
    OBVIOUS
  <2> QED
    BY <2>1, <1>2 DEF Stage, StageFails, Types
<1>6. CASE Stage
  <2>1. compose' = "resume" /\ leaf' = "startup" /\ todo' = todo /\ code' = code
    BY <1>6 DEF Stage
  <2>2. Types'
    BY <1>1, <1>2, <1>5, <2>1 DEF Types, Phases
  <2> QED
    BY <1>1, <1>2, <1>3, <1>4, <2>1, <2>2 DEF ComposeInv, Staging, Rising, Falling, Unwinding, Settled
<1>7. CASE StageFails
  <2>1. Unwind("raised") \/ Escape
    BY <1>7 DEF StageFails
  <2>2. started' \in Seq(Projects) /\ started' # <<>> /\ "eudi" \notin ToSet(started')
    BY <1>1, <1>2, OneProject DEF Projects
  <2>3. CASE Unwind("raised")
    BY <1>1, <1>2, <1>4, <1>5, <2>2, <2>3, UnwindKeeps DEF Types
  <2>4. CASE Escape
    BY <1>1, <1>2, <1>4, <1>5, <2>2, <2>4, EscapeKeeps DEF MayEscape, Types
  <2> QED
    BY <2>1, <2>3, <2>4
<1> QED
  BY <1>6, <1>7
LEMMA ResumeUpKeeps == ASSUME ComposeInv, ResumeUp PROVE ComposeInv'
<1>1. /\ compose = "resume" /\ started' = started
      /\ UNCHANGED <<suite, action, retain, fresh, material, authority, leaf>>
  BY DEF ResumeUp, requestVars, fileVars
<1>2. /\ Types /\ action = "up" /\ todo = <<>> /\ code = "none" /\ Staged /\ "marty" \in Projects
      /\ started = <<"marty">> /\ bridge /\ leaf = "startup"
  BY <1>1 DEF ComposeInv, Staging, Projects
<1>3. suite \in [Flags -> BOOLEAN] /\ Selected' = Selected /\ (Staged' <=> Staged)
      /\ Selected \subseteq Projects /\ "marty" \in Selected
  BY <1>1, <1>2, SameSelection, EntriesInOrder DEF Types, Projects
<1>4. /\ started' \in Seq(Projects) /\ started' # <<>> /\ ToSet(started)' = {"marty"} /\ MartyFirst(started)'
      /\ ToSet(started) = {"marty"}
  BY <1>1, <1>2, OneProject DEF Projects, MartyFirst
<1>5. ASSUME \A q \in Projects \ {"marty"} : project'[q] = project[q], bridge'
      PROVE  Extent'
  <2>1. \A p \in Projects \ Selected : project'[p] = "absent"
    BY <1>3, <1>5 DEF ComposeInv, Extent
  <2>2. action' = "up" /\ fresh' => \A p \in Others \ ToSet(started)' : project'[p] = "absent"
    BY <1>1, <1>4, <1>5 DEF ComposeInv, Extent, Others
  <2> QED
    BY <1>1, <1>2, <1>3, <1>4, <1>5, <2>1, <2>2 DEF Extent
<1>6. CASE ComesUp("marty", leaf) /\ compose' = "each" /\ todo' = Tail(Entries) /\ code' = code
  <2>1. /\ project' \in [Projects -> {"absent", "partial", "up"}]
        /\ bridge' \in BOOLEAN /\ stuck' \subseteq Projects
        /\ project'["marty"] = "up" /\ \A q \in Projects \ {"marty"} : project'[q] = project[q]
        /\ bridge' /\ served' = leaf
    BY <1>2, <1>6, WhenItComesUp
  <2>2. Extent'
    BY <1>5, <2>1
  <2>3. Types'
    BY <1>1, <1>2, <1>3, <1>4, <1>6, <2>1, EntriesInOrder DEF Types, Phases
  <2>4. MartyFirst(todo)' /\ ToSet(todo)' = ToSet(Tail(Entries))
    BY <1>3, <1>6, EntriesInOrder DEF MartyFirst
  <2>5. /\ "marty" \notin ToSet(todo)' /\ ToSet(started)' \cup ToSet(todo)' = Selected
    BY <2>4, <1>3, <1>4, EntriesInOrder
  <2>6. Rising'
    BY <1>1, <1>2, <1>3, <1>4, <1>6, <2>1, <2>4, <2>5 DEF Rising
  <2> QED
    BY <1>1, <1>2, <1>6, <2>2, <2>3, <2>6 DEF ComposeInv, Staging, Falling, Unwinding, Settled
<1>7. CASE FailsToComeUp("marty", leaf) /\ Unwind("nonzero")
  <2>1. /\ project' \in [Projects -> {"absent", "partial", "up"}]
        /\ bridge' \in BOOLEAN /\ (bridge => bridge') /\ stuck' = stuck
        /\ \A q \in Projects \ {"marty"} : project'[q] = project[q]
    BY <1>2, <1>7, WhenItFailsToComeUp
  <2>2. Extent'
    BY <1>2, <1>5, <2>1
  <2> QED
    BY <1>1, <1>2, <1>4, <1>7, <2>1, <2>2, UnwindKeeps DEF Types
<1> QED
  BY <1>6, <1>7 DEF ResumeUp

\* The project whose turn it is in the loop of "up".
LEMMA NextUp ==
    ASSUME ComposeInv, compose = "each", action = "up", todo # <<>>,
           started' = Append(started, Head(todo)), UNCHANGED <<suite, action, fresh>>
    PROVE  /\ Head(todo) \in Selected /\ Selected' = Selected /\ Selected \subseteq Projects
           /\ Tail(todo) \in Seq(Projects) /\ MartyFirst(Tail(todo)) /\ "marty" \notin ToSet(Tail(todo))
           /\ ToSet(todo) = {Head(todo)} \cup ToSet(Tail(todo))
           /\ started' \in Seq(Projects) /\ started' # <<>> /\ ToSet(started') = ToSet(started) \cup {Head(todo)}
           /\ ToSet(started') \cup ToSet(Tail(todo)) = Selected
           /\ Head(todo) = "marty" <=> started = <<>>
           /\ (/\ \A q \in Projects \ {Head(todo)} : project'[q] = project[q]
               /\ Head(todo) = "marty" => (bridge => bridge') /\ stuck \ {"marty"} = stuck' \ {"marty"}
               /\ Head(todo) # "marty" => bridge') => Extent'
<1> DEFINE p == Head(todo)
<1>1. /\ Types /\ code = "none" /\ MartyFirst(todo) /\ ToSet(started) \cup ToSet(todo) = Selected
      /\ "marty" \in ToSet(todo) => started = <<>>
  BY DEF ComposeInv, Rising
<1>2. /\ p \in Projects /\ Tail(todo) \in Seq(Projects) /\ ToSet(todo) = {p} \cup ToSet(Tail(todo))
      /\ MartyFirst(Tail(todo)) /\ "marty" \notin ToSet(Tail(todo)) /\ ("marty" \in ToSet(todo) => p = "marty")
  BY <1>1, ListTail DEF Types
<1>3. suite \in [Flags -> BOOLEAN] /\ Selected' = Selected /\ Selected \subseteq Projects /\ "marty" \in Selected
  BY <1>1, SameSelection, EntriesInOrder DEF Types, Projects
<1>4. p = "marty" <=> started = <<>>
  <2>1. p = "marty" => started = <<>>
    BY <1>1, <1>2
  <2>2. started = <<>> => ToSet(started) = {}
    BY NoProject
  <2> QED
    BY <2>1, <2>2, <1>1, <1>2, <1>3
<1> HIDE DEF p
<1>5. /\ started' \in Seq(Projects) /\ started' # <<>> /\ ToSet(started') = ToSet(started) \cup {p}
      /\ MartyFirst(started) /\ (p = "marty" => started = <<>>) => MartyFirst(started')
  <2>1. started' = Append(started, p)
    BY DEF p
  <2> QED
    BY <2>1, <1>1, <1>2, ListAppend DEF Types
<1>6. MartyFirst(started)'
  <2>1. MartyFirst(started')
    BY <1>4, <1>5 DEF ComposeInv, Extent
  <2> QED
    BY <2>1 DEF MartyFirst
<1>7. ASSUME /\ \A q \in Projects \ {p} : project'[q] = project[q]
             /\ p = "marty" => (bridge => bridge') /\ stuck \ {"marty"} = stuck' \ {"marty"}
             /\ p # "marty" => bridge'
      PROVE  Extent'
  <2>1. p \in Selected /\ ToSet(started') \subseteq Selected
    BY <1>1, <1>2, <1>5
  <2>2. \A q \in Projects \ Selected : project'[q] = "absent"
    BY <1>7, <2>1 DEF ComposeInv, Extent
  <2>3. "marty" \in ToSet(started')
    BY <1>4, <1>5 DEF ComposeInv, Extent
  <2>4. fresh' => \A q \in Others \ ToSet(started)' : project'[q] = "absent"
    <3> SUFFICES ASSUME fresh, NEW q \in Others \ ToSet(started)' PROVE project'[q] = "absent"
      OBVIOUS
    <3>1. q # p /\ q \in Others \ ToSet(started) /\ q \in Projects
      BY <1>5 DEF Others
    <3> QED
      BY <3>1, <1>7 DEF ComposeInv, Extent
  <2>5. fresh' /\ project'["eudi"] # "absent" => bridge' \/ "eudi" \in stuck'
    <3>1. CASE p = "marty"
      <4>1. project'["eudi"] = project["eudi"]
        BY <3>1, <1>7 DEF Projects
      <4>2. "eudi" \in stuck => "eudi" \in stuck'
        BY <3>1, <1>7
      <4> QED
        BY <3>1, <4>1, <4>2, <1>7 DEF ComposeInv, Extent
    <3>2. CASE p # "marty"
      BY <3>2, <1>7
    <3> QED
      BY <3>1, <3>2
  <2> QED
    BY <1>3, <1>6, <2>1, <2>2, <2>3, <2>4, <2>5 DEF Extent
<1>8. p \in Selected /\ ToSet(started') \cup ToSet(Tail(todo)) = Selected
  BY <1>1, <1>2, <1>5
<1> QED
  BY <1>2, <1>3, <1>4, <1>5, <1>7, <1>8 DEF p

LEMMA EachUpKeeps == ASSUME ComposeInv, EachUp PROVE ComposeInv'
<1> DEFINE p == Head(todo)
<1>1. /\ compose = "each" /\ action = "up" /\ todo # <<>> /\ started' = Append(started, p)
      /\ UNCHANGED <<suite, action, retain, fresh, material, authority, leaf>>
      /\ \/ /\ ComesUp(p, Certificate) /\ compose' = IF p = "eudi" THEN "readiness" ELSE "each"
            /\ todo' = Tail(todo) /\ code' = code
         \/ FailsToComeUp(p, Certificate) /\ (Unwind("nonzero") \/ (p = "eudi" /\ Escape))
  BY DEF EachUp, requestVars, fileVars
<1>2. /\ Types /\ code = "none" /\ (Staged => started # <<>>)
      /\ \A q \in ToSet(started) : project[q] = "up"
      /\ started # <<>> =>
              /\ bridge
              /\ suite["haip"] => served = IF Staged THEN "startup" ELSE "external"
  BY <1>1 DEF ComposeInv, Rising
<1>3. /\ p \in Selected /\ Selected' = Selected /\ Selected \subseteq Projects
      /\ Tail(todo) \in Seq(Projects) /\ MartyFirst(Tail(todo)) /\ "marty" \notin ToSet(Tail(todo))
      /\ started' \in Seq(Projects) /\ started' # <<>> /\ ToSet(started') = ToSet(started) \cup {p}
      /\ ToSet(started') \cup ToSet(Tail(todo)) = Selected
      /\ p = "marty" <=> started = <<>>
      /\ (/\ \A q \in Projects \ {p} : project'[q] = project[q]
          /\ p = "marty" => (bridge => bridge') /\ stuck \ {"marty"} = stuck' \ {"marty"}
          /\ p # "marty" => bridge') => Extent'
  BY <1>1, NextUp
<1>4. Staged' <=> Staged
  BY <1>1, SameSelection
<1> HIDE DEF p
<1>5. CASE /\ ComesUp(p, Certificate) /\ compose' = IF p = "eudi" THEN "readiness" ELSE "each"
           /\ todo' = Tail(todo) /\ code' = code
  <2>1. /\ project' \in [Projects -> {"absent", "partial", "up"}]
        /\ bridge' \in BOOLEAN /\ stuck' \subseteq Projects
        /\ project'[p] = "up" /\ \A q \in Projects \ {p} : project'[q] = project[q]
        /\ stuck' = stuck \ {p}
        /\ bridge \/ p \in {"marty", "eudi"} => bridge'
        /\ IF p = "marty" THEN served' = Certificate ELSE served' = served
    BY <1>2, <1>3, <1>5, WhenItComesUp
  <2>2. bridge'
    BY <1>2, <1>3, <2>1
  <2>3. Extent'
    BY <1>3, <2>1, <2>2
  <2>4. Types'
    BY <1>1, <1>2, <1>3, <1>5, <2>1 DEF Types, Phases
  <2>5. MartyFirst(todo)' /\ ToSet(todo)' = ToSet(Tail(todo))
    BY <1>3, <1>5 DEF MartyFirst
  <2>6. \A q \in ToSet(started)' : project'[q] = "up"
    BY <1>2, <1>3, <2>1
  <2>7. suite["haip"] => served' = IF Staged THEN "startup" ELSE "external"
    <3>1. CASE p = "marty"
      BY <3>1, <2>1, <1>2, <1>3 DEF Certificate, Staged
    <3>2. CASE p # "marty"
      BY <3>2, <2>1, <1>2, <1>3
    <3> QED
      BY <3>1, <3>2
  <2>8. Rising'
    BY <1>1, <1>2, <1>3, <1>4, <1>5, <2>2, <2>5, <2>6, <2>7 DEF Rising
  <2> QED
    BY <1>1, <1>5, <2>3, <2>4, <2>8 DEF ComposeInv, Staging, Falling, Unwinding, Settled
<1>6. CASE FailsToComeUp(p, Certificate) /\ (Unwind("nonzero") \/ (p = "eudi" /\ Escape))
  <2>1. /\ project' \in [Projects -> {"absent", "partial", "up"}]
        /\ bridge' \in BOOLEAN /\ (bridge => bridge') /\ stuck' = stuck
        /\ \A q \in Projects \ {p} : project'[q] = project[q]
    BY <1>2, <1>3, <1>6, WhenItFailsToComeUp
  <2>2. p # "marty" => bridge'
    BY <1>2, <1>3, <2>1
  <2>3. Extent'
    BY <1>3, <2>1, <2>2
  <2>4. bridge' \/ "eudi" \notin ToSet(started')
    <3>1. CASE p = "marty"
      BY <3>1, <1>3, NoProject
    <3>2. CASE p # "marty"
      BY <3>2, <2>2
    <3> QED
      BY <3>1, <3>2
  <2>5. CASE Unwind("nonzero")
    BY <1>1, <1>2, <1>3, <1>6, <2>1, <2>3, <2>4, <2>5, UnwindKeeps DEF Types
  <2>6. CASE p = "eudi" /\ Escape
    <3>1. MayEscape
      BY <1>2, <1>3, <2>6, EntriesInOrder DEF MayEscape, Types
    <3> QED
      BY <1>1, <1>2, <1>3, <1>6, <2>1, <2>3, <2>6, <3>1, EscapeKeeps DEF Types
  <2> QED
    BY <1>6, <2>5, <2>6
<1> QED
  BY <1>1, <1>5, <1>6

LEMMA CommandRaisesKeeps == ASSUME ComposeInv, CommandRaises PROVE ComposeInv'
<1>1. UNCHANGED <<suite, action, retain, fresh, project, bridge, stuck, served, material, authority, leaf>>
  BY DEF CommandRaises, requestVars, dockerVars, fileVars
<1>2. CASE compose = "base"
  <2>1. /\ action = "up" /\ ~suite["launcher"] /\ started' = <<"marty">> /\ Escape
        /\ started = <<>> /\ "marty" \in Projects /\ "marty" \in Selected /\ Types /\ Extent
    BY <1>2, EntriesInOrder DEF CommandRaises, Buildable, ComposeInv, Staging, Types, Projects
  <2>2. /\ started' \in Seq(Projects) /\ started' # <<>> /\ ToSet(started)' = {"marty"} /\ MartyFirst(started)'
        /\ ToSet(started) = {} /\ Selected' = Selected
    BY <1>1, <2>1, OneProject, NoProject, SameSelection DEF MartyFirst
  <2>3. Extent'
    BY <1>1, <2>1, <2>2 DEF Extent, Others
  <2> QED
    BY <1>1, <2>1, <2>2, <2>3, EscapeKeeps DEF MayEscape, Types
<1>3. CASE compose # "base"
  <2>1. /\ compose = "each" /\ todo # <<>> /\ ~Buildable(Head(todo))
        /\ started' = IF action = "up" THEN Append(started, Head(todo)) ELSE started
        /\ IF action = "up" THEN Escape ELSE End("raised")
    BY <1>3 DEF CommandRaises
  <2>2. CASE action = "up"
    <3>1. /\ Head(todo) \in Selected /\ started' \in Seq(Projects) /\ started' # <<>>
          /\ Head(todo) = "marty" <=> started = <<>>
          /\ (/\ \A q \in Projects \ {Head(todo)} : project'[q] = project[q]
              /\ Head(todo) = "marty" => (bridge => bridge') /\ stuck \ {"marty"} = stuck' \ {"marty"}
              /\ Head(todo) # "marty" => bridge') => Extent'
      BY <1>1, <2>1, <2>2, NextUp
    <3>2. Head(todo) # "marty" => bridge
      BY <2>1, <2>2, <3>1 DEF ComposeInv, Rising
    <3>3. Extent'
      BY <1>1, <3>1, <3>2
    <3>4. MayEscape
      BY <2>1, <3>1, EntriesInOrder DEF Buildable, MayEscape, ComposeInv, Types
    <3> QED
      BY <1>1, <2>1, <2>2, <3>1, <3>3, <3>4, EscapeKeeps DEF ComposeInv, Types
  <2>3. CASE action # "up"
    <3>1. compose' = "ended" /\ todo' = <<>> /\ code' = "raised" /\ started' = started
      BY <2>1, <2>3 DEF End
    <3>2. Extent'
      BY <1>1, <3>1, ExtentStays DEF ComposeInv
    <3>3. Types'
      BY <1>1, <3>1, NoProject DEF ComposeInv, Types, Phases
    <3>4. Settled'
      BY <1>1, <2>3, <3>1 DEF Settled
    <3> QED
      BY <3>1, <3>2, <3>3, <3>4, EndKeeps
  <2> QED
    BY <2>2, <2>3
<1> QED
  BY <1>2, <1>3

LEMMA ReadinessKeeps == ASSUME ComposeInv, Readiness PROVE ComposeInv'
<1>1. /\ compose = "readiness" /\ started' = started
      /\ UNCHANGED <<suite, action, retain, fresh, project, bridge, stuck, served, material, authority, leaf>>
  BY DEF Readiness, requestVars, dockerVars, fileVars
<1>2. Types /\ action = "up" /\ Rising
  BY <1>1 DEF ComposeInv, Staging
<1>3. Selected' = Selected /\ (Staged' <=> Staged)
  BY <1>1, SameSelection
<1>4. Extent'
  BY <1>1, ExtentStays DEF ComposeInv
<1>5. CASE compose' = "each" /\ todo' = todo /\ code' = code
  <2>1. Types'
    BY <1>1, <1>2, <1>5 DEF Types, Phases
  <2>2. ToSet(started)' = ToSet(started) /\ ToSet(todo)' = ToSet(todo) /\ (MartyFirst(todo) => MartyFirst(todo)')
    BY <1>1, <1>5 DEF MartyFirst
  <2>3. Rising'
    BY <1>1, <1>2, <1>3, <1>5, <2>2 DEF Rising
  <2> QED
    BY <1>1, <1>2, <1>4, <1>5, <2>1, <2>3 DEF ComposeInv, Staging, Falling, Unwinding, Settled
<1>6. CASE Escape
  <2>1. started # <<>> /\ "eudi" \in Selected
    BY <1>1, <1>2, NoProject DEF Rising, ComposeInv, Extent
  <2>2. suite["eudi"]
    BY <1>2, <2>1, EntriesInOrder DEF Types
  <2> QED
    BY <1>1, <1>2, <1>4, <1>6, <2>1, <2>2, EscapeKeeps DEF MayEscape, Types
<1>7. CASE Unwind("raised")
  <2>1. bridge \/ "eudi" \notin ToSet(started)
    BY <1>1, <1>2, NoProject DEF Rising
  <2> QED
    BY <1>1, <1>2, <1>4, <1>7, <2>1, UnwindKeeps DEF Types
<1> QED
  BY <1>5, <1>6, <1>7 DEF Readiness
\* The project whose turn it is in the loop of "down".
LEMMA EachDownKeeps == ASSUME ComposeInv, EachDown PROVE ComposeInv'
<1>0. PICK p : p = Head(todo)
  OBVIOUS
<1>1. /\ compose = "each" /\ action = "down" /\ todo # <<>> /\ todo' = Tail(todo)
      /\ compose' = compose /\ started' = started
      /\ UNCHANGED <<suite, action, retain, fresh, material, authority, leaf>>
      /\ (GoesAway(p) /\ FirstFailure(TRUE)) \/ (StaysBehind(p) /\ FirstFailure(FALSE))
  BY <1>0 DEF EachDown, requestVars, fileVars
<1>2. /\ Types /\ Falling /\ Extent /\ MartyLast(todo) /\ ToSet(todo) \subseteq Selected
      /\ code \in {"none", "nonzero"}
  BY <1>1 DEF ComposeInv, Falling
<1>3. /\ p \in Projects /\ Tail(todo) \in Seq(Projects) /\ ToSet(todo) = {p} \cup ToSet(Tail(todo))
      /\ MartyLast(Tail(todo)) /\ (p = "marty" => Tail(todo) = <<>>)
  BY <1>0, <1>1, <1>2, ListTail DEF Types
<1>4. Selected' = Selected
  BY <1>1, SameSelection
<1>5. (GoesAway(p) /\ code' = code) \/ (StaysBehind(p) /\ code' = "nonzero")
  BY <1>1 DEF FirstFailure
<1>6. started = <<>> /\ ToSet(started)' = {}
  BY <1>1, <1>2, NoProject DEF Extent
<1>7. CASE p = "eudi" => bridge \/ Gone(p)
  <2>1. /\ project' \in [Projects -> {"absent", "partial", "up"}]
        /\ bridge' \in BOOLEAN /\ stuck' \subseteq Projects
        /\ \A q \in Projects \ {p} : project'[q] = project[q] /\ (q \in stuck <=> q \in stuck')
        /\ p # "marty" => (bridge => bridge')
        /\ Gone(p)'
        /\ \A q \in Projects : Gone(q) => Gone(q)'
        /\ GoesAway(p) => project'[p] = "absent"
        /\ project[p] = "absent" => project'[p] = "absent"
    BY <1>1, <1>2, <1>3, <1>7, WhenItIsTornDown
  <2>2. Types'
    BY <1>1, <1>2, <1>3, <1>5, <2>1 DEF Types, Phases
  <2>3. Falling'
    <3>1. MartyLast(todo)' /\ ToSet(todo)' = ToSet(Tail(todo))
      BY <1>1, <1>3 DEF MartyLast
    <3>2. code' \in {"none", "nonzero"} /\ (code' = "none" => code = "none" /\ project'[p] = "absent")
      BY <1>2, <1>5, <2>1
    <3>3. ASSUME NEW q \in Selected, q \notin ToSet(Tail(todo))
          PROVE  /\ code' = "none" => project'[q] = "absent"
                 /\ Gone(q)' \/ (q = "eudi" /\ ~fresh)
      <4>1. CASE q = p
        BY <4>1, <2>1, <3>2
      <4>2. CASE q # p
        <5>1. q \in Projects /\ q \in Selected \ ToSet(todo)
          BY <4>2, <3>3, <1>2, <1>3, EntriesInOrder DEF Types, Projects
        <5>2. (code = "none" => project[q] = "absent") /\ (Gone(q) \/ (q = "eudi" /\ ~fresh))
          BY <5>1, <1>1, <1>2 DEF Falling
        <5> QED
          BY <5>1, <5>2, <4>2, <3>2, <2>1
      <4> QED
        BY <4>1, <4>2
    <3> QED
      BY <1>1, <1>2, <1>3, <1>4, <3>1, <3>2, <3>3 DEF Falling
  <2>4. Extent'
    <3>1. \A q \in Projects \ Selected : project'[q] = "absent"
      BY <1>2, <1>3, <2>1 DEF Extent
    <3>2. fresh' /\ project'["eudi"] # "absent" => bridge' \/ "eudi" \in stuck'
      <4> SUFFICES ASSUME fresh, project'["eudi"] # "absent", "eudi" \notin stuck' PROVE bridge'
        BY <1>1
      <4>1. p # "eudi"
        BY <2>1 DEF Gone
      <4>2. project["eudi"] # "absent" /\ "eudi" \notin stuck /\ "eudi" \in Projects
        BY <2>1, <4>1 DEF Projects
      <4>3. "eudi" \in Selected /\ bridge /\ ~Gone("eudi")
        BY <4>2, <1>2 DEF Extent, Gone
      <4>4. "eudi" \in ToSet(todo)
        BY <4>3, <1>1, <1>2 DEF Falling
      <4>5. p # "marty"
        BY <4>1, <4>4, <1>3, NoProject
      <4> QED
        BY <4>3, <4>5, <2>1
    <3>3. MartyFirst(started)'
      BY <1>1, <1>2 DEF Extent, MartyFirst
    <3> QED
      BY <1>1, <1>2, <1>4, <1>6, <3>1, <3>2, <3>3 DEF Extent
  <2> QED
    BY <1>1, <2>2, <2>3, <2>4 DEF ComposeInv, Staging, Rising, Unwinding, Settled
<1>8. CASE p = "eudi" /\ ~bridge /\ ~Gone(p)
  \* Another "up" had found the project there: the launcher refuses.
  <2>1. ~fresh
    BY <1>2, <1>8 DEF Extent, Gone
  <2>2. StaysBehind(p) /\ code' = "nonzero" /\ ~Accepts(p)
    BY <1>5, <1>8 DEF GoesAway, Accepts, EudiAccepts
  <2>3. project' = project /\ stuck' = stuck /\ bridge' = bridge
    BY <2>2 DEF StaysBehind
  <2>4. Types'
    BY <1>1, <1>2, <1>3, <2>2, <2>3 DEF Types, Phases
  <2>5. Extent'
    BY <1>1, <1>2, <2>3, ExtentStays
  <2>6. Falling'
    <3>1. MartyLast(todo)' /\ ToSet(todo)' = ToSet(Tail(todo))
      BY <1>1, <1>3 DEF MartyLast
    <3>2. \A q \in Projects : Gone(q) => Gone(q)'
      BY <1>1, <2>3 DEF Gone
    <3>3. ASSUME NEW q \in Selected, q \notin ToSet(Tail(todo))
          PROVE  Gone(q)' \/ (q = "eudi" /\ ~fresh)
      <4>1. CASE q = p
        BY <4>1, <1>8, <2>1
      <4>2. CASE q # p
        <5>1. q \in Projects /\ q \in Selected \ ToSet(todo)
          BY <4>2, <3>3, <1>2, <1>3, EntriesInOrder DEF Types, Projects
        <5>2. Gone(q) \/ (q = "eudi" /\ ~fresh)
          BY <5>1, <1>1, <1>2 DEF Falling
        <5> QED
          BY <5>1, <5>2, <3>2
      <4> QED
        BY <4>1, <4>2
    <3> QED
      BY <1>1, <1>2, <1>3, <1>4, <2>2, <3>1, <3>3 DEF Falling
  <2> QED
    BY <1>1, <2>4, <2>5, <2>6 DEF ComposeInv, Staging, Rising, Unwinding, Settled
<1> QED
  BY <1>7, <1>8

LEMMA EachLogsKeeps == ASSUME ComposeInv, EachLogs PROVE ComposeInv'
<1>1. /\ compose = "each" /\ action = "logs" /\ todo # <<>> /\ todo' = Tail(todo)
      /\ compose' = compose /\ started' = started
      /\ UNCHANGED <<suite, action, retain, fresh, project, bridge, stuck, served, material, authority, leaf>>
      /\ code' = code \/ code' = "nonzero"
  BY DEF EachLogs, FirstFailure, requestVars, dockerVars, fileVars
<1>2. Tail(todo) \in Seq(Projects)
  BY <1>1, ListTail DEF ComposeInv, Types
<1>3. Types'
  BY <1>1, <1>2 DEF ComposeInv, Types, Phases
<1>4. Extent'
  BY <1>1, ExtentStays DEF ComposeInv
<1> QED
  BY <1>1, <1>3, <1>4 DEF ComposeInv, Staging, Rising, Falling, Unwinding, Settled

LEMMA EachDoneKeeps == ASSUME ComposeInv, EachDone PROVE ComposeInv'
<1>1. /\ compose = "each" /\ todo = <<>> /\ compose' = "ended" /\ todo' = <<>> /\ started' = started
      /\ code' = IF code = "none" THEN "zero" ELSE code
      /\ UNCHANGED <<suite, action, retain, fresh, project, bridge, stuck, served, material, authority, leaf>>
  BY DEF EachDone, End, requestVars, dockerVars, fileVars
<1>2. Types'
  BY <1>1, NoProject DEF ComposeInv, Types, Phases
<1>3. Extent'
  BY <1>1, ExtentStays DEF ComposeInv
<1>4. Selected' = Selected /\ ToSet(todo) = {}
  BY <1>1, SameSelection, NoProject
<1>5. \A p : Gone(p) => Gone(p)'
  BY <1>1 DEF Gone
<1>6. action = "up" => code' = "zero"
  BY <1>1 DEF ComposeInv, Rising
<1>7. ASSUME action = "down"
      PROVE  /\ code' = "zero" => \A p \in Selected : project'[p] = "absent"
             /\ \A p \in Selected : Gone(p)' \/ (p = "eudi" /\ ~fresh)
  <2>1. code \in {"none", "nonzero"} /\ \A p \in Selected :
              /\ code = "none" => project[p] = "absent"
              /\ Gone(p) \/ (p = "eudi" /\ ~fresh)
    BY <1>1, <1>4, <1>7 DEF ComposeInv, Falling
  <2> QED
    BY <2>1, <1>1, <1>5
<1>8. Settled'
  BY <1>1, <1>4, <1>6, <1>7 DEF Settled
<1> QED
  BY <1>1, <1>2, <1>3, <1>8, EndKeeps

\* stop_started, one project and the end of it.
LEMMA StopStartedKeeps == ASSUME ComposeInv, StopStarted PROVE ComposeInv'
<1>0. PICK p : p = Head(todo)
  OBVIOUS
<1>1. /\ compose = "unwind" /\ todo # <<>> /\ todo' = Tail(todo)
      /\ compose' = compose /\ started' = started /\ code' = code
      /\ UNCHANGED <<suite, action, retain, fresh, material, authority, leaf>>
      /\ GoesAway(p) \/ StaysBehind(p)
  BY <1>0 DEF StopStarted, requestVars, fileVars
<1>2. /\ Types /\ Extent /\ Unwinding /\ action = "up"
      /\ code \in {"nonzero", "raised"} /\ ~retain /\ (started = <<>> => code = "raised")
      /\ MartyLast(todo) /\ ToSet(todo) \subseteq ToSet(started)
      /\ "eudi" \in ToSet(todo) => bridge
      /\ \A q \in ToSet(started) \ ToSet(todo) : Gone(q)
  BY <1>1 DEF ComposeInv, Staging, Unwinding
<1>3. /\ p \in Projects /\ Tail(todo) \in Seq(Projects) /\ ToSet(todo) = {p} \cup ToSet(Tail(todo))
      /\ MartyLast(Tail(todo)) /\ (p = "marty" => Tail(todo) = <<>>)
  BY <1>0, <1>1, <1>2, ListTail DEF Types
<1>4. Selected' = Selected /\ Selected \subseteq Projects
  BY <1>1, <1>2, SameSelection, EntriesInOrder DEF Types, Projects
<1>5. /\ project' \in [Projects -> {"absent", "partial", "up"}]
      /\ bridge' \in BOOLEAN /\ stuck' \subseteq Projects
      /\ \A q \in Projects \ {p} : project'[q] = project[q] /\ (q \in stuck <=> q \in stuck')
      /\ p # "marty" => (bridge => bridge')
      /\ Gone(p)'
      /\ \A q \in Projects : Gone(q) => Gone(q)'
      /\ project[p] = "absent" => project'[p] = "absent"
  BY <1>1, <1>2, <1>3, WhenItIsTornDown
<1>6. Types'
  BY <1>1, <1>2, <1>3, <1>5 DEF Types, Phases
<1>7. Extent'
  <2>1. \A q \in Projects : project[q] = "absent" => project'[q] = "absent"
    BY <1>5
  <2>2. fresh' /\ project'["eudi"] # "absent" => bridge' \/ "eudi" \in stuck'
    <3> SUFFICES ASSUME fresh, project'["eudi"] # "absent", "eudi" \notin stuck' PROVE bridge'
      BY <1>1
    <3>1. p # "eudi"
      BY <1>5 DEF Gone
    <3>2. project["eudi"] # "absent" /\ "eudi" \notin stuck /\ "eudi" \in Others
      BY <1>5, <3>1 DEF Projects, Others
    <3>3. bridge /\ ~Gone("eudi") /\ "eudi" \in ToSet(started)
      BY <3>2, <1>2 DEF Extent, Gone
    <3>4. "eudi" \in ToSet(todo)
      BY <3>3, <1>2
    <3>5. p # "marty"
      BY <3>1, <3>4, <1>3, NoProject
    <3> QED
      BY <3>3, <3>5, <1>5
  <2>3. MartyFirst(started)' /\ ToSet(started)' = ToSet(started)
    BY <1>1, <1>2 DEF Extent, MartyFirst
  <2>4. \A q \in Projects \ Selected : project'[q] = "absent"
    BY <2>1, <1>2 DEF Extent
  <2>5. fresh => \A q \in Others \ ToSet(started) : project'[q] = "absent"
    BY <2>1, <1>2 DEF Extent, Others
  <2> QED
    BY <1>1, <1>2, <1>4, <2>2, <2>3, <2>4, <2>5 DEF Extent
<1>8. Unwinding'
  <2>1. MartyLast(todo)' /\ ToSet(todo)' = ToSet(Tail(todo)) /\ ToSet(started)' = ToSet(started)
    BY <1>1, <1>3 DEF MartyLast
  <2>2. "eudi" \in ToSet(Tail(todo)) => bridge'
    BY <1>2, <1>3, <1>5, NoProject
  <2>3. ASSUME NEW q \in ToSet(started), q \notin ToSet(Tail(todo)) PROVE Gone(q)'
    <3>1. q \in Projects
      BY <1>2, <1>4 DEF Extent
    <3> QED
      BY <3>1, <2>3, <1>2, <1>3, <1>5
  <2> QED
    BY <1>1, <1>2, <1>3, <2>1, <2>2, <2>3 DEF Unwinding
<1> QED
  BY <1>1, <1>2, <1>6, <1>7, <1>8 DEF ComposeInv, Staging, Rising, Falling, Settled

LEMMA StopDoneKeeps == ASSUME ComposeInv, StopDone PROVE ComposeInv'
<1>1. /\ compose = "unwind" /\ todo = <<>> /\ compose' = "ended" /\ todo' = <<>> /\ started' = started
      /\ code' = code
      /\ UNCHANGED <<suite, action, retain, fresh, project, bridge, stuck, served, material, authority, leaf>>
  BY DEF StopDone, End, requestVars, dockerVars, fileVars
<1>2. /\ action = "up" /\ code \in {"nonzero", "raised"} /\ (started = <<>> => code = "raised")
      /\ \A p \in ToSet(started) : Gone(p)
  BY <1>1, NoProject DEF ComposeInv, Staging, Unwinding
<1>3. Types'
  BY <1>1, NoProject DEF ComposeInv, Types, Phases
<1>4. Extent'
  BY <1>1, ExtentStays DEF ComposeInv
<1>5. \A p : Gone(p) => Gone(p)'
  BY <1>1 DEF Gone
<1>6. Settled'
  <2>1. ToSet(started)' = ToSet(started)
    BY <1>1
  <2> QED
    BY <2>1, <1>1, <1>2, <1>5 DEF Settled
<1> QED
  BY <1>1, <1>3, <1>4, <1>6, EndKeeps
LEMMA MaterialKeeps == ASSUME ComposeInv, MaterialGoes PROVE ComposeInv'
<1>1. /\ material' = FALSE
      /\ UNCHANGED <<suite, action, retain, fresh, project, bridge, stuck, served, authority, leaf,
                     compose, todo, started, code>>
  BY DEF MaterialGoes, requestVars, dockerVars, composeVars
<1>2. Selected' = Selected /\ (Staged' <=> Staged)
  BY <1>1, SameSelection
<1>3. ToSet(started)' = ToSet(started) /\ ToSet(todo)' = ToSet(todo)
  BY <1>1
<1>4. (MartyFirst(todo) => MartyFirst(todo)') /\ (MartyLast(todo) => MartyLast(todo)')
  BY <1>1 DEF MartyFirst, MartyLast
<1>5. \A p : Gone(p) => Gone(p)'
  BY <1>1 DEF Gone
<1>6. Types'
  BY <1>1 DEF ComposeInv, Types
<1>7. Extent'
  BY <1>1, ExtentStays DEF ComposeInv
<1>8. Staging'
  BY <1>1, <1>2 DEF ComposeInv, Staging
<1>9. Rising'
  BY <1>1, <1>2, <1>3, <1>4 DEF ComposeInv, Rising
<1>10. Falling'
  BY <1>1, <1>2, <1>3, <1>4, <1>5 DEF ComposeInv, Falling
<1>11. Unwinding'
  BY <1>1, <1>2, <1>3, <1>4, <1>5 DEF ComposeInv, Unwinding
<1>12. Settled'
  BY <1>1, <1>2, <1>3, <1>5 DEF ComposeInv, Settled, MayEscape
<1> QED
  BY <1>6, <1>7, <1>8, <1>9, <1>10, <1>11, <1>12 DEF ComposeInv

LEMMA ComposeNextKeeps == ASSUME ComposeInv, ComposeNext PROVE ComposeInv'
BY BeginRaisesKeeps, BeginKeeps, CacheCheckKeeps, BaseUpKeeps, StageKeeps, ResumeUpKeeps, CommandRaisesKeeps,
   EachUpKeeps, ReadinessKeeps, EachDownKeeps, EachLogsKeeps, EachDoneKeeps, StopStartedKeeps, StopDoneKeeps
   DEF ComposeNext

LEMMA InitCompose == ASSUME SuiteInit PROVE ComposeInv
<1>1. /\ \E m \in {"absent", "partial"} : project = [p \in Projects |-> IF p = "marty" THEN m ELSE "absent"]
      /\ bridge = FALSE /\ stuck = {}
      /\ material = TRUE /\ authority = TRUE /\ leaf = "none"
      /\ suite \in [Flags -> BOOLEAN]
      /\ action = "none" /\ retain = FALSE /\ fresh = TRUE
      /\ compose = "idle" /\ todo = <<>> /\ started = <<>> /\ code = "none"
  BY SuitesAssumption DEF SuiteInit
<1>2. Types
  BY <1>1, NoProject DEF Types, Phases
<1>3. /\ "marty" \in Selected /\ \A p \in Projects \ {"marty"} : project[p] = "absent"
      /\ ToSet(started) = {} /\ MartyFirst(started)
  BY <1>1, EntriesInOrder, NoProject DEF MartyFirst
<1>4. Extent
  BY <1>1, <1>3 DEF Extent, Projects
<1> QED
  BY <1>1, <1>2, <1>4 DEF ComposeInv, Staging, Rising, Falling, Unwinding, Settled

\* The stuttering of the suite.
LEMMA ComposeStays == ASSUME ComposeInv, UNCHANGED suiteVars PROVE ComposeInv'
<1>1. UNCHANGED <<suite, action, retain, fresh, project, bridge, stuck, served, material, authority, leaf,
                  compose, todo, started, code>>
  BY DEF suiteVars, requestVars, dockerVars, composeVars, fileVars
<1>2. Entries' = Entries
  BY <1>1 DEF Entries
<1> QED
  BY <1>1, <1>2 DEF ComposeInv, Types, Staging, Extent, Rising, Falling, Unwinding, Settled, Gone, Selected, Staged,
     MartyFirst, MartyLast, MayEscape

-----------------------------------------------------------------------------
(* What an answer of zero says, and when Marty goes.                       *)

\* What every step of the process leaves alone.
LEMMA ComposeFrame ==
    ASSUME ComposeNext
    PROVE  compose \notin {"idle", "ended"} /\ compose' # "idle" /\ UNCHANGED <<suite, action, retain, fresh, material>>
<1> DEFINE Framed == compose \notin {"idle", "ended"} /\ compose' # "idle"
                     /\ UNCHANGED <<suite, action, retain, fresh, material>>
<1>1. \A r : Unwind(r) \/ End(r) => compose' # "idle"
  BY DEF Unwind, End
<1>2. BeginRaises \/ Begin \/ CacheCheck => Framed
  BY <1>1 DEF BeginRaises, Begin, CacheCheck, requestVars, fileVars
<1>3. BaseUp \/ Stage \/ StageFails \/ ResumeUp => Framed
  BY <1>1 DEF BaseUp, Stage, StageFails, ResumeUp, Escape, requestVars, fileVars
<1>4. CommandRaises \/ EachUp \/ Readiness \/ EachDone => Framed
  BY <1>1 DEF CommandRaises, EachUp, Readiness, EachDone, Escape, requestVars, fileVars
<1>5. EachDown \/ EachLogs \/ StopStarted \/ StopDone => Framed
  BY <1>1 DEF EachDown, EachLogs, StopStarted, StopDone, requestVars, fileVars
<1> QED
  BY <1>2, <1>3, <1>4, <1>5 DEF ComposeNext

\* Only the end of the loop answers zero.
LEMMA ZeroIsOfTheLoop ==
    ASSUME ComposeInv, ComposeNext, compose' = "ended", code' = "zero"
    PROVE  EachDone
<1>1. \A r : Unwind(r) /\ r # "zero" => code' # "zero"
  BY DEF Unwind, End
<1>2. BeginRaises \/ CacheCheck \/ CommandRaises => code' # "zero"
  BY DEF BeginRaises, CacheCheck, CommandRaises, Escape, End
<1>3. Begin \/ Stage \/ EachDown \/ EachLogs \/ StopStarted => compose' # "ended"
  BY DEF Begin, Stage, EachDown, EachLogs, StopStarted
<1>4. ~BaseUp /\ ~StageFails /\ ~ResumeUp /\ ~Readiness /\ ~EachUp
  BY <1>1 DEF BaseUp, StageFails, ResumeUp, Readiness, EachUp, Escape, End
<1>5. StopDone => code' # "zero"
  BY DEF StopDone, End, ComposeInv, Unwinding
<1> QED
  BY <1>2, <1>3, <1>4, <1>5 DEF ComposeNext

LEMMA AnswerStep ==
    ASSUME ComposeInv, ComposeNext, compose' = "ended", code' = "zero"
    PROVE  /\ action = "up" =>
                /\ \A p \in Selected : project'[p] = "up"
                /\ bridge'
                /\ suite["haip"] => served' = IF Staged THEN "startup" ELSE "external"
           /\ action = "down" => \A p \in Selected : project'[p] = "absent"
<1>1. /\ compose = "each" /\ todo = <<>> /\ code \in {"none", "zero"}
      /\ UNCHANGED <<project, bridge, served>>
  BY ZeroIsOfTheLoop DEF EachDone, End, dockerVars
<1>2. ToSet(todo) = {}
  BY <1>1, NoProject
<1>3. CASE action = "up"
  <2>1. ToSet(started) = Selected /\ \A p \in ToSet(started) : project[p] = "up"
    BY <1>1, <1>2, <1>3 DEF ComposeInv, Rising
  <2>2. started # <<>>
    BY <2>1, NoProject, EntriesInOrder DEF ComposeInv, Types
  <2> QED
    BY <1>1, <1>3, <2>1, <2>2 DEF ComposeInv, Rising
<1>4. CASE action = "down"
  BY <1>1, <1>2, <1>4 DEF ComposeInv, Falling
<1> QED
  BY <1>3, <1>4

\* A step that starts a project does not remove Marty.
LEMMA UpKeepsMarty ==
    ASSUME Types, NEW p \in Projects, NEW c, ComesUp(p, c) \/ FailsToComeUp(p, c), project["marty"] # "absent"
    PROVE  project'["marty"] # "absent"
<1>1. CASE ComesUp(p, c)
  BY <1>1, WhenItComesUp DEF Projects
<1>2. CASE FailsToComeUp(p, c)
  BY <1>2, WhenItFailsToComeUp DEF Projects
<1> QED
  BY <1>1, <1>2

LEMMA MartyGoesLast ==
    ASSUME ComposeInv, ComposeNext, project["marty"] # "absent", project'["marty"] = "absent"
    PROVE  fresh => \A p \in Others : Gone(p)
<1>1. Types /\ "marty" \in Projects
  BY DEF ComposeInv, Projects
<1>2. ~BeginRaises /\ ~Begin /\ ~CacheCheck /\ ~Stage /\ ~StageFails /\ ~CommandRaises /\ ~Readiness
      /\ ~EachLogs /\ ~EachDone /\ ~StopDone
  BY DEF BeginRaises, Begin, CacheCheck, Stage, StageFails, CommandRaises, Readiness, EachLogs, EachDone, StopDone,
     dockerVars
<1>3. ~BaseUp /\ ~ResumeUp
  BY <1>1, UpKeepsMarty DEF BaseUp, ResumeUp
<1>4. ~EachUp
  <2> SUFFICES ASSUME EachUp PROVE FALSE
    OBVIOUS
  <2>1. Head(todo) \in Projects
    BY <1>1, ListTail DEF EachUp, Types
  <2>2. ComesUp(Head(todo), Certificate) \/ FailsToComeUp(Head(todo), Certificate)
    BY DEF EachUp
  <2> QED
    BY <1>1, <2>1, <2>2, UpKeepsMarty
<1>5. ASSUME NEW p \in Projects, p # "marty", GoesAway(p) \/ StaysBehind(p)
      PROVE  FALSE
  <2>1. project'["marty"] = project["marty"]
    BY <1>1, <1>5 DEF GoesAway, StaysBehind, Types
  <2> QED
    BY <2>1
<1>6. CASE EachDown
  <2>1. /\ compose = "each" /\ action = "down" /\ todo # <<>>
        /\ GoesAway(Head(todo)) \/ StaysBehind(Head(todo))
    BY <1>6 DEF EachDown
  <2>2. Head(todo) = "marty" /\ MartyLast(todo)
    BY <2>1, <1>1, <1>5, ListTail DEF ComposeInv, Falling, Types
  <2>3. ToSet(todo) = {"marty"}
    BY <2>1, <2>2, <1>1, ListTail, NoProject DEF Types
  <2> SUFFICES ASSUME fresh, NEW p \in Others PROVE Gone(p)
    OBVIOUS
  <2>4. p \in Projects \ {"marty"}
    BY DEF Others
  <2>5. CASE p \in Selected
    BY <2>1, <2>3, <2>4, <2>5 DEF ComposeInv, Falling
  <2>6. CASE p \notin Selected
    BY <2>4, <2>6 DEF ComposeInv, Extent, Gone
  <2> QED
    BY <2>5, <2>6
<1>7. CASE StopStarted
  <2>1. /\ compose = "unwind" /\ action = "up" /\ todo # <<>>
        /\ GoesAway(Head(todo)) \/ StaysBehind(Head(todo))
    BY <1>7 DEF StopStarted, ComposeInv, Staging
  <2>2. Head(todo) = "marty" /\ MartyLast(todo)
    BY <2>1, <1>1, <1>5, ListTail DEF ComposeInv, Unwinding, Types
  <2>3. ToSet(todo) = {"marty"}
    BY <2>1, <2>2, <1>1, ListTail, NoProject DEF Types
  <2> SUFFICES ASSUME fresh, NEW p \in Others PROVE Gone(p)
    OBVIOUS
  <2>4. p \in Projects \ {"marty"}
    BY DEF Others
  <2>5. CASE p \in ToSet(started)
    BY <2>1, <2>3, <2>4, <2>5 DEF ComposeInv, Unwinding
  <2>6. CASE p \notin ToSet(started)
    BY <2>1, <2>4, <2>6 DEF ComposeInv, Extent, Gone
  <2> QED
    BY <2>5, <2>6
<1> QED
  BY <1>2, <1>3, <1>4, <1>6, <1>7 DEF ComposeNext

-----------------------------------------------------------------------------
(* The operator.                                                           *)

LEMMA OperatorStep == ASSUME ComposeInv, [Next]_suiteVars PROVE ComposeInv'
<1>1. CASE Operator
  BY <1>1, CallKeeps DEF Operator
<1> QED
  BY <1>1, ComposeNextKeeps, MaterialKeeps, ComposeStays DEF Next

\* The invariant of the front end, for an operator who calls it again and
\* again: for every selection, answer and failure.
THEOREM ComposeCorrect == Spec => []ComposeInv
<1>1. SuiteInit => ComposeInv
  BY InitCompose
<1>2. ComposeInv /\ [Next]_suiteVars => ComposeInv'
  BY OperatorStep
<1> QED
  BY <1>1, <1>2, PTL DEF Spec

LEMMA ComposeImpliesUnwound == ComposeInv => FailedUpUnwinds
<1> SUFFICES ASSUME ComposeInv, compose = "ended", action = "up", code # "zero", ~retain,
                    ~(code = "escaped" /\ MayEscape),
                    NEW p \in ToSet(started)
             PROVE  \/ project[p] = "absent"
                    \/ p \in stuck
                    \/ p = "oidf" /\ ~material
  BY DEF FailedUpUnwinds
<1> QED
  BY DEF ComposeInv, Settled, Gone

\* An "up" that fails leaves behind only what Docker failed to remove, what
\* the runner's launcher refused for want of its files - or everything, where
\* an exception escaped the handlers: in the staging, in the wait for the EUDI
\* services, or in the building of a command (execute, stop_started).
THEOREM FailedUpCorrect == Spec => []FailedUpUnwinds
BY ComposeCorrect, ComposeImpliesUnwound, PTL

\* Zero is the answer to an "up" with everything up, on a bridge and with the
\* right certificate, and to a "down" with everything gone (execute).
THEOREM AnswerCorrect == Spec => AnswerIsTrue
<1>1. ASSUME ComposeInv, [Next]_suiteVars, compose # "ended", compose' = "ended", code' = "zero"
      PROVE  ComposeNext
  BY <1>1 DEF Next, Operator, Call, MaterialGoes, composeVars, suiteVars
<1>2. ComposeInv /\ [Next]_suiteVars
      => [compose # "ended" /\ compose' = "ended" /\ code' = "zero" =>
            /\ action = "up" =>
                  /\ \A p \in Selected : project'[p] = "up"
                  /\ bridge'
                  /\ suite["haip"] => served' = IF Staged THEN "startup" ELSE "external"
            /\ action = "down" => \A p \in Selected : project'[p] = "absent"]_suiteVars
  BY <1>1, AnswerStep
<1> QED
  BY <1>2, ComposeCorrect, PTL DEF Spec, AnswerIsTrue

\* Marty, whose network the other projects need, is removed only after them,
\* unless "up" had been called over projects of a former call (components,
\* stop_started).
THEOREM MartyOutlivesCorrect == Spec => MartyOutlivesItsUsers
<1>1. ASSUME ComposeInv, [Next]_suiteVars, project["marty"] # "absent", project'["marty"] = "absent"
      PROVE  ComposeNext
  BY <1>1 DEF Next, Operator, Call, MaterialGoes, dockerVars, suiteVars
<1>2. ComposeInv /\ [Next]_suiteVars
      => [project["marty"] # "absent" /\ project'["marty"] = "absent" =>
            \/ \A p \in Others : project[p] = "absent" \/ p \in stuck \/ (p = "oidf" /\ ~material)
            \/ ~fresh]_suiteVars
  BY <1>1, MartyGoesLast DEF Gone
<1> QED
  BY <1>2, ComposeCorrect, PTL DEF Spec, MartyOutlivesItsUsers
-----------------------------------------------------------------------------
(* The lanes.                                                              *)

LEMMA SuiteOfLane ==
    ASSUME NEW k \in AllKinds
    PROVE  /\ SuiteOf(k) \in [Flags -> BOOLEAN]
           /\ SuiteOf(k)["oidf"] <=> k \in VerifierKinds \cup IssuerKinds
           /\ SuiteOf(k)["eudi"] <=> k = "eudi"
           /\ SuiteOf(k)["haip"] <=> k \in HaipKinds
           /\ SuiteOf(k)["local"] <=> k = "local"
           /\ SuiteOf(k)["runner"] /\ SuiteOf(k)["launcher"]
           /\ ~SuiteOf(k)["certified"]
<1>1. {"oidf", "eudi", "haip", "runner", "launcher", "certified", "local"} = Flags
  BY DEF Flags
<1>2. ASSUME NEW f \in Flags PROVE SuiteOf(k)[f] \in BOOLEAN
  <2>1. CASE f = "oidf"
    BY <2>1 DEF SuiteOf
  <2>2. CASE f = "eudi"
    BY <2>2 DEF SuiteOf
  <2>3. CASE f = "haip"
    BY <2>3 DEF SuiteOf
  <2>4. CASE f = "local"
    BY <2>4 DEF SuiteOf
  <2>5. CASE f = "runner"
    BY <2>5 DEF SuiteOf
  <2>6. CASE f = "certified"
    BY <2>6 DEF SuiteOf
  <2>7. CASE f = "launcher"
    BY <2>7 DEF SuiteOf
  <2> QED
    BY <1>1, <2>1, <2>2, <2>3, <2>4, <2>5, <2>6, <2>7
<1>3. SuiteOf(k) \in [Flags -> BOOLEAN]
  BY <1>2 DEF SuiteOf
<1>4. SuiteOf(k)["oidf"] <=> k \in VerifierKinds \cup IssuerKinds
  BY <1>1 DEF SuiteOf
<1>5. SuiteOf(k)["eudi"] <=> k = "eudi"
  BY <1>1 DEF SuiteOf
<1>6. SuiteOf(k)["haip"] <=> k \in HaipKinds
  BY <1>1 DEF SuiteOf
<1>7. SuiteOf(k)["local"] <=> k = "local"
  BY <1>1 DEF SuiteOf
<1>8. SuiteOf(k)["runner"] /\ SuiteOf(k)["launcher"] /\ ~SuiteOf(k)["certified"]
  BY <1>1 DEF SuiteOf
<1> QED
  BY <1>3, <1>4, <1>5, <1>6, <1>7, <1>8

\* Steps of the lane that leave the suite alone.
LEMMA LaneQuiet ==
    ASSUME UNCHANGED suiteVars
    PROVE  /\ UNCHANGED <<suite, action, retain, fresh, project, bridge, stuck, served, material, authority, leaf,
                          compose, todo, started, code>>
           /\ Selected' = Selected /\ (Standing' <=> Standing)
           /\ \A p : Gone(p)' <=> Gone(p)
<1>1. UNCHANGED <<suite, action, retain, fresh, project, bridge, stuck, served, material, authority, leaf,
                  compose, todo, started, code>>
  BY DEF suiteVars, requestVars, dockerVars, composeVars, fileVars
<1>2. Selected' = Selected
  BY <1>1, SameSelection
<1>3. Standing' <=> Standing
  BY <1>1, <1>2 DEF Standing
<1>4. \A p : Gone(p)' <=> Gone(p)
  BY <1>1 DEF Gone
<1> QED
  BY <1>1, <1>2, <1>3, <1>4

\* An "up" that failed in a lane that did not ask to retain it.
LEMMA UnwoundInLane ==
    ASSUME LaneInv, lane = "diagnose", kind \notin VerifierKinds, kind # "local"
    PROVE  Torn
<1>1. /\ compose = "ended" /\ code # "zero" /\ action = "up" /\ ~retain /\ fresh /\ suite = SuiteOf(kind)
      /\ kind \in AllKinds
  BY DEF LaneInv, LaneMeetsCompose, LaneTypes, ComposeInv, Types
<1>2. suite["runner"] /\ ~suite["local"]
  BY <1>1, SuiteOfLane
<1>6. MayEscape => kind = "eudi"
  BY <1>1, SuiteOfLane DEF MayEscape, Staged, HaipKinds, VerifierKinds
<1>3. /\ (\A p \in ToSet(started) : Gone(p)) \/ (code = "escaped" /\ kind = "eudi")
      /\ started = <<>> => code = "raised"
  BY <1>1, <1>2, <1>6 DEF LaneInv, ComposeInv, Settled
<1>4. \A p \in Others \ ToSet(started) : project[p] = "absent"
  BY <1>1 DEF LaneInv, ComposeInv, Extent
<1>5. started # <<>> => "marty" \in ToSet(started)
  BY DEF LaneInv, ComposeInv, Extent
<1> QED
  BY <1>3, <1>4, <1>5 DEF Torn, Others

LEMMA DownInLane ==
    ASSUME LaneInv, lane = "stopping", compose = "ended"
    PROVE  \A p \in Projects :
              \/ project[p] = "absent"
              \/ /\ code # "zero"
                 /\ Gone(p) \/ (code = "raised" /\ started = <<>>)
<1>1. action = "down" /\ fresh
  BY DEF LaneInv, LaneMeetsCompose
<1>2. /\ code = "zero" => \A p \in Selected : project[p] = "absent"
      /\ code # "raised" => \A p \in Selected : Gone(p)
  BY <1>1 DEF LaneInv, ComposeInv, Settled
<1>3. /\ started = <<>>
      /\ \A p \in Projects \ Selected : project[p] = "absent"
  BY <1>1 DEF LaneInv, ComposeInv, Extent
<1> QED
  BY <1>2, <1>3

LEMMA InitLaneInv == ASSUME InitLane PROVE LaneInv
<1>1. ComposeInv
  BY InitCompose DEF InitLane
<1>2. /\ compose = "idle" /\ code = "none" /\ fresh = TRUE
      /\ \A p \in Others : project[p] = "absent"
      /\ suite = SuiteOf(kind) /\ kind \in AllKinds
      /\ lane = "preflight" /\ passed = {} /\ result = "nonzero" /\ before = FALSE /\ error = FALSE
  BY KindsAssumption DEF InitLane, SuiteInit, Others
<1>3. LaneTypes
  BY <1>2 DEF LaneTypes
<1>4. LaneMeetsCompose
  BY <1>2 DEF LaneMeetsCompose
<1> QED
  BY <1>1, <1>2, <1>3, <1>4 DEF LaneInv, LaneStands, LaneEarns, LaneLeaves, UpLanes

\* Before the suite runs.
LEMMA QuietStartKeeps ==
    ASSUME LaneInv, Preflight \/ UpRaises \/ UpReturns \/ Diagnose
    PROVE  LaneInv'
<1>1. UNCHANGED suiteVars
  BY DEF Preflight, UpRaises, UpReturns, Diagnose
<1>2. /\ UNCHANGED <<suite, action, retain, fresh, project, bridge, stuck, served, material, authority, leaf,
                     compose, todo, started, code>>
      /\ Selected' = Selected /\ (Standing' <=> Standing)
      /\ \A p : Gone(p)' <=> Gone(p)
  BY <1>1, LaneQuiet
<1>3. ComposeInv'
  BY <1>1, ComposeStays DEF LaneInv
<1>4. /\ UNCHANGED <<kind, passed, result, before>>
      /\ error' = error \/ error' \in BOOLEAN
  BY DEF Preflight, UpRaises, UpReturns, Diagnose, Goto, Raise, SkipTeardown
<1>5. LaneTypes'
  BY <1>4 DEF LaneInv, LaneTypes
<1>6. /\ lane \in {"preflight", "up", "starting", "diagnose"}
      /\ lane' \in {"up", "ended", "logs", "down", "checkout", "ready", "diagnose"}
      /\ lane' = "up" => lane = "preflight"
      /\ lane' = "ready" => lane = "starting" /\ compose = "ended" /\ code = "zero"
      /\ lane' = "diagnose" => lane = "starting" /\ compose = "ended" /\ code # "zero"
      /\ lane' = "ended" => skipped' = "preflight"
      /\ lane = "starting" => compose = "ended"
  BY DEF Preflight, UpRaises, UpReturns, Diagnose, Goto, Raise, SkipTeardown
<1>7. LaneMeetsCompose'
  BY <1>2, <1>4, <1>6 DEF LaneInv, LaneMeetsCompose
<1>8. LaneStands'
  BY <1>2, <1>4, <1>6 DEF LaneInv, LaneStands, UpLanes
<1>9. LaneEarns'
  BY <1>2, <1>4, <1>6 DEF LaneInv, LaneEarns, UpLanes
<1>10. LaneLeaves'
  <2>1. CASE UpRaises
    <3>1. lane' = "checkout" => kind # "local"
      BY <2>1 DEF UpRaises, SkipTeardown, Raise
    <3>2. lane = "up" /\ compose = "idle" /\ code = "none" /\ started = <<>>
      BY <2>1 DEF UpRaises, LaneInv, LaneMeetsCompose, ComposeInv, Staging
    <3> QED
      BY <3>1, <3>2, <1>2, <1>4, <1>6 DEF LaneLeaves, Torn
  <2>2. CASE Diagnose
    <3>1. lane = "diagnose" /\ (lane' = "checkout" => kind \notin VerifierKinds /\ kind # "local")
      BY <2>2 DEF Diagnose, Goto, Raise, SkipTeardown
    <3>2. lane' = "checkout" => Torn /\ kind # "local"
      BY <3>1, UnwoundInLane
    <3> QED
      BY <3>2, <1>2, <1>4, <1>6 DEF LaneLeaves, Torn
  <2>3. CASE Preflight \/ UpReturns
    BY <2>3, <1>6 DEF Preflight, UpReturns, Goto, LaneLeaves
  <2> QED
    BY <2>1, <2>2, <2>3
<1> QED
  BY <1>3, <1>5, <1>7, <1>8, <1>9, <1>10 DEF LaneInv

\* From the stack that is up to the verdict.
LEMMA QuietRunKeeps ==
    ASSUME LaneInv, Ready \/ Fixtures \/ Browser \/ Official \/ Evidence \/ Attachments
    PROVE  LaneInv'
<1>1. UNCHANGED suiteVars
  BY DEF Ready, Fixtures, Browser, Official, Evidence, Attachments
<1>2. /\ UNCHANGED <<suite, action, retain, fresh, project, bridge, stuck, served, material, authority, leaf,
                     compose, todo, started, code>>
      /\ Selected' = Selected /\ (Standing' <=> Standing)
  BY <1>1, LaneQuiet
<1>3. ComposeInv'
  BY <1>1, ComposeStays DEF LaneInv
<1>4. /\ lane \in {"ready", "fixtures", "browser", "official", "evidence", "attachments"}
      /\ lane' \in {"fixtures", "native", "certificate", "official", "evidence", "attachments"}
      /\ kind' = kind
      /\ lane' \in {"fixtures", "certificate", "official"} => lane \in {"ready", "fixtures", "browser"}
      /\ lane' = "certificate" => kind \in HaipKinds
      /\ lane' = "official" => lane = "browser" \/ (lane = "fixtures" /\ kind \notin HaipKinds)
  BY DEF Ready, Fixtures, Browser, Official, Evidence, Attachments, Goto, Raise
<1>5. LaneTypes'
  <2>1. (kind = "local") \in BOOLEAN
    OBVIOUS
  <2>2. before' \in BOOLEAN /\ error' \in BOOLEAN /\ result' \in {"zero", "nonzero"}
    BY <2>1 DEF LaneInv, LaneTypes, Ready, Fixtures, Browser, Official, Evidence, Attachments, Goto, Raise
  <2>3. passed' \subseteq Commands
    BY DEF LaneInv, LaneTypes, Ready, Fixtures, Browser, Official, Evidence, Attachments, Goto, Raise, Answer, Commands
  <2> QED
    BY <1>4, <2>2, <2>3 DEF LaneInv, LaneTypes
<1>6. LaneMeetsCompose'
  BY <1>2, <1>4 DEF LaneInv, LaneMeetsCompose
<1>7. LaneStands'
  BY <1>2, <1>4 DEF LaneInv, LaneStands, UpLanes, SignedKinds
<1>8. LaneEarns'
  <2>1. CASE Ready
    BY <2>1, <1>4 DEF LaneInv, LaneEarns, UpLanes, Ready, Raise
  <2>2. CASE Fixtures
    BY <2>2, <1>4 DEF LaneInv, LaneEarns, UpLanes, Fixtures, Goto, Raise
  <2>3. CASE Browser
    BY <2>3, <1>4 DEF LaneInv, LaneEarns, UpLanes, Browser, Answer
  <2>4. CASE Official
    BY <2>4, <1>4 DEF LaneInv, LaneEarns, UpLanes, Official, Answer
  <2>5. CASE Evidence
    BY <2>5, <1>4 DEF LaneInv, LaneEarns, UpLanes, Evidence, Answer
  <2>6. CASE Attachments
    BY <2>6, <1>4 DEF LaneInv, LaneEarns, UpLanes, Attachments, Answer
  <2> QED
    BY <2>1, <2>2, <2>3, <2>4, <2>5, <2>6
<1>9. LaneLeaves'
  BY <1>4 DEF LaneLeaves
<1> QED
  BY <1>3, <1>5, <1>6, <1>7, <1>8, <1>9 DEF LaneInv

\* The finally of the lane.
LEMMA QuietEndKeeps ==
    ASSUME LaneInv, Native \/ Logs \/ DownReturns \/ VerifyCheckout
    PROVE  LaneInv'
<1>1. UNCHANGED suiteVars
  BY DEF Native, Logs, DownReturns, VerifyCheckout
<1>2. /\ UNCHANGED <<suite, action, retain, fresh, project, bridge, stuck, served, material, authority, leaf,
                     compose, todo, started, code>>
      /\ Selected' = Selected /\ (Standing' <=> Standing)
      /\ \A p : Gone(p)' <=> Gone(p)
  BY <1>1, LaneQuiet
<1>3. ComposeInv'
  BY <1>1, ComposeStays DEF LaneInv
<1>4. /\ lane \in {"native", "logs", "stopping", "checkout"}
      /\ lane' \in {"logs", "down", "checkout", "ended"}
      /\ UNCHANGED <<kind, passed, result, before>>
      /\ error' = error \/ error' = TRUE
      /\ lane = "stopping" => compose = "ended"
  BY DEF Native, Logs, DownReturns, VerifyCheckout, Goto, Raise, SkipTeardown
<1>5. LaneTypes'
  BY <1>4 DEF LaneInv, LaneTypes
<1>6. LaneMeetsCompose'
  BY <1>2, <1>4 DEF LaneInv, LaneMeetsCompose
<1>7. LaneStands'
  BY <1>4 DEF LaneStands, UpLanes
<1>8. LaneEarns'
  BY <1>4 DEF LaneInv, LaneEarns, UpLanes
<1>9. LaneLeaves'
  <2>1. CASE Native
    BY <2>1 DEF Native, Goto, Raise, LaneLeaves
  <2>2. CASE Logs
    BY <2>2 DEF Logs, Goto, Raise, SkipTeardown, LaneLeaves
  <2>3. CASE DownReturns
    <3>1. lane = "stopping" /\ compose = "ended" /\ (kind = "local" /\ code # "zero" => error')
      BY <2>3 DEF DownReturns, Raise
    <3>2. \A p \in Projects :
              \/ project[p] = "absent"
              \/ /\ code # "zero"
                 /\ Gone(p) \/ (code = "raised" /\ started = <<>>)
      BY <3>1, DownInLane
    <3> QED
      BY <3>1, <3>2, <1>2, <1>4 DEF LaneLeaves, Torn
  <2>4. CASE VerifyCheckout
    <3>1. lane = "checkout" /\ skipped' = skipped
      BY <2>4 DEF VerifyCheckout, Goto, Raise
    <3>2. skipped \notin {"preflight", "logs"} => Torn
      BY <3>1 DEF LaneInv, LaneLeaves
    <3>3. error => error'
      BY <1>4
    <3> QED
      BY <3>1, <3>2, <3>3, <1>2, <1>4 DEF LaneLeaves, Torn
  <2> QED
    BY <2>1, <2>2, <2>3, <2>4
<1> QED
  BY <1>3, <1>5, <1>6, <1>7, <1>8, <1>9 DEF LaneInv
\* What a lane does to Docker itself, while the front end is at rest.
LEMMA BesideCompose ==
    ASSUME ComposeInv, compose \in {"idle", "ended"}, UNCHANGED composeVars, UNCHANGED requestVars, material' = material,
           authority' \in BOOLEAN, project' \in [Projects -> {"absent", "partial", "up"}], bridge' \in BOOLEAN,
           stuck' \subseteq Projects, "marty" \in Selected =>
              /\ \A q \in Others : project'[q] = project[q] /\ (q \in stuck => q \in stuck')
              /\ bridge' \/ project["eudi"] = "absent" \/ "eudi" \in stuck \/ ~fresh
              /\ compose = "ended" => action # "down" /\ code = "zero"
    PROVE  ComposeInv'
<1>1. UNCHANGED <<compose, todo, started, code, suite, action, retain, fresh>>
  BY DEF composeVars, requestVars
<1>2. Selected' = Selected /\ "marty" \in Selected /\ "eudi" \in Others
  BY <1>1, SameSelection, EntriesInOrder DEF ComposeInv, Types, Others, Projects
<1>3. /\ \A q \in Others : project'[q] = project[q] /\ (q \in stuck => q \in stuck')
      /\ bridge' \/ project["eudi"] = "absent" \/ "eudi" \in stuck \/ ~fresh
      /\ compose = "ended" => action # "down" /\ code = "zero"
  BY <1>2
<1>4. Types'
  BY <1>1 DEF ComposeInv, Types
<1>5. Extent'
  <2>1. \A q \in Projects \ Selected : project'[q] = "absent"
    BY <1>2, <1>3 DEF ComposeInv, Extent, Others
  <2>2. MartyFirst(started)' /\ ToSet(started)' = ToSet(started)
    BY <1>1 DEF ComposeInv, Extent, MartyFirst
  <2>3. action' = "up" /\ fresh' => \A q \in Others \ ToSet(started)' : project'[q] = "absent"
    BY <1>1, <1>3, <2>2 DEF ComposeInv, Extent
  <2>4. fresh' /\ project'["eudi"] # "absent" => bridge' \/ "eudi" \in stuck'
    BY <1>1, <1>2, <1>3
  <2> QED
    BY <1>1, <1>2, <2>1, <2>2, <2>3, <2>4 DEF ComposeInv, Extent
<1>6. Settled'
  BY <1>1, <1>3 DEF Settled
<1>7. Staging'
  BY <1>1 DEF ComposeInv, Staging
<1> QED
  BY <1>1, <1>4, <1>5, <1>6, <1>7 DEF ComposeInv, Rising, Falling, Unwinding

LEMMA UpStepKeeps == ASSUME LaneInv, Up PROVE LaneInv'
<1>1. /\ lane = "up" /\ compose = "idle" /\ kind \in AllKinds /\ fresh /\ ComposeInv /\ Types /\ "marty" \in Projects
      /\ \A p \in Others : project[p] = "absent"
      /\ "eudi" \in Others /\ suite = SuiteOf(kind)
  BY DEF Up, LaneInv, LaneMeetsCompose, LaneTypes, ComposeInv, Others, Projects
<1>2. /\ UNCHANGED <<kind, passed, result, before, error, skipped>>
      /\ lane' \in {"ready", "logs", "starting"}
  BY DEF Up, Goto
<1>3. LaneTypes'
  BY <1>2 DEF LaneInv, LaneTypes
<1>4. LaneEarns'
  BY <1>1, <1>2 DEF LaneInv, LaneEarns, UpLanes
<1>5. LaneLeaves'
  BY <1>2 DEF LaneLeaves
<1>6. CASE kind = "w3c"
  <2>1. /\ UNCHANGED requestVars /\ UNCHANGED composeVars /\ UNCHANGED fileVars
        /\ \/ ComesUp("marty", "none") /\ lane' = "ready"
           \/ FailsToComeUp("marty", "none") /\ lane' = "logs"
    BY <1>6 DEF Up, Goto
  <2>2. UNCHANGED <<suite, fresh, compose, material, authority>>
    BY <2>1 DEF requestVars, composeVars, fileVars
  <2>3. /\ project' \in [Projects -> {"absent", "partial", "up"}]
        /\ bridge' \in BOOLEAN /\ stuck' \subseteq Projects
        /\ \A q \in Others : project'[q] = project[q] /\ (q \in stuck => q \in stuck')
        /\ lane' = "ready" => bridge' /\ project'["marty"] = "up"
    <3>1. CASE ComesUp("marty", "none") /\ lane' = "ready"
      BY <3>1, <1>1, WhenItComesUp DEF Others
    <3>2. CASE FailsToComeUp("marty", "none") /\ lane' = "logs"
      BY <3>2, <1>1, WhenItFailsToComeUp DEF Others, Types
    <3> QED
      BY <2>1, <3>1, <3>2
  <2>4. ComposeInv'
    BY <1>1, <2>1, <2>2, <2>3, BesideCompose DEF Types
  <2>5. Selected' = {"marty"}
    BY <1>1, <1>6, <2>2, SameSelection, SuiteOfLane, EntriesInOrder DEF Types, VerifierKinds, IssuerKinds
  <2>6. LaneMeetsCompose'
    BY <1>1, <1>2, <2>1, <2>2, <1>6 DEF LaneInv, LaneMeetsCompose
  <2>7. LaneStands'
    <3>1. lane' = "ready" => Standing'
      BY <2>3, <2>5 DEF Standing
    <3> QED
      BY <3>1, <1>2, <1>6, <2>1 DEF LaneStands, UpLanes
  <2> QED
    BY <1>3, <1>4, <1>5, <2>4, <2>6, <2>7 DEF LaneInv
<1>7. CASE kind # "w3c"
  <2>1. Call("up", kind \in VerifierKinds) /\ lane' = "starting"
    BY <1>7 DEF Up, Goto
  <2>2. (kind \in VerifierKinds) \in BOOLEAN
    OBVIOUS
  <2>3. ComposeInv'
    BY <1>1, <2>1, <2>2, CallKeeps
  <2>4. /\ action' = "up" /\ (retain' <=> kind \in VerifierKinds) /\ compose' = "begin" /\ suite' = suite /\ fresh'
    BY <1>1, <2>1 DEF Call
  <2>5. LaneMeetsCompose'
    BY <1>1, <1>2, <1>7, <2>1, <2>4 DEF LaneMeetsCompose
  <2>6. LaneStands'
    BY <2>1, <2>4 DEF LaneStands, UpLanes
  <2> QED
    BY <1>3, <1>4, <1>5, <2>3, <2>5, <2>6 DEF LaneInv
<1> QED
  BY <1>6, <1>7

\* The front end is at rest while the certificate is exchanged.
LEMMA CertificateKeeps == ASSUME LaneInv, FinalCertificate PROVE LaneInv'
<1>1. /\ lane = "certificate" /\ compose \in {"idle", "ended"} /\ ComposeInv /\ Types
      /\ kind \in HaipKinds /\ Standing /\ (kind # "w3c" => code = "zero")
  BY DEF FinalCertificate, LaneInv, LaneMeetsCompose, LaneStands, ComposeInv, UpLanes
<1>2. /\ UNCHANGED dockerVars /\ UNCHANGED requestVars /\ UNCHANGED composeVars /\ material' = material
      /\ UNCHANGED <<kind, passed, result, before, skipped>>
      /\ \/ /\ authority' = FALSE /\ error' = error
            /\ \/ kind \in SignedKinds /\ leaf' = "final" /\ lane' = "adopt"
               \/ kind \notin SignedKinds /\ lane' = "official"
         \/ lane' = "native" /\ error' = TRUE /\ authority' = authority
  BY DEF FinalCertificate, Goto, Raise, fileVars
<1>3. UNCHANGED <<suite, action, retain, fresh, project, bridge, stuck, served, compose, todo, started, code>>
  BY <1>2 DEF dockerVars, requestVars, composeVars
<1>4. Selected' = Selected /\ (Standing' <=> Standing)
  <2>1. Selected' = Selected
    BY <1>3, SameSelection
  <2> QED
    BY <2>1, <1>3 DEF Standing
<1>5. ComposeInv'
  <2>1. authority' \in BOOLEAN
    BY <1>1, <1>2 DEF Types
  <2>2. compose = "ended" => action # "down" /\ code = "zero"
    <3>1. "marty" \in Selected
      BY <1>1, EntriesInOrder DEF Types
    <3>2. code = "zero"
      BY <1>1 DEF HaipKinds, VerifierKinds
    <3> QED
      BY <1>1, <3>1, <3>2 DEF ComposeInv, Settled, Standing
  <2> QED
    BY <1>1, <1>2, <1>3, <2>1, <2>2, BesideCompose DEF Types, Standing
<1>6. LaneTypes'
  BY <1>2 DEF LaneInv, LaneTypes
<1>7. LaneMeetsCompose'
  BY <1>1, <1>2, <1>3 DEF LaneInv, LaneMeetsCompose
<1>8. LaneStands'
  BY <1>1, <1>2, <1>3, <1>4 DEF LaneInv, LaneStands, UpLanes
<1>9. LaneEarns'
  BY <1>1, <1>2 DEF LaneInv, LaneEarns, UpLanes
<1>10. LaneLeaves'
  BY <1>2 DEF LaneLeaves
<1> QED
  BY <1>5, <1>6, <1>7, <1>8, <1>9, <1>10 DEF LaneInv

\* Marty is brought up once more, beside projects that stay as they are.
LEMMA AdoptKeeps == ASSUME LaneInv, Adopt PROVE LaneInv'
<1>1. /\ lane = "adopt" /\ compose \in {"idle", "ended"} /\ ComposeInv /\ Types /\ "marty" \in Projects
      /\ kind \in SignedKinds /\ leaf = "final" /\ ~authority /\ Standing /\ code = "zero"
  BY DEF Adopt, LaneInv, LaneMeetsCompose, LaneStands, ComposeInv, UpLanes, Projects, SignedKinds, HaipKinds, VerifierKinds
<1>2. /\ UNCHANGED requestVars /\ UNCHANGED composeVars /\ UNCHANGED fileVars
      /\ UNCHANGED <<kind, passed, result, before, skipped>>
      /\ \/ /\ ComesUp("marty", leaf) /\ error' = error
            /\ lane' = IF kind = "final" THEN "browser" ELSE "official"
         \/ /\ ComesUp("marty", leaf) \/ FailsToComeUp("marty", leaf)
            /\ lane' = "native" /\ error' = TRUE
  BY DEF Adopt, Goto, Raise
<1>3. UNCHANGED <<suite, action, retain, fresh, compose, todo, started, code, leaf, authority, material>>
  BY <1>2 DEF requestVars, composeVars, fileVars
<1>4. Selected' = Selected /\ "marty" \in Selected
  BY <1>1, <1>3, SameSelection, EntriesInOrder DEF Types
<1>5. /\ project' \in [Projects -> {"absent", "partial", "up"}]
      /\ bridge' \in BOOLEAN /\ bridge' /\ stuck' \subseteq Projects
      /\ \A q \in Others : project'[q] = project[q] /\ (q \in stuck => q \in stuck')
      /\ ComesUp("marty", leaf) => project'["marty"] = "up" /\ served' = leaf
  <2>1. CASE ComesUp("marty", leaf)
    BY <2>1, <1>1, WhenItComesUp DEF Others
  <2>2. CASE FailsToComeUp("marty", leaf) /\ ~ComesUp("marty", leaf)
    BY <2>2, <1>1, WhenItFailsToComeUp DEF Others, Types, Standing
  <2> QED
    BY <1>2, <2>1, <2>2
<1>6. ComposeInv'
  <2>1. action # "down" \/ compose # "ended"
    BY <1>1, <1>4 DEF ComposeInv, Settled, Standing
  <2> QED
    BY <1>1, <1>2, <1>3, <1>5, <2>1, BesideCompose DEF Types
<1>7. LaneTypes'
  BY <1>2 DEF LaneInv, LaneTypes
<1>8. LaneMeetsCompose'
  BY <1>1, <1>2, <1>3 DEF LaneInv, LaneMeetsCompose
<1>9. LaneStands'
  <2>1. ComesUp("marty", leaf) => Standing'
    <3> SUFFICES ASSUME ComesUp("marty", leaf), NEW p \in Selected PROVE project'[p] = "up"
      BY <1>4, <1>5 DEF Standing
    <3>1. p = "marty" \/ p \in Others
      BY <1>1, EntriesInOrder DEF Types, Others, Projects
    <3> QED
      BY <3>1, <1>1, <1>5 DEF Standing
  <2> QED
    BY <2>1, <1>1, <1>2, <1>3, <1>5 DEF LaneStands, UpLanes
<1>10. LaneEarns'
  BY <1>1, <1>2 DEF LaneInv, LaneEarns, UpLanes, SignedKinds, HaipKinds, VerifierKinds
<1>11. LaneLeaves'
  BY <1>2 DEF LaneLeaves
<1> QED
  BY <1>6, <1>7, <1>8, <1>9, <1>10, <1>11 DEF LaneInv

LEMMA DownStepKeeps == ASSUME LaneInv, Down PROVE LaneInv'
<1>1. /\ lane = "down" /\ compose \in {"idle", "ended"} /\ ComposeInv /\ Types /\ "marty" \in Projects
      /\ kind \in AllKinds /\ suite = SuiteOf(kind) /\ fresh /\ (kind = "w3c" => compose = "idle")
  BY DEF Down, LaneInv, LaneMeetsCompose, LaneTypes, ComposeInv, Projects
<1>2. /\ UNCHANGED <<kind, passed, result, before, error, skipped>>
      /\ lane' \in {"checkout", "stopping"}
  BY DEF Down, Goto
<1>3. LaneTypes'
  BY <1>2 DEF LaneInv, LaneTypes
<1>4. LaneEarns'
  BY <1>1, <1>2 DEF LaneInv, LaneEarns, UpLanes
<1>5. LaneStands'
  BY <1>2 DEF LaneStands, UpLanes
<1>6. CASE kind = "w3c"
  <2>1. /\ UNCHANGED requestVars /\ UNCHANGED composeVars /\ UNCHANGED fileVars
        /\ GoesAway("marty") \/ StaysBehind("marty")
        /\ lane' = "checkout"
    BY <1>6 DEF Down, Goto
  <2>2. UNCHANGED <<suite, fresh, compose, material, authority>>
    BY <2>1 DEF requestVars, composeVars, fileVars
  <2>3. \A q \in Others : project[q] = "absent"
    <3>1. Selected = {"marty"}
      BY <1>1, <1>6, SuiteOfLane, EntriesInOrder DEF Types, VerifierKinds, IssuerKinds
    <3> QED
      BY <3>1, <1>1 DEF ComposeInv, Extent, Others
  <2>4. /\ project' \in [Projects -> {"absent", "partial", "up"}]
        /\ bridge' \in BOOLEAN /\ stuck' \subseteq Projects
        /\ \A q \in Others : project'[q] = project[q] /\ (q \in stuck => q \in stuck')
        /\ Gone("marty")'
    BY <1>1, <2>1, <2>2, WhenItIsTornDown DEF Others
  <2>5. ComposeInv'
    <3>1. project["eudi"] = "absent"
      BY <2>3 DEF Others, Projects
    <3> QED
      BY <1>1, <1>6, <2>1, <2>2, <2>4, <3>1, BesideCompose DEF Types
  <2>6. LaneMeetsCompose'
    BY <1>1, <1>2, <2>1, <2>2, <1>6 DEF LaneMeetsCompose
  <2>7. LaneLeaves'
    <3>1. \A p \in Projects : p = "marty" \/ p \in Others
      BY DEF Others
    <3> QED
      BY <3>1, <1>2, <1>6, <2>3, <2>4 DEF LaneLeaves, Torn
  <2> QED
    BY <1>3, <1>4, <1>5, <2>5, <2>6, <2>7 DEF LaneInv
<1>7. CASE kind # "w3c"
  <2>1. Call("down", FALSE) /\ lane' = "stopping"
    BY <1>7 DEF Down, Goto
  <2>2. ComposeInv'
    BY <1>1, <2>1, CallKeeps
  <2>3. action' = "down" /\ compose' = "begin" /\ suite' = suite /\ fresh' = fresh
    BY <2>1 DEF Call
  <2>4. LaneMeetsCompose'
    BY <1>1, <1>2, <1>7, <2>1, <2>3 DEF LaneMeetsCompose
  <2>5. LaneLeaves'
    BY <2>1 DEF LaneLeaves
  <2> QED
    BY <1>3, <1>4, <1>5, <2>2, <2>4, <2>5 DEF LaneInv
<1> QED
  BY <1>6, <1>7

LEMMA ComposeStepKeeps == ASSUME LaneInv, ComposeStep PROVE LaneInv'
<1>1. ComposeInv /\ ComposeNext /\ UNCHANGED <<kind, lane, passed, result, before, error, skipped>>
  BY DEF ComposeStep, laneVars, LaneInv
<1>2. ComposeInv' /\ compose \notin {"idle", "ended"} /\ compose' # "idle" /\ UNCHANGED <<suite, action, retain, fresh>>
  BY <1>1, ComposeNextKeeps, ComposeFrame
<1>3. lane \in {"starting", "stopping"} /\ kind # "w3c"
  BY <1>2 DEF LaneInv, LaneMeetsCompose
<1>4. LaneTypes' /\ LaneEarns' /\ LaneLeaves'
  BY <1>1, <1>3 DEF LaneInv, LaneTypes, LaneEarns, UpLanes, LaneLeaves
<1>5. LaneMeetsCompose'
  BY <1>1, <1>2, <1>3 DEF LaneInv, LaneMeetsCompose
<1>6. LaneStands'
  <2>1. Selected' = Selected
    BY <1>2, SameSelection
  <2>2. action = "up" /\ compose' = "ended" /\ code' = "zero" => Standing'
    BY <1>1, <2>1, AnswerStep DEF Standing
  <2>3. lane = "starting" => action = "up"
    BY DEF LaneInv, LaneMeetsCompose
  <2> QED
    BY <1>1, <1>3, <2>2, <2>3 DEF LaneStands, UpLanes
<1> QED
  BY <1>2, <1>4, <1>5, <1>6 DEF LaneInv

LEMMA LaneMaterialKeeps == ASSUME LaneInv, LaneMaterialGoes PROVE LaneInv'
<1>1. /\ MaterialGoes /\ UNCHANGED <<kind, lane, passed, result, before, error, skipped>>
      /\ material' = FALSE
      /\ UNCHANGED <<suite, action, retain, fresh, project, bridge, stuck, served, authority, leaf,
                     compose, todo, started, code>>
  BY DEF LaneMaterialGoes, laneVars, MaterialGoes, requestVars, dockerVars, composeVars
<1>2. ComposeInv'
  BY <1>1, MaterialKeeps DEF LaneInv
<1>3. Selected' = Selected /\ (Standing' <=> Standing)
  <2>1. Selected' = Selected
    BY <1>1, SameSelection
  <2> QED
    BY <2>1, <1>1 DEF Standing
<1>4. LaneLeaves'
  <2>1. \A p : Gone(p) => Gone(p)'
    BY <1>1 DEF Gone
  <2> QED
    BY <2>1, <1>1 DEF LaneInv, LaneLeaves, Torn
<1>5. LaneTypes' /\ LaneMeetsCompose'
  BY <1>1 DEF LaneInv, LaneTypes, LaneMeetsCompose
<1>6. LaneStands' /\ LaneEarns'
  BY <1>1, <1>3 DEF LaneInv, LaneStands, LaneEarns
<1> QED
  BY <1>2, <1>4, <1>5, <1>6 DEF LaneInv

LEMMA LaneStays == ASSUME LaneInv, UNCHANGED vars PROVE LaneInv'
<1>1. UNCHANGED suiteVars /\ UNCHANGED <<kind, lane, passed, result, before, error, skipped>>
  BY DEF vars, laneVars
<1>2. /\ UNCHANGED <<suite, action, retain, fresh, project, bridge, stuck, served, material, authority, leaf,
                     compose, todo, started, code>>
      /\ Selected' = Selected /\ (Standing' <=> Standing)
      /\ \A p : Gone(p)' <=> Gone(p)
  BY <1>1, LaneQuiet
<1>3. ComposeInv'
  BY <1>1, ComposeStays DEF LaneInv
<1>4. LaneTypes' /\ LaneMeetsCompose'
  BY <1>1, <1>2 DEF LaneInv, LaneTypes, LaneMeetsCompose
<1>5. LaneStands' /\ LaneEarns'
  BY <1>1, <1>2 DEF LaneInv, LaneStands, LaneEarns
<1>6. LaneLeaves'
  BY <1>1, <1>2 DEF LaneInv, LaneLeaves, Torn
<1> QED
  BY <1>3, <1>4, <1>5, <1>6 DEF LaneInv

LEMMA LaneStepKeeps == ASSUME LaneInv, [NextLane]_vars PROVE LaneInv'
<1>1. CASE LaneStep
  BY <1>1, QuietStartKeeps, QuietRunKeeps, QuietEndKeeps, UpStepKeeps, CertificateKeeps, AdoptKeeps, DownStepKeeps
     DEF LaneStep
<1> QED
  BY <1>1, ComposeStepKeeps, LaneMaterialKeeps, LaneStays DEF NextLane

\* The invariant of a lane, with that of the front end it calls.
THEOREM LaneCorrect == SpecLane => []LaneInv
<1>1. InitLane => LaneInv
  BY InitLaneInv
<1>2. LaneInv /\ [NextLane]_vars => LaneInv'
  BY LaneStepKeeps
<1> QED
  BY <1>1, <1>2, PTL DEF SpecLane

\* The suite runs with every project of its selection up and bridged, on the
\* certificate of the final identity, after the authority is gone (run_oidf,
\* run_eudi, refresh_request_signing_certificate).
THEOREM FinalStackCorrect == SpecLane => []OfficialRunsOnFinalStack
<1>1. LaneInv => OfficialRunsOnFinalStack
  BY DEF LaneInv, LaneStands, UpLanes, Standing, OfficialRunsOnFinalStack
<1> QED
  BY <1>1, LaneCorrect, PTL

\* A lane that passes has had every command of its kind pass (the chains of
\* results in run_oidf and the other lanes).
THEOREM LanePassCorrect == SpecLane => []LanePassIsComplete
<1>1. LaneInv => LanePassIsComplete
  BY DEF LaneInv, LaneEarns, Passed, LanePassIsComplete
<1> QED
  BY <1>1, LaneCorrect, PTL

\* What a lane leaves of its stack it leaves because Docker failed, the files
\* of the runner were gone, or compose did not begin; the local issuer lane
\* then raises (the finally of each lane, down_local_native_issuer).
THEOREM TeardownCorrect == SpecLane => []StackIsTornDown
<1>1. LaneInv => StackIsTornDown
  BY DEF LaneInv, LaneLeaves, Torn, Gone, StackIsTornDown
<1> QED
  BY <1>1, LaneCorrect, PTL
-----------------------------------------------------------------------------
(* The boundary lane.                                                      *)

LEMMA InitBoundaryInv == ASSUME InitBoundary PROVE BoundaryInv
<1>1. ComposeInv
  BY InitCompose DEF InitBoundary
<1>2. /\ suite = BoundarySuite /\ compose = "idle" /\ boundary = "prepare" /\ registry = "absent"
      /\ policy = FALSE /\ exitCode = "nonzero" /\ summary = "none"
      /\ \E d \in {"none", "passed", "failed"} : junit = [own |-> FALSE, didcomm |-> d]
  BY DEF InitBoundary, SuiteInit, BoundaryFresh
<1>3. BoundaryMeetsCompose
  BY <1>2 DEF BoundaryMeetsCompose
<1>4. BoundaryHolds
  BY <1>2 DEF BoundaryHolds
<1>5. BoundarySays
  BY <1>2 DEF BoundarySays
<1> QED
  BY <1>1, <1>2, <1>3, <1>4, <1>5 DEF BoundaryInv, BoundaryLeaves

\* The registry's project and the custody are the lane's own.
LEMMA HoldsKept == ASSUME BoundaryHolds, BoundaryStep PROVE BoundaryHolds'
<1>1. CASE Prepare \/ InitializeDidcommPolicy \/ BoundaryUp \/ BoundaryUpRaises
  BY <1>1 DEF Prepare, InitializeDidcommPolicy, BoundaryUp, BoundaryUpRaises, BoundaryGoto, Leave, processVars,
     BoundaryHolds
<1>2. CASE BoundaryUpReturns \/ WaitForPublicStack \/ PublicSessions \/ Pytest
  BY <1>2 DEF BoundaryUpReturns, WaitForPublicStack, PublicSessions, Pytest, BoundaryGoto, processVars, BoundaryHolds
<1>3. CASE RegistryUp
  BY <1>3 DEF RegistryUp, BoundaryGoto, BoundaryHolds
<1>4. CASE WriteSummary
  BY <1>4 DEF WriteSummary, BoundaryGoto, Leave, BoundaryHolds
<1>5. CASE RegistryDown
  BY <1>5 DEF RegistryDown, BoundaryGoto, BoundaryHolds
<1>6. CASE RegistryLogs \/ BoundaryLogs \/ BoundaryLogsReturn \/ BoundaryDown \/ BoundaryDownReturns
  BY <1>6 DEF RegistryLogs, BoundaryLogs, BoundaryLogsReturn, BoundaryDown, BoundaryDownReturns, BoundaryGoto, Leave,
     processVars, BoundaryHolds
<1> QED
  BY <1>1, <1>2, <1>3, <1>4, <1>5, <1>6 DEF BoundaryStep

LEMMA SaysKept == ASSUME BoundarySays, BoundaryStep PROVE BoundarySays'
<1>1. CASE Prepare \/ InitializeDidcommPolicy \/ BoundaryUp \/ BoundaryUpRaises
  BY <1>1 DEF Prepare, InitializeDidcommPolicy, BoundaryUp, BoundaryUpRaises, BoundaryGoto, Leave, processVars,
     BoundarySays
<1>2. CASE BoundaryUpReturns \/ WaitForPublicStack \/ PublicSessions \/ RegistryUp
  BY <1>2 DEF BoundaryUpReturns, WaitForPublicStack, PublicSessions, RegistryUp, BoundaryGoto, processVars, BoundarySays
<1>3. CASE Pytest
  <2>1. PICK zero \in BOOLEAN, d \in {"passed", "skipped", "failed"} :
          /\ zero => d # "failed"
          /\ exitCode' = IF zero THEN "zero" ELSE "nonzero"
          /\ junit' \in {[own |-> TRUE, didcomm |-> d]} \cup (IF zero THEN {} ELSE {junit})
    BY <1>3 DEF Pytest
  <2>2. boundary = "pytest" /\ boundary' = "summary" /\ summary' = summary
    BY <1>3 DEF Pytest, BoundaryGoto
  <2>3. junit' = [own |-> TRUE, didcomm |-> d] \/ (~zero /\ junit' = junit)
    BY <2>1
  <2>4. junit' \in [own : BOOLEAN, didcomm : {"none", "passed", "skipped", "failed"}] /\ (exitCode' = "zero" => junit'.own)
    <3>1. CASE junit' = [own |-> TRUE, didcomm |-> d]
      BY <3>1
    <3>2. CASE ~zero /\ junit' = junit
      BY <3>2, <2>1 DEF BoundarySays
    <3> QED
      BY <2>3, <3>1, <3>2
  <2> QED
    BY <2>2, <2>4 DEF BoundarySays
<1>4. CASE WriteSummary
  <2>1. /\ boundary = "summary" /\ UNCHANGED <<junit, exitCode, required>>
        /\ boundary' \in {"registryLogs", "logs", "ended"}
        /\ \/ /\ summary' = IF exitCode = "zero" THEN "passed" ELSE "failed"
              /\ claimed' = (required /\ DidcommTestPassed(junit.didcomm))
           \/ UNCHANGED <<summary, claimed>>
    BY <1>4 DEF WriteSummary, BoundaryGoto, Leave
  <2>2. summary' = "passed" => exitCode = "zero" /\ (claimed' => required /\ junit.didcomm = "passed")
    BY <2>1 DEF BoundarySays, DidcommTestPassed
  <2> QED
    BY <2>1, <2>2 DEF BoundarySays
<1>5. CASE RegistryDown
  BY <1>5 DEF RegistryDown, BoundaryGoto, BoundarySays
<1>6. CASE RegistryLogs \/ BoundaryLogs \/ BoundaryLogsReturn \/ BoundaryDown \/ BoundaryDownReturns
  <2>1. UNCHANGED <<junit, exitCode, summary, claimed, required>>
    BY <1>6 DEF RegistryLogs, BoundaryLogs, BoundaryLogsReturn, BoundaryDown, BoundaryDownReturns, BoundaryGoto, Leave,
       processVars
  <2>2. boundary' \in {"registryDown", "ended", "reading", "down", "stopping"}
    BY <1>6 DEF RegistryLogs, BoundaryLogs, BoundaryLogsReturn, BoundaryDown, BoundaryDownReturns, BoundaryGoto, Leave
  <2> QED
    BY <2>1, <2>2 DEF BoundarySays
<1> QED
  BY <1>1, <1>2, <1>3, <1>4, <1>5, <1>6 DEF BoundaryStep

\* Where the lane calls the front end.
LEMMA BoundaryCallKeeps ==
    ASSUME BoundaryInv, BoundaryUp \/ BoundaryLogs \/ BoundaryDown
    PROVE  BoundaryInv'
<1>1. BoundaryHolds' /\ BoundarySays'
  BY HoldsKept, SaysKept DEF BoundaryInv, BoundaryStep
<1>2. PICK a \in {"up", "logs", "down"} :
         /\ Call(a, FALSE)
         /\ boundary' = IF a = "up" THEN "starting" ELSE IF a = "logs" THEN "reading" ELSE "stopping"
  <2>1. CASE BoundaryUp
    BY <2>1 DEF BoundaryUp, BoundaryGoto
  <2>2. CASE BoundaryLogs
    BY <2>2 DEF BoundaryLogs, BoundaryGoto
  <2>3. CASE BoundaryDown
    BY <2>3 DEF BoundaryDown, BoundaryGoto
  <2> QED
    BY <2>1, <2>2, <2>3
<1>3. ComposeInv'
  BY <1>2, CallKeeps DEF BoundaryInv
<1>4. compose' = "begin" /\ action' = a /\ suite' = suite
  BY <1>2 DEF Call
<1>5. BoundaryMeetsCompose' /\ BoundaryLeaves'
  BY <1>2, <1>4 DEF BoundaryInv, BoundaryMeetsCompose, BoundaryLeaves
<1> QED
  BY <1>1, <1>3, <1>5 DEF BoundaryInv

LEMMA BoundaryQuietKeeps ==
    ASSUME BoundaryInv, BoundaryStep, ~BoundaryUp, ~BoundaryLogs, ~BoundaryDown
    PROVE  BoundaryInv'
<1>1. UNCHANGED suiteVars
  BY DEF BoundaryStep, Prepare, InitializeDidcommPolicy, BoundaryUpRaises, BoundaryUpReturns, WaitForPublicStack,
     RegistryUp, PublicSessions, Pytest, WriteSummary, RegistryLogs, RegistryDown, BoundaryLogsReturn,
     BoundaryDownReturns
<1>2. UNCHANGED <<suite, action, project, stuck, compose, started, code>>
  BY <1>1, LaneQuiet
<1>3. ComposeInv'
  BY <1>1, ComposeStays DEF BoundaryInv
<1>4. BoundaryHolds' /\ BoundarySays'
  BY HoldsKept, SaysKept DEF BoundaryInv
<1>5. /\ boundary' \notin {"starting", "reading", "stopping"}
      /\ boundary \in {"starting", "reading", "stopping"} => compose = "ended"
      /\ boundary' \in {"wait", "registryUp", "sessions", "pytest"} =>
            \/ boundary \in {"wait", "registryUp", "sessions"}
            \/ boundary = "starting" /\ code = "zero"
  BY DEF BoundaryStep, Prepare, InitializeDidcommPolicy, BoundaryUpRaises, BoundaryUpReturns, WaitForPublicStack,
     RegistryUp, PublicSessions, Pytest, WriteSummary, RegistryLogs, RegistryDown, BoundaryLogsReturn,
     BoundaryDownReturns, BoundaryGoto, Leave, Started
<1>6. BoundaryMeetsCompose'
  BY <1>2, <1>5 DEF BoundaryInv, BoundaryMeetsCompose
<1>7. BoundaryLeaves'
  <2> SUFFICES ASSUME boundary' = "ended"
               PROVE  /\ registry' = "absent" \/ registryStuck' \/ cutShort' \in {"summary", "registry"}
                      /\ project["marty"] = "absent" \/ "marty" \in stuck \/ cutShort' # "no" \/ code = "raised"
    BY <1>2 DEF BoundaryLeaves
  <2>1. CASE Prepare \/ InitializeDidcommPolicy \/ BoundaryUpRaises
    <3>1. cutShort' = "start" /\ registry' = registry /\ boundary \in {"prepare", "policy", "up"}
      BY <2>1 DEF Prepare, InitializeDidcommPolicy, BoundaryUpRaises, BoundaryGoto, Leave, processVars
    <3> QED
      BY <3>1 DEF BoundaryInv, BoundaryHolds
  <2>2. CASE WriteSummary \/ RegistryLogs
    BY <2>2 DEF WriteSummary, RegistryLogs, BoundaryGoto, Leave
  <2>3. CASE BoundaryLogsReturn
    <3>1. cutShort' = "logs" /\ UNCHANGED <<registry, registryStuck>> /\ boundary = "reading"
      BY <2>3 DEF BoundaryLogsReturn, BoundaryGoto, Leave, processVars
    <3> QED
      BY <3>1 DEF BoundaryInv, BoundaryHolds
  <2>4. CASE BoundaryDownReturns
    <3>1. UNCHANGED <<registry, registryStuck>> /\ boundary = "stopping" /\ compose = "ended"
      BY <2>4 DEF BoundaryDownReturns, Leave, processVars
    <3>2. action = "down"
      BY <3>1 DEF BoundaryInv, BoundaryMeetsCompose
    <3>3. "marty" \in Selected
      BY EntriesInOrder DEF BoundaryInv, ComposeInv, Types
    <3>4. code # "raised" => Gone("marty")
      BY <3>1, <3>2, <3>3 DEF BoundaryInv, ComposeInv, Settled
    <3> QED
      BY <3>1, <3>4 DEF Gone, BoundaryInv, BoundaryHolds
  <2>5. ~BoundaryUpReturns /\ ~WaitForPublicStack /\ ~RegistryUp /\ ~PublicSessions /\ ~Pytest /\ ~RegistryDown
    BY DEF BoundaryUpReturns, WaitForPublicStack, RegistryUp, PublicSessions, Pytest, RegistryDown, BoundaryGoto
  <2> QED
    BY <2>1, <2>2, <2>3, <2>4, <2>5 DEF BoundaryStep
<1> QED
  BY <1>3, <1>4, <1>6, <1>7 DEF BoundaryInv

\* What goes on beside the lane.
LEMMA BesideBoundary ==
    ASSUME BoundaryInv, UNCHANGED boundaryVars, ComposeNext \/ MaterialGoes \/ UNCHANGED suiteVars
    PROVE  BoundaryInv'
<1>1. UNCHANGED <<boundary, registry, registryAttempted, registryStuck, policy, required, junit,
                  exitCode, summary, claimed, cutShort>>
  BY DEF boundaryVars
<1>2. BoundaryHolds' /\ BoundarySays'
  BY <1>1 DEF BoundaryInv, BoundaryHolds, BoundarySays
<1>3. ComposeInv'
  BY ComposeNextKeeps, MaterialKeeps, ComposeStays DEF BoundaryInv
<1>4. CASE ComposeNext
  <2>1. compose \notin {"idle", "ended"} /\ compose' # "idle" /\ UNCHANGED <<suite, action>>
    BY <1>4, ComposeFrame
  <2>2. boundary \in {"starting", "reading", "stopping"}
    BY <2>1 DEF BoundaryInv, BoundaryMeetsCompose
  <2>3. boundary = "starting" /\ compose' = "ended" /\ code' = "zero" => project'["marty"] = "up"
    <3>1. "marty" \in Selected
      BY EntriesInOrder DEF BoundaryInv, ComposeInv, Types
    <3> QED
      BY <1>4, <3>1, AnswerStep DEF BoundaryInv, BoundaryMeetsCompose
  <2>4. BoundaryMeetsCompose' /\ BoundaryLeaves'
    BY <1>1, <2>1, <2>2, <2>3 DEF BoundaryInv, BoundaryMeetsCompose, BoundaryLeaves
  <2> QED
    BY <1>2, <1>3, <2>4 DEF BoundaryInv
<1>5. CASE MaterialGoes \/ UNCHANGED suiteVars
  <2>1. UNCHANGED <<suite, action, project, stuck, compose, code>>
    BY <1>5, LaneQuiet DEF MaterialGoes, requestVars, dockerVars, composeVars
  <2>2. BoundaryMeetsCompose' /\ BoundaryLeaves'
    BY <1>1, <2>1 DEF BoundaryInv, BoundaryMeetsCompose, BoundaryLeaves
  <2> QED
    BY <1>2, <1>3, <2>2 DEF BoundaryInv
<1> QED
  BY <1>4, <1>5

\* The invariant of the boundary lane.
THEOREM BoundaryCorrect == SpecBoundary => []BoundaryInv
<1>1. InitBoundary => BoundaryInv
  BY InitBoundaryInv
<1>2. BoundaryInv /\ [NextBoundary]_<<suiteVars, boundaryVars>> => BoundaryInv'
  <2> SUFFICES ASSUME BoundaryInv, [NextBoundary]_<<suiteVars, boundaryVars>> PROVE BoundaryInv'
    OBVIOUS
  <2>1. CASE BoundaryStep
    BY <2>1, BoundaryCallKeeps, BoundaryQuietKeeps
  <2>2. CASE (ComposeNext \/ MaterialGoes \/ UNCHANGED suiteVars) /\ UNCHANGED boundaryVars
    BY <2>2, BesideBoundary
  <2> QED
    BY <2>1, <2>2 DEF NextBoundary
<1> QED
  BY <1>1, <1>2, PTL DEF SpecBoundary

\* The tests run beside Marty and the registry, with the custody in place, and
\* a summary that says passed is of a pytest of this run (write_summary,
\* didcomm_test_passed).
THEOREM BoundaryEvidenceCorrect == SpecBoundary => []BoundaryEvidenceIsOwn
<1>1. BoundaryInv => BoundaryEvidenceIsOwn
  BY DEF BoundaryInv, BoundaryMeetsCompose, BoundaryHolds, BoundarySays, BoundaryEvidenceIsOwn
<1> QED
  BY <1>1, BoundaryCorrect, PTL

\* The lane that ended has removed the custody, and the registry and Marty but
\* for a failure of Docker or an exception in its finally.
THEOREM BoundaryTeardownCorrect == SpecBoundary => []BoundaryLeavesNothing
<1>1. BoundaryInv => BoundaryLeavesNothing
  BY DEF BoundaryInv, BoundaryHolds, BoundaryLeaves, BoundaryLeavesNothing
<1> QED
  BY <1>1, BoundaryCorrect, PTL

-----------------------------------------------------------------------------
(* The promises of the front end hold in the lanes too, where the certificate *)
(* is exchanged and Marty brought up again beside it.                      *)

\* In a lane nothing is there from a former call, so that Marty outlives the
\* others without the reservation of MartyOutlivesItsUsers.
LEMMA MartyStepInLane ==
    ASSUME LaneInv, [NextLane]_vars, project["marty"] # "absent", project'["marty"] = "absent"
    PROVE  \A p \in Others : Gone(p)
<1>1. ComposeInv /\ Types /\ fresh /\ "marty" \in Projects
  BY DEF LaneInv, LaneMeetsCompose, ComposeInv, Projects
<1>2. CASE ComposeStep
  BY <1>1, <1>2, MartyGoesLast DEF ComposeStep
<1>3. ~LaneMaterialGoes /\ project' # project
  BY DEF LaneMaterialGoes, MaterialGoes, dockerVars
<1>4. ~UNCHANGED vars /\ ~UNCHANGED suiteVars
  BY <1>3 DEF vars, suiteVars, dockerVars
<1>5. ~Up /\ ~Adopt
  BY <1>1, <1>3, UpKeepsMarty DEF Up, Adopt, Call, dockerVars
<1>6. ~FinalCertificate
  BY <1>3 DEF FinalCertificate, dockerVars
<1>7. CASE Down
  <2>1. kind = "w3c" /\ suite = SuiteOf(kind) /\ kind \in AllKinds
    BY <1>3, <1>7 DEF Down, Call, dockerVars, LaneInv, LaneMeetsCompose, LaneTypes
  <2>2. Selected = {"marty"}
    BY <1>1, <2>1, SuiteOfLane, EntriesInOrder DEF Types, VerifierKinds, IssuerKinds
  <2> QED
    BY <1>1, <2>2 DEF ComposeInv, Extent, Others, Gone
<1> QED
  BY <1>2, <1>3, <1>4, <1>5, <1>6, <1>7
     DEF NextLane, LaneStep, Preflight, UpRaises, UpReturns, Diagnose, Ready, Fixtures, Browser, Official, Evidence,
         Attachments, Native, Logs, DownReturns, VerifyCheckout

\* Marty outlives the projects that use its network in every lane.
THEOREM MartyOutlivesInLanes == SpecLane => MartyOutlivesItsUsers
<1>1. LaneInv /\ [NextLane]_vars
      => [project["marty"] # "absent" /\ project'["marty"] = "absent" =>
            \/ \A p \in Others : project[p] = "absent" \/ p \in stuck \/ (p = "oidf" /\ ~material)
            \/ ~fresh]_suiteVars
  BY MartyStepInLane DEF Gone
<1> QED
  BY <1>1, LaneCorrect, PTL DEF SpecLane, MartyOutlivesItsUsers

\* And in the boundary lane.
THEOREM MartyOutlivesInBoundary == SpecBoundary => MartyOutlivesItsUsers
<1>1. ASSUME BoundaryInv, [NextBoundary]_<<suiteVars, boundaryVars>>,
             project["marty"] # "absent", project'["marty"] = "absent"
      PROVE  ComposeNext
  <2>1. ~BoundaryStep
    BY <1>1 DEF BoundaryStep, Prepare, InitializeDidcommPolicy, BoundaryUp, BoundaryUpRaises, BoundaryUpReturns,
       WaitForPublicStack, RegistryUp, PublicSessions, Pytest, WriteSummary, RegistryLogs, RegistryDown, BoundaryLogs,
       BoundaryLogsReturn, BoundaryDown, BoundaryDownReturns, Call, suiteVars, dockerVars
  <2> QED
    BY <1>1, <2>1 DEF NextBoundary, MaterialGoes, suiteVars, dockerVars
<1>2. BoundaryInv /\ [NextBoundary]_<<suiteVars, boundaryVars>>
      => [project["marty"] # "absent" /\ project'["marty"] = "absent" =>
            \/ \A p \in Others : project[p] = "absent" \/ p \in stuck \/ (p = "oidf" /\ ~material)
            \/ ~fresh]_suiteVars
  BY <1>1, MartyGoesLast DEF Gone, BoundaryInv
<1> QED
  BY <1>2, BoundaryCorrect, PTL DEF SpecBoundary, MartyOutlivesItsUsers

\* What the lanes read from the exit code of the front end is true.
THEOREM AnswerInLanes == SpecLane \/ SpecBoundary => AnswerIsTrue
<1> DEFINE True == compose # "ended" /\ compose' = "ended" /\ code' = "zero" =>
            /\ action = "up" =>
                  /\ \A p \in Selected : project'[p] = "up"
                  /\ bridge'
                  /\ suite["haip"] => served' = IF Staged THEN "startup" ELSE "external"
            /\ action = "down" => \A p \in Selected : project'[p] = "absent"
<1>1. ASSUME compose # "ended", compose' = "ended", [NextLane]_vars PROVE ComposeNext
  <2>1. ~UNCHANGED compose
    BY <1>1
  <2>2. ~UNCHANGED vars /\ ~UNCHANGED suiteVars /\ ~LaneMaterialGoes
    BY <2>1 DEF vars, suiteVars, composeVars, LaneMaterialGoes, MaterialGoes
  <2>3. ~Up /\ ~Down /\ ~FinalCertificate /\ ~Adopt
    BY <1>1, <2>1 DEF Up, Down, FinalCertificate, Adopt, Call, composeVars
  <2> QED
    BY <1>1, <2>2, <2>3
       DEF NextLane, ComposeStep, LaneStep, Preflight, UpRaises, UpReturns, Diagnose, Ready, Fixtures, Browser,
           Official, Evidence, Attachments, Native, Logs, DownReturns, VerifyCheckout
<1>2. ASSUME compose # "ended", compose' = "ended", [NextBoundary]_<<suiteVars, boundaryVars>> PROVE ComposeNext
  <2>1. ~BoundaryStep
    BY <1>2 DEF BoundaryStep, Prepare, InitializeDidcommPolicy, BoundaryUp, BoundaryUpRaises, BoundaryUpReturns,
       WaitForPublicStack, RegistryUp, PublicSessions, Pytest, WriteSummary, RegistryLogs, RegistryDown, BoundaryLogs,
       BoundaryLogsReturn, BoundaryDown, BoundaryDownReturns, Call, suiteVars, composeVars
  <2> QED
    BY <1>2, <2>1 DEF NextBoundary, MaterialGoes, suiteVars, composeVars
<1>3. LaneInv /\ [NextLane]_vars => [True]_suiteVars
  BY <1>1, AnswerStep DEF LaneInv
<1>4. BoundaryInv /\ [NextBoundary]_<<suiteVars, boundaryVars>> => [True]_suiteVars
  BY <1>2, AnswerStep DEF BoundaryInv
<1>5. SpecLane => AnswerIsTrue
  BY <1>3, LaneCorrect, PTL DEF SpecLane, AnswerIsTrue
<1>6. SpecBoundary => AnswerIsTrue
  BY <1>4, BoundaryCorrect, PTL DEF SpecBoundary, AnswerIsTrue
<1> QED
  BY <1>5, <1>6

\* A start that fails is unwound in every lane and in the boundary lane.
THEOREM FailedUpInLanes == SpecLane \/ SpecBoundary => []FailedUpUnwinds
<1>1. LaneInv => FailedUpUnwinds
  BY ComposeImpliesUnwound DEF LaneInv
<1>2. BoundaryInv => FailedUpUnwinds
  BY ComposeImpliesUnwound DEF BoundaryInv
<1> QED
  BY <1>1, <1>2, LaneCorrect, BoundaryCorrect, PTL
-----------------------------------------------------------------------------
(* KmsFixture: its clean-up counts the agents it has seen dead, and looks   *)
(* for the container by its label when it does not know its name.           *)

KmsTypes ==
    /\ kms \in {"run", "health", "roles", "agents", "ready", "command", "terminate", "wait", "remove", "ended"}
    /\ openbao \in {"absent", "late", "running"}
    /\ agent \in [1..2 -> {"none", "alive", "told", "dead"}]
    /\ waitedFor \in 0..2
    /\ kmsCode \in {"none", "zero", "nonzero"}

CleanUp == {"terminate", "wait", "remove", "ended"}

\* The agents that were waited for are gone, and no other one is started.
Reaped ==
    /\ waitedFor # 0 => kms \in {"wait", "remove", "ended"}
    /\ waitedFor >= 1 => agent[1] \in {"none", "dead"}
    /\ waitedFor = 2 => agent[2] \in {"none", "dead"}
    /\ kms = "remove" => waitedFor = 2
    /\ kms = "ended" => survived \/ waitedFor = 2

\* A container is there only if docker run was called; one that is still to
\* come was noticed as a failure.
Accounted ==
    /\ kms = "run" => openbao = "absent"
    /\ kms # "run" => attempted
    /\ openbao = "late" => refused
    /\ kms = "ended" /\ openbao # "absent" => survived \/ refused

\* A failure is never forgotten.
Remembered ==
    /\ refused => kms \in CleanUp /\ kmsCode = "nonzero"
    /\ survived => kms = "ended" /\ kmsCode = "nonzero"

KmsInv == KmsTypes /\ Reaped /\ Accounted /\ Remembered

LEMMA InitKmsInv == InitKms => KmsInv
<1> SUFFICES ASSUME InitKms PROVE KmsInv
  OBVIOUS
<1>1. /\ kms = "run" /\ attempted = FALSE /\ survived = FALSE /\ refused = FALSE
      /\ openbao = "absent" /\ waitedFor = 0 /\ kmsCode = "none"
      /\ agent = [r \in 1..2 |-> "none"]
  BY DEF InitKms
<1>2. KmsTypes
  BY <1>1 DEF KmsTypes
<1>3. Reaped
  BY <1>1 DEF Reaped
<1>4. Accounted /\ Remembered
  BY <1>1, Zenon DEF Accounted, Remembered
<1>. QED  BY <1>2, <1>3, <1>4 DEF KmsInv

LEMMA NextKmsInv == KmsInv /\ [NextKms]_kmsVars => KmsInv'
<1> SUFFICES ASSUME KmsInv, [NextKms]_kmsVars PROVE KmsInv'
  OBVIOUS
<1> USE AttemptsAssumption DEF KmsInv, KmsTypes, Reaped, Accounted, Remembered, CleanUp
<1>1. CASE RunOpenBao
  <2>1. /\ kms = "run" /\ attempted' = TRUE /\ UNCHANGED <<agent, waitedFor, survived>>
        /\ \/ openbao' = "running" /\ kms' = "health" /\ UNCHANGED <<refused, kmsCode>>
           \/ /\ openbao' \in {"absent", "running", "late"}
              /\ (openbao' = "late" => refused')
              /\ kms' = "terminate" /\ kmsCode' = "nonzero"
    BY <1>1, Zenon DEF RunOpenBao, KmsGoto, KmsRaise
  <2>. QED  BY <2>1
<1>2. CASE StartsLate
  BY <1>2 DEF StartsLate
<1>3. CASE Health \/ CreateRoles
  BY <1>3 DEF Health, CreateRoles, Retry, KmsGoto, KmsRaise
<1>4. CASE StartAgent
  BY <1>4 DEF StartAgent, KmsGoto, KmsRaise
<1>5. CASE EndpointsReady
  BY <1>5 DEF EndpointsReady, Retry, KmsGoto, KmsRaise
<1>6. CASE RunCommand
  BY <1>6 DEF RunCommand
<1>7. ASSUME NEW r \in 1..2, AgentExits(r) PROVE KmsInv'
  BY <1>7 DEF AgentExits
<1>8. CASE Terminate
  BY <1>8 DEF Terminate
<1>9. CASE WaitForAgent
  <2>1. waitedFor + 1 \in 1..2
    BY <1>9 DEF WaitForAgent
  <2>2. CASE kms' = "ended"
    BY <1>9, <2>1, <2>2 DEF WaitForAgent, Outlives
  <2>3. CASE kms' = "wait"
    <3>1. /\ waitedFor' = waitedFor + 1
          /\ UNCHANGED <<kms, kmsCode, attempted, launched, tries, openbao, refused, survived>>
          /\ \/ agent[waitedFor + 1] \in {"none", "dead"} /\ UNCHANGED agent
             \/ agent' = [agent EXCEPT ![waitedFor + 1] = "dead"]
      BY <1>9, <2>3 DEF WaitForAgent, Outlives
    <3>2. /\ agent' \in [1..2 -> {"none", "alive", "told", "dead"}]
          /\ agent'[waitedFor + 1] \in {"none", "dead"}
          /\ \A r \in 1..2 : agent[r] \in {"none", "dead"} => agent'[r] \in {"none", "dead"}
      BY <2>1, <3>1
    <3>. QED  BY <1>9, <2>1, <3>1, <3>2 DEF WaitForAgent
  <2>4. kms' \in {"wait", "ended"}
    BY <1>9 DEF WaitForAgent, Outlives
  <2>. QED  BY <2>2, <2>3, <2>4
<1>10. CASE AllWaited
  BY <1>10 DEF AllWaited
<1>11. CASE RemoveOpenBao
  BY <1>11 DEF RemoveOpenBao, Owned
<1>12. CASE UNCHANGED kmsVars
  BY <1>12 DEF kmsVars
<1>. QED
  BY <1>1, <1>2, <1>3, <1>4, <1>5, <1>6, <1>7, <1>8, <1>9, <1>10, <1>11, <1>12 DEF NextKms

\* A fixture that ended has left neither an agent nor its container, or did
\* not exit with 0 (the `finally' of run).
THEOREM NothingLeft == SpecKms => []KmsLeavesNothing
<1>1. KmsInv => KmsLeavesNothing
  <2> SUFFICES ASSUME KmsInv, kms = "ended"
               PROVE  /\ (\E r \in 1..2 : agent[r] \in {"alive", "told"}) => survived
                      /\ openbao # "absent" => survived \/ refused
                      /\ survived \/ refused => kmsCode = "nonzero"
    BY DEF KmsLeavesNothing
  <2>1. ~ survived => \A r \in 1..2 : agent[r] \in {"none", "dead"}
    BY DEF KmsInv, Reaped
  <2>. QED  BY <2>1 DEF KmsInv, Accounted, Remembered
<1>. QED  BY <1>1, InitKmsInv, NextKmsInv, PTL DEF SpecKms

-----------------------------------------------------------------------------
(* OfferHook, for any number of clients in its request: the offers that     *)
(* were accepted count its interactions, and as long as it never took an    *)
(* old WAITING for a new one, the phases of the module do, too.             *)

Clients == {a.client : a \in accepted}
Waits == hook \in {"wait", "create", "deliver"}

OfferTypes ==
    /\ test \in Tests
    /\ hook \in HookSteps \cup Exits
    /\ interaction \in 1..2
    /\ status \in {"RUNNING", "WAITING", "FINISHED", "INTERRUPTED"}
    /\ phase \in Nat \ {0}

\* Which clients have their offer.
Served ==
    /\ hook \in HookSteps \ {"start"} => interaction <= Required
    /\ hook = "start" => interaction = 1 /\ offered = {} /\ Clients = {} /\ accepted = {}
    /\ Waits => Clients = 1..(interaction - 1)
    /\ hook = "wait" /\ interaction = 1 => offered = {} /\ accepted = {}
    /\ hook = "tx_code" => Clients = 1..interaction
    /\ ExitAccountsForOffers

\* Without a stale WAITING the module is at the client the hook works for.
InStep ==
    ~ stale =>
        /\ hook \in {"start", "wait"} => phase = interaction - (IF unread THEN 1 ELSE 0)
        /\ hook \in {"create", "deliver"} =>
              phase = interaction /\ ~ unread /\ status # "RUNNING"
        /\ hook = "tx_code" => phase = interaction + (IF unread THEN 0 ELSE 1)
        /\ \A a \in accepted : a.client = a.phase

OfferInv == OfferTypes /\ Served /\ InStep

LEMMA RequiredIs == test \in Tests => Required \in 0..2
BY DEF Required, RequiredOfferInteractions, Tests, Metadata, Happy, MultipleClients

LEMMA InitOfferInv == InitOffer => OfferInv
<1> SUFFICES ASSUME InitOffer PROVE OfferInv
  OBVIOUS
<1>1. Clients = {}
  BY DEF InitOffer, Clients
<1>2. /\ test \in Tests /\ hook = "start" /\ interaction = 1 /\ offered = {} /\ accepted = {}
      /\ status = "RUNNING" /\ phase = 1 /\ unread = FALSE /\ stale = FALSE
  BY DEF InitOffer
<1>3. OfferTypes
  BY <1>2 DEF OfferTypes, HookSteps, Exits
<1>4. Served
  BY <1>1, <1>2 DEF Served, Waits, HookSteps, ExitAccountsForOffers
<1>5. InStep
  BY <1>2 DEF InStep
<1>. QED  BY <1>3, <1>4, <1>5 DEF OfferInv

LEMMA NextOfferInv == OfferInv /\ [NextOffer]_offerVars => OfferInv'
<1> SUFFICES ASSUME OfferInv, [NextOffer]_offerVars PROVE OfferInv'
  OBVIOUS
<1>1. Required \in 0..2
  BY RequiredIs DEF OfferInv, OfferTypes
<1> USE <1>1 DEF OfferInv, OfferTypes, HookSteps, Exits
<1>2. ASSUME UNCHANGED <<test, accepted>> PROVE Clients' = Clients /\ Required' = Required
  BY <1>2 DEF Clients, Required
<1>3. CASE Start
  <2>1. /\ hook = "start" /\ hook' \in {IF Required = 0 THEN "ok" ELSE "wait", "failed"}
        /\ UNCHANGED <<test, interaction, offered, status, phase, unread, accepted, stale>>
    BY <1>3 DEF Start, commandVars, moduleVars
  <2>. QED  BY <1>2, <2>1 DEF Served, InStep, Waits, ExitAccountsForOffers, Clients
<1>4. CASE WaitForInteraction
  <2>1. /\ hook = "wait"
        /\ \/ status = "WAITING" /\ hook' = "create" /\ stale' = (stale \/ unread)
           \/ Ended /\ hook' = EndedEarly /\ UNCHANGED stale
        /\ UNCHANGED <<test, interaction, offered, status, phase, unread, accepted>>
    BY <1>4 DEF WaitForInteraction, commandVars, moduleVars
  <2>2. OfferTypes'
    BY <2>1 DEF EndedEarly
  <2>3. Served'
    BY <1>2, <2>1 DEF Served, Waits, ExitAccountsForOffers, Clients, EndedEarly, Ended
  <2>4. InStep'
    <3> SUFFICES ASSUME ~ stale' PROVE InStep'
      BY DEF InStep
    <3>1. /\ ~ stale
          /\ \/ status = "WAITING" /\ hook' = "create" /\ ~ unread
             \/ hook' \in Exits
      <4>1. CASE status = "WAITING" /\ hook' = "create" /\ stale' = (stale \/ unread)
        BY <4>1, Zenon
      <4>2. CASE Ended /\ hook' = EndedEarly /\ UNCHANGED stale
        BY <4>2, Zenon DEF EndedEarly, Exits
      <4>. QED  BY <2>1, <4>1, <4>2, Zenon
    <3>. QED  BY <2>1, <3>1 DEF InStep
  <2>. QED  BY <2>2, <2>3, <2>4
<1>5. CASE CreateOffer
  <2>1. /\ hook = "create" /\ hook' \in {"deliver", "failed"}
        /\ UNCHANGED <<test, interaction, status, phase, unread, accepted, stale>>
    BY <1>5 DEF CreateOffer, commandVars, moduleVars
  <2>. QED  BY <1>2, <2>1 DEF Served, InStep, Waits, ExitAccountsForOffers, Clients
<1>6. CASE DeliverOffer
  <2> DEFINE offer == [client |-> interaction, phase |-> IF status = "WAITING" THEN phase ELSE phase - 1]
  <2>1. /\ hook = "deliver" /\ hook' \in {"tx_code", "failed"} /\ ~ Ended
        /\ accepted' = accepted \cup {offer}
        /\ unread' = (unread \/ status = "WAITING")
        /\ UNCHANGED <<test, interaction, offered, status, phase, stale>>
    BY <1>6 DEF DeliverOffer, commandVars, OfferPayload
  <2>2. Clients' = Clients \cup {interaction} /\ Required' = Required
    <3>1. offer.client = interaction
      OBVIOUS
    <3> HIDE DEF offer
    <3>2. Clients' = Clients \cup {offer.client}
      BY <2>1, Zenon DEF Clients
    <3>. QED  BY <2>1, <3>1, <3>2 DEF Required
  <2>3. Clients' = 1..interaction
    BY <2>1, <2>2 DEF Served, Waits
  <2>4. Served'
    BY <2>1, <2>2, <2>3 DEF Served, Waits, ExitAccountsForOffers
  <2>5. InStep'
    <3> SUFFICES ASSUME ~ stale
                 PROVE  InStep'
      BY <2>1 DEF InStep
    <3>1. status = "WAITING" /\ phase = interaction
      BY <2>1 DEF InStep, Ended
    <3>2. offer.client = interaction /\ offer.phase = interaction
      BY <3>1
    <3> HIDE DEF offer
    <3>3. \A a \in accepted' : a.client = a.phase
      BY <2>1, <3>2 DEF InStep
    <3>4. unread'
      BY <2>1, <3>1, Zenon
    <3>. QED  BY <2>1, <3>1, <3>3, <3>4 DEF InStep
  <2>6. OfferTypes'
    BY <2>1
  <2>. QED  BY <2>4, <2>5, <2>6
<1>7. CASE DeliverTxCode
  <2>1. /\ hook = "tx_code"
        /\ hook' = IF interaction = Required THEN "ok" ELSE "wait"
        /\ interaction' = IF interaction = Required THEN interaction ELSE interaction + 1
        /\ UNCHANGED <<test, offered, status, phase, unread, accepted, stale>>
    BY <1>7 DEF DeliverTxCode, commandVars, moduleVars
  <2>. QED  BY <1>2, <2>1 DEF Served, InStep, Waits, ExitAccountsForOffers, Clients
<1>8. CASE HookFails
  <2>1. hook' = "failed" /\ UNCHANGED <<test, interaction, offered, status, phase, unread, accepted, stale>>
    BY <1>8 DEF HookFails, commandVars, moduleVars
  <2>. QED  BY <1>2, <2>1 DEF Served, InStep, Waits, ExitAccountsForOffers
<1>9. CASE ModuleWaits \/ ModuleResumes \/ ModuleEnds
  <2>1. UNCHANGED <<test, hook, interaction, offered, accepted, stale>>
    BY <1>9 DEF ModuleWaits, ModuleResumes, ModuleEnds, commandVars
  <2>2. Ended => Ended'
    BY <1>9 DEF ModuleWaits, ModuleResumes, ModuleEnds, Ended
  <2>3. Served'
    BY <1>2, <2>1, <2>2 DEF Served, Waits, ExitAccountsForOffers, Clients
  <2>4. InStep'
    BY <1>9, <2>1 DEF InStep, ModuleWaits, ModuleResumes, ModuleEnds
  <2>5. OfferTypes'
    <3>1. /\ status' \in {"RUNNING", "WAITING", "FINISHED", "INTERRUPTED"}
          /\ phase' \in {phase, phase + 1} /\ unread' \in {unread, FALSE}
      BY <1>9 DEF ModuleWaits, ModuleResumes, ModuleEnds
    <3>. QED  BY <2>1, <3>1
  <2>. QED  BY <2>3, <2>4, <2>5
<1>10. CASE UNCHANGED offerVars
  <2>1. UNCHANGED <<test, hook, interaction, offered, status, phase, unread, accepted, stale>>
    BY <1>10 DEF offerVars, commandVars, moduleVars
  <2>. QED  BY <1>2, <2>1 DEF Served, InStep, Waits, ExitAccountsForOffers, Clients, Ended
<1>. QED
  BY <1>3, <1>4, <1>5, <1>6, <1>7, <1>8, <1>9, <1>10 DEF NextOffer, Hook

\* A hook that exits with 0 has delivered one offer for each client of its
\* module, or none to a module that ended without asking (main).
THEOREM ExitCorrect == SpecOffer => []ExitAccountsForOffers
<1>1. OfferInv => ExitAccountsForOffers
  BY DEF OfferInv, Served
<1>. QED  BY <1>1, InitOfferInv, NextOfferInv, PTL DEF SpecOffer

\* An offer reaches another client's phase only after a poll that took an old
\* WAITING for a new one (wait_for_interaction).
THEOREM WindowCorrect == SpecOffer => []StaleWaitingIsTheOnlyWindow
<1>1. OfferInv => StaleWaitingIsTheOnlyWindow
  BY DEF OfferInv, InStep, StaleWaitingIsTheOnlyWindow
<1>. QED  BY <1>1, InitOfferInv, NextOfferInv, PTL DEF SpecOffer
=============================================================================

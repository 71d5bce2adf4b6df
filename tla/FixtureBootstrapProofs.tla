----------------------- MODULE FixtureBootstrapProofs -----------------------
(***************************************************************************)
(* Proofs about FixtureBootstrap, for any number of runs.  First a fact    *)
(* about the scripts: every request comes after those it rests on.  Then   *)
(* the invariant: a run has done what its script says before its position, *)
(* and nothing else but, perhaps, the request it is at.                    *)
(***************************************************************************)
EXTENDS FixtureBootstrap, SequenceTheorems, TLAPS

Ops == {"identity", "resolve", "attach", "create", "activate", "link", "metadata", "key"}
Fixtures == {"w3c", "oid4vci", "oid4vp", "oid4vp_mdoc", "eudi"}
Kinds == {"compliance", "revocation", "template", "presentationTemplate", "trust", "entity",
          "credentialPolicy", "presentationPolicy", "browserCompliance", "browserTemplate",
          "application", "flow", "passport", "mdl", "openBadge"}
Whats == Identities \cup Fixtures \cup (Fixtures \X Kinds)
Req == [op : Ops, what : Whats]

Asked(s) == {s[k] : k \in 1..Len(s)}

\* What must have been asked before a request makes sense.
Before(q, pinned) ==
    CASE q.op = "activate" ->
           {Request("create", q.what)} \cup {Request("activate", x) : x \in Needs(q.what)}
           \cup (IF q.what[2] = "trust" /\ (pinned \/ q.what[1] # "oid4vp_mdoc")
                 THEN {Request("link", q.what)} ELSE {})
      [] q.op = "link"     -> {Request("create", q.what)}
      [] q.op = "attach"   -> {Request("identity", q.what)}
      [] q.op = "metadata" -> {Request("activate", <<q.what, "template">>)}
      [] OTHER             -> {}

\* A sequence that may follow the requests P.
Ordered(P, s, pinned) ==
    \A k \in 1..Len(s) : \A p \in Before(s[k], pinned) : p \in P \/ \E j \in 1..(k - 1) : s[j] = p

\* Whatever is created is activated, and only that, but for entities.
Closed(R) ==
    \A q \in R :
        /\ q.op = "create" => q.what[2] = "entity" \/ Request("activate", q.what) \in R
        /\ q.op = "activate" => q.what[2] # "entity" /\ Request("create", q.what) \in R

Harmless(R) == \A q \in R : q.op \notin {"attach", "metadata", "key"}

Block(P, s, pinned) ==
    s \in Seq(Req) /\ Ordered(P, s, pinned) /\ Closed(Asked(s)) /\ Harmless(Asked(s))

-----------------------------------------------------------------------------
LEMMA Joined ==
  ASSUME NEW s \in Seq(Req), NEW t \in Seq(Req)
  PROVE  /\ s \o t \in Seq(Req)
         /\ Len(s \o t) = Len(s) + Len(t)
         /\ \A k \in 1..Len(s) : (s \o t)[k] = s[k]
         /\ \A k \in 1..Len(t) : (s \o t)[Len(s) + k] = t[k]
         /\ Asked(s \o t) = Asked(s) \cup Asked(t)
<1>1. /\ s \o t \in Seq(Req)
      /\ Len(s \o t) = Len(s) + Len(t)
      /\ \A k \in 1..(Len(s) + Len(t)) : (s \o t)[k] = IF k <= Len(s) THEN s[k] ELSE t[k - Len(s)]
  BY ConcatProperties
<1>2. Len(s) \in Nat /\ Len(t) \in Nat
  BY LenProperties
<1>3. \A k \in 1..Len(s) : (s \o t)[k] = s[k]
  BY <1>1, <1>2
<1>4. ASSUME NEW k \in 1..Len(t) PROVE (s \o t)[Len(s) + k] = t[k]
  BY <1>1, <1>2
<1>5. ASSUME NEW k \in 1..Len(s \o t) PROVE (s \o t)[k] \in Asked(s) \cup Asked(t)
  <2>1. CASE k <= Len(s)
    BY <1>1, <1>2, <2>1 DEF Asked
  <2>2. CASE ~ (k <= Len(s))
    BY <1>1, <1>2, <2>2 DEF Asked
  <2>. QED  BY <2>1, <2>2
<1>6. Asked(s) \subseteq Asked(s \o t)
  BY <1>1, <1>2, <1>3 DEF Asked
<1>7. Asked(t) \subseteq Asked(s \o t)
  <2> SUFFICES ASSUME NEW k \in 1..Len(t) PROVE t[k] \in Asked(s \o t)
    BY DEF Asked
  <2>1. Len(s) + k \in 1..Len(s \o t)
    BY <1>1, <1>2
  <2>. QED  BY <1>4, <2>1 DEF Asked
<1>8. Asked(s \o t) \subseteq Asked(s) \cup Asked(t)
  BY <1>5 DEF Asked
<1>. QED  BY <1>1, <1>3, <1>4, <1>6, <1>7, <1>8

LEMMA Regroup ==
  ASSUME NEW s \in Seq(Req), NEW t \in Seq(Req), NEW u \in Seq(Req)
  PROVE  s \o t \o u = s \o (t \o u)
BY ConcatAssociative

\* Two scripts after each other.
LEMMA OrderedJoin ==
  ASSUME NEW s \in Seq(Req), NEW t \in Seq(Req), NEW P, NEW Q, NEW pinned,
         Ordered(P, s, pinned), Ordered(Q, t, pinned), Q \subseteq P \cup Asked(s)
  PROVE  Ordered(P, s \o t, pinned)
<1> DEFINE u == s \o t
<1>1. /\ Len(u) = Len(s) + Len(t) /\ Len(s) \in Nat /\ Len(t) \in Nat
      /\ \A k \in 1..Len(s) : u[k] = s[k]
      /\ \A k \in 1..Len(t) : u[Len(s) + k] = t[k]
  BY Joined, LenProperties
<1> HIDE DEF u
<1> SUFFICES ASSUME NEW k \in 1..Len(u), NEW p \in Before(u[k], pinned), p \notin P
             PROVE  \E j \in 1..(k - 1) : u[j] = p
  BY DEF Ordered, u
<1>2. CASE k <= Len(s)
  <2>1. k \in 1..Len(s) /\ u[k] = s[k]
    BY <1>1, <1>2
  <2>2. PICK j \in 1..(k - 1) : s[j] = p
    BY <2>1 DEF Ordered
  <2>. QED  BY <1>1, <2>1, <2>2
<1>3. CASE ~ (k <= Len(s))
  <2> DEFINE i == k - Len(s)
  <2>1. i \in 1..Len(t) /\ k = Len(s) + i
    BY <1>1, <1>3
  <2>2. u[k] = t[i]
    BY <1>1, <2>1
  <2> HIDE DEF i
  <2>3. CASE p \in Q
    <3>1. PICK j \in 1..Len(s) : s[j] = p
      BY <2>3 DEF Asked
    <3>. QED  BY <1>1, <2>1, <3>1
  <2>4. CASE \E j \in 1..(i - 1) : t[j] = p
    <3>1. PICK j \in 1..(i - 1) : t[j] = p
      BY <2>4
    <3>2. j \in 1..Len(t) /\ Len(s) + j \in 1..(k - 1)
      BY <1>1, <2>1, <3>1
    <3>3. u[Len(s) + j] = p
      BY <1>1, <3>1, <3>2
    <3>. QED  BY <3>2, <3>3
  <2>. QED  BY <2>1, <2>2, <2>3, <2>4 DEF Ordered
<1>. QED  BY <1>2, <1>3

LEMMA OrderedMore ==
  ASSUME NEW s, NEW P, NEW Q, NEW pinned, Ordered(P, s, pinned), P \subseteq Q
  PROVE  Ordered(Q, s, pinned)
BY DEF Ordered

LEMMA BlockJoin ==
  ASSUME NEW s, NEW t, NEW P, NEW Q, NEW pinned,
         Block(P, s, pinned), Block(Q, t, pinned), Q \subseteq P \cup Asked(s)
  PROVE  Block(P, s \o t, pinned) /\ Asked(s \o t) = Asked(s) \cup Asked(t)
<1>1. s \in Seq(Req) /\ t \in Seq(Req)
  BY DEF Block
<1>2. s \o t \in Seq(Req) /\ Asked(s \o t) = Asked(s) \cup Asked(t)
  BY <1>1, Joined
<1>3. Ordered(P, s \o t, pinned)
  BY <1>1, OrderedJoin DEF Block
<1>4. Closed(Asked(s) \cup Asked(t)) /\ Harmless(Asked(s) \cup Asked(t))
  BY DEF Block, Closed, Harmless
<1>. QED  BY <1>2, <1>3, <1>4 DEF Block

LEMMA BlockEmpty == \A P, pinned : Block(P, <<>>, pinned) /\ Asked(<<>>) = {}
BY DEF Block, Ordered, Asked, Closed, Harmless

LEMMA Singles ==
  ASSUME NEW q \in Req
  PROVE  <<q>> \in Seq(Req) /\ Asked(<<q>>) = {q}
         /\ \A P, pinned : Before(q, pinned) \subseteq P => Ordered(P, <<q>>, pinned)
BY DEF Asked, Ordered

LEMMA Pairs ==
  ASSUME NEW q \in Req, NEW r \in Req
  PROVE  <<q, r>> \in Seq(Req) /\ Asked(<<q, r>>) = {q, r}
         /\ \A P, pinned : Before(q, pinned) \subseteq P /\ Before(r, pinned) \subseteq P \cup {q}
                              => Ordered(P, <<q, r>>, pinned)
<1> DEFINE s == <<q, r>>
<1>1. s \in Seq(Req) /\ Len(s) = 2 /\ s[1] = q /\ s[2] = r
  OBVIOUS
<1> HIDE DEF s
<1>2. 1..2 = {1, 2}
  OBVIOUS
<1>3. Asked(s) = {q, r}
  BY <1>1, <1>2 DEF Asked
<1>4. ASSUME NEW P, NEW pinned, Before(q, pinned) \subseteq P, Before(r, pinned) \subseteq P \cup {q}
      PROVE  Ordered(P, s, pinned)
  BY <1>1, <1>2, <1>4 DEF Ordered
<1>. QED  BY <1>1, <1>3, <1>4 DEF s

-----------------------------------------------------------------------------
(* The blocks of the scripts.                                               *)

Active(f, kind) == Request("activate", <<f, kind>>)

LEMMA LifecycleBlock ==
  ASSUME NEW f \in Fixtures, NEW kind \in Kinds, kind # "trust", kind # "entity", NEW P, NEW pinned,
         \A x \in Needs(<<f, kind>>) : Request("activate", x) \in P
  PROVE  /\ Block(P, Lifecycle(f, kind), pinned)
         /\ Asked(Lifecycle(f, kind)) = {Request("create", <<f, kind>>), Active(f, kind)}
<1> DEFINE x == <<f, kind>>  q == Request("create", x)  r == Request("activate", x)
<1>1. q \in Req /\ r \in Req
  BY DEF Request, Req, Whats, Ops
<1>2. q.op = "create" /\ r.op = "activate" /\ q.what = x /\ r.what = x
  BY DEF Request
<1>3. x[2] = kind /\ x[1] = f
  OBVIOUS
<1> HIDE DEF x
<1>4. Before(q, pinned) = {}
  BY <1>2 DEF Before
<1>5. Before(r, pinned) \subseteq P \cup {q}
  BY <1>2, <1>3 DEF Before, x
<1>6. Lifecycle(f, kind) = <<q, r>>
  BY DEF Lifecycle, x
<1> HIDE DEF q, r
<1>7. /\ Lifecycle(f, kind) \in Seq(Req) /\ Asked(Lifecycle(f, kind)) = {q, r}
      /\ Ordered(P, Lifecycle(f, kind), pinned)
  BY <1>1, <1>4, <1>5, <1>6, Pairs
<1>8. Closed({q, r})
  BY <1>2, <1>3 DEF Closed, q, r
<1>9. Harmless({q, r})
  BY <1>2 DEF Harmless
<1>. QED  BY <1>7, <1>8, <1>9 DEF Block, Active, q, r, x

LEMMA IdentityBlock ==
  ASSUME NEW f \in Fixtures \ {"eudi"}, NEW pinned
  PROVE  /\ Block({}, IdentityRequests(f), pinned)
         /\ f = "oid4vci" => Request("identity", "sdJwt") \in Asked(IdentityRequests(f))
<1>1. ASSUME NEW s \in Seq(Req), \A q \in Asked(s) : q.op \in {"identity", "resolve"}
      PROVE  Block({}, s, pinned)
  <2>1. \A k \in 1..Len(s) : Before(s[k], pinned) = {}
    BY <1>1 DEF Asked, Before
  <2>. QED  BY <1>1, <2>1 DEF Block, Ordered, Closed, Harmless
<1>2. ASSUME NEW i \in Identities, NEW j \in Identities
      PROVE  /\ Block({}, <<Request("identity", i)>>, pinned)
             /\ Block({}, <<Request("identity", i), Request("identity", j), Request("resolve", j)>>, pinned)
  <2>1. /\ Request("identity", i) \in Req /\ Request("identity", j) \in Req /\ Request("resolve", j) \in Req
        /\ Request("identity", i).op = "identity" /\ Request("identity", j).op = "identity"
        /\ Request("resolve", j).op = "resolve"
    BY DEF Request, Req, Whats, Ops
  <2>2. Block({}, <<Request("identity", i)>>, pinned)
    BY <1>1, <2>1, Singles
  <2> DEFINE s == <<Request("identity", i), Request("identity", j), Request("resolve", j)>>
  <2>3. s \in Seq(Req) /\ Len(s) = 3 /\ s[1] = Request("identity", i) /\ s[2] = Request("identity", j)
        /\ s[3] = Request("resolve", j)
    BY <2>1
  <2> HIDE DEF s
  <2>4. \A q \in Asked(s) : q.op \in {"identity", "resolve"}
    BY <2>1, <2>3 DEF Asked
  <2>5. Block({}, s, pinned)
    BY <1>1, <2>3, <2>4
  <2>. QED  BY <2>2, <2>5 DEF s
<1>3. {"sdJwt", "jsonLd", "mdoc", "request", "mdocRequest"} = Identities
  BY DEF Identities
<1>4. CASE f = "w3c"
  <2>1. IdentityRequests(f) = <<Request("identity", "jsonLd")>>
    BY <1>4 DEF IdentityRequests
  <2>. QED  BY <1>2, <1>3, <1>4, <2>1
<1>5. CASE f = "oid4vci"
  <2>1. IdentityRequests(f) = <<Request("identity", "sdJwt")>>
    BY <1>5 DEF IdentityRequests
  <2>2. Request("identity", "sdJwt") \in Asked(<<Request("identity", "sdJwt")>>)
    BY DEF Asked
  <2>. QED  BY <1>2, <1>3, <2>1, <2>2
<1>6. CASE f = "oid4vp"
  <2>1. IdentityRequests(f) = <<Request("identity", "sdJwt"), Request("identity", "request"),
                                Request("resolve", "request")>>
    BY <1>6 DEF IdentityRequests
  <2>. QED  BY <1>2, <1>3, <1>6, <2>1
<1>7. CASE f = "oid4vp_mdoc"
  <2>1. IdentityRequests(f) = <<Request("identity", "mdoc"), Request("identity", "mdocRequest"),
                                Request("resolve", "mdocRequest")>>
    BY <1>7 DEF IdentityRequests
  <2>. QED  BY <1>2, <1>3, <1>7, <2>1
<1>. QED  BY <1>4, <1>5, <1>6, <1>7 DEF Fixtures

LEMMA TrustBlock ==
  ASSUME NEW f \in Fixtures, NEW p \in BOOLEAN, NEW pinned, p \/ (f = "oid4vp_mdoc" /\ ~ pinned)
  PROVE  /\ Block({}, TrustRequests(f, p), pinned)
         /\ Active(f, "trust") \in Asked(TrustRequests(f, p))
<1> DEFINE x == <<f, "trust">>
           c == Request("create", x)  e == Request("create", <<f, "entity">>)
           l == Request("link", x)    a == Request("activate", x)
<1>1. c \in Req /\ e \in Req /\ l \in Req /\ a \in Req
  BY DEF Request, Req, Whats, Ops, Kinds
<1>2. /\ c.op = "create" /\ e.op = "create" /\ l.op = "link" /\ a.op = "activate"
      /\ c.what = x /\ l.what = x /\ a.what = x /\ e.what[2] = "entity" /\ x[2] = "trust" /\ x[1] = f
  BY DEF Request
<1>3. Needs(x) = {}
  BY DEF Needs
<1>4. /\ Before(c, pinned) = {} /\ Before(e, pinned) = {} /\ Before(l, pinned) = {c}
      /\ Before(a, pinned) \subseteq {c} \cup (IF p THEN {l} ELSE {})
  BY <1>2, <1>3 DEF Before
<1>5. TrustRequests(f, p) = <<c>> \o (IF p THEN <<e, l>> ELSE <<>>) \o <<a>>
  BY DEF TrustRequests, TrustProfile, IssuerEntity
<1> HIDE DEF x, c, e, l, a
<1>6. CASE p
  <2>1. <<c>> \in Seq(Req) /\ Asked(<<c>>) = {c} /\ Ordered({}, <<c>>, pinned)
    BY <1>1, <1>4, Singles
  <2>2. <<e, l>> \in Seq(Req) /\ Asked(<<e, l>>) = {e, l} /\ Ordered({c}, <<e, l>>, pinned)
    BY <1>1, <1>4, Pairs
  <2>3. <<a>> \in Seq(Req) /\ Asked(<<a>>) = {a} /\ Ordered({c, l}, <<a>>, pinned)
    BY <1>1, <1>4, <1>6, Singles
  <2>4. /\ <<c>> \o <<e, l>> \in Seq(Req) /\ Asked(<<c>> \o <<e, l>>) = {c, e, l}
        /\ Ordered({}, <<c>> \o <<e, l>>, pinned)
    BY <2>1, <2>2, Joined, OrderedJoin, ZenonT(30)
  <2> DEFINE s == <<c>> \o <<e, l>>
  <2>5. s \in Seq(Req) /\ Asked(s) = {c, e, l} /\ Ordered({}, s, pinned)
    BY <2>4
  <2> HIDE DEF s
  <2>6. /\ s \o <<a>> \in Seq(Req) /\ Asked(s \o <<a>>) = {c, e, l, a}
        /\ Ordered({}, s \o <<a>>, pinned)
    <3>1. Ordered({}, s \o <<a>>, pinned)
      BY <2>3, <2>5, OrderedJoin
    <3>2. s \o <<a>> \in Seq(Req) /\ Asked(s \o <<a>>) = Asked(s) \cup Asked(<<a>>)
      BY <2>3, <2>5, Joined
    <3>. QED  BY <2>3, <2>5, <3>1, <3>2
  <2>7. Closed({c, e, l, a}) /\ Harmless({c, e, l, a})
    BY <1>2 DEF Closed, Harmless, a, c
  <2>8. TrustRequests(f, p) = s \o <<a>>
    BY <1>5, <1>6 DEF s
  <2>. QED  BY <2>6, <2>7, <2>8 DEF Block, Active, a, x
<1>7. CASE ~ p
  <2>1. <<c>> \in Seq(Req) /\ Asked(<<c>>) = {c} /\ Ordered({}, <<c>>, pinned)
    BY <1>1, <1>4, Singles
  <2>2. <<a>> \in Seq(Req) /\ Asked(<<a>>) = {a} /\ Ordered({c}, <<a>>, pinned)
    BY <1>1, <1>4, <1>7, Singles
  <2>3. /\ <<c>> \o <<a>> \in Seq(Req) /\ Asked(<<c>> \o <<a>>) = {c, a}
        /\ Ordered({}, <<c>> \o <<a>>, pinned)
    <3>1. Ordered({}, <<c>> \o <<a>>, pinned)
      BY <2>1, <2>2, OrderedJoin
    <3>. QED  BY <2>1, <2>2, <3>1, Joined
  <2>4. <<c>> \o <<>> = <<c>>
    BY <2>1, ConcatEmptySeq
  <2>5. TrustRequests(f, p) = <<c>> \o <<a>>
    BY <1>5, <1>7, <2>4
  <2>6. Closed({c, a}) /\ Harmless({c, a})
    BY <1>2 DEF Closed, Harmless, a, c
  <2>. QED  BY <2>3, <2>5, <2>6 DEF Block, Active, a, x
<1>. QED  BY <1>6, <1>7

LEMMA TemplateBlock ==
  ASSUME NEW f \in Fixtures \ {"eudi"}, NEW pinned
  PROVE  LET s == ComplianceProfile(f) \o RevocationProfile(f) \o Lifecycle(f, "template") IN
         /\ Block({}, s, pinned)
         /\ {Active(f, "compliance"), Active(f, "revocation"), Active(f, "template")} \subseteq Asked(s)
<1> DEFINE c == ComplianceProfile(f)  r == RevocationProfile(f)  t == Lifecycle(f, "template")
<1>1. {"compliance", "revocation", "template"} \subseteq Kinds
  BY DEF Kinds
<1>2. /\ Needs(<<f, "compliance">>) = {} /\ Needs(<<f, "revocation">>) = {}
      /\ Needs(<<f, "template">>) = {<<f, "compliance">>, <<f, "revocation">>}
  BY DEF Needs, TemplateNeeds
<1>3. Block({}, c, pinned) /\ Active(f, "compliance") \in Asked(c)
  BY <1>1, <1>2, LifecycleBlock DEF ComplianceProfile
<1>4. Block({}, r, pinned) /\ Active(f, "revocation") \in Asked(r)
  BY <1>1, <1>2, LifecycleBlock DEF RevocationProfile
<1>5. /\ Block({Active(f, "compliance"), Active(f, "revocation")}, t, pinned)
      /\ Active(f, "template") \in Asked(t)
  BY <1>1, <1>2, LifecycleBlock DEF Active
<1> HIDE DEF c, r, t
<1>6. Block({}, c \o r, pinned) /\ Asked(c \o r) = Asked(c) \cup Asked(r)
  BY <1>3, <1>4, BlockJoin
<1> DEFINE d == c \o r
<1>7. Block({}, d, pinned) /\ {Active(f, "compliance"), Active(f, "revocation")} \subseteq Asked(d)
  BY <1>3, <1>4, <1>6
<1> HIDE DEF d
<1>8. Block({}, d \o t, pinned) /\ Asked(d \o t) = Asked(d) \cup Asked(t)
  BY <1>5, <1>7, BlockJoin
<1>9. {Active(f, "compliance"), Active(f, "revocation"), Active(f, "template")} \subseteq Asked(d \o t)
  BY <1>5, <1>8, <1>7
<1>. QED  BY <1>8, <1>9 DEF c, r, t, d

LEMMA TemplateRequestsBlock ==
  ASSUME NEW f \in Fixtures \ {"eudi", "oid4vci"}, NEW pinned
  PROVE  /\ Block({}, TemplateRequests(f), pinned)
         /\ {Active(f, "revocation"), Active(f, "template")} \subseteq Asked(TemplateRequests(f))
<1> DEFINE s == ComplianceProfile(f) \o RevocationProfile(f) \o Lifecycle(f, "template")
           p == Lifecycle(f, "presentationTemplate")
<1>1. /\ Block({}, s, pinned)
      /\ {Active(f, "compliance"), Active(f, "revocation"), Active(f, "template")} \subseteq Asked(s)
  BY TemplateBlock
<1>2. "presentationTemplate" \in Kinds
  BY DEF Kinds
<1>3. Needs(<<f, "presentationTemplate">>) = {<<f, "compliance">>, <<f, "revocation">>}
  BY DEF Needs, TemplateNeeds
<1>4. Block({Active(f, "compliance"), Active(f, "revocation")}, p, pinned)
  BY <1>2, <1>3, LifecycleBlock DEF Active
<1>5. TemplateRequests(f) = s \o <<>> \o (IF f = "w3c" THEN p ELSE <<>>)
  BY DEF TemplateRequests
<1> HIDE DEF s, p
<1>6. s \in Seq(Req) /\ s \o <<>> = s
  BY <1>1, ConcatEmptySeq DEF Block
<1>7. Block({}, s \o p, pinned) /\ Asked(s \o p) = Asked(s) \cup Asked(p)
  BY <1>1, <1>4, BlockJoin
<1>8. TemplateRequests(f) = IF f = "w3c" THEN s \o p ELSE s
  BY <1>5, <1>6
<1>. QED  BY <1>1, <1>7, <1>8

LEMMA PolicyBlock ==
  ASSUME NEW f \in Fixtures \ {"eudi", "oid4vci"}, NEW P, NEW pinned, Active(f, "template") \in P,
         f = "w3c" => Active(f, "trust") \in P
  PROVE  Block(P, PolicyRequests(f), pinned)
<1> DEFINE c == Lifecycle(f, "credentialPolicy")  p == Lifecycle(f, "presentationPolicy")
<1>1. "credentialPolicy" \in Kinds /\ "presentationPolicy" \in Kinds
  BY DEF Kinds
<1>2. /\ Needs(<<f, "credentialPolicy">>) = {<<f, "template">>, <<f, "trust">>}
      /\ f = "w3c" => Needs(<<f, "presentationPolicy">>) = {}
      /\ f # "w3c" => Needs(<<f, "presentationPolicy">>) = {<<f, "template">>}
  BY DEF Needs, PolicyNeeds
<1>3. Block(P, p, pinned)
  BY <1>1, <1>2, LifecycleBlock DEF Active
<1>4. ASSUME f = "w3c" PROVE Block(P, c, pinned)
  BY <1>1, <1>2, <1>4, LifecycleBlock DEF Active
<1>5. PolicyRequests(f) = IF f = "w3c" THEN c \o p ELSE p
  BY DEF PolicyRequests
<1> HIDE DEF c, p
<1>6. ASSUME f = "w3c" PROVE Block(P, c \o p, pinned)
  BY <1>3, <1>4, <1>6, BlockJoin
<1>. QED  BY <1>3, <1>5, <1>6

LEMMA BrowserBlock ==
  ASSUME NEW f \in Fixtures, NEW P, NEW pinned, Active(f, "revocation") \in P
  PROVE  Block(P, BrowserRequests(f), pinned)
<1> DEFINE c == Lifecycle(f, "browserCompliance")  t == Lifecycle(f, "browserTemplate")
           a == Lifecycle(f, "application")        w == Lifecycle(f, "flow")
<1>1. {"browserCompliance", "browserTemplate", "application", "flow"} \subseteq Kinds
  BY DEF Kinds
<1>2. /\ Needs(<<f, "browserCompliance">>) = {}
      /\ Needs(<<f, "browserTemplate">>) = {<<f, "browserCompliance">>, <<f, "revocation">>}
      /\ Needs(<<f, "application">>) = {<<f, "browserTemplate">>}
      /\ Needs(<<f, "flow">>) = {<<f, "browserTemplate">>}
  BY DEF Needs, BrowserTemplateNeeds, ApplicationNeeds, FlowNeeds
<1>3. Block(P, c, pinned) /\ Active(f, "browserCompliance") \in Asked(c)
  BY <1>1, <1>2, LifecycleBlock
<1>4. /\ Block({Active(f, "browserCompliance"), Active(f, "revocation")}, t, pinned)
      /\ Active(f, "browserTemplate") \in Asked(t)
  BY <1>1, <1>2, LifecycleBlock DEF Active
<1>5. Block({Active(f, "browserTemplate")}, a, pinned) /\ Block({Active(f, "browserTemplate")}, w, pinned)
  BY <1>1, <1>2, LifecycleBlock DEF Active
<1>6. BrowserRequests(f) = c \o t \o a \o w
  BY DEF BrowserRequests
<1> HIDE DEF c, t, a, w
<1>7. Block(P, c \o t, pinned) /\ Active(f, "browserTemplate") \in Asked(c \o t)
  BY <1>3, <1>4, BlockJoin
<1> DEFINE ct == c \o t
<1> HIDE DEF ct
<1>8. Block(P, ct \o a, pinned) /\ Active(f, "browserTemplate") \in Asked(ct \o a)
  <2>1. Block(P, ct, pinned) /\ Active(f, "browserTemplate") \in Asked(ct)
    BY <1>7 DEF ct
  <2>. QED  BY <1>5, <2>1, BlockJoin
<1> DEFINE cta == ct \o a
<1> HIDE DEF cta
<1>9. Block(P, cta \o w, pinned)
  <2>1. Block(P, cta, pinned) /\ Active(f, "browserTemplate") \in Asked(cta)
    BY <1>8 DEF cta
  <2>. QED  BY <1>5, <2>1, BlockJoin
<1>. QED  BY <1>6, <1>9 DEF ct, cta

\* One turn of the loop of bootstrap, for an OID4VP verifier.
LEMMA VerifierFixture ==
  ASSUME NEW m \in AllModes, NEW f \in {"oid4vp", "oid4vp_mdoc"}, NEW p \in BOOLEAN, NEW pinned,
         p \/ (f = "oid4vp_mdoc" /\ ~ pinned), m = "oid4vp" => f = "oid4vp"
  PROVE  Block({}, FixtureRequests(m, f, p), pinned)
<1> DEFINE i == IdentityRequests(f)  t == TemplateRequests(f)  q == PolicyRequests(f)
           r == TrustRequests(f, p)  b == BrowserRequests(f)
<1>1. f \in Fixtures \ {"eudi", "oid4vci"}
  BY DEF Fixtures
<1>2. Block({}, i, pinned)
  BY <1>1, IdentityBlock
<1>3. Block({}, t, pinned) /\ {Active(f, "revocation"), Active(f, "template")} \subseteq Asked(t)
  BY <1>1, TemplateRequestsBlock
<1>4. Block({Active(f, "template")}, q, pinned)
  BY <1>1, PolicyBlock
<1>5. Block({}, r, pinned)
  BY <1>1, TrustBlock
<1>6. Block({Active(f, "revocation")}, b, pinned)
  BY <1>1, BrowserBlock
<1>7. FixtureRequests(m, f, p) = (i \o t) \o (q \o r \o (IF m = "oid4vp" THEN b ELSE <<>>))
  BY DEF FixtureRequests
<1> HIDE DEF i, t, q, r, b
<1> DEFINE z == IF m = "oid4vp" THEN b ELSE <<>>
<1>8. Block({Active(f, "revocation")}, z, pinned)
  BY <1>6, BlockEmpty
<1> HIDE DEF z
<1>9. Block({}, i \o t, pinned) /\ {Active(f, "revocation"), Active(f, "template")} \subseteq Asked(i \o t)
  BY <1>2, <1>3, BlockJoin
<1>10. Block({Active(f, "template")}, q \o r, pinned)
  BY <1>4, <1>5, BlockJoin
<1> DEFINE qr == q \o r  it == i \o t  P == {Active(f, "revocation"), Active(f, "template")}
<1>11. Block(P, qr, pinned)
  BY <1>10, OrderedMore DEF Block
<1>12. Block({}, it, pinned) /\ P \subseteq Asked(it)
  BY <1>9
<1>13. FixtureRequests(m, f, p) = it \o (qr \o z)
  BY <1>7 DEF z
<1> HIDE DEF qr, it
<1>14. Block(P, qr \o z, pinned)
  BY <1>8, <1>11, BlockJoin
<1>15. Block({}, it \o (qr \o z), pinned)
  BY <1>12, <1>14, BlockJoin
<1>. QED  BY <1>13, <1>15

\* A script that may end with a key.
KeyLast(s) == \A k \in 1..Len(s) : s[k].op = "key" => k = Len(s)
Ending(P, s, pinned) ==
    /\ s \in Seq(Req) /\ Ordered(P, s, pinned) /\ Closed(Asked(s)) /\ KeyLast(s)
    /\ \A q \in Asked(s) : q.op \notin {"attach", "metadata"}

LEMMA BlockEnds ==
  ASSUME NEW P, NEW s, NEW pinned, Block(P, s, pinned)
  PROVE  Ending(P, s, pinned)
BY DEF Block, Ending, KeyLast, Harmless, Asked

LEMMA EndingJoin ==
  ASSUME NEW s, NEW t, NEW P, NEW Q, NEW pinned,
         Block(P, s, pinned), Ending(Q, t, pinned), Q \subseteq P \cup Asked(s)
  PROVE  Ending(P, s \o t, pinned) /\ Asked(s \o t) = Asked(s) \cup Asked(t)
<1>1. s \in Seq(Req) /\ t \in Seq(Req)
  BY DEF Block, Ending
<1>2. s \o t \in Seq(Req) /\ Asked(s \o t) = Asked(s) \cup Asked(t)
  BY <1>1, Joined
<1>3. Ordered(P, s \o t, pinned)
  BY <1>1, OrderedJoin DEF Block, Ending
<1>4. Closed(Asked(s) \cup Asked(t))
  BY DEF Block, Ending, Closed
<1>5. \A q \in Asked(s) \cup Asked(t) : q.op \notin {"attach", "metadata"}
  BY DEF Block, Ending, Harmless
<1>6. KeyLast(s \o t)
  <2> DEFINE u == s \o t
  <2>1. /\ Len(u) = Len(s) + Len(t) /\ Len(s) \in Nat /\ Len(t) \in Nat
        /\ \A k \in 1..Len(s) : u[k] = s[k]
        /\ \A k \in 1..Len(t) : u[Len(s) + k] = t[k]
    BY <1>1, Joined, LenProperties
  <2> HIDE DEF u
  <2> SUFFICES ASSUME NEW k \in 1..Len(u), u[k].op = "key" PROVE k = Len(u)
    BY DEF KeyLast, u
  <2>2. CASE k <= Len(s)
    <3>1. k \in 1..Len(s) /\ u[k] = s[k]
      BY <2>1, <2>2
    <3>. QED  BY <3>1 DEF Block, Harmless, Asked
  <2>3. CASE ~ (k <= Len(s))
    <3> DEFINE i == k - Len(s)
    <3>1. i \in 1..Len(t) /\ k = Len(s) + i
      BY <2>1, <2>3
    <3> HIDE DEF i
    <3>2. i = Len(t)
      BY <2>1, <3>1 DEF Ending, KeyLast
    <3>. QED  BY <2>1, <3>1, <3>2
  <2>. QED  BY <2>2, <2>3
<1>. QED  BY <1>2, <1>3, <1>4, <1>5, <1>6 DEF Ending

LEMMA W3cFixture ==
  ASSUME NEW m \in AllModes, NEW pinned
  PROVE  Ending({}, FixtureRequests(m, "w3c", TRUE), pinned)
<1> DEFINE f == "w3c"
           i == IdentityRequests(f)  t == TemplateRequests(f)
           r == TrustRequests(f, TRUE)  q == PolicyRequests(f)  k == Request("key", f)
           P == {Active(f, "template")}  R == {Active(f, "template"), Active(f, "trust")}
<1>1. f \in Fixtures \ {"eudi", "oid4vci"}
  BY DEF Fixtures
<1>2. Block({}, i, pinned)
  BY <1>1, IdentityBlock
<1>3. Block({}, t, pinned) /\ Active(f, "template") \in Asked(t)
  BY <1>1, TemplateRequestsBlock
<1>4. Block({}, r, pinned) /\ Active(f, "trust") \in Asked(r)
  BY <1>1, TrustBlock
<1>5. Block(R, q, pinned)
  BY <1>1, PolicyBlock
<1>6. k \in Req /\ k.op = "key"
  BY <1>1 DEF Request, Req, Whats, Ops
<1>7. Ending({}, <<k>>, pinned)
  <2>1. Before(k, pinned) = {}
    BY <1>6 DEF Before
  <2>2. <<k>> \in Seq(Req) /\ Asked(<<k>>) = {k} /\ Ordered({}, <<k>>, pinned)
    BY <1>6, <2>1, Singles
  <2>3. KeyLast(<<k>>)
    BY DEF KeyLast
  <2>. QED  BY <1>6, <2>2, <2>3 DEF Ending, Closed
<1>8. FixtureRequests(m, f, TRUE) = (i \o t) \o (r \o q \o <<k>>)
  BY DEF FixtureRequests
<1> HIDE DEF i, t, r, q, k
<1> DEFINE it == i \o t  rq == r \o q
<1>9. Block({}, it, pinned) /\ P \subseteq Asked(it)
  <2>1. Block({}, it, pinned) /\ Asked(it) = Asked(i) \cup Asked(t)
    BY <1>2, <1>3, BlockJoin
  <2>. QED  BY <1>3, <2>1
<1>10. Block(P, r, pinned)
  BY <1>4, OrderedMore DEF Block
<1>11. Block(P, rq, pinned)
  BY <1>4, <1>5, <1>10, BlockJoin
<1> HIDE DEF it, rq
<1>12. Ending(P, rq \o <<k>>, pinned)
  BY <1>7, <1>11, EndingJoin
<1>13. Ending({}, it \o (rq \o <<k>>), pinned)
  BY <1>9, <1>12, EndingJoin
<1>. QED  BY <1>8, <1>13 DEF it, rq

-----------------------------------------------------------------------------
(* The scripts.                                                             *)

\* What a run of mode m asks for, and when.
Planned(s, m, pinned) ==
    /\ s \in Seq(Req) /\ Ordered({}, s, pinned) /\ Closed(Asked(s)) /\ KeyLast(s)
    /\ \A q \in Asked(s) :
         /\ q.op = "attach" => m = "eudi" /\ q.what = "sdJwt"
         /\ q.op = "metadata" => m = "oid4vci" /\ q.what = "oid4vci"
    /\ m \in {"oid4vci", "eudi"} => Request("identity", "sdJwt") \in Asked(s)
    /\ m = "eudi" => Request("attach", "sdJwt") \in Asked(s)
    /\ m = "oid4vci" => Request("metadata", "oid4vci") \in Asked(s)

LEMMA IssuerScript ==
  ASSUME NEW pinned
  PROVE  Planned(FixtureRequests("oid4vci", "oid4vci", TRUE), "oid4vci", pinned)
<1> DEFINE f == "oid4vci"
           i == IdentityRequests(f)
           t == ComplianceProfile(f) \o RevocationProfile(f) \o Lifecycle(f, "template")
           d == Request("metadata", f)
<1>1. f \in Fixtures \ {"eudi"}
  BY DEF Fixtures
<1>2. Block({}, i, pinned) /\ Request("identity", "sdJwt") \in Asked(i)
  BY <1>1, IdentityBlock
<1>3. Block({}, t, pinned) /\ Active(f, "template") \in Asked(t)
  BY <1>1, TemplateBlock
<1>4. d \in Req /\ d.op = "metadata" /\ d.what = f
  BY <1>1 DEF Request, Req, Whats, Ops
<1>5. /\ <<d>> \in Seq(Req) /\ Asked(<<d>>) = {d} /\ Ordered({Active(f, "template")}, <<d>>, pinned)
  <2>1. Before(d, pinned) = {Active(f, "template")}
    BY <1>4 DEF Before, Active
  <2>. QED  BY <1>4, <2>1, Singles
<1>6. FixtureRequests(f, f, TRUE) = (i \o (t \o <<d>> \o <<>>)) \o <<>>
  BY DEF FixtureRequests, TemplateRequests
<1> HIDE DEF i, t, d
<1>7. t \o <<d>> \in Seq(Req) /\ Asked(t \o <<d>>) = Asked(t) \cup {d}
  BY <1>3, <1>5, Joined DEF Block
<1>8. Ordered({}, t \o <<d>>, pinned)
  BY <1>3, <1>5, OrderedJoin DEF Block
<1> DEFINE td == t \o <<d>>
<1> HIDE DEF td
<1>9. td \in Seq(Req) /\ Asked(td) = Asked(t) \cup {d} /\ Ordered({}, td, pinned)
  BY <1>7, <1>8 DEF td
<1>10. i \o td \in Seq(Req) /\ Asked(i \o td) = Asked(i) \cup Asked(td)
  BY <1>2, <1>9, Joined DEF Block
<1>11. Ordered({}, i \o td, pinned)
  BY <1>2, <1>9, OrderedJoin DEF Block
<1> DEFINE s == i \o td
<1> HIDE DEF s
<1>12. s \in Seq(Req) /\ Asked(s) = Asked(i) \cup Asked(t) \cup {d} /\ Ordered({}, s, pinned)
  BY <1>9, <1>10, <1>11 DEF s
<1>13. Closed(Asked(s))
  BY <1>2, <1>3, <1>4, <1>12 DEF Block, Closed
<1>14. \A q \in Asked(s) : q.op \notin {"attach", "key"} /\ (q.op = "metadata" => q = d)
  BY <1>2, <1>3, <1>4, <1>12 DEF Block, Harmless
<1>15. KeyLast(s)
  BY <1>14 DEF KeyLast, Asked
<1>16. FixtureRequests(f, f, TRUE) = s
  <2>1. td \o <<>> = td /\ s \o <<>> = s
    BY <1>9, <1>12, ConcatEmptySeq
  <2>. QED  BY <1>6, <2>1 DEF s, td
<1>17. Planned(s, f, pinned)
  BY <1>2, <1>4, <1>12, <1>13, <1>14, <1>15 DEF Planned, d
<1>. QED  BY <1>16, <1>17

LEMMA EudiScript ==
  ASSUME NEW pinned
  PROVE  Planned(EudiRequests, "eudi", pinned)
<1> DEFINE f == "eudi"
           i == <<Request("identity", "sdJwt"), Request("resolve", "sdJwt"), Request("attach", "sdJwt"),
                  Request("identity", "request"), Request("resolve", "request")>>
           c == ComplianceProfile(f)     r == RevocationProfile(f)
           p == Lifecycle(f, "passport") l == Lifecycle(f, "mdl")  b == Lifecycle(f, "openBadge")
           P == {Active(f, "compliance"), Active(f, "revocation")}
<1>1. f \in Fixtures /\ {"compliance", "revocation", "passport", "mdl", "openBadge"} \subseteq Kinds
  BY DEF Fixtures, Kinds
<1>2. /\ Needs(<<f, "compliance">>) = {} /\ Needs(<<f, "revocation">>) = {}
      /\ \A kind \in {"passport", "mdl", "openBadge"} :
            Needs(<<f, kind>>) = {<<f, "compliance">>, <<f, "revocation">>}
  BY DEF Needs, EudiTemplateNeeds
<1>3. Block({}, c, pinned) /\ Active(f, "compliance") \in Asked(c)
  BY <1>1, <1>2, LifecycleBlock DEF ComplianceProfile
<1>4. Block({}, r, pinned) /\ Active(f, "revocation") \in Asked(r)
  BY <1>1, <1>2, LifecycleBlock DEF RevocationProfile
<1>5. Block(P, p, pinned) /\ Block(P, l, pinned) /\ Block(P, b, pinned)
  BY <1>1, <1>2, LifecycleBlock DEF Active
<1>6. EudiRequests = i \o c \o r \o p \o l \o b
  BY DEF EudiRequests
<1>7. /\ i \in Seq(Req) /\ Ordered({}, i, pinned) /\ Closed(Asked(i))
      /\ Request("identity", "sdJwt") \in Asked(i) /\ Request("attach", "sdJwt") \in Asked(i)
      /\ \A q \in Asked(i) : q.op \notin {"metadata", "key"} /\ (q.op = "attach" => q.what = "sdJwt")
  <2> DEFINE q1 == Request("identity", "sdJwt")  q2 == Request("resolve", "sdJwt")
             q3 == Request("attach", "sdJwt")  q4 == Request("identity", "request")
             q5 == Request("resolve", "request")
  <2>1. /\ {q1, q2, q3, q4, q5} \subseteq Req
        /\ q1.op = "identity" /\ q2.op = "resolve" /\ q3.op = "attach" /\ q4.op = "identity"
        /\ q5.op = "resolve" /\ q3.what = "sdJwt"
    BY DEF Request, Req, Whats, Ops, Identities
  <2>2. /\ Before(q1, pinned) = {} /\ Before(q2, pinned) = {} /\ Before(q3, pinned) = {q1}
        /\ Before(q4, pinned) = {} /\ Before(q5, pinned) = {}
    BY <2>1 DEF Before
  <2>3. i = <<q1, q2, q3, q4, q5>>
    OBVIOUS
  <2> HIDE DEF q1, q2, q3, q4, q5, i
  <2>4. /\ i \in Seq(Req) /\ Len(i) = 5
        /\ i[1] = q1 /\ i[2] = q2 /\ i[3] = q3 /\ i[4] = q4 /\ i[5] = q5
    BY <2>1, <2>3
  <2>5. 1..5 = {1, 2, 3, 4, 5}
    OBVIOUS
  <2>6. Asked(i) = {q1, q2, q3, q4, q5}
    BY <2>4, <2>5 DEF Asked
  <2>7. Ordered({}, i, pinned)
    <3> SUFFICES ASSUME NEW k \in 1..Len(i), NEW x \in Before(i[k], pinned)
                 PROVE  \E j \in 1..(k - 1) : i[j] = x
      BY DEF Ordered
    <3>1. k = 3 /\ x = q1
      BY <2>2, <2>4, <2>5
    <3>. QED  BY <2>4, <3>1
  <2>8. Closed(Asked(i))
    BY <2>1, <2>6 DEF Closed
  <2>. QED  BY <2>1, <2>4, <2>6, <2>7, <2>8 DEF q1, q3
<1> HIDE DEF i, c, r, p, l, b
<1> DEFINE cr == c \o r  crp == cr \o p  crpl == crp \o l  z == crpl \o b
<1>8. Block({}, cr, pinned) /\ P \subseteq Asked(cr)
  <2>1. Block({}, cr, pinned) /\ Asked(cr) = Asked(c) \cup Asked(r)
    BY <1>3, <1>4, BlockJoin
  <2>. QED  BY <1>3, <1>4, <2>1
<1> HIDE DEF cr
<1>9. Block({}, crp, pinned) /\ P \subseteq Asked(crp)
  <2>1. Block({}, crp, pinned) /\ Asked(crp) = Asked(cr) \cup Asked(p)
    BY <1>5, <1>8, BlockJoin
  <2>. QED  BY <1>8, <2>1
<1> HIDE DEF crp
<1>10. Block({}, crpl, pinned) /\ P \subseteq Asked(crpl)
  <2>1. Block({}, crpl, pinned) /\ Asked(crpl) = Asked(crp) \cup Asked(l)
    BY <1>5, <1>9, BlockJoin
  <2>. QED  BY <1>9, <2>1
<1> HIDE DEF crpl
<1>11. Block({}, z, pinned)
  BY <1>5, <1>10, BlockJoin
<1>12. EudiRequests = i \o z
  <2>1. i \in Seq(Req) /\ c \in Seq(Req) /\ r \in Seq(Req) /\ p \in Seq(Req) /\ l \in Seq(Req) /\ b \in Seq(Req)
    BY <1>3, <1>4, <1>5, <1>7 DEF Block
  <2>2. /\ cr \in Seq(Req) /\ crp \in Seq(Req) /\ crpl \in Seq(Req)
    BY <1>8, <1>9, <1>10 DEF Block
  <2>3. i \o c \o r = i \o cr
    <3>1. i \in Seq(Req) /\ c \in Seq(Req) /\ r \in Seq(Req)
      BY <2>1
    <3>. QED  BY <3>1, Regroup DEF cr
  <2>4. i \o cr \o p = i \o crp
    <3>1. i \in Seq(Req) /\ cr \in Seq(Req) /\ p \in Seq(Req)
      BY <2>1, <2>2
    <3>. QED  BY <3>1, Regroup DEF crp
  <2>5. i \o crp \o l = i \o crpl
    <3>1. i \in Seq(Req) /\ crp \in Seq(Req) /\ l \in Seq(Req)
      BY <2>1, <2>2
    <3>. QED  BY <3>1, Regroup DEF crpl
  <2>6. i \o crpl \o b = i \o z
    <3>1. i \in Seq(Req) /\ crpl \in Seq(Req) /\ b \in Seq(Req)
      BY <2>1, <2>2
    <3>. QED  BY <3>1, Regroup
  <2>. QED  BY <1>6, <2>3, <2>4, <2>5, <2>6, Zenon
<1> HIDE DEF z
<1> DEFINE s == i \o z
<1>13. s \in Seq(Req) /\ Asked(s) = Asked(i) \cup Asked(z)
  BY <1>7, <1>11, Joined DEF Block
<1>14. Ordered({}, s, pinned)
  BY <1>7, <1>11, OrderedJoin DEF Block
<1> HIDE DEF s
<1>15. Closed(Asked(s))
  BY <1>7, <1>11, <1>13 DEF Block, Closed
<1>16. \A q \in Asked(s) : q.op \notin {"metadata", "key"} /\ (q.op = "attach" => q.what = "sdJwt")
  BY <1>7, <1>11, <1>13 DEF Block, Harmless
<1>17. KeyLast(s)
  BY <1>16 DEF KeyLast, Asked
<1>18. Planned(s, f, pinned)
  BY <1>7, <1>13, <1>14, <1>15, <1>16, <1>17 DEF Planned
<1>. QED  BY <1>12, <1>18 DEF s

\* Every script is in order, whatever certificate the run was given.
LEMMA Scripts ==
  ASSUME NEW m \in AllModes, NEW pinned \in BOOLEAN
  PROVE  Planned(Requests(m, pinned), m, pinned)
<1>1. CASE m = "eudi"
  BY <1>1, EudiScript DEF Requests
<1>2. CASE m = "oid4vci"
  BY <1>2, IssuerScript DEF Requests
<1>3. ASSUME NEW s, Ending({}, s, pinned), m \notin {"eudi", "oid4vci"} PROVE Planned(s, m, pinned)
  BY <1>3 DEF Ending, Planned
<1>4. CASE m = "oid4vp"
  <2>1. Block({}, FixtureRequests(m, "oid4vp", TRUE), pinned)
    BY VerifierFixture
  <2>. QED  BY <1>3, <1>4, <2>1, BlockEnds DEF Requests
<1>5. CASE m = "oid4vp-mdoc"
  <2>1. Block({}, FixtureRequests(m, "oid4vp_mdoc", pinned), pinned)
    BY <1>5, VerifierFixture
  <2>. QED  BY <1>3, <1>5, <2>1, BlockEnds DEF Requests
<1>6. CASE m = "w3c"
  <2>1. Ending({}, FixtureRequests(m, "w3c", TRUE), pinned)
    BY W3cFixture
  <2>. QED  BY <1>3, <1>6, <2>1 DEF Requests
<1>7. CASE m = "all"
  <2> DEFINE v == FixtureRequests(m, "oid4vp", TRUE)  w == FixtureRequests(m, "w3c", TRUE)
  <2>1. Block({}, v, pinned)
    BY VerifierFixture
  <2>2. Ending({}, w, pinned)
    BY W3cFixture
  <2>3. Requests(m, pinned) = v \o w
    BY <1>7 DEF Requests
  <2> HIDE DEF v, w
  <2>4. Ending({}, v \o w, pinned)
    BY <2>1, <2>2, EndingJoin
  <2>. QED  BY <1>3, <1>7, <2>3, <2>4
<1>. QED  BY <1>1, <1>2, <1>4, <1>5, <1>6, <1>7 DEF AllModes

-----------------------------------------------------------------------------
(* The invariant. *)

Types ==
    /\ mode \in [Runs -> Modes] /\ path \in [Runs -> Paths]
    /\ anchor \in [Runs -> {"root", "signer"}]
    /\ at \in [Runs -> Nat] /\ tries \in [Runs -> 0..(Attempts - 1)]
    /\ how \in [Runs -> {"starting", "running", "returned", "failed"}]
    /\ config \in [Runs -> Runs \cup {NoRun, Earlier}]
    /\ identity \in [Identities -> Runs \cup {NoRun, Earlier, Plain}]
    /\ visible \subseteq Identities
    /\ certified \in [Identities -> Runs \cup {NoRun}]
    /\ made \in [Runs -> SUBSET Whats]
    /\ live \in [Runs -> SUBSET Whats]
    /\ linked \in [Runs -> SUBSET Whats]
    /\ keys \subseteq Runs
    /\ leftover \in BOOLEAN
    /\ file \in [Paths -> Runs \cup {NoRun}]

\* A request that has had its effect, and still has it.
Done(r, q) ==
    /\ q.op = "create" => q.what \in made[r]
    /\ q.op = "activate" => q.what \in live[r]
    /\ q.op = "link" => q.what \in linked[r]
    /\ q.op = "identity" /\ Attested(r, q.what) => identity[q.what] = r
    /\ q.op = "attach" => certified[q.what] = r
    /\ q.op = "metadata" => config[r] = r

\* A request that the run has sent.
Sent(r, q) == \E k \in 1..Len(Script(r)) : k <= at[r] /\ Script(r)[k] = q

Follows(r) ==
    /\ at[r] \in 1..(Len(Script(r)) + 1)
    /\ \A k \in 1..(at[r] - 1) : Done(r, Script(r)[k])
    /\ \A x \in made[r] : Sent(r, Request("create", x))
    /\ \A x \in live[r] : Sent(r, Request("activate", x))
    /\ \A x \in linked[r] : Sent(r, Request("link", x))

Ends(r) ==
    /\ how[r] = "returned" => at[r] = Len(Script(r)) + 1 /\ file[path[r]] = r
    /\ r \in keys => at[r] >= Len(Script(r)) /\ how[r] # "starting"

IInv == Types /\ \A r \in Runs : Follows(r) /\ Ends(r)

LEMMA ScriptPlanned ==
  ASSUME Types, NEW r \in Runs
  PROVE  /\ Planned(Script(r), mode[r], anchor[r] = "signer")
         /\ Len(Script(r)) \in Nat
         /\ \A k \in 1..Len(Script(r)) : Script(r)[k] \in Req
<1>1. mode[r] \in AllModes
  BY BootstrapAssumption DEF Types
<1>2. Planned(Script(r), mode[r], anchor[r] = "signer")
  <2>1. \A pinned \in BOOLEAN : Scripted[mode[r]][pinned] = Requests(mode[r], pinned)
    BY <1>1, Zenon DEF Scripted
  <2>2. (anchor[r] = "signer") \in BOOLEAN
    OBVIOUS
  <2>3. Script(r) = Requests(mode[r], anchor[r] = "signer")
    BY <2>1, <2>2, Zenon DEF Script
  <2>. QED  BY <1>1, <2>2, <2>3, Scripts
<1>3. Script(r) \in Seq(Req)
  BY <1>2 DEF Planned
<1>. QED  BY <1>2, <1>3, LenProperties, ElementOfSeq

\* Before a request that was sent come those it needs, and they have effect.
LEMMA Beforehand ==
  ASSUME Types, NEW r \in Runs, Follows(r), NEW k \in 1..Len(Script(r)), k <= at[r],
         NEW p \in Before(Script(r)[k], anchor[r] = "signer")
  PROVE  Done(r, p)
<1>1. Ordered({}, Script(r), anchor[r] = "signer") /\ Len(Script(r)) \in Nat
  BY ScriptPlanned DEF Planned
<1>2. PICK j \in 1..(k - 1) : Script(r)[j] = p
  BY <1>1 DEF Ordered
<1>3. j \in 1..(at[r] - 1)
  BY <1>1, <1>2 DEF Types
<1>. QED  BY <1>2, <1>3 DEF Follows

\* A step, of this run or of another, in which this one goes on as it should.
LEMMA Follow ==
  ASSUME Types, Types', NEW r \in Runs, Follows(r), UNCHANGED commandVars,
         at'[r] \in {at[r], at[r] + 1}, at'[r] <= Len(Script(r)) + 1,
         made[r] \subseteq made'[r], live[r] \subseteq live'[r], linked[r] \subseteq linked'[r],
         \A i \in Identities : identity[i] = r => identity'[i] = r,
         \A k \in 1..(at[r] - 1) : Script(r)[k].op = "attach" => certified'[Script(r)[k].what] = r,
         config[r] = r => config'[r] = r,
         \A q : q = Script(r)[at[r]] /\ at'[r] = at[r] + 1 => Done(r, q)',
         \A x \in made'[r] \ made[r] :
             at[r] <= Len(Script(r)) /\ Script(r)[at[r]] = Request("create", x),
         \A x \in live'[r] \ live[r] :
             at[r] <= Len(Script(r)) /\ Script(r)[at[r]] = Request("activate", x),
         \A x \in linked'[r] \ linked[r] :
             at[r] <= Len(Script(r)) /\ Script(r)[at[r]] = Request("link", x)
  PROVE  Follows(r)'
<1>1. Script(r)' = Script(r) /\ Len(Script(r)) \in Nat /\ at[r] \in Nat
      /\ at[r] \in 1..(Len(Script(r)) + 1)
  <2>1. mode' = mode /\ anchor' = anchor
    BY DEF commandVars
  <2>. QED  BY <2>1, ScriptPlanned DEF Script, Types, Follows
<1>2. at'[r] \in 1..(Len(Script(r)) + 1)
  BY <1>1
<1>3. ASSUME NEW k \in 1..(at'[r] - 1) PROVE Done(r, Script(r)[k])'
  <2>1. CASE k = at[r]
    <3>1. at'[r] = at[r] + 1
      BY <1>1, <1>3, <2>1
    <3>2. \A x : x = Script(r)[k] => Done(r, x)'
      BY <2>1, <3>1
    <3>. QED  BY <1>1, <3>2
  <2>2. CASE k # at[r]
    <3>1. k \in 1..(at[r] - 1)
      BY <1>1, <1>3, <2>2
    <3>2. Done(r, Script(r)[k])
      BY <3>1 DEF Follows
    <3>3. Script(r)[k] \in Req
      BY <1>1, <3>1, ScriptPlanned
    <3>4. Attested(r, Script(r)[k].what)' => Script(r)[k].what \in Identities /\ Attested(r, Script(r)[k].what)
      BY <1>1 DEF Attested, commandVars, Identities
    <3>. QED  BY <1>1, <3>1, <3>2, <3>4 DEF Done
  <2>. QED  BY <2>1, <2>2
<1>4. ASSUME NEW q, Sent(r, q) PROVE Sent(r, q)'
  <2>1. at[r] <= at'[r]
    BY <1>1
  <2>. QED  BY <1>1, <1>4, <2>1, <1>2 DEF Sent
<1>5. ASSUME at[r] <= Len(Script(r)), NEW q, q = Script(r)[at[r]] PROVE Sent(r, q)'
  <2>1. at[r] <= at'[r] /\ at[r] \in 1..Len(Script(r))
    BY <1>1, <1>5
  <2>. QED  BY <1>1, <1>5, <2>1 DEF Sent
<1>6. \A x \in made'[r] : Sent(r, Request("create", x))'
  BY <1>4, <1>5 DEF Follows
<1>7. \A x \in live'[r] : Sent(r, Request("activate", x))'
  BY <1>4, <1>5 DEF Follows
<1>8. \A x \in linked'[r] : Sent(r, Request("link", x))'
  BY <1>4, <1>5 DEF Follows
<1>. QED  BY <1>1, <1>2, <1>3, <1>6, <1>7, <1>8 DEF Follows

LEMMA EndsAs ==
  ASSUME Types, Types', NEW r \in Runs, Follows(r), Ends(r), UNCHANGED commandVars,
         at'[r] \in {at[r], at[r] + 1}, how[r] # "running" => at'[r] = at[r],
         how'[r] = "starting" => how[r] = "starting" /\ keys' = keys,
         how'[r] = "returned" =>
             /\ at'[r] = at[r] /\ file'[path[r]] = r
             /\ how[r] # "returned" => at[r] = Len(Script(r)) + 1,
         r \in keys' \ keys => at[r] >= Len(Script(r))
  PROVE  Ends(r)'
<1>1. Script(r)' = Script(r) /\ Len(Script(r)) \in Nat /\ at[r] \in Nat /\ path' = path
  <2>1. mode' = mode /\ anchor' = anchor /\ path' = path
    BY DEF commandVars
  <2>. QED  BY <2>1, ScriptPlanned DEF Script, Types
<1>. QED  BY <1>1 DEF Ends

-----------------------------------------------------------------------------
LEMMA InitIInv == Init => IInv
<1> SUFFICES ASSUME Init PROVE IInv
  OBVIOUS
<1>1. Types
  <2>1. identity \in [Identities -> Runs \cup {NoRun, Earlier, Plain}]
    BY DEF Init
  <2>2. 0 \in 0..(Attempts - 1)
    BY BootstrapAssumption
  <2>. QED  BY <2>1, <2>2 DEF Init, Types
<1>2. ASSUME NEW r \in Runs PROVE Follows(r) /\ Ends(r)
  <2>1. at[r] = 1 /\ how[r] = "starting" /\ made[r] = {} /\ live[r] = {} /\ linked[r] = {} /\ keys = {}
    BY DEF Init
  <2>2. Len(Script(r)) \in Nat
    BY <1>1, ScriptPlanned
  <2>. QED  BY <2>1, <2>2 DEF Follows, Ends
<1>. QED  BY <1>1, <1>2 DEF IInv

\* Where a run is when it does something.
LEMMA Where ==
  ASSUME Types, NEW r \in Runs, NEW op, Doing(r, op)
  PROVE  /\ how[r] = "running" /\ at[r] <= Len(Script(r))
         /\ Script(r)[at[r]].op = op /\ Script(r)[at[r]].what = What(r)
         /\ (at[r] >= 1 => Script(r)[at[r]] \in Req /\ Script(r)[at[r]] = Request(op, What(r)))
<1>1. at[r] \in Nat /\ Len(Script(r)) \in Nat
  BY ScriptPlanned DEF Types
<1>2. at[r] >= 1 => Script(r)[at[r]] \in Req
  BY <1>1, ScriptPlanned DEF Doing
<1>. QED  BY <1>1, <1>2 DEF Doing, What, Req, Request

\* What a run has when an answer came, or did not.
LEMMA OneStep ==
  ASSUME Types, NEW r \in Runs, Follows(r), at[r] <= Len(Script(r)), how[r] = "running", Answered(r)
  PROVE  /\ at' \in [Runs -> Nat] /\ tries' \in [Runs -> 0..(Attempts - 1)]
         /\ how' \in [Runs -> {"starting", "running", "returned", "failed"}]
         /\ at'[r] \in {at[r], at[r] + 1} /\ at'[r] <= Len(Script(r)) + 1
         /\ how'[r] \in {"running", "failed"} /\ (at'[r] = at[r] => how'[r] = "failed")
         /\ \A s \in Runs \ {r} : at'[s] = at[s] /\ how'[s] = how[s]
<1>1. at[r] \in Nat /\ Len(Script(r)) \in Nat /\ 0 \in 0..(Attempts - 1)
  BY ScriptPlanned, BootstrapAssumption DEF Types
<1>2. CASE Proceeds(r)
  <2>1. at' = [at EXCEPT ![r] = at[r] + 1] /\ tries' = [tries EXCEPT ![r] = 0] /\ how' = how
    BY <1>2 DEF Proceeds
  <2>2. at[r] + 1 \in Nat /\ at'[r] = at[r] + 1 /\ at'[r] # at[r]
    BY <1>1, <2>1 DEF Types
  <2>. QED  BY <1>1, <2>1, <2>2 DEF Types
<1>3. CASE Fails(r)
  <2>1. how' = [how EXCEPT ![r] = "failed"] /\ at' = at /\ tries' = tries
    BY <1>3 DEF Fails
  <2>. QED  BY <1>1, <2>1 DEF Types
<1>. QED  BY <1>2, <1>3 DEF Answered

\* A step that sends no request, or one that asks for nothing.
LEMMA QuietStep ==
  ASSUME IInv, UNCHANGED <<commandVars, at, config, identity, certified, resourceVars>>,
         tries' \in [Runs -> 0..(Attempts - 1)],
         how' \in [Runs -> {"starting", "running", "returned", "failed"}],
         visible' \subseteq Identities, file' \in [Paths -> Runs \cup {NoRun}],
         \A r \in Runs :
             /\ how'[r] = "starting" => how[r] = "starting"
             /\ how'[r] = "returned" =>
                  file'[path[r]] = r /\ (how[r] # "returned" => at[r] = Len(Script(r)) + 1)
  PROVE  IInv'
<1>1. UNCHANGED <<made, live, linked, keys, leftover>> /\ UNCHANGED <<mode, path, anchor>>
  BY DEF resourceVars, commandVars
<1>2. Types /\ Types'
  BY <1>1 DEF IInv, Types
<1> SUFFICES ASSUME NEW r \in Runs PROVE (Follows(r) /\ Ends(r))'
  BY <1>2 DEF IInv
<1>3. Follows(r) /\ Ends(r) /\ at[r] \in Nat /\ at'[r] = at[r]
  BY <1>2 DEF IInv, Types
<1>4. at'[r] # at[r] + 1
  BY <1>3
<1>5. Follows(r)'
  <2>1. \A k \in 1..(at[r] - 1) : Script(r)[k].op = "attach" => certified'[Script(r)[k].what] = r
    BY <1>3 DEF Follows, Done
  <2>2. at'[r] <= Len(Script(r)) + 1
    BY <1>3 DEF Follows
  <2>. QED  BY <1>1, <1>2, <1>3, <1>4, <2>1, <2>2, Follow
<1>6. Ends(r)'
  BY <1>1, <1>2, <1>3, EndsAs
<1>. QED  BY <1>5, <1>6

\* A step that sends a request, whether it is answered or not.
LEMMA RequestStep ==
  ASSUME IInv, NEW r \in Runs, NEW op \in Ops, Doing(r, op), Answered(r),
         UNCHANGED <<commandVars, visible, leftover, file>>,
         config' \in [Runs -> Runs \cup {NoRun, Earlier}],
         identity' \in [Identities -> Runs \cup {NoRun, Earlier, Plain}],
         certified' \in [Identities -> Runs \cup {NoRun}],
         made' \in [Runs -> SUBSET Whats], live' \in [Runs -> SUBSET Whats], linked' \in [Runs -> SUBSET Whats],
         \A s \in Runs \ {r} :
             made'[s] = made[s] /\ live'[s] = live[s] /\ linked'[s] = linked[s] /\ config'[s] = config[s],
         \A i \in Identities : identity[i] \in Runs => identity'[i] = identity[i],
         \A s \in Runs : \A k \in 1..(at[s] - 1) :
             Script(s)[k].op = "attach" => certified'[Script(s)[k].what] = s,
         keys \subseteq keys', keys' \subseteq keys \cup {r}, keys' # keys => op = "key",
         made[r] \subseteq made'[r], live[r] \subseteq live'[r], linked[r] \subseteq linked'[r],
         config[r] = r => config'[r] = r,
         \A x \in made'[r] \ made[r] : op = "create" /\ x = What(r),
         \A x \in live'[r] \ live[r] : op = "activate" /\ x = What(r),
         \A x \in linked'[r] \ linked[r] : op = "link" /\ x = What(r),
         at'[r] = at[r] + 1 =>
             /\ op = "create" => What(r) \in made'[r]
             /\ op = "activate" => What(r) \in live'[r]
             /\ op = "link" => What(r) \in linked'[r]
             /\ op = "identity" /\ Attested(r, What(r)) => identity'[What(r)] = r
             /\ op = "attach" => certified'[What(r)] = r
             /\ op = "metadata" => config'[r] = r
  PROVE  IInv'
<1>1. Types /\ at[r] \in Nat /\ at[r] >= 1 /\ Follows(r)
  BY SMTT(30) DEF IInv, Types, Follows
<1>2. /\ how[r] = "running" /\ at[r] <= Len(Script(r))
      /\ Script(r)[at[r]].op = op /\ Script(r)[at[r]].what = What(r)
      /\ Script(r)[at[r]] \in Req /\ Script(r)[at[r]] = Request(op, What(r))
  BY <1>1, Where
<1>3. /\ at' \in [Runs -> Nat] /\ tries' \in [Runs -> 0..(Attempts - 1)]
      /\ how' \in [Runs -> {"starting", "running", "returned", "failed"}]
      /\ at'[r] \in {at[r], at[r] + 1} /\ at'[r] <= Len(Script(r)) + 1
      /\ how'[r] \in {"running", "failed"}
      /\ \A s \in Runs \ {r} : at'[s] = at[s] /\ how'[s] = how[s]
  BY <1>1, <1>2, OneStep
<1>4. UNCHANGED <<mode, path, anchor>>
  BY DEF commandVars
<1>5. Types'
  <2>1. keys' \subseteq Runs
    BY <1>1 DEF Types
  <2>. QED  BY <1>1, <1>3, <1>4, <2>1 DEF Types
<1> SUFFICES ASSUME NEW s \in Runs PROVE (Follows(s) /\ Ends(s))'
  BY <1>5 DEF IInv
<1>6. Follows(s) /\ Ends(s) /\ at[s] \in Nat /\ \A i \in Identities : identity[i] = s => identity'[i] = s
  BY <1>1 DEF IInv, Types
<1>7. Follows(s)'
  <2>1. CASE s = r
    <3>1. ASSUME NEW q, q = Script(r)[at[r]], at'[r] = at[r] + 1 PROVE Done(r, q)'
      <4>1. q.op = op /\ q.what = What(r)
        BY <1>2, <3>1
      <4>2. Attested(r, q.what)' => Attested(r, What(r))
        BY <1>4, <4>1 DEF Attested
      <4>. QED  BY <3>1, <4>1, <4>2 DEF Done
    <3>2. \A x \in made'[r] \ made[r] : at[r] <= Len(Script(r)) /\ Script(r)[at[r]] = Request("create", x)
      BY <1>2
    <3>3. \A x \in live'[r] \ live[r] : at[r] <= Len(Script(r)) /\ Script(r)[at[r]] = Request("activate", x)
      BY <1>2
    <3>4. \A x \in linked'[r] \ linked[r] : at[r] <= Len(Script(r)) /\ Script(r)[at[r]] = Request("link", x)
      BY <1>2
    <3>. QED  BY <1>1, <1>3, <1>5, <1>6, <2>1, <3>1, <3>2, <3>3, <3>4, Follow
  <2>2. CASE s # r
    <3>1. at'[s] = at[s] /\ at'[s] # at[s] + 1 /\ at'[s] <= Len(Script(s)) + 1
      BY <1>3, <1>6, <2>2 DEF Follows
    <3>. QED  BY <1>1, <1>5, <1>6, <2>2, <3>1, Follow
  <2>. QED  BY <2>1, <2>2
<1>8. Ends(s)'
  <2>1. CASE s = r
    <3>1. r \in keys' \ keys => at[r] >= Len(Script(r))
      <4>1. KeyLast(Script(r)) /\ Len(Script(r)) \in Nat
        BY <1>1, ScriptPlanned DEF Planned
      <4>. QED  BY <1>1, <1>2, <4>1 DEF KeyLast
    <3>. QED  BY <1>1, <1>2, <1>3, <1>5, <1>6, <2>1, <3>1, EndsAs
  <2>2. CASE s # r
    <3>1. at'[s] = at[s] /\ how'[s] = how[s] /\ s \notin keys' \ keys
      BY <1>3, <2>2
    <3>2. Script(s)' = Script(s) /\ file' = file /\ path' = path
      BY <1>4 DEF Script
    <3>3. s \in keys' => s \in keys
      BY <3>1
    <3>. QED  BY <1>6, <3>1, <3>2, <3>3 DEF Ends
  <2>. QED  BY <2>1, <2>2
<1>. QED  BY <1>7, <1>8

\* What has been attached stays, while no request attaches.
LEMMA StillAttached ==
  ASSUME IInv, NEW s \in Runs, NEW k \in 1..(at[s] - 1), Script(s)[k].op = "attach"
  PROVE  certified[Script(s)[k].what] = s
BY DEF IInv, Follows, Done

\* Only one run can have attached: the identity has one policy.
LEMMA OneAttaches ==
  ASSUME IInv, NEW r \in Runs, NEW s \in Runs, NEW j \in 1..Len(Script(r)), NEW k \in 1..Len(Script(s)),
         j <= at[r], k <= at[s], Script(r)[j].op = "attach", Script(s)[k].op = "attach"
  PROVE  r = s /\ Script(r)[j].what = "sdJwt"
<1>1. ASSUME NEW q \in Runs, NEW i \in 1..Len(Script(q)), i <= at[q], Script(q)[i].op = "attach"
      PROVE  identity["sdJwt"] = q /\ Script(q)[i].what = "sdJwt"
  <2> DEFINE p == Request("identity", "sdJwt")
  <2>1. Types /\ Follows(q)
    BY DEF IInv
  <2>2. Script(q)[i].what = "sdJwt" /\ mode[q] = "eudi"
    BY <1>1, <2>1, ScriptPlanned DEF Planned, Asked
  <2>3. Before(Script(q)[i], anchor[q] = "signer") = {p}
    BY <1>1, <2>2 DEF Before
  <2>4. Done(q, p)
    BY <1>1, <2>1, <2>3, Beforehand
  <2>5. p.op = "identity" /\ p.what = "sdJwt" /\ Attested(q, "sdJwt")
    BY <2>2 DEF Request, Attested
  <2>. QED  BY <2>2, <2>4, <2>5 DEF Done
<1>. QED  BY <1>1

LEMMA CreateIdentityStep == ASSUME IInv, NEW r \in Runs, CreateIdentity(r) PROVE IInv'
<1> DEFINE i == What(r)
<1>1. /\ Doing(r, "identity") /\ Answered(r)
      /\ identity' = IF identity[i] # NoRun THEN identity
                     ELSE [identity EXCEPT ![i] = IF Attested(r, i) THEN r ELSE Plain]
      /\ UNCHANGED <<commandVars, visible, leftover, file, config, certified, made, live, linked, keys>>
      /\ (at'[r] = at[r] + 1 => Fresh(r, i))
  <2>1. at[r] # at[r] + 1
    BY DEF IInv, Types
  <2>. QED  BY <2>1 DEF CreateIdentity, Answered, Fails, resourceVars
<1>2. Types
  BY DEF IInv
<1>3. identity' \in [Identities -> Runs \cup {NoRun, Earlier, Plain}]
  BY <1>1, <1>2 DEF Types
<1>4. \A x \in Identities : identity[x] \in Runs => identity'[x] = identity[x]
  BY <1>1, <1>2, BootstrapAssumption DEF Types
<1>5. ASSUME at'[r] = at[r] + 1, Attested(r, i) PROVE identity'[i] = r
  <2>1. i \in Identities /\ identity[i] = NoRun
    BY <1>1, <1>5 DEF Attested, Identities, Fresh
  <2>. QED  BY <1>1, <1>2, <1>5, <2>1 DEF Types
<1> HIDE DEF i
<1>6. "identity" \in Ops
  BY DEF Ops
<1>. QED  BY <1>1, <1>2, <1>3, <1>4, <1>5, <1>6, StillAttached, RequestStep DEF Types, i

LEMMA AttachStep == ASSUME IInv, NEW r \in Runs, AttachCertificate(r) PROVE IInv'
<1>1. /\ Doing(r, "attach") /\ Answered(r) /\ certified' = [certified EXCEPT ![What(r)] = r]
      /\ UNCHANGED <<commandVars, visible, leftover, file, config, identity, made, live, linked, keys>>
  BY DEF AttachCertificate, resourceVars
<1>2. Types /\ Follows(r)
  BY DEF IInv
<1>3. /\ at[r] \in 1..Len(Script(r)) /\ Script(r)[at[r]].op = "attach" /\ Script(r)[at[r]].what = What(r)
      /\ at[r] \in Nat
  BY <1>1, <1>2, Where DEF Follows, Types
<1>4. What(r) = "sdJwt" /\ What(r) \in Identities
  BY <1>3, OneAttaches DEF Identities
<1>5. certified' \in [Identities -> Runs \cup {NoRun}] /\ certified'[What(r)] = r
  BY <1>1, <1>2, <1>4 DEF Types
<1>6. ASSUME NEW s \in Runs, NEW k \in 1..(at[s] - 1), Script(s)[k].op = "attach"
      PROVE  certified'[Script(s)[k].what] = s
  <2>1. k \in 1..Len(Script(s)) /\ k <= at[s]
    BY <1>2 DEF IInv, Follows, Types
  <2>2. s = r /\ Script(s)[k].what = "sdJwt"
    BY <1>3, <1>6, <2>1, OneAttaches
  <2>. QED  BY <1>4, <1>5, <2>2
<1>7. "attach" \in Ops
  BY DEF Ops
<1>. QED  BY <1>1, <1>2, <1>5, <1>6, <1>7, RequestStep DEF Types

LEMMA MetadataStep == ASSUME IInv, NEW r \in Runs, ReadMetadata(r) PROVE IInv'
<1>1. /\ Doing(r, "metadata") /\ Answered(r)
      /\ UNCHANGED <<commandVars, visible, leftover, file, identity, certified, made, live, linked, keys>>
  BY DEF ReadMetadata, Answered, identityVars, resourceVars
<1>2. Types /\ Follows(r)
  BY DEF IInv
<1>3. /\ at[r] \in 1..Len(Script(r)) /\ Script(r)[at[r]].op = "metadata" /\ at[r] \in Nat
  BY <1>1, <1>2, Where DEF Follows, Types
<1>4. r \in Published
  <2> DEFINE p == Request("activate", <<"oid4vci", "template">>)
  <2>1. Script(r)[at[r]].what = "oid4vci"
    BY <1>2, <1>3, ScriptPlanned DEF Planned, Asked
  <2>2. Before(Script(r)[at[r]], anchor[r] = "signer") = {p}
    BY <1>3, <2>1 DEF Before
  <2>3. Done(r, p)
    BY <1>2, <1>3, <2>2, Beforehand
  <2>. QED  BY <2>3 DEF Published, Done, Request
<1>5. \/ config' = [config EXCEPT ![r] = r]
      \/ UNCHANGED config /\ Fails(r)
  <2>1. ASSUME NEW q, Match(q) PROVE q = r
    BY <1>4, <2>1 DEF Match
  <2>. QED  BY <2>1 DEF ReadMetadata
<1>6. at'[r] = at[r] + 1 => config'[r] = r
  <2>1. Fails(r) => at'[r] # at[r] + 1
    BY <1>3 DEF Fails
  <2>. QED  BY <1>2, <1>5, <2>1 DEF Types
<1>7. /\ config' \in [Runs -> Runs \cup {NoRun, Earlier}]
      /\ \A s \in Runs \ {r} : config'[s] = config[s]
      /\ config[r] = r => config'[r] = r
  BY <1>2, <1>5 DEF Types
<1>8. "metadata" \in Ops
  BY DEF Ops
<1>. QED  BY <1>1, <1>2, <1>6, <1>7, <1>8, StillAttached, RequestStep DEF Types

\* The requests that change one set of the run.
LEMMA ResourceStep ==
  ASSUME IInv, NEW r \in Runs,
         CreateResource(r) \/ ActivateResource(r) \/ LinkIssuer(r) \/ CreateApiKey(r)
  PROVE  IInv'
<1>1. Types /\ Follows(r)
  BY DEF IInv
<1>2. {"create", "activate", "link", "key"} \subseteq Ops
  BY DEF Ops
<1>3. ASSUME NEW op, Doing(r, op) PROVE What(r) \in Whats
  <2>1. at[r] >= 1
    BY <1>1 DEF Follows, Types
  <2>2. Script(r)[at[r]] \in Req /\ Script(r)[at[r]].what = What(r)
    BY <1>1, <1>3, <2>1, Where
  <2>. QED  BY <2>2 DEF Req
<1>4. CASE CreateResource(r)
  <2>1. /\ Doing(r, "create") /\ Answered(r) /\ made' = [made EXCEPT ![r] = @ \cup {What(r)}]
        /\ UNCHANGED <<commandVars, visible, leftover, file, config, identity, certified, live, linked, keys>>
    BY <1>4 DEF CreateResource, identityVars
  <2>2. /\ made' \in [Runs -> SUBSET Whats] /\ made'[r] = made[r] \cup {What(r)}
        /\ \A s \in Runs \ {r} : made'[s] = made[s]
    BY <1>1, <1>3, <2>1 DEF Types
  <2>. QED  BY <1>1, <1>2, <2>1, <2>2, StillAttached, RequestStep, SMTT(30) DEF Types
<1>5. CASE ActivateResource(r)
  <2>1. /\ Doing(r, "activate") /\ Answered(r) /\ live' = [live EXCEPT ![r] = @ \cup {What(r)}]
        /\ UNCHANGED <<commandVars, visible, leftover, file, config, identity, certified, made, linked, keys>>
    BY <1>5 DEF ActivateResource, identityVars
  <2>2. /\ live' \in [Runs -> SUBSET Whats] /\ live'[r] = live[r] \cup {What(r)}
        /\ \A s \in Runs \ {r} : live'[s] = live[s]
    BY <1>1, <1>3, <2>1 DEF Types
  <2>. QED  BY <1>1, <1>2, <2>1, <2>2, StillAttached, RequestStep, SMTT(30) DEF Types
<1>6. CASE LinkIssuer(r)
  <2>1. /\ Doing(r, "link") /\ Answered(r) /\ linked' = [linked EXCEPT ![r] = @ \cup {What(r)}]
        /\ UNCHANGED <<commandVars, visible, leftover, file, config, identity, certified, made, live, keys>>
    BY <1>6 DEF LinkIssuer, identityVars
  <2>2. /\ linked' \in [Runs -> SUBSET Whats] /\ linked'[r] = linked[r] \cup {What(r)}
        /\ \A s \in Runs \ {r} : linked'[s] = linked[s]
    BY <1>1, <1>3, <2>1 DEF Types
  <2>. QED  BY <1>1, <1>2, <2>1, <2>2, StillAttached, RequestStep, SMTT(30) DEF Types
<1>7. CASE CreateApiKey(r)
  <2>1. /\ Doing(r, "key") /\ Answered(r) /\ keys' = keys \cup {r}
        /\ UNCHANGED <<commandVars, visible, leftover, file, config, identity, certified, made, live, linked>>
    BY <1>7 DEF CreateApiKey, identityVars
  <2>. QED  BY <1>1, <1>2, <2>1, StillAttached, RequestStep DEF Types
<1>. QED  BY <1>4, <1>5, <1>6, <1>7

LEMMA OtherSteps ==
  ASSUME IInv, NEW r \in Runs, Begin(r) \/ ResolvePublicJwk(r) \/ WritePrivateJson(r) \/ RequestFails(r)
  PROVE  IInv'
<1>1. Types /\ Follows(r)
  BY DEF IInv
<1>2. \A s \in Runs : how[s] = "returned" => file[path[s]] = s /\ s # NoRun
  BY BootstrapAssumption DEF IInv, Ends
<1>3. CASE Begin(r) \/ RequestFails(r)
  <2>1. /\ UNCHANGED <<commandVars, at, tries, config, identity, visible, certified, resourceVars, file>>
        /\ \/ how' = [how EXCEPT ![r] = "running"]
           \/ how' = [how EXCEPT ![r] = "failed"]
    BY <1>3 DEF Begin, RequestFails, Fails, identityVars
  <2>2. /\ how' \in [Runs -> {"starting", "running", "returned", "failed"}]
        /\ \A s \in Runs : how'[s] = how[s] \/ how'[s] \in {"running", "failed"}
    BY <1>1, <2>1 DEF Types
  <2>. QED  BY <1>1, <1>2, <2>1, <2>2, QuietStep DEF Types
<1>4. CASE ResolvePublicJwk(r)
  <2>1. /\ Doing(r, "resolve")
        /\ UNCHANGED <<commandVars, config, identity, visible, certified, resourceVars, file>>
        /\ \/ Answered(r)
           \/ tries[r] + 1 < Attempts /\ tries' = [tries EXCEPT ![r] = @ + 1] /\ UNCHANGED <<at, how>>
    BY <1>4 DEF ResolvePublicJwk, Answered, identityVars
  <2>2. CASE Answered(r)
    <3>1. UNCHANGED <<made, live, linked, keys, leftover>> /\ "resolve" \in Ops
      BY <2>1 DEF resourceVars, Ops
    <3>. QED  BY <1>1, <2>1, <2>2, <3>1, StillAttached, RequestStep DEF Types
  <2>3. CASE tries[r] + 1 < Attempts /\ tries' = [tries EXCEPT ![r] = @ + 1] /\ UNCHANGED <<at, how>>
    <3>1. tries[r] + 1 \in 0..(Attempts - 1)
      BY <1>1, <2>3, BootstrapAssumption DEF Types
    <3>2. tries' \in [Runs -> 0..(Attempts - 1)]
      BY <1>1, <2>3, <3>1 DEF Types
    <3>. QED  BY <1>1, <1>2, <2>1, <2>3, <3>2, QuietStep DEF Types
  <2>. QED  BY <2>1, <2>2, <2>3
<1>5. CASE WritePrivateJson(r)
  <2>1. /\ how[r] = "running" /\ at[r] = Len(Script(r)) + 1
        /\ UNCHANGED <<commandVars, at, tries, config, identity, visible, certified, resourceVars>>
        /\ \/ /\ file[path[r]] = NoRun /\ file' = [file EXCEPT ![path[r]] = r]
              /\ how' = [how EXCEPT ![r] = "returned"] \/ how' = [how EXCEPT ![r] = "failed"]
           \/ how' = [how EXCEPT ![r] = "failed"] /\ UNCHANGED file
    BY <1>5 DEF WritePrivateJson, identityVars
  <2>2. /\ how' \in [Runs -> {"starting", "running", "returned", "failed"}]
        /\ \A s \in Runs \ {r} : how'[s] = how[s]
        /\ how'[r] \in {"returned", "failed"}
        /\ how'[r] = "returned" => file[path[r]] = NoRun /\ file' = [file EXCEPT ![path[r]] = r]
    BY <1>1, <2>1 DEF Types
  <2>3. /\ file' \in [Paths -> Runs \cup {NoRun}]
        /\ \A p \in Paths : file[p] # NoRun => file'[p] = file[p]
        /\ how'[r] = "returned" => file'[path[r]] = r
    <3>1. path[r] \in Paths
      BY <1>1 DEF Types
    <3>2. CASE file[path[r]] = NoRun /\ file' = [file EXCEPT ![path[r]] = r]
      BY <1>1, <3>1, <3>2 DEF Types
    <3>3. CASE how'[r] = "failed" /\ UNCHANGED file
      BY <1>1, <3>3 DEF Types
    <3>4. how' = [how EXCEPT ![r] = "failed"] => how'[r] = "failed"
      BY <1>1 DEF Types
    <3>. QED  BY <2>1, <3>2, <3>3, <3>4
  <2>4. ASSUME NEW s \in Runs, how'[s] = "returned"
        PROVE  file'[path[s]] = s /\ (how[s] # "returned" => at[s] = Len(Script(s)) + 1)
    <3>1. CASE s = r
      BY <2>1, <2>3, <2>4, <3>1
    <3>2. CASE s # r
      BY <1>1, <1>2, <2>2, <2>3, <2>4, <3>2 DEF Types
    <3>. QED  BY <3>1, <3>2
  <2>5. \A s \in Runs : how'[s] = "starting" => how[s] = "starting"
    BY <2>2
  <2>. QED  BY <1>1, <2>1, <2>2, <2>3, <2>4, <2>5, QuietStep DEF Types
<1>. QED  BY <1>3, <1>4, <1>5

LEMMA NextIInv == IInv /\ [Next]_vars => IInv'
<1> SUFFICES ASSUME IInv, [Next]_vars PROVE IInv'
  OBVIOUS
<1>1. ASSUME NEW r \in Runs, RunStep(r) \/ RequestFails(r) PROVE IInv'
  BY <1>1, CreateIdentityStep, AttachStep, MetadataStep, ResourceStep, OtherSteps DEF RunStep
<1>2. \A r \in Runs : how[r] = "returned" => file[path[r]] = r
  BY DEF IInv, Ends
<1>3. ASSUME NEW i \in Identities, IdentityAppears(i) PROVE IInv'
  BY <1>2, <1>3, QuietStep DEF IdentityAppears, IInv, Types
<1>4. CASE UNCHANGED vars
  BY <1>2, <1>4, QuietStep DEF vars, identityVars, IInv, Types
<1>. QED  BY <1>1, <1>3, <1>4 DEF Next

LEMMA Invariant == Spec => []IInv
BY InitIInv, NextIInv, PTL DEF Spec

-----------------------------------------------------------------------------
\* Every variable keeps its type, and whatever is active or linked was made.
THEOREM TypeCorrect == Spec => []TypeOK
<1>1. IInv => TypeOK
  <2> SUFFICES ASSUME IInv PROVE TypeOK
    OBVIOUS
  <2>1. Types
    BY DEF IInv
  <2>2. ASSUME NEW r \in Runs
        PROVE  /\ at[r] \in 1..(Len(Script(r)) + 1)
               /\ live[r] \subseteq made[r] /\ made[r] \subseteq Resources(r) /\ linked[r] \subseteq made[r]
    <3>1. Follows(r)
      BY DEF IInv
    <3>2. ASSUME NEW op \in {"activate", "link"}, NEW x, Sent(r, Request(op, x)) PROVE x \in made[r]
      <4>1. PICK k \in 1..Len(Script(r)) : k <= at[r] /\ Script(r)[k] = Request(op, x)
        BY <3>2 DEF Sent
      <4>2. Request("create", x) \in Before(Script(r)[k], anchor[r] = "signer")
        BY <4>1 DEF Before, Request
      <4>3. Done(r, Request("create", x))
        BY <2>1, <3>1, <4>1, <4>2, Beforehand
      <4>. QED  BY <4>3 DEF Done, Request
    <3>3. made[r] \subseteq Resources(r)
      <4> SUFFICES ASSUME NEW x \in made[r] PROVE x \in Resources(r)
        OBVIOUS
      <4>1. PICK k \in 1..Len(Script(r)) : Script(r)[k] = Request("create", x)
        BY <3>1 DEF Follows, Sent
      <4>2. Script(r)[k].op = "create" /\ Script(r)[k].what = x
        BY <4>1 DEF Request
      <4>. QED  BY <4>2 DEF Resources
    <3>. QED  BY <3>1, <3>2, <3>3 DEF Follows
  <2>. QED  BY <2>1, <2>2 DEF Types, TypeOK
<1>. QED  BY <1>1, Invariant, PTL

\* At any time, wherever a run has stopped, whatever is active rests on what is
\* active (the order of the requests in bootstrap, bootstrap_eudi and
\* bootstrap_browser_issuance).
THEOREM ActiveCorrect == Spec => []ActiveRestsOnActive
<1>1. IInv => ActiveRestsOnActive
  <2> SUFFICES ASSUME IInv, NEW r \in Runs, NEW x \in live[r]
               PROVE  /\ Needs(x) \subseteq live[r]
                      /\ x[2] = "trust" => x \in linked[r] \/ (x[1] = "oid4vp_mdoc" /\ anchor[r] = "root")
    BY DEF ActiveRestsOnActive
  <2>1. Types /\ Follows(r)
    BY DEF IInv
  <2>2. PICK k \in 1..Len(Script(r)) : k <= at[r] /\ Script(r)[k] = Request("activate", x)
    BY <2>1 DEF Follows, Sent
  <2>3. ASSUME NEW p \in Before(Request("activate", x), anchor[r] = "signer") PROVE Done(r, p)
    BY <2>1, <2>2, <2>3, Beforehand
  <2>4. ASSUME NEW y \in Needs(x) PROVE y \in live[r]
    <3>1. Request("activate", y) \in Before(Request("activate", x), anchor[r] = "signer")
      BY DEF Before, Request
    <3>. QED  BY <2>3, <3>1 DEF Done, Request
  <2>5. ASSUME x[2] = "trust", x[1] # "oid4vp_mdoc" \/ anchor[r] # "root" PROVE x \in linked[r]
    <3>1. anchor[r] \in {"root", "signer"}
      BY <2>1 DEF Types
    <3>2. Request("link", x) \in Before(Request("activate", x), anchor[r] = "signer")
      BY <2>5, <3>1 DEF Before, Request
    <3>. QED  BY <2>3, <3>2 DEF Done, Request
  <2>. QED  BY <2>4, <2>5
<1>. QED  BY <1>1, Invariant, PTL

\* The fixtures of a run that returned are its own: its resources are active,
\* the attested identity, its certificate and the configuration are this run's
\* (issuer_identity_response, oid4vci_configuration_id).
THEOREM FixturesCorrect == Spec => []FixturesAreOwn
<1>1. IInv => FixturesAreOwn
  <2> SUFFICES ASSUME IInv, NEW r \in Runs, how[r] = "returned"
               PROVE  /\ live[r] = Resources(r) \ {x \in Resources(r) : x[2] = "entity"}
                      /\ mode[r] \in {"oid4vci", "eudi"} => identity["sdJwt"] = r
                      /\ mode[r] = "eudi" => certified["sdJwt"] = r
                      /\ mode[r] = "oid4vci" => config[r] = r
    BY DEF FixturesAreOwn
  <2>1. Types /\ Follows(r) /\ at[r] = Len(Script(r)) + 1
    BY DEF IInv, Ends
  <2>2. Planned(Script(r), mode[r], anchor[r] = "signer") /\ Len(Script(r)) \in Nat
    BY <2>1, ScriptPlanned
  <2>3. ASSUME NEW q \in Asked(Script(r)) PROVE Done(r, q)
    BY <2>1, <2>2 DEF Follows, Asked
  <2>4. Resources(r) = {q.what : q \in {p \in Asked(Script(r)) : p.op = "create"}}
    BY DEF Resources, Asked
  <2>5. ASSUME NEW x \in live[r] PROVE x \in Resources(r) /\ x[2] # "entity"
    <3>1. Request("activate", x) \in Asked(Script(r))
      BY <2>1 DEF Follows, Sent, Asked
    <3>2. Request("create", x) \in Asked(Script(r)) /\ x[2] # "entity"
      BY <2>2, <3>1 DEF Planned, Closed, Request
    <3>. QED  BY <2>4, <3>2 DEF Request
  <2>6. ASSUME NEW x \in Resources(r), x[2] # "entity" PROVE x \in live[r]
    <3>1. Request("activate", x) \in Asked(Script(r))
      BY <2>2, <2>4, <2>6 DEF Planned, Closed
    <3>. QED  BY <2>3, <3>1 DEF Done, Request
  <2>7. mode[r] \in {"oid4vci", "eudi"} => identity["sdJwt"] = r
    BY <2>2, <2>3 DEF Planned, Done, Request, Attested
  <2>8. mode[r] = "eudi" => certified["sdJwt"] = r
    BY <2>2, <2>3 DEF Planned, Done, Request
  <2>9. mode[r] = "oid4vci" => config[r] = r
    BY <2>2, <2>3 DEF Planned, Done, Request
  <2>. QED  BY <2>5, <2>6, <2>7, <2>8, <2>9
<1>. QED  BY <1>1, Invariant, PTL

\* An API key of a run that returned is on file, and only a run that failed in
\* its last two steps leaves one behind (create_disposable_vc_api_key,
\* write_private_json).
THEOREM KeysCorrect == Spec => []KeysAreOnFile
<1>1. IInv => KeysAreOnFile
  BY DEF IInv, Types, Ends, KeysAreOnFile
<1>. QED  BY <1>1, Invariant, PTL
=============================================================================

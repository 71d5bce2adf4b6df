-------------------------- MODULE FixtureBootstrap --------------------------
(***************************************************************************)
(* scripts/official_fixture_bootstrap.py: what an official suite needs is  *)
(* created through Marty's public API, one request after the other: the    *)
(* issuer identities, profiles, templates, policies and trust of one mode. *)
(* Nothing is taken back when a request fails, and runs for the same       *)
(* organization share its issuer identities and its published metadata.    *)
(***************************************************************************)
EXTENDS Naturals, Sequences, FiniteSets

CONSTANTS
    Runs,       \* processes, for one organization of one gateway
    Modes,      \* of those runs
    Attempts,   \* to resolve an identity
    Paths,      \* --output
    NoRun, Earlier   \* nobody; whoever used the organization before the runs

AllModes == {"oid4vci", "oid4vp", "oid4vp-mdoc", "w3c", "eudi", "all"}

ASSUME BootstrapAssumption ==
    /\ Modes \subseteq AllModes
    /\ Attempts \in Nat \ {0}
    /\ NoRun \notin Runs /\ Earlier \notin Runs /\ NoRun # Earlier

VARIABLES
    mode, path,   \* the command line of a run
    anchor,       \* the mdoc certificate it was given is a root or a signer
    at,           \* the step of its script it is at
    tries,        \* to resolve the identity, so far
    how,          \* "starting", "running", "returned" or "failed"
    config,       \* whose template the configuration it selected belongs to
    \* the gateway
    identity,     \* an issuer identity: by whom it was created with an attestation policy
    visible,      \* identities that can be resolved
    certified,    \* whose certificate an identity has
    made, live,   \* the resources that a run has created and activated
    linked,       \* trust profiles of a run that have their issuer
    keys,         \* runs that have an API key
    leftover,     \* an earlier template is still published
    \* the file system
    file          \* whose fixtures a path holds

commandVars == <<mode, path, anchor>>
identityVars == <<identity, visible, certified>>
resourceVars == <<made, live, linked, keys, leftover>>
vars == <<commandVars, at, tries, how, config, identityVars, resourceVars, file>>

-----------------------------------------------------------------------------
(* The requests of a mode.  A resource is named by its fixture (the prefix  *)
(* of its entries in the file) and its kind.                                *)

Identities == {"sdJwt", "jsonLd", "mdoc", "request", "mdocRequest"}
Plain == "plain"     \* created without an attestation policy

Request(op, what) == [op |-> op, what |-> what]

\* create_active_resource
Lifecycle(f, kind) == <<Request("create", <<f, kind>>), Request("activate", <<f, kind>>)>>

\* The identity that issues, and for OID4VP the one that signs requests.
IdentityRequests(f) ==
    CASE f = "w3c"     -> <<Request("identity", "jsonLd")>>
      [] f = "oid4vci" -> <<Request("identity", "sdJwt")>>
      [] f = "oid4vp"  -> <<Request("identity", "sdJwt"), Request("identity", "request"),
                            Request("resolve", "request")>>
      [] f = "oid4vp_mdoc" -> <<Request("identity", "mdoc"), Request("identity", "mdocRequest"),
                                Request("resolve", "mdocRequest")>>

ComplianceProfile(f) == Lifecycle(f, "compliance")
RevocationProfile(f) == Lifecycle(f, "revocation")

TemplateRequests(f) ==
    ComplianceProfile(f) \o RevocationProfile(f) \o Lifecycle(f, "template")
    \o (IF f = "oid4vci" THEN <<Request("metadata", f)>> ELSE <<>>)
    \o (IF f = "w3c" THEN Lifecycle(f, "presentationTemplate") ELSE <<>>)

TrustProfile(f) == Request("create", <<f, "trust">>)
IssuerEntity(f) == Request("create", <<f, "entity">>)

\* Mutant: the profile is activated first and linked to its issuer afterwards.
TrustRequestsActiveFirst(f, pinned) ==
    Lifecycle(f, "trust")
    \o (IF pinned THEN <<IssuerEntity(f), Request("link", <<f, "trust">>)>> ELSE <<>>)
\* A trust profile that pins an issuer is linked to the issuer's entity before
\* it is activated; one that names a root certificate has no entity.
TrustRequests(f, pinned) ==
    <<TrustProfile(f)>>
    \o (IF pinned THEN <<IssuerEntity(f), Request("link", <<f, "trust">>)>> ELSE <<>>)
    \o <<Request("activate", <<f, "trust">>)>>

PolicyRequests(f) ==
    CASE f = "w3c"     -> Lifecycle(f, "credentialPolicy") \o Lifecycle(f, "presentationPolicy")
      [] f = "oid4vci" -> <<>>
      [] OTHER         -> Lifecycle(f, "presentationPolicy")

BrowserRequests(f) ==
    Lifecycle(f, "browserCompliance") \o Lifecycle(f, "browserTemplate")
    \o Lifecycle(f, "application") \o Lifecycle(f, "flow")

\* bootstrap: one turn of its loop.  W3C policies name the trust profile, the
\* others are made before it.
FixtureRequests(m, f, pinned) ==
    IdentityRequests(f) \o TemplateRequests(f)
    \o CASE f = "w3c"     -> TrustRequests(f, TRUE) \o PolicyRequests(f) \o <<Request("key", f)>>
         [] f = "oid4vci" -> <<>>
         [] OTHER         -> PolicyRequests(f) \o TrustRequests(f, pinned)
    \o (IF m = "oid4vp" THEN BrowserRequests(f) ELSE <<>>)

EudiRequests ==
    <<Request("identity", "sdJwt"), Request("resolve", "sdJwt"), Request("attach", "sdJwt"),
      Request("identity", "request"), Request("resolve", "request")>>
    \o ComplianceProfile("eudi") \o RevocationProfile("eudi")
    \o Lifecycle("eudi", "passport") \o Lifecycle("eudi", "mdl") \o Lifecycle("eudi", "openBadge")

Requests(m, pinned) ==
    CASE m = "eudi"        -> EudiRequests
      [] m = "all"         -> FixtureRequests(m, "oid4vp", TRUE) \o FixtureRequests(m, "w3c", TRUE)
      [] m = "oid4vp-mdoc" -> FixtureRequests(m, "oid4vp_mdoc", pinned)
      [] OTHER             -> FixtureRequests(m, m, TRUE)

\* The script of each command line.
Scripted  == [m \in AllModes |-> [pinned \in BOOLEAN |-> Requests(m, pinned)]]
Script(r) == Scripted[mode[r]][anchor[r] = "signer"]

\* Only an issuer that must trust the suite's wallet gets a policy.
Attested(r, i) == mode[r] \in {"oid4vci", "eudi"} /\ i = "sdJwt"

-----------------------------------------------------------------------------
(* What a resource refers to.                                               *)

TemplateNeeds(f)        == {<<f, "compliance">>, <<f, "revocation">>}
EudiTemplateNeeds       == {<<"eudi", "compliance">>, <<"eudi", "revocation">>}
BrowserTemplateNeeds(f) == {<<f, "browserCompliance">>, <<f, "revocation">>}
ApplicationNeeds(f)     == {<<f, "browserTemplate">>}
FlowNeeds(f)            == {<<f, "browserTemplate">>}

\* A W3C presentation policy has no credential requirement, a credential policy
\* names its trust profile as well.
PolicyNeeds(f, kind) ==
    IF kind = "credentialPolicy" THEN {<<f, "template">>, <<f, "trust">>}
    ELSE IF f = "w3c" THEN {} ELSE {<<f, "template">>}

Needs(x) ==
    LET f == x[1]  kind == x[2] IN
    CASE kind \in {"template", "presentationTemplate"}        -> TemplateNeeds(f)
      [] kind \in {"passport", "mdl", "openBadge"}            -> EudiTemplateNeeds
      [] kind = "browserTemplate"                             -> BrowserTemplateNeeds(f)
      [] kind = "application"                                 -> ApplicationNeeds(f)
      [] kind = "flow"                                        -> FlowNeeds(f)
      [] kind \in {"credentialPolicy", "presentationPolicy"}  -> PolicyNeeds(f, kind)
      [] OTHER                                                -> {}

Resources(r) == {Script(r)[n].what : n \in {k \in 1..Len(Script(r)) : Script(r)[k].op = "create"}}

-----------------------------------------------------------------------------
TypeOK ==
    /\ mode \in [Runs -> Modes] /\ path \in [Runs -> Paths]
    /\ anchor \in [Runs -> {"root", "signer"}]
    /\ at \in [Runs -> Nat] /\ \A r \in Runs : at[r] \in 1..(Len(Script(r)) + 1)
    /\ tries \in [Runs -> 0..(Attempts - 1)]
    /\ how \in [Runs -> {"starting", "running", "returned", "failed"}]
    /\ config \in [Runs -> Runs \cup {NoRun, Earlier}]
    /\ identity \in [Identities -> Runs \cup {NoRun, Earlier, Plain}]
    /\ visible \subseteq Identities
    /\ certified \in [Identities -> Runs \cup {NoRun}]
    /\ \A r \in Runs : live[r] \subseteq made[r] /\ made[r] \subseteq Resources(r) /\ linked[r] \subseteq made[r]
    /\ keys \subseteq Runs
    /\ leftover \in BOOLEAN
    /\ file \in [Paths -> Runs \cup {NoRun}]

\* The organization may have been used before: with an issuer identity, under
\* whatever policy, and with a template of the same type.
Init ==
    /\ mode \in [Runs -> Modes] /\ path \in [Runs -> Paths]
    /\ anchor \in [Runs -> {"root", "signer"}]
    /\ \A r \in Runs : mode[r] # "oid4vp-mdoc" => anchor[r] = "signer"
    /\ at = [r \in Runs |-> 1] /\ tries = [r \in Runs |-> 0]
    /\ how = [r \in Runs |-> "starting"]
    /\ config = [r \in Runs |-> NoRun]
    /\ \E i \in {NoRun, Earlier} : identity = [x \in Identities |-> IF x = "sdJwt" THEN i ELSE NoRun]
    /\ visible = {x \in Identities : identity[x] # NoRun}
    /\ certified = [x \in Identities |-> NoRun]
    /\ made = [r \in Runs |-> {}] /\ live = [r \in Runs |-> {}] /\ linked = [r \in Runs |-> {}]
    /\ keys = {}
    /\ leftover \in BOOLEAN
    /\ file = [p \in Paths |-> NoRun]

-----------------------------------------------------------------------------
Doing(r, op) == how[r] = "running" /\ at[r] <= Len(Script(r)) /\ Script(r)[at[r]].op = op
What(r) == Script(r)[at[r]].what

Proceeds(r) == at' = [at EXCEPT ![r] = @ + 1] /\ tries' = [tries EXCEPT ![r] = 0] /\ UNCHANGED how
Fails(r) == how' = [how EXCEPT ![r] = "failed"] /\ UNCHANGED <<at, tries>>

\* A POST that took effect; its answer is lost, or is not what it should be.
Answered(r) == Proceeds(r) \/ Fails(r)

\* main: the command line, the runner's configuration and the certificates.
Begin(r) ==
    /\ how[r] = "starting"
    /\ how' = [how EXCEPT ![r] = "running"] \/ how' = [how EXCEPT ![r] = "failed"]
    /\ UNCHANGED <<commandVars, at, tries, config, identityVars, resourceVars, file>>

\* Mutant: what the API answers about an identity is not looked at.
FreshIgnored(r, i) == TRUE
\* issuer_identity_response: an identity that exists keeps the policy it has.
Fresh(r, i) == Attested(r, i) => identity[i] = NoRun

CreateIdentity(r) ==
    /\ Doing(r, "identity")
    /\ LET i == What(r) IN
          /\ identity' = IF identity[i] # NoRun THEN identity
                         ELSE [identity EXCEPT ![i] = IF Attested(r, i) THEN r ELSE Plain]
          /\ IF Fresh(r, i) THEN Answered(r) ELSE Fails(r)
    /\ UNCHANGED <<commandVars, config, visible, certified, resourceVars, file>>

\* A new identity can be resolved some time after it was created.
IdentityAppears(i) ==
    /\ identity[i] # NoRun /\ i \notin visible
    /\ visible' = visible \cup {i}
    /\ UNCHANGED <<commandVars, at, tries, how, config, identity, certified, resourceVars, file>>

ResolvePublicJwk(r) ==
    /\ Doing(r, "resolve")
    /\ IF What(r) \in visible THEN Proceeds(r)
       ELSE IF tries[r] + 1 < Attempts
            THEN tries' = [tries EXCEPT ![r] = @ + 1] /\ UNCHANGED <<at, how>>
            ELSE Fails(r)
    /\ UNCHANGED <<commandVars, config, identityVars, resourceVars, file>>

AttachCertificate(r) ==
    /\ Doing(r, "attach")
    /\ certified' = [certified EXCEPT ![What(r)] = r]
    /\ Answered(r)
    /\ UNCHANGED <<commandVars, config, identity, visible, resourceVars, file>>

CreateResource(r) ==
    /\ Doing(r, "create")
    /\ made' = [made EXCEPT ![r] = @ \cup {What(r)}]
    /\ Answered(r)
    /\ UNCHANGED <<commandVars, config, identityVars, live, linked, keys, leftover, file>>

\* Mutant: the activation is best effort.
ActivateResourceBestEffort(r) ==
    /\ Doing(r, "activate")
    /\ live' \in {live, [live EXCEPT ![r] = @ \cup {What(r)}]}
    /\ Proceeds(r)
    /\ UNCHANGED <<commandVars, config, identityVars, made, linked, keys, leftover, file>>
ActivateResource(r) ==
    /\ Doing(r, "activate")
    /\ live' = [live EXCEPT ![r] = @ \cup {What(r)}]
    /\ Answered(r)
    /\ UNCHANGED <<commandVars, config, identityVars, made, linked, keys, leftover, file>>

LinkIssuer(r) ==
    /\ Doing(r, "link")
    /\ linked' = [linked EXCEPT ![r] = @ \cup {What(r)}]
    /\ Answered(r)
    /\ UNCHANGED <<commandVars, config, identityVars, made, live, keys, leftover, file>>

\* Templates that have the type of the SD-JWT fixtures, as the organization's
\* issuer metadata publishes them.
Published ==
    {r \in Runs : <<"oid4vci", "template">> \in live[r] \/ <<"oid4vp", "template">> \in live[r]}
    \cup (IF leftover THEN {Earlier} ELSE {})

\* Mutant: the first configuration that matches.
MatchFirst(q) == q \in Published
\* oid4vci_configuration_id: exactly one.
Match(q) == Published = {q}

ReadMetadata(r) ==
    /\ Doing(r, "metadata")
    /\ IF \E q \in Runs \cup {Earlier} : Match(q)
       THEN (\E q \in Runs \cup {Earlier} : Match(q) /\ config' = [config EXCEPT ![r] = q]) /\ Proceeds(r)
       ELSE UNCHANGED config /\ Fails(r)
    /\ UNCHANGED <<commandVars, identityVars, resourceVars, file>>

CreateApiKey(r) ==
    /\ Doing(r, "key")
    /\ keys' = keys \cup {r}
    /\ Answered(r)
    /\ UNCHANGED <<commandVars, config, identityVars, made, live, linked, leftover, file>>

\* Mutant: an existing file is replaced.
WritePrivateJsonReplaces(r) ==
    /\ how[r] = "running" /\ at[r] = Len(Script(r)) + 1
    /\ file' = [file EXCEPT ![path[r]] = r]
    /\ how' = [how EXCEPT ![r] = "returned"]
    /\ UNCHANGED <<commandVars, at, tries, config, identityVars, resourceVars>>
\* O_EXCL: a file that is there is kept.  What is written may be torn.
WritePrivateJson(r) ==
    /\ how[r] = "running" /\ at[r] = Len(Script(r)) + 1
    /\ IF file[path[r]] = NoRun
       THEN /\ file' = [file EXCEPT ![path[r]] = r]
            /\ how' = [how EXCEPT ![r] = "returned"] \/ how' = [how EXCEPT ![r] = "failed"]
       ELSE /\ how' = [how EXCEPT ![r] = "failed"]
            /\ UNCHANGED file
    /\ UNCHANGED <<commandVars, at, tries, config, identityVars, resourceVars>>

\* A request that is refused or not sent, or the process is killed.
RequestFails(r) ==
    /\ how[r] = "running"
    /\ Fails(r)
    /\ UNCHANGED <<commandVars, config, identityVars, resourceVars, file>>

RunStep(r) ==
    \/ Begin(r) \/ CreateIdentity(r) \/ ResolvePublicJwk(r) \/ AttachCertificate(r)
    \/ CreateResource(r) \/ ActivateResource(r) \/ LinkIssuer(r) \/ ReadMetadata(r)
    \/ CreateApiKey(r) \/ WritePrivateJson(r)

Next ==
    \/ \E r \in Runs : RunStep(r) \/ RequestFails(r)
    \/ \E i \in Identities : IdentityAppears(i)

Spec == Init /\ [][Next]_vars

-----------------------------------------------------------------------------
(* Properties. *)

\* At any time, wherever a run has stopped, whatever is active refers to
\* nothing that is not, and no trust profile that pins an issuer is active
\* without its governed issuer (the order of the requests in bootstrap,
\* bootstrap_eudi and bootstrap_browser_issuance: nothing is compensated).
ActiveRestsOnActive ==
    \A r \in Runs : \A x \in live[r] :
        /\ Needs(x) \subseteq live[r]
        /\ x[2] = "trust" => x \in linked[r] \/ (x[1] = "oid4vp_mdoc" /\ anchor[r] = "root")

\* The fixtures of a run that returned are its own: every resource is active,
\* the attested identity has the policy of this run and no other, with its
\* certificate in the EUDI mode, and the configuration is the one of its own
\* template, whoever else uses the organization (issuer_identity_response,
\* oid4vci_configuration_id).
FixturesAreOwn ==
    \A r \in Runs : how[r] = "returned" =>
        /\ live[r] = Resources(r) \ {x \in Resources(r) : x[2] = "entity"}
        /\ mode[r] \in {"oid4vci", "eudi"} => identity["sdJwt"] = r
        /\ mode[r] = "eudi" => certified["sdJwt"] = r
        /\ mode[r] = "oid4vci" => config[r] = r

\* An API key of a run that returned is on file, for as long as the system
\* runs; only a run that failed in its last two steps leaves a key behind that
\* nobody has (create_disposable_vc_api_key comes last, write_private_json
\* refuses to replace a file).
KeysAreOnFile ==
    \A r \in keys :
        \/ how[r] = "returned" /\ file[path[r]] = r
        \/ how[r] \in {"running", "failed"} /\ at[r] >= Len(Script(r))
=============================================================================

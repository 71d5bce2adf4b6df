------------------------------ MODULE OfferHook ------------------------------
(***************************************************************************)
(* scripts/oidf_marty_offer.py: the hook of one issuer module.  It waits   *)
(* until the official module waits, has Marty create a credential offer    *)
(* for the next of the module's wallet clients, and delivers it.  The      *)
(* offer is created over HTTP or by a command: oidf_marty_public_issuance, *)
(* which signs in, or oidf_docker_issuance, which enters a container.      *)
(***************************************************************************)
EXTENDS Naturals, Sequences, FiniteSets

CONSTANTS
    MaxClients,   \* in the issuance request
    KeySets         \* what the key set of a client may be

Metadata == "issuer-metadata-test"
Happy == "issuer-happy-flow"
MultipleClients == "issuer-happy-flow-multiple-clients"
Tests == {Metadata, Happy, MultipleClients}
Transports == {"http", "public", "docker"}

ASSUME OfferAssumption ==
    /\ MaxClients \in Nat
    /\ KeySets \subseteq {"public", "malformed"}

VARIABLES
    test, transport, authorized_clients,   \* the command line and its request
    hook,         \* the next request, or the exit of the hook
    interaction,  \* which offer it is at
    offered,      \* Marty: clients an offer was created for
    \* the official module
    status,
    phase,        \* the client it waits for or works with
    unread,       \* it has accepted an offer and still says WAITING
    accepted,     \* the offers it accepted, with the phase that took them
    stale         \* observation only: the hook took such a WAITING for a new one

commandVars == <<test, transport, authorized_clients>>
moduleVars == <<status, phase, unread, accepted>>
offerVars == <<commandVars, hook, interaction, offered, moduleVars, stale>>

HookSteps == {"start", "wait", "create", "deliver", "tx_code"}
Exits == {"ok", "failed"}
Ended == status \in {"FINISHED", "INTERRUPTED"}

\* required_offer_interactions; the module has as many phases.
RequiredOfferInteractions(t) ==
    CASE t = Metadata -> 0
      [] t = MultipleClients -> 2
      [] OTHER -> 1

Required == RequiredOfferInteractions(test)

OfferTypeOK ==
    /\ test \in Tests /\ transport \in Transports
    /\ authorized_clients \in Seq(KeySets) /\ Len(authorized_clients) <= MaxClients
    /\ hook \in HookSteps \cup Exits
    /\ interaction \in 1..2
    /\ offered \subseteq 1..2
    /\ status \in {"RUNNING", "WAITING", "FINISHED", "INTERRUPTED"}
    /\ phase \in 1..(Required + 1)
    /\ unread \in BOOLEAN /\ stale \in BOOLEAN
    /\ accepted \subseteq [client : 1..2, phase : 0..3]

InitOffer ==
    /\ test \in Tests /\ transport \in Transports
    /\ \E n \in 0..MaxClients : authorized_clients \in [1..n -> KeySets]
    /\ hook = "start" /\ interaction = 1 /\ offered = {}
    /\ status = "RUNNING" /\ phase = 1 /\ unread = FALSE
    /\ accepted = {} /\ stale = FALSE

-----------------------------------------------------------------------------
(* The hook. *)

\* main: the command line, its environment and the request.
Start ==
    /\ hook = "start"
    /\ hook' \in {IF Required = 0 THEN "ok" ELSE "wait", "failed"}
    /\ UNCHANGED <<commandVars, interaction, offered, moduleVars, stale>>

\* Mutant: a module that ended needs no more offers.
EndedEarlyExcused == "ok"
\* A module that ended needs no offer, unless it has had one.
EndedEarly == IF interaction = 1 THEN "ok" ELSE "failed"

\* wait_for_interaction: one poll that tells.  An interrupted module only has
\* its failure reported.
WaitForInteraction ==
    /\ hook = "wait"
    /\ \/ status = "WAITING" /\ hook' = "create" /\ stale' = (stale \/ unread)
       \/ Ended /\ hook' = EndedEarly /\ UNCHANGED stale
    /\ UNCHANGED <<commandVars, interaction, offered, moduleVars>>

\* Mutant: every offer is for the first client.
OfferPayloadForFirst(i) == 1
\* offer_payload_for_interaction
OfferPayload(i) == i

\* Whether a transport can have Marty create an offer: only the public command
\* looks at the client's keys.
PublicIssuance(client) == client = "public"
DockerIssuance(client) == TRUE
HttpIssuance(client) == TRUE
MayCreate(client) ==
    CASE transport = "public" -> PublicIssuance(client)
      [] transport = "docker" -> DockerIssuance(client)
      [] transport = "http"   -> HttpIssuance(client)

\* credential_offer_uri or command_credential_offer; an offer may be created
\* and its answer lost.
CreateOffer ==
    /\ hook = "create"
    /\ interaction <= Len(authorized_clients)
    /\ MayCreate(authorized_clients[OfferPayload(interaction)])
    /\ offered' = offered \cup {OfferPayload(interaction)}
    /\ hook' \in {"deliver", "failed"}
    /\ UNCHANGED <<commandVars, interaction, moduleVars, stale>>

\* deliver_offer: the module takes an offer while it waits.  One that comes
\* after it has gone on with the offer before may still be accepted.
DeliverOffer ==
    /\ hook = "deliver"
    /\ ~ Ended
    /\ accepted' = accepted \cup {[client |-> OfferPayload(interaction),
                                   phase |-> IF status = "WAITING" THEN phase ELSE phase - 1]}
    /\ unread' = (unread \/ status = "WAITING")
    /\ hook' \in {"tx_code", "failed"}
    /\ UNCHANGED <<commandVars, interaction, offered, status, phase, stale>>

\* The code is sent whether it is needed or not; its status is not looked at.
DeliverTxCode ==
    /\ hook = "tx_code"
    /\ hook' = IF interaction = Required THEN "ok" ELSE "wait"
    /\ interaction' = IF interaction = Required THEN interaction ELSE interaction + 1
    /\ UNCHANGED <<commandVars, offered, moduleVars, stale>>

\* No answer, another answer than expected, a client the request does not
\* have, the deadline.
HookFails ==
    /\ hook \in HookSteps
    /\ hook' = "failed"
    /\ UNCHANGED <<commandVars, interaction, offered, moduleVars, stale>>

-----------------------------------------------------------------------------
(* The official module. *)

ModuleWaits ==
    /\ status = "RUNNING" /\ phase <= Required
    /\ status' = "WAITING"
    /\ UNCHANGED <<commandVars, hook, interaction, offered, phase, unread, accepted, stale>>

\* It redeems the offer, and goes on to the next client.
ModuleResumes ==
    /\ status = "WAITING" /\ unread
    /\ status' = "RUNNING" /\ unread' = FALSE /\ phase' = phase + 1
    /\ UNCHANGED <<commandVars, hook, interaction, offered, accepted, stale>>

ModuleEnds ==
    /\ ~ Ended
    /\ status' \in {"FINISHED", "INTERRUPTED"}
    /\ UNCHANGED <<commandVars, hook, interaction, offered, phase, unread, accepted, stale>>

Hook == Start \/ WaitForInteraction \/ CreateOffer \/ DeliverOffer \/ DeliverTxCode
NextOffer == Hook \/ HookFails \/ ModuleWaits \/ ModuleResumes \/ ModuleEnds

SpecOffer == InitOffer /\ [][NextOffer]_offerVars

-----------------------------------------------------------------------------
(* Properties. *)

\* A hook that exits with 0 has delivered an offer for every client of its
\* module, or none to a module that ended without asking: never some of them
\* (main, required_offer_interactions).
ExitAccountsForOffers ==
    hook = "ok" =>
        \/ {a.client : a \in accepted} = 1..Required
        \/ accepted = {} /\ offered = {} /\ Ended

\* An offer reaches the phase of another client than its own only if the hook
\* polled before the module had gone on with the offer it had just been given,
\* and took its WAITING for a new one (wait_for_interaction reads a status
\* that nothing ties to the interaction).
StaleWaitingIsTheOnlyWindow ==
    (\E a \in accepted : a.client # a.phase) => stale
=============================================================================

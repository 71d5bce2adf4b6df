------------------------------- MODULE MCHost -------------------------------
(***************************************************************************)
(* One host, and the process that was started on it: an operator with the  *)
(* Compose front end, a lane of the matrix, the boundary lane, the fixture *)
(* with the key service, the hook of an issuer module, the sessions of the *)
(* artifact gate, or a maintainer's standalone lookup of a release.        *)
(***************************************************************************)
EXTENDS OfficialLane, BoundaryLane, KmsFixture, OfferHook, ArtifactSessions, ReleaseListing

AllSuites == [Flags -> BOOLEAN]
EveryKind == AllKinds

VARIABLE who

laneFree == <<vars, boundaryVars>>
elsewhere == <<kmsVars, offerVars, artifactVars, lookupVars>>
hostVars == <<who, laneFree, elsewhere>>

\* What stays as it is while another process runs.
NoLane ==
    /\ kind = "issuer" /\ lane = "preflight"
    /\ passed = {} /\ result = "nonzero"
    /\ before = FALSE /\ error = FALSE /\ skipped = "no"
NoBoundary == BoundaryFresh /\ required = FALSE /\ junit = [own |-> FALSE, didcomm |-> "none"]
NoSuite == SuiteInit /\ suite = BoundarySuite /\ project["marty"] = "absent"
NoOffer == InitOffer /\ test = Metadata /\ transport = "http" /\ authorized_clients = <<>>
NoSessions == InitSessions /\ defects = {}
NoLookup == listing = <<>> /\ lookup = "absent" /\ page = 1 /\ witness = 0 /\ shrunk = FALSE
NothingElse == InitKms /\ NoOffer /\ NoSessions /\ NoLookup

Init ==
    \/ who = "operator" /\ SuiteInit /\ NoLane /\ NoBoundary /\ NothingElse
    \/ who = "lane" /\ InitLane /\ NoBoundary /\ NothingElse
    \/ who = "boundary" /\ InitBoundary /\ NoLane /\ NothingElse
    \/ /\ NoSuite /\ NoLane /\ NoBoundary
       /\ \/ who = "kms" /\ NothingElse
          \/ who = "offer" /\ InitKms /\ InitOffer /\ NoSessions /\ NoLookup
          \/ who = "artifact" /\ InitKms /\ NoOffer /\ InitSessions /\ NoLookup
          \/ who = "lookup" /\ InitKms /\ NoOffer /\ NoSessions /\ InitLookup

NextHost ==
    /\ UNCHANGED who
    /\ \/ who = "operator" /\ Next /\ UNCHANGED <<laneVars, boundaryVars, elsewhere>>
       \/ who = "lane" /\ NextLane /\ UNCHANGED <<boundaryVars, elsewhere>>
       \/ who = "boundary" /\ NextBoundary /\ UNCHANGED <<laneVars, elsewhere>>
       \/ who = "kms" /\ NextKms /\ UNCHANGED <<laneFree, offerVars, artifactVars, lookupVars>>
       \/ who = "offer" /\ NextOffer /\ UNCHANGED <<laneFree, kmsVars, artifactVars, lookupVars>>
       \/ who = "artifact" /\ NextSessions /\ UNCHANGED <<laneFree, kmsVars, offerVars, lookupVars>>
       \/ who = "lookup" /\ NextLookup /\ UNCHANGED <<laneFree, kmsVars, offerVars, artifactVars>>

\* The requests of the lookup are answered, or time out, as in FairSpecLookup.
LookupStep == LookupRequests /\ UNCHANGED <<who, laneFree, kmsVars, offerVars, artifactVars>>
SpecHost == Init /\ [][NextHost]_hostVars /\ WF_lookupVars(LookupStep)

\* The types of all of it.
HostTypeOK ==
    /\ LaneTypeOK /\ BoundaryTypeOK /\ KmsTypeOK
    /\ OfferTypeOK /\ SessionsTypeOK /\ LookupTypeOK
=============================================================================

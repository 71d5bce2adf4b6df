--------------------------- MODULE ReleaseListing ---------------------------
(***************************************************************************)
(* scripts/check_release_absent.py: load_release and ensure_release_absent.*)
(* One lookup is many requests: the tag, with a user token the repository  *)
(* permissions, then the pages of the release listing, newest first.       *)
(* Other people create, publish and remove releases between the pages.     *)
(***************************************************************************)
EXTENDS Naturals, Sequences

CONSTANTS PageSize,      \* releases on a page (100)
          MaxPages,      \* pages the lookup reads at most (100)
          MaxReleases,   \* bound of the model: releases of the repository
          ActionsToken   \* --actions-write-token: no permission request

ASSUME ListingAssumption ==
    /\ PageSize \in Nat \ {0}
    /\ MaxPages \in Nat \ {0}
    /\ MaxReleases \in Nat
    /\ ActionsToken \in BOOLEAN

VARIABLES
    listing,   \* the service: releases, newest first
    lookup,    \* the request the lookup makes next, or how it ended
    page,      \* the page it asks for
    witness,   \* observation only: the place of one release that holds the
               \* tag since the lookup began, 0 when there is none
    shrunk     \* observation only: a release was removed during the lookup

lookupVars == <<listing, lookup, page, witness, shrunk>>

Item == [tagged : BOOLEAN, draft : BOOLEAN]
Outcomes == {"absent", "exists", "error"}

LookupTypeOK ==
    /\ listing \in Seq(Item)
    /\ Len(listing) <= MaxReleases
    /\ lookup \in {"tag", "permissions", "pages"} \cup Outcomes
    /\ page \in 1..MaxPages
    /\ witness \in 0..Len(listing)
    /\ shrunk \in BOOLEAN

Tagged(i) == listing[i].tagged

InitLookup ==
    /\ listing \in UNION {[1..n -> Item] : n \in 0..MaxReleases}
    /\ lookup = "tag"
    /\ page = 1
    /\ witness \in {i \in 1..Len(listing) : Tagged(i)} \cup {0}
    /\ (witness = 0) => \A i \in 1..Len(listing) : ~Tagged(i)
    /\ shrunk = FALSE

-----------------------------------------------------------------------------
(* The lookup. *)

Conclude(outcome) == lookup' = outcome /\ UNCHANGED <<listing, page, witness, shrunk>>

\* GET releases/tags/{tag}: documented for published releases.
LoadTag ==
    /\ lookup = "tag"
    /\ IF \E i \in 1..Len(listing) : Tagged(i) /\ ~listing[i].draft
       THEN Conclude("exists")
       ELSE Conclude(IF ActionsToken THEN "pages" ELSE "permissions")

\* A user token sees drafts only with push permission.
LoadPermissions ==
    /\ lookup = "permissions"
    /\ Conclude("pages") \/ Conclude("error")

\* Mutant: each page starts one release late.
OnPageSkipsFirst ==
    {i \in 1..Len(listing) : (page - 1) * PageSize + 1 < i /\ i <= page * PageSize}

\* The places of the listing on the page asked for.
OnPage == {i \in 1..Len(listing) : (page - 1) * PageSize < i /\ i <= page * PageSize}
FullPage == page * PageSize <= Len(listing)

\* range(1, 101)
LastPage == page = MaxPages

\* Mutant: the same page is read again.
LoadPageStuck ==
    /\ lookup = "pages"
    /\ IF \E i \in OnPage : Tagged(i) THEN Conclude("exists")
       ELSE IF ~FullPage THEN Conclude("absent") ELSE UNCHANGED lookupVars

\* GET releases?page=N: the tag is on it; or it is the last page; or there is
\* another one, up to the bound.
LoadPage ==
    /\ lookup = "pages"
    /\ IF \E i \in OnPage : Tagged(i) THEN Conclude("exists")
       ELSE IF ~FullPage THEN Conclude("absent")
       ELSE IF LastPage THEN Conclude("error")
       ELSE page' = page + 1 /\ UNCHANGED <<listing, lookup, witness, shrunk>>

\* HTTPError, OSError or a malformed answer.
RequestFails == lookup \notin Outcomes /\ Conclude("error")

LookupRequests == LoadTag \/ LoadPermissions \/ LoadPage

-----------------------------------------------------------------------------
(* Everybody else. *)

OtherCreates ==
    /\ lookup \notin Outcomes
    /\ Len(listing) < MaxReleases
    /\ \E item \in Item : listing' = <<item>> \o listing
    /\ witness' = IF witness = 0 THEN 0 ELSE witness + 1
    /\ UNCHANGED <<lookup, page, shrunk>>

OtherPublishes ==
    /\ lookup \notin Outcomes
    /\ \E i \in 1..Len(listing) :
          /\ listing[i].draft
          /\ listing' = [listing EXCEPT ![i].draft = FALSE]
    /\ UNCHANGED <<lookup, page, witness, shrunk>>

OtherRemoves ==
    /\ lookup \notin Outcomes
    /\ \E i \in 1..Len(listing) :
          /\ listing' = [j \in 1..(Len(listing) - 1) |->
                             IF j < i THEN listing[j] ELSE listing[j + 1]]
          /\ witness' = IF i = witness THEN 0
                        ELSE IF i < witness THEN witness - 1 ELSE witness
    /\ shrunk' = TRUE
    /\ UNCHANGED <<lookup, page>>

NextLookup == LookupRequests \/ RequestFails \/ OtherCreates \/ OtherPublishes \/ OtherRemoves

SpecLookup == InitLookup /\ [][NextLookup]_lookupVars

\* Requests that do not fail are answered within their 30-second timeout.
FairSpecLookup == SpecLookup /\ WF_lookupVars(LookupRequests)

-----------------------------------------------------------------------------
(* Properties. *)

\* "Absent" is true when nothing was removed during the lookup: releases
\* created or published between two pages cannot hide one that held the tag
\* from the start.
AbsentIsExhaustive == lookup = "absent" /\ ~shrunk => witness = 0

\* The lookup always ends, however the listing grows under it.
LookupEnds == <>(lookup \in Outcomes)

\* README.md, "Release controls": tag publication requires "complete
\* draft/published-release absence"; standalone lookup requires "exhaustive
\* paginated draft listing".
AbsentIsComplete == lookup = "absent" => witness = 0
=============================================================================

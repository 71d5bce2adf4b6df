------------------------ MODULE ReleaseListingProofs ------------------------
(***************************************************************************)
(* Why a lookup by page number is exhaustive as long as nothing is removed *)
(* under it, for every page size and page bound: a release that held the   *)
(* tag from the start is never on a page already read, because releases of *)
(* others only enter the listing in front of it.                           *)
(***************************************************************************)
EXTENDS ReleaseListing, SequenceTheorems, TLAPS

Read == (page - 1) * PageSize   \* places of the listing already read

IInv ==
    /\ LookupTypeOK
    /\ witness # 0 => Tagged(witness)
    /\ lookup = "tag" => page = 1
    /\ lookup = "permissions" => page = 1
    /\ lookup = "pages" /\ ~shrunk /\ witness # 0 => Read < witness
    /\ AbsentIsExhaustive

LEMMA ReadNat == LookupTypeOK => Read \in Nat /\ page * PageSize = Read + PageSize
BY ListingAssumption DEF LookupTypeOK, Read

LEMMA InitIInv == InitLookup => IInv
<1> SUFFICES ASSUME InitLookup PROVE IInv
  OBVIOUS
<1>1. listing \in Seq(Item) /\ Len(listing) <= MaxReleases
  <2>1. PICK n \in 0..MaxReleases : listing \in [1..n -> Item]
    BY DEF InitLookup
  <2>2. n \in Nat /\ listing \in Seq(Item)
    BY <2>1, SeqDef, ListingAssumption
  <2>3. Len(listing) = n
    <3>1. DOMAIN listing = 1..n
      BY <2>1
    <3>2. DOMAIN listing = 1..Len(listing) /\ Len(listing) \in Nat
      BY <2>2, LenProperties
    <3>. QED  BY <2>2, <3>1, <3>2
  <2>. QED  BY <2>2, <2>3, ListingAssumption
<1>2. LookupTypeOK
  <2>1. Len(listing) \in Nat
    BY <1>1, LenProperties
  <2>2. witness \in 0..Len(listing)
    BY <2>1 DEF InitLookup
  <2>3. lookup = "tag" /\ page \in 1..MaxPages /\ shrunk \in BOOLEAN
    <3>1. lookup = "tag" /\ page = 1 /\ shrunk = FALSE
      BY DEF InitLookup
    <3>2. 1 \in 1..MaxPages
      BY ListingAssumption
    <3>. QED  BY <3>1, <3>2
  <2>. QED  BY <1>1, <2>2, <2>3 DEF LookupTypeOK
<1>. QED
  BY <1>2 DEF InitLookup, IInv, Tagged, AbsentIsExhaustive

LEMMA NextIInv == IInv /\ [NextLookup]_lookupVars => IInv'
<1> SUFFICES ASSUME IInv, [NextLookup]_lookupVars PROVE IInv'
  OBVIOUS
<1>1. CASE LoadTag \/ LoadPermissions \/ RequestFails
  <2>1. UNCHANGED <<listing, page, witness, shrunk>> /\ Read' = Read
    BY <1>1 DEF LoadTag, LoadPermissions, RequestFails, Conclude, Read
  <2>2. lookup' \in {"exists", "permissions", "pages", "error"}
    BY <1>1 DEF LoadTag, LoadPermissions, RequestFails, Conclude
  <2>3. lookup' \in {"permissions", "pages"} => page = 1
    BY <1>1 DEF LoadTag, LoadPermissions, RequestFails, Conclude, IInv
  <2>4. page = 1 => Read = 0
    BY ListingAssumption DEF Read
  <2>. QED
    BY <2>1, <2>2, <2>3, <2>4 DEF IInv, LookupTypeOK, Outcomes, Tagged, AbsentIsExhaustive
<1>2. CASE LoadPage
  <2>1. ~(\E i \in OnPage : Tagged(i)) /\ witness # 0 /\ ~shrunk => witness > page * PageSize
    <3>1. \/ Read < witness /\ witness \in 1..Len(listing) /\ Tagged(witness)
          \/ witness = 0 \/ shrunk
      BY <1>2 DEF LoadPage, IInv, LookupTypeOK
    <3>2. OnPage = {i \in 1..Len(listing) : Read < i /\ i <= page * PageSize}
      BY DEF OnPage, Read
    <3>3. page * PageSize \in Int
      BY ReadNat, ListingAssumption DEF IInv
    <3>. QED  BY <3>1, <3>2, <3>3
  <2>2. CASE lookup' \in Outcomes
    <3>1. UNCHANGED <<listing, page, witness, shrunk>>
      BY <1>2, <2>2 DEF LoadPage, Conclude, Outcomes
    <3>2. lookup' = "absent" => ~(\E i \in OnPage : Tagged(i)) /\ ~FullPage
      BY <1>2, <2>2 DEF LoadPage, Conclude, Outcomes
    <3>3. AbsentIsExhaustive'
      <4> SUFFICES ASSUME lookup' = "absent", ~shrunk, witness # 0 PROVE FALSE
        BY <3>1 DEF AbsentIsExhaustive
      <4>1. witness > page * PageSize
        BY <2>1, <3>2
      <4>2. page * PageSize > Len(listing)
        BY <3>2, ReadNat, ListingAssumption DEF FullPage, IInv, LookupTypeOK
      <4>. QED  BY <4>1, <4>2, ReadNat, ListingAssumption DEF IInv, LookupTypeOK
    <3>. QED
      BY <2>2, <3>1, <3>3 DEF IInv, LookupTypeOK, Outcomes, Tagged, Read
  <2>3. CASE lookup' \notin Outcomes
    <3>1. /\ page' = page + 1 /\ page # MaxPages
          /\ UNCHANGED <<listing, lookup, witness, shrunk>>
          /\ ~(\E i \in OnPage : Tagged(i))
      BY <1>2, <2>3 DEF LoadPage, LastPage, Conclude, Outcomes
    <3>2. LookupTypeOK'
      BY <3>1, ListingAssumption DEF IInv, LookupTypeOK
    <3>3. Read' = page * PageSize
      BY <3>1, ListingAssumption DEF Read, IInv, LookupTypeOK
    <3>. QED
      BY <1>2, <2>1, <3>1, <3>2, <3>3 DEF LoadPage, IInv, Tagged, AbsentIsExhaustive
  <2>. QED  BY <2>2, <2>3
<1>3. CASE OtherCreates
  <2>1. PICK item \in Item : listing' = <<item>> \o listing
    BY <1>3 DEF OtherCreates
  <2>2. /\ listing' \in Seq(Item) /\ Len(listing') = Len(listing) + 1
        /\ \A j \in 1..Len(listing) : listing'[j + 1] = listing[j]
    BY <2>1 DEF IInv, LookupTypeOK
  <2>3. LookupTypeOK'
    BY <1>3, <2>2, ListingAssumption DEF OtherCreates, IInv, LookupTypeOK
  <2>4. Read' = Read
    BY <1>3 DEF OtherCreates, Read
  <2>. QED
    BY <1>3, <2>2, <2>3, <2>4, ReadNat
    DEF OtherCreates, IInv, LookupTypeOK, Tagged, Outcomes, AbsentIsExhaustive
<1>4. CASE OtherPublishes
  <2>1. PICK i \in 1..Len(listing) : listing' = [listing EXCEPT ![i].draft = FALSE]
    BY <1>4 DEF OtherPublishes
  <2>2. [listing[i] EXCEPT !.draft = FALSE] \in Item
    <3>1. listing[i] \in Item
      BY ElementOfSeq DEF IInv, LookupTypeOK
    <3>. QED  BY <3>1 DEF Item
  <2>3. /\ listing' \in Seq(Item) /\ Len(listing') = Len(listing)
    BY <2>1, <2>2, ExceptSeq DEF IInv, LookupTypeOK
  <2>4. \A j \in 1..Len(listing) : listing'[j].tagged = listing[j].tagged
    BY <2>1, <2>2, ExceptSeq DEF IInv, LookupTypeOK, Item
  <2>. QED
    BY <1>4, <2>3, <2>4 DEF OtherPublishes, IInv, LookupTypeOK, Tagged, Read, Outcomes, AbsentIsExhaustive
<1>5. CASE OtherRemoves
  <2>1. PICK i \in 1..Len(listing) :
          /\ listing' = [j \in 1..(Len(listing) - 1) |->
                             IF j < i THEN listing[j] ELSE listing[j + 1]]
          /\ witness' = IF i = witness THEN 0
                        ELSE IF i < witness THEN witness - 1 ELSE witness
    BY <1>5 DEF OtherRemoves
  <2>2. /\ listing' \in Seq(Item)
        /\ Len(listing') = Len(listing) - 1
        /\ \A j \in 1..Len(listing) : /\ j < i => listing'[j] = listing[j]
                                      /\ j > i => listing'[j - 1] = listing[j]
    <3>1. Len(listing) \in Nat /\ \A j \in 1..Len(listing) : listing[j] \in Item
      BY LenProperties, ElementOfSeq DEF IInv, LookupTypeOK
    <3>2. Len(listing) - 1 \in Nat
      BY <2>1, <3>1
    <3>3. listing' \in [1..(Len(listing) - 1) -> Item]
      BY <2>1, <3>1
    <3>4. listing' \in Seq(Item)
      BY <3>2, <3>3, SeqDef
    <3>5. Len(listing') = Len(listing) - 1
      BY <3>2, <3>3, <3>4, LenProperties
    <3>. QED  BY <2>1, <3>1, <3>4, <3>5
  <2>3. Len(listing) \in Nat /\ witness \in 0..Len(listing) /\ witness' \in 0..Len(listing')
    BY <2>1, <2>2, LenProperties DEF IInv, LookupTypeOK
  <2>4. lookup' = lookup /\ page' = page /\ shrunk' = TRUE /\ lookup \notin Outcomes
    BY <1>5 DEF OtherRemoves
  <2>5. LookupTypeOK'
    BY <2>2, <2>3, <2>4, ListingAssumption DEF IInv, LookupTypeOK
  <2>6. witness' # 0 => Tagged(witness)'
    BY <2>1, <2>2, <2>3 DEF IInv, Tagged
  <2>. QED
    BY <2>4, <2>5, <2>6 DEF IInv, Outcomes, AbsentIsExhaustive
<1>6. CASE UNCHANGED lookupVars
  BY <1>6 DEF lookupVars, IInv, LookupTypeOK, Tagged, Read, AbsentIsExhaustive
<1>. QED
  BY <1>1, <1>2, <1>3, <1>4, <1>5, <1>6 DEF NextLookup, LookupRequests

THEOREM Invariance == SpecLookup => []IInv
BY InitIInv, NextIInv, PTL DEF SpecLookup

\* Every variable keeps its type in every reachable state.
THEOREM TypeCorrect == SpecLookup => []LookupTypeOK
<1>1. IInv => LookupTypeOK
  BY DEF IInv
<1>. QED  BY Invariance, <1>1, PTL

\* load_release answers None for a tag that is held only if a release was
\* removed while it was reading: lines 108-121.
THEOREM ExhaustiveCorrect == SpecLookup => []AbsentIsExhaustive
<1>1. IInv => AbsentIsExhaustive
  BY DEF IInv
<1>. QED  BY Invariance, <1>1, PTL

-----------------------------------------------------------------------------
(* The end of the lookup.  What fairness adds to it stays with LookupEnds.  *)

\* The requests that may still be answered.
RequestsLeft ==
    CASE lookup = "tag"         -> MaxPages + 2
      [] lookup = "permissions" -> MaxPages + 1
      [] lookup = "pages"       -> MaxPages + 1 - page
      [] OTHER              -> 0

\* Every request brings the lookup nearer to its end, and however the listing
\* grows, nobody else puts it off.
RequestsCountDown ==
    [][/\ RequestsLeft' <= RequestsLeft
       /\ LookupRequests \/ RequestFails => RequestsLeft' < RequestsLeft]_lookupVars

\* load_release makes at most MaxPages + 2 requests, and as long as it has not
\* answered there is one to make: check_release_absent.py, lines 87-123.
THEOREM EndsInBoundedRequests ==
    SpecLookup => /\ RequestsCountDown
            /\ [](RequestsLeft \in Nat /\ (lookup \notin Outcomes => RequestsLeft > 0))
<1>1. IInv => RequestsLeft \in Nat /\ (lookup \notin Outcomes => RequestsLeft > 0)
  BY ListingAssumption DEF IInv, LookupTypeOK, RequestsLeft, Outcomes
<1>2. IInv /\ IInv' /\ [NextLookup]_lookupVars =>
        [/\ RequestsLeft' <= RequestsLeft
         /\ LookupRequests \/ RequestFails => RequestsLeft' < RequestsLeft]_lookupVars
  <2> SUFFICES ASSUME IInv, IInv', NextLookup
               PROVE  /\ RequestsLeft' <= RequestsLeft
                      /\ LookupRequests \/ RequestFails => RequestsLeft' < RequestsLeft
    OBVIOUS
  <2> USE ListingAssumption DEF IInv, LookupTypeOK, RequestsLeft, Outcomes
  <2>1. CASE LoadTag
    BY <2>1 DEF LoadTag, Conclude
  <2>2. CASE LoadPermissions
    BY <2>2 DEF LoadPermissions, Conclude
  <2>3. CASE LoadPage
    BY <2>3 DEF LoadPage, LastPage, Conclude
  <2>4. CASE RequestFails
    BY <2>4 DEF RequestFails, Conclude
  <2>5. CASE OtherCreates \/ OtherPublishes \/ OtherRemoves
    <3>1. lookup' = lookup /\ page' = page
      BY <2>5 DEF OtherCreates, OtherPublishes, OtherRemoves
    <3>2. RequestsLeft' = RequestsLeft /\ ~(LookupRequests \/ RequestFails)
      BY <2>5, <3>1 DEF LookupRequests, LoadTag, LoadPermissions, LoadPage, RequestFails, Conclude
    <3>. QED  BY <1>1, <3>2
  <2>. QED  BY <2>1, <2>2, <2>3, <2>4, <2>5 DEF NextLookup, LookupRequests
<1>. QED  BY <1>1, <1>2, Invariance, PTL DEF SpecLookup, RequestsCountDown
=============================================================================

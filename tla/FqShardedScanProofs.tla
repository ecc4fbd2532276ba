------------------------ MODULE FqShardedScanProofs ------------------------
(***************************************************************************)
(* Theorems about FqShardedScan for any number of shards, any key space    *)
(* and any keys in it.                                                     *)
(***************************************************************************)
EXTENDS FqShardedScan, FiniteSetTheorems, TLAPS

(* Where the caller's cursor points.                                       *)
Shard(c) == ParseShardCursor(c)[1]
Place(c) == ParseShardCursor(c)[2]

(* A cursor the client hands out points between two places of a shard.     *)
LEMMA CursorPoints ==
    ASSUME NEW c \in Cursor
    PROVE  Shard(c) \in 0 .. Shards - 1 /\ Place(c) \in 0 .. Last - 1
<1>1. CASE c = Initial
  BY <1>1, ScanAssumption DEF Shard, Place, ParseShardCursor
<1>2. CASE c # Initial
  BY <1>2 DEF Shard, Place, ParseShardCursor, Cursor
<1> QED
  BY <1>1, <1>2

(* It comes back as it was made.                                           *)
LEMMA CursorReturns ==
    ASSUME NEW i \in 0 .. Shards, NEW p \in 0 .. Last - 1
    PROVE  /\ MakeShardCursor(i, p) \in Cursor
           /\ i < Shards => /\ MakeShardCursor(i, p) # Initial
                            /\ Shard(MakeShardCursor(i, p)) = i
                            /\ Place(MakeShardCursor(i, p)) = p
           /\ i = Shards => MakeShardCursor(i, p) = Initial
<1>1. CASE i = Shards
  BY <1>1, ScanAssumption DEF MakeShardCursor, Cursor
<1>2. CASE i # Shards
  <2>1. i \in 0 .. Shards - 1 /\ i < Shards /\ MakeShardCursor(i, p) = <<i, p>>
    BY <1>2, ScanAssumption DEF MakeShardCursor
  <2>2. <<i, p>> \in (0 .. Shards - 1) \X (0 .. Last - 1) /\ p \in 0 .. Last
    BY <2>1, ScanAssumption
  <2>3. <<i, p>> # Initial
    BY <2>1, <2>2, ScanAssumption
  <2> QED
    BY <1>2, <2>1, <2>2, <2>3 DEF Cursor, Shard, Place, ParseShardCursor
<1> QED
  BY <1>1, <1>2

(* Every place has a shard and a position in it.                           *)
LEMMA PlaceParts ==
    ASSUME NEW k \in Places
    PROVE  k[1] \in 0 .. Shards - 1 /\ k[2] \in 1 .. Last
BY DEF Places

(* The places up to q of shard i are those up to p and the span between;   *)
(* those up to the last one of a shard are those before the next.          *)
LEMMA Walked ==
    ASSUME NEW i \in Nat, NEW p \in Nat, NEW q \in Nat, p <= q
    PROVE  /\ Before(i, q) = Before(i, p) \cup Span(i, p, q)
           /\ Before(i, p) \cap Span(i, p, q) = {}
BY PlaceParts DEF Before, Span

LEMMA NextShard ==
    ASSUME NEW i \in Nat
    PROVE  Before(i, Last) = Before(i + 1, 0)
BY PlaceParts, ScanAssumption DEF Before

(* A walk begins with nothing and ends with everything.                    *)
LEMMA WalkBounds ==
    /\ Before(0, 0) = {}
    /\ \A p \in Nat : Before(Shards, p) = Places
    /\ \A i \in 0 .. Shards - 1, p \in 0 .. Last - 1 : Before(i, p) # Places
<1>1. Before(0, 0) = {} /\ \A p \in Nat : Before(Shards, p) = Places
  BY PlaceParts, ScanAssumption DEF Before
<1>2. ASSUME NEW i \in 0 .. Shards - 1, NEW p \in 0 .. Last - 1
      PROVE  Before(i, p) # Places
  <2>1. <<i, Last>> \in Places
    BY ScanAssumption DEF Places
  <2>2. ~(<<i, Last>>[1] < i) /\ ~(<<i, Last>>[2] <= p)
    BY ScanAssumption
  <2> QED
    BY <2>1, <2>2 DEF Before
<1> QED
  BY <1>1, <1>2

-----------------------------------------------------------------------------
(* What a page adds to a walk that stands in a shard.                      *)
LEMMA PageAdds ==
    ASSUME TypeOK, InLoop, NEW q \in 1 .. Last, NEW page, Answers(page, q)
    PROVE  /\ index \in 0 .. Shards - 1 /\ at \in 0 .. Last - 1
           /\ page \subseteq Places
           /\ Before(index, q) = Before(index, at) \cup Span(index, at, q)
           /\ Before(index, at) \cap Span(index, at, q) = {}
           /\ page \subseteq Span(index, at, q)
           /\ Stable \cap Span(index, at, q) \subseteq page
<1>1. index \in 0 .. Shards - 1 /\ at \in 0 .. Last - 1 /\ at < q
  BY ScanAssumption DEF TypeOK, InLoop, Answers
<1>2. index \in Nat /\ at \in Nat /\ q \in Nat /\ at <= q
  BY <1>1, ScanAssumption
<1>3. Span(index, at, q) \subseteq Places
  BY DEF Span
<1> QED
  BY <1>1, <1>2, <1>3, Walked DEF Answers

(* Every place of the product is finite, and so is a set of places.        *)
LEMMA PlacesFinite == IsFiniteSet(Places)
<1>1. IsFiniteSet(0 .. Shards - 1) /\ IsFiniteSet(1 .. Last)
  BY FS_Interval, ScanAssumption
<1> QED
  BY <1>1, FS_Product DEF Places

LEMMA Pages ==
    ASSUME NEW page \in SUBSET Places
    PROVE  IsFiniteSet(page) /\ Cardinality(page) \in Nat
BY PlacesFinite, FS_Subset, FS_CardinalityType

(* Every step keeps the types.                                             *)
LEMMA NextType ==
    ASSUME TypeOK, [Next]_vars
    PROVE  TypeOK'
<1>1. CASE Scan
  <2>1. Shard(cursor) \in 0 .. Shards /\ Place(cursor) \in 0 .. Last - 1
    BY CursorPoints, ScanAssumption DEF TypeOK
  <2> QED
    BY <1>1, <2>1, ScanAssumption DEF Scan, caller, TypeOK, Shard, Place
<1>2. CASE PageInside
  <2>1. PICK q \in 1 .. Last - 1, page \in SUBSET Places :
          /\ Answers(page, q)
          /\ keys' = keys \cup page /\ taken' = taken + Cardinality(page)
          /\ HandOver(MakeShardCursor(index, q), keys')
    BY <1>2 DEF PageInside
  <2>2. MakeShardCursor(index, q) \in Cursor
    BY CursorReturns, ScanAssumption DEF TypeOK
  <2>3. keys' \subseteq Places /\ taken' \in Nat
    BY <2>1, Pages DEF TypeOK
  <2>4. cursor' \in Cursor /\ over' \in BOOLEAN /\ walking' = FALSE
    BY <2>1, <2>2 DEF HandOver
  <2>5. got' \subseteq Places /\ twice' \subseteq Places
    BY <2>1, <2>3 DEF HandOver, TypeOK
  <2> QED
    BY <1>2, <2>3, <2>4, <2>5 DEF PageInside, TypeOK
<1>3. CASE PageEnds
  <2>1. PICK page \in SUBSET Places :
          keys' = keys \cup page /\ taken' = taken + Cardinality(page)
    BY <1>3 DEF PageEnds
  <2>2. keys' \subseteq Places /\ taken' \in Nat
    BY <2>1, Pages DEF TypeOK
  <2>3. index' \in 0 .. Shards /\ at' \in 0 .. Last - 1
    BY <1>3, ScanAssumption DEF PageEnds, InLoop, TypeOK
  <2> QED
    BY <1>3, <2>2, <2>3 DEF PageEnds, caller, TypeOK
<1>4. CASE PageFails
  <2>1. failures' \in 0 .. MaxFailures
    BY <1>4, ScanAssumption DEF PageFails, TypeOK
  <2>2. walking' = FALSE /\ UNCHANGED <<cursor, over, got, twice, count, index, at, keys, taken>>
    BY <1>4 DEF PageFails, caller, walk
  <2> QED
    BY <2>1, <2>2 DEF TypeOK
<1>5. CASE WalkEnds
  <2>1. MakeShardCursor(index, 0) \in Cursor
    BY CursorReturns, ScanAssumption DEF TypeOK
  <2>2. cursor' \in Cursor /\ over' \in BOOLEAN
    BY <1>5, <2>1 DEF WalkEnds, HandOver
  <2>3. got' \subseteq Places /\ twice' \subseteq Places
    BY <1>5 DEF WalkEnds, HandOver, TypeOK
  <2>4. walking' = FALSE /\ UNCHANGED <<count, index, at, keys, taken, failures>>
    BY <1>5 DEF WalkEnds, HandOver, walk
  <2> QED
    BY <2>2, <2>3, <2>4 DEF TypeOK
<1>6. CASE Through \/ UNCHANGED vars
  BY <1>6 DEF Through, vars, caller, walk, TypeOK
<1> QED
  BY <1>1, <1>2, <1>3, <1>4, <1>5, <1>6 DEF Next, Walk

(* Types hold in every state the scan can reach.                           *)
THEOREM TypeCorrect == Spec => []TypeOK
<1>1. Init => TypeOK
  <2>1. 0 \in 0 .. Shards /\ 0 \in 0 .. Last - 1 /\ 0 \in 0 .. MaxFailures
    BY ScanAssumption
  <2>2. Initial \in Cursor
    BY DEF Cursor
  <2>3. 0 \in Nat
    OBVIOUS
  <2> HIDE DEF Cursor
  <2> QED
    BY <2>1, <2>2, <2>3 DEF Init, TypeOK
<1>2. TypeOK /\ [Next]_vars => TypeOK'
  BY NextType
<1> QED
  BY <1>1, <1>2, PTL DEF Spec
-----------------------------------------------------------------------------
(* What is covered after the caller was given the cursor of shard i, p.    *)
LEMMA CoveredBy ==
    ASSUME NEW i \in 0 .. Shards, NEW p \in 0 .. Last - 1, NEW ks,
           HandOver(MakeShardCursor(i, p), ks)
    PROVE  Covered' = Before(i, p) /\ (over' <=> Before(i, p) = Places)
<1>1. CASE i = Shards
  <2>1. over'
    BY <1>1, CursorReturns DEF HandOver
  <2>2. Before(i, p) = Places
    BY <1>1, WalkBounds, ScanAssumption
  <2> QED
    BY <2>1, <2>2 DEF Covered
<1>2. CASE i # Shards
  <2>1. i \in 0 .. Shards - 1 /\ i < Shards
    BY <1>2, ScanAssumption
  <2>2. ~over' /\ Shard(cursor') = i /\ Place(cursor') = p
    BY <2>1, CursorReturns DEF HandOver
  <2>3. Before(i, p) # Places
    BY <2>1, WalkBounds
  <2>4. Covered' = Before(Shard(cursor'), Place(cursor'))
    BY <2>2 DEF Covered, Shard, Place, ParseShardCursor, Before, Places
  <2> QED
    BY <2>2, <2>3, <2>4
<1> QED
  BY <1>1, <1>2

(* What a call does to the walk, said once for the invariants below: where *)
(* it starts, where a page leaves it and where it hands over.              *)
LEMMA ScanStarts ==
    ASSUME TypeOK, Scan
    PROVE  /\ Before(index', at') = Covered /\ Covered' = Covered
           /\ keys' = {} /\ taken' = 0 /\ walking' /\ ~walking /\ ~over /\ ~over'
           /\ UNCHANGED <<got, twice>> /\ count' \in Counts
BY DEF Scan, Covered, caller, Before

LEMMA PageInsideStep ==
    ASSUME TypeOK, PageInside
    PROVE  \E span, page :
              /\ Before(index, at) \cap span = {}
              /\ page \subseteq span /\ Stable \cap span \subseteq page
              /\ Cardinality(page) <= Remaining /\ page \subseteq Places
              /\ keys' = keys \cup page /\ taken' = taken + Cardinality(page)
              /\ Covered' = Before(index, at) \cup span
              /\ over' <=> Covered' = Places
              /\ got' = got \cup keys' /\ twice' = twice \cup (got \cap keys')
              /\ walking /\ ~walking' /\ UNCHANGED count
<1>1. PICK q \in 1 .. Last - 1, page \in SUBSET Places :
        /\ Answers(page, q)
        /\ keys' = keys \cup page /\ taken' = taken + Cardinality(page)
        /\ HandOver(MakeShardCursor(index, q), keys')
  BY DEF PageInside
<1>2. InLoop /\ walking /\ UNCHANGED count
  BY DEF PageInside, InLoop
<1>3. q \in 1 .. Last /\ q \in 0 .. Last - 1 /\ index \in 0 .. Shards
  BY ScanAssumption DEF TypeOK
<1>4. /\ Before(index, q) = Before(index, at) \cup Span(index, at, q)
      /\ Before(index, at) \cap Span(index, at, q) = {}
      /\ page \subseteq Span(index, at, q)
      /\ Stable \cap Span(index, at, q) \subseteq page
  BY <1>1, <1>2, <1>3, PageAdds
<1>5. Covered' = Before(index, q) /\ (over' <=> Before(index, q) = Places)
  BY <1>1, <1>3, CoveredBy
<1>6. got' = got \cup keys' /\ twice' = twice \cup (got \cap keys') /\ ~walking'
  BY <1>1 DEF HandOver
<1>7. Cardinality(page) <= Remaining
  BY <1>1 DEF Answers
<1> QED
  BY <1>1, <1>2, <1>4, <1>5, <1>6, <1>7

LEMMA PageEndsStep ==
    ASSUME TypeOK, PageEnds
    PROVE  \E span, page :
              /\ Before(index, at) \cap span = {}
              /\ page \subseteq span /\ Stable \cap span \subseteq page
              /\ Cardinality(page) <= Remaining /\ page \subseteq Places
              /\ keys' = keys \cup page /\ taken' = taken + Cardinality(page)
              /\ Before(index', at') = Before(index, at) \cup span
              /\ at' = 0 /\ walking /\ Covered' = Covered
              /\ UNCHANGED <<caller, walking, count>>
<1>1. PICK page \in SUBSET Places :
        /\ Answers(page, Last)
        /\ keys' = keys \cup page /\ taken' = taken + Cardinality(page)
  BY DEF PageEnds
<1>2. /\ InLoop /\ walking /\ index' = index + 1 /\ at' = 0
      /\ UNCHANGED <<caller, walking, count>>
  BY DEF PageEnds, InLoop
<1>3. /\ Last \in 1 .. Last
      /\ index \in Nat
  BY ScanAssumption DEF TypeOK
<1>4. /\ Before(index, Last) = Before(index, at) \cup Span(index, at, Last)
      /\ Before(index, at) \cap Span(index, at, Last) = {}
      /\ page \subseteq Span(index, at, Last)
      /\ Stable \cap Span(index, at, Last) \subseteq page
  BY <1>1, <1>2, <1>3, PageAdds
<1>5. Before(index', at') = Before(index, Last)
  BY <1>2, <1>3, NextShard DEF Before, Places
<1>6. Covered' = Covered
  BY <1>2 DEF Covered, caller, Before, Places, ParseShardCursor
<1>7. Cardinality(page) <= Remaining
  BY <1>1 DEF Answers
<1> QED
  BY <1>1, <1>2, <1>4, <1>5, <1>6, <1>7

LEMMA WalkEndsStep ==
    ASSUME TypeOK, WalkEnds
    PROVE  /\ Covered' = Before(index, 0) /\ (over' <=> Covered' = Places)
           /\ Before(index, 0) \subseteq Before(index, at)
           /\ index = Shards => Before(index, 0) = Before(index, at)
           /\ index = Shards \/ taken >= count
           /\ got' = got \cup keys /\ twice' = twice \cup (got \cap keys)
           /\ walking /\ ~walking' /\ UNCHANGED walk
<1>1. HandOver(MakeShardCursor(index, 0), keys) /\ walking /\ ~InLoop /\ UNCHANGED walk
  BY DEF WalkEnds
<1>2. index \in 0 .. Shards /\ 0 \in 0 .. Last - 1 /\ 0 \in Nat /\ at \in Nat
  BY ScanAssumption DEF TypeOK
<1>3. Covered' = Before(index, 0) /\ (over' <=> Before(index, 0) = Places)
  BY <1>1, <1>2, CoveredBy
<1>4. Before(index, 0) \subseteq Before(index, at)
  BY <1>2, PlaceParts DEF Before
<1>5. index = Shards => Before(index, 0) = Before(index, at)
  BY <1>2, WalkBounds
<1>6. index = Shards \/ taken >= count
  <2>1. ~(index < Shards /\ taken < count)
    BY <1>1 DEF InLoop
  <2>2. taken \in Nat /\ count \in Nat
    BY DEF TypeOK
  <2> QED
    BY <1>2, <2>1, <2>2, ScanAssumption
<1> QED
  BY <1>1, <1>3, <1>4, <1>5, <1>6 DEF HandOver
(* The remaining steps leave the caller and what he covered alone.         *)
LEMMA OtherSteps ==
    ASSUME PageFails \/ Through \/ UNCHANGED vars
    PROVE  /\ UNCHANGED <<got, twice, over, count, index, at, keys, taken>>
           /\ Covered' = Covered
           /\ walking' => UNCHANGED walking
           /\ Before(index', at') = Before(index, at)
<1>1. /\ UNCHANGED <<cursor, got, twice, over, count, index, at, keys, taken>>
      /\ walking' => UNCHANGED walking
  BY DEF PageFails, Through, vars, caller, walk
<1> QED
  BY <1>1 DEF Covered, Before, Places, ParseShardCursor

(* At the start nothing is covered and the end is ahead.                   *)
LEMMA NothingCovered == Init => Covered = {}
BY WalkBounds DEF Init, Covered, ParseShardCursor

-----------------------------------------------------------------------------
(* NothingMissing is inductive.                                            *)
LEMMA MissingStep ==
    ASSUME TypeOK, NothingMissing, [Next]_vars
    PROVE  NothingMissing'
<1>1. CASE Scan
  BY <1>1, ScanStarts DEF NothingMissing
<1>2. CASE PageInside
  <2>1. PICK span, page :
           /\ Stable \cap span \subseteq page /\ keys' = keys \cup page
           /\ Covered' = Before(index, at) \cup span
           /\ got' = got \cup keys' /\ walking /\ ~walking'
    BY <1>2, PageInsideStep
  <2> QED
    BY <2>1 DEF NothingMissing
<1>3. CASE PageEnds
  <2>1. PICK span, page :
           /\ Stable \cap span \subseteq page /\ keys' = keys \cup page
           /\ Before(index', at') = Before(index, at) \cup span
           /\ Covered' = Covered /\ got' = got /\ walking
    BY <1>3, PageEndsStep DEF caller
  <2> QED
    BY <2>1 DEF NothingMissing
<1>4. CASE WalkEnds
  BY <1>4, WalkEndsStep DEF NothingMissing
<1>5. CASE PageFails \/ Through \/ UNCHANGED vars
  BY <1>5, OtherSteps DEF NothingMissing
<1> QED
  BY <1>1, <1>2, <1>3, <1>4, <1>5 DEF Next, Walk

LEMMA MissingInvariant == Spec => []NothingMissing
<1>1. Init => NothingMissing
  BY NothingCovered DEF Init, NothingMissing
<1>2. TypeOK /\ NothingMissing /\ [Next]_vars => NothingMissing'
  BY MissingStep
<1> QED
  BY <1>1, <1>2, TypeCorrect, PTL DEF Spec

(* A scan walked to its end has returned every key that was there the      *)
(* whole time, with any counts and any failures: no page is dropped        *)
(* between shards, and a failed call is made up for by the next.           *)
THEOREM ScanComplete == Spec => []Complete
<1>1. NothingMissing => Complete
  <2>1. over => Covered = Places
    BY DEF Covered
  <2>2. NothingMissing => Stable \cap Covered \subseteq got
    BY DEF NothingMissing
  <2>3. Stable \subseteq Places
    BY ScanAssumption
  <2>4. ASSUME NothingMissing, over
        PROVE  Stable \subseteq got
    BY <2>1, <2>2, <2>3, <2>4
  <2> QED
    BY <2>4 DEF Complete
<1> QED
  BY <1>1, MissingInvariant, PTL

-----------------------------------------------------------------------------
(* Counted is inductive.                                                   *)
LEMMA CountedStep ==
    ASSUME TypeOK, Counted, [Next]_vars
    PROVE  Counted'
<1>1. CASE Scan
  <2>1. keys' = {} /\ taken' = 0 /\ count' \in Counts
    BY <1>1, ScanStarts
  <2>2. IsFiniteSet(keys') /\ Cardinality(keys') = 0
    BY <2>1, FS_EmptySet
  <2>3. count' \in Nat
    BY <2>1, ScanAssumption
  <2> QED
    BY <2>1, <2>2, <2>3 DEF Counted
<1>2. CASE PageInside \/ PageEnds
  <2>1. PICK page \in SUBSET Places :
           /\ Cardinality(page) <= Remaining /\ keys' = keys \cup page
           /\ taken' = taken + Cardinality(page) /\ UNCHANGED count
    BY <1>2, PageInsideStep, PageEndsStep
  <2>2. IsFiniteSet(page) /\ Cardinality(page) \in Nat
    BY Pages
  <2>3. /\ IsFiniteSet(keys') /\ Cardinality(keys') \in Nat
        /\ Cardinality(keys) \in Nat
        /\ Cardinality(keys') <= Cardinality(keys) + Cardinality(page)
    <3>1. IsFiniteSet(keys)
      BY DEF Counted
    <3>2. /\ IsFiniteSet(keys \cup page)
          /\ Cardinality(keys \cup page)
                = Cardinality(keys) + Cardinality(page) - Cardinality(keys \cap page)
      BY <2>2, <3>1, FS_Union
    <3>3. Cardinality(keys \cap page) \in Nat
      BY <3>1, FS_Intersection, FS_CardinalityType
    <3>4. Cardinality(keys \cup page) \in Nat /\ Cardinality(keys) \in Nat
      BY <3>1, <3>2, FS_CardinalityType
    <3> QED
      BY <2>1, <2>2, <3>2, <3>3, <3>4
  <2> QED
    BY <2>1, <2>2, <2>3 DEF Counted, Remaining, TypeOK
<1>3. CASE WalkEnds
  BY <1>3, WalkEndsStep DEF Counted, walk
<1>4. CASE PageFails \/ Through \/ UNCHANGED vars
  BY <1>4, OtherSteps DEF Counted
<1> QED
  BY <1>1, <1>2, <1>3, <1>4 DEF Next, Walk

LEMMA CountedInvariant == Spec => []Counted
<1>1. Init => Counted
  BY FS_EmptySet DEF Init, Counted
<1>2. TypeOK /\ Counted /\ [Next]_vars => Counted'
  BY CountedStep
<1> QED
  BY <1>1, <1>2, TypeCorrect, PTL DEF Spec

(* No call returns more keys than it was asked for, however many shards    *)
(* it takes them from.                                                     *)
THEOREM CountIsKept == Spec => []CountKept
<1>1. Counted => CountKept
  BY DEF Counted, CountKept
<1> QED
  BY <1>1, CountedInvariant, PTL

-----------------------------------------------------------------------------
(* NothingAgain is inductive, if every call asks for something: a call     *)
(* that asks for nothing hands back the start of its shard.                *)
LEMMA AgainStep ==
    ASSUME TypeOK, NothingAgain, [Next]_vars, 0 \notin Counts
    PROVE  NothingAgain'
<1>1. CASE Scan
  <2>1. count' \in Counts
    BY <1>1, ScanStarts
  <2> QED
    BY <1>1, <2>1, ScanStarts DEF NothingAgain
<1>2. CASE PageInside
  <2>1. PICK span, page :
           /\ Before(index, at) \cap span = {} /\ page \subseteq span
           /\ keys' = keys \cup page /\ Covered' = Before(index, at) \cup span
           /\ got' = got \cup keys' /\ twice' = twice \cup (got \cap keys')
           /\ walking /\ ~walking'
    BY <1>2, PageInsideStep
  <2>2. /\ twice = {} /\ got \subseteq Covered /\ Covered \subseteq Before(index, at)
        /\ keys \subseteq Before(index, at) \ Covered
    BY <2>1 DEF NothingAgain
  <2>3. twice' = {} /\ got' \subseteq Covered'
    BY <2>1, <2>2
  <2> QED
    BY <2>1, <2>3 DEF NothingAgain
<1>3. CASE PageEnds
  <2>1. PICK span, page :
           /\ Before(index, at) \cap span = {} /\ page \subseteq span
           /\ keys' = keys \cup page /\ Before(index', at') = Before(index, at) \cup span
           /\ at' = 0 /\ walking /\ Covered' = Covered
           /\ UNCHANGED <<caller, walking, count>>
    BY <1>3, PageEndsStep
  <2>2. UNCHANGED <<got, twice, over>>
    BY <2>1 DEF caller
  <2>3. /\ Covered' \subseteq Before(index', at')
        /\ keys' \subseteq Before(index', at') \ Covered'
    BY <2>1 DEF NothingAgain
  <2> QED
    BY <2>1, <2>2, <2>3 DEF NothingAgain
<1>4. CASE WalkEnds
  <2>1. /\ Covered \subseteq Before(index, at) /\ keys \subseteq Before(index, at) \ Covered
        /\ twice = {} /\ got \subseteq Covered /\ count # 0 /\ (taken # 0 => at = 0)
    BY <1>4, WalkEndsStep DEF NothingAgain
  <2>2. Before(index, 0) = Before(index, at)
    <3>1. CASE index = Shards
      BY <1>4, <3>1, WalkEndsStep
    <3>2. CASE taken >= count
      <4>1. taken # 0
        BY <2>1, <3>2 DEF TypeOK
      <4> QED
        BY <2>1, <4>1
    <3> QED
      BY <1>4, <3>1, <3>2, WalkEndsStep
  <2>3. twice' = {} /\ got' \subseteq Covered' /\ ~walking'
    BY <1>4, <2>1, <2>2, WalkEndsStep
  <2> QED
    BY <2>3 DEF NothingAgain
<1>5. CASE PageFails \/ Through \/ UNCHANGED vars
  BY <1>5, OtherSteps DEF NothingAgain
<1> QED
  BY <1>1, <1>2, <1>3, <1>4, <1>5 DEF Next, Walk

LEMMA AgainInvariant ==
    ASSUME 0 \notin Counts
    PROVE  Spec => []NothingAgain
<1>1. Init => NothingAgain
  BY DEF Init, NothingAgain
<1>2. TypeOK /\ NothingAgain /\ [Next]_vars => NothingAgain'
  BY AgainStep
<1> QED
  BY <1>1, <1>2, TypeCorrect, PTL DEF Spec

(* No key is returned twice, not even after failed calls, to a caller who  *)
(* always asks for something.                                              *)
THEOREM NothingTwice ==
    ASSUME 0 \notin Counts
    PROVE  Spec => []NoRepeat
<1>1. NothingAgain => NoRepeat
  BY DEF NothingAgain, NoRepeat
<1> QED
  BY <1>1, AgainInvariant, PTL
-----------------------------------------------------------------------------
(* A call that returns to the caller is a call of the single server; all   *)
(* other steps are invisible to him.                                       *)
LEMMA ReturnIsCall ==
    ASSUME TypeOK, NothingMissing, NothingAgain, Counted, count \in Counts,
           ~over, keys' \subseteq Places, Covered \subseteq Covered',
           keys' \subseteq Covered' \ Covered,
           Stable \cap (Covered' \ Covered) \subseteq keys',
           Covered' \subseteq Places, Cardinality(keys') <= count,
           got' = got \cup keys', twice' = twice \cup (got \cap keys'),
           over' <=> Covered' = Places, over' \in BOOLEAN
    PROVE  Single!Call
<1>1. \E n \in Counts, next \in SUBSET (Places \ Covered) : \E page \in SUBSET next :
          /\ next \cap Stable \subseteq page
          /\ Cardinality(page) <= n
          /\ Covered' = Covered \cup next
          /\ got' = got \cup page
          /\ twice' = twice \cup (got \cap page)
  <2> DEFINE next == Covered' \ Covered
  <2>1. next \in SUBSET (Places \ Covered) /\ keys' \in SUBSET next
    OBVIOUS
  <2>2. next \cap Stable \subseteq keys' /\ Covered' = Covered \cup next
    OBVIOUS
  <2> HIDE DEF next
  <2> QED
    BY <2>1, <2>2
<1>2. over' \in BOOLEAN /\ (over' <=> Covered' = Places)
  OBVIOUS
<1>3. \A page : Single!Cardinality(page) = Cardinality(page)
  BY DEF Single!Cardinality, Cardinality
<1> QED
  BY <1>1, <1>2, <1>3 DEF Single!Call
LEMMA StepIsCall ==
    ASSUME TypeOK, TypeOK', NothingMissing, NothingAgain, Counted, Counted',
           [Next]_vars, 0 \notin Counts
    PROVE  [Single!Call]_(Single!vars)
<1>1. CASE Scan
  BY <1>1, ScanStarts DEF Single!vars, Scan, caller
<1>2. CASE PageInside
  <2>1. PICK span, page :
           /\ Before(index, at) \cap span = {} /\ page \subseteq span
           /\ Stable \cap span \subseteq page
           /\ keys' = keys \cup page /\ Covered' = Before(index, at) \cup span
           /\ over' <=> Covered' = Places
           /\ got' = got \cup keys' /\ twice' = twice \cup (got \cap keys')
           /\ walking /\ UNCHANGED count
    BY <1>2, PageInsideStep
  <2>2. /\ Covered \subseteq Before(index, at) /\ got \subseteq Covered
        /\ keys \subseteq Before(index, at) \ Covered
        /\ Stable \cap Before(index, at) \subseteq got \cup keys
        /\ ~over /\ count \in Counts
    BY <2>1 DEF NothingAgain, NothingMissing
  <2>3. /\ keys' \subseteq Places /\ Covered \subseteq Covered'
        /\ keys' \subseteq Covered' \ Covered
        /\ Stable \cap (Covered' \ Covered) \subseteq keys'
    <3>1. keys' \subseteq Places
      BY DEF TypeOK
    <3> QED
      BY <2>1, <2>2, <3>1
  <2>4. Covered' \subseteq Places
    BY DEF Covered, Before
  <2>5. Cardinality(keys') <= count
    <3>1. keys' \in SUBSET Places /\ taken' \in Nat /\ count \in Nat
      BY DEF TypeOK
    <3>2. Cardinality(keys') \in Nat
      BY <3>1, Pages
    <3>3. Cardinality(keys') <= taken' /\ taken' <= count
      BY <2>1 DEF Counted
    <3> QED
      BY <3>1, <3>2, <3>3
  <2>6. over' \in BOOLEAN
    BY DEF TypeOK
  <2>7. Single!Call
    BY <2>1, <2>2, <2>3, <2>4, <2>5, <2>6, ReturnIsCall
  <2> QED
    BY <2>7
<1>3. CASE PageEnds
  <2>1. Covered' = Covered /\ UNCHANGED <<got, twice, over>>
    BY <1>3, PageEndsStep DEF caller
  <2> QED
    BY <2>1 DEF Single!vars
<1>4. CASE WalkEnds
  <2>1. /\ Covered \subseteq Before(index, at) /\ keys \subseteq Before(index, at) \ Covered
        /\ got \subseteq Covered /\ ~over /\ count \in Counts /\ (taken # 0 => at = 0)
        /\ Stable \cap Before(index, at) \subseteq got \cup keys
    BY <1>4, WalkEndsStep DEF NothingAgain, NothingMissing
  <2>2. Before(index, 0) = Before(index, at)
    <3>1. CASE index = Shards
      BY <1>4, <3>1, WalkEndsStep
    <3>2. CASE taken >= count
      <4>1. taken # 0
        BY <2>1, <3>2 DEF TypeOK
      <4> QED
        BY <2>1, <4>1
    <3> QED
      BY <1>4, <3>1, <3>2, WalkEndsStep
  <2>3. /\ Covered' = Before(index, at) /\ (over' <=> Covered' = Places)
        /\ got' = got \cup keys' /\ twice' = twice \cup (got \cap keys')
        /\ UNCHANGED <<keys, taken, count>>
    BY <1>4, <2>2, WalkEndsStep DEF walk
  <2>4. /\ Covered' \subseteq Places /\ keys' \subseteq Places /\ over' \in BOOLEAN
    BY DEF Covered, Before, TypeOK
  <2>5. Cardinality(keys') <= count
    <3>1. keys' \in SUBSET Places /\ taken' \in Nat /\ count \in Nat
      BY DEF TypeOK
    <3>2. Cardinality(keys') \in Nat
      BY <3>1, Pages
    <3>3. Cardinality(keys') <= taken' /\ taken' <= count
      BY <2>3 DEF Counted
    <3> QED
      BY <3>1, <3>2, <3>3
  <2>6. /\ Covered \subseteq Covered' /\ keys' \subseteq Covered' \ Covered
        /\ Stable \cap (Covered' \ Covered) \subseteq keys'
    BY <2>1, <2>3
  <2>7. Single!Call
    BY <2>1, <2>3, <2>4, <2>5, <2>6, ReturnIsCall
  <2> QED
    BY <2>7
<1>5. CASE PageFails \/ Through \/ UNCHANGED vars
  BY <1>5, OtherSteps DEF Single!vars
<1> QED
  BY <1>1, <1>2, <1>3, <1>4, <1>5 DEF Next, Walk

(* To a caller who always asks for something, a sharded client's scan is   *)
(* the scan of one server that holds the keys of all shards.               *)
THEOREM ImplementsSingleScan ==
    ASSUME 0 \notin Counts
    PROVE  Spec => SingleScan
<1>1. Init => Single!Init
  BY NothingCovered DEF Init, Single!Init
<1>2. /\ TypeOK /\ TypeOK' /\ NothingMissing /\ NothingAgain /\ Counted /\ Counted'
      /\ [Next]_vars
      => [Single!Call]_(Single!vars)
  BY StepIsCall
<1> QED
  BY <1>1, <1>2, TypeCorrect, MissingInvariant, AgainInvariant, CountedInvariant, PTL
     DEF Spec, SingleScan, Single!Spec
=============================================================================

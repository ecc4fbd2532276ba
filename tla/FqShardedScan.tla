--------------------------- MODULE FqShardedScan ---------------------------
(***************************************************************************)
(* ShardedClient.scan and pscan: the walk over the shards, and the         *)
(* composite cursor a caller hands back to continue it.                    *)
(*                                                                         *)
(* A shard's own cursor is a place in its key space: the server answers    *)
(* with the keys between the cursor it is given and the one it returns.    *)
(* Keys may come and go while the scan goes on.                            *)
(***************************************************************************)
EXTENDS Naturals, FiniteSets

CONSTANTS
    Shards,         \* the number of shards
    Last,           \* the last place of a shard's key space
    Stable,         \* the places that hold a key during the whole scan
    Counts,         \* the counts the caller asks for
    MaxFailures,    \* bound: how many calls of a shard fail
    Initial         \* SCAN_CURSOR_INITIAL: the start and the end of a scan

Places == (0 .. Shards - 1) \X (1 .. Last)

ASSUME ScanAssumption ==
    /\ Shards \in Nat \ {0} /\ Last \in Nat \ {0}
    /\ Stable \subseteq Places
    /\ Counts \subseteq Nat
    /\ MaxFailures \in Nat
    /\ Initial \notin (0 .. Shards - 1) \X (0 .. Last)

VARIABLES
    cursor,     \* the cursor the caller holds
    over,       \* the caller got the cursor Initial back
    got,        \* the keys returned so far
    twice,      \* the keys returned more than once
    walking,    \* a call is under way, in the loop of _walk
    count,      \* its parameter
    index,      \* its shard
    at,         \* its shard_cursor; 0 is SCAN_CURSOR_INITIAL
    keys,       \* the keys it has collected
    taken,      \* len(keys)
    failures    \* calls of a shard that failed

caller == <<cursor, over, got, twice>>
walk == <<count, index, at, keys, taken>>
vars == <<caller, walking, walk, failures>>

Cursor == {Initial} \cup ((0 .. Shards - 1) \X (0 .. Last - 1))

TypeOK ==
    /\ cursor \in Cursor /\ over \in BOOLEAN
    /\ got \subseteq Places /\ twice \subseteq Places
    /\ walking \in BOOLEAN /\ count \in Nat
    /\ index \in 0 .. Shards /\ at \in 0 .. Last - 1
    /\ keys \subseteq Places /\ taken \in Nat
    /\ failures \in 0 .. MaxFailures

Init ==
    /\ cursor = Initial /\ over = FALSE /\ got = {} /\ twice = {}
    /\ walking = FALSE /\ count = 0 /\ index = 0 /\ at = 0
    /\ keys = {} /\ taken = 0 /\ failures = 0

-----------------------------------------------------------------------------
(* parse_shard_cursor, of a cursor this client has handed out.             *)
ParseShardCursor(c) == IF c = Initial THEN <<0, 0>> ELSE c

(* Mutant of MakeShardCursor: the walk ends one shard early.               *)
MakeShardCursorShort(i, p) == IF i + 1 >= Shards THEN Initial ELSE <<i, p>>

(* Mutant of MakeShardCursor: the walk has no end.                         *)
MakeShardCursorEndless(i, p) == <<i, p>>

MakeShardCursor(i, p) == IF i >= Shards THEN Initial ELSE <<i, p>>

(* Mutant of Remaining: every shard is asked for the whole count.          *)
RemainingForgotten == count

(* What the next shard is asked for.                                       *)
Remaining == count - taken

(* The places of shard i a page from cursor p to cursor q looks at.        *)
Span(i, p, q) == {k \in Places : k[1] = i /\ p < k[2] /\ k[2] <= q}

(* A shard asked for Remaining keys from `at' on answers with page and,    *)
(* unless it is through, with the cursor q.                                *)
Answers(page, q) ==
    /\ at < q
    /\ page \subseteq Span(index, at, q)
    /\ Span(index, at, q) \cap Stable \subseteq page
    /\ Cardinality(page) <= Remaining

(* The ScanResult that _walk returns.                                      *)
HandOver(c, ks) ==
    /\ cursor' = c /\ over' = (c = Initial)
    /\ got' = got \cup ks /\ twice' = twice \cup (got \cap ks)
    /\ walking' = FALSE

InLoop == walking /\ index < Shards /\ taken < count

-----------------------------------------------------------------------------
(* The caller asks for more.                                               *)
Scan ==
    /\ ~walking /\ ~over
    /\ count' \in Counts
    /\ index' = ParseShardCursor(cursor)[1]
    /\ at' = ParseShardCursor(cursor)[2]
    /\ keys' = {} /\ taken' = 0
    /\ walking' = TRUE
    /\ UNCHANGED <<caller, failures>>

(* The page ends inside its shard: so does the call.                       *)
PageInside ==
    /\ InLoop
    /\ \E q \in 1 .. Last - 1, page \in SUBSET Places :
          /\ Answers(page, q)
          /\ keys' = keys \cup page /\ taken' = taken + Cardinality(page)
          /\ HandOver(MakeShardCursor(index, q), keys')
    /\ UNCHANGED <<count, index, at, failures>>

(* Mutant of PageEnds: shard_cursor keeps its value.                       *)
PageEndsKeepingCursor ==
    /\ InLoop
    /\ \E page \in SUBSET Places :
          /\ Answers(page, Last)
          /\ keys' = keys \cup page /\ taken' = taken + Cardinality(page)
    /\ index' = index + 1
    /\ UNCHANGED <<caller, walking, count, at, failures>>

(* The shard is through: on to the next one.                               *)
PageEnds ==
    /\ InLoop
    /\ \E page \in SUBSET Places :
          /\ Answers(page, Last)
          /\ keys' = keys \cup page /\ taken' = taken + Cardinality(page)
    /\ index' = index + 1 /\ at' = 0
    /\ UNCHANGED <<caller, walking, count, failures>>

(* Mutant of PageFails: what was collected is returned nevertheless.       *)
PageFailsReturning ==
    /\ InLoop /\ failures < MaxFailures
    /\ failures' = failures + 1
    /\ HandOver(cursor, keys)
    /\ UNCHANGED walk

(* The call of a shard raises: the pages collected so far are lost, and    *)
(* the caller may ask again with the cursor he has.                        *)
PageFails ==
    /\ InLoop /\ failures < MaxFailures
    /\ failures' = failures + 1
    /\ walking' = FALSE
    /\ UNCHANGED <<caller, walk>>

(* Mutant of WalkEnds: the cursor the call began with is returned.         *)
WalkEndsWhereItBegan ==
    /\ walking /\ ~InLoop
    /\ HandOver(cursor, keys)
    /\ UNCHANGED <<walk, failures>>

(* The shards or the count are used up between two shards.                 *)
WalkEnds ==
    /\ walking /\ ~InLoop
    /\ HandOver(MakeShardCursor(index, 0), keys)
    /\ UNCHANGED <<walk, failures>>

(* The caller is through.                                                  *)
Through == over /\ UNCHANGED vars

Walk == PageInside \/ PageEnds \/ WalkEnds

Next == Scan \/ Walk \/ PageFails \/ Through

Spec == Init /\ [][Next]_vars

(* The caller goes on asking and the shards answer, MaxFailures apart.     *)
FairSpec == Spec /\ WF_vars(Scan) /\ WF_vars(Walk)

-----------------------------------------------------------------------------
(* A scan that was walked to its end has returned every key that was there *)
(* the whole time, however pages, shards, counts and failures fell.        *)
Complete == over => Stable \subseteq got

(* No key is returned twice.                                               *)
NoRepeat == twice = {}

(* A call never collects more keys than it was asked for.                  *)
CountKept == taken <= count

(* A caller who goes on asking comes to an end.                            *)
ScanEnds == <>over

-----------------------------------------------------------------------------
(* The places before shard i and, in shard i, up to p.                     *)
Before(i, p) == {k \in Places : k[1] < i \/ (k[1] = i /\ k[2] <= p)}

(* What the calls that have returned looked at.                            *)
Covered ==
    IF over THEN Places
    ELSE Before(ParseShardCursor(cursor)[1], ParseShardCursor(cursor)[2])

(* The sharded scan is a scan of one server that holds the keys of all     *)
(* shards: the caller cannot tell the difference.                          *)
Single == INSTANCE FqScan WITH covered <- Covered
SingleScan == Single!Spec

-----------------------------------------------------------------------------
(* Inductive invariants; FqShardedScanProofs proves them.                  *)

(* Of what was walked over nothing that was there is missing.              *)
NothingMissing ==
    /\ Stable \cap Covered \subseteq got
    /\ walking => Stable \cap Before(index, at) \subseteq got \cup keys

(* A call starts where the one before it ended, and collects only what     *)
(* lies beyond.  It stands inside a shard only before its first page.      *)
NothingAgain ==
    /\ twice = {} /\ got \subseteq Covered
    /\ walking => /\ count \in Counts /\ ~over
                  /\ Covered \subseteq Before(index, at)
                  /\ keys \subseteq Before(index, at) \ Covered
                  /\ taken # 0 => at = 0

(* What was collected is counted.                                          *)
Counted == IsFiniteSet(keys) /\ Cardinality(keys) <= taken /\ taken <= count
=============================================================================

--------------------------- MODULE FqStreamProofs ---------------------------
(***************************************************************************)
(* Theorems about FqStream for any number of shards, any clients, any      *)
(* number of events and of failures.                                       *)
(***************************************************************************)
EXTENDS FqStream, SequenceTheorems, FunctionTheorems, FiniteSetTheorems, TLAPS

-----------------------------------------------------------------------------
(* Sequences, place by place.                                              *)

(* What is known of any sequence.                                          *)
LEMMA Places ==
    ASSUME NEW S, NEW q \in Seq(S)
    PROVE  /\ Len(q) \in Nat /\ \A i \in 1 .. Len(q) : q[i] \in S
           /\ q # <<>> <=> Len(q) > 0
<1>1. /\ Len(q) \in Nat /\ \A i \in 1 .. Len(q) : q[i] \in S
  BY LenProperties, ElementOfSeq
<1>2. q = <<>> <=> Len(q) = 0
  BY EmptySeq
<1> QED
  BY <1>1, <1>2

(* Sequences of one element.                                               *)
LEMMA OneElement ==
    ASSUME NEW S, NEW x \in S
    PROVE  <<x>> \in Seq(S) /\ Len(<<x>>) = 1 /\ <<x>>[1] = x /\ <<x>> # <<>>
OBVIOUS

(* Cutting a sequence in two.                                              *)
LEMMA Halves ==
    ASSUME NEW S, NEW q \in Seq(S), NEW n \in 0 .. Len(q)
    PROVE  LET a == SubSeq(q, 1, n)
               b == SubSeq(q, n + 1, Len(q))
           IN  /\ a \in Seq(S) /\ Len(a) = n /\ \A i \in 1 .. n : a[i] = q[i]
               /\ b \in Seq(S) /\ Len(b) = Len(q) - n
               /\ \A i \in 1 .. Len(q) - n : b[i] = q[n + i]
<1> DEFINE a == SubSeq(q, 1, n)
           l == Len(q)
           b == SubSeq(q, n + 1, l)
<1>1. l \in Nat /\ n \in Nat /\ n <= l /\ \A i \in 1 .. l : q[i] \in S
  BY Places
<1> HIDE DEF l
<1>2. a \in Seq(S) /\ Len(a) = n /\ \A i \in 1 .. n : a[i] = q[i]
  <2>1. /\ a \in Seq(S) /\ Len(a) = IF 1 <= n THEN n - 1 + 1 ELSE 0
        /\ \A i \in 1 .. n - 1 + 1 : a[i] = q[1 + i - 1]
    BY <1>1, SubSeqProperties
  <2>2. n - 1 + 1 = n /\ \A i \in 1 .. n : 1 + i - 1 = i
    BY <1>1
  <2> QED
    BY <1>1, <2>1, <2>2
<1>3. b \in Seq(S) /\ Len(b) = l - n /\ \A i \in 1 .. l - n : b[i] = q[n + i]
  <2> DEFINE m == n + 1
  <2>1. m \in Int /\ l \in Int /\ (\A i \in m .. l : q[i] \in S) /\ m = n + 1
    BY <1>1
  <2> HIDE DEF m
  <2>2. /\ SubSeq(q, m, l) \in Seq(S)
        /\ Len(SubSeq(q, m, l)) = IF m <= l THEN l - m + 1 ELSE 0
        /\ \A i \in 1 .. l - m + 1 : SubSeq(q, m, l)[i] = q[m + i - 1]
    BY <2>1, SubSeqProperties
  <2>3. l - m + 1 = l - n /\ \A i \in 1 .. l - n : m + i - 1 = n + i
    BY <1>1, <2>1
  <2>4. Len(SubSeq(q, m, l)) = l - n
    BY <1>1, <2>1, <2>2
  <2>5. \A i \in 1 .. l - n : SubSeq(q, m, l)[i] = q[n + i]
    BY <2>2, <2>3
  <2> QED
    BY <2>2, <2>4, <2>5 DEF m
<1> HIDE DEF a, b
<1> QED
  BY <1>2, <1>3 DEF a, b, l

-----------------------------------------------------------------------------
(* The queue of _fan_out.                                                  *)

(* Moving a set of numbers up does not change its size.                    *)
LEMMA Shifted ==
    ASSUME NEW A \in SUBSET Nat, IsFiniteSet(A)
    PROVE  Cardinality({i + 1 : i \in A}) = Cardinality(A)
<1> DEFINE B == {i + 1 : i \in A}
           f == [i \in A |-> i + 1]
<1>1. f \in [A -> B] /\ \A b \in B : \E a \in A : f[a] = b
  OBVIOUS
<1>2. \A a, b \in A : f[a] = f[b] => a = b
  OBVIOUS
<1>3. f \in Bijection(A, B)
  <2> HIDE DEF f, B
  <2> QED
    BY <1>1, <1>2, Fun_IsBij
<1>4. ExistsBijection(A, B)
  BY <1>3 DEF ExistsBijection
<1> HIDE DEF B
<1>5. Cardinality(B) = Cardinality(A)
  BY <1>4, FS_Bijection
<1> QED
  BY <1>5 DEF B

(* The places and ranks of a shard's events are numbers.                   *)
LEMMA QueuedType ==
    ASSUME queue \in Seq(Entry), NEW s
    PROVE  /\ IsFiniteSet(Queued(s)) /\ Cardinality(Queued(s)) \in Nat
           /\ \A i \in Queued(s) : /\ i \in Nat /\ i \in 1 .. Len(queue)
                                   /\ Rank(s, i) \in 1 .. Cardinality(Queued(s))
<1>1. Len(queue) \in Nat
  BY Places
<1>2. IsFiniteSet(1 .. Len(queue))
  BY <1>1, FS_Interval
<1>3. IsFiniteSet(Queued(s)) /\ Cardinality(Queued(s)) \in Nat
  <2>1. Queued(s) \in SUBSET (1 .. Len(queue))
    BY DEF Queued
  <2>2. IsFiniteSet(Queued(s))
    BY <1>2, <2>1, FS_Subset
  <2> QED
    BY <2>2, FS_CardinalityType
<1>4. ASSUME NEW i \in Queued(s)
      PROVE  /\ i \in Nat /\ i \in 1 .. Len(queue)
             /\ Rank(s, i) \in 1 .. Cardinality(Queued(s))
  <2> DEFINE B == {j \in Queued(s) : j <= i}
  <2>1. i \in Nat /\ i \in 1 .. Len(queue)
    BY <1>1 DEF Queued
  <2>2. B \in SUBSET Queued(s) /\ i \in B
    BY <2>1
  <2> HIDE DEF B
  <2>3. /\ IsFiniteSet(B) /\ Cardinality(B) <= Cardinality(Queued(s))
        /\ Cardinality(B) \in Nat
    <3>1. IsFiniteSet(B) /\ Cardinality(B) <= Cardinality(Queued(s))
      BY <1>3, <2>2, FS_Subset
    <3> QED
      BY <3>1, FS_CardinalityType
  <2>4. Cardinality(B) # 0
    BY <2>2, <2>3, FS_EmptySet
  <2> QED
    BY <1>3, <2>1, <2>3, <2>4 DEF Rank, B
<1> QED
  BY <1>3, <1>4

(* The entry that is put comes last.                                       *)
LEMMA QueuePut ==
    ASSUME queue \in Seq(Entry), NEW x \in Entry, queue' = Append(queue, x), NEW s
    PROVE  LET k == Len(queue) + 1
               own == x.shard = s /\ x.error = "none"
           IN  /\ queue' \in Seq(Entry)
               /\ Queued(s)' = Queued(s) \cup (IF own THEN {k} ELSE {})
               /\ Cardinality(Queued(s)') = Cardinality(Queued(s)) + (IF own THEN 1 ELSE 0)
               /\ \A i \in Queued(s) : queue'[i] = queue[i] /\ Rank(s, i)' = Rank(s, i)
               /\ queue'[k] = x
               /\ \A i \in Queued(s)' : i = k => Rank(s, i)' = Cardinality(Queued(s)) + 1
<1> DEFINE k == Len(queue) + 1
           own == x.shard = s /\ x.error = "none"
<1>1. /\ queue' \in Seq(Entry) /\ Len(queue') = k /\ Len(queue) \in Nat
      /\ \A i \in 1 .. Len(queue) : queue'[i] = queue[i]
      /\ queue'[k] = x
  BY AppendProperties, Places
<1>2. Queued(s)' = Queued(s) \cup (IF own THEN {k} ELSE {})
  BY <1>1 DEF Queued
<1>3. /\ IsFiniteSet(Queued(s)) /\ Cardinality(Queued(s)) \in Nat
      /\ \A i \in Queued(s) : i \in Nat /\ i \in 1 .. Len(queue)
  BY QueuedType
<1>4. k \notin Queued(s)
  BY <1>1, <1>3
<1>5. Cardinality(Queued(s)') = Cardinality(Queued(s)) + (IF own THEN 1 ELSE 0)
  <2>1. CASE own
    <3>1. Queued(s)' = Queued(s) \cup {k}
      BY <1>2, <2>1
    <3> HIDE DEF k, own
    <3> QED
      BY <1>3, <1>4, <2>1, <3>1, FS_AddElement
  <2>2. CASE ~own
    <3>1. Queued(s)' = Queued(s)
      BY <1>2, <2>2
    <3> QED
      BY <1>3, <2>2, <3>1
  <2> QED
    BY <2>1, <2>2
<1>6. ASSUME NEW i \in Queued(s)
      PROVE  queue'[i] = queue[i] /\ Rank(s, i)' = Rank(s, i)
  <2>1. {j \in Queued(s)' : j <= i} = {j \in Queued(s) : j <= i}
    BY <1>1, <1>2, <1>3
  <2> QED
    BY <1>1, <1>3, <2>1 DEF Rank
<1>7. ASSUME NEW i \in Queued(s)', i = k
      PROVE  Rank(s, i)' = Cardinality(Queued(s)) + 1
  <2>1. {j \in Queued(s)' : j <= i} = Queued(s)'
    BY <1>1, <1>2, <1>3, <1>7
  <2>2. Rank(s, i)' = Cardinality(Queued(s)')
    BY <2>1 DEF Rank
  <2>3. own
    BY <1>2, <1>4, <1>7
  <2> QED
    BY <1>5, <2>2, <2>3
<1> HIDE DEF k, own
<1>8. /\ queue' \in Seq(Entry)
      /\ Queued(s)' = Queued(s) \cup (IF own THEN {k} ELSE {})
      /\ Cardinality(Queued(s)') = Cardinality(Queued(s)) + (IF own THEN 1 ELSE 0)
      /\ \A i \in Queued(s) : queue'[i] = queue[i] /\ Rank(s, i)' = Rank(s, i)
      /\ queue'[k] = x
      /\ \A i \in Queued(s)' : i = k => Rank(s, i)' = Cardinality(Queued(s)) + 1
  BY <1>1, <1>2, <1>5, <1>6, <1>7
<1> QED
  BY <1>8 DEF k, own

(* When the first entry is got, all others move up.                        *)
LEMMA QueueGet ==
    ASSUME queue \in Seq(Entry), queue # <<>>, queue' = Tail(queue), NEW s
    PROVE  LET own == IF 1 \in Queued(s) THEN 1 ELSE 0
           IN  /\ queue' \in Seq(Entry)
               /\ Cardinality(Queued(s)') = Cardinality(Queued(s)) - own
               /\ \A i \in Queued(s)' : /\ i + 1 \in Queued(s)
                                        /\ queue'[i] = queue[i + 1]
                                        /\ Rank(s, i)' = Rank(s, i + 1) - own
               /\ 1 \in Queued(s) => Rank(s, 1) = 1
<1> DEFINE own == IF 1 \in Queued(s) THEN 1 ELSE 0
<1>1. /\ queue' \in Seq(Entry) /\ Len(queue') = Len(queue) - 1 /\ Len(queue) \in Nat
      /\ Len(queue) > 0
      /\ \A i \in 1 .. Len(queue) - 1 : queue'[i] = queue[i + 1]
  BY HeadTailProperties, Places
<1>2. /\ IsFiniteSet(Queued(s)) /\ Cardinality(Queued(s)) \in Nat
      /\ \A i \in Queued(s) : i \in Nat /\ i \in 1 .. Len(queue)
  BY QueuedType
<1>3. \A i \in Nat : i \in Queued(s)' <=> i > 0 /\ i + 1 \in Queued(s)
  BY <1>1 DEF Queued
<1>n. Queued(s)' \in SUBSET Nat
  BY <1>1 DEF Queued
<1>4. ASSUME NEW n \in Nat
      PROVE  Cardinality({j \in Queued(s)' : j <= n})
               = Cardinality({j \in Queued(s) : j <= n + 1}) - own
  <2> DEFINE A == {j \in Queued(s)' : j <= n}
             B == {j \in Queued(s) : j <= n + 1}
  <2>1. {i + 1 : i \in A} = B \ {1}
    <3>1. \A i \in A : i + 1 \in B \ {1}
      BY <1>3, <1>n
    <3>2. \A j \in B \ {1} : j - 1 \in A /\ j - 1 \in Nat /\ (j - 1) + 1 = j
      BY <1>2, <1>3
    <3> HIDE DEF A, B
    <3> QED
      BY <3>1, <3>2
  <2>2. IsFiniteSet(B) /\ (1 \in B <=> 1 \in Queued(s))
    <3>1. B \in SUBSET Queued(s)
      OBVIOUS
    <3>2. IsFiniteSet(B)
      BY <1>2, <3>1, FS_Subset
    <3> QED
      BY <3>2
  <2>3. A \in SUBSET Nat /\ IsFiniteSet(A)
    <3>1. A \in SUBSET Nat /\ A \in SUBSET (0 .. n)
      BY <1>n
    <3>2. IsFiniteSet(0 .. n)
      BY FS_Interval
    <3> HIDE DEF A
    <3> QED
      BY <3>1, <3>2, FS_Subset
  <2> HIDE DEF A, B
  <2>4. Cardinality(B \ {1}) = Cardinality(B) - own
    <3>1. Cardinality(B) \in Nat
      BY <2>2, FS_CardinalityType
    <3>2. CASE 1 \in B
      BY <2>2, <3>1, <3>2, FS_RemoveElement
    <3>3. CASE 1 \notin B
      <4>1. B \ {1} = B /\ own = 0
        BY <2>2, <3>3
      <4>2. Cardinality(B \ {1}) = Cardinality(B)
        BY <4>1
      <4> QED
        BY <3>1, <4>1, <4>2
    <3> QED
      BY <3>2, <3>3
  <2>5. Cardinality(A) = Cardinality(B \ {1})
    BY <2>1, <2>3, Shifted
  <2> QED
    BY <2>4, <2>5 DEF A, B
<1>5. Cardinality(Queued(s)') = Cardinality(Queued(s)) - own
  <2> DEFINE n == Len(queue)
  <2>1. {j \in Queued(s)' : j <= n} = Queued(s)' /\ {j \in Queued(s) : j <= n + 1} = Queued(s)
    BY <1>1, <1>2, <1>3, <1>n
  <2> QED
    BY <1>1, <1>4, <2>1
<1>6. ASSUME NEW i \in Queued(s)'
      PROVE  /\ i + 1 \in Queued(s)
             /\ queue'[i] = queue[i + 1]
             /\ Rank(s, i)' = Rank(s, i + 1) - own
  <2>1. i \in Nat /\ i + 1 \in Queued(s)
    BY <1>3, <1>n
  <2>2. queue'[i] = queue[i + 1]
    BY <1>1, <1>2, <1>3, <2>1
  <2>3. Rank(s, i)' = Rank(s, i + 1) - own
    BY <1>4, <2>1 DEF Rank
  <2> QED
    BY <2>1, <2>2, <2>3
<1>7. 1 \in Queued(s) => Rank(s, 1) = 1
  <2> SUFFICES ASSUME 1 \in Queued(s) PROVE Rank(s, 1) = 1
    OBVIOUS
  <2>1. {j \in Queued(s) : j <= 1} = {1}
    BY <1>2
  <2> QED
    BY <2>1, FS_Singleton DEF Rank
<1> QED
  BY <1>1, <1>5, <1>6, <1>7

-----------------------------------------------------------------------------
(* Types.                                                                  *)

(* A connection whose inbox is replaced is still one.                      *)
LEMMA Inboxes ==
    ASSUME TypeOK, NEW s \in Shards
    PROVE  LET q == sock[s].inbox
           IN  /\ sock[s] \in Connection /\ q \in Seq(Frame)
               /\ q # <<>> => Tail(q) \in Seq(Frame) /\ Head(q) \in Frame
               /\ \A n \in 0 .. Len(q) : /\ SubSeq(q, 1, n) \in Seq(Frame)
                                         /\ SubSeq(q, n + 1, Len(q)) \in Seq(Frame)
               /\ \A e \in Frame : Append(q, e) \in Seq(Frame)
<1> DEFINE q == sock[s].inbox
<1>1. sock[s] \in Connection
  BY DEF TypeOK
<1>2. q \in Seq(Frame)
  BY <1>1 DEF Connection
<1> HIDE DEF q
<1>3. q # <<>> => Tail(q) \in Seq(Frame) /\ Head(q) \in Frame
  BY <1>2, HeadTailProperties
<1>4. ASSUME NEW n \in 0 .. Len(q)
      PROVE  SubSeq(q, 1, n) \in Seq(Frame) /\ SubSeq(q, n + 1, Len(q)) \in Seq(Frame)
  BY <1>2, Halves
<1>5. ASSUME NEW e \in Frame
      PROVE  Append(q, e) \in Seq(Frame)
  BY <1>2, AppendProperties
<1> QED
  BY <1>1, <1>2, <1>3, <1>4, <1>5 DEF q

(* A worker that ends with an error leaves a queue.                        *)
LEMMA RaiseType ==
    ASSUME TypeOK, NEW s \in Shards, NEW e \in Errors, Raise(s, e)
    PROVE  queue' \in Seq(Entry) /\ pc' \in [Shards -> PCs]
<1> DEFINE x == [shard |-> s, event |-> 0, error |-> e]
<1>1. x \in Entry /\ queue \in Seq(Entry)
  BY DEF TypeOK, Entry, Frame, Refusal
<1>2. queue' = Append(queue, x) /\ pc' = [pc EXCEPT ![s] = "done"]
  BY DEF Raise, Goto
<1> HIDE DEF x
<1>3. queue' \in Seq(Entry)
  BY <1>1, <1>2, AppendProperties
<1> QED
  BY <1>2, <1>3 DEF TypeOK, PCs

(* The bound on the events of all servers bounds those of each.            *)
LEMMA PublishType ==
    ASSUME TypeOK, NEW s \in Shards, ~AllPublished
    PROVE  published[s] + 1 \in Event
<1> DEFINE A == {p \in Shards \X Event : p[2] <= published[p[1]]}
           n == published[s]
           B == {s} \X (1 .. n)
<1>1. n \in 0 .. MaxEvents /\ MaxEvents \in Nat
  BY StreamAssumption DEF TypeOK
<1>2. B \in SUBSET A
  BY <1>1 DEF Event
<1>3. IsFiniteSet(A) /\ Cardinality(A) \in Nat /\ ~(Cardinality(A) >= MaxEvents)
  <2>1. IsFiniteSet(Event)
    BY <1>1, FS_Interval DEF Event
  <2>2. IsFiniteSet(Shards \X Event)
    BY <2>1, StreamAssumption, FS_Product
  <2>3. A \in SUBSET (Shards \X Event)
    OBVIOUS
  <2>4. ~(Cardinality(A) >= MaxEvents)
    BY DEF AllPublished
  <2> HIDE DEF A
  <2>5. IsFiniteSet(A)
    BY <2>2, <2>3, FS_Subset
  <2> QED
    BY <2>4, <2>5, FS_CardinalityType
<1> HIDE DEF n
<1>4. Cardinality(B) = n
  <2>1. IsFiniteSet({s}) /\ Cardinality({s}) = 1
    BY FS_Singleton
  <2>2. IsFiniteSet(1 .. n) /\ Cardinality(1 .. n) = n
    BY <1>1, FS_Interval
  <2>3. Cardinality(B) = Cardinality({s}) * Cardinality(1 .. n)
    BY <2>1, <2>2, FS_Product
  <2> HIDE DEF B
  <2> QED
    BY <1>1, <2>1, <2>2, <2>3
<1> HIDE DEF A, B
<1>5. Cardinality(B) <= Cardinality(A)
  BY <1>2, <1>3, FS_Subset
<1>6. n + 1 <= MaxEvents
  BY <1>1, <1>3, <1>4, <1>5
<1> QED
  BY <1>1, <1>6 DEF n, Event

(* The bounds are numbers.                                                 *)
LEMMA Bounds == MaxEvents \in Nat /\ MaxFailures \in Nat
BY StreamAssumption

(* A step of one worker leaves places, attempts and connections of all.     *)
LEMMA WorkerTypes ==
    ASSUME TypeOK, NEW s \in Shards
    PROVE  /\ \A x \in PCs : Goto(s, x) => pc' \in [Shards -> PCs]
           /\ attempt' = [attempt EXCEPT ![s] = @ + 1] => attempt' \in [Shards -> Nat]
           /\ \A x \in {"none", "up", "down"} :
                 sock' = [sock EXCEPT ![s] = Socket(x)] => sock' \in [Shards -> Connection]
           /\ Fails(s) => failures' \in 0 .. MaxFailures
           /\ \A n \in {0, losses[s] + 1} :
                 losses' = [losses EXCEPT ![s] = n] => losses' \in [Shards -> Nat]
           /\ \A b \in BOOLEAN :
                 clean' = [clean EXCEPT ![s] = b] => clean' \in [Shards -> BOOLEAN]
<1>1. ASSUME NEW x \in PCs, Goto(s, x)
      PROVE  pc' \in [Shards -> PCs]
  BY <1>1 DEF TypeOK, Goto
<1>2. ASSUME attempt' = [attempt EXCEPT ![s] = @ + 1]
      PROVE  attempt' \in [Shards -> Nat]
  <2>1. attempt \in [Shards -> Nat]
    BY DEF TypeOK
  <2> QED
    BY <1>2, <2>1
<1>3. ASSUME NEW x \in {"none", "up", "down"}, sock' = [sock EXCEPT ![s] = Socket(x)]
      PROVE  sock' \in [Shards -> Connection]
  <2>1. <<>> \in Seq(Frame)
    BY EmptySeq
  <2>2. Socket(x) \in Connection
    BY <2>1 DEF Socket, Connection
  <2> QED
    BY <1>3, <2>2 DEF TypeOK
<1>4. ASSUME Fails(s)
      PROVE  failures' \in 0 .. MaxFailures
  <2>1. failures \in 0 .. MaxFailures
    BY DEF TypeOK
  <2> QED
    BY <1>4, <2>1, Bounds DEF Fails
<1>5. ASSUME NEW n \in {0, losses[s] + 1}, losses' = [losses EXCEPT ![s] = n]
      PROVE  losses' \in [Shards -> Nat]
  <2>1. losses \in [Shards -> Nat]
    BY DEF TypeOK
  <2>2. n \in Nat
    BY <2>1
  <2> QED
    BY <1>5, <2>1, <2>2
<1>6. ASSUME NEW b \in BOOLEAN, clean' = [clean EXCEPT ![s] = b]
      PROVE  clean' \in [Shards -> BOOLEAN]
  <2>1. clean \in [Shards -> BOOLEAN]
    BY DEF TypeOK
  <2> QED
    BY <1>6, <2>1
<1> QED
  BY <1>1, <1>2, <1>3, <1>4, <1>5, <1>6

(* The event a worker is about to put.                                     *)
LEMMA LastRead ==
    ASSUME TypeOK, EventsKept, NEW s \in Shards, pc[s] = "put"
    PROVE  /\ read[s][Len(read[s])].event \in Event
           /\ queue \in Seq(Entry)
           /\ [shard |-> s, event |-> read[s][Len(read[s])].event, error |-> "none"] \in Entry
<1> DEFINE r == read[s]
<1>1. r \in Seq(Readings) /\ delivered[s] \in Seq(Event) /\ queue \in Seq(Entry)
  BY DEF TypeOK
<1>2. Len(r) > 0 /\ Len(r) \in Nat
  <2>1. Len(r) = Len(delivered[s]) + Cardinality(Queued(s)) + 1
    BY DEF EventsKept
  <2>2. Len(delivered[s]) \in Nat /\ Cardinality(Queued(s)) \in Nat
    BY <1>1, Places, QueuedType
  <2> QED
    BY <2>1, <2>2
<1> HIDE DEF r
<1>3. r[Len(r)] \in Readings
  BY <1>1, <1>2, Places
<1>4. r[Len(r)].event \in Event
  BY <1>3 DEF Readings
<1> QED
  BY <1>1, <1>4 DEF r, Entry, Frame

(* Types are kept.  An event that is put or got has one because the        *)
(* consumer gets what was read.                                            *)
LEMMA StepType == TypeOK /\ EventsKept /\ [Next]_vars => TypeOK'
<1> SUFFICES ASSUME TypeOK, EventsKept, [Next]_vars
             PROVE  TypeOK'
  OBVIOUS
<1>1. ASSUME NEW s \in Shards, Worker(s)
      PROVE  TypeOK'
  <2>k. sock[s] \in Connection /\ sock[s].inbox \in Seq(Frame)
    BY Inboxes
  <2>1. CASE Acquire(s)
    <3>1. pc' \in [Shards -> PCs]
      BY <2>1, WorkerTypes DEF Acquire, PCs
    <3>2. sock' \in [Shards -> Connection]
      <4>1. CASE sock' = [sock EXCEPT ![s] = Socket("up")]
        BY <4>1, WorkerTypes
      <4>2. CASE \E c \in Used : sock' = [sock EXCEPT ![s] = c]
        <5>1. sock \in [Shards -> Connection] /\ Used \subseteq Connection
          BY UsedAssumption DEF TypeOK
        <5> QED
          BY <4>2, <5>1
      <4> QED
        BY <2>1, <4>1, <4>2 DEF Acquire
    <3>3. clean' \in [Shards -> BOOLEAN] /\ failures' \in 0 .. MaxFailures
      <4>1. \E b \in BOOLEAN : clean' = [clean EXCEPT ![s] = b]
        BY <2>1 DEF Acquire
      <4>2. failures' = failures \/ Fails(s)
        BY <2>1 DEF Acquire
      <4>3. failures \in 0 .. MaxFailures
        BY DEF TypeOK
      <4> QED
        BY <4>1, <4>2, <4>3, WorkerTypes
    <3> QED
      BY <2>1, <3>1, <3>2, <3>3 DEF Acquire, TypeOK, Quietly, consumer
  <2>2. CASE AcquireFails(s)
    <3>1. Raise(s, "final")
      BY <2>2 DEF AcquireFails
    <3>2. queue' \in Seq(Entry) /\ pc' \in [Shards -> PCs]
      BY <3>1, RaiseType DEF Errors
    <3>3. failures' \in 0 .. MaxFailures
      BY <2>2, WorkerTypes DEF AcquireFails
    <3> QED
      BY <2>2, <3>1, <3>2, <3>3 DEF AcquireFails, TypeOK, history, Raise
  <2>3. CASE StopAtTop(s)
    <3>1. pc' \in [Shards -> PCs]
      BY <2>3, WorkerTypes DEF StopAtTop, PCs
    <3> QED
      BY <2>3, <3>1 DEF StopAtTop, TypeOK, history, Quietly, consumer
  <2>4. CASE RefuseOversized(s)
    <3>1. Raise(s, "final")
      BY <2>4 DEF RefuseOversized
    <3>2. queue' \in Seq(Entry) /\ pc' \in [Shards -> PCs]
      BY <3>1, RaiseType DEF Errors
    <3> QED
      BY <2>4, <3>1, <3>2 DEF RefuseOversized, TypeOK, history, Raise
  <2>5. CASE Subscribe(s)
    <3>1. pc' \in [Shards -> PCs]
      BY <2>5, WorkerTypes DEF Subscribe, PCs
    <3>2. sock' \in [Shards -> Connection]
      BY <2>5, <2>k DEF Subscribe, TypeOK, Connection
    <3>3. due' \in [Shards -> 0 .. MaxEvents + 1]
      <4>1. due \in [Shards -> 0 .. MaxEvents + 1] /\ published[s] \in 0 .. MaxEvents
        BY DEF TypeOK
      <4>2. due' = [due EXCEPT ![s] = published[s] + 1]
        BY <2>5 DEF Subscribe
      <4> QED
        BY <4>1, <4>2, Bounds
    <3> QED
      BY <2>5, <3>1, <3>2, <3>3 DEF Subscribe, TypeOK, history, Quietly, consumer
  <2>6. CASE SubscribeFails(s)
    <3>1. pc' \in [Shards -> PCs]
      BY <2>6, WorkerTypes DEF SubscribeFails, PCs
    <3>2. losses' \in [Shards -> Nat]
      BY <2>6, WorkerTypes DEF SubscribeFails
    <3> QED
      BY <2>6, <3>1, <3>2 DEF SubscribeFails, TypeOK, Quietly, consumer
  <2>7. CASE ReadEvent(s)
    <3> DEFINE h == Head(sock[s].inbox)
               x == [event |-> h, due |-> due[s], clean |-> clean[s]]
               S == Readings
    <3>1. pc' \in [Shards -> PCs]
      BY <2>7, WorkerTypes DEF ReadEvent, PCs
    <3>2. Tail(sock[s].inbox) \in Seq(Frame) /\ h \in Event
      BY <2>7, Inboxes DEF ReadEvent, Frame
    <3>3. sock' \in [Shards -> Connection]
      BY <2>7, <2>k, <3>2 DEF ReadEvent, TypeOK, Connection
    <3>4. x \in S /\ read[s] \in Seq(S)
      BY <3>2 DEF TypeOK, Readings
    <3>5. read' = [read EXCEPT ![s] = Append(@, x)] /\ due' = [due EXCEPT ![s] = h + 1]
      BY <2>7 DEF ReadEvent
    <3>6. due' \in [Shards -> 0 .. MaxEvents + 1]
      <4>1. due \in [Shards -> 0 .. MaxEvents + 1]
        BY DEF TypeOK
      <4>2. h + 1 \in 0 .. MaxEvents + 1
        BY <3>2, Bounds DEF Event
      <4> QED
        BY <3>5, <4>1, <4>2
    <3> HIDE DEF x
    <3>7. Append(read[s], x) \in Seq(S)
      BY <3>4, AppendProperties
    <3>8. read' \in [Shards -> Seq(S)]
      BY <3>5, <3>7 DEF TypeOK
    <3> QED
      BY <2>7, <3>1, <3>3, <3>6, <3>8 DEF ReadEvent, TypeOK, Quietly, consumer
  <2>8. CASE ReadRefusal(s)
    <3>1. Raise(s, "final")
      BY <2>8 DEF ReadRefusal
    <3>2. queue' \in Seq(Entry) /\ pc' \in [Shards -> PCs]
      BY <3>1, RaiseType DEF Errors
    <3>3. Tail(sock[s].inbox) \in Seq(Frame) /\ Head(sock[s].inbox) \in Frame
      BY <2>8, Inboxes DEF ReadRefusal
    <3>4. sock' \in [Shards -> Connection]
      BY <2>8, <2>k, <3>3 DEF ReadRefusal, TypeOK, Connection
    <3> QED
      BY <2>8, <3>1, <3>2, <3>3, <3>4 DEF ReadRefusal, TypeOK, history, Raise
  <2>9. CASE ReadLost(s)
    <3>1. pc' \in [Shards -> PCs]
      BY <2>9, WorkerTypes DEF ReadLost, PCs
    <3>2. losses' \in [Shards -> Nat]
      BY <2>9, WorkerTypes DEF ReadLost
    <3> QED
      BY <2>9, <3>1, <3>2 DEF ReadLost, TypeOK, Quietly, consumer
  <2>10. CASE ReadGarbage(s)
    <3>1. Raise(s, "final")
      BY <2>10 DEF ReadGarbage
    <3>2. queue' \in Seq(Entry) /\ pc' \in [Shards -> PCs]
      BY <3>1, RaiseType DEF Errors
    <3> QED
      BY <2>10, <3>1, <3>2 DEF ReadGarbage, TypeOK, history, Raise
  <2>11. CASE PollEnds(s)
    <3>1. pc' \in [Shards -> PCs]
      BY <2>11, WorkerTypes DEF PollEnds, PCs
    <3>2. due' \in [Shards -> 0 .. MaxEvents + 1]
      <4>1. due \in [Shards -> 0 .. MaxEvents + 1]
        BY DEF TypeOK
      <4>2. due' = due \/ due' = [due EXCEPT ![s] = 0]
        BY <2>11 DEF PollEnds
      <4> QED
        BY <4>1, <4>2, Bounds
    <3>3. sock' \in [Shards -> Connection]
      <4>1. CASE sock' = sock \/ sock' = [sock EXCEPT ![s].shorn = TRUE]
        <5>1. sock \in [Shards -> Connection]
          BY DEF TypeOK
        <5> QED
          BY <4>1, <5>1 DEF Connection
      <4>2. ASSUME NEW n \in 1 .. Len(sock[s].inbox), NEW still \in BOOLEAN,
                   sock' = [sock EXCEPT ![s].shorn = still,
                                        ![s].inbox = SubSeq(@, n + 1, Len(@))]
            PROVE  sock' \in [Shards -> Connection]
        <5>1. SubSeq(sock[s].inbox, n + 1, Len(sock[s].inbox)) \in Seq(Frame)
          BY <2>k, Inboxes, Places
        <5> QED
          BY <2>k, <4>2, <5>1 DEF TypeOK, Connection
      <4> QED
        BY <2>11, <4>1, <4>2 DEF PollEnds
    <3> QED
      BY <2>11, <3>1, <3>2, <3>3 DEF PollEnds, TypeOK, Quietly, consumer
  <2>12. CASE Put(s)
    <3> DEFINE x == [shard |-> s, event |-> read[s][Len(read[s])].event, error |-> "none"]
    <3>4. queue \in Seq(Entry) /\ x \in Entry
      BY <2>12, LastRead DEF Put
    <3>5. queue' = Append(queue, x)
      BY <2>12 DEF Put
    <3> HIDE DEF x
    <3>6. queue' \in Seq(Entry)
      BY <3>4, <3>5, AppendProperties
    <3>7. pc' \in [Shards -> PCs]
      BY <2>12, WorkerTypes DEF Put, PCs
    <3>8. attempt' \in [Shards -> Nat]
      <4>1. attempt \in [Shards -> Nat]
        BY DEF TypeOK
      <4> QED
        BY <2>12, <4>1 DEF Put
    <3>9. losses' \in [Shards -> Nat]
      BY <2>12, WorkerTypes DEF Put
    <3> QED
      BY <2>12, <3>6, <3>7, <3>8, <3>9 DEF Put, TypeOK
  <2>13. CASE Exhaust(s)
    <3>1. Raise(s, "lost")
      BY <2>13 DEF Exhaust
    <3>2. queue' \in Seq(Entry) /\ pc' \in [Shards -> PCs]
      BY <3>1, RaiseType DEF Errors
    <3>3. attempt' \in [Shards -> Nat]
      BY <2>13, WorkerTypes DEF Exhaust
    <3> QED
      BY <2>13, <3>1, <3>2, <3>3 DEF Exhaust, TypeOK, history, Raise
  <2>14. CASE BackoffOverflows(s)
    <3>1. Raise(s, "overflow")
      BY <2>14 DEF BackoffOverflows
    <3>2. queue' \in Seq(Entry) /\ pc' \in [Shards -> PCs]
      BY <3>1, RaiseType DEF Errors
    <3>3. attempt' \in [Shards -> Nat]
      BY <2>14, WorkerTypes DEF BackoffOverflows
    <3> QED
      BY <2>14, <3>1, <3>2, <3>3 DEF BackoffOverflows, TypeOK, history, Raise
  <2>15. CASE Backoff(s)
    <3>1. pc' \in [Shards -> PCs]
      BY <2>15, WorkerTypes DEF Backoff, PCs
    <3>2. attempt' \in [Shards -> Nat]
      BY <2>15, WorkerTypes DEF Backoff
    <3> QED
      BY <2>15, <3>1, <3>2 DEF Backoff, TypeOK, history, Quietly, consumer
  <2>16. CASE Wake(s)
    <3>1. pc' \in [Shards -> PCs]
      BY <2>16, WorkerTypes DEF Wake, PCs
    <3>2. sock' \in [Shards -> Connection] /\ clean' \in [Shards -> BOOLEAN]
      BY <2>16, WorkerTypes DEF Wake
    <3> QED
      BY <2>16, <3>1, <3>2 DEF Wake, TypeOK, Quietly, consumer
  <2>17. CASE WaitClosed(s)
    <3>1. pc' \in [Shards -> PCs]
      BY <2>17, WorkerTypes DEF WaitClosed, PCs
    <3> QED
      BY <2>17, <3>1 DEF WaitClosed, TypeOK, history, Quietly, consumer
  <2>18. CASE Establish(s)
    <3>1. pc' \in [Shards -> PCs]
      BY <2>18, WorkerTypes DEF Establish, PCs
    <3>2. sock' \in [Shards -> Connection]
      BY <2>18, WorkerTypes DEF Establish
    <3> QED
      BY <2>18, <3>1, <3>2 DEF Establish, TypeOK, history, Quietly, consumer
  <2>19. CASE RedialFails(s)
    <3>1. pc' \in [Shards -> PCs]
      BY <2>19, WorkerTypes DEF RedialFails, PCs
    <3>2. failures' \in 0 .. MaxFailures
      BY <2>19, WorkerTypes DEF RedialFails
    <3> QED
      BY <2>19, <3>1, <3>2 DEF RedialFails, TypeOK, history, Quietly, consumer
  <2>20. CASE HandshakeRejected(s)
    <3>1. Raise(s, "final")
      BY <2>20 DEF HandshakeRejected
    <3>2. queue' \in Seq(Entry) /\ pc' \in [Shards -> PCs]
      BY <3>1, RaiseType DEF Errors
    <3>3. failures' \in 0 .. MaxFailures
      BY <2>20, WorkerTypes DEF HandshakeRejected
    <3> QED
      BY <2>20, <3>1, <3>2, <3>3 DEF HandshakeRejected, TypeOK, history, Raise
  <2>21. CASE CancelHits(s)
    <3>1. pc' \in [Shards -> PCs]
      BY <2>21, WorkerTypes DEF CancelHits, PCs
    <3>2. sock' \in [Shards -> Connection]
      <4>1. sock \in [Shards -> Connection]
        BY DEF TypeOK
      <4> QED
        BY <2>21, <4>1 DEF CancelHits, Connection
    <3> QED
      BY <2>21, <3>1, <3>2 DEF CancelHits, TypeOK, history, consumer
  <2>22. CASE CancelSwallowed(s)
    <3>1. pc' \in [Shards -> PCs]
      BY <2>22, WorkerTypes DEF CancelSwallowed, PCs
    <3> QED
      BY <2>22, <3>1 DEF CancelSwallowed, TypeOK, history, consumer
  <2> QED
    BY <1>1, <2>1, <2>2, <2>3, <2>4, <2>5, <2>6, <2>7, <2>8, <2>9, <2>10, <2>11, <2>12, <2>13, <2>14, <2>15, <2>16, <2>17, <2>18, <2>19, <2>20, <2>21, <2>22 DEF Worker
<1>2. ASSUME NEW s \in Shards, Environment(s)
      PROVE  TypeOK'
  <2>k. sock[s] \in Connection /\ sock[s].inbox \in Seq(Frame)
    BY Inboxes
  <2>1. CASE Publish(s)
    <3>1. published[s] + 1 \in Event
      BY <2>1, PublishType DEF Publish
    <3>2. Append(sock[s].inbox, published[s] + 1) \in Seq(Frame)
      BY <3>1, Inboxes DEF Frame
    <3>3. published' \in [Shards -> 0 .. MaxEvents]
      <4>1. published \in [Shards -> 0 .. MaxEvents]
        BY DEF TypeOK
      <4>2. published' = [published EXCEPT ![s] = @ + 1]
        BY <2>1 DEF Publish
      <4> QED
        BY <3>1, <4>1, <4>2, Bounds DEF Event
    <3>4. sock' \in [Shards -> Connection]
      BY <2>1, <2>k, <3>2 DEF Publish, Connection, TypeOK
    <3> QED
      BY <2>1, <3>3, <3>4 DEF Publish, program, TypeOK
  <2>2. CASE RefuseSubscription(s)
    <3>1. Append(sock[s].inbox, Refusal) \in Seq(Frame)
      BY Inboxes DEF Frame
    <3>2. sock' \in [Shards -> Connection]
      BY <2>2, <2>k, <3>1 DEF RefuseSubscription, Connection, TypeOK
    <3> QED
      BY <2>2, <3>2 DEF RefuseSubscription, program, TypeOK
  <2>3. CASE Drop(s)
    <3>1. PICK n \in 0 .. Len(sock[s].inbox) :
             sock' = [sock EXCEPT ![s].link = "down", ![s].subscribed = FALSE,
                                  ![s].inbox = SubSeq(@, 1, n)]
      BY <2>3 DEF Drop
    <3>2. SubSeq(sock[s].inbox, 1, n) \in Seq(Frame)
      BY Inboxes
    <3>3. sock' \in [Shards -> Connection]
      BY <2>k, <3>1, <3>2 DEF Connection, TypeOK
    <3>4. failures' \in 0 .. MaxFailures
      BY <2>3, WorkerTypes DEF Drop
    <3> QED
      BY <2>3, <3>3, <3>4 DEF Drop, program, TypeOK
  <2>4. CASE CallAfter(s)
    <3>1. sock[s].inbox # <<>> => Tail(sock[s].inbox) \in Seq(Frame)
      BY Inboxes
    <3>2. sock' \in [Shards -> Connection]
      <4>1. sock \in [Shards -> Connection]
        BY DEF TypeOK
      <4> QED
        BY <2>4, <3>1, <4>1 DEF CallAfter, Connection
    <3> QED
      BY <2>4, <3>2 DEF CallAfter, program, TypeOK
  <2> QED
    BY <1>2, <2>1, <2>2, <2>3, <2>4 DEF Environment
<1>3. CASE Generator
  <2>1. CASE GetEvent
    <3> DEFINE s == queue[1].shard
               d == delivered[s]
               S == Readings
    <3>1. /\ queue \in Seq(Entry) /\ queue # <<>> /\ Len(queue) > 0 /\ Len(queue) \in Nat
          /\ Head(queue) = queue[1] /\ queue[1] \in Entry /\ queue[1].error = "none"
      <4>0. queue \in Seq(Entry)
        BY DEF TypeOK
      <4>1. queue # <<>> /\ queue[1].error = "none" /\ Head(queue) = queue[1]
        BY <2>1, <4>0 DEF GetEvent
      <4>2. Len(queue) > 0 /\ Len(queue) \in Nat
        BY <4>0, <4>1, Places
      <4> QED
        BY <4>0, <4>1, <4>2, Places
    <3>2. s \in Shards /\ 1 \in Queued(s)
      BY <3>1 DEF Entry, Queued
    <3>3. d \in Seq(Event) /\ read[s] \in Seq(S)
      BY <3>2 DEF TypeOK
    <3>4. /\ Len(read[s]) >= Len(d) + Cardinality(Queued(s))
          /\ queue[1].event = read[s][Len(d) + Rank(s, 1)].event
          /\ Len(d) \in Nat /\ Rank(s, 1) \in 1 .. Cardinality(Queued(s))
          /\ Cardinality(Queued(s)) \in Nat /\ Len(read[s]) \in Nat
      <4>1. /\ Len(d) \in Nat /\ Rank(s, 1) \in 1 .. Cardinality(Queued(s))
            /\ Cardinality(Queued(s)) \in Nat /\ Len(read[s]) \in Nat
        BY <3>1, <3>2, <3>3, QueuedType, Places
      <4>2. Len(read[s]) = Len(d) + Cardinality(Queued(s)) + (IF pc[s] = "put" THEN 1 ELSE 0)
        BY <3>2 DEF EventsKept
      <4>3. queue[1].event = read[s][Len(d) + Rank(s, 1)].event
        BY <3>2 DEF EventsKept
      <4> HIDE DEF s, d
      <4> QED
        BY <4>1, <4>2, <4>3
    <3>5. queue[1].event \in Event
      <4> HIDE DEF s, d
      <4>1. Len(d) + Rank(s, 1) \in 1 .. Len(read[s])
        BY <3>4
      <4>2. read[s][Len(d) + Rank(s, 1)] \in S
        BY <3>3, <4>1, Places
      <4> QED
        BY <3>4, <4>2 DEF S, Readings
    <3>6. delivered' = [delivered EXCEPT ![s] = Append(@, queue[1].event)]
      BY <2>1, <3>1 DEF GetEvent
    <3> HIDE DEF s, d, S
    <3>7. Append(d, queue[1].event) \in Seq(Event)
      BY <3>3, <3>5, AppendProperties
    <3>8. delivered' \in [Shards -> Seq(Event)]
      BY <3>2, <3>6, <3>7 DEF TypeOK, d
    <3>9. queue' \in Seq(Entry)
      BY <2>1, <3>1, HeadTailProperties DEF GetEvent
    <3> QED
      BY <2>1, <3>8, <3>9 DEF GetEvent, TypeOK, history
  <2>2. CASE GetError
    <3>1. queue' \in Seq(Entry)
      BY <2>2, HeadTailProperties DEF GetError, TypeOK
    <3> QED
      BY <2>2, <3>1 DEF GetError, Close, TypeOK, history
  <2>3. CASE Resume
    BY <2>3 DEF Resume, TypeOK, history
  <2>4. CASE Leave
    BY <2>4 DEF Leave, Close, TypeOK, history
  <2>5. CASE Join
    BY <2>5 DEF Join, TypeOK, history
  <2> QED
    BY <1>3, <2>1, <2>2, <2>3, <2>4, <2>5 DEF Generator
<1>4. CASE UNCHANGED vars
  BY <1>4 DEF vars, TypeOK
<1> QED
  BY <1>1, <1>2, <1>3, <1>4 DEF Next, Silence

-----------------------------------------------------------------------------
(* What is read is what is delivered, queued or about to be put.           *)

Raises == \E s \in Shards, e \in Errors :
              Raise(s, e) /\ pc[s] # "put" /\ UNCHANGED read
Passes == /\ UNCHANGED <<queue, delivered, read>>
          /\ \A u \in Shards : pc'[u] = "put" <=> pc[u] = "put"

(* The steps that matter to that: reading, raising, putting and getting.   *)
LEMMA Touches ==
    ASSUME TypeOK, [Next]_vars
    PROVE  \/ Passes \/ Raises
           \/ \E s \in Shards : ReadEvent(s) \/ Put(s)
           \/ GetEvent \/ GetError
<1>t. pc \in [Shards -> PCs]
  BY DEF TypeOK
<1>1. ASSUME NEW s \in Shards, Worker(s)
      PROVE  Passes \/ Raises \/ ReadEvent(s) \/ Put(s)
  <2>1. CASE Acquire(s)
    BY <1>t, <2>1 DEF Passes, Acquire, At, Goto, history, Quietly, consumer
  <2>2. CASE AcquireFails(s)
    <3>1. Raise(s, "final") /\ pc[s] # "put" /\ UNCHANGED read
      BY <2>2 DEF AcquireFails, At, history
    <3> QED
      BY <3>1 DEF Raises, Errors
  <2>3. CASE StopAtTop(s)
    BY <1>t, <2>3 DEF Passes, StopAtTop, At, Goto, history, Quietly, consumer
  <2>4. CASE RefuseOversized(s)
    <3>1. Raise(s, "final") /\ pc[s] # "put" /\ UNCHANGED read
      BY <2>4 DEF RefuseOversized, At, history
    <3> QED
      BY <3>1 DEF Raises, Errors
  <2>5. CASE Subscribe(s)
    BY <1>t, <2>5 DEF Passes, Subscribe, At, Goto, history, Quietly, consumer
  <2>6. CASE SubscribeFails(s)
    BY <1>t, <2>6 DEF Passes, SubscribeFails, At, Goto, history, Quietly, consumer
  <2>7. CASE ReadRefusal(s)
    <3>1. Raise(s, "final") /\ pc[s] # "put" /\ UNCHANGED read
      BY <2>7 DEF ReadRefusal, At, history
    <3> QED
      BY <3>1 DEF Raises, Errors
  <2>8. CASE ReadLost(s)
    BY <1>t, <2>8 DEF Passes, ReadLost, At, Goto, history, Quietly, consumer
  <2>9. CASE ReadGarbage(s)
    <3>1. Raise(s, "final") /\ pc[s] # "put" /\ UNCHANGED read
      BY <2>9 DEF ReadGarbage, At, history
    <3> QED
      BY <3>1 DEF Raises, Errors
  <2>10. CASE PollEnds(s)
    BY <1>t, <2>10 DEF Passes, PollEnds, At, Goto, history, Quietly, consumer
  <2>11. CASE Exhaust(s)
    <3>1. Raise(s, "lost") /\ pc[s] # "put" /\ UNCHANGED read
      BY <2>11 DEF Exhaust, At, history
    <3> QED
      BY <3>1 DEF Raises, Errors
  <2>12. CASE BackoffOverflows(s)
    <3>1. Raise(s, "overflow") /\ pc[s] # "put" /\ UNCHANGED read
      BY <2>12 DEF BackoffOverflows, At, history
    <3> QED
      BY <3>1 DEF Raises, Errors
  <2>13. CASE Backoff(s)
    BY <1>t, <2>13 DEF Passes, Backoff, At, Goto, history, Quietly, consumer
  <2>14. CASE Wake(s)
    BY <1>t, <2>14 DEF Passes, Wake, At, Goto, history, Quietly, consumer
  <2>15. CASE WaitClosed(s)
    BY <1>t, <2>15 DEF Passes, WaitClosed, At, Goto, history, Quietly, consumer
  <2>16. CASE Establish(s)
    BY <1>t, <2>16 DEF Passes, Establish, At, Goto, history, Quietly, consumer
  <2>17. CASE RedialFails(s)
    BY <1>t, <2>17 DEF Passes, RedialFails, At, Goto, history, Quietly, consumer
  <2>18. CASE HandshakeRejected(s)
    <3>1. Raise(s, "final") /\ pc[s] # "put" /\ UNCHANGED read
      BY <2>18 DEF HandshakeRejected, At, history
    <3> QED
      BY <3>1 DEF Raises, Errors
  <2>19. CASE CancelHits(s)
    BY <1>t, <2>19 DEF Passes, CancelHits, At, Goto, history, consumer
  <2>20. CASE CancelSwallowed(s)
    BY <1>t, <2>20 DEF Passes, CancelSwallowed, At, Goto, history, consumer
  <2> QED
    BY <1>1, <2>1, <2>2, <2>3, <2>4, <2>5, <2>6, <2>7, <2>8, <2>9, <2>10, <2>11, <2>12, <2>13, <2>14, <2>15, <2>16, <2>17, <2>18, <2>19, <2>20 DEF Worker
<1>2. ASSUME NEW s \in Shards, Environment(s)
      PROVE  Passes
  BY <1>2 DEF Environment, Publish, RefuseSubscription, Drop, CallAfter, program, Passes
<1>3. CASE Resume \/ Leave \/ Join
  BY <1>3 DEF Resume, Leave, Join, Close, history, Passes
<1>4. CASE UNCHANGED vars
  BY <1>4 DEF vars, Passes
<1> QED
  BY <1>1, <1>2, <1>3, <1>4 DEF Next, Silence, Generator

(* The events of a shard and where they are.                               *)
KeptAt(s) ==
    /\ Len(read[s]) = Len(delivered[s]) + Cardinality(Queued(s))
                      + (IF pc[s] = "put" THEN 1 ELSE 0)
    /\ \A i \in 1 .. Len(delivered[s]) : delivered[s][i] = read[s][i].event
    /\ \A i \in Queued(s) :
          queue[i].event = read[s][Len(delivered[s]) + Rank(s, i)].event

(* The numbers KeptAt adds up.                                             *)
LEMMA KeptType ==
    ASSUME TypeOK, NEW s \in Shards
    PROVE  /\ queue \in Seq(Entry) /\ delivered[s] \in Seq(Event) /\ read[s] \in Seq(Readings)
           /\ {Len(delivered[s]), Len(read[s]), Cardinality(Queued(s))} \subseteq Nat
           /\ \A i \in Queued(s) : Rank(s, i) \in 1 .. Cardinality(Queued(s))
<1>1. queue \in Seq(Entry) /\ delivered[s] \in Seq(Event) /\ read[s] \in Seq(Readings)
  BY DEF TypeOK
<1> QED
  BY <1>1, QueuedType, Places

(* An event that is read is the next the worker puts.                      *)
LEMMA ReadKeeps ==
    ASSUME TypeOK, EventsKept, NEW s \in Shards, ReadEvent(s), TypeOK', NEW u \in Shards
    PROVE  KeptAt(u)'
<1>1. KeptAt(u)
  BY DEF EventsKept, KeptAt
<1>2. UNCHANGED <<queue, delivered>> /\ pc' = [pc EXCEPT ![s] = "put"] /\ pc[s] = "read"
  BY DEF ReadEvent, Quietly, consumer, Goto, At
<1>3. Queued(u)' = Queued(u) /\ \A i \in Queued(u) : Rank(u, i)' = Rank(u, i)
  BY <1>2 DEF Queued, Rank
<1>4. CASE u # s
  <2>1. read'[u] = read[u] /\ pc'[u] = pc[u]
    BY <1>2, <1>4 DEF TypeOK, ReadEvent
  <2> QED
    BY <1>1, <1>2, <1>3, <2>1 DEF KeptAt
<1>5. CASE u = s
  <2> DEFINE d == delivered[s]
             c == Cardinality(Queued(s))
             l == Len(read[s])
  <2>1. /\ d \in Seq(Event) /\ read[s] \in Seq(Readings) /\ Len(d) \in Nat /\ l \in Nat
        /\ c \in Nat /\ \A i \in Queued(s) : Rank(s, i) \in 1 .. c
    BY KeptType
  <2>2. PICK x : read' = [read EXCEPT ![s] = Append(@, x)]
    BY DEF ReadEvent
  <2>3. Len(read'[s]) = l + 1 /\ \A i \in 1 .. l : read'[s][i] = read[s][i]
    <3>1. read'[s] = Append(read[s], x)
      BY <2>2 DEF TypeOK
    <3> QED
      BY <2>1, <3>1
  <2>4. pc'[s] = "put"
    BY <1>2 DEF TypeOK
  <2>5. l = Len(d) + c
    BY <1>1, <1>2, <1>5, <2>1 DEF KeptAt
  <2>6. \A i \in 1 .. Len(d) : i \in 1 .. l
    BY <2>1, <2>5
  <2>7. \A i \in Queued(s) : Len(d) + Rank(s, i) \in 1 .. l
    BY <2>1, <2>5
  <2>8. Len(read[s])' = Len(d) + c + 1
    BY <2>1, <2>3, <2>5
  <2>9. \A i \in 1 .. Len(d) : d[i] = read'[s][i].event
    BY <1>1, <1>5, <2>3, <2>6 DEF KeptAt
  <2>10. \A i \in Queued(s) : queue[i].event = read'[s][Len(d) + Rank(s, i)].event
    BY <1>1, <1>5, <2>3, <2>7 DEF KeptAt
  <2> QED
    BY <1>2, <1>3, <1>5, <2>4, <2>8, <2>9, <2>10 DEF KeptAt
<1> QED
  BY <1>4, <1>5

(* An error in the queue is no event of anybody's.                         *)
LEMMA RaiseKeeps ==
    ASSUME TypeOK, EventsKept, NEW s \in Shards, NEW e \in Errors, Raise(s, e),
           pc[s] # "put", UNCHANGED read, NEW u \in Shards
    PROVE  KeptAt(u)'
<1> DEFINE x == [shard |-> s, event |-> 0, error |-> e]
<1>1. KeptAt(u)
  BY DEF EventsKept, KeptAt
<1>2. /\ queue' = Append(queue, x) /\ UNCHANGED delivered
      /\ pc' = [pc EXCEPT ![s] = "done"]
  BY DEF Raise, Goto
<1>3. x \in Entry /\ queue \in Seq(Entry) /\ ~(x.shard = u /\ x.error = "none")
  BY DEF TypeOK, Entry, Frame, Refusal, Errors
<1>4. pc'[u] = "put" <=> pc[u] = "put"
  BY <1>2 DEF TypeOK
<1> HIDE DEF x
<1>5. /\ Queued(u)' = Queued(u) \cup {}
      /\ Cardinality(Queued(u)') = Cardinality(Queued(u)) + 0
      /\ \A i \in Queued(u) : queue'[i] = queue[i] /\ Rank(u, i)' = Rank(u, i)
  BY <1>2, <1>3, QueuePut
<1>6. Cardinality(Queued(u)) \in Nat
  BY KeptType
<1>7. /\ Queued(u)' = Queued(u) /\ Cardinality(Queued(u))' = Cardinality(Queued(u))
  BY <1>5, <1>6
<1> QED
  BY <1>1, <1>2, <1>4, <1>5, <1>7 DEF KeptAt

(* An event that is put is the last in the queue.                          *)
LEMMA PutKeeps ==
    ASSUME TypeOK, EventsKept, NEW s \in Shards, Put(s), NEW u \in Shards
    PROVE  KeptAt(u)'
<1> DEFINE l == Len(read[s])
           x == [shard |-> s, event |-> read[s][l].event, error |-> "none"]
           k == Len(queue) + 1
           c == Cardinality(Queued(u))
<1>1. KeptAt(u)
  BY DEF EventsKept, KeptAt
<1>2. /\ queue' = Append(queue, x) /\ UNCHANGED <<delivered, read>> /\ pc[s] = "put"
      /\ \A v \in Shards \ {s} : pc'[v] = pc[v]
      /\ pc'[s] # "put"
  BY DEF Put, Goto, history, TypeOK
<1>3. x \in Entry /\ queue \in Seq(Entry)
  BY <1>2, LastRead
<1>4. x.shard = s /\ x.error = "none" /\ x.event = read[s][l].event
  OBVIOUS
<1> HIDE DEF x
<1>5. /\ Queued(u)' = Queued(u) \cup (IF x.shard = u /\ x.error = "none" THEN {k} ELSE {})
      /\ Cardinality(Queued(u)') = c + (IF x.shard = u /\ x.error = "none" THEN 1 ELSE 0)
      /\ \A i \in Queued(u) : queue'[i] = queue[i] /\ Rank(u, i)' = Rank(u, i)
      /\ queue'[k] = x
      /\ \A i \in Queued(u)' : i = k => Rank(u, i)' = c + 1
  BY <1>2, <1>3, QueuePut
<1>6. /\ c \in Nat /\ Len(delivered[u]) \in Nat
      /\ Len(read[u]) = Len(delivered[u]) + c + (IF pc[u] = "put" THEN 1 ELSE 0)
  BY <1>1, KeptType DEF KeptAt
<1> HIDE DEF k, c
<1>7. CASE u # s
  <2>1. Queued(u)' = Queued(u) /\ Cardinality(Queued(u))' = c /\ pc'[u] = pc[u]
    BY <1>2, <1>4, <1>5, <1>6, <1>7
  <2> QED
    BY <1>1, <1>2, <1>5, <2>1 DEF KeptAt, c
<1>8. CASE u = s
  <2>1. /\ Queued(u)' = Queued(u) \cup {k} /\ Cardinality(Queued(u))' = c + 1
        /\ pc'[u] # "put" /\ pc[u] = "put"
    BY <1>2, <1>4, <1>5, <1>8
  <2>2. Len(read[u])' = Len(delivered[u])' + Cardinality(Queued(u))' + 0
    BY <1>2, <1>6, <2>1
  <2>3. ASSUME NEW i \in Queued(u)'
        PROVE  queue'[i].event = read[u][Len(delivered[u]) + Rank(u, i)'].event
    <3>1. CASE i \in Queued(u)
      BY <1>1, <1>5, <3>1 DEF KeptAt
    <3>2. CASE i = k
      <4>1. Rank(u, i)' = c + 1 /\ queue'[i] = x
        BY <1>5, <3>2
      <4>2. Len(delivered[u]) + (c + 1) = l
        <5>1. Len(read[u]) = Len(delivered[u]) + c + 1 /\ Len(read[u]) = l
          BY <1>6, <1>8, <2>1
        <5> DEFINE d == Len(delivered[u])
        <5>2. c \in Nat /\ d \in Nat /\ l = d + c + 1
          BY <1>6, <5>1
        <5> HIDE DEF l, d
        <5>3. d + (c + 1) = l
          BY <5>2
        <5> QED
          BY <5>3 DEF d
      <4> QED
        BY <1>4, <1>8, <4>1, <4>2
    <3> QED
      BY <2>1, <2>3, <3>1, <3>2
  <2> QED
    BY <1>1, <1>2, <2>1, <2>2, <2>3 DEF KeptAt
<1> QED
  BY <1>7, <1>8

(* Getting takes the first of the queue, which is the shard's next.        *)
LEMMA GetKeeps ==
    ASSUME TypeOK, EventsKept, TypeOK', GetEvent \/ GetError, NEW u \in Shards
    PROVE  KeptAt(u)'
<1> DEFINE d == delivered[u]
           c == Cardinality(Queued(u))
           own == IF 1 \in Queued(u) THEN 1 ELSE 0
<1>1. KeptAt(u)
  BY DEF EventsKept, KeptAt
<1>2. /\ queue \in Seq(Entry) /\ d \in Seq(Event) /\ Len(d) \in Nat /\ c \in Nat
      /\ \A i \in Queued(u) : Rank(u, i) \in 1 .. c
  BY KeptType
<1>3. UNCHANGED <<pc, read>> /\ queue # <<>> /\ queue' = Tail(queue)
  BY DEF GetEvent, GetError, history
<1>4. /\ Cardinality(Queued(u)') = c - own
      /\ \A i \in Queued(u)' : /\ i + 1 \in Queued(u) /\ queue'[i] = queue[i + 1]
                               /\ Rank(u, i)' = Rank(u, i + 1) - own
      /\ 1 \in Queued(u) => Rank(u, 1) = 1
  BY <1>2, <1>3, QueueGet
<1>5. /\ Len(read[u]) = Len(d) + c + (IF pc[u] = "put" THEN 1 ELSE 0)
      /\ \A i \in 1 .. Len(d) : d[i] = read[u][i].event
      /\ \A i \in Queued(u) : queue[i].event = read[u][Len(d) + Rank(u, i)].event
  BY <1>1 DEF KeptAt
<1>6. Head(queue) = queue[1] /\ 1 \in 1 .. Len(queue) /\ queue[1] \in Entry
  BY <1>2, <1>3, Places
<1>7. own \in {0, 1}
  OBVIOUS
<1>8. /\ Len(delivered'[u]) = Len(d) + own
      /\ \A i \in 1 .. Len(d) : delivered'[u][i] = d[i]
      /\ own = 1 => delivered'[u][Len(d) + 1] = queue[1].event
  <2>1. CASE 1 \in Queued(u)
    <3>1. queue[1].shard = u /\ queue[1].error = "none" /\ own = 1
      BY <2>1 DEF Queued
    <3>2. delivered' = [delivered EXCEPT ![u] = Append(@, queue[1].event)]
      BY <1>6, <3>1 DEF GetEvent, GetError
    <3>3. delivered'[u] = Append(d, queue[1].event)
      BY <3>2 DEF TypeOK
    <3> HIDE DEF d, own
    <3> QED
      BY <1>2, <3>1, <3>3
  <2>2. CASE 1 \notin Queued(u)
    <3>1. queue[1].shard # u \/ queue[1].error # "none"
      BY <1>6, <2>2 DEF Queued
    <3>2. delivered'[u] = d /\ own = 0
      BY <1>6, <2>2, <3>1 DEF GetEvent, GetError, TypeOK
    <3> HIDE DEF d, own
    <3> QED
      BY <1>2, <3>2
  <2> QED
    BY <2>1, <2>2
<1>9. own = 1 => 1 \in Queued(u)
  OBVIOUS
<1> HIDE DEF d, c, own
<1>10. Len(delivered'[u]) + Cardinality(Queued(u)') = Len(d) + c
  BY <1>2, <1>4, <1>7, <1>8
<1>11. ASSUME NEW i \in 1 .. Len(delivered'[u])
       PROVE  delivered'[u][i] = read[u][i].event
  <2>1. CASE i \in 1 .. Len(d)
    BY <1>5, <1>8, <2>1
  <2>2. CASE i \notin 1 .. Len(d)
    <3>1. own = 1 /\ i = Len(d) + 1
      BY <1>2, <1>7, <1>8, <1>11, <2>2
    <3> QED
      BY <1>4, <1>5, <1>8, <1>9, <3>1
  <2> QED
    BY <2>1, <2>2
<1>12. ASSUME NEW i \in Queued(u)'
       PROVE  queue'[i].event = read[u][Len(delivered'[u]) + Rank(u, i)'].event
  <2>1. Len(delivered'[u]) + Rank(u, i)' = Len(d) + Rank(u, i + 1)
    BY <1>2, <1>4, <1>7, <1>8, <1>12
  <2> QED
    BY <1>4, <1>5, <1>12, <2>1
<1>13. Len(read[u])' = Len(delivered[u])' + Cardinality(Queued(u))'
                        + (IF pc[u] = "put" THEN 1 ELSE 0)
  BY <1>3, <1>5, <1>10
<1> QED
  BY <1>3, <1>11, <1>12, <1>13 DEF KeptAt

(* EventsKept is kept.                                                     *)
LEMMA StepKept == TypeOK /\ EventsKept /\ [Next]_vars /\ TypeOK' => EventsKept'
<1> SUFFICES ASSUME TypeOK, EventsKept, [Next]_vars, TypeOK', NEW u \in Shards
             PROVE  KeptAt(u)'
  BY DEF EventsKept, KeptAt
<1>1. CASE Passes
  <2>1. Queued(u)' = Queued(u) /\ \A i \in Queued(u) : Rank(u, i)' = Rank(u, i)
    BY <1>1 DEF Passes, Queued, Rank
  <2>2. KeptAt(u)
    BY DEF EventsKept, KeptAt
  <2> QED
    BY <1>1, <2>1, <2>2 DEF Passes, KeptAt
<1>2. CASE Raises
  BY <1>2, RaiseKeeps DEF Raises
<1>3. CASE \E s \in Shards : ReadEvent(s) \/ Put(s)
  BY <1>3, ReadKeeps, PutKeeps
<1>4. CASE GetEvent \/ GetError
  BY <1>4, GetKeeps
<1> QED
  BY <1>1, <1>2, <1>3, <1>4, Touches

-----------------------------------------------------------------------------
(* The reader is in step with its connection.                              *)

Starting == {"acquire", "top", "closing", "dial", "undo"}
Reading == {"read", "put"}
InStepAt(s) ==
    SeenPublished(s) /\ Fresh(s) /\ InOrder(s) /\ UpToDate(s) /\ NextIsDue(s)

(* What a step does to the connection of a worker: nothing;                *)
Alike(s) ==
    /\ published'[s] = published[s] /\ read'[s] = read[s]
Calm(s) ==
    /\ Alike(s) /\ sock'[s] = sock[s] /\ due'[s] = due[s]
    /\ pc'[s] \in Starting => pc[s] \in Starting
    /\ pc'[s] \in Reading => pc[s] \in Reading
(* a new one;                                                              *)
Renewed(s) ==
    /\ Alike(s) /\ pc'[s] \in Starting
    /\ sock'[s].inbox = <<>> /\ ~sock'[s].subscribed /\ ~sock'[s].shorn
(* some bytes of a frame are gone;                                         *)
Sheared(s) ==
    /\ Alike(s) /\ pc'[s] \notin Starting /\ (pc'[s] \in Reading => due'[s] = 0)
    /\ sock'[s].inbox = sock[s].inbox /\ sock'[s].subscribed = sock[s].subscribed
(* some frames are.                                                        *)
Skipped(s) ==
    /\ Alike(s) /\ pc'[s] \notin Starting
    /\ pc'[s] \in Reading => pc[s] = "read" /\ sock[s].shorn /\ due'[s] = due[s]
    /\ sock'[s].subscribed = sock[s].subscribed
    /\ \E n \in 1 .. Len(sock[s].inbox) :
          sock'[s].inbox = SubSeq(sock[s].inbox, n + 1, Len(sock[s].inbox))

(* What InStepAt says, of the next state too.                              *)
LEMMA InboxType ==
    TypeOK => \A s \in Shards :
                 /\ sock[s] \in Connection /\ sock[s].inbox \in Seq(Frame)
                 /\ Len(sock[s].inbox) \in Nat
                 /\ published[s] \in Nat /\ read[s] \in Seq(Readings) /\ Len(read[s]) \in Nat
                 /\ \A i \in 1 .. Len(read[s]) : read[s][i] \in Readings
                 /\ due[s] \in Nat
<1> SUFFICES ASSUME TypeOK, NEW s \in Shards
             PROVE  /\ sock[s] \in Connection /\ sock[s].inbox \in Seq(Frame)
                    /\ Len(sock[s].inbox) \in Nat
                    /\ published[s] \in Nat /\ read[s] \in Seq(Readings)
                    /\ Len(read[s]) \in Nat
                    /\ \A i \in 1 .. Len(read[s]) : read[s][i] \in Readings
                    /\ due[s] \in Nat
  OBVIOUS
<1>1. sock[s] \in Connection /\ sock[s].inbox \in Seq(Frame)
  BY Inboxes
<1>2. published[s] \in 0 .. MaxEvents /\ read[s] \in Seq(Readings) /\ due[s] \in 0 .. MaxEvents + 1
  BY DEF TypeOK
<1> QED
  BY <1>1, <1>2, Places, Bounds

(* A connection that is let alone stays in step.                           *)
LEMMA CalmStep == ASSUME NEW s \in Shards, InStepAt(s), Calm(s) PROVE InStepAt(s)'
BY DEF InStepAt, Calm, Alike, Starting, Reading, SeenPublished, Fresh, InOrder, UpToDate, NextIsDue

(* A new connection has nothing in it.                                     *)
LEMMA RenewedStep ==
    ASSUME TypeOK, NEW s \in Shards, SeenPublished(s), Renewed(s)
    PROVE  InStepAt(s)'
<1>1. SeenPublished(s)'
  BY DEF Renewed, Alike, SeenPublished
<1>2. Fresh(s)' /\ UpToDate(s)' /\ NextIsDue(s)'
  BY DEF Renewed, Fresh, UpToDate, NextIsDue, Starting, Reading
<1>3. InOrder(s)'
  <2>1. Len(sock'[s].inbox) = 0
    BY EmptySeq DEF Renewed
  <2> QED
    BY <2>1 DEF InOrder
<1> QED
  BY <1>1, <1>2, <1>3 DEF InStepAt

(* Once bytes are dropped nothing is due.                                  *)
LEMMA ShearedStep == ASSUME NEW s \in Shards, InStepAt(s), Sheared(s) PROVE InStepAt(s)'
BY DEF InStepAt, Sheared, Alike, Starting, Reading, SeenPublished, Fresh, InOrder, UpToDate, NextIsDue

(* What is left of frames one after the other still is.                    *)
LEMMA SkippedStep ==
    ASSUME TypeOK, NEW s \in Shards, InStepAt(s), Skipped(s)
    PROVE  InStepAt(s)'
<1> DEFINE q == sock[s].inbox
           r == sock'[s].inbox
           l == Len(q)
<1>1. q \in Seq(Frame) /\ l \in Nat /\ published[s] \in Nat
  BY InboxType
<1>2. PICK n \in 1 .. l : r = SubSeq(q, n + 1, l)
  BY DEF Skipped
<1>3. n \in 1 .. l /\ Len(r) = l - n /\ \A i \in 1 .. l - n : r[i] = q[n + i]
  <2>1. n \in 0 .. Len(q) /\ n \in 1 .. l
    BY <1>1, <1>2
  <2> HIDE DEF q, r
  <2>2. /\ Len(SubSeq(q, n + 1, Len(q))) = Len(q) - n
        /\ \A i \in 1 .. Len(q) - n : SubSeq(q, n + 1, Len(q))[i] = q[n + i]
    BY <1>1, <2>1, Halves
  <2> QED
    BY <1>2, <2>1, <2>2
<1>4. /\ SeenPublished(s) /\ InOrder(s) /\ UpToDate(s) /\ NextIsDue(s)
      /\ Alike(s) /\ sock'[s].subscribed = sock[s].subscribed
      /\ pc'[s] \notin Starting
  BY DEF InStepAt, Skipped
<1>5. SeenPublished(s)' /\ Fresh(s)'
  BY <1>4 DEF SeenPublished, Fresh, Alike, Starting
<1>6. NextIsDue(s)'
  <2>1. pc'[s] \notin Reading \/ due'[s] = 0
    BY <1>4 DEF Skipped, NextIsDue
  <2> QED
    BY <2>1 DEF NextIsDue, Reading
<1>7. CASE q = <<Refusal>>
  <2>1. l = 1 /\ Len(r) = 0 /\ r # <<Refusal>> /\ ~sock[s].subscribed
    <3>1. l = 1
      BY <1>7, OneElement DEF Frame
    <3> HIDE DEF l, q, r
    <3>2. Len(r) = 0
      BY <1>3, <3>1
    <3>3. Len(<<Refusal>>) = 1
      BY OneElement DEF Frame
    <3> QED
      BY <1>4, <1>7, <3>1, <3>2, <3>3 DEF UpToDate, q
  <2> QED
    BY <1>4, <1>5, <1>6, <2>1 DEF InStepAt, InOrder, UpToDate
<1>8. CASE q # <<Refusal>>
  <2>1. \A i \in 1 .. l :
           /\ q[i] = q[1] + i - 1 /\ q[i] \in 1 .. published[s]
           /\ \A j \in 1 .. Len(read[s]) : read[s][j].clean => read[s][j].event < q[i]
    BY <1>4, <1>8 DEF InOrder
  <2> HIDE DEF q, r, l
  <2>2. \A i \in 1 .. Len(r) : /\ n + i \in 1 .. l /\ r[i] = q[n + i] /\ 1 \in 1 .. Len(r)
    BY <1>1, <1>3
  <2>3. 1 \in 1 .. l /\ (Len(r) > 0 => n + 1 \in 1 .. l /\ n + Len(r) = l /\ Len(r) \in 1 .. Len(r))
    BY <1>1, <1>3
  <2>4. q[1] \in Int
    BY <1>1, <2>1, <2>3
  <2>5. ASSUME NEW i \in 1 .. Len(r)
        PROVE  /\ r[i] = r[1] + i - 1 /\ r[i] \in 1 .. published[s]
               /\ \A j \in 1 .. Len(read[s]) : read[s][j].clean => read[s][j].event < r[i]
    <3>1. r[i] = q[n + i] /\ r[1] = q[n + 1] /\ n + i \in 1 .. l /\ n + 1 \in 1 .. l
      BY <2>2
    <3>2. r[i] = q[1] + (n + i) - 1 /\ r[1] = q[1] + (n + 1) - 1
      BY <2>1, <3>1
    <3>3. n \in Int /\ i \in Int
      BY <1>1, <1>2, <1>3
    <3>4. r[i] = r[1] + i - 1
      BY <2>4, <3>2, <3>3
    <3> QED
      BY <2>1, <3>1, <3>4
  <2>6. InOrder(s)'
    BY <1>4, <2>5 DEF InOrder, Alike, r
  <2>7. r # <<Refusal>>
    <3>1. Len(<<Refusal>>) = 1 /\ <<Refusal>>[1] = 0
      BY OneElement DEF Frame, Refusal
    <3>2. 1 \in 1 .. Len(r) => r[1] # 0
      BY <1>1, <2>5
    <3> QED
      BY <3>1, <3>2
  <2>8. UpToDate(s)'
    <3> SUFFICES ASSUME sock[s].subscribed, r # <<>>
                 PROVE  r[Len(r)] = published[s]
      BY <1>4, <2>7 DEF UpToDate, Alike, r
    <3>1. Len(r) > 0
      <4>1. r \in Seq(Frame)
        <5>1. n \in 0 .. Len(q) /\ l = Len(q)
          BY <1>1, <1>3 DEF l
        <5>2. SubSeq(q, n + 1, Len(q)) \in Seq(Frame)
          BY <1>1, <5>1, Halves
        <5> QED
          BY <1>2, <5>1, <5>2
      <4> QED
        BY <4>1, Places
    <3>2. q[l] = published[s]
      <4>1. q # <<>>
        <5>1. Len(q) > 0
          BY <1>1, <1>3 DEF l
        <5> QED
          BY <1>1, <5>1, Places
      <4> QED
        BY <1>4, <4>1 DEF UpToDate, q, l
    <3> QED
      BY <2>2, <2>3, <3>1, <3>2
  <2> QED
    BY <1>5, <1>6, <2>6, <2>8 DEF InStepAt
<1> QED
  BY <1>7, <1>8

(* The next event of a new subscription is the next to be published.       *)
LEMMA SubscribeStep ==
    ASSUME TypeOK, NEW s \in Shards, InStepAt(s), Subscribe(s)
    PROVE  InStepAt(s)'
<1>1. /\ pc[s] = "top" /\ pc'[s] = "read" /\ Alike(s) /\ due'[s] = published[s] + 1
      /\ sock'[s].inbox = sock[s].inbox /\ sock'[s].shorn = sock[s].shorn
  BY InboxType DEF TypeOK, Subscribe, At, Goto, Quietly, Alike, Connection
<1>2. SeenPublished(s) /\ sock[s].inbox = <<>> /\ ~sock[s].shorn
  BY <1>1 DEF InStepAt, Fresh
<1>3. SeenPublished(s)' /\ Fresh(s)'
  BY <1>1, <1>2 DEF SeenPublished, Fresh, Alike
<1>4. <<>> # <<Refusal>> /\ Len(<<>>) = 0
  BY OneElement DEF Frame
<1>5. InOrder(s)' /\ UpToDate(s)' /\ NextIsDue(s)'
  BY <1>1, <1>2, <1>4 DEF InOrder, UpToDate, NextIsDue, Alike
<1> QED
  BY <1>3, <1>5 DEF InStepAt

(* What is read is later than what was read, and the one due, or bytes     *)
(* were dropped.                                                           *)
LEMMA ReadStep ==
    ASSUME TypeOK, NEW s \in Shards, InStepAt(s), ReadEvent(s)
    PROVE  /\ InStepAt(s)'
           /\ LET l == Len(read[s])
                  e == sock[s].inbox[1]
              IN  /\ Len(read'[s]) = l + 1 /\ \A i \in 1 .. l : read'[s][i] = read[s][i]
                  /\ read'[s][l + 1] = [event |-> e, due |-> due[s], clean |-> clean[s]]
                  /\ due[s] \in {0, e} /\ \A j \in 1 .. l : read[s][j].clean => read[s][j].event < e
<1> DEFINE q == sock[s].inbox
           r == Tail(q)
           l == Len(read[s])
           e == q[1]
           x == [event |-> e, due |-> due[s], clean |-> clean[s]]
<1>1. /\ q \in Seq(Frame) /\ Len(q) \in Nat /\ published[s] \in Nat
      /\ read[s] \in Seq(Readings) /\ l \in Nat /\ due[s] \in Nat
  BY InboxType
<1>2. /\ q # <<>> /\ e # Refusal /\ Head(q) = e /\ pc[s] = "read" /\ ~sock[s].shorn
  <2>1. q # <<>> /\ Head(q) # Refusal /\ pc[s] = "read" /\ ~sock[s].shorn
    BY DEF ReadEvent, At
  <2> QED
    BY <1>1, <2>1
<1>3. /\ pc'[s] = "put" /\ read'[s] = Append(read[s], x) /\ due'[s] = e + 1
      /\ sock'[s].inbox = r /\ sock'[s].subscribed = sock[s].subscribed
      /\ ~sock'[s].shorn /\ published' = published
  BY <1>2, InboxType DEF TypeOK, ReadEvent, Goto, Connection, Quietly
<1>4. SeenPublished(s) /\ InOrder(s) /\ UpToDate(s) /\ NextIsDue(s)
  BY DEF InStepAt
<1>5. q # <<Refusal>> /\ Len(q) > 0
  BY <1>1, <1>2, Places
<1>6. \A i \in 1 .. Len(q) :
         /\ q[i] = q[1] + i - 1 /\ q[i] \in 1 .. published[s]
         /\ \A j \in 1 .. l : read[s][j].clean => read[s][j].event < q[i]
  BY <1>4, <1>5 DEF InOrder
<1>7. e \in 1 .. published[s] /\ \A j \in 1 .. l : read[s][j].clean => read[s][j].event < e
  BY <1>1, <1>5, <1>6
<1>8. due[s] \in {0, e}
  BY <1>2, <1>4, <1>5 DEF NextIsDue
<1>9. /\ Len(read'[s]) = l + 1 /\ \A i \in 1 .. l : read'[s][i] = read[s][i]
      /\ read'[s][l + 1] = x
  BY <1>1, <1>3
<1>10. /\ r \in Seq(Frame) /\ Len(r) = Len(q) - 1 /\ \A i \in 1 .. Len(r) : r[i] = q[i + 1]
  BY <1>1, <1>2, HeadTailProperties
<1>11. x.event = e
  OBVIOUS
<1> HIDE DEF q, r, l, e, x
<1>12. SeenPublished(s)' /\ Fresh(s)'
  <2>1. ASSUME NEW i \in 1 .. l + 1, read'[s][i].clean
        PROVE  read'[s][i].event <= published[s]
    <3>1. CASE i \in 1 .. l
      BY <1>4, <1>9, <2>1, <3>1 DEF SeenPublished, l
    <3>2. CASE i = l + 1
      BY <1>1, <1>7, <1>9, <1>11, <3>2
    <3> QED
      BY <1>1, <3>1, <3>2
  <2> QED
    BY <1>3, <1>9, <2>1 DEF SeenPublished, Fresh
<1>13. ASSUME NEW i \in 1 .. Len(r)
       PROVE  /\ r[i] = r[1] + i - 1 /\ r[i] \in 1 .. published[s]
              /\ \A j \in 1 .. l + 1 : read'[s][j].clean => read'[s][j].event < r[i]
  <2>1. /\ i + 1 \in 1 .. Len(q) /\ 2 \in 1 .. Len(q) /\ i \in Int
        /\ r[i] = q[i + 1] /\ r[1] = q[2]
    BY <1>1, <1>10
  <2>2. q[i + 1] = e + (i + 1) - 1 /\ q[2] = e + 2 - 1 /\ e \in Int
    BY <1>1, <1>6, <1>7, <2>1 DEF e
  <2>3. r[i] = r[1] + i - 1 /\ e < r[i]
    BY <2>1, <2>2
  <2>4. ASSUME NEW j \in 1 .. l + 1, read'[s][j].clean
        PROVE  read'[s][j].event < r[i]
    <3>1. CASE j \in 1 .. l
      BY <1>6, <1>9, <2>1, <2>4, <3>1
    <3>2. CASE j = l + 1
      BY <1>9, <1>11, <2>3, <3>2
    <3> QED
      BY <1>1, <3>1, <3>2
  <2> QED
    BY <1>6, <2>1, <2>3, <2>4
<1>14. InOrder(s)'
  BY <1>3, <1>9, <1>13 DEF InOrder
<1>15. r # <<Refusal>>
  <2>1. Len(<<Refusal>>) = 1 /\ <<Refusal>>[1] = 0
    BY OneElement DEF Frame, Refusal
  <2>2. 1 \in 1 .. Len(r) => r[1] # 0
    BY <1>1, <1>13
  <2> QED
    BY <2>1, <2>2
<1>16. r # <<>> => Len(r) \in 1 .. Len(r) /\ 1 \in 1 .. Len(r) /\ r[Len(r)] = q[Len(q)] /\ r[1] = q[2]
  <2>1. r # <<>> => Len(r) > 0
    BY <1>10, Places
  <2> QED
    BY <1>1, <1>10, <2>1
<1>17. UpToDate(s)'
  BY <1>2, <1>3, <1>4, <1>15, <1>16 DEF UpToDate, q
<1>18. NextIsDue(s)'
  <2>1. r # <<>> => r[1] = e + 1
    <3>1. r # <<>> => 2 \in 1 .. Len(q) /\ r[1] = q[2]
      BY <1>1, <1>10, <1>16
    <3>2. r # <<>> => r[1] = e + 2 - 1
      BY <1>6, <3>1 DEF e
    <3> QED
      BY <1>1, <1>7, <3>2
  <2>2. sock[s].subscribed /\ r = <<>> => e + 1 = published[s] + 1
    <3> SUFFICES ASSUME sock[s].subscribed, r = <<>>
                 PROVE  e = published[s]
      OBVIOUS
    <3>1. Len(q) = 1
      <4>1. Len(r) = 0
        BY EmptySeq
      <4> QED
        BY <1>1, <1>10, <4>1
    <3> QED
      BY <1>2, <1>4, <3>1 DEF UpToDate, q, e
  <2> QED
    BY <1>3, <2>1, <2>2 DEF NextIsDue
<1>19. InStepAt(s)'
  BY <1>12, <1>14, <1>17, <1>18 DEF InStepAt
<1> QED
  BY <1>7, <1>8, <1>9, <1>19 DEF l, e, x, q

(* The event that is published comes last and is the latest.               *)
LEMMA PublishStep ==
    ASSUME TypeOK, NEW s \in Shards, InStepAt(s), Publish(s)
    PROVE  InStepAt(s)'
<1> DEFINE q == sock[s].inbox
           n == published[s]
           r == Append(q, n + 1)
           l == Len(q)
<1>1. q \in Seq(Frame) /\ l \in Nat /\ n \in Nat /\ n + 1 \in Event
  <2>1. n + 1 \in Event
    BY PublishType DEF Publish
  <2> QED
    BY <2>1, InboxType
<1>2. /\ sock[s].subscribed /\ pc' = pc /\ read' = read /\ due' = due
      /\ published'[s] = n + 1
      /\ sock'[s].inbox = r /\ sock'[s].subscribed /\ sock'[s].shorn = sock[s].shorn
  BY InboxType DEF TypeOK, Publish, program, Connection
<1>3. /\ SeenPublished(s) /\ Fresh(s) /\ InOrder(s) /\ UpToDate(s) /\ NextIsDue(s)
  BY DEF InStepAt
<1>4. /\ Len(r) = l + 1 /\ r # <<>> /\ \A i \in 1 .. l : r[i] = q[i]
      /\ r[l + 1] = n + 1
  <2> DEFINE e == n + 1
  <2>1. e \in Frame
    BY <1>1 DEF Frame
  <2> HIDE DEF e
  <2> QED
    BY <1>1, <2>1, AppendProperties
<1>5. \A j \in 1 .. Len(read[s]) :
         read[s][j].event \in Int /\ (read[s][j].clean => read[s][j].event <= n)
  BY <1>3, InboxType, Bounds DEF SeenPublished, Readings, Event
<1>6. q # <<Refusal>> /\ (q # <<>> => q[l] = n)
  BY <1>2, <1>3 DEF UpToDate
<1>7. \A i \in 1 .. l :
         /\ q[i] = q[1] + i - 1 /\ q[i] \in 1 .. n
         /\ \A j \in 1 .. Len(read[s]) : read[s][j].clean => read[s][j].event < q[i]
  BY <1>3, <1>6 DEF InOrder
<1>8. l = 0 <=> q = <<>>
  BY <1>1, Places
<1> HIDE DEF q, n, r, l
<1>9. Fresh(s)'
  BY <1>2, <1>3 DEF Fresh
<1>10. SeenPublished(s)'
  BY <1>1, <1>2, <1>5 DEF SeenPublished
<1>11. r[1] = IF l = 0 THEN n + 1 ELSE q[1]
  BY <1>1, <1>4
<1>12. l > 0 => q[1] \in Int /\ n = q[1] + l - 1
  <2> SUFFICES ASSUME l > 0 PROVE q[1] \in Int /\ n = q[1] + l - 1
    OBVIOUS
  <2>1. l \in 1 .. l /\ 1 \in 1 .. l /\ q # <<>>
    BY <1>1, <1>8
  <2> QED
    BY <1>1, <1>6, <1>7, <2>1
<1>13. ASSUME NEW i \in 1 .. l + 1
       PROVE  /\ r[i] = r[1] + i - 1 /\ r[i] \in 1 .. n + 1
              /\ \A j \in 1 .. Len(read[s]) : read[s][j].clean => read[s][j].event < r[i]
  <2>1. CASE i \in 1 .. l
    <3>1. r[i] = q[i] /\ l # 0
      BY <1>1, <1>4, <2>1
    <3> QED
      BY <1>1, <1>7, <1>11, <2>1, <3>1
  <2>2. CASE i = l + 1
    <3>1. r[i] = n + 1
      BY <1>4, <2>2
    <3>2. r[i] = r[1] + i - 1
      <4>1. CASE l = 0
        BY <1>1, <1>11, <2>2, <3>1, <4>1
      <4>2. CASE l > 0
        <5>1. r[1] = q[1] /\ n + 1 = q[1] + l /\ q[1] + (l + 1) - 1 = q[1] + l
          BY <1>1, <1>11, <1>12, <4>2
        <5> QED
          BY <2>2, <3>1, <5>1
      <4> QED
        BY <1>1, <4>1, <4>2
    <3> QED
      BY <1>1, <1>5, <3>1, <3>2
  <2> QED
    BY <1>1, <2>1, <2>2
<1>14. InOrder(s)'
  BY <1>2, <1>4, <1>13 DEF InOrder
<1>15. r # <<Refusal>>
  <2>1. Len(<<Refusal>>) = 1 /\ <<Refusal>>[1] = 0
    BY OneElement DEF Frame, Refusal
  <2>2. 1 \in 1 .. l + 1
    BY <1>1
  <2>3. r[1] # 0
    BY <1>1, <1>13, <2>2
  <2> QED
    BY <2>1, <2>3
<1>16. UpToDate(s)'
  BY <1>2, <1>4, <1>15 DEF UpToDate
<1>17. NextIsDue(s)'
  <2>1. pc[s] \in Reading /\ due[s] # 0 =>
           ~sock[s].shorn /\ (q # <<>> => q[1] = due[s]) /\ (q = <<>> => due[s] = n + 1)
    BY <1>2, <1>3, <1>6 DEF NextIsDue, Reading, q, n
  <2>2. ASSUME pc[s] \in Reading, due[s] # 0
        PROVE  r[1] = due[s]
    <3>1. q = <<>> => l = 0 /\ r[1] = n + 1
      BY <1>8, <1>11
    <3>2. q # <<>> => l # 0 /\ r[1] = q[1]
      BY <1>8, <1>11
    <3>3. (q # <<>> => q[1] = due[s]) /\ (q = <<>> => due[s] = n + 1)
      BY <2>1, <2>2
    <3> QED
      BY <3>1, <3>2, <3>3
  <2> QED
    BY <1>2, <1>4, <2>1, <2>2 DEF NextIsDue, Reading
<1> QED
  BY <1>9, <1>10, <1>14, <1>16, <1>17 DEF InStepAt

(* A refusal comes alone and nothing after it.                             *)
LEMMA RefusedStep ==
    ASSUME TypeOK, NEW s \in Shards, InStepAt(s), RefuseSubscription(s), clean[s]
    PROVE  InStepAt(s)'
<1>1. /\ pc[s] = "read" /\ pc' = pc /\ Alike(s) /\ due' = due
      /\ sock'[s].inbox = Append(sock[s].inbox, Refusal) /\ ~sock'[s].subscribed
      /\ sock'[s].shorn = sock[s].shorn /\ sock[s].inbox = <<>>
  BY InboxType DEF TypeOK, RefuseSubscription, program, Alike, Connection
<1>2. SeenPublished(s) /\ NextIsDue(s)
  BY DEF InStepAt
<1>r. sock'[s].inbox = <<Refusal>>
  BY <1>1
<1>3. SeenPublished(s)' /\ Fresh(s)' /\ InOrder(s)' /\ UpToDate(s)'
  BY <1>1, <1>2, <1>r DEF SeenPublished, Fresh, InOrder, UpToDate, Alike
<1>4. NextIsDue(s)'
  BY <1>1, <1>2, <1>r DEF NextIsDue, Alike
<1> QED
  BY <1>3, <1>4 DEF InStepAt

(* The frames that arrive before a connection breaks are the first.        *)
LEMMA DropStep ==
    ASSUME TypeOK, NEW s \in Shards, InStepAt(s), Drop(s)
    PROVE  InStepAt(s)'
<1> DEFINE q == sock[s].inbox
           r == sock'[s].inbox
           l == Len(q)
<1>1. q \in Seq(Frame) /\ l \in Nat
  BY InboxType
<1>2. PICK n \in 0 .. l :
         sock' = [sock EXCEPT ![s].link = "down", ![s].subscribed = FALSE,
                              ![s].inbox = SubSeq(@, 1, n)]
  BY DEF Drop
<1>3. /\ pc' = pc /\ Alike(s) /\ due' = due
      /\ r = SubSeq(q, 1, n) /\ ~sock'[s].subscribed /\ sock'[s].shorn = sock[s].shorn
  <2>1. sock \in [Shards -> Connection] /\ sock[s] \in Connection
    BY DEF TypeOK
  <2>2. sock'[s] = [sock[s] EXCEPT !.link = "down", !.subscribed = FALSE,
                                   !.inbox = SubSeq(@, 1, n)]
    BY <1>2, <2>1
  <2>3. r = SubSeq(q, 1, n) /\ ~sock'[s].subscribed /\ sock'[s].shorn = sock[s].shorn
    BY <2>1, <2>2 DEF Connection
  <2> QED
    BY <2>3 DEF Drop, program, Alike
<1>4. r \in Seq(Frame) /\ Len(r) = n /\ n \in Nat /\ n <= l /\ \A i \in 1 .. n : r[i] = q[i]
  <2>1. n \in 0 .. Len(q) /\ n \in Nat /\ n <= l
    BY <1>1, <1>2
  <2> HIDE DEF q, r, l
  <2>2. /\ SubSeq(q, 1, n) \in Seq(Frame) /\ Len(SubSeq(q, 1, n)) = n
        /\ \A i \in 1 .. n : SubSeq(q, 1, n)[i] = q[i]
    BY <1>1, <2>1, Halves
  <2> QED
    BY <1>3, <2>1, <2>2
<1>5. SeenPublished(s) /\ Fresh(s) /\ InOrder(s) /\ NextIsDue(s)
  BY DEF InStepAt
<1>6. q = <<>> => r = <<>>
  <2> HIDE DEF r
  <2> SUFFICES ASSUME q = <<>> PROVE r = <<>>
    OBVIOUS
  <2>1. l = 0
    BY EmptySeq
  <2>2. Len(r) = 0
    BY <1>4, <2>1
  <2> QED
    BY <1>4, <2>2, Places
<1>7. SeenPublished(s)' /\ Fresh(s)' /\ UpToDate(s)'
  BY <1>3, <1>5, <1>6 DEF SeenPublished, Fresh, UpToDate, Alike
<1>8. CASE q = <<Refusal>>
  <2>1. r = <<>> \/ r = <<Refusal>>
    <3>1. l = 1 /\ q[1] = Refusal
      BY <1>8, OneElement DEF Frame
    <3> HIDE DEF q, r, l
    <3>2. Len(r) = 0 \/ Len(r) = 1
      BY <1>1, <1>4, <3>1
    <3>3. Len(r) = 0 => r = <<>>
      BY <1>4, Places
    <3>4. Len(r) = 1 => r = q
      <4>1. SUFFICES ASSUME Len(r) = 1 PROVE r = q
        OBVIOUS
      <4>2. \A i \in 1 .. Len(r) : r[i] = q[i]
        BY <1>4
      <4> QED
        BY <1>1, <1>4, <3>1, <4>1, <4>2, SeqEqual DEF l
    <3> QED
      BY <1>8, <3>2, <3>3, <3>4
  <2>2. <<>> # <<Refusal>> /\ Len(<<>>) = 0
    BY OneElement DEF Frame
  <2>3. InOrder(s)'
    BY <2>1, <2>2 DEF InOrder
  <2>4. NextIsDue(s)'
    BY <1>3, <1>5, <2>1 DEF NextIsDue, Alike
  <2> QED
    BY <1>7, <2>3, <2>4 DEF InStepAt
<1>9. CASE q # <<Refusal>>
  <2>1. \A i \in 1 .. l :
           /\ q[i] = q[1] + i - 1 /\ q[i] \in 1 .. published[s]
           /\ \A j \in 1 .. Len(read[s]) : read[s][j].clean => read[s][j].event < q[i]
    BY <1>5, <1>9 DEF InOrder
  <2>2. \A i \in 1 .. Len(r) : i \in 1 .. l /\ r[i] = q[i] /\ r[1] = q[1]
    <3> HIDE DEF q, r, l
    <3> QED
      BY <1>1, <1>4
  <2>3. InOrder(s)'
    <3> HIDE DEF q, l
    <3> QED
      BY <1>3, <2>1, <2>2 DEF InOrder, Alike
  <2>4. r # <<>> => q # <<>> /\ r[1] = q[1]
    <3>1. r # <<>> => Len(r) > 0
      BY <1>4, Places
    <3> HIDE DEF r, l, q
    <3> QED
      BY <1>4, <1>6, <2>2, <3>1
  <2>5. NextIsDue(s)'
    BY <1>3, <1>5, <1>9, <2>4 DEF NextIsDue, Alike
  <2> QED
    BY <1>7, <2>3, <2>5 DEF InStepAt
<1> QED
  BY <1>8, <1>9

(* A step of one worker leaves the others alone.                           *)
LEMMA Elsewhere ==
    ASSUME TypeOK, NEW s \in Shards, Worker(s) \/ Environment(s), NEW u \in Shards \ {s}
    PROVE  Calm(u) /\ clean'[u] = clean[u]
<1> DEFINE Same == /\ published'[u] = published[u] /\ read'[u] = read[u]
                   /\ sock'[u] = sock[u] /\ due'[u] = due[u] /\ pc'[u] = pc[u]
                   /\ clean'[u] = clean[u]
<1>t. sock \in [Shards -> Connection] /\ pc \in [Shards -> PCs]
  BY DEF TypeOK
<1>1. ASSUME Worker(s)
      PROVE  Same
  <2>1. CASE Acquire(s)
    BY <2>1 DEF TypeOK, Acquire, Goto, history, Quietly
  <2>2. CASE AcquireFails(s)
    BY <2>2 DEF TypeOK, AcquireFails, Goto, history, Raise
  <2>3. CASE StopAtTop(s)
    BY <2>3 DEF TypeOK, StopAtTop, Goto, history, Quietly
  <2>4. CASE RefuseOversized(s)
    BY <2>4 DEF TypeOK, RefuseOversized, Goto, history, Raise
  <2>5. CASE Subscribe(s)
    BY <2>5 DEF TypeOK, Subscribe, Goto, history, Quietly
  <2>6. CASE SubscribeFails(s)
    BY <2>6 DEF TypeOK, SubscribeFails, Goto, history, Quietly
  <2>7. CASE ReadEvent(s)
    BY <2>7 DEF TypeOK, ReadEvent, Goto, history, Quietly
  <2>8. CASE ReadRefusal(s)
    BY <2>8 DEF TypeOK, ReadRefusal, Goto, history, Raise
  <2>9. CASE ReadLost(s)
    BY <2>9 DEF TypeOK, ReadLost, Goto, history, Quietly
  <2>10. CASE ReadGarbage(s)
    BY <2>10 DEF TypeOK, ReadGarbage, Goto, history, Raise
  <2>11. CASE PollEnds(s)
    BY <2>11 DEF TypeOK, PollEnds, Goto, history, Quietly
  <2>12. CASE Put(s)
    BY <2>12 DEF TypeOK, Put, Goto, history, Quietly
  <2>13. CASE Exhaust(s)
    BY <2>13 DEF TypeOK, Exhaust, Goto, history, Raise
  <2>14. CASE BackoffOverflows(s)
    BY <2>14 DEF TypeOK, BackoffOverflows, Goto, history, Raise
  <2>15. CASE Backoff(s)
    BY <2>15 DEF TypeOK, Backoff, Goto, history, Quietly
  <2>16. CASE Wake(s)
    BY <2>16 DEF TypeOK, Wake, Goto, history, Quietly
  <2>17. CASE WaitClosed(s)
    BY <2>17 DEF TypeOK, WaitClosed, Goto, history, Quietly
  <2>18. CASE Establish(s)
    BY <2>18 DEF TypeOK, Establish, Goto, history, Quietly
  <2>19. CASE RedialFails(s)
    BY <2>19 DEF TypeOK, RedialFails, Goto, history, Quietly
  <2>20. CASE HandshakeRejected(s)
    BY <2>20 DEF TypeOK, HandshakeRejected, Goto, history, Raise
  <2>21. CASE CancelHits(s)
    BY <2>21 DEF TypeOK, CancelHits, Goto, history, consumer
  <2>22. CASE CancelSwallowed(s)
    BY <2>22 DEF TypeOK, CancelSwallowed, Goto, history, consumer
  <2> QED
    BY <1>1, <2>1, <2>2, <2>3, <2>4, <2>5, <2>6, <2>7, <2>8, <2>9, <2>10, <2>11, <2>12, <2>13, <2>14, <2>15, <2>16, <2>17, <2>18, <2>19, <2>20, <2>21, <2>22 DEF Worker
<1>2. ASSUME Environment(s)
      PROVE  Same
  <2>1. pc' = pc /\ read' = read /\ due' = due /\ clean' = clean
    BY <1>2 DEF Environment, Publish, RefuseSubscription, Drop, CallAfter, program
  <2>2. published'[u] = published[u] /\ sock'[u] = sock[u]
    BY <1>2 DEF TypeOK, Environment, Publish, RefuseSubscription, Drop, CallAfter
  <2> QED
    BY <2>1, <2>2
<1> QED
  BY <1>1, <1>2 DEF Calm, Alike

(* Each step of a worker is in step with its connection.                   *)
LEMMA WorkerStep ==
    ASSUME TypeOK, NEW s \in Shards, InStepAt(s), Worker(s), clean'[s]
    PROVE  InStepAt(s)'
<1>t. /\ pc \in [Shards -> PCs] /\ sock \in [Shards -> Connection] /\ sock[s] \in Connection
      /\ sock[s].inbox \in Seq(Frame)
  BY InboxType DEF TypeOK
<1>1. CASE Acquire(s)
  <2>1. Renewed(s)
    <3>1. sock' = [sock EXCEPT ![s] = Socket("up")]
      BY <1>1 DEF Acquire, TypeOK
    <3> QED
      BY <1>t, <1>1, <3>1 DEF Acquire, Goto, Renewed, Alike, Socket, Starting
  <2> QED
    BY <2>1, RenewedStep DEF InStepAt
<1>2. CASE AcquireFails(s)
  <2>1. Calm(s)
    BY <1>t, <1>2 DEF AcquireFails, At, Raise, Goto, history, Calm, Alike, Starting, Reading
  <2> QED
    BY <2>1, CalmStep
<1>3. CASE StopAtTop(s)
  <2>1. Calm(s)
    BY <1>t, <1>3 DEF StopAtTop, At, Quietly, Goto, history, Calm, Alike, Starting, Reading
  <2> QED
    BY <2>1, CalmStep
<1>4. CASE RefuseOversized(s)
  <2>1. Calm(s)
    BY <1>t, <1>4 DEF RefuseOversized, At, Raise, Goto, history, Calm, Alike, Starting, Reading
  <2> QED
    BY <2>1, CalmStep
<1>5. CASE Subscribe(s)
  BY <1>5, SubscribeStep
<1>6. CASE SubscribeFails(s)
  <2>1. Calm(s)
    BY <1>t, <1>6 DEF SubscribeFails, At, Quietly, Goto, history, Calm, Alike, Starting, Reading
  <2> QED
    BY <2>1, CalmStep
<1>7. CASE ReadEvent(s)
  BY <1>7, ReadStep
<1>8. CASE ReadRefusal(s)
  <2> DEFINE q == sock[s].inbox
  <2>1. q # <<>> /\ sock' = [sock EXCEPT ![s].inbox = Tail(@)] /\ pc' = [pc EXCEPT ![s] = "done"]
        /\ UNCHANGED history
    BY <1>8 DEF ReadRefusal, Raise, Goto
  <2>2. 1 \in 1 .. Len(q) /\ Tail(q) = SubSeq(q, 1 + 1, Len(q))
    <3>1. Len(q) \in Nat /\ Len(q) > 0 /\ Tail(q) = SubSeq(q, 2, Len(q))
      BY <1>t, <2>1, Places, TailIsSubSeq
    <3> HIDE DEF q
    <3> QED
      BY <3>1
  <2>3. pc'[s] = "done" /\ sock'[s].inbox = Tail(q) /\ sock'[s].subscribed = sock[s].subscribed
    BY <1>t, <2>1 DEF Connection
  <2>4. Skipped(s)
    BY <2>1, <2>2, <2>3 DEF Skipped, Alike, history, Starting, Reading
  <2> QED
    BY <2>4, SkippedStep
<1>9. CASE ReadLost(s)
  <2>1. Calm(s)
    BY <1>t, <1>9 DEF ReadLost, At, Quietly, Goto, history, Calm, Alike, Starting, Reading
  <2> QED
    BY <2>1, CalmStep
<1>10. CASE ReadGarbage(s)
  <2>1. Calm(s)
    BY <1>t, <1>10 DEF ReadGarbage, At, Raise, Goto, history, Calm, Alike, Starting, Reading
  <2> QED
    BY <2>1, CalmStep
<1>11. CASE PollEnds(s)
  <2>1. /\ pc[s] = "read" /\ pc'[s] \in {"read", "done"} /\ Alike(s)
    BY <1>t, <1>11 DEF PollEnds, Goto, Quietly, Alike
  <2>2. CASE UNCHANGED <<sock, due>>
    <3>1. Calm(s)
      BY <2>1, <2>2 DEF Calm, Starting, Reading
    <3> QED
      BY <3>1, CalmStep
  <2>3. CASE sock' = [sock EXCEPT ![s].shorn = TRUE] /\ due' = [due EXCEPT ![s] = 0]
    <3>1. sock'[s].inbox = sock[s].inbox /\ sock'[s].subscribed = sock[s].subscribed
      BY <1>t, <2>3 DEF Connection
    <3>2. due'[s] = 0
      BY <2>3 DEF TypeOK
    <3>3. Sheared(s)
      BY <2>1, <3>1, <3>2 DEF Sheared, Starting
    <3> QED
      BY <3>3, ShearedStep
  <2>4. ASSUME sock[s].shorn, due' = due,
               NEW m \in 1 .. Len(sock[s].inbox), NEW still \in BOOLEAN,
               sock' = [sock EXCEPT ![s].shorn = still,
                                    ![s].inbox = SubSeq(@, m + 1, Len(@))]
        PROVE  InStepAt(s)'
    <3>1. sock'[s] = [sock[s] EXCEPT !.shorn = still, !.inbox = SubSeq(@, m + 1, Len(@))]
      BY <1>t, <2>4
    <3>2. /\ sock'[s].inbox = SubSeq(sock[s].inbox, m + 1, Len(sock[s].inbox))
          /\ sock'[s].subscribed = sock[s].subscribed
      BY <1>t, <3>1 DEF Connection
    <3>3. Skipped(s)
      BY <2>1, <2>4, <3>2 DEF Skipped, Starting
    <3> QED
      BY <3>3, SkippedStep
  <2> QED
    BY <1>11, <2>2, <2>3, <2>4 DEF PollEnds
<1>12. CASE Put(s)
  <2>1. Calm(s)
    BY <1>t, <1>12 DEF Put, At, Quietly, Goto, history, Calm, Alike, Starting, Reading
  <2> QED
    BY <2>1, CalmStep
<1>13. CASE Exhaust(s)
  <2>1. Calm(s)
    BY <1>t, <1>13 DEF Exhaust, At, Raise, Goto, history, Calm, Alike, Starting, Reading
  <2> QED
    BY <2>1, CalmStep
<1>14. CASE BackoffOverflows(s)
  <2>1. Calm(s)
    BY <1>t, <1>14 DEF BackoffOverflows, At, Raise, Goto, history, Calm, Alike, Starting, Reading
  <2> QED
    BY <2>1, CalmStep
<1>15. CASE Backoff(s)
  <2>1. Calm(s)
    BY <1>t, <1>15 DEF Backoff, At, Quietly, Goto, history, Calm, Alike, Starting, Reading
  <2> QED
    BY <2>1, CalmStep
<1>16. CASE Wake(s)
  <2>1. Renewed(s)
    BY <1>t, <1>16 DEF Wake, Quietly, Goto, history, Renewed, Alike, Socket, Starting
  <2> QED
    BY <2>1, RenewedStep DEF InStepAt
<1>17. CASE WaitClosed(s)
  <2>1. Calm(s)
    BY <1>t, <1>17 DEF WaitClosed, At, Quietly, Goto, history, Calm, Alike, Starting, Reading
  <2> QED
    BY <2>1, CalmStep
<1>18. CASE Establish(s)
  <2>1. Renewed(s)
    BY <1>t, <1>18 DEF Establish, Quietly, Goto, history, Renewed, Alike, Socket, Starting
  <2> QED
    BY <2>1, RenewedStep DEF InStepAt
<1>19. CASE RedialFails(s)
  <2>1. Calm(s)
    BY <1>t, <1>19 DEF RedialFails, At, Quietly, Goto, history, Calm, Alike, Starting, Reading
  <2> QED
    BY <2>1, CalmStep
<1>20. CASE HandshakeRejected(s)
  <2>1. Calm(s)
    BY <1>t, <1>20 DEF HandshakeRejected, At, Raise, Goto, history, Calm, Alike, Starting, Reading
  <2> QED
    BY <2>1, CalmStep
<1>21. CASE CancelHits(s)
  <2>1. pc'[s] = "done" /\ Alike(s) /\ due' = due
    BY <1>t, <1>21 DEF CancelHits, Goto, history, Alike
  <2>2. \/ sock' = sock \/ sock' = [sock EXCEPT ![s].shorn = TRUE]
    BY <1>21 DEF CancelHits
  <2>3. sock'[s].inbox = sock[s].inbox /\ sock'[s].subscribed = sock[s].subscribed
    BY <1>t, <2>2 DEF Connection
  <2>4. Sheared(s)
    BY <2>1, <2>3 DEF Sheared, Starting, Reading
  <2> QED
    BY <2>4, ShearedStep
<1>22. CASE CancelSwallowed(s)
  <2>1. Calm(s)
    BY <1>t, <1>22 DEF CancelSwallowed, At, consumer, Goto, history, Calm, Alike, Starting, Reading
  <2> QED
    BY <2>1, CalmStep
<1> QED
  BY <1>1, <1>2, <1>3, <1>4, <1>5, <1>6, <1>7, <1>8, <1>9, <1>10, <1>11, <1>12, <1>13, <1>14, <1>15, <1>16, <1>17, <1>18, <1>19, <1>20, <1>21, <1>22 DEF Worker

(* So is each of its server and of the network.                            *)
LEMMA EnvironmentStep ==
    ASSUME TypeOK, NEW s \in Shards, InStepAt(s), Environment(s), clean[s]
    PROVE  InStepAt(s)'
<1>1. CASE CallAfter(s)
  <2> DEFINE q == sock[s].inbox
  <2>1. /\ pc[s] = "done" /\ pc' = pc /\ Alike(s) /\ due' = due
        /\ sock' = sock \/ (q # <<>> /\ sock' = [sock EXCEPT ![s].inbox = Tail(@)])
    BY <1>1 DEF CallAfter, program, Alike
  <2>2. CASE sock' = sock
    <3>1. Calm(s)
      BY <2>1, <2>2 DEF Calm
    <3> QED
      BY <3>1, CalmStep
  <2>3. CASE q # <<>> /\ sock' = [sock EXCEPT ![s].inbox = Tail(@)]
    <3>1. q \in Seq(Frame) /\ sock \in [Shards -> Connection]
      BY InboxType DEF TypeOK
    <3>2. 1 \in 1 .. Len(q) /\ Tail(q) = SubSeq(q, 1 + 1, Len(q))
      <4>1. Len(q) \in Nat /\ Len(q) > 0 /\ Tail(q) = SubSeq(q, 2, Len(q))
        BY <2>3, <3>1, Places, TailIsSubSeq
      <4> HIDE DEF q
      <4> QED
        BY <4>1
    <3>3. sock'[s].inbox = Tail(q) /\ sock'[s].subscribed = sock[s].subscribed
      BY <2>3, <3>1 DEF Connection
    <3>4. Skipped(s)
      BY <2>1, <3>2, <3>3 DEF Skipped, Starting, Reading
    <3> QED
      BY <3>4, SkippedStep
  <2> QED
    BY <2>1, <2>2, <2>3
<1> QED
  BY <1>1, PublishStep, RefusedStep, DropStep DEF Environment

(* What ReadEvent adds to what was read.                                   *)
LEMMA ReadAppends ==
    ASSUME TypeOK, NEW s \in Shards, ReadEvent(s)
    PROVE  LET l == Len(read[s])
           IN  /\ Len(read'[s]) = l + 1 /\ \A i \in 1 .. l : read'[s][i] = read[s][i]
               /\ read'[s][l + 1] = [event |-> sock[s].inbox[1], due |-> due[s],
                                     clean |-> clean[s]]
<1> DEFINE q == sock[s].inbox
           x == [event |-> q[1], due |-> due[s], clean |-> clean[s]]
           l == Len(read[s])
<1>1. q \in Seq(Frame) /\ read[s] \in Seq(Readings) /\ l \in Nat
  BY InboxType
<1>2. Head(q) = q[1]
  BY <1>1 DEF ReadEvent
<1>3. read'[s] = Append(read[s], x)
  BY <1>2 DEF ReadEvent, TypeOK
<1> HIDE DEF x
<1> QED
  BY <1>1, <1>3 DEF x

(* A connection becomes clean when the old one is closed, and is no longer *)
(* when the pool hands out a used one.                                     *)
LEMMA Changes ==
    ASSUME TypeOK, NEW s \in Shards, Worker(s) \/ Environment(s), SeenPublished(s),
           clean[s] # clean'[s]
    PROVE  SeenPublished(s)' /\ (clean'[s] => InStepAt(s)')
<1>1. Acquire(s) \/ Wake(s)
  BY DEF Worker, Environment, AcquireFails, StopAtTop, RefuseOversized, Subscribe,
         SubscribeFails, ReadEvent, ReadRefusal, ReadLost, ReadGarbage, PollEnds, Put,
         Exhaust, BackoffOverflows, Backoff, WaitClosed, Establish, RedialFails,
         HandshakeRejected, CancelHits, CancelSwallowed, Publish, RefuseSubscription,
         Drop, CallAfter, history
<1>2. UNCHANGED <<published, read>>
  BY <1>1 DEF Acquire, Wake
<1>3. SeenPublished(s)'
  BY <1>2 DEF SeenPublished
<1>4. ASSUME clean'[s]
      PROVE  Renewed(s)
  <2>1. PICK x \in {"none", "up"} : sock' = [sock EXCEPT ![s] = Socket(x)]
    BY <1>1, <1>4 DEF Acquire, Wake, TypeOK
  <2>3. sock'[s] = Socket(x)
    BY <2>1 DEF TypeOK
  <2>2. pc'[s] \in Starting
    BY <1>1 DEF Acquire, Wake, Goto, TypeOK, Starting
  <2> QED
    BY <1>2, <2>2, <2>3 DEF Renewed, Alike, Socket
<1> QED
  BY <1>3, <1>4, RenewedStep

(* What is read from a used connection is marked.                          *)
LEMMA UsedStep ==
    ASSUME TypeOK, NEW s \in Shards, Worker(s) \/ Environment(s), SeenPublished(s),
           ~clean[s]
    PROVE  SeenPublished(s)'
<1>1. CASE ReadEvent(s)
  <2> DEFINE l == Len(read[s])
             x == [event |-> sock[s].inbox[1], due |-> due[s], clean |-> clean[s]]
  <2>1. /\ Len(read'[s]) = l + 1 /\ \A i \in 1 .. l : read'[s][i] = read[s][i]
        /\ read'[s][l + 1] = x
    BY <1>1, ReadAppends
  <2>2. ~x.clean /\ l \in Nat
    BY InboxType
  <2>3. published' = published
    BY <1>1 DEF ReadEvent
  <2> HIDE DEF x, l
  <2>4. \A i \in 1 .. l + 1 : i \in 1 .. l \/ i = l + 1
    BY <2>2
  <2> QED
    BY <2>1, <2>2, <2>3, <2>4 DEF SeenPublished, l
<1>2. CASE ~ReadEvent(s)
  <2>1. read' = read
    BY <1>2 DEF Worker, Environment, Acquire, AcquireFails, StopAtTop, RefuseOversized,
         Subscribe, SubscribeFails, ReadRefusal, ReadLost, ReadGarbage, PollEnds, Put,
         Exhaust, BackoffOverflows, Backoff, Wake, WaitClosed, Establish, RedialFails,
         HandshakeRejected, CancelHits, CancelSwallowed, Publish, RefuseSubscription,
         Drop, CallAfter, history, program
  <2>2. published' = published \/ Publish(s)
    BY DEF Worker, Environment, Acquire, AcquireFails, StopAtTop, RefuseOversized,
         Subscribe, SubscribeFails, ReadEvent, ReadRefusal, ReadLost, ReadGarbage, PollEnds, Put,
         Exhaust, BackoffOverflows, Backoff, Wake, WaitClosed, Establish, RedialFails,
         HandshakeRejected, CancelHits, CancelSwallowed, RefuseSubscription,
         Drop, CallAfter, history, program
  <2>4. published[s] \in Nat /\ published'[s] \in {published[s], published[s] + 1}
    BY <2>2, InboxType DEF Publish, TypeOK
  <2>3. \A i \in 1 .. Len(read[s]) : read[s][i].event \in Int
    BY InboxType, Bounds DEF Readings, Event
  <2> QED
    BY <2>1, <2>3, <2>4 DEF SeenPublished
<1> QED
  BY <1>1, <1>2

(* InStep is kept.                                                         *)
LEMMA StepInStep == TypeOK /\ InStep /\ [Next]_vars => InStep'
<1> SUFFICES ASSUME TypeOK, InStep, [Next]_vars, NEW u \in Shards
             PROVE  SeenPublished(u)' /\ (clean'[u] => InStepAt(u)')
  BY DEF InStep, InStepAt
<1>1. SeenPublished(u) /\ (clean[u] => InStepAt(u))
  BY DEF InStep, InStepAt
<1>2. CASE \E s \in Shards : Worker(s) \/ Environment(s)
  <2>1. PICK s \in Shards : Worker(s) \/ Environment(s)
    BY <1>2
  <2>2. CASE u = s
    <3>1. CASE clean[u] /\ clean'[u]
      <4>1. InStepAt(u)'
        BY <1>1, <2>1, <2>2, <3>1, WorkerStep, EnvironmentStep
      <4> QED
        BY <4>1 DEF InStepAt
    <3>2. CASE clean[u] # clean'[u]
      BY <1>1, <2>1, <2>2, <3>2, Changes DEF InStepAt
    <3>3. CASE ~clean[u] /\ ~clean'[u]
      BY <1>1, <2>1, <2>2, <3>3, UsedStep
    <3> QED
      BY <3>1, <3>2, <3>3 DEF TypeOK
  <2>3. CASE u # s
    <3>1. Calm(u) /\ clean'[u] = clean[u]
      BY <2>1, <2>3, Elsewhere
    <3> QED
      BY <1>1, <3>1, CalmStep DEF SeenPublished, Calm, Alike
  <2> QED
    BY <2>2, <2>3
<1>3. CASE Generator \/ Silence \/ UNCHANGED vars
  <2>1. UNCHANGED <<pc, sock, published, read, due, clean>>
    BY <1>3 DEF Generator, GetEvent, GetError, Resume, Leave, Join, Silence, history, vars
  <2>2. Calm(u) /\ clean'[u] = clean[u]
    BY <2>1 DEF Calm, Alike
  <2> QED
    BY <1>1, <2>2, CalmStep DEF SeenPublished, Calm, Alike
<1> QED
  BY <1>2, <1>3 DEF Next

(* Gapless is kept: what is read is later than all that was, and due.      *)
LEMMA StepGapless == TypeOK /\ InStep /\ Gapless /\ [Next]_vars => Gapless'
<1> SUFFICES ASSUME TypeOK, InStep, Gapless, [Next]_vars, NEW u \in Shards
             PROVE  \A i \in 1 .. Len(read'[u]) : read'[u][i].clean =>
                       /\ read'[u][i].due \in {0, read'[u][i].event}
                       /\ \A j \in 1 .. i - 1 :
                             read'[u][j].clean => read'[u][j].event < read'[u][i].event
  BY DEF Gapless
<1>1. \A i \in 1 .. Len(read[u]) : read[u][i].clean =>
         /\ read[u][i].due \in {0, read[u][i].event}
         /\ \A j \in 1 .. i - 1 :
               read[u][j].clean => read[u][j].event < read[u][i].event
  BY DEF Gapless
<1>2. CASE read'[u] = read[u]
  BY <1>1, <1>2
<1>3. CASE ReadEvent(u)
  <2> DEFINE l == Len(read[u])
             e == sock[u].inbox[1]
             x == [event |-> e, due |-> due[u], clean |-> clean[u]]
  <2>1. /\ Len(read'[u]) = l + 1 /\ \A i \in 1 .. l : read'[u][i] = read[u][i]
        /\ read'[u][l + 1] = x
    BY <1>3, ReadAppends
  <2>2. clean[u] => due[u] \in {0, e} /\ \A j \in 1 .. l : read[u][j].clean => read[u][j].event < e
    <3> SUFFICES ASSUME clean[u]
                 PROVE  due[u] \in {0, e} /\ \A j \in 1 .. l : read[u][j].clean => read[u][j].event < e
      OBVIOUS
    <3>1. InStepAt(u)
      BY DEF InStep, InStepAt
    <3> QED
      BY <1>3, <3>1, ReadStep
  <2>3. l \in Nat
    BY InboxType
  <2>4. x.event = e /\ x.due = due[u] /\ x.clean = clean[u]
    OBVIOUS
  <2> HIDE DEF l, e, x
  <2> SUFFICES ASSUME NEW i \in 1 .. l + 1, read'[u][i].clean
               PROVE  /\ read'[u][i].due \in {0, read'[u][i].event}
                      /\ \A j \in 1 .. i - 1 :
                            read'[u][j].clean => read'[u][j].event < read'[u][i].event
    BY <2>1
  <2>5. i - 1 \in Int /\ \A j \in 1 .. i - 1 : j \in 1 .. l /\ read'[u][j] = read[u][j]
    BY <2>1, <2>3
  <2>6. CASE i \in 1 .. l
    <3>1. read'[u][i] = read[u][i]
      BY <2>1, <2>6
    <3> QED
      BY <1>1, <2>5, <2>6, <3>1 DEF l
  <2>7. CASE i = l + 1
    <3>1. read'[u][i] = x
      BY <2>1, <2>7
    <3> QED
      BY <2>2, <2>4, <2>5, <3>1
  <2> QED
    BY <2>3, <2>6, <2>7
<1>4. read'[u] = read[u] \/ ReadEvent(u)
  <2>1. CASE \E s \in Shards : ReadEvent(s)
    BY <2>1 DEF ReadEvent, TypeOK
  <2>2. CASE ~ \E s \in Shards : ReadEvent(s)
    <3>1. Passes \/ Raises \/ (\E s \in Shards : Put(s)) \/ GetEvent \/ GetError
      BY <2>2, Touches
    <3> QED
      BY <3>1 DEF Passes, Raises, Put, GetEvent, GetError, history
  <2> QED
    BY <2>1, <2>2
<1> QED
  BY <1>2, <1>3, <1>4

-----------------------------------------------------------------------------
(* A stream gives up when its attempts are spent.                          *)

CountAt(s) ==
    /\ pc[s] = "lost" => losses[s] = attempt[s] + 1
    /\ pc[s] \notin {"lost", "done"} => losses[s] = attempt[s]
    /\ pc[s] # "done" /\ Limited => attempt[s] <= client.maxAttempts
    /\ pc[s] # "done" => attempt[s] <= LastDelay
    /\ Limited => losses[s] <= client.maxAttempts + 1
Spent(x) ==
    /\ x.error # "none" => pc[x.shard] = "done"
    /\ x.error = "lost" => Limited /\ losses[x.shard] = client.maxAttempts + 1
    /\ x.error = "overflow" => losses[x.shard] = LastDelay + 1
AllSpent == \A i \in 1 .. Len(queue) : Spent(queue[i])

(* What a step does to the count of a worker: nothing, as it goes on or    *)
(* ends; one loss more;                                                    *)
Error(s, e) == [shard |-> s, event |-> 0, error |-> e]
Moves(s) ==
    /\ pc[s] \notin {"lost", "done"} /\ pc'[s] # "lost" /\ UNCHANGED <<attempt, losses>>
    /\ queue' = queue \/ (queue' = Append(queue, Error(s, "final")) /\ pc'[s] = "done")
Loses(s) ==
    /\ pc[s] \notin {"lost", "done"} /\ pc'[s] = "lost" /\ UNCHANGED <<attempt, queue>>
    /\ losses' = [losses EXCEPT ![s] = @ + 1]
(* none any more; one attempt more, the last of which ends it.             *)
Clears(s) ==
    /\ pc[s] = "put" /\ losses' = [losses EXCEPT ![s] = 0]
    /\ \/ pc'[s] = "done" /\ attempt' = attempt
       \/ pc'[s] = "read" /\ attempt' = [attempt EXCEPT ![s] = 0]
    /\ \E e \in Event : queue' = Append(queue, [shard |-> s, event |-> e, error |-> "none"])
Retries(s) ==
    /\ pc[s] = "lost" /\ pc'[s] = "sleep" /\ UNCHANGED <<losses, queue>>
    /\ attempt' = [attempt EXCEPT ![s] = @ + 1]
    /\ ~Exhausted(attempt[s] + 1) /\ ~DelayOverflows(attempt[s] + 1)
GivesUp(s, e) ==
    /\ pc[s] = "lost" /\ pc'[s] = "done" /\ UNCHANGED losses
    /\ attempt' = [attempt EXCEPT ![s] = @ + 1]
    /\ queue' = Append(queue, Error(s, e))
    /\ \/ e = "lost" /\ Exhausted(attempt[s] + 1)
       \/ e = "overflow" /\ DelayOverflows(attempt[s] + 1)
Counts(s) ==
    /\ \A u \in Shards \ {s} : pc'[u] = pc[u]
    /\ Moves(s) \/ Loses(s) \/ Clears(s) \/ Retries(s) \/ \E e \in Errors : GivesUp(s, e)
Rests ==
    /\ UNCHANGED <<pc, attempt, losses>>
    /\ queue' = queue \/ (queue # <<>> /\ queue' = Tail(queue))

(* Each step does one of these.                                            *)
LEMMA Counting ==
    ASSUME TypeOK, TypeOK', EventsKept, [Next]_vars
    PROVE  client' = client /\ (Rests \/ \E s \in Shards : Counts(s))
<1>t. pc \in [Shards -> PCs]
  BY DEF TypeOK
<1>1. ASSUME NEW s \in Shards, Worker(s)
      PROVE  client' = client /\ Counts(s)
  <2>c. client' = client /\ \A u \in Shards \ {s} : pc'[u] = pc[u]
    BY <1>t, <1>1 DEF Worker, Acquire, AcquireFails, StopAtTop, RefuseOversized, Subscribe,
         SubscribeFails, ReadEvent, ReadRefusal, ReadLost, ReadGarbage, PollEnds, Put,
         Exhaust, BackoffOverflows, Backoff, Wake, WaitClosed, Establish, RedialFails,
         HandshakeRejected, CancelHits, CancelSwallowed, Quietly, Raise, Goto
  <2>1. CASE Acquire(s) \/ StopAtTop(s) \/ Subscribe(s) \/ ReadEvent(s)
    BY <1>t, <2>c, <2>1 DEF Acquire, StopAtTop, Subscribe, ReadEvent, At, Goto, Quietly,
                            consumer, history, Counts, Moves
  <2>2. CASE PollEnds(s) \/ Wake(s) \/ WaitClosed(s)
    BY <1>t, <2>c, <2>2 DEF PollEnds, Wake, WaitClosed, At, Goto, Quietly, consumer,
                            history, Counts, Moves
  <2>3. CASE Establish(s) \/ RedialFails(s) \/ CancelHits(s) \/ CancelSwallowed(s)
    BY <1>t, <2>c, <2>3 DEF Establish, RedialFails, CancelHits, CancelSwallowed, At, Goto,
                            Quietly, consumer, history, Counts, Moves
  <2>4. CASE AcquireFails(s) \/ RefuseOversized(s) \/ ReadRefusal(s)
    BY <1>t, <2>c, <2>4 DEF AcquireFails, RefuseOversized, ReadRefusal, At, Goto, Raise,
                            history, Counts, Moves, Error
  <2>5. CASE ReadGarbage(s) \/ HandshakeRejected(s)
    BY <1>t, <2>c, <2>5 DEF ReadGarbage, HandshakeRejected, At, Goto, Raise, history,
                            Counts, Moves, Error
  <2>6. CASE SubscribeFails(s) \/ ReadLost(s)
    BY <1>t, <2>c, <2>6 DEF SubscribeFails, ReadLost, At, Goto, Quietly, consumer, Counts,
                            Loses
  <2>7. CASE Put(s)
    <3> DEFINE e == read[s][Len(read[s])].event
    <3>1. e \in Event
      BY <2>7, LastRead DEF Put
    <3>2. queue' = Append(queue, [shard |-> s, event |-> e, error |-> "none"])
      BY <2>7 DEF Put
    <3>3. /\ pc[s] = "put" /\ losses' = [losses EXCEPT ![s] = 0]
          /\ \/ pc'[s] = "done" /\ attempt' = attempt
             \/ pc'[s] = "read" /\ attempt' = [attempt EXCEPT ![s] = 0]
      BY <1>t, <2>7 DEF Put, Goto
    <3> HIDE DEF e
    <3>4. Clears(s)
      BY <3>1, <3>2, <3>3 DEF Clears
    <3> QED
      BY <2>c, <3>4 DEF Counts
  <2>8. CASE Exhaust(s)
    <3>1. GivesUp(s, "lost")
      BY <1>t, <2>8 DEF Exhaust, Goto, Raise, history, GivesUp, Error
    <3> QED
      BY <2>c, <3>1 DEF Counts, Errors
  <2>9. CASE BackoffOverflows(s)
    <3>1. GivesUp(s, "overflow")
      BY <1>t, <2>9 DEF BackoffOverflows, Goto, Raise, history, GivesUp, Error
    <3> QED
      BY <2>c, <3>1 DEF Counts, Errors
  <2>10. CASE Backoff(s)
    BY <1>t, <2>c, <2>10 DEF Backoff, Goto, Quietly, consumer, history, Counts, Retries
  <2> QED
    BY <1>1, <2>c, <2>1, <2>2, <2>3, <2>4, <2>5, <2>6, <2>7, <2>8, <2>9, <2>10 DEF Worker
<1>2. ASSUME NEW s \in Shards, Environment(s)
      PROVE  client' = client /\ Rests
  BY <1>2 DEF Environment, Publish, RefuseSubscription, Drop, CallAfter, program, Rests
<1>3. CASE Generator
  BY <1>3 DEF Generator, GetEvent, GetError, Resume, Leave, Join, Close, history, Rests
<1>4. CASE UNCHANGED vars
  BY <1>4 DEF vars, Rests
<1> QED
  BY <1>1, <1>2, <1>3, <1>4 DEF Next, Silence

(* The numbers that are compared.                                          *)
LEMMA CountTypes ==
    ASSUME TypeOK
    PROVE  /\ attempt \in [Shards -> Nat] /\ losses \in [Shards -> Nat] /\ LastDelay \in Nat
           /\ Limited => client.maxAttempts \in Nat
           /\ Unlimited \notin Nat
<1>1. client \in [aio : BOOLEAN, maxAttempts : Nat \cup {Unlimited}]
  BY StreamAssumption DEF TypeOK
<1> QED
  BY <1>1, StreamAssumption DEF TypeOK, Limited

(* The count of each worker is kept.                                       *)
LEMMA CountStep ==
    ASSUME TypeOK, client' = client, NEW s \in Shards, Counts(s),
           NEW u \in Shards, CountAt(u)
    PROVE  CountAt(u)'
<1> DEFINE max == client.maxAttempts
<1>1. /\ attempt \in [Shards -> Nat] /\ losses \in [Shards -> Nat] /\ LastDelay \in Nat
      /\ Limited => max \in Nat
      /\ attempt[u] \in Nat /\ losses[u] \in Nat
  BY CountTypes
<1>2. Limited' = Limited /\ max' = max
  BY DEF Limited
<1> HIDE DEF max
<1>3. CASE u # s
  <2>1. pc'[u] = pc[u] /\ attempt'[u] = attempt[u] /\ losses'[u] = losses[u]
    BY <1>1, <1>3 DEF Counts, Moves, Loses, Clears, Retries, GivesUp
  <2> QED
    BY <1>2, <2>1 DEF CountAt, max
<1>4. CASE u = s
  <2>1. CASE Moves(s)
    BY <1>2, <1>4, <2>1 DEF Moves, CountAt, max
  <2>2. CASE Loses(s)
    <3>1. /\ losses'[u] = losses[u] + 1 /\ attempt'[u] = attempt[u]
          /\ pc[u] \notin {"lost", "done"} /\ pc'[u] = "lost"
      BY <1>1, <1>4, <2>2 DEF Loses
    <3> QED
      BY <1>1, <1>2, <3>1 DEF CountAt, max
  <2>3. CASE Clears(s)
    <3>1. /\ losses'[u] = 0 /\ pc'[u] \in {"done", "read"}
          /\ pc'[u] = "read" => attempt'[u] = 0
      BY <1>1, <1>4, <2>3 DEF Clears
    <3> QED
      BY <1>1, <1>2, <3>1 DEF CountAt, max
  <2>4. CASE Retries(s)
    <3>1. /\ losses'[u] = losses[u] /\ attempt'[u] = attempt[u] + 1
          /\ pc[u] = "lost" /\ pc'[u] = "sleep"
      BY <1>1, <1>4, <2>4 DEF Retries
    <3>2. attempt[u] + 1 <= LastDelay /\ (Limited => attempt[u] + 1 <= max)
      BY <1>1, <1>4, <2>4 DEF Retries, Exhausted, DelayOverflows, Limited, max
    <3> QED
      BY <1>1, <1>2, <3>1, <3>2 DEF CountAt, max
  <2>5. CASE \E e \in Errors : GivesUp(s, e)
    <3>1. losses'[u] = losses[u] /\ pc'[u] = "done"
      BY <1>4, <2>5 DEF GivesUp
    <3> QED
      BY <1>2, <3>1 DEF CountAt, max
  <2> QED
    BY <2>1, <2>2, <2>3, <2>4, <2>5 DEF Counts
<1> QED
  BY <1>3, <1>4

(* A worker that is done counts no more.                                   *)
LEMMA DoneStays ==
    ASSUME TypeOK, NEW s \in Shards, Counts(s), NEW u \in Shards, pc[u] = "done"
    PROVE  pc'[u] = "done" /\ losses'[u] = losses[u]
<1>1. losses \in [Shards -> Nat]
  BY CountTypes
<1>2. u # s
  BY DEF Counts, Moves, Loses, Clears, Retries, GivesUp
<1> QED
  BY <1>1, <1>2 DEF Counts, Moves, Loses, Clears, Retries, GivesUp

(* The errors in the queue are those of workers that spent their attempts. *)
LEMMA SpentStep ==
    ASSUME TypeOK, client' = client, AllSpent, \A s \in Shards : CountAt(s),
           Rests \/ \E s \in Shards : Counts(s)
    PROVE  AllSpent'
<1> DEFINE max == client.maxAttempts
           Fits(x) == /\ x.error # "none" => pc'[x.shard] = "done"
                      /\ x.error = "lost" => Limited /\ losses'[x.shard] = max + 1
                      /\ x.error = "overflow" => losses'[x.shard] = LastDelay + 1
<1>1. /\ queue \in Seq(Entry) /\ Len(queue) \in Nat
      /\ \A i \in 1 .. Len(queue) : queue[i] \in Entry
  BY Places DEF TypeOK
<1>2. ASSUME NEW i \in 1 .. Len(queue)
      PROVE  Fits(queue[i])
  <2>1. queue[i].shard \in Shards
    BY <1>1 DEF Entry
  <2>2. Spent(queue[i])
    BY DEF AllSpent
  <2>3. queue[i].error # "none" => /\ pc'[queue[i].shard] = "done"
                                   /\ losses'[queue[i].shard] = losses[queue[i].shard]
    BY <2>1, <2>2, DoneStays DEF Spent, Rests
  <2> QED
    BY <2>2, <2>3 DEF Spent
<1>3. ASSUME \A i \in 1 .. Len(queue') : Fits(queue'[i])
      PROVE  AllSpent'
  BY <1>3 DEF AllSpent, Spent, Limited
<1>4. CASE queue' = queue
  BY <1>2, <1>3, <1>4
<1>5. CASE queue # <<>> /\ queue' = Tail(queue)
  <2>1. /\ Len(queue') = Len(queue) - 1
        /\ \A i \in 1 .. Len(queue') : queue'[i] = queue[i + 1]
    BY <1>1, <1>5, HeadTailProperties
  <2>2. \A i \in 1 .. Len(queue') : i + 1 \in 1 .. Len(queue)
    BY <1>1, <2>1
  <2> HIDE DEF Fits
  <2> QED
    BY <1>2, <1>3, <2>1, <2>2
<1>6. ASSUME NEW x \in Entry, queue' = Append(queue, x), Fits(x)
      PROVE  AllSpent'
  <2>1. /\ Len(queue') = Len(queue) + 1 /\ queue'[Len(queue) + 1] = x
        /\ \A i \in 1 .. Len(queue) : queue'[i] = queue[i]
    BY <1>1, <1>6, AppendProperties
  <2>2. \A i \in 1 .. Len(queue') : i \in 1 .. Len(queue) \/ i = Len(queue) + 1
    BY <1>1, <2>1
  <2> HIDE DEF Fits
  <2> QED
    BY <1>2, <1>3, <1>6, <2>1, <2>2
<1>7. ASSUME NEW s \in Shards, Counts(s), queue' # queue
      PROVE  \E x \in Entry : queue' = Append(queue, x) /\ Fits(x)
  <2>1. CASE Moves(s)
    <3>1. queue' = Append(queue, Error(s, "final")) /\ pc'[s] = "done"
      BY <1>7, <2>1 DEF Moves
    <3>2. /\ Error(s, "final") \in Entry /\ Error(s, "final").shard = s
          /\ Error(s, "final").error = "final"
      BY DEF Error, Entry, Frame, Refusal, Errors
    <3> QED
      BY <3>1, <3>2
  <2>2. CASE Clears(s)
    <3>1. PICK e \in Event :
             queue' = Append(queue, [shard |-> s, event |-> e, error |-> "none"])
      BY <2>2 DEF Clears
    <3>2. [shard |-> s, event |-> e, error |-> "none"] \in Entry
      BY DEF Entry, Frame
    <3> QED
      BY <3>1, <3>2
  <2>3. ASSUME NEW e \in Errors, GivesUp(s, e)
        PROVE  \E x \in Entry : queue' = Append(queue, x) /\ Fits(x)
    <3>1. /\ Error(s, e) \in Entry /\ Error(s, e).shard = s /\ Error(s, e).error = e
      BY DEF Error, Entry, Frame, Refusal
    <3>2. /\ attempt[s] \in Nat /\ losses[s] \in Nat /\ LastDelay \in Nat
          /\ Limited => max \in Nat
      BY CountTypes
    <3>3. /\ pc'[s] = "done" /\ losses'[s] = losses[s] /\ losses[s] = attempt[s] + 1
          /\ Limited => attempt[s] <= max
          /\ attempt[s] <= LastDelay
      BY <2>3 DEF GivesUp, CountAt
    <3>4. e = "lost" => Limited /\ attempt[s] + 1 > max
      BY <2>3 DEF GivesUp, Exhausted, Limited
    <3>5. e = "overflow" => attempt[s] + 1 > LastDelay
      BY <2>3 DEF GivesUp, DelayOverflows
    <3> HIDE DEF max
    <3>6. e = "lost" => Limited /\ losses'[s] = max + 1
      BY <3>2, <3>3, <3>4
    <3>7. e = "overflow" => losses'[s] = LastDelay + 1
      BY <3>2, <3>3, <3>5
    <3>8. queue' = Append(queue, Error(s, e))
      BY <2>3 DEF GivesUp
    <3> QED
      BY <3>1, <3>3, <3>6, <3>7, <3>8
  <2> QED
    BY <1>7, <2>1, <2>2, <2>3 DEF Counts, Loses, Retries
<1> QED
  BY <1>4, <1>5, <1>6, <1>7 DEF Rests

(* The count and what it says of the queue are kept.                       *)
LEMMA StepCounts ==
    TypeOK /\ TypeOK' /\ EventsKept /\ RetriesSpent /\ CountsLosses /\ ErrorsAreLast
    /\ [Next]_vars => RetriesSpent' /\ CountsLosses' /\ ErrorsAreLast'
<1> SUFFICES ASSUME TypeOK, TypeOK', EventsKept, RetriesSpent, CountsLosses,
                    ErrorsAreLast, [Next]_vars
             PROVE  RetriesSpent' /\ CountsLosses' /\ ErrorsAreLast'
  OBVIOUS
<1>1. AllSpent /\ \A s \in Shards : CountAt(s)
  <2>1. \A i \in 1 .. Len(queue) : queue[i] \in Entry
    BY Places DEF TypeOK
  <2>2. \A i \in 1 .. Len(queue) : queue[i].shard \in Shards
    BY <2>1 DEF Entry
  <2>3. AllSpent
    BY <2>2 DEF RetriesSpent, ErrorsAreLast, AllSpent, Spent
  <2> QED
    BY <2>3 DEF RetriesSpent, CountsLosses, CountAt
<1>2. client' = client /\ (Rests \/ \E s \in Shards : Counts(s))
  BY Counting
<1>3. AllSpent'
  BY <1>1, <1>2, SpentStep
<1>4. ASSUME NEW u \in Shards
      PROVE  CountAt(u)'
  <2>1. CASE Rests
    BY <1>1, <1>2, <2>1 DEF Rests, CountAt, Limited
  <2>2. CASE \E s \in Shards : Counts(s)
    BY <1>1, <1>2, <2>2, CountStep
  <2> QED
    BY <1>2, <2>1, <2>2
<1>5. /\ queue' \in Seq(Entry)
      /\ \A i \in 1 .. Len(queue') : queue'[i] \in Entry
  BY Places DEF TypeOK
<1> QED
  BY <1>3, <1>4, <1>5 DEF RetriesSpent, CountsLosses, ErrorsAreLast, AllSpent, Spent, CountAt

-----------------------------------------------------------------------------
(* The theorems.                                                           *)

IInv ==
    /\ TypeOK /\ EventsKept /\ InStep /\ Gapless
    /\ RetriesSpent /\ CountsLosses /\ ErrorsAreLast

(* The invariant holds before the workers start.                           *)
LEMMA InitIInv == Init => IInv
<1> SUFFICES ASSUME Init PROVE IInv
  OBVIOUS
<1>1. TypeOK
  <2>1. Socket("none") \in Connection
    BY EmptySeq DEF Socket, Connection
  <2>2. sock \in [Shards -> Connection]
    BY <2>1 DEF Init
  <2>3. /\ queue \in Seq(Entry) /\ delivered \in [Shards -> Seq(Event)]
        /\ read \in [Shards -> Seq(Readings)]
    BY EmptySeq DEF Init
  <2>4. /\ published \in [Shards -> 0 .. MaxEvents] /\ due \in [Shards -> 0 .. MaxEvents + 1]
        /\ failures \in 0 .. MaxFailures
    BY Bounds DEF Init
  <2> QED
    BY <2>2, <2>3, <2>4 DEF Init, TypeOK, PCs
<1>2. \A s \in Shards : /\ read[s] = <<>> /\ delivered[s] = <<>> /\ pc[s] = "acquire"
                        /\ sock[s].inbox = <<>> /\ ~sock[s].subscribed /\ ~sock[s].shorn
  BY DEF Init, Socket
<1>3. queue = <<>> /\ Len(<<>>) = 0
  BY DEF Init
<1>4. \A s \in Shards : Queued(s) = {}
  BY <1>3 DEF Queued
<1>5. EventsKept
  <2>1. Cardinality({}) = 0
    BY FS_EmptySet
  <2>2. ASSUME NEW s \in Shards
        PROVE  KeptAt(s)
    <3>1. Len(read[s]) = 0 /\ Len(delivered[s]) = 0 /\ Cardinality(Queued(s)) = 0
      BY <1>2, <1>3, <1>4, <2>1
    <3> QED
      BY <1>2, <1>4, <3>1 DEF KeptAt
  <2> QED
    BY <2>2 DEF EventsKept, KeptAt
<1>6. InStep
  BY <1>2, <1>3 DEF InStep, SeenPublished, Fresh, InOrder, UpToDate, NextIsDue
<1>7. Gapless
  BY <1>2, <1>3 DEF Gapless
<1>8. RetriesSpent /\ CountsLosses /\ ErrorsAreLast
  <2>1. \A s \in Shards : attempt[s] = 0 /\ losses[s] = 0 /\ pc[s] = "acquire"
    BY DEF Init
  <2>2. LastDelay \in Nat /\ (Limited => client.maxAttempts \in Nat)
    BY <1>1, CountTypes
  <2> QED
    BY <1>3, <2>1, <2>2 DEF RetriesSpent, CountsLosses, ErrorsAreLast
<1> QED
  BY <1>1, <1>5, <1>6, <1>7, <1>8 DEF IInv

(* Every step of a worker, of the generator and of the environment keeps   *)
(* the invariant.                                                          *)
LEMMA StepIInv == IInv /\ [Next]_vars => IInv'
<1> SUFFICES ASSUME IInv, [Next]_vars PROVE IInv'
  OBVIOUS
<1>1. /\ TypeOK /\ EventsKept /\ InStep /\ Gapless
      /\ RetriesSpent /\ CountsLosses /\ ErrorsAreLast
  BY DEF IInv
<1>2. TypeOK'
  BY <1>1, StepType
<1>3. EventsKept'
  BY <1>1, <1>2, StepKept
<1>4. InStep'
  BY <1>1, StepInStep
<1>5. Gapless'
  BY <1>1, StepGapless
<1>6. RetriesSpent' /\ CountsLosses' /\ ErrorsAreLast'
  BY <1>1, <1>2, StepCounts
<1> QED
  BY <1>2, <1>3, <1>4, <1>5, <1>6 DEF IInv

(* The invariant holds in every behaviour.                                 *)
THEOREM Invariance == Spec => []IInv
BY InitIInv, StepIInv, PTL DEF Spec

(* Workers, sockets, queue and generator stay in their ranges.             *)
THEOREM TypeCorrect == Spec => []TypeOK
<1>1. IInv => TypeOK
  BY DEF IInv
<1> QED
  BY <1>1, Invariance, PTL

(* Every event read off a socket reaches the consumer, once and in order,  *)
(* however the workers of _fan_out are stopped or cancelled.               *)
THEOREM EveryEventIsKept == Spec => []EventsKept
<1>1. IInv => EventsKept
  BY DEF IInv
<1> QED
  BY <1>1, Invariance, PTL

(* On a connection nobody had before, whether the pool or a reconnect made *)
(* it, the events of a shard come in order and once, and none is missing   *)
(* that came in a subscription's time, unless a poll interval of the       *)
(* thread dropped bytes.  Nothing is said of what an idle connection of    *)
(* the pool gives first.                                                   *)
THEOREM NoEventIsMissed == Spec => []Gapless
<1>1. IInv => Gapless
  BY DEF IInv
<1> QED
  BY <1>1, Invariance, PTL

(* A stream that ends because it lost its connection has lost it, or       *)
(* failed to get a new one, once more than max_attempts allows, or as      *)
(* often as makes the delay overflow, since its last event, and no stream  *)
(* tries more often.                                                       *)
THEOREM StreamsRetryAsAllowed == Spec => []RetriesSpent
<1>1. IInv => RetriesSpent
  BY DEF IInv
<1> QED
  BY <1>1, Invariance, PTL
=============================================================================

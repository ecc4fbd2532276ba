------------------------- MODULE FqAsyncPoolProofs -------------------------
(***************************************************************************)
(* Theorems about FqAsyncPool for any number of tasks, any pool size and   *)
(* any supply of connections.                                              *)
(***************************************************************************)
EXTENDS FqAsyncPool, FqSlotsProofs, FiniteSetTheorems

-----------------------------------------------------------------------------
(* Counting: Units(f) has as many elements as f has units.                 *)

(* The units of one task are apart from those of the others.               *)
LEMMA UnitsSplit ==
    ASSUME NEW f \in [Tasks -> Nat], NEW t \in Tasks
    PROVE  LET rest == UNION {{u} \X (1 .. f[u]) : u \in Tasks \ {t}}
           IN  /\ IsFiniteSet(Units(f)) /\ IsFiniteSet(rest)
               /\ Cardinality(Units(f)) \in Nat /\ Cardinality(rest) \in Nat
               /\ Cardinality(Units(f)) = f[t] + Cardinality(rest)
<1> DEFINE Mine(u) == {u} \X (1 .. f[u])
           rest == UNION {Mine(u) : u \in Tasks \ {t}}
<1>1. ASSUME NEW u \in Tasks
      PROVE  IsFiniteSet(Mine(u)) /\ Cardinality(Mine(u)) = f[u]
  <2> DEFINE n == f[u]
  <2>n. n \in Nat
    OBVIOUS
  <2> HIDE DEF n
  <2>1. /\ IsFiniteSet({u}) /\ Cardinality({u}) = 1
        /\ IsFiniteSet(1 .. n) /\ Cardinality(1 .. n) = n
    <3>1. IsFiniteSet({u}) /\ Cardinality({u}) = 1
      BY FS_Singleton
    <3>2. /\ IsFiniteSet(1 .. n)
          /\ Cardinality(1 .. n) = IF 1 > n THEN 0 ELSE n - 1 + 1
      BY <2>n, FS_Interval
    <3> QED
      BY <2>n, <3>1, <3>2
  <2>2. /\ IsFiniteSet({u} \X (1 .. n))
        /\ Cardinality({u} \X (1 .. n)) = Cardinality({u}) * Cardinality(1 .. n)
    BY <2>1, FS_Product
  <2>3. IsFiniteSet({u} \X (1 .. n)) /\ Cardinality({u} \X (1 .. n)) = n
    BY <2>n, <2>1, <2>2
  <2> QED
    BY <2>3 DEF n
<1>2. IsFiniteSet(rest)
  <2>1. IsFiniteSet(Tasks \ {t})
    BY AsyncPoolAssumption, FS_RemoveElement
  <2>2. IsFiniteSet({Mine(u) : u \in Tasks \ {t}})
    <3> DEFINE I == Tasks \ {t}
               m == [u \in I |-> Mine(u)]
               M == {Mine(u) : u \in I}
    <3>1. m \in Surjection(I, M)
      BY DEF Surjection
    <3>2. IsFiniteSet(I)
      BY <2>1
    <3> HIDE DEF I, m, M
    <3>3. IsFiniteSet(M)
      BY <3>1, <3>2, FS_Surjection
    <3> QED
      BY <3>3 DEF M, I
  <2> QED
    BY <1>1, <2>2, FS_UNION
<1>3. Units(f) = Mine(t) \cup rest /\ Mine(t) \cap rest = {}
  <2>1. Units(f) = Mine(t) \cup rest
    BY DEF Units
  <2>2. Mine(t) \cap rest = {}
    OBVIOUS
  <2> QED
    BY <2>1, <2>2
<1> HIDE DEF Mine, rest
<1>4. /\ IsFiniteSet(Units(f))
      /\ Cardinality(Units(f)) = Cardinality(Mine(t)) + Cardinality(rest) - Cardinality({})
  BY <1>1, <1>2, <1>3, FS_Union
<1>5. Cardinality({}) = 0 /\ Cardinality(rest) \in Nat /\ f[t] \in Nat
  BY <1>2, FS_EmptySet, FS_CardinalityType
<1>6. /\ IsFiniteSet(Units(f)) /\ IsFiniteSet(rest)
      /\ Cardinality(Units(f)) \in Nat /\ Cardinality(rest) \in Nat
      /\ Cardinality(Units(f)) = f[t] + Cardinality(rest)
  BY <1>1, <1>2, <1>4, <1>5
<1> QED
  BY <1>6 DEF rest, Mine

(* When one task's units change, so does the sum.                          *)
LEMMA UnitsChange ==
    ASSUME NEW f \in [Tasks -> Nat], NEW g \in [Tasks -> Nat], NEW t \in Tasks,
           \A u \in Tasks \ {t} : g[u] = f[u]
    PROVE  /\ Cardinality(Units(f)) \in Nat /\ Cardinality(Units(g)) \in Nat
           /\ Cardinality(Units(g)) = Cardinality(Units(f)) + g[t] - f[t]
<1> DEFINE Rest(h) == UNION {{u} \X (1 .. h[u]) : u \in Tasks \ {t}}
<1>1. Rest(g) = Rest(f)
  OBVIOUS
<1>2. ASSUME NEW h \in [Tasks -> Nat]
      PROVE  /\ Cardinality(Units(h)) \in Nat /\ Cardinality(Rest(h)) \in Nat
             /\ Cardinality(Units(h)) = h[t] + Cardinality(Rest(h))
  BY UnitsSplit
<1> HIDE DEF Rest
<1>3. f[t] \in Nat /\ g[t] \in Nat
  OBVIOUS
<1> QED
  BY <1>1, <1>2, <1>3

(* Two tasks have no more units than all.                                  *)
LEMMA UnitsOfTwo ==
    ASSUME NEW f \in [Tasks -> Nat], NEW t \in Tasks
    PROVE  /\ f[t] <= Cardinality(Units(f))
           /\ \A u \in Tasks \ {t} : f[t] + f[u] <= Cardinality(Units(f))
<1>1. ASSUME NEW h \in [Tasks -> Nat], NEW v \in Tasks
      PROVE  h[v] <= Cardinality(Units(h)) /\ Cardinality(Units(h)) \in Nat
  <2> DEFINE rest == UNION {{u} \X (1 .. h[u]) : u \in Tasks \ {v}}
  <2>1. /\ Cardinality(Units(h)) \in Nat /\ Cardinality(rest) \in Nat
        /\ Cardinality(Units(h)) = h[v] + Cardinality(rest)
    BY UnitsSplit
  <2> HIDE DEF rest
  <2>2. h[v] \in Nat
    OBVIOUS
  <2> QED
    BY <2>1, <2>2
<1>2. ASSUME NEW u \in Tasks \ {t}
      PROVE  f[t] + f[u] <= Cardinality(Units(f))
  <2> DEFINE g == [f EXCEPT ![t] = 0]
  <2>1. g \in [Tasks -> Nat] /\ g[u] = f[u] /\ g[t] = 0 /\ \A v \in Tasks \ {t} : g[v] = f[v]
    OBVIOUS
  <2> HIDE DEF g
  <2>2. Cardinality(Units(g)) = Cardinality(Units(f)) + g[t] - f[t]
        /\ Cardinality(Units(f)) \in Nat
    BY <2>1, UnitsChange
  <2>3. g[u] <= Cardinality(Units(g)) /\ Cardinality(Units(g)) \in Nat
    BY <1>1, <2>1
  <2>4. f[t] \in Nat /\ f[u] \in Nat
    OBVIOUS
  <2> QED
    BY <2>1, <2>2, <2>3, <2>4
<1> QED
  BY <1>1, <1>2

(* Nothing is counted while no task has a slot.                            *)
LEMMA NoUnits ==
    ASSUME NEW f \in [Tasks -> Nat], \A t \in Tasks : f[t] = 0
    PROVE  Cardinality(Units(f)) = 0
<1>1. \A t \in Tasks : {t} \X (1 .. f[t]) = {}
  OBVIOUS
<1>2. Units(f) = {}
  BY <1>1 DEF Units
<1> QED
  BY <1>2, FS_EmptySet

-----------------------------------------------------------------------------
(* Typing.                                                                 *)

(* What NextSlot does to the stack.                                        *)
LEMMA Popped ==
    ASSUME TypeOK, NEW t \in Tasks, NextSlot(t)
    PROVE  /\ slots' \in Seq(Slot) /\ ToSet(slots') \subseteq ToSet(slots)
           /\ ToSet(slots) \subseteq {None} => ToSet(slots') \subseteq {None}
           /\ pc' \in [Tasks -> PCs] /\ \A u \in Tasks \ {t} : pc'[u] = pc[u]
           /\ \/ pc'[t] = "fill" /\ Len(slots') = Len(slots) - 1
              \/ pc'[t] = "unfill" /\ Len(slots') = Len(slots)
           /\ NoDuplicates(slots) => NoDuplicates(slots')
<1>1. pc' \in [Tasks -> PCs] /\ \A u \in Tasks \ {t} : pc'[u] = pc[u]
  BY DEF NextSlot, Goto, TypeOK, PCs
<1>2. CASE slots # <<>> /\ slots' = Front(slots) /\ Goto(t, "fill")
  <2>1. /\ Front(slots) \in Seq(Slot) /\ Len(Front(slots)) = Len(slots) - 1
        /\ ToSet(slots) = ToSet(Front(slots)) \cup {Last(slots)}
    BY <1>2, PopSlot DEF TypeOK
  <2>2. NoDuplicates(slots) => NoDuplicates(slots')
    BY <1>2, PopDistinct DEF TypeOK
  <2>3. pc'[t] = "fill"
    BY <1>2 DEF Goto, TypeOK
  <2> QED
    BY <1>1, <1>2, <2>1, <2>2, <2>3
<1>3. CASE slots = <<>> /\ UNCHANGED slots /\ Goto(t, "unfill")
  <2>1. pc'[t] = "unfill"
    BY <1>3 DEF Goto, TypeOK
  <2> QED
    BY <1>1, <1>3, <2>1 DEF TypeOK
<1> QED
  BY <1>2, <1>3 DEF NextSlot

(* Every step keeps the types.                                             *)
LEMMA NextType ==
    ASSUME TypeOK, PhaseInv, [Next]_vars
    PROVE  TypeOK'
<1>e. <<>> \in Seq(Conns) /\ <<>> \in Seq(Slot)
  BY EmptySeq
<1>o. ASSUME NEW t \in Tasks
      PROVE  opened[t] \in Seq(Conns) /\ opened[t] \in Seq(Slot) /\ Len(opened[t]) \in Nat
  <2>1. opened[t] \in Seq(Conns)
    BY DEF TypeOK
  <2> QED
    BY <2>1, SeqMonotonic, Stack DEF Slot
<1>p. \A x \in Slot : Append(slots, x) \in Seq(Slot)
  BY PushSlot DEF TypeOK
<1>1. CASE UNCHANGED vars
  BY <1>1 DEF vars, TypeOK
<1>2. ASSUME NEW t \in Tasks, Choice(t)
      PROVE  TypeOK'
  <2>1. CASE Open(t)
    <3>1. slots' \in Seq(Slot) /\ pc' \in [Tasks -> PCs]
      BY <2>1, Popped DEF Open
    <3> QED
      BY <2>1, <3>1 DEF Open, TypeOK
  <2>2. CASE Acquire(t) \/ Aclose(t)
    BY <2>2 DEF Acquire, Aclose, Goto, TypeOK, PCs
  <2>3. CASE AcquireRefused(t)
    BY <2>3 DEF AcquireRefused, vars, TypeOK
  <2>4. CASE TakeCancelled(t) \/ LeaveClosed(t)
    BY <2>4 DEF TakeCancelled, LeaveClosed, Goto, TypeOK, PCs
  <2>5. CASE Reconnect(t)
    <3>1. held[t] \in Conns
      BY <2>5 DEF Reconnect, TypeOK, PhaseInv, Slot
    <3> QED
      BY <2>5, <3>1 DEF Reconnect, TypeOK
  <2>6. CASE LeaveOpen(t)
    <3>1. slots' \in Seq(Slot)
      BY <1>p, <2>6 DEF LeaveOpen, TypeOK, Slot
    <3> QED
      BY <2>6, <3>1 DEF LeaveOpen, Goto, TypeOK, PCs, Slot
  <2> QED
    BY <1>2, <2>1, <2>2, <2>3, <2>4, <2>5, <2>6 DEF Choice
<1>3. ASSUME NEW t \in Tasks, Step(t)
      PROVE  TypeOK'
  <2>1. CASE FillSlot(t)
    <3>1. slots' \in Seq(Slot) /\ pc' \in [Tasks -> PCs]
      BY <2>1, Popped DEF FillSlot
    <3>2. PICK c \in Fresh : /\ opened' = [opened EXCEPT ![t] = Append(@, c)]
                             /\ open' = open \cup {c}
      BY <2>1 DEF FillSlot
    <3>3. c \in Conns /\ Append(opened[t], c) \in Seq(Conns)
      BY <1>o, <3>2, PushSlot DEF Fresh
    <3> QED
      BY <2>1, <3>1, <3>2, <3>3 DEF FillSlot, TypeOK
  <2>2. CASE FillDone(t)
    <3>1. PICK c \in Fresh : /\ slots' = slots \o Append(opened[t], c)
                             /\ open' = open \cup {c}
      BY <2>2 DEF FillDone
    <3>2. c \in Conns /\ c \in Slot
      BY <3>1 DEF Fresh, Slot
    <3>3. Append(opened[t], c) \in Seq(Slot)
      BY <1>o, <3>2, PushSlot
    <3>4. slots' \in Seq(Slot)
      BY <3>1, <3>3, ConcatSlots DEF TypeOK
    <3> QED
      BY <1>e, <2>2, <3>1, <3>2, <3>4 DEF FillDone, Goto, TypeOK, PCs
  <2>3. CASE FillFails(t)
    BY <2>3, AsyncPoolAssumption DEF FillFails, Goto, TypeOK, PCs
  <2>4. CASE Unfill(t)
    <3> DEFINE e == [i \in 1 .. Len(opened[t]) |-> None]
    <3>1. e \in Seq(Slot)
      BY <1>o, EmptySlots
    <3>2. slots' = slots \o e
      BY <2>4 DEF Unfill
    <3> HIDE DEF e
    <3>3. slots' \in Seq(Slot)
      BY <3>1, <3>2, ConcatSlots DEF TypeOK
    <3> QED
      BY <1>e, <2>4, <3>3 DEF Unfill, Goto, TypeOK, PCs
  <2>5. CASE Take(t)
    <3>1. slots' \in Seq(Slot) /\ Last(slots) \in Slot
      BY <2>5, PopSlot DEF Take, TypeOK
    <3> QED
      BY <2>5, <3>1 DEF Take, Goto, TypeOK, PCs
  <2>6. CASE TakeTimesOut(t)
    BY <2>6 DEF TakeTimesOut, Goto, TypeOK, PCs
  <2>7. CASE Dial(t)
    BY <2>7 DEF Dial, Goto, TypeOK, PCs, Fresh, Slot
  <2>8. CASE DialFails(t)
    BY <1>p, <2>8 DEF DialFails, Goto, TypeOK, PCs, Slot
  <2>9. CASE CloseHeld(t)
    BY <2>9 DEF CloseHeld, Goto, TypeOK, PCs, Slot
  <2>10. CASE Drain(t)
    <3>1. PICK n \in 1 .. Len(slots) : /\ slots' = SubSeq(slots, 1, n - 1)
                                       /\ open' = open \ {slots[n]}
      BY <2>10 DEF Drain
    <3>2. slots' \in Seq(Slot)
      BY <3>1, CutSlots DEF TypeOK
    <3> QED
      BY <2>10, <3>1, <3>2 DEF Drain, TypeOK
  <2>11. CASE Drained(t)
    BY <1>e, <2>11 DEF Drained, Goto, TypeOK, PCs
  <2> QED
    BY <1>3, <2>1, <2>2, <2>3, <2>4, <2>5, <2>6, <2>7, <2>8, <2>9, <2>10, <2>11 DEF Step
<1> QED
  BY <1>1, <1>2, <1>3 DEF Next

-----------------------------------------------------------------------------
(* Accounting.                                                             *)

(* What a task has in hand.                                                *)
LEMMA TakenType ==
    ASSUME TypeOK
    PROVE  /\ Taken \in [Tasks -> Nat]
           /\ Cardinality(Units(Taken)) \in Nat /\ Len(slots) \in Nat /\ short \in Nat
           /\ \A t \in Tasks : Len(opened[t]) \in Nat /\ (opened[t] # <<>> <=> Len(opened[t]) > 0)
           /\ slots # <<>> <=> Len(slots) > 0
<1>1. \A t \in Tasks : Len(opened[t]) \in Nat /\ (opened[t] # <<>> <=> Len(opened[t]) > 0)
  BY Stack DEF TypeOK
<1>2. Taken \in [Tasks -> Nat]
  <2>1. \A t \in Tasks : InHand(t) \in Nat
    BY DEF InHand
  <2>2. \A t \in Tasks : Len(opened[t]) + InHand(t) \in Nat
    BY <1>1, <2>1
  <2> QED
    BY <2>2 DEF Taken
<1>3. Len(slots) \in Nat /\ (slots # <<>> <=> Len(slots) > 0)
  BY Stack DEF TypeOK
<1>4. Cardinality(Units(Taken)) \in Nat
  <2>1. CASE Tasks = {}
    <3>1. Units(Taken) = {}
      BY <2>1 DEF Units
    <3> QED
      BY <3>1, FS_EmptySet
  <2>2. CASE Tasks # {}
    <3>1. PICK t \in Tasks : TRUE
      BY <2>2
    <3> QED
      BY <1>2, UnitsChange
  <2> QED
    BY <2>1, <2>2
<1> QED
  BY <1>1, <1>2, <1>3, <1>4, AsyncPoolAssumption DEF TypeOK

(* The same of the state a step leads to.                                  *)
LEMMA TakenTypeNext ==
    TypeOK' => (Taken \in [Tasks -> Nat] /\ Len(slots) \in Nat /\ short \in Nat)'
<1>1. TypeOK => (Taken \in [Tasks -> Nat] /\ Len(slots) \in Nat /\ short \in Nat)
  BY TakenType
<1> QED
  BY <1>1, PTL

(* The sum after a step that touches one task's slots.                     *)
LEMMA TotalChange ==
    ASSUME TypeOK, TypeOK', NEW t \in Tasks,
           \A u \in Tasks \ {t} : pc'[u] = pc[u] /\ opened'[u] = opened[u]
    PROVE  /\ Total \in Nat
           /\ Total' = Total + ((Len(slots') - Len(slots)) + (short' - short)
                                + (Taken'[t] - Taken[t]))
<1>1. /\ Taken \in [Tasks -> Nat] /\ Taken' \in [Tasks -> Nat]
      /\ Len(slots) \in Nat /\ short \in Nat /\ Len(slots') \in Nat /\ short' \in Nat
  BY TakenType, TakenTypeNext
<1>2. \A u \in Tasks \ {t} : Taken'[u] = Taken[u]
  BY DEF Taken, InHand
<1>3. /\ Cardinality(Units(Taken)) \in Nat /\ Cardinality(Units(Taken')) \in Nat
      /\ Cardinality(Units(Taken')) = Cardinality(Units(Taken)) + Taken'[t] - Taken[t]
  BY <1>1, <1>2, UnitsChange
<1>4. Taken[t] \in Nat /\ Taken'[t] \in Nat
  BY <1>1
<1> DEFINE c == Cardinality(Units(Taken))
           d == Cardinality(Units(Taken'))
           x == Taken[t]
           y == Taken'[t]
<1>5. Total = Len(slots) + short + c /\ Total' = Len(slots') + short' + d
  BY DEF Total, Units
<1>6. c \in Nat /\ d \in Nat /\ d = c + y - x /\ x \in Nat /\ y \in Nat
  BY <1>3, <1>4
<1> HIDE DEF c, d, x, y
<1>7. Total \in Nat /\ Total' = Total + ((Len(slots') - Len(slots)) + (short' - short) + (y - x))
  BY <1>1, <1>5, <1>6
<1> QED
  BY <1>7 DEF x, y

(* A prefill that gets its last connection has all slots of the pool.      *)
LEMMA FillingAlone ==
    ASSUME TypeOK, SlotsAccounted, NEW t \in Tasks,
           pc[t] = "fill", Len(opened[t]) = Size - 1
    PROVE  /\ slots = <<>> /\ short = 0
           /\ \A u \in Tasks \ {t} : /\ opened[u] = <<>>
                                      /\ pc[u] \notin {"fill", "dial", "using"}
<1>1. /\ Taken \in [Tasks -> Nat] /\ Cardinality(Units(Taken)) \in Nat
      /\ Len(slots) \in Nat /\ short \in Nat
      /\ \A u \in Tasks : Len(opened[u]) \in Nat /\ (opened[u] # <<>> <=> Len(opened[u]) > 0)
      /\ slots # <<>> <=> Len(slots) > 0
  BY TakenType
<1>2. Taken[t] = Size
  <2>1. Taken[t] = Size - 1 + 1
    BY DEF Taken, InHand
  <2> QED
    BY <2>1, AsyncPoolAssumption
<1>3. Len(slots) + short + Cardinality(Units(Taken)) <= Size
  BY DEF SlotsAccounted, Total
<1>4. /\ Taken[t] <= Cardinality(Units(Taken))
      /\ \A u \in Tasks \ {t} : Taken[t] + Taken[u] <= Cardinality(Units(Taken))
  BY <1>1, UnitsOfTwo
<1>5. Len(slots) = 0 /\ short = 0 /\ Cardinality(Units(Taken)) = Size
  BY <1>1, <1>2, <1>3, <1>4, AsyncPoolAssumption
<1>6. ASSUME NEW u \in Tasks \ {t}
      PROVE  Taken[u] = 0
  <2>1. Taken[u] \in Nat
    BY <1>1
  <2> QED
    BY <1>2, <1>4, <1>5, <2>1, AsyncPoolAssumption
<1>7. ASSUME NEW u \in Tasks \ {t}
      PROVE  opened[u] = <<>> /\ pc[u] \notin {"fill", "dial", "using"}
  <2>1. Len(opened[u]) + InHand(u) = 0
    BY <1>6 DEF Taken
  <2>2. InHand(u) \in {0, 1} /\ (InHand(u) = 0 => pc[u] \notin {"fill", "dial", "using"})
    BY DEF InHand
  <2>3. Len(opened[u]) = 0 /\ InHand(u) = 0
    BY <1>1, <2>1, <2>2
  <2> QED
    BY <1>1, <2>2, <2>3
<1> QED
  BY <1>1, <1>5, <1>7

(* No slot is made, and until the pool is closed none is lost but those of *)
(* prefills that failed.                                                   *)
LEMMA AccountStep ==
    ASSUME TypeOK, TypeOK', PhaseInv, SlotsAccounted, [Next]_vars
    PROVE  SlotsAccounted'
<1>0. CASE UNCHANGED vars
  <2>1. UNCHANGED Taken
    BY <1>0 DEF vars, Taken, InHand
  <2>2. UNCHANGED Total
    BY <1>0, <2>1 DEF vars, Total, Units
  <2> QED
    BY <1>0, <2>2 DEF vars, SlotsAccounted
<1>1. ASSUME NEW t \in Tasks, Choice(t) \/ Step(t)
      PROVE  SlotsAccounted'
  <2> DEFINE Others == \A u \in Tasks \ {t} : pc'[u] = pc[u] /\ opened'[u] = opened[u]
  <2>1. /\ Len(slots) \in Nat /\ short \in Nat /\ (slots # <<>> <=> Len(slots) > 0)
        /\ Len(opened[t]) \in Nat /\ (opened[t] # <<>> <=> Len(opened[t]) > 0)
        /\ Len(slots') \in Nat /\ short' \in Nat
        /\ Taken[t] = Len(opened[t]) + InHand(t) /\ Taken'[t] = Len(opened'[t]) + InHand(t)'
        /\ Taken[t] \in Nat /\ Taken'[t] \in Nat
    BY TakenType, TakenTypeNext DEF Taken
  <2>h. /\ InHand(t) = (IF pc[t] \in {"fill", "dial", "using"} THEN 1 ELSE 0)
        /\ InHand(t)' = (IF pc'[t] \in {"fill", "dial", "using"} THEN 1 ELSE 0)
    BY DEF InHand
  <2> DEFINE Gain == (Len(slots') - Len(slots)) + (short' - short) + (Taken'[t] - Taken[t])
  <2>g. Gain \in Int
    BY <2>1
  <2>2. ASSUME Others, Gain = 0, UNCHANGED closed
        PROVE  SlotsAccounted'
    <3>1. Total \in Nat /\ Total' = Total + Gain
      BY <2>2, TotalChange
    <3> HIDE DEF Gain
    <3>2. Total' = Total
      BY <2>2, <3>1
    <3> QED
      BY <2>2, <3>2 DEF SlotsAccounted
  <2>3. ASSUME Others, Gain <= 0, closed'
        PROVE  SlotsAccounted'
    <3>1. Total \in Nat /\ Total' = Total + Gain
      BY <2>3, TotalChange
    <3> HIDE DEF Gain
    <3>2. Total' <= Total /\ Total' \in Int
      BY <2>3, <2>g, <3>1
    <3> QED
      BY <2>3, <3>1, <3>2, AsyncPoolAssumption DEF SlotsAccounted
  <2>o. opened \in [Tasks -> Seq(Conns)] /\ pc \in [Tasks -> PCs]
    BY DEF TypeOK
  <2>4. CASE Open(t)
    <3>1. /\ UNCHANGED <<opened, short, closed>> /\ pc[t] = "idle" /\ opened[t] = <<>>
          /\ \A u \in Tasks \ {t} : pc'[u] = pc[u]
          /\ \/ pc'[t] = "fill" /\ Len(slots') = Len(slots) - 1
             \/ pc'[t] = "unfill" /\ Len(slots') = Len(slots)
      BY <2>4, Popped DEF Open, PhaseInv
    <3>2. InHand(t) = 0 /\ InHand(t)' = IF pc'[t] = "fill" THEN 1 ELSE 0
      BY <2>h, <3>1
    <3>3. Len(slots') + InHand(t)' = Len(slots)
      BY <2>1, <3>1, <3>2
    <3>4. Len(opened'[t]) = Len(opened[t]) /\ short' = short
      BY <3>1
    <3>5. Gain = 0
      <4> HIDE DEF InHand
      <4> QED
        BY <2>1, <3>2, <3>3, <3>4
    <3> QED
      BY <2>2, <3>1, <3>5
  <2>5. CASE FillSlot(t)
    <3>1. PICK c \in Conns : opened' = [opened EXCEPT ![t] = Append(@, c)]
      BY <2>5 DEF FillSlot, Fresh
    <3>2. Len(opened'[t]) = Len(opened[t]) + 1 /\ \A u \in Tasks \ {t} : opened'[u] = opened[u]
      <4>1. opened[t] \in Seq(Conns) /\ opened'[t] = Append(opened[t], c)
        BY <2>o, <3>1
      <4> QED
        BY <2>o, <3>1, <4>1, PushSlot
    <3>3. /\ UNCHANGED <<short, closed>> /\ pc[t] = "fill"
          /\ \A u \in Tasks \ {t} : pc'[u] = pc[u]
          /\ \/ pc'[t] = "fill" /\ Len(slots') = Len(slots) - 1
             \/ pc'[t] = "unfill" /\ Len(slots') = Len(slots)
      BY <2>5, Popped DEF FillSlot
    <3>4. Gain = 0
      <4>1. CASE pc'[t] = "fill"
        BY <2>1, <2>h, <3>2, <3>3, <4>1
      <4>2. CASE pc'[t] = "unfill"
        BY <2>1, <2>h, <3>2, <3>3, <4>2
      <4> QED
        BY <3>3, <4>1, <4>2
    <3> QED
      BY <2>2, <3>2, <3>3, <3>4
  <2>6. CASE FillDone(t)
    <3>1. PICK c \in Conns : slots' = slots \o Append(opened[t], c)
      BY <2>6 DEF FillDone, Fresh
    <3>2. opened[t] \in Seq(Slot) /\ c \in Slot
      BY <2>o, SeqMonotonic DEF Slot
    <3>3. Len(slots') = Len(slots) + Len(opened[t]) + 1
      BY <2>1, <3>1, <3>2, PushSlot, ConcatSlots DEF TypeOK
    <3>4. /\ UNCHANGED <<short, closed>> /\ pc[t] = "fill" /\ pc'[t] = "idle" /\ Others
          /\ Len(opened'[t]) = 0
      BY <2>6, <2>o, EmptySeq DEF FillDone, Goto
    <3> QED
      BY <2>1, <2>h, <2>2, <3>3, <3>4
  <2>7. CASE FillFails(t)
    <3>1. /\ UNCHANGED <<slots, closed, opened>> /\ pc[t] = "fill" /\ pc'[t] = "unfill"
          /\ Others /\ short' = short + 1
      BY <2>7, <2>o DEF FillFails, Goto
    <3> QED
      BY <2>1, <2>h, <2>2, <3>1
  <2>8. CASE Unfill(t)
    <3> DEFINE n == Len(opened[t])
               e == [i \in 1 .. n |-> None]
    <3>1. e \in Seq(Slot) /\ Len(e) = n
      BY <2>1, EmptySlots
    <3>2. /\ slots' = slots \o e /\ UNCHANGED <<short, closed>> /\ Others
          /\ pc[t] = "unfill" /\ pc'[t] = "idle" /\ Len(opened'[t]) = 0
      BY <2>8, <2>o, EmptySeq DEF Unfill, Goto
    <3> HIDE DEF e, n
    <3>3. Len(slots') = Len(slots) + n
      BY <3>1, <3>2, ConcatSlots DEF TypeOK
    <3> QED
      BY <2>1, <2>h, <2>2, <3>2, <3>3 DEF n
  <2>9. CASE Acquire(t) \/ TakeTimesOut(t) \/ TakeCancelled(t)
    <3>1. /\ UNCHANGED <<slots, short, closed, opened>> /\ Others
          /\ pc[t] \in {"idle", "take"} /\ pc'[t] \in {"idle", "take"}
      BY <2>9, <2>o DEF Acquire, TakeTimesOut, TakeCancelled, Goto
    <3> QED
      BY <2>1, <2>h, <2>2, <3>1
  <2>10. CASE AcquireRefused(t) \/ Reconnect(t)
    <3>1. UNCHANGED <<slots, short, closed, opened, pc>>
      BY <2>10 DEF AcquireRefused, Reconnect, vars
    <3> QED
      BY <2>1, <2>h, <2>2, <3>1
  <2>11. CASE Take(t)
    <3>1. /\ UNCHANGED <<short, closed, opened>> /\ Others
          /\ pc[t] = "take" /\ pc'[t] \in {"dial", "using"}
      BY <2>11, <2>o DEF Take, Goto
    <3>2. Len(slots') = Len(slots) - 1
      BY <2>11, PopSlot DEF Take, TypeOK
    <3> QED
      BY <2>1, <2>h, <2>2, <3>1, <3>2
  <2>12. CASE Dial(t)
    <3>1. /\ UNCHANGED <<slots, short, closed, opened>> /\ Others
          /\ pc[t] = "dial" /\ pc'[t] = "using"
      BY <2>12, <2>o DEF Dial, Goto
    <3> QED
      BY <2>1, <2>h, <2>2, <3>1
  <2>13. CASE DialFails(t) \/ LeaveOpen(t)
    <3>1. /\ UNCHANGED <<short, closed, opened>> /\ Others
          /\ pc[t] \in {"dial", "using"} /\ pc'[t] = "idle"
      BY <2>13, <2>o DEF DialFails, LeaveOpen, Goto
    <3>2. Len(slots') = Len(slots) + 1
      BY <2>13, PushSlot DEF DialFails, LeaveOpen, TypeOK, Slot
    <3> QED
      BY <2>1, <2>h, <2>2, <3>1, <3>2
  <2>14. CASE LeaveClosed(t) \/ CloseHeld(t) \/ Aclose(t)
    <3>1. /\ UNCHANGED <<slots, short, opened>> /\ Others /\ closed'
          /\ pc[t] \in {"using", "close", "idle"} /\ pc'[t] \in {"close", "idle", "drain"}
      BY <2>14, <2>o DEF LeaveClosed, CloseHeld, Aclose, Goto, PhaseInv
    <3> QED
      BY <2>1, <2>h, <2>3, <3>1
  <2>15. CASE Drain(t) \/ Drained(t)
    <3>1. /\ UNCHANGED <<short, opened>> /\ Others /\ closed'
          /\ pc[t] = "drain" /\ pc'[t] \in {"drain", "idle"}
      BY <2>15, <2>o DEF Drain, Drained, Goto, PhaseInv
    <3>2. Len(slots') <= Len(slots)
      <4>1. CASE Drain(t)
        <5>1. PICK n \in 1 .. Len(slots) : slots' = SubSeq(slots, 1, n - 1)
          BY <4>1 DEF Drain
        <5>2. Len(slots') = n - 1
          BY <5>1, CutSlots DEF TypeOK
        <5> QED
          BY <2>1, <5>2
      <4>2. CASE Drained(t)
        BY <2>1, <4>2, EmptySeq DEF Drained
      <4> QED
        BY <2>15, <4>1, <4>2
    <3> QED
      BY <2>1, <2>h, <2>3, <3>1, <3>2
  <2> QED
    BY <1>1, <2>4, <2>5, <2>6, <2>7, <2>8, <2>9, <2>10, <2>11, <2>12, <2>13, <2>14, <2>15
       DEF Choice, Step
<1> QED
  BY <1>0, <1>1 DEF Next

-----------------------------------------------------------------------------
(* The phases of the client.                                               *)

(* Connections come on the stack from a prefill that is done and from      *)
(* calls while the pool is open; all else takes slots or pushes empty ones.*)
LEMMA StackOnlyLoses ==
    ASSUME TypeOK, NEW t \in Tasks, Choice(t) \/ Step(t)
    PROVE  \/ ToSet(slots') \subseteq ToSet(slots) \cup {None}
           \/ FillDone(t) \/ LeaveOpen(t)
<1>1. CASE Open(t) \/ FillSlot(t)
  BY <1>1, Popped DEF Open, FillSlot
<1>2. CASE FillFails(t) \/ Acquire(t) \/ AcquireRefused(t) \/ TakeTimesOut(t)
           \/ TakeCancelled(t) \/ Dial(t) \/ Reconnect(t) \/ LeaveClosed(t)
           \/ CloseHeld(t) \/ Aclose(t)
  BY <1>2 DEF FillFails, Acquire, AcquireRefused, TakeTimesOut, TakeCancelled, Dial,
              Reconnect, LeaveClosed, CloseHeld, Aclose, vars
<1>3. CASE Unfill(t)
  <2> DEFINE n == Len(opened[t])
             e == [i \in 1 .. n |-> None]
  <2>1. n \in Nat
    BY TakenType
  <2>2. e \in Seq(Slot) /\ ToSet(e) \subseteq {None}
    BY <2>1, EmptySlots
  <2>3. slots' = slots \o e
    BY <1>3 DEF Unfill
  <2> HIDE DEF e, n
  <2>4. ToSet(slots') = ToSet(slots) \cup ToSet(e)
    BY <2>2, <2>3, ConcatSlots DEF TypeOK
  <2> QED
    BY <2>2, <2>4
<1>4. CASE Take(t)
  BY <1>4, PopSlot DEF Take, TypeOK
<1>5. CASE DialFails(t)
  <2>1. None \in Slot /\ slots' = Append(slots, None)
    BY <1>5 DEF DialFails, Slot
  <2> QED
    BY <2>1, PushSlot DEF TypeOK
<1>6. CASE Drain(t)
  <2>1. PICK n \in 1 .. Len(slots) : slots' = SubSeq(slots, 1, n - 1)
    BY <1>6 DEF Drain
  <2>2. ToSet(slots) = ToSet(slots') \cup {slots[i] : i \in n .. Len(slots)}
    BY <2>1, CutSlots DEF TypeOK
  <2> QED
    BY <2>2
<1>7. CASE Drained(t)
  BY <1>7 DEF Drained, ToSet
<1> QED
  BY <1>1, <1>2, <1>3, <1>4, <1>5, <1>6, <1>7 DEF Choice, Step

(* Where a task is tells what it has.                                      *)
LEMMA TellsStep ==
    ASSUME TypeOK, PhaseInv, NEW t \in Tasks, Choice(t) \/ Step(t), NEW u \in Tasks
    PROVE  /\ held'[u] # None <=> pc'[u] \in {"using", "close"}
           /\ opened'[u] # <<>> => pc'[u] \in {"fill", "unfill"}
           /\ pc'[u] \in {"close", "drain"} => closed'
<1> DEFINE Tells == /\ held[u] # None <=> pc[u] \in {"using", "close"}
                    /\ opened[u] # <<>> => pc[u] \in {"fill", "unfill"}
                    /\ pc[u] \in {"close", "drain"} => closed
<1>t. /\ pc \in [Tasks -> PCs] /\ held \in [Tasks -> Slot]
      /\ opened \in [Tasks -> Seq(Conns)]
  BY DEF TypeOK
<1>u. Tells
  BY DEF PhaseInv
<1>1. CASE Open(t) \/ FillSlot(t)
  <2>1. /\ UNCHANGED <<held, closed>> /\ pc'[t] \in {"fill", "unfill"}
        /\ pc[t] \in {"idle", "fill"}
        /\ \A v \in Tasks \ {t} : pc'[v] = pc[v] /\ opened'[v] = opened[v]
    BY <1>1, <1>t, Popped DEF Open, FillSlot
  <2> QED
    BY <1>u, <2>1
<1>2. CASE FillDone(t) \/ FillFails(t) \/ Unfill(t)
  BY <1>2, <1>t, <1>u DEF FillDone, FillFails, Unfill, Goto
<1>3. CASE Acquire(t) \/ AcquireRefused(t) \/ TakeTimesOut(t) \/ TakeCancelled(t)
  BY <1>3, <1>t, <1>u DEF Acquire, AcquireRefused, TakeTimesOut, TakeCancelled, Goto, vars
<1>4. CASE Take(t)
  BY <1>4, <1>t, <1>u DEF Take, Goto
<1>5. CASE Dial(t) \/ DialFails(t)
  BY <1>5, <1>t, <1>u, AsyncPoolAssumption DEF Dial, DialFails, Fresh, Goto
<1>6. CASE Reconnect(t) \/ LeaveOpen(t) \/ LeaveClosed(t) \/ CloseHeld(t)
  BY <1>6, <1>t, <1>u DEF Reconnect, LeaveOpen, LeaveClosed, CloseHeld, Goto
<1>7. CASE Aclose(t) \/ Drain(t) \/ Drained(t)
  BY <1>7, <1>t, <1>u DEF Aclose, Drain, Drained, Goto
<1> QED
  BY <1>1, <1>2, <1>3, <1>4, <1>5, <1>6, <1>7 DEF Choice, Step

(* The client is used only after a prefill that got all slots, and no      *)
(* prefill runs from then on.                                              *)
LEMMA PhaseStep ==
    ASSUME TypeOK, PhaseInv, SlotsAccounted, ReadyIsWhole, [Next]_vars
    PROVE  PhaseInv' /\ ReadyIsWhole'
<1>0. CASE UNCHANGED vars
  BY <1>0 DEF vars, PhaseInv, ReadyIsWhole
<1>1. ASSUME NEW t \in Tasks, Choice(t) \/ Step(t)
      PROVE  PhaseInv' /\ ReadyIsWhole'
  <2> DEFINE Tells(u) == /\ held[u] # None <=> pc[u] \in {"using", "close"}
                         /\ opened[u] # <<>> => pc[u] \in {"fill", "unfill"}
                         /\ pc[u] \in {"close", "drain"} => closed
             NoPrefill == \A u \in Tasks : pc[u] # "fill" /\ opened[u] = <<>>
             Shut == \A u \in Tasks : pc[u] \in {"idle", "fill", "unfill", "drain"}
             Empty == ToSet(slots) \subseteq {None}
             Draining == \E u \in Tasks : pc[u] = "drain"
  <2>t. /\ pc \in [Tasks -> PCs] /\ opened \in [Tasks -> Seq(Conns)]
        /\ ready \in BOOLEAN /\ raced \in BOOLEAN /\ closed \in BOOLEAN
    BY DEF TypeOK
  <2>0. \A u \in Tasks : Tells(u)'
    BY <1>1, TellsStep
  <2>p. /\ raced => closed /\ ~ready
        /\ ready \/ raced => NoPrefill
        /\ ~ready /\ ~raced => Empty /\ Shut
        /\ closed /\ ~raced => Draining \/ Empty
    BY DEF PhaseInv
  <2>r. ready => short = 0
    BY DEF ReadyIsWhole
  <2>1. ASSUME (raced => closed /\ ~ready)', (ready \/ raced => NoPrefill)',
               (~ready /\ ~raced => Empty /\ Shut)',
               (closed /\ ~raced => Draining \/ Empty)', (ready => short = 0)'
        PROVE  PhaseInv' /\ ReadyIsWhole'
    BY <2>0, <2>1 DEF PhaseInv, ReadyIsWhole
  <2> HIDE DEF Tells
  <2>2. CASE FillDone(t)
    <3>1. /\ short = 0 /\ \A u \in Tasks \ {t} : opened[u] = <<>> /\ pc[u] # "fill"
      BY <2>2, FillingAlone DEF FillDone
    <3>2. ~ready /\ ~raced
      BY <2>2, <2>p DEF FillDone
    <3> QED
      BY <2>1, <2>2, <2>t, <3>1, <3>2 DEF FillDone, Goto
  <2>3. CASE LeaveOpen(t)
    BY <2>1, <2>3, <2>p, <2>r, <2>t DEF LeaveOpen, Goto
  <2>4. CASE ~FillDone(t) /\ ~LeaveOpen(t)
    <3> DEFINE Kept == UNCHANGED <<ready, raced, short>>
    <3>1. Empty => Empty'
      BY <1>1, <2>4, StackOnlyLoses
    <3>2. CASE Open(t) \/ FillSlot(t)
      <4>1. /\ Kept /\ UNCHANGED closed /\ ~ready /\ ~raced
            /\ pc'[t] \in {"fill", "unfill"} /\ pc[t] \in {"idle", "fill"}
            /\ \A u \in Tasks \ {t} : pc'[u] = pc[u]
        BY <2>p, <3>2, Popped DEF Open, FillSlot
      <4> QED
        BY <2>1, <2>p, <3>1, <4>1
    <3>3. CASE FillFails(t)
      BY <2>1, <2>p, <2>t, <3>1, <3>3 DEF FillFails, Goto
    <3>4. CASE Unfill(t)
      BY <2>1, <2>p, <2>r, <2>t, <3>1, <3>4 DEF Unfill, Goto
    <3>5. CASE Acquire(t) \/ AcquireRefused(t) \/ TakeTimesOut(t) \/ TakeCancelled(t)
      BY <2>1, <2>p, <2>r, <2>t, <3>1, <3>5
         DEF Acquire, AcquireRefused, TakeTimesOut, TakeCancelled, Goto, vars
    <3>6. CASE Take(t) \/ Dial(t) \/ DialFails(t)
      BY <2>1, <2>p, <2>r, <2>t, <3>1, <3>6 DEF Take, Dial, DialFails, Goto
    <3>7. CASE Reconnect(t) \/ LeaveClosed(t) \/ CloseHeld(t)
      BY <2>1, <2>p, <2>r, <2>t, <3>1, <3>7 DEF Reconnect, LeaveClosed, CloseHeld, Goto
    <3>8. CASE Aclose(t) \/ Drain(t)
      BY <2>1, <2>p, <2>r, <2>t, <3>1, <3>8 DEF Aclose, Drain, Goto
    <3>9. CASE Drained(t)
      <4>1. ToSet(slots') = {}
        BY <3>9 DEF Drained, ToSet
      <4> QED
        BY <2>1, <2>p, <2>r, <2>t, <3>9, <4>1 DEF Drained, Goto
    <3> QED
      BY <1>1, <2>4, <3>2, <3>3, <3>4, <3>5, <3>6, <3>7, <3>8, <3>9 DEF Choice, Step
  <2> QED
    BY <2>2, <2>3, <2>4
<1> QED
  BY <1>0, <1>1 DEF Next

-----------------------------------------------------------------------------
(* Ownership, told of sets: h[t] is what task t holds, o[t] what it has    *)
(* opened, s what is on the stack.                                         *)

Apart(h, o, s) ==
    \A t, u \in Tasks :
        /\ h[t] # None /\ h[t] = h[u] => t = u
        /\ h[t] \notin o[u]
        /\ t # u => \A c \in o[t] : c \notin o[u]
        /\ \A c \in s : c \notin o[t] /\ (c # None => c # h[t])

(* Of the sockets e that are open, each is somebody's; idle connections    *)
(* are among them, and those of a prefill that has not ended.              *)
Traced(h, o, s, e) ==
    /\ \A c \in s : c = None \/ c \in e
    /\ \A c \in e : c \in s \/ \E t \in Tasks : c = h[t] \/ c \in o[t]
    /\ \A t \in Tasks : \A c \in o[t] : c \in e

OpenedSets == [t \in Tasks |-> ToSet(opened[t])]

OwnersInv ==
    /\ Apart(held, OpenedSets, ToSet(slots))
    /\ NoDuplicates(slots) /\ \A t \in Tasks : NoDuplicates(opened[t])
    /\ Traced(held, OpenedSets, ToSet(slots), open)

(* OwnersInv says OneOwner and NoOrphans.                                  *)
LEMMA OwnersAsSets ==
    ASSUME TypeOK, OwnersInv
    PROVE  OneOwner /\ NoOrphans
<1>1. ASSUME NEW t \in Tasks
      PROVE  OpenedSets[t] = ToSet(opened[t]) /\ None \notin ToSet(opened[t])
  <2>1. ToSet(opened[t]) \subseteq Conns
    BY Stack DEF TypeOK
  <2> QED
    BY <2>1, AsyncPoolAssumption DEF OpenedSets
<1>2. /\ \A t, u \in Tasks :
            /\ held[t] # None /\ held[t] = held[u] => t = u
            /\ held[t] \notin ToSet(opened[u])
            /\ t # u => ToSet(opened[t]) \cap ToSet(opened[u]) = {}
      /\ \A t \in Tasks :
            ToSet(slots) \cap (ToSet(opened[t]) \cup ({held[t]} \ {None})) = {}
  BY <1>1 DEF Apart, OwnersInv
<1>3. NoOrphans
  BY <1>1 DEF NoOrphans, Traced, OwnersInv
<1> QED
  BY <1>2, <1>3 DEF OneOwner, OwnersInv

(* Connections change hands, and are opened and closed by their owners.    *)
LEMMA OwnerStep ==
    ASSUME TypeOK, TypeOK', PhaseInv, SlotsAccounted, OwnersInv, [Next]_vars
    PROVE  OwnersInv'
<1>0. CASE UNCHANGED vars
  <2>1. UNCHANGED OpenedSets
    BY <1>0 DEF vars, OpenedSets
  <2> QED
    BY <1>0, <2>1 DEF vars, OwnersInv, NoDuplicates
<1>1. ASSUME NEW t \in Tasks, Choice(t) \/ Step(t)
      PROVE  OwnersInv'
  <2> DEFINE S == ToSet(slots)
             O == OpenedSets
             SingleSlots == NoDuplicates(slots)
             SingleOpened == \A u \in Tasks : NoDuplicates(opened[u])
  <2>1. /\ Apart(held, O, S) /\ Traced(held, O, S, open) /\ SingleSlots /\ SingleOpened
        /\ slots \in Seq(Slot) /\ open \subseteq Conns /\ None \notin open
        /\ held \in [Tasks -> Slot] /\ opened \in [Tasks -> Seq(Conns)]
    BY AsyncPoolAssumption DEF OwnersInv, TypeOK
  <2>2. ASSUME Apart(held, O, S)', Traced(held, O, S, open)', SingleSlots', SingleOpened'
        PROVE  OwnersInv'
    BY <2>2 DEF OwnersInv
  <2>n. UNCHANGED opened => O' = O /\ SingleOpened'
    BY <2>1 DEF OpenedSets, NoDuplicates
  <2>s. UNCHANGED slots => S' = S /\ SingleSlots'
    BY <2>1 DEF NoDuplicates
  <2>h. held[t] # None <=> pc[t] \in {"using", "close"}
    BY DEF PhaseInv
  <2>o. \A u \in Tasks : /\ O[u] = ToSet(opened[u]) /\ O'[u] = ToSet(opened'[u])
                         /\ None \notin O[u] /\ opened[u] \in Seq(Slot)
                         /\ opened[u] = <<>> => O[u] = {}
    <3> SUFFICES ASSUME NEW u \in Tasks
                 PROVE  /\ O[u] = ToSet(opened[u]) /\ O'[u] = ToSet(opened'[u])
                        /\ None \notin O[u] /\ opened[u] \in Seq(Slot)
                        /\ opened[u] = <<>> => O[u] = {}
      OBVIOUS
    <3>1. opened[u] \in Seq(Conns)
      BY <2>1
    <3>2. ToSet(opened[u]) \subseteq Conns /\ opened[u] \in Seq(Slot)
      BY <3>1, Stack, SeqMonotonic DEF Slot
    <3>3. ToSet(<<>>) = {}
      BY DEF ToSet
    <3> QED
      BY <3>2, <3>3, AsyncPoolAssumption DEF OpenedSets
  <2>f. ASSUME NEW c \in Fresh
        PROVE  /\ c \in Conns /\ c # None /\ c \notin open /\ c \notin S
               /\ \A u \in Tasks : c # held[u] /\ c \notin O[u]
    BY <2>f, <2>o, AsyncPoolAssumption DEF Fresh
  <2> HIDE DEF S, O
  <2>3. CASE Open(t)
    <3>1. /\ UNCHANGED <<held, opened, open>> /\ S \subseteq {None} /\ S' \subseteq S /\ SingleSlots'
      BY <2>1, <2>3, Popped DEF Open, PhaseInv, S
    <3> QED
      BY <2>1, <2>2, <2>n, <3>1 DEF Apart, Traced
  <2>4. CASE FillSlot(t)
    <3>1. PICK c \in Fresh : /\ opened' = [opened EXCEPT ![t] = Append(@, c)]
                             /\ open' = open \cup {c}
      BY <2>4 DEF FillSlot
    <3>2. c \in Slot /\ opened[t] \in Seq(Conns) /\ c \in Conns
      BY <2>1, <2>f DEF Slot
    <3>3. /\ O'[t] = O[t] \cup {c} /\ \A u \in Tasks \ {t} : O'[u] = O[u]
          /\ SingleOpened'
      <4>1. opened'[t] = Append(opened[t], c) /\ \A u \in Tasks \ {t} : opened'[u] = opened[u]
        BY <2>1, <3>1
      <4>2. ToSet(opened'[t]) = ToSet(opened[t]) \cup {c}
        BY <3>2, <4>1, PushSlot
      <4>3. NoDuplicates(opened'[t])
        BY <2>1, <2>f, <2>o, <3>2, <4>1, PushDistinct
      <4>4. SingleOpened'
        <5>1. \A u \in Tasks : NoDuplicates(opened'[u])
          BY <2>1, <4>1, <4>3
        <5> QED
          BY <5>1 DEF NoDuplicates
      <4> QED
        BY <2>o, <4>1, <4>2, <4>4
    <3>4. /\ UNCHANGED held /\ S \subseteq {None} /\ S' \subseteq S /\ SingleSlots'
      BY <2>1, <2>4, Popped DEF FillSlot, PhaseInv, S
    <3>5. Apart(held, O, S)'
      <4>1. c # None /\ \A u \in Tasks : c # held[u] /\ c \notin O[u] /\ None \notin O'[u]
        BY <2>f, <2>o, <3>3
      <4> SUFFICES ASSUME NEW u \in Tasks, NEW v \in Tasks
                   PROVE  /\ held[u] # None /\ held[u] = held[v] => u = v
                          /\ held[u] \notin O'[v]
                          /\ u # v => \A d \in O'[u] : d \notin O'[v]
                          /\ \A d \in S' : d \notin O'[u] /\ (d # None => d # held[u])
        BY <3>4 DEF Apart
      <4>2. /\ held[u] # None /\ held[u] = held[v] => u = v
            /\ held[u] \notin O[v]
            /\ u # v => \A d \in O[u] : d \notin O[v]
        BY <2>1 DEF Apart
      <4>3. held[u] \notin O'[v] /\ (u # v => \A d \in O'[u] : d \notin O'[v])
        BY <3>3, <4>1, <4>2
      <4> QED
        BY <3>4, <4>1, <4>2, <4>3
    <3>6. Traced(held, O, S, open)'
      BY <2>1, <3>1, <3>3, <3>4 DEF Traced
    <3> QED
      BY <2>2, <3>3, <3>4, <3>5, <3>6
  <2>5. CASE FillDone(t)
    <3>1. PICK c \in Fresh : /\ slots' = slots \o Append(opened[t], c)
                             /\ open' = open \cup {c}
      BY <2>5 DEF FillDone
    <3> DEFINE e == Append(opened[t], c)
    <3>2. c \in Slot /\ opened[t] \in Seq(Slot)
      BY <2>f, <2>o DEF Slot
    <3>3. e \in Seq(Slot) /\ ToSet(e) = O[t] \cup {c} /\ NoDuplicates(e)
      BY <2>1, <2>f, <2>o, <3>2, PushSlot, PushDistinct
    <3>4. S = {}
      <4>1. slots = <<>>
        BY <2>5, FillingAlone DEF FillDone
      <4> QED
        BY <4>1 DEF S, ToSet
    <3>5. slots' = slots \o e
      BY <3>1
    <3> HIDE DEF e
    <3>6. S' = O[t] \cup {c} /\ SingleSlots'
      <4>1. ToSet(slots') = ToSet(slots) \cup ToSet(e)
        BY <2>1, <3>3, <3>5, ConcatSlots
      <4>2. NoDuplicates(slots \o e)
        BY <2>1, <3>3, <3>4, ConcatDistinct DEF S
      <4> QED
        BY <3>3, <3>4, <3>5, <4>1, <4>2 DEF S, NoDuplicates
    <3>7. /\ O'[t] = {} /\ \A u \in Tasks \ {t} : O'[u] = O[u]
          /\ SingleOpened'
      <4>1. opened'[t] = <<>> /\ \A u \in Tasks \ {t} : opened'[u] = opened[u]
        BY <2>1, <2>5 DEF FillDone
      <4>2. ToSet(<<>>) = {} /\ NoDuplicates(<<>>)
        BY DEF ToSet, NoDuplicates
      <4>3. \A u \in Tasks : NoDuplicates(opened'[u])
        BY <2>1, <4>1, <4>2
      <4> QED
        BY <2>o, <4>1, <4>2, <4>3 DEF NoDuplicates
    <3>8. UNCHANGED held
      BY <2>5 DEF FillDone
    <3>9. Apart(held, O, S)'
      BY <2>1, <2>f, <3>6, <3>7, <3>8 DEF Apart
    <3>10. Traced(held, O, S, open)'
      BY <2>1, <3>1, <3>4, <3>6, <3>7, <3>8 DEF Traced
    <3> QED
      BY <2>2, <3>6, <3>7, <3>9, <3>10
  <2>6. CASE Unfill(t)
    <3> DEFINE n == Len(opened[t])
               e == [i \in 1 .. n |-> None]
    <3>1. n \in Nat
      BY TakenType
    <3>2. e \in Seq(Slot) /\ ToSet(e) \subseteq {None} /\ NoDuplicates(e)
      BY <3>1, EmptySlots
    <3>3. slots' = slots \o e /\ open' = open \ O[t] /\ UNCHANGED held
      BY <2>6, <2>o DEF Unfill
    <3> HIDE DEF e, n
    <3>4. S \subseteq S' /\ S' \subseteq S \cup {None} /\ SingleSlots'
      <4>1. ToSet(slots') = ToSet(slots) \cup ToSet(e)
        BY <2>1, <3>2, <3>3, ConcatSlots
      <4>2. NoDuplicates(slots \o e)
        BY <2>1, <3>2, ConcatDistinct
      <4> QED
        BY <3>2, <3>3, <4>1, <4>2 DEF S, NoDuplicates
    <3>5. /\ O'[t] = {} /\ \A u \in Tasks \ {t} : O'[u] = O[u]
          /\ SingleOpened'
      <4>1. opened'[t] = <<>> /\ \A u \in Tasks \ {t} : opened'[u] = opened[u]
        BY <2>1, <2>6 DEF Unfill
      <4>2. ToSet(<<>>) = {} /\ NoDuplicates(<<>>)
        BY DEF ToSet, NoDuplicates
      <4>3. \A u \in Tasks : NoDuplicates(opened'[u])
        BY <2>1, <4>1, <4>2
      <4> QED
        BY <2>o, <4>1, <4>2, <4>3 DEF NoDuplicates
    <3>6. Apart(held, O, S)'
      BY <2>1, <2>o, <3>3, <3>4, <3>5 DEF Apart
    <3>7. Traced(held, O, S, open)'
      BY <2>1, <2>o, <3>3, <3>4, <3>5 DEF Traced, Apart
    <3> QED
      BY <2>2, <3>4, <3>5, <3>6, <3>7
  <2>7. CASE Take(t)
    <3>1. /\ slots # <<>> /\ slots' = Front(slots) /\ held' = [held EXCEPT ![t] = Last(slots)]
          /\ UNCHANGED <<open, opened>> /\ held[t] = None
      BY <2>7, <2>h DEF Take
    <3> DEFINE x == Last(slots)
    <3>2. S = S' \cup {x} /\ SingleSlots' /\ (x # None => x \notin S')
      <4>1. S = S' \cup {x}
        BY <2>1, <3>1, PopSlot DEF S
      <4>2. NoDuplicates(Front(slots)) /\ (x # None => x \notin ToSet(Front(slots)))
        BY <2>1, <3>1, PopDistinct
      <4> QED
        BY <3>1, <4>1, <4>2 DEF S, NoDuplicates
    <3>3. held'[t] = x /\ \A u \in Tasks \ {t} : held'[u] = held[u]
      BY <2>1, <3>1
    <3> HIDE DEF x
    <3>4. Apart(held, O, S)'
      BY <2>1, <2>n, <2>o, <3>1, <3>2, <3>3, AsyncPoolAssumption DEF Apart
    <3>5. Traced(held, O, S, open)'
      BY <2>1, <2>n, <3>1, <3>2, <3>3 DEF Traced
    <3> QED
      BY <2>2, <2>n, <3>1, <3>2, <3>4, <3>5
  <2>8. CASE Dial(t)
    <3>1. PICK c \in Fresh : held' = [held EXCEPT ![t] = c] /\ open' = open \cup {c}
      BY <2>8 DEF Dial
    <3>2. UNCHANGED <<slots, opened>> /\ held[t] = None
      BY <2>8, <2>h DEF Dial
    <3>3. held'[t] = c /\ \A u \in Tasks \ {t} : held'[u] = held[u]
      BY <2>1, <3>1
    <3>4. Apart(held, O, S)'
      BY <2>1, <2>f, <2>n, <2>s, <3>2, <3>3 DEF Apart
    <3>5. Traced(held, O, S, open)'
      BY <2>1, <2>n, <2>s, <3>1, <3>2, <3>3 DEF Traced
    <3> QED
      BY <2>2, <2>n, <2>s, <3>2, <3>4, <3>5
  <2>9. CASE DialFails(t)
    <3>1. slots' = Append(slots, None) /\ UNCHANGED <<open, held, opened>> /\ None \in Slot
      BY <2>9 DEF DialFails, Slot
    <3>2. S' = S \cup {None} /\ SingleSlots'
      BY <2>1, <3>1, PushSlot, PushDistinct DEF S, NoDuplicates
    <3>3. Apart(held, O, S)'
      BY <2>1, <2>n, <2>o, <3>1, <3>2 DEF Apart
    <3>4. Traced(held, O, S, open)'
      BY <2>1, <2>n, <3>1, <3>2 DEF Traced
    <3> QED
      BY <2>2, <2>n, <3>1, <3>2, <3>3, <3>4
  <2>10. CASE Reconnect(t)
    <3>1. /\ open' = open \ {held[t]} \/ open' = open \cup {held[t]}
          /\ UNCHANGED <<slots, held, opened>> /\ held[t] # None
      BY <2>10, <2>h DEF Reconnect
    <3>2. Apart(held, O, S)'
      BY <2>1, <2>n, <2>s, <3>1
    <3>3. Traced(held, O, S, open)'
      BY <2>1, <2>n, <2>s, <3>1 DEF Traced, Apart
    <3> QED
      BY <2>2, <2>n, <2>s, <3>1, <3>2, <3>3
  <2>11. CASE LeaveOpen(t)
    <3> DEFINE x == IF held[t] \in open THEN held[t] ELSE None
    <3>1. /\ slots' = Append(slots, x) /\ held' = [held EXCEPT ![t] = None]
          /\ UNCHANGED <<open, opened>> /\ held[t] # None
      BY <2>11, <2>h DEF LeaveOpen
    <3>2. /\ x \in Slot /\ (x # None => x = held[t] /\ x \in open)
          /\ held[t] \in open => x = held[t]
      BY <2>1 DEF Slot
    <3>3. held'[t] = None /\ \A u \in Tasks \ {t} : held'[u] = held[u]
      BY <2>1, <3>1
    <3> HIDE DEF x
    <3>4. x # None => x \notin S
      BY <2>1, <3>2 DEF Apart
    <3>5. S' = S \cup {x} /\ SingleSlots'
      <4>1. S' = S \cup {x}
        BY <2>1, <3>1, <3>2, PushSlot DEF S
      <4>2. NoDuplicates(Append(slots, x))
        BY <2>1, <3>2, <3>4, PushDistinct DEF S
      <4> QED
        BY <3>1, <4>1, <4>2 DEF NoDuplicates
    <3>6. Apart(held, O, S)'
      <4> SUFFICES ASSUME NEW u \in Tasks, NEW v \in Tasks
                   PROVE  /\ held'[u] # None /\ held'[u] = held'[v] => u = v
                          /\ held'[u] \notin O[v]
                          /\ u # v => \A d \in O[u] : d \notin O[v]
                          /\ \A d \in S' : d \notin O[u] /\ (d # None => d # held'[u])
        BY <2>n, <3>1 DEF Apart
      <4> QED
        BY <2>1, <2>o, <3>2, <3>3, <3>5 DEF Apart
    <3>7. Traced(held, O, S, open)'
      BY <2>1, <2>n, <3>1, <3>2, <3>3, <3>5 DEF Traced
    <3> QED
      BY <2>2, <2>n, <3>1, <3>5, <3>6, <3>7
  <2>12. CASE CloseHeld(t)
    <3>1. /\ open' = open \ {held[t]} /\ held' = [held EXCEPT ![t] = None]
          /\ UNCHANGED <<slots, opened>> /\ held[t] # None
      BY <2>12, <2>h DEF CloseHeld
    <3>2. held'[t] = None /\ \A u \in Tasks \ {t} : held'[u] = held[u]
      BY <2>1, <3>1
    <3>3. Apart(held, O, S)'
      BY <2>1, <2>n, <2>o, <2>s, <3>1, <3>2 DEF Apart
    <3>4. Traced(held, O, S, open)'
      BY <2>1, <2>n, <2>s, <3>1, <3>2 DEF Traced, Apart
    <3> QED
      BY <2>2, <2>n, <2>s, <3>1, <3>3, <3>4
  <2>13. CASE Drain(t)
    <3>1. PICK n \in 1 .. Len(slots) :
             /\ slots[n] # None /\ \A i \in n + 1 .. Len(slots) : slots[i] = None
             /\ slots' = SubSeq(slots, 1, n - 1)
             /\ open' = open \ {slots[n]}
      BY <2>13 DEF Drain
    <3>2. UNCHANGED <<held, opened>>
      BY <2>13 DEF Drain
    <3> DEFINE x == slots[n]
    <3>3. S = S' \cup {slots[i] : i \in n .. Len(slots)}
      BY <2>1, <3>1, CutSlots DEF S
    <3>4. SingleSlots' /\ x \notin S'
      <4>1. NoDuplicates(slots') /\ x \notin ToSet(slots')
        BY <2>1, <3>1, CutDistinct
      <4> QED
        BY <4>1 DEF S, NoDuplicates
    <3>5. S' \subseteq S /\ x \in S /\ \A d \in S : d = None \/ d = x \/ d \in S'
      <4>1. Len(slots) \in Nat
        BY <2>1, Stack
      <4>2. \A i \in n .. Len(slots) : i = n \/ i \in n + 1 .. Len(slots)
        BY <4>1
      <4> QED
        BY <3>1, <3>3, <4>1, <4>2
    <3>6. open' = open \ {x}
      BY <3>1
    <3> HIDE DEF x
    <3>7. Apart(held, O, S)'
      BY <2>1, <2>n, <3>2, <3>5 DEF Apart
    <3>8. Traced(held, O, S, open)'
      BY <2>1, <2>n, <3>2, <3>4, <3>5, <3>6 DEF Traced, Apart
    <3> QED
      BY <2>2, <2>n, <3>2, <3>4, <3>7, <3>8
  <2>14. CASE Drained(t)
    <3>1. S \subseteq {None} /\ S' = {} /\ SingleSlots' /\ UNCHANGED <<open, held, opened>>
      BY <2>14 DEF Drained, S, ToSet, NoDuplicates
    <3> QED
      BY <2>1, <2>2, <2>n, <3>1 DEF Apart, Traced
  <2>15. CASE FillFails(t) \/ Acquire(t) \/ AcquireRefused(t) \/ TakeTimesOut(t)
              \/ TakeCancelled(t) \/ LeaveClosed(t) \/ Aclose(t)
    <3>1. UNCHANGED <<slots, open, held, opened>>
      BY <2>15 DEF FillFails, Acquire, AcquireRefused, TakeTimesOut, TakeCancelled,
                   LeaveClosed, Aclose, vars
    <3> QED
      BY <2>1, <2>2, <2>n, <2>s, <3>1
  <2> QED
    BY <1>1, <2>3, <2>4, <2>5, <2>6, <2>7, <2>8, <2>9, <2>10, <2>11, <2>12, <2>13, <2>14,
       <2>15 DEF Choice, Step
<1> QED
  BY <1>0, <1>1 DEF Next

-----------------------------------------------------------------------------
(* The inductive invariant.                                                *)
IInv == TypeOK /\ PhaseInv /\ SlotsAccounted /\ ReadyIsWhole /\ OwnersInv

(* It holds when the client is made ...                                    *)
LEMMA InitIInv == Init => IInv
<1> SUFFICES ASSUME Init PROVE IInv
  OBVIOUS
<1> DEFINE e == [i \in 1 .. Size |-> None]
<1>1. e \in Seq(Slot) /\ Len(e) = Size /\ ToSet(e) \subseteq {None} /\ NoDuplicates(e)
  BY AsyncPoolAssumption, EmptySlots
<1>2. slots = e
  BY DEF Init
<1> HIDE DEF e
<1>3. TypeOK
  <2>1. <<>> \in Seq(Conns)
    BY EmptySeq
  <2>2. slots \in Seq(Slot)
    BY <1>1, <1>2
  <2>3. short \in 0 .. MaxFailures /\ held \in [Tasks -> Slot]
    BY AsyncPoolAssumption DEF Init, Slot
  <2>4. opened \in [Tasks -> Seq(Conns)]
    BY <2>1 DEF Init
  <2>5. /\ open \subseteq Conns /\ pc \in [Tasks -> PCs] /\ timed \in [Tasks -> BOOLEAN]
        /\ closed \in BOOLEAN /\ ready \in BOOLEAN /\ raced \in BOOLEAN
    BY DEF Init, PCs
  <2> QED
    BY <2>2, <2>3, <2>4, <2>5 DEF TypeOK
<1>4. PhaseInv /\ ReadyIsWhole
  BY <1>1, <1>2, <1>3 DEF Init, PhaseInv, ReadyIsWhole
<1>5. SlotsAccounted
  <2>1. \A t \in Tasks : Taken[t] = 0
    BY EmptySeq DEF Init, Taken, InHand
  <2>2. Cardinality(Units(Taken)) = 0
    BY <1>3, <2>1, TakenType, NoUnits
  <2>3. Total = Size
    BY <1>1, <1>2, <2>2, AsyncPoolAssumption DEF Init, Total
  <2> QED
    BY <2>3, AsyncPoolAssumption DEF SlotsAccounted
<1>6. OwnersInv
  <2>1. ToSet(<<>>) = {} /\ NoDuplicates(<<>>)
    BY DEF ToSet, NoDuplicates
  <2>2. \A t \in Tasks : OpenedSets[t] = {} /\ held[t] = None /\ NoDuplicates(opened[t])
    BY <2>1 DEF Init, OpenedSets
  <2>3. open = {}
    BY DEF Init
  <2> QED
    BY <1>1, <1>2, <2>2, <2>3 DEF OwnersInv, Apart, Traced
<1> QED
  BY <1>3, <1>4, <1>5, <1>6 DEF IInv

(* ... and every step keeps it.                                            *)
LEMMA StepIInv == IInv /\ [Next]_vars => IInv'
<1> SUFFICES ASSUME IInv, [Next]_vars PROVE IInv'
  OBVIOUS
<1>1. TypeOK'
  BY NextType DEF IInv
<1>2. PhaseInv' /\ ReadyIsWhole'
  BY PhaseStep DEF IInv
<1>3. SlotsAccounted'
  BY <1>1, AccountStep DEF IInv
<1>4. OwnersInv'
  BY <1>1, OwnerStep DEF IInv
<1> QED
  BY <1>1, <1>2, <1>3, <1>4 DEF IInv

(* Phases, slots and owners together.                                      *)
THEOREM Invariance == Spec => []IInv
<1> QED
  BY InitIInv, StepIInv, PTL DEF Spec

(* Stack, tasks and prefills keep their types.                             *)
THEOREM TypeCorrect == Spec => []TypeOK
<1>1. IInv => TypeOK
  BY DEF IInv
<1> QED
  BY <1>1, Invariance, PTL

(* A connection is with one task, in one prefill or in one slot: two calls *)
(* of AsyncConnectionPool.acquire never yield the same connection at once. *)
THEOREM ConnectionsHaveOneOwner == Spec => []OneOwner
<1>1. IInv => OneOwner
  BY OwnersAsSets DEF IInv
<1> QED
  BY <1>1, Invariance, PTL

(* put_nowait never finds the queue full; of an open pool no slot is       *)
(* missing but those of prefills that failed to connect.                   *)
THEOREM NoSlotIsMade == Spec => []SlotsAccounted
<1>1. IInv => SlotsAccounted
  BY DEF IInv
<1> QED
  BY <1>1, Invariance, PTL

(* Where AsyncClient.open has set _opened, prefill got every slot and no   *)
(* other prefill is under way.                                             *)
THEOREM OpenMeansFilled == Spec => []ReadyIsWhole
<1>1. IInv => ReadyIsWhole
  BY DEF IInv
<1> QED
  BY <1>1, Invariance, PTL

(* The pool drops no connection whose socket is open, and idle connections *)
(* are open.                                                               *)
THEOREM SocketsAreOwned == Spec => []NoOrphans
<1>1. IInv => NoOrphans
  BY OwnersAsSets DEF IInv
<1> QED
  BY <1>1, Invariance, PTL

(* After AsyncConnectionPool.aclose, once all tasks are done, no socket is *)
(* open unless a prefill was late.                                         *)
THEOREM CloseLeavesNothing == Spec => []ClosedIsClosed
<1>1. IInv => ClosedIsClosed
  <2> SUFFICES ASSUME IInv, closed, ~raced, \A t \in Tasks : pc[t] = "idle"
               PROVE  open = {}
    BY DEF ClosedIsClosed
  <2>1. ToSet(slots) \subseteq {None} /\ \A t \in Tasks : held[t] = None /\ opened[t] = <<>>
    BY DEF IInv, PhaseInv
  <2>2. NoOrphans /\ open \subseteq Conns
    BY OwnersAsSets DEF IInv, TypeOK
  <2>3. ToSet(<<>>) = {}
    BY DEF ToSet
  <2> QED
    BY <2>1, <2>2, <2>3, AsyncPoolAssumption DEF NoOrphans
<1> QED
  BY <1>1, Invariance, PTL
=============================================================================

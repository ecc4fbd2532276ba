---------------------------- MODULE FqPoolProofs ----------------------------
(***************************************************************************)
(* Theorems about FqPool for any number of threads, any pool size and any  *)
(* supply of connections.                                                  *)
(***************************************************************************)
EXTENDS FqPool, FqSlotsProofs, FiniteSetTheorems

-----------------------------------------------------------------------------
(* While prefill has a connection to open it has a slot to take.           *)
LEMMA FillingHasSlots ==
    ASSUME TypeOK, PhaseInv, phase = "filling", Len(opened) < Size
    PROVE  slots # <<>>
<1>1. Len(slots) + Len(opened) = Size /\ Len(slots) \in Nat /\ Len(opened) \in Nat
  BY LenProperties DEF TypeOK, PhaseInv
<1>2. Len(slots) # 0
  BY <1>1, PoolAssumption
<1> QED
  BY <1>2, EmptySeq

(* What prefill does to the stack, one slot at a time and when it fails.    *)
LEMMA FilledSlot ==
    ASSUME TypeOK, PhaseInv, FillSlot
    PROVE  /\ slots # <<>> /\ slots' = Front(slots)
           /\ Len(slots) \in Nat /\ Len(slots') = Len(slots) - 1
           /\ ToSet(slots) \subseteq {None} /\ ToSet(slots') \subseteq {None}
<1>1. /\ slots # <<>> /\ slots' = Front(slots) /\ slots \in Seq(Slot)
      /\ ToSet(slots) \subseteq {None}
  BY FillingHasSlots DEF FillSlot, TypeOK, PhaseInv
<1>2. /\ Len(slots) \in Nat \ {0} /\ Len(Front(slots)) = Len(slots) - 1
      /\ ToSet(slots) = ToSet(Front(slots)) \cup {Last(slots)}
  BY <1>1, PopSlot
<1> QED
  BY <1>1, <1>2

LEMMA FailedFill ==
    ASSUME TypeOK, PhaseInv, FillFails
    PROVE  /\ ToSet(slots) \subseteq {None}
           /\ slots' \in Seq(Slot) /\ ToSet(slots') \subseteq {None}
<1> DEFINE s == Front(slots)
           n == Len(opened)
<1>1. /\ slots # <<>> /\ slots \in Seq(Slot) /\ ToSet(slots) \subseteq {None}
      /\ slots' = s \o [i \in 1 .. n |-> None]
  BY FillingHasSlots DEF FillFails, TypeOK, PhaseInv
<1>2. s \in Seq(Slot) /\ ToSet(slots) = ToSet(s) \cup {Last(slots)}
  BY <1>1, PopSlot
<1>3. n \in Nat
  BY LenProperties DEF TypeOK
<1> HIDE DEF s
<1>4. ToSet(s) \subseteq {None}
  BY <1>1, <1>2
<1> DEFINE e == [i \in 1 .. n |-> None]
<1>5. e \in Seq(Slot) /\ ToSet(e) \subseteq {None}
  BY <1>3, EmptySlots
<1> HIDE DEF e, n
<1>6. s \o e \in Seq(Slot) /\ ToSet(s \o e) = ToSet(s) \cup ToSet(e)
  BY <1>2, <1>5, ConcatSlots
<1> QED
  BY <1>1, <1>4, <1>5, <1>6 DEF e

(* Every step keeps the types.                                             *)
LEMMA NextType ==
    ASSUME TypeOK, PhaseInv, [Next]_vars
    PROVE  TypeOK'
<1>e. <<>> \in Seq(Conns)
  BY EmptySeq
<1>s. ASSUME slots # <<>> PROVE Front(slots) \in Seq(Slot) /\ Last(slots) \in Slot
  BY <1>s, PopSlot DEF TypeOK
<1>p. \A x \in Slot : Append(slots, x) \in Seq(Slot)
  BY PushSlot DEF TypeOK
<1>1. CASE FillSlot
  <2>1. PICK c \in Fresh : opened' = Append(opened, c) /\ open' = open \cup {c}
    BY <1>1 DEF FillSlot
  <2>2. c \in Conns
    BY <2>1 DEF Fresh
  <2>3. opened' \in Seq(Conns)
    BY <2>1, <2>2, PushSlot DEF TypeOK
  <2>4. slots # <<>>
    BY <1>1, FillingHasSlots DEF FillSlot
  <2> QED
    BY <1>1, <1>s, <2>1, <2>2, <2>3, <2>4 DEF FillSlot, TypeOK
<1>2. CASE FillFails
  <2>3. slots' \in Seq(Slot)
    BY <1>2, FailedFill
  <2> QED
    BY <1>2, <1>e, <2>3 DEF FillFails, TypeOK
<1>3. CASE FillDone
  <2>1. opened \in Seq(Slot)
    BY SeqMonotonic DEF TypeOK, Slot
  <2>2. slots' \in Seq(Slot)
    BY <1>3, <2>1, ConcatProperties DEF FillDone, TypeOK
  <2> QED
    BY <1>3, <1>e, <2>2 DEF FillDone, TypeOK
<1>4. CASE Abandoned \/ UNCHANGED vars
  BY <1>4 DEF Abandoned, vars, TypeOK
<1>5. ASSUME NEW t \in Threads, Choice(t)
      PROVE  TypeOK'
  <2>1. CASE Acquire(t)
    BY <2>1 DEF Acquire, Goto, TypeOK, PCs
  <2>2. CASE AcquireRefused(t)
    BY <2>2 DEF AcquireRefused, vars, TypeOK
  <2>3. CASE CloseCheck(t)
    BY <2>3 DEF CloseCheck, Goto, TypeOK, PCs
  <2>4. CASE SocketCloses(t)
    BY <2>4 DEF SocketCloses, TypeOK
  <2>5. CASE SocketReopens(t)
    <3>1. held[t] \in Conns
      BY <2>5 DEF SocketReopens, TypeOK, PhaseInv, Slot
    <3> QED
      BY <2>5, <3>1 DEF SocketReopens, TypeOK
  <2>6. CASE Leave(t)
    BY <2>6 DEF Leave, Goto, TypeOK, PCs
  <2> QED
    BY <1>5, <2>1, <2>2, <2>3, <2>4, <2>5, <2>6 DEF Choice
<1>6. ASSUME NEW t \in Threads, Step(t)
      PROVE  TypeOK'
  <2>1. CASE Take(t)
    BY <1>s, <2>1 DEF Take, Goto, TypeOK, PCs
  <2>2. CASE TakeTimesOut(t)
    BY <2>2 DEF TakeTimesOut, Goto, TypeOK, PCs
  <2>3. CASE Dial(t)
    BY <2>3 DEF Dial, Goto, TypeOK, PCs, Fresh, Slot
  <2>4. CASE DialFails(t)
    BY <1>p, <2>4 DEF DialFails, Goto, TypeOK, PCs, Slot
  <2>5. CASE ReleaseToClosed(t)
    BY <2>5 DEF ReleaseToClosed, Goto, TypeOK, PCs, Slot
  <2>6. CASE ReleaseToOpen(t)
    BY <2>6 DEF ReleaseToOpen, Goto, TypeOK, PCs
  <2>7. CASE PutBack(t)
    <3>1. slots' \in Seq(Slot)
      BY <1>p, <2>7 DEF PutBack, TypeOK, Slot
    <3> QED
      BY <2>7, <3>1 DEF PutBack, Goto, TypeOK, PCs, Slot
  <2>8. CASE SetClosed(t)
    BY <2>8 DEF SetClosed, Goto, TypeOK, PCs
  <2>9. CASE Drain(t)
    BY <1>s, <2>9 DEF Drain, TypeOK
  <2>10. CASE Drained(t)
    BY <2>10 DEF Drained, Goto, TypeOK, PCs
  <2> QED
    BY <1>6, <2>1, <2>2, <2>3, <2>4, <2>5, <2>6, <2>7, <2>8, <2>9, <2>10 DEF Step
<1> QED
  BY <1>1, <1>2, <1>3, <1>4, <1>5, <1>6 DEF Next, Prefill

(* A thread in the pool's code is there because the pool serves.           *)
LEMMA Serving ==
    ASSUME TypeOK, PhaseInv, NEW t \in Threads, Choice(t) \/ Step(t)
    PROVE  phase = "serving" /\ opened = <<>> /\ UNCHANGED <<phase, opened>>
<1>1. phase = "serving" \/ pc[t] # "idle"
  BY DEF Choice, Step, Acquire, AcquireRefused, CloseCheck, SocketCloses,
         SocketReopens, Leave, Take, TakeTimesOut, Dial, DialFails, ReleaseToClosed,
         ReleaseToOpen, PutBack, SetClosed, Drain, Drained
<1>2. UNCHANGED <<phase, opened>>
  BY DEF Choice, Step, Acquire, AcquireRefused, CloseCheck, SocketCloses, vars,
         SocketReopens, Leave, Take, TakeTimesOut, Dial, DialFails, ReleaseToClosed,
         ReleaseToOpen, PutBack, SetClosed, Drain, Drained
<1> QED
  BY <1>1, <1>2 DEF PhaseInv

(* PhaseInv is inductive.                                                  *)
LEMMA PhaseStep ==
    ASSUME TypeOK, PhaseInv, [Next]_vars
    PROVE  PhaseInv'
<1> DEFINE Tells(t) == /\ held[t] # None <=> pc[t] \in {"using", "release", "put"}
                       /\ pc[t] = "drain" => closed
<1>1. CASE FillSlot
  <2>1. PICK c \in Fresh : opened' = Append(opened, c) /\ open' = open \cup {c}
    BY <1>1 DEF FillSlot
  <2>2. c \in Conns /\ c \notin ToSet(opened)
    BY <2>1 DEF Fresh
  <2>3. /\ Len(slots') = Len(slots) - 1 /\ Len(slots) \in Nat
        /\ ToSet(slots') \subseteq {None}
    BY <1>1, FilledSlot
  <2>4. /\ Len(opened') = Len(opened) + 1 /\ Len(opened) \in Nat
        /\ ToSet(opened') = ToSet(opened) \cup {c}
    BY <2>1, <2>2, PushSlot, LenProperties DEF TypeOK
  <2>5. NoDuplicates(opened')
    <3>1. opened \in Seq(Slot) /\ c \in Slot /\ NoDuplicates(opened)
      BY <1>1, <2>2, SeqMonotonic DEF TypeOK, Slot, PhaseInv, FillSlot
    <3> QED
      BY <2>1, <2>2, <3>1, PushDistinct
  <2>6. Len(slots') + Len(opened') = Size
    BY <1>1, <2>3, <2>4 DEF PhaseInv, FillSlot
  <2> QED
    BY <1>1, <2>1, <2>3, <2>4, <2>5, <2>6 DEF FillSlot, PhaseInv, NoDuplicates
<1>2. CASE FillFails
  <2>3. ToSet(slots') \subseteq {None}
    BY <1>2, FailedFill
  <2> QED
    BY <1>2, <2>3 DEF FillFails, PhaseInv
<1>3. CASE FillDone
  BY <1>3 DEF FillDone, PhaseInv
<1>4. CASE Abandoned \/ UNCHANGED vars
  BY <1>4 DEF Abandoned, vars, PhaseInv, NoDuplicates
<1>5. ASSUME NEW t \in Threads, Choice(t) \/ Step(t)
      PROVE  PhaseInv'
  <2>1. phase' = "serving" /\ opened' = <<>>
    BY <1>5, Serving
  <2>2. \A u \in Threads : Tells(u)
    BY DEF PhaseInv
  <2>3. \A u \in Threads : Tells(u)'
    <3> SUFFICES ASSUME NEW u \in Threads PROVE Tells(u)'
      OBVIOUS
    <3> USE <2>2 DEF TypeOK
    <3>1. CASE Acquire(t) \/ AcquireRefused(t) \/ CloseCheck(t)
      BY <3>1 DEF Acquire, AcquireRefused, CloseCheck, Goto, vars
    <3>2. CASE SocketCloses(t) \/ SocketReopens(t) \/ Leave(t)
      BY <3>2 DEF SocketCloses, SocketReopens, Leave, Goto
    <3>3. CASE Take(t)
      BY <3>3 DEF Take, Goto
    <3>4. CASE TakeTimesOut(t) \/ DialFails(t)
      BY <3>4 DEF TakeTimesOut, DialFails, Goto
    <3>5. CASE Dial(t)
      BY <3>5, PoolAssumption DEF Dial, Fresh, Goto
    <3>6. CASE ReleaseToClosed(t) \/ ReleaseToOpen(t) \/ PutBack(t)
      BY <3>6 DEF ReleaseToClosed, ReleaseToOpen, PutBack, Goto
    <3>7. CASE SetClosed(t)
      BY <3>7 DEF SetClosed, Goto
    <3>8. CASE Drain(t) \/ Drained(t)
      BY <3>8 DEF Drain, Drained, Goto
    <3> QED
      BY <1>5, <3>1, <3>2, <3>3, <3>4, <3>5, <3>6, <3>7, <3>8 DEF Choice, Step
  <2> QED
    BY <2>1, <2>3 DEF PhaseInv
<1> QED
  BY <1>1, <1>2, <1>3, <1>4, <1>5 DEF Next, Prefill

-----------------------------------------------------------------------------
(* A slot leaves the stack with the thread that takes it and comes back    *)
(* with the thread that is done.                                           *)
LEMMA SlotsStep ==
    ASSUME TypeOK, PhaseInv, SlotsAccounted, [Next]_vars
    PROVE  SlotsAccounted'
<1>h. IsFiniteSet(Holders) /\ Cardinality(Holders) \in Nat
  BY PoolAssumption, FS_Subset, FS_CardinalityType DEF Holders
<1>l. Len(slots) \in Nat
  BY LenProperties DEF TypeOK
<1>1. CASE FillSlot \/ FillFails
  BY <1>1 DEF FillSlot, FillFails, SlotsAccounted
<1>2. CASE FillDone
  <2>1. Holders' = {}
    BY <1>2 DEF FillDone, Holders, PhaseInv
  <2>2. Len(slots') = Size
    <3>1. opened \in Seq(Slot)
      BY SeqMonotonic DEF TypeOK, Slot
    <3>2. Len(slots') = Len(slots) + Len(opened)
      BY <1>2, <3>1, ConcatProperties DEF FillDone, TypeOK
    <3> QED
      BY <1>2, <3>2 DEF FillDone, PhaseInv
  <2> QED
    BY <2>1, <2>2, FS_EmptySet, PoolAssumption DEF SlotsAccounted
<1>3. CASE Abandoned \/ UNCHANGED vars
  BY <1>3 DEF Abandoned, vars, SlotsAccounted, Holders
<1>4. ASSUME NEW t \in Threads, Choice(t) \/ Step(t)
      PROVE  SlotsAccounted'
  <2>1. phase = "serving" /\ phase' = "serving"
    BY <1>4, Serving
  <2>2. CASE Take(t)
    <3>1. Holders' = Holders \cup {t} /\ t \notin Holders
      BY <2>2 DEF Take, Goto, Holders, TypeOK
    <3>2. Cardinality(Holders') = Cardinality(Holders) + 1
      BY <1>h, <3>1, FS_AddElement
    <3>3. Len(slots') = Len(slots) - 1 /\ UNCHANGED closed
      BY <2>2, PopSlot DEF Take, TypeOK
    <3> QED
      BY <1>h, <1>l, <2>1, <3>2, <3>3, PoolAssumption DEF SlotsAccounted
  <2>3. CASE DialFails(t) \/ PutBack(t)
    <3>1. Holders' = Holders \ {t} /\ t \in Holders
      BY <2>3 DEF DialFails, PutBack, Goto, Holders, TypeOK
    <3>2. Cardinality(Holders') = Cardinality(Holders) - 1
      BY <1>h, <3>1, FS_RemoveElement
    <3>3. Len(slots') = Len(slots) + 1 /\ UNCHANGED closed
      BY <2>3, PushSlot DEF DialFails, PutBack, TypeOK, Slot
    <3> QED
      BY <1>h, <1>l, <2>1, <3>2, <3>3, PoolAssumption DEF SlotsAccounted
  <2>4. CASE ReleaseToClosed(t)
    <3>1. Holders' = Holders \ {t} /\ t \in Holders
      BY <2>4 DEF ReleaseToClosed, Goto, Holders, TypeOK
    <3>2. Cardinality(Holders') = Cardinality(Holders) - 1
      BY <1>h, <3>1, FS_RemoveElement
    <3> QED
      BY <1>h, <1>l, <2>1, <2>4, <3>2, PoolAssumption DEF SlotsAccounted, ReleaseToClosed
  <2>5. CASE Drain(t)
    <3>1. Holders' = Holders /\ closed /\ closed'
      BY <2>5 DEF Drain, Holders, PhaseInv
    <3>2. Len(slots') = Len(slots) - 1
      BY <2>5, PopSlot DEF Drain, TypeOK
    <3> QED
      BY <1>h, <1>l, <2>1, <3>1, <3>2, PoolAssumption DEF SlotsAccounted
  <2>6. CASE SetClosed(t)
    <3>1. Holders' = Holders /\ closed' /\ UNCHANGED slots
      BY <2>6 DEF SetClosed, Goto, Holders, TypeOK
    <3> QED
      BY <2>1, <3>1 DEF SlotsAccounted
  <2>7. CASE Choice(t) \/ TakeTimesOut(t) \/ Dial(t) \/ ReleaseToOpen(t) \/ Drained(t)
    <3>1. Holders' = Holders
      BY <2>7 DEF Choice, Acquire, AcquireRefused, CloseCheck, SocketCloses,
                  SocketReopens, Leave, TakeTimesOut, Dial, ReleaseToOpen, Drained,
                  vars, Goto, Holders, TypeOK
    <3>2. UNCHANGED <<slots, closed>>
      BY <2>7 DEF Choice, Acquire, AcquireRefused, CloseCheck, SocketCloses,
                  SocketReopens, Leave, TakeTimesOut, Dial, ReleaseToOpen, Drained, vars
    <3> QED
      BY <2>1, <3>1, <3>2 DEF SlotsAccounted
  <2> QED
    BY <1>4, <2>2, <2>3, <2>4, <2>5, <2>6, <2>7 DEF Step
<1> QED
  BY <1>1, <1>2, <1>3, <1>4 DEF Next, Prefill

-----------------------------------------------------------------------------
(* Connections change hands, and are opened and closed by their owners.    *)
LEMMA OwnerStep ==
    ASSUME TypeOK, PhaseInv, OneOwner, NoOrphans, IdleIsOpen, [Next]_vars
    PROVE  OneOwner' /\ NoOrphans' /\ IdleIsOpen'
<1> DEFINE Single(h, s) == /\ \A t, u \in Threads : h[t] # None /\ h[t] = h[u] => t = u
                           /\ \A t \in Threads : h[t] # None => h[t] \notin s
<1>o. /\ Single(held, ToSet(slots)) /\ NoDuplicates(slots)
      /\ Single(held', ToSet(slots')) /\ NoDuplicates(slots') => OneOwner'
  BY DEF OneOwner, NoDuplicates
<1>n. None \notin open
  BY PoolAssumption DEF TypeOK
<1>i. phase = "filling" => \A t \in Threads : held[t] = None
  BY DEF PhaseInv
<1>1. CASE FillSlot
  <2>1. PICK c \in Fresh : opened' = Append(opened, c) /\ open' = open \cup {c}
    BY <1>1 DEF FillSlot
  <2>2. c \in Conns
    BY <2>1 DEF Fresh
  <2>3. ToSet(opened') = ToSet(opened) \cup {c}
    BY <2>1, <2>2, PushSlot DEF TypeOK
  <2>4. /\ slots # <<>> /\ slots' = Front(slots)
        /\ ToSet(slots) \subseteq {None} /\ ToSet(slots') \subseteq {None}
    BY <1>1, FilledSlot
  <2>5. NoDuplicates(slots')
    BY <1>o, <2>4, PopDistinct DEF TypeOK
  <2>6. OneOwner'
    BY <1>1, <1>i, <1>o, <2>4, <2>5 DEF FillSlot
  <2>7. NoOrphans'
    BY <1>1, <1>i, <1>n, <2>1, <2>2, <2>3, <2>4, PoolAssumption DEF FillSlot, NoOrphans
  <2>8. IdleIsOpen'
    BY <2>4 DEF IdleIsOpen
  <2> QED
    BY <2>6, <2>7, <2>8
<1>2. CASE FillFails
  <2>2. ToSet(slots) \subseteq {None}
    BY <1>2, FailedFill
  <2>3. slots' \in Seq(Slot) /\ ToSet(slots') \subseteq {None}
    BY <1>2, FailedFill
  <2>4. NoDuplicates(slots')
    <3>1. \A i \in 1 .. Len(slots') : slots'[i] = None
      BY <2>3, LenProperties DEF ToSet
    <3> QED
      BY <3>1 DEF NoDuplicates
  <2>5. OneOwner'
    BY <1>2, <1>i, <1>o, <2>3, <2>4 DEF FillFails
  <2>6. open' = {}
    BY <1>2, <1>i, <1>n, <2>2 DEF FillFails, NoOrphans
  <2> QED
    BY <2>3, <2>5, <2>6 DEF NoOrphans, IdleIsOpen
<1>3. CASE FillDone
  <2>1. slots = <<>> /\ opened \in Seq(Slot)
    <3>1. Len(slots) = 0
      BY <1>3, LenProperties, PoolAssumption DEF FillDone, PhaseInv, TypeOK
    <3> QED
      BY <3>1, EmptySeq, SeqMonotonic DEF TypeOK, Slot
  <2>2. slots' = opened
    BY <1>3, <2>1, ConcatEmptySeq DEF FillDone
  <2>3. NoDuplicates(slots') /\ ToSet(slots') \subseteq open /\ UNCHANGED <<open, held>>
    BY <1>3, <2>2 DEF FillDone, PhaseInv, NoDuplicates
  <2>4. OneOwner'
    BY <1>3, <1>i, <1>o, <2>3 DEF FillDone
  <2>5. ToSet(slots) = {}
    BY <2>1 DEF ToSet
  <2>6. NoOrphans'
    BY <1>3, <2>2, <2>3, <2>5 DEF NoOrphans
  <2> QED
    BY <2>3, <2>4, <2>6 DEF IdleIsOpen
<1>4. CASE Abandoned \/ UNCHANGED vars
  BY <1>4 DEF Abandoned, vars, OneOwner, NoDuplicates, NoOrphans, IdleIsOpen
<1>5. ASSUME NEW t \in Threads, Choice(t) \/ Step(t)
      PROVE  OneOwner' /\ NoOrphans' /\ IdleIsOpen'
  <2>p. UNCHANGED opened /\ ToSet(opened) = {}
    BY <1>5, Serving DEF ToSet
  <2>h. held[t] # None <=> pc[t] \in {"using", "release", "put"}
    BY DEF PhaseInv
  <2>f. \A x : [held EXCEPT ![t] = x][t] = x
              /\ \A u \in Threads \ {t} : [held EXCEPT ![t] = x][u] = held[u]
    BY DEF TypeOK
  <2>1. CASE Take(t)
    <3>1. /\ slots # <<>> /\ slots' = Front(slots) /\ held' = [held EXCEPT ![t] = Last(slots)]
          /\ UNCHANGED open
      BY <2>1 DEF Take
    <3>2. /\ ToSet(slots) = ToSet(slots') \cup {Last(slots)}
          /\ NoDuplicates(slots') /\ (Last(slots) # None => Last(slots) \notin ToSet(slots'))
      BY <1>o, <3>1, PopSlot, PopDistinct DEF TypeOK
    <3>3. held[t] = None
      BY <2>1, <2>h DEF Take
    <3>4. Single(held', ToSet(slots'))
      BY <1>o, <2>f, <3>1, <3>2
    <3>5. NoOrphans'
      BY <1>n, <2>p, <2>f, <3>1, <3>2, <3>3 DEF NoOrphans
    <3> QED
      BY <1>o, <3>1, <3>2, <3>4, <3>5 DEF IdleIsOpen
  <2>2. CASE Dial(t)
    <3>1. PICK c \in Fresh : /\ held' = [held EXCEPT ![t] = c]
                             /\ open' = open \cup {c} /\ UNCHANGED slots
      BY <2>2 DEF Dial
    <3>2. c \notin ToSet(slots) /\ \A u \in Threads : c # held[u]
      BY <3>1 DEF Fresh
    <3>3. held[t] = None
      BY <2>2, <2>h DEF Dial
    <3>4. Single(held', ToSet(slots'))
      BY <1>o, <2>f, <3>1, <3>2
    <3>5. NoOrphans'
      BY <1>n, <2>p, <2>f, <3>1, <3>3 DEF NoOrphans
    <3>6. OneOwner'
      <4>1. NoDuplicates(slots')
        BY <1>o, <3>1 DEF NoDuplicates
      <4> QED
        BY <1>o, <3>4, <4>1
    <3>7. IdleIsOpen'
      BY <3>1 DEF IdleIsOpen
    <3> QED
      BY <3>5, <3>6, <3>7
  <2>3. CASE DialFails(t)
    <3>1. slots' = Append(slots, None) /\ UNCHANGED <<open, held>>
      BY <2>3 DEF DialFails
    <3>t. slots \in Seq(Slot) /\ None \in Slot
      BY DEF TypeOK, Slot
    <3>2. ToSet(slots') = ToSet(slots) \cup {None} /\ NoDuplicates(slots')
      <4>1. ToSet(slots') = ToSet(slots) \cup {None}
        BY <3>t, <3>1, PushSlot
      <4>2. NoDuplicates(slots')
        BY <1>o, <3>t, <3>1, PushDistinct
      <4> QED
        BY <4>1, <4>2
    <3> QED
      BY <1>o, <1>n, <2>p, <3>1, <3>2 DEF NoOrphans, IdleIsOpen
  <2>4. CASE SocketCloses(t)
    <3>1. open' = open \ {held[t]} /\ UNCHANGED <<slots, held>> /\ held[t] # None
      BY <2>4, <2>h DEF SocketCloses
    <3>2. held[t] \notin ToSet(slots)
      BY <1>o, <3>1
    <3> QED
      BY <1>o, <2>p, <3>1, <3>2 DEF NoOrphans, IdleIsOpen, NoDuplicates
  <2>5. CASE SocketReopens(t)
    <3>1. open' = open \cup {held[t]} /\ UNCHANGED <<slots, held>>
      BY <2>5 DEF SocketReopens
    <3> QED
      BY <1>o, <2>p, <3>1 DEF NoOrphans, IdleIsOpen, NoDuplicates
  <2>6. CASE ReleaseToClosed(t)
    <3>1. /\ open' = open \ {held[t]} /\ UNCHANGED slots /\ held[t] # None
          /\ held' = [held EXCEPT ![t] = None]
      BY <2>6, <2>h DEF ReleaseToClosed
    <3>2. held[t] \notin ToSet(slots)
      BY <1>o, <3>1
    <3>3. Single(held', ToSet(slots'))
      BY <1>o, <2>f, <3>1
    <3>4. NoOrphans'
      BY <2>p, <2>f, <3>1 DEF NoOrphans
    <3> QED
      BY <1>o, <3>1, <3>2, <3>3, <3>4 DEF IdleIsOpen, NoDuplicates
  <2>7. CASE PutBack(t)
    <3> DEFINE x == IF held[t] \in open THEN held[t] ELSE None
    <3>1. /\ slots' = Append(slots, x) /\ UNCHANGED open /\ held[t] # None
          /\ held' = [held EXCEPT ![t] = None]
      BY <2>7, <2>h DEF PutBack
    <3>2. x \in Slot /\ (x # None => x = held[t] /\ x \notin ToSet(slots))
      BY <1>o, <3>1 DEF TypeOK, Slot
    <3>3. (x # None => x \in open) /\ (held[t] \in open => x = held[t])
      OBVIOUS
    <3> HIDE DEF x
    <3>4. ToSet(slots') = ToSet(slots) \cup {x} /\ NoDuplicates(slots')
      BY <1>o, <3>1, <3>2, PushSlot, PushDistinct DEF TypeOK
    <3>5. Single(held', ToSet(slots'))
      <4>1. \A u \in Threads \ {t} : held'[u] = held[u] /\ held[u] # held[t]
        BY <1>o, <2>f, <3>1
      <4>2. \A u \in Threads \ {t} : held[u] # None => held[u] # x
        BY <3>2, <4>1
      <4>3. held'[t] = None
        BY <2>f, <3>1
      <4> QED
        BY <1>o, <3>4, <4>1, <4>2, <4>3
    <3>6. NoOrphans'
      BY <2>p, <2>f, <3>1, <3>3, <3>4 DEF NoOrphans
    <3> QED
      BY <1>o, <3>1, <3>3, <3>4, <3>5, <3>6 DEF IdleIsOpen
  <2>8. CASE Drain(t)
    <3>1. /\ slots # <<>> /\ slots' = Front(slots) /\ open' = open \ {Last(slots)}
          /\ UNCHANGED held
      BY <2>8 DEF Drain
    <3>2. /\ ToSet(slots) = ToSet(slots') \cup {Last(slots)}
          /\ NoDuplicates(slots') /\ (Last(slots) # None => Last(slots) \notin ToSet(slots'))
      BY <1>o, <3>1, PopSlot, PopDistinct DEF TypeOK
    <3> QED
      BY <1>o, <2>p, <3>1, <3>2 DEF NoOrphans, IdleIsOpen
  <2>9. CASE Acquire(t) \/ AcquireRefused(t) \/ CloseCheck(t) \/ Leave(t)
             \/ TakeTimesOut(t) \/ ReleaseToOpen(t) \/ SetClosed(t) \/ Drained(t)
    <3>1. UNCHANGED <<slots, open, held>>
      BY <2>9 DEF Acquire, AcquireRefused, CloseCheck, Leave, TakeTimesOut,
                  ReleaseToOpen, SetClosed, Drained, vars
    <3> QED
      BY <1>o, <2>p, <3>1 DEF NoOrphans, IdleIsOpen, NoDuplicates
  <2> QED
    BY <1>5, <2>1, <2>2, <2>3, <2>4, <2>5, <2>6, <2>7, <2>8, <2>9 DEF Choice, Step
<1> QED
  BY <1>1, <1>2, <1>3, <1>4, <1>5 DEF Next, Prefill

-----------------------------------------------------------------------------
(* The constructor's stack of Size empty slots.                            *)
LEMMA InitPool ==
    ASSUME Init
    PROVE  TypeOK /\ PoolInv
<1>1. /\ slots \in Seq(Slot) /\ Len(slots) = Size
      /\ \A i \in 1 .. Size : slots[i] = None /\ DOMAIN slots = 1 .. Size
  BY PoolAssumption DEF Init, Slot
<1>2. ToSet(slots) \subseteq {None} /\ NoDuplicates(slots)
  BY <1>1 DEF ToSet, NoDuplicates
<1>3. ToSet(opened) = {} /\ Len(opened) = 0 /\ opened \in Seq(Conns)
  BY EmptySeq DEF Init, ToSet
<1>4. TypeOK
  BY <1>1, <1>3 DEF Init, TypeOK, PCs, Slot
<1>5. PhaseInv
  BY <1>1, <1>2, <1>3, PoolAssumption DEF Init, PhaseInv, NoDuplicates
<1> QED
  BY <1>2, <1>4, <1>5 DEF Init, PoolInv, OneOwner, SlotsAccounted, NoOrphans, IdleIsOpen

(* PoolInv is the inductive invariant of the pool.                         *)
LEMMA PoolInvariant == Spec => [](TypeOK /\ PoolInv)
<1>1. Init => TypeOK /\ PoolInv
  BY InitPool
<1>2. TypeOK /\ PoolInv /\ [Next]_vars => TypeOK' /\ PoolInv'
  BY NextType, PhaseStep, SlotsStep, OwnerStep DEF PoolInv
<1> QED
  BY <1>1, <1>2, PTL DEF Spec

(* Types of the pool's state.                                              *)
THEOREM TypeCorrect == Spec => []TypeOK
  BY PoolInvariant, PTL

(* acquire hands a connection to one caller at a time: never the same one  *)
(* to two threads, nor one that is in a slot, and no slot is a copy of     *)
(* another.                                                                *)
THEOREM ExclusiveOwnership == Spec => []OneOwner
<1>1. PoolInv => OneOwner
  BY DEF PoolInv
<1> QED
  BY <1>1, PoolInvariant, PTL

(* Slots in the stack and threads between _take and put add up to          *)
(* pool_size as long as the pool is open, and never to more.               *)
THEOREM NoSlotIsLost == Spec => []SlotsAccounted
<1>1. PoolInv => SlotsAccounted
  BY DEF PoolInv
<1> QED
  BY <1>1, PoolInvariant, PTL

(* Every open socket is in a slot, with a thread or in prefill's list: a   *)
(* failed prefill, _release and close leave none behind.                   *)
THEOREM NoSocketLeaks == Spec => []NoOrphans
<1>1. PoolInv => NoOrphans
  BY DEF PoolInv
<1> QED
  BY <1>1, PoolInvariant, PTL

(* _release looks at connection.closed: every connection in a slot is      *)
(* open.                                                                   *)
THEOREM NoDeadSlots == Spec => []IdleIsOpen
<1>1. PoolInv => IdleIsOpen
  BY DEF PoolInv
<1> QED
  BY <1>1, PoolInvariant, PTL
=============================================================================

--------------------------- MODULE FqSlotsProofs ---------------------------
(***************************************************************************)
(* Lemmas about stacks of slots, for both pools.                           *)
(***************************************************************************)
EXTENDS FqSlots, SequenceTheorems, TLAPS

(* A stack and the set of what is on it.                                   *)
LEMMA Stack ==
    ASSUME NEW S, NEW s \in Seq(S)
    PROVE  /\ Len(s) \in Nat /\ DOMAIN s = 1 .. Len(s)
           /\ \A i \in 1 .. Len(s) : s[i] \in S
           /\ ToSet(s) = {s[i] : i \in 1 .. Len(s)} /\ ToSet(s) \subseteq S
           /\ s # <<>> <=> Len(s) > 0
<1>1. /\ Len(s) \in Nat /\ DOMAIN s = 1 .. Len(s)
      /\ \A i \in 1 .. Len(s) : s[i] \in S
  BY LenProperties, ElementOfSeq
<1>2. s = <<>> <=> Len(s) = 0
  BY EmptySeq
<1> QED
  BY <1>1, <1>2 DEF ToSet

(* Cutting a stack below its n-th slot.                                    *)
LEMMA CutSlots ==
    ASSUME NEW S, NEW s \in Seq(S), NEW n \in 1 .. Len(s)
    PROVE  LET r == SubSeq(s, 1, n - 1)
           IN  /\ r \in Seq(S) /\ Len(r) = n - 1
               /\ \A i \in 1 .. n - 1 : r[i] = s[i]
               /\ ToSet(s) = ToSet(r) \cup {s[i] : i \in n .. Len(s)}
<1> DEFINE m == n - 1
           r == SubSeq(s, 1, m)
<1>1. /\ Len(s) \in Nat /\ m \in Nat /\ m <= Len(s) /\ n = m + 1
      /\ \A i \in 1 .. m : s[i] \in S
  BY Stack
<1> HIDE DEF m
<1>2. r \in Seq(S) /\ Len(r) = m /\ \A i \in 1 .. m : r[i] = s[i]
  <2>1. /\ r \in Seq(S) /\ Len(r) = IF 1 <= m THEN m - 1 + 1 ELSE 0
        /\ \A i \in 1 .. m - 1 + 1 : r[i] = s[1 + i - 1]
    BY <1>1, SubSeqProperties
  <2>2. m - 1 + 1 = m /\ \A i \in 1 .. m : 1 + i - 1 = i
    BY <1>1
  <2> QED
    BY <1>1, <2>1, <2>2
<1> HIDE DEF r
<1>3. ToSet(s) = ToSet(r) \cup {s[i] : i \in n .. Len(s)}
  <2>1. ToSet(s) = {s[i] : i \in 1 .. Len(s)} /\ ToSet(r) = {r[i] : i \in 1 .. m}
    BY <1>2, Stack
  <2> QED
    BY <1>1, <1>2, <2>1
<1> QED
  BY <1>2, <1>3 DEF m, r

(* Popping a stack.                                                        *)
LEMMA PopSlot ==
    ASSUME NEW S, NEW s \in Seq(S), s # <<>>
    PROVE  /\ Len(s) \in Nat \ {0}
           /\ Front(s) \in Seq(S) /\ Len(Front(s)) = Len(s) - 1
           /\ \A i \in 1 .. Len(s) - 1 : Front(s)[i] = s[i]
           /\ Last(s) \in S
           /\ ToSet(s) = ToSet(Front(s)) \cup {Last(s)}
<1>1. Len(s) \in Nat \ {0} /\ Len(s) \in 1 .. Len(s) /\ s[Len(s)] \in S
  BY Stack
<1> DEFINE n == Len(s)
           r == SubSeq(s, 1, n - 1)
<1>2. Front(s) = r /\ Last(s) = s[n]
  BY DEF Front, Last
<1>3. /\ r \in Seq(S) /\ Len(r) = n - 1 /\ \A i \in 1 .. n - 1 : r[i] = s[i]
      /\ ToSet(s) = ToSet(r) \cup {s[i] : i \in n .. Len(s)}
  BY <1>1, CutSlots
<1>4. {s[i] : i \in n .. Len(s)} = {s[n]}
  BY <1>1
<1> HIDE DEF r
<1> QED
  BY <1>1, <1>2, <1>3, <1>4

(* What is cut off a stack without duplicates is not on the rest.          *)
LEMMA CutDistinct ==
    ASSUME NEW s \in Seq(Slot), NEW n \in 1 .. Len(s), NoDuplicates(s)
    PROVE  LET r == SubSeq(s, 1, n - 1)
           IN  NoDuplicates(r) /\ (s[n] # None => s[n] \notin ToSet(r))
<1> DEFINE r == SubSeq(s, 1, n - 1)
<1>1. /\ r \in Seq(Slot) /\ Len(r) = n - 1 /\ \A i \in 1 .. n - 1 : r[i] = s[i]
      /\ Len(s) \in Nat
  BY CutSlots, Stack
<1> HIDE DEF r
<1>2. ToSet(r) = {r[i] : i \in 1 .. Len(r)}
  BY <1>1, Stack
<1>3. NoDuplicates(r)
  BY <1>1 DEF NoDuplicates
<1>4. s[n] # None => s[n] \notin ToSet(r)
  BY <1>1, <1>2 DEF NoDuplicates
<1> QED
  BY <1>3, <1>4 DEF r

(* A popped stack has no duplicates and lacks the popped connection.       *)
LEMMA PopDistinct ==
    ASSUME NEW s \in Seq(Slot), s # <<>>, NoDuplicates(s)
    PROVE  /\ NoDuplicates(Front(s))
           /\ Last(s) # None => Last(s) \notin ToSet(Front(s))
<1>1. Len(s) \in 1 .. Len(s)
  BY Stack
<1> QED
  BY <1>1, CutDistinct DEF Front, Last

(* Pushing on a stack.                                                     *)
LEMMA PushSlot ==
    ASSUME NEW S, NEW s \in Seq(S), NEW x \in S
    PROVE  /\ Append(s, x) \in Seq(S) /\ Len(Append(s, x)) = Len(s) + 1
           /\ ToSet(Append(s, x)) = ToSet(s) \cup {x}
<1>1. /\ Append(s, x) \in Seq(S) /\ Len(Append(s, x)) = Len(s) + 1
      /\ Len(s) \in Nat
      /\ \A i \in 1 .. Len(s) : Append(s, x)[i] = s[i]
      /\ Append(s, x)[Len(s) + 1] = x
  BY LenProperties
<1>2. DOMAIN s = 1 .. Len(s) /\ DOMAIN Append(s, x) = 1 .. Len(s) + 1
  BY <1>1, LenProperties
<1>3. ToSet(Append(s, x)) = ToSet(s) \cup {x}
  BY <1>1, <1>2 DEF ToSet
<1> QED
  BY <1>1, <1>3

(* Pushing what is not there makes no duplicates.                          *)
LEMMA PushDistinct ==
    ASSUME NEW s \in Seq(Slot), NEW x \in Slot, NoDuplicates(s),
           x # None => x \notin ToSet(s)
    PROVE  NoDuplicates(Append(s, x))
<1>1. /\ Len(Append(s, x)) = Len(s) + 1 /\ Len(s) \in Nat
      /\ \A i \in 1 .. Len(s) : Append(s, x)[i] = s[i]
      /\ Append(s, x)[Len(s) + 1] = x
      /\ DOMAIN s = 1 .. Len(s)
  BY LenProperties
<1>2. \A i \in 1 .. Len(s) : x # None => s[i] # x
  BY <1>1 DEF ToSet
<1> QED
  BY <1>1, <1>2 DEF NoDuplicates

(* Putting one stack on another.                                           *)
LEMMA ConcatSlots ==
    ASSUME NEW S, NEW s \in Seq(S), NEW e \in Seq(S)
    PROVE  /\ s \o e \in Seq(S) /\ Len(s \o e) = Len(s) + Len(e)
           /\ ToSet(s \o e) = ToSet(s) \cup ToSet(e)
<1>1. /\ s \o e \in Seq(S) /\ Len(s \o e) = Len(s) + Len(e)
      /\ \A i \in 1 .. Len(s) + Len(e) :
            (s \o e)[i] = IF i <= Len(s) THEN s[i] ELSE e[i - Len(s)]
  BY ConcatProperties
<1>2. /\ Len(s) \in Nat /\ Len(e) \in Nat
      /\ ToSet(s) = {s[i] : i \in 1 .. Len(s)} /\ ToSet(e) = {e[i] : i \in 1 .. Len(e)}
      /\ ToSet(s \o e) = {(s \o e)[i] : i \in 1 .. Len(s) + Len(e)}
  BY <1>1, Stack
<1>3. \A i \in 1 .. Len(s) : (s \o e)[i] = s[i] /\ i \in 1 .. Len(s) + Len(e)
  BY <1>1, <1>2
<1>4. \A j \in 1 .. Len(e) : /\ j + Len(s) \in 1 .. Len(s) + Len(e)
                             /\ (s \o e)[j + Len(s)] = e[j]
  BY <1>1, <1>2
<1>5. \A i \in 1 .. Len(s) + Len(e) :
         (s \o e)[i] \in ToSet(s) \cup ToSet(e)
  <2> SUFFICES ASSUME NEW i \in 1 .. Len(s) + Len(e)
               PROVE  (s \o e)[i] \in ToSet(s) \cup ToSet(e)
    OBVIOUS
  <2>1. CASE i <= Len(s)
    BY <1>1, <1>2, <2>1
  <2>2. CASE i > Len(s)
    <3>1. i - Len(s) \in 1 .. Len(e) /\ (s \o e)[i] = e[i - Len(s)]
      BY <1>1, <1>2, <2>2
    <3> QED
      BY <1>2, <3>1
  <2> QED
    BY <1>2, <2>1, <2>2
<1>6. ToSet(s) \cup ToSet(e) \subseteq ToSet(s \o e)
  BY <1>2, <1>3, <1>4
<1>7. ToSet(s \o e) \subseteq ToSet(s) \cup ToSet(e)
  BY <1>2, <1>5
<1> QED
  BY <1>1, <1>6, <1>7

(* Two stacks that share no connection make one without duplicates.        *)
LEMMA ConcatDistinct ==
    ASSUME NEW s \in Seq(Slot), NEW e \in Seq(Slot), NoDuplicates(s), NoDuplicates(e),
           ToSet(s) \cap ToSet(e) \subseteq {None}
    PROVE  NoDuplicates(s \o e)
<1>1. /\ s \o e \in Seq(Slot) /\ Len(s \o e) = Len(s) + Len(e)
      /\ \A i \in 1 .. Len(s) + Len(e) :
            (s \o e)[i] = IF i <= Len(s) THEN s[i] ELSE e[i - Len(s)]
  BY ConcatProperties
<1>2. /\ Len(s) \in Nat /\ Len(e) \in Nat
      /\ ToSet(s) = {s[i] : i \in 1 .. Len(s)} /\ ToSet(e) = {e[i] : i \in 1 .. Len(e)}
  BY Stack
<1>3. \A i \in 1 .. Len(s), j \in 1 .. Len(e) : s[i] # None => s[i] # e[j]
  BY <1>2
<1>4. SUFFICES ASSUME NEW i \in 1 .. Len(s) + Len(e), NEW j \in 1 .. Len(s) + Len(e),
                      (s \o e)[i] # None, (s \o e)[i] = (s \o e)[j]
               PROVE  i = j
  BY <1>1 DEF NoDuplicates
<1>5. CASE i <= Len(s) /\ j <= Len(s)
  BY <1>1, <1>2, <1>4, <1>5 DEF NoDuplicates
<1>6. CASE i <= Len(s) /\ j > Len(s)
  BY <1>1, <1>2, <1>3, <1>4, <1>6
<1>7. CASE i > Len(s) /\ j <= Len(s)
  BY <1>1, <1>2, <1>3, <1>4, <1>7
<1>8. CASE i > Len(s) /\ j > Len(s)
  <2>1. /\ i - Len(s) \in 1 .. Len(e) /\ j - Len(s) \in 1 .. Len(e)
        /\ e[i - Len(s)] # None /\ e[i - Len(s)] = e[j - Len(s)]
    BY <1>1, <1>2, <1>4, <1>8
  <2>2. i - Len(s) = j - Len(s)
    BY <2>1 DEF NoDuplicates
  <2> QED
    BY <1>2, <2>2
<1> QED
  BY <1>2, <1>5, <1>6, <1>7, <1>8

(* The slots a failed prefill leaves are empty ones.                       *)
LEMMA EmptySlots ==
    ASSUME NEW n \in Nat
    PROVE  LET e == [i \in 1 .. n |-> None]
           IN  /\ e \in Seq(Slot) /\ Len(e) = n
               /\ ToSet(e) \subseteq {None} /\ NoDuplicates(e)
<1> DEFINE e == [i \in 1 .. n |-> None]
<1>1. e \in Seq(Slot) /\ Len(e) = n /\ \A i \in 1 .. n : e[i] = None
  BY DEF Slot
<1> HIDE DEF e
<1>2. ToSet(e) = {e[i] : i \in 1 .. Len(e)}
  BY <1>1, Stack
<1>3. ToSet(e) \subseteq {None} /\ NoDuplicates(e)
  BY <1>1, <1>2 DEF NoDuplicates
<1> QED
  BY <1>1, <1>3 DEF e
=============================================================================

----------------------- MODULE FqShardedCommandsProofs -----------------------
(***************************************************************************)
(* Theorems about FqShardedCommands for any number of shards, any keys and *)
(* any sharding function.                                                  *)
(***************************************************************************)
EXTENDS FqShardedCommands, SequenceTheorems, TLAPS

(* Every step keeps the types.                                             *)
LEMMA NextType ==
    ASSUME TypeOK, [Next]_vars
    PROVE  TypeOK'
<1>e. <<>> \in Seq(BOOLEAN) /\ <<>> \in Requests
  BY CommandsAssumption DEF Requests
<1>1. CASE OpenShard
  BY <1>1, CommandsAssumption DEF TypeOK, OpenShard, Shards
<1>2. CASE OpenFails \/ CloseOpened \/ OpenDone \/ Close \/ Unusable
  BY <1>2 DEF TypeOK, OpenFails, CloseOpened, OpenDone, Close, Unusable, database, vars
<1>3. ASSUME NEW k \in Keys, ByKey(k)
      PROVE  TypeOK'
  <2>1. Routed(k) => [store EXCEPT ![home[k]] = @ \cup {k}] \in [Shards -> SUBSET Keys]
    BY DEF TypeOK, Routed
  <2>2. store' \in [Shards -> SUBSET Keys]
    BY <1>3, <2>1 DEF ByKey, TypeOK
  <2> QED
    BY <1>3, <2>2 DEF TypeOK, ByKey, End, Outcomes
<1>4. ASSUME NEW request \in Requests, Delete(request)
      PROVE  TypeOK'
  <2>1. results' \in Seq(BOOLEAN)
    <3>1. PICK n \in 0 .. MaxKeys : request \in [1 .. n -> Keys]
      BY DEF Requests
    <3> QED
      BY <1>4, <3>1, CommandsAssumption DEF Delete
  <2>2. todo' \subseteq Shards
    BY <1>4 DEF Delete, Routed
  <2> QED
    BY <1>4, <2>1, <2>2 DEF TypeOK, Delete, End, database, Outcomes
<1>5. CASE DeleteGroup
  <2>1. PICK s \in todo :
           /\ results' = [i \in DOMAIN results |->
                             IF i \in Group(s) THEN WasThere(i, store[s]) ELSE results[i]]
           /\ todo' = todo \ {s}
           /\ store' = [store EXCEPT ![s] = Deleted(s)]
    BY <1>5 DEF DeleteGroup
  <2>2. results' \in Seq(BOOLEAN)
    <3>1. \A i \in DOMAIN results :
             (IF i \in Group(s) THEN WasThere(i, store[s]) ELSE results[i]) \in BOOLEAN
      <4> TAKE i \in DOMAIN results
      <4>1. results[i] \in BOOLEAN
        BY DEF TypeOK
      <4>2. WasThere(i, store[s]) \in BOOLEAN
        BY DEF WasThere
      <4> QED
        BY <4>1, <4>2, Zenon
    <3> QED
      BY <2>1, <3>1 DEF TypeOK
  <2>3. store' \in [Shards -> SUBSET Keys]
    BY <2>1 DEF TypeOK, Deleted
  <2> QED
    BY <1>5, <2>1, <2>2, <2>3 DEF TypeOK, DeleteGroup
<1>6. CASE DeleteFails
  <2>1. PICK s \in todo : store' \in {store, [store EXCEPT ![s] = Deleted(s)]}
    BY <1>6 DEF DeleteFails
  <2>2. store' \in [Shards -> SUBSET Keys]
    BY <2>1 DEF TypeOK, Deleted
  <2> QED
    BY <1>6, <2>2 DEF TypeOK, DeleteFails, End, Outcomes
<1>7. CASE DeleteDone
  BY <1>7 DEF TypeOK, DeleteDone, End, database, Outcomes
<1>8. CASE Flush
  BY <1>e, <1>8, CommandsAssumption DEF TypeOK, Flush, database
<1>9. CASE FlushShard
  <2>1. index + 1 \in 0 .. N /\ index \in Shards
    BY <1>9, CommandsAssumption DEF FlushShard, TypeOK, Shards
  <2>2. results' \in Seq(BOOLEAN)
    <3>1. results' = Append(results, TRUE) \/ results' = Append(results, FALSE)
      BY <1>9 DEF FlushShard
    <3> QED
      BY <3>1, AppendProperties DEF TypeOK
  <2>3. store' \in [Shards -> SUBSET Keys]
    BY <1>9, <2>1 DEF FlushShard, TypeOK
  <2>4. index' \in 0 .. N
    BY <1>9, <2>1 DEF FlushShard
  <2> QED
    BY <1>9, <2>2, <2>3, <2>4 DEF TypeOK, FlushShard
<1>10. CASE FlushFails
  BY <1>10 DEF TypeOK, FlushFails, End, Outcomes
<1>11. CASE FlushDone
  BY <1>11 DEF TypeOK, FlushDone, End, database, Outcomes
<1>12. CASE UNCHANGED vars
  BY <1>12 DEF TypeOK, vars
<1>13. ASSUME NEW k \in Keys, DeleteKey(k)
       PROVE  TypeOK'
  <2>1. Routed(k) => [store EXCEPT ![home[k]] = @ \ {k}] \in [Shards -> SUBSET Keys]
    BY DEF TypeOK, Routed
  <2>2. store' \in [Shards -> SUBSET Keys]
    BY <1>13, <2>1 DEF DeleteKey, TypeOK
  <2>3. keys' \in Requests
    <3>1. <<k>> \in [1 .. 1 -> Keys] /\ 1 \in 0 .. MaxKeys
      BY CommandsAssumption
    <3> QED
      BY <1>13, <3>1 DEF DeleteKey, Requests
  <2>4. results' \in Seq(BOOLEAN)
    <3> DEFINE b == k \in store[home[k]]
    <3>1. b \in BOOLEAN
      OBVIOUS
    <3>2. results' = <<b>> \/ results' = <<FALSE>>
      BY <1>13, Zenon DEF DeleteKey
    <3> HIDE DEF b
    <3>3. <<b>> \in Seq(BOOLEAN) /\ <<FALSE>> \in Seq(BOOLEAN)
      BY <3>1
    <3> QED
      BY <3>2, <3>3
  <2> QED
    BY <1>13, <2>2, <2>3, <2>4 DEF TypeOK, DeleteKey, End, Outcomes
<1> QED
  BY <1>1, <1>2, <1>3, <1>4, <1>5, <1>6, <1>7, <1>8, <1>9, <1>10, <1>11, <1>12,
     <1>13 DEF Next

(* Types of the sharded client's state.                                    *)
THEOREM TypeCorrect == Spec => []TypeOK
<1>1. Init => TypeOK
  <2> SUFFICES ASSUME Init PROVE TypeOK
    OBVIOUS
  <2>1. keys \in Requests
    BY CommandsAssumption DEF Init, Requests
  <2>2. results \in Seq(BOOLEAN)
    BY EmptySeq DEF Init
  <2> QED
    BY <2>1, <2>2, CommandsAssumption DEF Init, TypeOK, Shards, Outcomes
<1>2. TypeOK /\ [Next]_vars => TypeOK'
  BY NextType
<1> QED
  BY <1>1, <1>2, PTL DEF Spec
-----------------------------------------------------------------------------
(* A shard is given and told to delete only keys that are routed to it.    *)
LEMMA StoresStep ==
    ASSUME TypeOK, StoresRouted, [Next]_vars
    PROVE  StoresRouted'
<1> USE DEF StoresRouted
<1>1. CASE UNCHANGED <<home, store>> /\ before' \in {before, store}
  BY <1>1
<1>2. ASSUME NEW k \in Keys, ByKey(k)
      PROVE  StoresRouted'
  <2>1. UNCHANGED home /\ before' = store
    BY <1>2 DEF ByKey
  <2>2. CASE UNCHANGED store
    BY <2>1, <2>2
  <2>3. CASE Routed(k) /\ store' = [store EXCEPT ![home[k]] = @ \cup {k}]
    <3>1. \A s \in Shards : store'[s] = IF s = home[k] THEN store[s] \cup {k} ELSE store[s]
      BY <2>3 DEF TypeOK
    <3> QED
      BY <2>1, <3>1
  <2> QED
    BY <1>2, <2>2, <2>3 DEF ByKey
<1>3. CASE UNCHANGED <<home, before>> /\ \A s \in Shards : store'[s] \subseteq store[s]
  BY <1>3
<1>4. CASE DeleteGroup \/ DeleteFails
  <2>1. UNCHANGED <<home, before>> /\ \E s \in todo :
           store' \in {store, [store EXCEPT ![s] = Deleted(s)]}
    BY <1>4 DEF DeleteGroup, DeleteFails
  <2>2. \A s \in Shards : store'[s] \subseteq store[s]
    BY <2>1 DEF TypeOK, Deleted
  <2> QED
    BY <1>3, <2>1, <2>2
<1>5. CASE FlushShard \/ FlushFails
  <2>1. UNCHANGED <<home, before>> /\ store' \in {store, [store EXCEPT ![index] = {}]}
    BY <1>5 DEF FlushShard, FlushFails
  <2>2. \A s \in Shards : store'[s] \subseteq store[s]
    BY <2>1 DEF TypeOK
  <2> QED
    BY <1>3, <2>1, <2>2
<1>6. ASSUME NEW k \in Keys, DeleteKey(k)
      PROVE  StoresRouted'
  <2>1. UNCHANGED home /\ before' = store
    BY <1>6 DEF DeleteKey
  <2>2. UNCHANGED store \/ store' = [store EXCEPT ![home[k]] = @ \ {k}]
    BY <1>6, Zenon DEF DeleteKey
  <2>3. \A s \in Shards : store'[s] \subseteq store[s]
    BY <2>2 DEF TypeOK
  <2> QED
    BY <2>1, <2>3
<1> QED
  BY <1>1, <1>2, <1>4, <1>5, <1>6
     DEF Next, OpenShard, OpenFails, CloseOpened, OpenDone, Close, Unusable,
         Delete, DeleteDone, Flush, FlushDone, database, vars

(* The shards are opened from the first on, and closed together.           *)
LEMMA OpenStep ==
    ASSUME TypeOK, OpenInv, [Next]_vars
    PROVE  OpenInv'
<1> USE DEF OpenInv, OpenAllOrNone
<1>1. CASE OpenShard
  BY <1>1, CommandsAssumption DEF OpenShard, TypeOK, Shards
<1>2. CASE OpenFails \/ CloseOpened \/ Close \/ Unusable \/ UNCHANGED vars
  BY <1>2 DEF OpenFails, CloseOpened, Close, Unusable, database, vars
<1>3. CASE OpenDone
  <2>1. up = {s \in Shards : s < N}
    BY <1>3 DEF OpenDone
  <2>2. up = Shards
    <3>1. \A s \in Shards : s < N
      BY CommandsAssumption DEF Shards
    <3> QED
      BY <2>1, <3>1
  <2> QED
    BY <1>3, <2>2 DEF OpenDone, database
<1>4. CASE /\ pc \in {"idle", "mdelete", "flush"} /\ pc' \in {"idle", "mdelete", "flush"}
           /\ UNCHANGED up
  BY <1>4
<1> QED
  BY <1>1, <1>2, <1>3, <1>4
     DEF Next, ByKey, DeleteKey, Delete, DeleteGroup, DeleteFails, DeleteDone,
         Flush, FlushShard, FlushFails, FlushDone, End, database

-----------------------------------------------------------------------------
(* mdelete takes the group whose first key comes first: no group left has  *)
(* a key before those of the next one.                                     *)
LEMMA NextComesFirst ==
    ASSUME TypeOK, NEW s \in todo, IsNext(s), NEW u \in todo
    PROVE  ~Before(u, s)
<1> SUFFICES ASSUME Before(u, s) PROVE FALSE
  OBVIOUS
<1>1. PICK n \in 0 .. MaxKeys : DOMAIN keys = 1 .. n
  BY DEF TypeOK, Requests
<1>2. PICK i \in 1 .. n : /\ home[keys[i]] = s
                         /\ \A j \in 1 .. i - 1 : home[keys[j]] \notin todo
  BY <1>1 DEF IsNext
<1>3. PICK h \in 1 .. n : home[keys[h]] = u /\ \A j \in 1 .. h : home[keys[j]] # s
  BY <1>1 DEF Before
<1>4. h < i
  BY <1>2, <1>3, CommandsAssumption
<1> QED
  BY <1>2, <1>3, <1>4, CommandsAssumption

(* One more group is done.                                                 *)
LEMMA GroupStep ==
    ASSUME TypeOK, StoresRouted, DeleteInv, DeleteGroup
    PROVE  DeleteInv'
<1> USE DEF Shards
<1>1. PICK s \in todo :
         /\ IsNext(s)
         /\ results' = [i \in DOMAIN results |->
                           IF i \in Group(s) THEN WasThere(i, store[s]) ELSE results[i]]
         /\ todo' = todo \ {s}
         /\ store' = [store EXCEPT ![s] = Deleted(s)]
  BY DEF DeleteGroup
<1>2. UNCHANGED <<home, pc, keys, before>> /\ pc = "mdelete" /\ s \in Shards
  BY DEF DeleteGroup, TypeOK
<1>3. store[s] = before[s]
  BY <1>1, <1>2 DEF DeleteInv, Touched
<1>4. \A i \in DOMAIN keys : Routed(keys[i])'
  BY <1>2 DEF DeleteInv, Routed
<1>5. ASSUME NEW u \in Shards
      PROVE  IF u \in todo' THEN ~Touched(u)' ELSE Whole(u)'
  <2>1. CASE u = s
    BY <1>1, <1>2, <1>3, <2>1 DEF TypeOK, Whole, Deleted, Group
  <2>2. CASE u # s
    <3>1. store'[u] = store[u] /\ (u \in todo <=> u \in todo')
      BY <1>1, <2>2 DEF TypeOK
    <3> QED
      BY <1>2, <3>1 DEF DeleteInv, Touched, Whole, Group
  <2> QED
    BY <2>1, <2>2
<1>6. DOMAIN results' = DOMAIN keys'
  BY <1>1, <1>2 DEF DeleteInv
<1>7. ASSUME NEW i \in DOMAIN keys, home[keys[i]] \notin todo'
      PROVE  results'[i] <=> WasThere(i, before[home[keys[i]]])
  <2>1. CASE i \in Group(s)
    <3>1. results'[i] <=> WasThere(i, store[s])
      BY <1>1, <1>2, <2>1 DEF DeleteInv
    <3>2. home[keys[i]] = s
      BY <2>1 DEF Group
    <3> QED
      BY <1>3, <3>1, <3>2
  <2>2. CASE i \notin Group(s)
    <3>1. results'[i] = results[i]
      BY <1>1, <1>2, <2>2 DEF DeleteInv
    <3>2. home[keys[i]] \notin todo
      BY <1>1, <1>7, <2>2 DEF Group
    <3>3. results[i] <=> WasThere(i, before[home[keys[i]]])
      BY <1>2, <3>2 DEF DeleteInv
    <3> QED
      BY <3>1, <3>3
  <2> QED
    BY <2>1, <2>2
<1>8. ASSUME NEW t \in todo', NEW u \in Shards, Before(t, u), Group(u) # {}
      PROVE  u \in todo'
  <2>1. t \in todo /\ u \in todo
    BY <1>1, <1>2, <1>8 DEF DeleteInv
  <2>2. u # s
    BY <1>1, <1>8, <2>1, NextComesFirst
  <2> QED
    BY <1>1, <2>1, <2>2
<1> QED
  BY <1>2, <1>4, <1>5, <1>6, <1>7, <1>8 DEF DeleteInv, WasThere, Before, Group

(* What mdelete returns is what one server would have said and done.       *)
LEMMA DeletedAsOne ==
    ASSUME TypeOK, StoresRouted, DeleteInv, pc = "mdelete", todo = {}
    PROVE  /\ DOMAIN results = DOMAIN keys
           /\ \A i \in DOMAIN keys : results[i] <=> WasThere(i, Held(before))
           /\ Held(store) = Held(before) \ {keys[i] : i \in DOMAIN keys}
<1>1. ASSUME NEW i \in DOMAIN keys
      PROVE  results[i] <=> WasThere(i, Held(before))
  <2>1. home[keys[i]] \in Shards
    BY DEF DeleteInv, Routed
  <2>2. keys[i] \in Held(before) <=> keys[i] \in before[home[keys[i]]]
    BY <2>1 DEF Held, StoresRouted
  <2> QED
    BY <2>2 DEF DeleteInv, WasThere
<1>2. DOMAIN results = DOMAIN keys
  BY DEF DeleteInv
<1>3. ASSUME NEW s \in Shards, NEW k
      PROVE  k \in store[s] <=> k \in before[s] \ {keys[i] : i \in DOMAIN keys}
  <2>1. store[s] = before[s] \ {keys[i] : i \in Group(s)}
    BY DEF DeleteInv, Whole
  <2>2. k \in before[s] => \A i \in DOMAIN keys : keys[i] = k => i \in Group(s)
    BY DEF StoresRouted, Group
  <2> QED
    BY <2>1, <2>2 DEF Group
<1> QED
  BY <1>1, <1>2, <1>3 DEF Held

(* An mdelete that fails leaves the groups done that come first.           *)
LEMMA FailedInOrder ==
    ASSUME TypeOK, DeleteInv, DeleteFails
    PROVE  FailsInOrder'
<1>1. PICK s \in todo : IsNext(s) /\ store' \in {store, [store EXCEPT ![s] = Deleted(s)]}
  BY DEF DeleteFails
<1>2. UNCHANGED <<home, keys, before>> /\ pc = "mdelete" /\ outcome' = "delete failed"
      /\ s \in Shards
  BY DEF DeleteFails, End, TypeOK
<1>3. \A u \in Shards : u # s => store'[u] = store[u]
  BY <1>1 DEF TypeOK
<1>4. Touched(s)' => Whole(s)'
  <2>1. store'[s] \in {store[s], Deleted(s)} /\ store[s] = before[s]
    BY <1>1, <1>2 DEF TypeOK, DeleteInv, Touched
  <2> QED
    BY <1>2, <2>1 DEF Touched, Whole, Deleted, Group
<1>5. ASSUME NEW u \in Shards, u \notin todo
      PROVE  Whole(u) /\ store'[u] = store[u] /\ Whole(u)'
  <2>1. Whole(u)
    BY <1>2, <1>5 DEF DeleteInv
  <2>2. store'[u] = store[u]
    BY <1>1, <1>3, <1>5
  <2> QED
    BY <1>2, <2>1, <2>2 DEF Whole, Group
<1>6. ASSUME NEW u \in Shards, Touched(u)'
      PROVE  Whole(u)' /\ \A t \in Shards : Before(t, u)' => Whole(t)'
  <2>1. u = s \/ u \notin todo
    BY <1>2, <1>3, <1>6 DEF DeleteInv, Touched
  <2>2. ASSUME NEW t \in Shards, Before(t, u)
        PROVE  t \notin todo
    <3>1. CASE u = s
      BY <1>1, <2>2, <3>1, NextComesFirst
    <3>2. CASE u \notin todo
      <4>1. Group(u) # {}
        <5>1. store[u] # before[u]
          BY <1>2, <1>5, <1>6, <3>2 DEF Touched
        <5> QED
          BY <1>5, <3>2, <5>1 DEF Whole
      <4> QED
        BY <1>2, <2>2, <3>2, <4>1 DEF DeleteInv
    <3> QED
      BY <2>1, <3>1, <3>2
  <2>3. \A t \in Shards : Before(t, u)' => Before(t, u)
    BY <1>2 DEF Before
  <2> QED
    BY <1>4, <1>5, <1>6, <2>1, <2>2, <2>3
<1> QED
  BY <1>2, <1>6 DEF FailsInOrder

(* delete of one key is mdelete of it alone.                               *)
LEMMA DeleteKeyStep ==
    ASSUME TypeOK, StoresRouted, NEW k \in Keys, DeleteKey(k)
    PROVE  DeletesAsOne' /\ FailsInOrder'
<1>1. /\ pc' = "idle" /\ keys' = <<k>> /\ before' = store /\ UNCHANGED home
      /\ DOMAIN keys' = {1} /\ keys'[1] = k
  <2>1. pc' = "idle" /\ keys' = <<k>> /\ before' = store /\ UNCHANGED home
    BY Zenon DEF DeleteKey, End
  <2>2. DOMAIN <<k>> = {1} /\ <<k>>[1] = k
    OBVIOUS
  <2> QED
    BY <2>1, <2>2
<1>2. CASE outcome' = "misrouted" /\ UNCHANGED store
  BY <1>1, <1>2 DEF DeletesAsOne, FailsInOrder
<1>3. CASE /\ Routed(k) /\ outcome' = "deleted"
           /\ results' = <<k \in store[home[k]]>>
           /\ store' = [store EXCEPT ![home[k]] = @ \ {k}]
  <2>1. \A s \in Shards : store'[s] = store[s] \ {k}
    BY <1>3 DEF TypeOK, StoresRouted
  <2>2. k \in Held(store) <=> k \in store[home[k]]
    BY <1>3 DEF Held, StoresRouted, Routed
  <2>3. Held(store)' = Held(store) \ {k} /\ Held(before)' = Held(store)
    BY <1>1, <2>1 DEF Held
  <2>4. {keys'[i] : i \in DOMAIN keys'} = {k}
    BY <1>1
  <2>5. DOMAIN results' = DOMAIN keys' /\ (results'[1] <=> k \in Held(store))
    <3> DEFINE b == k \in store[home[k]]
    <3>1. results' = <<b>> /\ (b <=> k \in Held(store))
      BY <1>3, <2>2, Zenon
    <3> HIDE DEF b
    <3>2. DOMAIN <<b>> = {1} /\ <<b>>[1] = b
      OBVIOUS
    <3> QED
      BY <1>1, <3>1, <3>2
  <2>6. WasThere(1, Held(before))' <=> k \in Held(store)
    BY <1>1, <2>3 DEF WasThere
  <2> QED
    BY <1>1, <1>3, <2>3, <2>4, <2>5, <2>6 DEF DeletesAsOne, FailsInOrder
<1>4. CASE /\ Routed(k) /\ outcome' = "delete failed"
           /\ store' \in {store, [store EXCEPT ![home[k]] = @ \ {k}]}
  <2>1. ASSUME NEW u \in Shards, store'[u] # store[u]
        PROVE  u = home[k] /\ store'[u] = store[u] \ {k}
    BY <1>4, <2>1 DEF TypeOK, Routed
  <2>2. {keys'[i] : i \in Group(home[k])'} = {k}
    BY <1>1 DEF Group
  <2>3. ASSUME NEW u \in Shards, Touched(u)'
        PROVE  Whole(u)' /\ \A t \in Shards : ~Before(t, u)'
    <3>1. u = home[k] /\ store'[u] = store[u] \ {k}
      BY <1>1, <2>1, <2>3 DEF Touched
    <3>2. Whole(u)'
      BY <1>1, <2>2, <3>1 DEF Whole
    <3>3. \A t \in Shards : ~Before(t, u)'
      BY <1>1, <3>1 DEF Before
    <3> QED
      BY <3>2, <3>3
  <2> QED
    BY <1>1, <1>4, <2>3 DEF DeletesAsOne, FailsInOrder
<1> QED
  BY <1>2, <1>3, <1>4 DEF DeleteKey, End

(* delete and mdelete as a whole.                                          *)
LEMMA DeleteStep ==
    ASSUME TypeOK, TypeOK', StoresRouted, OpenInv, DeleteInv, DeletesAsOne,
           FailsInOrder, [Next]_vars
    PROVE  DeleteInv' /\ DeletesAsOne' /\ FailsInOrder'
<1>1. CASE pc' \notin {"idle", "mdelete"}
  BY <1>1 DEF DeleteInv, DeletesAsOne, FailsInOrder
<1>2. CASE pc' = "idle" /\ outcome' \notin {"misrouted", "deleted", "delete failed"}
  BY <1>2 DEF DeleteInv, DeletesAsOne, FailsInOrder
<1>3. CASE pc' = "idle" /\ outcome' = "misrouted" /\ store' = before'
  BY <1>3 DEF DeleteInv, DeletesAsOne, FailsInOrder
<1>4. ASSUME NEW request \in Requests, Delete(request), pc' = "mdelete"
      PROVE  DeleteInv' /\ DeletesAsOne' /\ FailsInOrder'
  <2>1. /\ \A i \in DOMAIN request : Routed(request[i])
        /\ keys' = request /\ todo' = {home[request[i]] : i \in DOMAIN request}
        /\ results' = [i \in DOMAIN request |-> FALSE]
        /\ before' = store /\ UNCHANGED <<home, store>>
    BY <1>4 DEF Delete, End, database
  <2>2. \A s \in Shards : s \notin todo' => Group(s)' = {}
    BY <2>1 DEF Group
  <2>3. \A s \in Shards : ~Touched(s)' /\ (s \notin todo' => Whole(s)')
    BY <2>1, <2>2 DEF Touched, Whole
  <2>4. \A i \in DOMAIN keys' : Routed(keys[i])' /\ home'[keys'[i]] \in todo'
    BY <2>1 DEF Routed
  <2>5. DOMAIN results' = DOMAIN keys'
    BY <2>1
  <2> QED
    BY <1>4, <2>2, <2>3, <2>4, <2>5, Zenon DEF DeleteInv, DeletesAsOne, FailsInOrder
<1>5. CASE DeleteGroup
  <2>1. pc' = "mdelete"
    BY <1>5 DEF DeleteGroup
  <2> QED
    BY <1>5, <2>1, GroupStep DEF DeletesAsOne, FailsInOrder
<1>6. CASE DeleteFails
  <2>1. pc' = "idle" /\ outcome' = "delete failed"
    BY <1>6 DEF DeleteFails, End
  <2> QED
    BY <1>6, <2>1, FailedInOrder DEF DeleteInv, DeletesAsOne
<1>7. CASE DeleteDone
  <2>1. /\ pc = "mdelete" /\ todo = {} /\ pc' = "idle" /\ outcome' = "deleted"
        /\ UNCHANGED <<keys, results, store, before>>
    BY <1>7 DEF DeleteDone, End, database
  <2> QED
    <3>1. UNCHANGED <<Held(store), Held(before)>>
      BY <2>1 DEF Held
    <3>2. \A i \in DOMAIN keys :
             WasThere(i, Held(before))' <=> WasThere(i, Held(before))
      BY <2>1, <3>1 DEF WasThere
    <3> QED
      BY <2>1, <3>1, <3>2, DeletedAsOne DEF DeleteInv, DeletesAsOne, FailsInOrder
<1>8. CASE UNCHANGED vars
  <2> USE <1>8 DEF vars
  <2>1. DeleteInv'
    BY DEF DeleteInv, Touched, Whole, Group, Before, Routed, WasThere
  <2>2. DeletesAsOne'
    <3>1. UNCHANGED <<Held(store), Held(before)>>
      BY DEF Held
    <3>2. \A i \in DOMAIN keys :
             WasThere(i, Held(before))' <=> WasThere(i, Held(before))
      BY <3>1 DEF WasThere
    <3> QED
      BY <3>1, <3>2 DEF DeletesAsOne
  <2>3. FailsInOrder'
    <3>1. \A u \in Shards : /\ Touched(u)' <=> Touched(u)
                            /\ Whole(u)' <=> Whole(u)
                            /\ \A t \in Shards : Before(t, u)' <=> Before(t, u)
      BY DEF Touched, Whole, Group, Before
    <3> QED
      BY <3>1 DEF FailsInOrder
  <2> QED
    BY <2>1, <2>2, <2>3
<1>9. CASE \E request \in Requests : Delete(request)
  <2>1. PICK request \in Requests : Delete(request)
    BY <1>9
  <2>2. pc' = "mdelete" \/ (pc' = "idle" /\ outcome' = "misrouted" /\ store' = before')
    BY <2>1 DEF Delete, End, database
  <2> QED
    BY <1>3, <1>4, <2>1, <2>2
<1>10. CASE \E k \in Keys : ByKey(k)
  BY <1>2, <1>3, <1>10 DEF ByKey, End
<1>11. CASE OpenShard \/ OpenFails \/ CloseOpened \/ Close \/ Unusable \/ Flush
            \/ FlushShard
  BY <1>1, <1>11
     DEF OpenShard, OpenFails, CloseOpened, Close, Unusable, Flush, FlushShard, vars
<1>12. CASE OpenDone \/ FlushFails \/ FlushDone
  BY <1>2, <1>12 DEF OpenDone, OpenInv, FlushFails, FlushDone, End
<1>13. CASE \E k \in Keys : DeleteKey(k)
  <2>1. pc' = "idle"
    BY <1>13 DEF DeleteKey, End
  <2> QED
    BY <1>13, <2>1, DeleteKeyStep DEF DeleteInv
<1> QED
  BY <1>5, <1>6, <1>7, <1>8, <1>9, <1>10, <1>11, <1>12, <1>13 DEF Next

-----------------------------------------------------------------------------
(* One shard after the other is emptied, or says that it was not.          *)
LEMMA FlushStep ==
    ASSUME TypeOK, TypeOK', OpenInv, FlushInv, FlushIsWhole, [Next]_vars
    PROVE  FlushInv' /\ FlushIsWhole'
<1> DEFINE ended == {"flushed", "not flushed", "flush failed"}
<1>1. CASE pc' \notin {"idle", "flush"}
  BY <1>1 DEF FlushInv, FlushIsWhole
<1>2. CASE pc' = "idle" /\ outcome' \notin ended
  BY <1>2 DEF FlushInv, FlushIsWhole
<1>3. CASE Flush
  <2>1. /\ pc' = "flush" /\ index' = 0 /\ results' = <<>>
        /\ before' = store /\ UNCHANGED store
    BY <1>3 DEF Flush, database
  <2>2. \A s \in Shards : ~(s < 0)
    BY CommandsAssumption DEF Shards
  <2> QED
    BY <2>1, <2>2 DEF FlushInv, FlushIsWhole
<1>4. CASE FlushShard
  <2>1. /\ pc = "flush" /\ pc' = "flush" /\ index \in Shards /\ index' = index + 1
        /\ UNCHANGED before
    BY <1>4, CommandsAssumption DEF FlushShard, TypeOK, Shards
  <2>2. PICK b \in BOOLEAN :
           /\ results' = Append(results, b)
           /\ store' = IF b THEN [store EXCEPT ![index] = {}] ELSE store
    BY <1>4 DEF FlushShard
  <2>3. /\ Len(results) = index /\ Len(results') = index + 1
        /\ results'[index + 1] = b
        /\ \A i \in 1 .. index : results'[i] = results[i]
    BY <2>1, <2>2, AppendProperties DEF TypeOK, FlushInv
  <2>4. ASSUME NEW s \in Shards
        PROVE  store'[s] = IF s < index' /\ results'[s + 1] THEN {} ELSE before'[s]
    <3>1. store[s] = IF s < index /\ results[s + 1] THEN {} ELSE before[s]
      BY <2>1 DEF FlushInv
    <3>2. CASE s = index
      <4>1. s < index' /\ ~(s < index) /\ results'[s + 1] = b
        BY <2>1, <2>3, <3>2 DEF Shards
      <4>2. store'[s] = IF b THEN {} ELSE store[s]
        BY <2>1, <2>2, <3>2 DEF TypeOK
      <4> QED
        BY <2>1, <3>1, <4>1, <4>2
    <3>3. CASE s < index
      <4>1. s < index' /\ s + 1 \in 1 .. index /\ s # index
        BY <2>1, <3>3, CommandsAssumption DEF Shards
      <4>2. results'[s + 1] = results[s + 1]
        BY <2>3, <4>1
      <4>3. store'[s] = store[s]
        BY <2>1, <2>2, <4>1 DEF TypeOK
      <4> QED
        BY <2>1, <3>1, <3>3, <4>1, <4>2, <4>3
    <3>4. CASE s > index
      BY <2>1, <2>2, <2>3, <3>1, <3>4, CommandsAssumption DEF TypeOK, Shards
    <3> QED
      BY <2>1, <3>2, <3>3, <3>4, CommandsAssumption DEF Shards
  <2> QED
    BY <2>1, <2>3, <2>4 DEF FlushInv, FlushIsWhole
<1>5. CASE FlushFails
  <2>1. /\ pc = "flush" /\ pc' = "idle" /\ outcome' = "flush failed"
        /\ UNCHANGED <<results, before>>
        /\ store' \in {store, [store EXCEPT ![index] = {}]}
    BY <1>5 DEF FlushFails, End
  <2>2. Len(results) = index
    BY <2>1 DEF FlushInv
  <2>3. ASSUME NEW s \in Shards
        PROVE  /\ s < Len(results') => store'[s] = IF results'[s + 1] THEN {} ELSE before'[s]
               /\ s > Len(results') => store'[s] = before'[s]
    <3>1. store[s] = IF s < index /\ results[s + 1] THEN {} ELSE before[s]
      BY <2>1 DEF FlushInv
    <3>2. s # index => store'[s] = store[s]
      BY <2>1 DEF TypeOK
    <3>3. index \in Nat /\ s \in Nat
      BY CommandsAssumption DEF TypeOK, Shards
    <3>4. s < index => store'[s] = IF results[s + 1] THEN {} ELSE before[s]
      BY <3>1, <3>2, <3>3
    <3>5. s > index => store'[s] = before[s]
      BY <3>1, <3>2, <3>3
    <3> QED
      BY <2>1, <2>2, <3>4, <3>5
  <2> QED
    BY <2>1, <2>3 DEF FlushInv, FlushIsWhole, Touched
<1>6. CASE FlushDone
  <2>1. /\ pc = "flush" /\ pc' = "idle" /\ index = N
        /\ outcome' \in {"flushed", "not flushed"}
        /\ outcome' = "flushed" => \A i \in DOMAIN results : results[i]
        /\ UNCHANGED <<results, before, store>>
    BY <1>6 DEF FlushDone, End, database
  <2>2. Len(results) = N
    BY <2>1 DEF FlushInv
  <2>3. \A s \in Shards : s + 1 \in DOMAIN results /\ s < N
    BY <2>2, CommandsAssumption DEF TypeOK, Shards
  <2>4. \A s \in Shards : store[s] = IF results[s + 1] THEN {} ELSE before[s]
    BY <2>1, <2>3 DEF FlushInv
  <2>5. outcome' = "flushed" => Held(store) = {}
    BY <2>1, <2>3, <2>4 DEF Held
  <2>6. \A s \in Shards : ~(s > N)
    BY CommandsAssumption DEF Shards
  <2> QED
    BY <2>1, <2>2, <2>4, <2>5, <2>6 DEF FlushInv, FlushIsWhole, Held
<1>7. CASE UNCHANGED vars
  BY <1>7 DEF vars, FlushInv, FlushIsWhole, Held, Touched
<1>8. CASE \E request \in Requests : Delete(request)
  BY <1>1, <1>2, <1>8 DEF Delete, End
<1>9. CASE \E k \in Keys : ByKey(k) \/ DeleteKey(k)
  BY <1>2, <1>9 DEF ByKey, DeleteKey, End
<1>10. CASE OpenShard \/ OpenFails \/ CloseOpened \/ Close \/ Unusable \/ DeleteGroup
  BY <1>1, <1>10
     DEF OpenShard, OpenFails, CloseOpened, Close, Unusable, DeleteGroup, vars
<1>11. CASE OpenDone \/ DeleteFails \/ DeleteDone
  BY <1>2, <1>11 DEF OpenDone, OpenInv, DeleteFails, DeleteDone, End
<1> QED
  BY <1>3, <1>4, <1>5, <1>6, <1>7, <1>8, <1>9, <1>10, <1>11 DEF Next

-----------------------------------------------------------------------------
(* CommandsInv is the inductive invariant of the sharded client.           *)
LEMMA CommandsInvariant == Spec => []CommandsInv
<1>1. Init => CommandsInv
  <2> SUFFICES ASSUME Init PROVE CommandsInv
    OBVIOUS
  <2>1. StoresRouted
    BY DEF Init, StoresRouted
  <2>2. OpenInv
    BY CommandsAssumption DEF Init, OpenInv, OpenAllOrNone, Shards
  <2> QED
    BY <2>1, <2>2 DEF Init, CommandsInv, DeleteInv, FlushInv, DeletesAsOne,
                      FailsInOrder, FlushIsWhole
<1>2. TypeOK /\ TypeOK' /\ CommandsInv /\ [Next]_vars => CommandsInv'
  BY StoresStep, OpenStep, DeleteStep, FlushStep DEF CommandsInv
<1> QED
  BY <1>1, <1>2, TypeCorrect, PTL DEF Spec

(* mdelete over N shards is mdelete on one server, results and effect, in  *)
(* the order of the keys, with repetitions, whatever sharding_func does.   *)
THEOREM ShardedDeleteIsOne == Spec => []DeletesAsOne
<1>1. CommandsInv => DeletesAsOne
  BY DEF CommandsInv
<1> QED
  BY <1>1, CommandsInvariant, PTL

(* What an mdelete that raises has done: nothing when a key cannot be      *)
(* routed, else whole groups, those whose keys come first.                 *)
THEOREM DeleteFailsInOrder == Spec => []FailsInOrder
<1>1. CommandsInv => FailsInOrder
  BY DEF CommandsInv
<1> QED
  BY <1>1, CommandsInvariant, PTL

(* flushdb and truncate ask every shard unless one fails, and say TRUE     *)
(* only of an empty database.                                              *)
THEOREM FlushAsksEveryShard == Spec => []FlushIsWhole
<1>1. CommandsInv => FlushIsWhole
  BY DEF CommandsInv
<1> QED
  BY <1>1, CommandsInvariant, PTL

(* The constructor and open() leave all shards open or none.               *)
THEOREM AllShardsOrNone == Spec => []OpenAllOrNone
<1>1. CommandsInv => OpenAllOrNone
  BY DEF CommandsInv, OpenInv
<1> QED
  BY <1>1, CommandsInvariant, PTL
=============================================================================

-------------------------- MODULE FqShardedCommands --------------------------
(***************************************************************************)
(* The life of a ShardedClient or an AsyncShardedClient, one call after    *)
(* the other: opening its shards, commands routed by key, mdelete split    *)
(* over the shards, flushdb or truncate on all of them, and closing it.  A *)
(* call to a shard may fail, before or after the shard carried it out; the *)
(* calls to the earlier shards are not undone.                             *)
(***************************************************************************)
EXTENDS Naturals, Sequences, FiniteSets

CONSTANTS
    N,         \* the number of shards
    Keys,
    MaxKeys    \* the most keys a delete or an mdelete is given

ASSUME CommandsAssumption == {N, MaxKeys} \subseteq Nat \ {0}

Shards == 0 .. N - 1

(* What is asked of mdelete: keys in any order, repeated or not.           *)
Requests == UNION {[1 .. n -> Keys] : n \in 0 .. MaxKeys}

VARIABLES
    home,       \* home[k]: what the sharding function returns for k
    up,         \* the shards whose client is open
    pc,         \* where the client is
    index,      \* the shard the loop over all shards is at
    keys,       \* the argument of delete or mdelete
    todo,       \* the shards of mdelete's groups not asked yet
    results,    \* the list of results so far
    outcome,    \* how the last call ended
    store,      \* store[s]: the keys that shard s holds
    before      \* before[s]: the same when the last call began

vars == <<home, up, pc, index, keys, todo, results, outcome, store, before>>
database == <<home, up, store>>

Outcomes == {"none", "misrouted",            \* ShardIndexError
             "changed", "command failed",
             "deleted", "delete failed",
             "flushed", "not flushed", "flush failed"}

TypeOK ==
    /\ home \in [Keys -> 0 .. N]
    /\ up \subseteq Shards
    /\ pc \in {"open", "undo", "broken", "idle", "mdelete", "flush", "closed"}
    /\ index \in 0 .. N
    /\ keys \in Requests
    /\ todo \subseteq Shards
    /\ results \in Seq(BOOLEAN)
    /\ outcome \in Outcomes
    /\ store \in [Shards -> SUBSET Keys]
    /\ before \in [Shards -> SUBSET Keys]

(* Any function may be given as sharding_func; N stands for an index that  *)
(* is out of range.                                                        *)
Init ==
    /\ home \in [Keys -> 0 .. N]
    /\ up = {} /\ pc = "open" /\ index = 0
    /\ keys = <<>> /\ todo = {} /\ results = <<>> /\ outcome = "none"
    /\ store = [s \in Shards |-> {}] /\ before = store

-----------------------------------------------------------------------------
(* ShardedClient.__init__ and AsyncShardedClient.open.                     *)

OpenShard ==
    /\ pc = "open" /\ index < N
    /\ up' = up \cup {index}
    /\ index' = index + 1
    /\ UNCHANGED <<home, pc, keys, todo, results, outcome, store, before>>

(* A shard's own client leaves nothing open when it fails (FqPool and      *)
(* FqAsyncPool).                                                           *)
OpenFails ==
    /\ pc = "open" /\ index < N
    /\ pc' = "undo"
    /\ UNCHANGED <<database, index, keys, todo, results, outcome, before>>

(* Mutant of CloseOpened: the loop over the opened shards starts at 1.     *)
CloseAllButFirst ==
    /\ pc = "undo"
    /\ up' = up \cap {0}
    /\ pc' = "broken"
    /\ UNCHANGED <<home, index, keys, todo, results, outcome, store, before>>

CloseOpened ==
    /\ pc = "undo"
    /\ up' = {}
    /\ pc' = "broken"
    /\ UNCHANGED <<home, index, keys, todo, results, outcome, store, before>>

OpenDone ==
    /\ pc = "open" /\ index = N
    /\ pc' = "idle"
    /\ UNCHANGED <<database, index, keys, todo, results, outcome, before>>

(* close and aclose: every shard's client is closed, in one loop.          *)
Close ==
    /\ pc = "idle"
    /\ up' = {}
    /\ pc' = "closed"
    /\ UNCHANGED <<home, index, keys, todo, results, outcome, store, before>>

(* The constructor, or open, raised, or the client was closed: every call  *)
(* raises PoolClosedError.  A second open raises again: the pool of the    *)
(* shard that failed stays a slot short (ReadyIsWhole, FqAsyncPool).       *)
Unusable == pc \in {"broken", "closed"} /\ UNCHANGED vars

-----------------------------------------------------------------------------
Routed(k) == home[k] \in Shards

End(o) == pc' = "idle" /\ outcome' = o

(* The other mutating commands on one key: the shard may hold the key then.*)
ByKey(k) ==
    /\ pc = "idle"
    /\ before' = store
    /\ \/ /\ Routed(k)
          /\ store' = [store EXCEPT ![home[k]] = @ \cup {k}]
          /\ End("changed")
       \/ /\ Routed(k)
          /\ store' \in {store, [store EXCEPT ![home[k]] = @ \cup {k}]}
          /\ End("command failed")
       \/ /\ ~Routed(k)
          /\ UNCHANGED store
          /\ End("misrouted")
    /\ UNCHANGED <<home, up, index, keys, todo, results>>

-----------------------------------------------------------------------------
(* mdelete: group_by_shard, then the groups in the order their shards come *)
(* up in the keys.                                                         *)

(* All keys are routed before the first request is made.                   *)
Delete(request) ==
    /\ pc = "idle"
    /\ keys' = request
    /\ results' = [i \in DOMAIN request |-> FALSE]
    /\ before' = store
    /\ \/ /\ \A i \in DOMAIN request : Routed(request[i])
          /\ todo' = {home[request[i]] : i \in DOMAIN request}
          /\ pc' = "mdelete"
          /\ UNCHANGED outcome
       \/ /\ \E i \in DOMAIN request : ~Routed(request[i])
          /\ todo' = {}
          /\ End("misrouted")
    /\ UNCHANGED <<database, index>>

(* delete, on one key.                                                     *)
DeleteKey(k) ==
    /\ pc = "idle"
    /\ keys' = <<k>> /\ todo' = {}
    /\ before' = store
    /\ \/ /\ Routed(k)
          /\ results' = <<k \in store[home[k]]>>
          /\ store' = [store EXCEPT ![home[k]] = @ \ {k}]
          /\ End("deleted")
       \/ /\ Routed(k)
          /\ store' \in {store, [store EXCEPT ![home[k]] = @ \ {k}]}
          /\ End("delete failed")
          /\ results' = <<FALSE>>
       \/ /\ ~Routed(k)
          /\ UNCHANGED store
          /\ End("misrouted")
          /\ results' = <<FALSE>>
    /\ UNCHANGED <<home, up, index>>

(* Mutant of IsNext: any group.                                            *)
IsLeft(s) == s \in todo

(* The group that is next: the shard of the first key not asked for yet.   *)
IsNext(s) ==
    \E i \in DOMAIN keys :
        /\ home[keys[i]] = s /\ s \in todo
        /\ \A j \in 1 .. i - 1 : home[keys[j]] \notin todo

Group(s) == {i \in DOMAIN keys : home[keys[i]] = s}

(* A shard deletes the keys it is given in their order and answers for     *)
(* each whether it was there.                                              *)
WasThere(i, held) == keys[i] \in held /\ \A j \in 1 .. i - 1 : keys[j] # keys[i]

Deleted(s) == store[s] \ {keys[i] : i \in Group(s)}

(* Mutant of DeleteGroup: a group's results go by rank in the group.       *)
DeleteGroupByRank ==
    /\ pc = "mdelete"
    /\ \E s \in todo :
          /\ IsNext(s)
          /\ LET Rank(i) == Cardinality({g \in Group(s) : g <= i}) IN
             results' = [i \in DOMAIN results |->
                            IF i <= Cardinality(Group(s))
                            THEN \E g \in Group(s) : Rank(g) = i /\ WasThere(g, store[s])
                            ELSE results[i]]
          /\ todo' = todo \ {s}
          /\ store' = [store EXCEPT ![s] = Deleted(s)]
    /\ UNCHANGED <<home, up, pc, index, keys, outcome, before>>

DeleteGroup ==
    /\ pc = "mdelete"
    /\ \E s \in todo :
          /\ IsNext(s)
          /\ results' = [i \in DOMAIN results |->
                            IF i \in Group(s) THEN WasThere(i, store[s]) ELSE results[i]]
          /\ todo' = todo \ {s}
          /\ store' = [store EXCEPT ![s] = Deleted(s)]
    /\ UNCHANGED <<home, up, pc, index, keys, outcome, before>>

(* The shard's call raises; the shard may have carried it out.             *)
DeleteFails ==
    /\ pc = "mdelete"
    /\ \E s \in todo :
          /\ IsNext(s)
          /\ store' \in {store, [store EXCEPT ![s] = Deleted(s)]}
    /\ End("delete failed")
    /\ UNCHANGED <<home, up, index, keys, todo, results, before>>

DeleteDone ==
    /\ pc = "mdelete" /\ todo = {}
    /\ End("deleted")
    /\ UNCHANGED <<database, index, keys, todo, results, before>>

-----------------------------------------------------------------------------
(* flushdb and truncate.                                                   *)

Flush ==
    /\ pc = "idle"
    /\ pc' = "flush"
    /\ index' = 0
    /\ keys' = <<>> /\ todo' = {} /\ results' = <<>>
    /\ before' = store
    /\ UNCHANGED <<database, outcome>>

(* A shard empties itself, or says that it did not.                        *)
FlushShard ==
    /\ pc = "flush" /\ index < N
    /\ \/ store' = [store EXCEPT ![index] = {}] /\ results' = Append(results, TRUE)
       \/ UNCHANGED store /\ results' = Append(results, FALSE)
    /\ index' = index + 1
    /\ UNCHANGED <<home, up, pc, keys, todo, outcome, before>>

(* Mutant of FlushFails: an error its callers do not know.                 *)
FlushFailsStrangely ==
    /\ pc = "flush" /\ index < N
    /\ End("unflushed")
    /\ UNCHANGED <<database, index, keys, todo, results, before>>

FlushFails ==
    /\ pc = "flush" /\ index < N
    /\ store' \in {store, [store EXCEPT ![index] = {}]}
    /\ End("flush failed")
    /\ UNCHANGED <<home, up, index, keys, todo, results, before>>

(* Mutant of FlushDone: all() over a generator stops at the first FALSE.   *)
FlushDoneEarly ==
    /\ pc = "flush"
    /\ \/ index = N /\ (\A i \in DOMAIN results : results[i]) /\ End("flushed")
       \/ (\E i \in DOMAIN results : ~results[i]) /\ End("not flushed")
    /\ UNCHANGED <<database, index, keys, todo, results, before>>

(* all() over a list: every shard was asked, whatever the others said.     *)
FlushDone ==
    /\ pc = "flush" /\ index = N
    /\ \/ (\A i \in DOMAIN results : results[i]) /\ End("flushed")
       \/ (\E i \in DOMAIN results : ~results[i]) /\ End("not flushed")
    /\ UNCHANGED <<database, index, keys, todo, results, before>>

-----------------------------------------------------------------------------
Next ==
    \/ OpenShard \/ OpenFails \/ CloseOpened \/ OpenDone \/ Close \/ Unusable
    \/ \E k \in Keys : ByKey(k) \/ DeleteKey(k)
    \/ \E request \in Requests : Delete(request)
    \/ DeleteGroup \/ DeleteFails \/ DeleteDone
    \/ Flush \/ FlushShard \/ FlushFails \/ FlushDone

Spec == Init /\ [][Next]_vars

-----------------------------------------------------------------------------
(* The logical database: what all shards hold together.                    *)
Held(stores) == UNION {stores[s] : s \in Shards}

(* "One logical database": a delete or mdelete that returns has done what  *)
(* a single server does with the same keys, repetitions among them: the    *)
(* results, in the order of the keys, and the keys that are left.          *)
DeletesAsOne ==
    outcome = "deleted" /\ pc = "idle" =>
        /\ DOMAIN results = DOMAIN keys
        /\ \A i \in DOMAIN keys : results[i] <=> WasThere(i, Held(before))
        /\ Held(store) = Held(before) \ {keys[i] : i \in DOMAIN keys}

Touched(s) == store[s] # before[s]
Whole(s) == store[s] = before[s] \ {keys[i] : i \in Group(s)}

(* The first key of s comes before that of u.                              *)
Before(s, u) ==
    \E i \in DOMAIN keys :
        home[keys[i]] = s /\ \A j \in 1 .. i : home[keys[j]] # u

(* A key nobody can route stops a delete before anything is deleted; one   *)
(* that fails on the way leaves each shard either as it was or without all *)
(* of its keys, and the shards it was done with are those that come first. *)
FailsInOrder ==
    /\ outcome = "misrouted" /\ pc = "idle" => store = before
    /\ outcome = "delete failed" /\ pc = "idle" =>
          \A u \in Shards : Touched(u) =>
              Whole(u) /\ \A s \in Shards : Before(s, u) => Whole(s)

(* flushdb and truncate that return have asked every shard, and return     *)
(* TRUE only when all are empty; when they fail, the shards that answered  *)
(* are the first ones and those behind the failing one are as before.      *)
FlushIsWhole ==
    /\ pc = "idle" /\ outcome = "flushed" => Held(store) = {}
    /\ pc = "idle" /\ outcome \in {"flushed", "not flushed"} => Len(results) = N
    /\ pc = "idle" /\ outcome \in {"flushed", "not flushed", "flush failed"} =>
          \A s \in Shards :
              /\ s < Len(results) => store[s] = IF results[s + 1] THEN {} ELSE before[s]
              /\ s > Len(results) => ~Touched(s)

(* Calls are made on a client all of whose shards are open; one that could *)
(* not be opened, or was closed, keeps no shard open.                      *)
OpenAllOrNone ==
    /\ pc \in {"idle", "mdelete", "flush"} => up = Shards
    /\ pc \in {"broken", "closed"} => up = {}

-----------------------------------------------------------------------------
(* Inductive invariants behind the four above; FqShardedCommandsProofs     *)
(* proves them.                                                            *)

(* A shard only holds keys that are routed to it.                          *)
StoresRouted == \A s \in Shards : \A k \in store[s] \cup before[s] : home[k] = s

OpenInv ==
    /\ pc = "open" => up = {s \in Shards : s < index}
    /\ pc \in {"open", "undo", "broken"} => outcome = "none"
    /\ OpenAllOrNone

(* Inside mdelete: a group is as it was or done, the results of the done   *)
(* ones are known, and those come first.                                   *)
DeleteInv ==
    pc = "mdelete" =>
        /\ \A i \in DOMAIN keys : Routed(keys[i])
        /\ \A s \in Shards : IF s \in todo THEN ~Touched(s) ELSE Whole(s)
        /\ DOMAIN results = DOMAIN keys
        /\ \A i \in DOMAIN keys :
              home[keys[i]] \notin todo =>
                  (results[i] <=> WasThere(i, before[home[keys[i]]]))
        /\ \A s \in todo, u \in Shards :
              Before(s, u) /\ Group(u) # {} => u \in todo

(* Inside flushdb: the shards before index have answered.                  *)
FlushInv ==
    pc = "flush" =>
        /\ Len(results) = index
        /\ \A s \in Shards :
              store[s] = IF s < index /\ results[s + 1] THEN {} ELSE before[s]

CommandsInv ==
    /\ StoresRouted /\ OpenInv /\ DeleteInv /\ FlushInv
    /\ DeletesAsOne /\ FailsInOrder /\ FlushIsWhole
=============================================================================

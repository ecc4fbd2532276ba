------------------------------- MODULE FqScan -------------------------------
(***************************************************************************)
(* What Client.scan and Client.pscan give a caller who asks again with     *)
(* each cursor he gets, until the cursor is "0": every place of the        *)
(* server's key space is looked at once.  Which places a call looks at,    *)
(* and what is written on a cursor, is the server's affair.                *)
(*                                                                         *)
(* FqShardedScan implements this module.                                   *)
(***************************************************************************)
EXTENDS Naturals, FiniteSets

CONSTANTS
    Places,     \* where a key can be
    Stable,     \* the places that hold a key during the whole scan; others
                \* may hold one when they are looked at
    Counts      \* the counts the caller asks for

VARIABLES
    covered,    \* the places the calls so far have looked at
    got,        \* the keys the calls so far have returned
    twice,      \* the keys returned more than once
    over        \* the last cursor was "0"

vars == <<covered, got, twice, over>>

Init == covered = {} /\ got = {} /\ twice = {} /\ over = FALSE

(* One call: it looks at some more places and returns n keys at most.      *)
Call ==
    /\ ~over
    /\ \E n \in Counts, next \in SUBSET (Places \ covered) : \E page \in SUBSET next :
          /\ next \cap Stable \subseteq page
          /\ Cardinality(page) <= n
          /\ covered' = covered \cup next
          /\ got' = got \cup page
          /\ twice' = twice \cup (got \cap page)
    /\ over' \in BOOLEAN /\ (over' <=> covered' = Places)

Spec == Init /\ [][Call]_vars
=============================================================================

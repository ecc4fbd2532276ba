------------------------------- MODULE FqSlots -------------------------------
(***************************************************************************)
(* What a pool of connections is made of, with threads and with tasks: a   *)
(* stack of slots, its top last.  A slot is an idle connection or None,    *)
(* the permission to open one.                                             *)
(***************************************************************************)
EXTENDS Naturals, SequencesExt

CONSTANTS
    Conns,      \* identities of connection objects
    None        \* an empty slot

Slot == Conns \cup {None}

(* No connection is on the stack twice.                                    *)
NoDuplicates(s) ==
    \A i, j \in 1 .. Len(s) : s[i] # None /\ s[i] = s[j] => i = j
=============================================================================

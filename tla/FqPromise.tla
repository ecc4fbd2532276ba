----------------------------- MODULE FqPromise -----------------------------
(***************************************************************************)
(* What a caller may conclude from how his calls ended, whatever happened  *)
(* to the connection: which of them the server has carried out, may still  *)
(* carry out, and never will.  Tries, frames and sockets do not occur.     *)
(*                                                                         *)
(* FqCall implements this module.                                          *)
(***************************************************************************)
EXTENDS Naturals

CONSTANT MaxCalls      \* how many calls are made, one after the other

VARIABLES
    kind,       \* kind[c]: the command of call c
    cur,        \* the call under way, or the last one made
    outcome,    \* outcome[c]: how call c ended
    applied,    \* applied[c]: how often the server carried out call c
    returned    \* the calls whose answers made up the last result

vars == <<kind, cur, outcome, applied, returned>>

Calls == 1 .. MaxCalls

(* The endings that leave nothing open.                                    *)
Settling == {"answered", "server error", "refused"}

(* The errors that say that nothing was sent.                              *)
Unsent == {"refused", "unreachable", "rejected", "overflow"}

Endings == Settling \cup Unsent \cup
           {"timeout", "lost", "corrupted", "bad timeout", "cancelled"}

(* No call up to c left an answer, or itself, behind.                      *)
Settled(c) == \A d \in 1 .. c : outcome[d] \in Settling

Mutating(c) == kind[c] = "mutating"

Idle == cur = 0 \/ outcome[cur] # "pending"

Init ==
    /\ kind \in [Calls -> {"mutating", "read", "inspect"}]
    /\ cur = 0
    /\ outcome = [c \in Calls |-> "pending"]
    /\ applied = [c \in Calls |-> 0]
    /\ returned = {}

Begin ==
    /\ Idle /\ cur < MaxCalls
    /\ cur' = cur + 1
    /\ UNCHANGED <<kind, outcome, applied, returned>>

(* The server carries out a call: not before it was made, a mutating one   *)
(* once only and not after an error that says it was not sent, and none    *)
(* after it ended unless something was left open.  A call that ended in a  *)
(* timeout, a lost connection or a cancellation may be carried out later.  *)
CarryOut(c) ==
    /\ c <= cur /\ ~Settled(c)
    /\ Mutating(c) => applied[c] = 0 /\ outcome[c] \notin Unsent
    /\ applied' = [applied EXCEPT ![c] = @ + 1]
    /\ UNCHANGED <<kind, cur, outcome, returned>>

(* The call ends.  If everything before it is settled, its answer is its   *)
(* own, a value says that it was carried out, and an error of the server   *)
(* that a mutating command was not.                                        *)
End ==
    /\ ~Idle
    /\ \E o \in Endings : outcome' = [outcome EXCEPT ![cur] = o]
    /\ returned' \in SUBSET (Calls \cup {0})
    /\ outcome'[cur] \in {"answered", "server error"} /\ Settled(cur - 1)
           => returned' = {cur}
    /\ outcome'[cur] = "answered" /\ Settled(cur - 1) => applied[cur] > 0
    /\ outcome'[cur] = "server error" /\ Settled(cur - 1) /\ Mutating(cur)
           => applied[cur] = 0
    /\ outcome'[cur] \in Unsent /\ Mutating(cur) => applied[cur] = 0
    /\ UNCHANGED <<kind, cur, applied>>

Next == Begin \/ (\E c \in Calls : CarryOut(c)) \/ End

Spec == Init /\ [][Next]_vars
=============================================================================

------------------------------ MODULE MCFqCall ------------------------------
EXTENDS FqCall

(* The threaded client with its defaults, an asyncio client with a budget  *)
(* of one attempt, and one that never retries.                             *)
MCClients ==
    {[aio |-> FALSE, maxAttempts |-> Unlimited],
     [aio |-> TRUE, maxAttempts |-> 1],
     [aio |-> TRUE, maxAttempts |-> 0]}

(* The threaded client with its defaults, for the runs that show one       *)
(* behaviour of it.                                                        *)
MCThreaded == {[aio |-> FALSE, maxAttempts |-> Unlimited]}
=============================================================================

----------------------------- MODULE MCFqStream -----------------------------
EXTENDS FqStream

(* A client of threads that retries for ever, one of tasks that does not.  *)
MCClients == {[aio |-> FALSE, maxAttempts |-> Unlimited],
              [aio |-> TRUE,  maxAttempts |-> 1]}

(* Still subscribed; with an answer nobody read; in the middle of one.     *)
Left(subscribed, inbox, shorn) ==
    [link |-> "up", subscribed |-> subscribed, inbox |-> inbox, shorn |-> shorn]

MCUsed == {Left(TRUE, <<>>, FALSE), Left(FALSE, <<Refusal>>, FALSE),
           Left(FALSE, <<>>, TRUE)}
=============================================================================

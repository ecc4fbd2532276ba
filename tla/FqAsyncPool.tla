----------------------------- MODULE FqAsyncPool -----------------------------
(***************************************************************************)
(* AsyncConnectionPool with AsyncClient.open and aclose: tasks that share  *)
(* a LIFO queue of slots.  Code between two awaits that suspend runs       *)
(* undisturbed, so one step goes from one of them to the next; at each a   *)
(* task may be cancelled.  In contrast to the constructor of the           *)
(* synchronous Client, open may be called again, and by several tasks.     *)
(***************************************************************************)
EXTENDS Naturals, FiniteSets, SequencesExt, FqSlots

CONSTANTS
    Tasks,         \* the application's tasks
    Size,          \* pool_size
    MaxFailures    \* how often open() may fail for want of a connection

ASSUME AsyncPoolAssumption ==
    /\ IsFiniteSet(Tasks)
    /\ Size \in Nat \ {0}
    /\ None \notin Conns
    /\ MaxFailures \in Nat

VARIABLES
    slots,      \* AsyncConnectionPool._slots, the top of the stack last
    closed,     \* AsyncConnectionPool._closed
    ready,      \* AsyncClient._opened
    open,       \* connections whose socket is open
    pc,         \* where each task is
    held,       \* the connection each task holds
    opened,     \* opened[t]: the local list of t's prefill
    timed,      \* whether the deadline of each task's call is not None
    short,      \* how many slots failed prefills have not given back
    raced       \* a prefill filled the pool after it was closed

vars == <<slots, closed, ready, open, pc, held, opened, timed, short, raced>>

PCs == {"idle", "fill", "unfill", "take", "dial", "using", "close", "drain"}

TypeOK ==
    /\ slots \in Seq(Slot)
    /\ closed \in BOOLEAN /\ ready \in BOOLEAN /\ raced \in BOOLEAN
    /\ open \subseteq Conns
    /\ pc \in [Tasks -> PCs]
    /\ held \in [Tasks -> Slot]
    /\ opened \in [Tasks -> Seq(Conns)]
    /\ timed \in [Tasks -> BOOLEAN]
    /\ short \in 0 .. MaxFailures

Init ==
    /\ slots = [i \in 1 .. Size |-> None]
    /\ closed = FALSE /\ ready = FALSE /\ raced = FALSE
    /\ open = {}
    /\ pc = [t \in Tasks |-> "idle"]
    /\ held = [t \in Tasks |-> None]
    /\ opened = [t \in Tasks |-> <<>>]
    /\ timed = [t \in Tasks |-> FALSE]
    /\ short = 0

-----------------------------------------------------------------------------
(* A connection nobody refers to and nobody has left open.                 *)
Fresh == Conns \ (open \cup ToSet(slots) \cup {held[t] : t \in Tasks}
                       \cup UNION {ToSet(opened[t]) : t \in Tasks})

Goto(t, next) == pc' = [pc EXCEPT ![t] = next]

(* The next turn of prefill's loop: get_nowait, then the factory; or       *)
(* QueueEmpty, when somebody else has the slots.                           *)
NextSlot(t) ==
    \/ slots # <<>> /\ slots' = Front(slots) /\ Goto(t, "fill")
    \/ slots = <<>> /\ UNCHANGED slots /\ Goto(t, "unfill")

(* Mutant of Open: _opened is set first, to keep other tasks out.          *)
OpenMarkingFirst(t) ==
    /\ pc[t] = "idle" /\ ~ready /\ ~raced
    /\ NextSlot(t)
    /\ ready' = TRUE
    /\ UNCHANGED <<closed, open, held, opened, timed, short, raced>>

(* AsyncClient.open.  Nobody calls it again on a closed client that a late *)
(* prefill has filled.                                                     *)
Open(t) ==
    /\ pc[t] = "idle" /\ ~ready /\ ~raced
    /\ NextSlot(t)
    /\ UNCHANGED <<closed, ready, open, held, opened, timed, short, raced>>

FillSlot(t) ==
    /\ pc[t] = "fill" /\ Len(opened[t]) < Size - 1
    /\ \E c \in Fresh : /\ opened' = [opened EXCEPT ![t] = Append(@, c)]
                        /\ open' = open \cup {c}
    /\ NextSlot(t)
    /\ UNCHANGED <<closed, ready, held, timed, short, raced>>

(* The last connection: prefill pushes them all, and open looks at one of  *)
(* them, which a closed pool refuses.                                      *)
FillDone(t) ==
    /\ pc[t] = "fill" /\ Len(opened[t]) = Size - 1
    /\ \E c \in Fresh : /\ slots' = slots \o Append(opened[t], c)
                        /\ open' = open \cup {c}
    /\ opened' = [opened EXCEPT ![t] = <<>>]
    /\ ready' = ~closed
    /\ raced' = (raced \/ closed)
    /\ Goto(t, "idle")
    /\ UNCHANGED <<closed, held, timed, short>>

(* The factory raises, or the task is cancelled: the slot it was for is    *)
(* not counted.                                                            *)
FillFails(t) ==
    /\ pc[t] = "fill" /\ short < MaxFailures
    /\ short' = short + 1
    /\ Goto(t, "unfill")
    /\ UNCHANGED <<slots, closed, ready, open, held, opened, timed, raced>>

(* Mutant of Unfill: a slot too many is given back.                        *)
UnfillOneMore(t) ==
    /\ pc[t] = "unfill"
    /\ open' = open \ ToSet(opened[t])
    /\ slots' = slots \o [i \in 1 .. Len(opened[t]) + 1 |-> None]
    /\ opened' = [opened EXCEPT ![t] = <<>>]
    /\ Goto(t, "idle")
    /\ UNCHANGED <<closed, ready, held, timed, short, raced>>

(* The connections that were opened are closed, and as many slots put back.*)
Unfill(t) ==
    /\ pc[t] = "unfill"
    /\ open' = open \ ToSet(opened[t])
    /\ slots' = slots \o [i \in 1 .. Len(opened[t]) |-> None]
    /\ opened' = [opened EXCEPT ![t] = <<>>]
    /\ Goto(t, "idle")
    /\ UNCHANGED <<closed, ready, held, timed, short, raced>>

-----------------------------------------------------------------------------
(* AsyncConnectionPool.acquire, _take and _release.                        *)

(* A client is used once it was opened.                                    *)
Acquire(t) ==
    /\ pc[t] = "idle" /\ ready /\ ~closed
    /\ \E b \in BOOLEAN : timed' = [timed EXCEPT ![t] = b]
    /\ Goto(t, "take")
    /\ UNCHANGED <<slots, closed, ready, open, held, opened, short, raced>>

(* PoolClosedError.                                                        *)
AcquireRefused(t) ==
    /\ pc[t] = "idle" /\ closed
    /\ UNCHANGED vars

Take(t) ==
    /\ pc[t] = "take" /\ slots # <<>>
    /\ slots' = Front(slots)
    /\ held' = [held EXCEPT ![t] = Last(slots)]
    /\ Goto(t, IF Last(slots) = None THEN "dial" ELSE "using")
    /\ UNCHANGED <<closed, ready, open, opened, timed, short, raced>>

(* Mutant of TakeTimesOut: asyncio.timeout(None) for every call.           *)
TakeForever(t) ==
    /\ pc[t] = "take" /\ ~timed[t] /\ slots = <<>>
    /\ Goto(t, "idle")
    /\ UNCHANGED <<slots, closed, ready, open, held, opened, timed, short, raced>>

TakeTimesOut(t) ==
    /\ pc[t] = "take" /\ timed[t] /\ slots = <<>>
    /\ Goto(t, "idle")
    /\ UNCHANGED <<slots, closed, ready, open, held, opened, timed, short, raced>>

(* A cancelled get() takes nothing.                                        *)
TakeCancelled(t) ==
    /\ pc[t] = "take"
    /\ Goto(t, "idle")
    /\ UNCHANGED <<slots, closed, ready, open, held, opened, timed, short, raced>>

(* Mutant of Dial: the slot goes back although its connection is used.     *)
DialKeepingSlot(t) ==
    /\ pc[t] = "dial"
    /\ \E c \in Fresh : /\ held' = [held EXCEPT ![t] = c]
                        /\ open' = open \cup {c}
                        /\ slots' = Append(slots, c)
    /\ Goto(t, "using")
    /\ UNCHANGED <<closed, ready, opened, timed, short, raced>>

(* Mutant of Dial: the new connection is not assigned.                     *)
DialUnassigned(t) ==
    /\ pc[t] = "dial"
    /\ open' = open \cup {held[t]}
    /\ Goto(t, "using")
    /\ UNCHANGED <<slots, closed, ready, held, opened, timed, short, raced>>

Dial(t) ==
    /\ pc[t] = "dial"
    /\ \E c \in Fresh : /\ held' = [held EXCEPT ![t] = c]
                        /\ open' = open \cup {c}
    /\ Goto(t, "using")
    /\ UNCHANGED <<slots, closed, ready, opened, timed, short, raced>>

(* The factory raises, or the task is cancelled.                           *)
DialFails(t) ==
    /\ pc[t] = "dial"
    /\ slots' = Append(slots, None)
    /\ Goto(t, "idle")
    /\ UNCHANGED <<closed, ready, open, held, opened, timed, short, raced>>

(* The body of the async with statement: reconnect closes the socket and   *)
(* may open another.                                                       *)
Reconnect(t) ==
    /\ pc[t] = "using"
    /\ open' \in {open \ {held[t]}, open \cup {held[t]}}
    /\ UNCHANGED <<slots, closed, ready, pc, held, opened, timed, short, raced>>

(* Mutant of LeaveOpen: connection.closed is not looked at.                *)
LeaveAnything(t) ==
    /\ pc[t] = "using" /\ ~closed
    /\ slots' = Append(slots, held[t])
    /\ held' = [held EXCEPT ![t] = None]
    /\ Goto(t, "idle")
    /\ UNCHANGED <<closed, ready, open, opened, timed, short, raced>>

(* The body ends, in whatever way: _release looks at _closed and pushes in *)
(* one step.                                                               *)
LeaveOpen(t) ==
    /\ pc[t] = "using" /\ ~closed
    /\ slots' = Append(slots, IF held[t] \in open THEN held[t] ELSE None)
    /\ held' = [held EXCEPT ![t] = None]
    /\ Goto(t, "idle")
    /\ UNCHANGED <<closed, ready, open, opened, timed, short, raced>>

LeaveClosed(t) ==
    /\ pc[t] = "using" /\ closed
    /\ Goto(t, "close")
    /\ UNCHANGED <<slots, closed, ready, open, held, opened, timed, short, raced>>

(* Mutant of CloseHeld: the connection is dropped open.                    *)
DropHeld(t) ==
    /\ pc[t] = "close"
    /\ held' = [held EXCEPT ![t] = None]
    /\ Goto(t, "idle")
    /\ UNCHANGED <<slots, closed, ready, open, opened, timed, short, raced>>

(* A cancellation during wait_closed is suppressed.                        *)
CloseHeld(t) ==
    /\ pc[t] = "close"
    /\ open' = open \ {held[t]}
    /\ held' = [held EXCEPT ![t] = None]
    /\ Goto(t, "idle")
    /\ UNCHANGED <<slots, closed, ready, opened, timed, short, raced>>

-----------------------------------------------------------------------------
(* AsyncConnectionPool.aclose; here too a cancellation is suppressed.      *)

Aclose(t) ==
    /\ pc[t] = "idle" /\ ~closed
    /\ closed' = TRUE
    /\ Goto(t, "drain")
    /\ UNCHANGED <<slots, ready, open, held, opened, timed, short, raced>>

(* get_nowait does not suspend: empty slots go without a pause.            *)
Drain(t) ==
    /\ pc[t] = "drain"
    /\ \E n \in 1 .. Len(slots) :
          /\ slots[n] # None /\ \A i \in n + 1 .. Len(slots) : slots[i] = None
          /\ slots' = SubSeq(slots, 1, n - 1)
          /\ open' = open \ {slots[n]}
    /\ UNCHANGED <<closed, ready, pc, held, opened, timed, short, raced>>

(* Mutant of Drained: aclose waits for the slots that are out.             *)
DrainedAll(t) ==
    /\ pc[t] = "drain" /\ ToSet(slots) \subseteq {None}
    /\ held = [u \in Tasks |-> None]
    /\ slots' = <<>>
    /\ Goto(t, "idle")
    /\ UNCHANGED <<closed, ready, open, held, opened, timed, short, raced>>

Drained(t) ==
    /\ pc[t] = "drain" /\ ToSet(slots) \subseteq {None}
    /\ slots' = <<>>
    /\ Goto(t, "idle")
    /\ UNCHANGED <<closed, ready, open, held, opened, timed, short, raced>>

-----------------------------------------------------------------------------
(* What a task may begin and what its user's code does; nothing makes it.  *)
Choice(t) ==
    \/ Open(t) \/ Acquire(t) \/ AcquireRefused(t) \/ Aclose(t)
    \/ TakeCancelled(t) \/ Reconnect(t) \/ LeaveOpen(t) \/ LeaveClosed(t)

(* What the client's code goes on with once it was called.                 *)
Step(t) ==
    \/ FillSlot(t) \/ FillDone(t) \/ FillFails(t) \/ Unfill(t)
    \/ Take(t) \/ TakeTimesOut(t) \/ Dial(t) \/ DialFails(t)
    \/ CloseHeld(t) \/ Drain(t) \/ Drained(t)

Next == \E t \in Tasks : Choice(t) \/ Step(t)

(* The event loop runs every task that can run; connecting ends.           *)
Fairness == \A t \in Tasks : WF_vars(Step(t))

Spec == Init /\ [][Next]_vars
FairSpec == Spec /\ Fairness

-----------------------------------------------------------------------------
(* The slot a task has in hand to connect or to use.                       *)
InHand(t) == IF pc[t] \in {"fill", "dial", "using"} THEN 1 ELSE 0

(* How many slots each task has taken: those it has opened, and that one.  *)
Taken == [t \in Tasks |-> Len(opened[t]) + InHand(t)]

(* The sum of a function on the tasks is the size of this set.             *)
Units(f) == UNION {{t} \X (1 .. f[t]) : t \in Tasks}

Total == Len(slots) + short + Cardinality(Units(Taken))

(* A connection has one owner, also when prefills of several tasks, calls  *)
(* and cancellations mix.                                                  *)
OneOwner ==
    /\ \A t, u \in Tasks :
          /\ held[t] # None /\ held[t] = held[u] => t = u
          /\ held[t] \notin ToSet(opened[u])
          /\ t # u => ToSet(opened[t]) \cap ToSet(opened[u]) = {}
    /\ \A t \in Tasks :
          ToSet(slots) \cap (ToSet(opened[t]) \cup ({held[t]} \ {None})) = {}
    /\ NoDuplicates(slots) /\ \A t \in Tasks : NoDuplicates(opened[t])

(* put_nowait never finds the queue full, and until the pool is closed a   *)
(* slot is missing only for a prefill that failed to connect.              *)
SlotsAccounted == Total <= Size /\ (~closed => Total = Size)

(* A client is open only when the whole pool was filled, in one piece: a   *)
(* slot that was lost, or that another task is filling, keeps it shut.     *)
ReadyIsWhole ==
    ready => short = 0 /\ \A t \in Tasks : pc[t] # "fill" /\ opened[t] = <<>>

(* Idle connections are open, and every open socket is somebody's: a       *)
(* prefill takes empty slots only, and what it opened is kept or closed.   *)
NoOrphans ==
    /\ ToSet(slots) \ {None} \subseteq open
    /\ open \subseteq ToSet(slots) \cup {held[t] : t \in Tasks}
                      \cup UNION {ToSet(opened[t]) : t \in Tasks}

(* "Close the pool and every connection in it": no release comes too late  *)
(* for aclose, in contrast to the pool of threads; only a prefill does.    *)
ClosedIsClosed ==
    closed /\ ~raced /\ (\A t \in Tasks : pc[t] = "idle") => open = {}

(* What the safety properties rest on, beside one another: a prefill takes *)
(* empty slots only, because nobody dials before a prefill has succeeded   *)
(* and no prefill runs beside or after one that has; after aclose nothing  *)
(* but a prefill pushes a connection.                                      *)
PhaseInv ==
    /\ \A t \in Tasks :
          /\ held[t] # None <=> pc[t] \in {"using", "close"}
          /\ opened[t] # <<>> => pc[t] \in {"fill", "unfill"}
          /\ pc[t] \in {"close", "drain"} => closed
    /\ raced => closed /\ ~ready
    /\ IF ready \/ raced
         THEN \A t \in Tasks : pc[t] # "fill" /\ opened[t] = <<>>
         ELSE /\ ToSet(slots) \subseteq {None}
              /\ \A t \in Tasks : pc[t] \in {"idle", "fill", "unfill", "drain"}
    /\ closed /\ ~raced /\ (\A t \in Tasks : pc[t] # "drain") => ToSet(slots) \subseteq {None}

(* open and aclose return, whatever the other tasks do.                    *)
OpenAndCloseReturn ==
    \A t \in Tasks : pc[t] \in {"fill", "unfill", "close", "drain"} ~> pc[t] = "idle"

(* A caller with a deadline does not wait for a slot forever.              *)
TimedAcquireReturns ==
    \A t \in Tasks : (pc[t] = "take" /\ timed[t]) ~> pc[t] # "take"
=============================================================================

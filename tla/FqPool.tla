------------------------------- MODULE FqPool -------------------------------
(***************************************************************************)
(* ConnectionPool of fq.sync.pool: a LIFO queue of slots shared by the     *)
(* threads of the application.                                             *)
(*                                                                         *)
(* One step is what the interpreter cannot be stopped inside of: one       *)
(* operation of the LifoQueue, one read or write of _closed, one call of   *)
(* the factory.                                                            *)
(***************************************************************************)
EXTENDS Naturals, FiniteSets, SequencesExt, FqSlots

CONSTANTS
    Threads,    \* the application's threads
    Size        \* pool_size

ASSUME PoolAssumption ==
    /\ IsFiniteSet(Threads)
    /\ Size \in Nat \ {0}
    /\ None \notin Conns

VARIABLES
    phase,      \* "filling" in __init__, then "serving", or "failed" if
                \* prefill raised
    opened,     \* the local list of prefill
    slots,      \* ConnectionPool._slots, the top of the stack last
    closed,     \* ConnectionPool._closed
    open,       \* connections whose socket is open
    pc,         \* where each thread is
    held,       \* the connection each thread holds
    timed       \* whether the deadline of each thread's call is not None

vars == <<phase, opened, slots, closed, open, pc, held, timed>>

PCs == {"idle", "take", "dial", "using", "release", "put", "close", "drain"}

TypeOK ==
    /\ phase \in {"filling", "serving", "failed"}
    /\ opened \in Seq(Conns)
    /\ slots \in Seq(Slot)
    /\ closed \in BOOLEAN
    /\ open \subseteq Conns
    /\ pc \in [Threads -> PCs]
    /\ held \in [Threads -> Slot]
    /\ timed \in [Threads -> BOOLEAN]

Init ==
    /\ phase = "filling" /\ opened = <<>>
    /\ slots = [i \in 1 .. Size |-> None]
    /\ closed = FALSE /\ open = {}
    /\ pc = [t \in Threads |-> "idle"]
    /\ held = [t \in Threads |-> None]
    /\ timed = [t \in Threads |-> FALSE]

-----------------------------------------------------------------------------
(* A Connection object nobody refers to and nobody has left open.          *)
Fresh == Conns \ (open \cup ToSet(slots) \cup ToSet(opened)
                       \cup {held[t] : t \in Threads})

Goto(t, next) == pc' = [pc EXCEPT ![t] = next]

(* ConnectionPool.prefill, run by the constructor before any thread knows  *)
(* the pool: it empties the stack into connections ...                     *)
FillSlot ==
    /\ phase = "filling" /\ Len(opened) < Size
    /\ \E c \in Fresh : /\ opened' = Append(opened, c)
                        /\ open' = open \cup {c}
    /\ slots' = Front(slots)
    /\ UNCHANGED <<phase, closed, pc, held, timed>>

(* ... or closes them all and gives as many slots back; the slot of the    *)
(* connection that failed is not among them ...                            *)
FillFails ==
    /\ phase = "filling" /\ Len(opened) < Size
    /\ open' = open \ ToSet(opened)
    /\ slots' = Front(slots) \o [i \in 1 .. Len(opened) |-> None]
    /\ opened' = <<>>
    /\ phase' = "failed"
    /\ UNCHANGED <<closed, pc, held, timed>>

(* ... and pushes them.                                                    *)
FillDone ==
    /\ phase = "filling" /\ Len(opened) = Size
    /\ slots' = slots \o opened
    /\ opened' = <<>>
    /\ phase' = "serving"
    /\ UNCHANGED <<closed, open, pc, held, timed>>

(* The constructor raised and the pool is garbage.                         *)
Abandoned == phase = "failed" /\ UNCHANGED vars

-----------------------------------------------------------------------------
(* ConnectionPool.acquire and _take.                                       *)

Acquire(t) ==
    /\ phase = "serving" /\ pc[t] = "idle" /\ ~closed
    /\ \E b \in BOOLEAN : timed' = [timed EXCEPT ![t] = b]
    /\ Goto(t, "take")
    /\ UNCHANGED <<phase, opened, slots, closed, open, held>>

(* PoolClosedError.                                                        *)
AcquireRefused(t) ==
    /\ phase = "serving" /\ pc[t] = "idle" /\ closed
    /\ UNCHANGED vars

(* Mutant of Take: the slot stays on the stack.                            *)
TakePeeks(t) ==
    /\ pc[t] = "take" /\ slots # <<>>
    /\ held' = [held EXCEPT ![t] = Last(slots)]
    /\ Goto(t, IF Last(slots) = None THEN "dial" ELSE "using")
    /\ UNCHANGED <<phase, opened, slots, closed, open, timed>>

Take(t) ==
    /\ pc[t] = "take" /\ slots # <<>>
    /\ slots' = Front(slots)
    /\ held' = [held EXCEPT ![t] = Last(slots)]
    /\ Goto(t, IF Last(slots) = None THEN "dial" ELSE "using")
    /\ UNCHANGED <<phase, opened, closed, open, timed>>

(* Mutant of TakeTimesOut: the deadline is not passed on.                  *)
TakeForever(t) ==
    /\ pc[t] = "take" /\ ~timed[t] /\ slots = <<>>
    /\ Goto(t, "idle")
    /\ UNCHANGED <<phase, opened, slots, closed, open, held, timed>>

(* Queue.get(timeout=...) raises Empty only when the queue is empty.       *)
TakeTimesOut(t) ==
    /\ pc[t] = "take" /\ timed[t] /\ slots = <<>>
    /\ Goto(t, "idle")
    /\ UNCHANGED <<phase, opened, slots, closed, open, held, timed>>

(* Mutant of Dial: the new connection is not assigned.                     *)
DialUnassigned(t) ==
    /\ pc[t] = "dial"
    /\ open' = open \cup {held[t]}
    /\ Goto(t, "using")
    /\ UNCHANGED <<phase, opened, slots, closed, held, timed>>

Dial(t) ==
    /\ pc[t] = "dial"
    /\ \E c \in Fresh : /\ held' = [held EXCEPT ![t] = c]
                        /\ open' = open \cup {c}
    /\ Goto(t, "using")
    /\ UNCHANGED <<phase, opened, slots, closed, timed>>

(* Mutant of DialFails: the slot is not given back.                        *)
DialFailsKeepingSlot(t) ==
    /\ pc[t] = "dial"
    /\ Goto(t, "idle")
    /\ UNCHANGED <<phase, opened, slots, closed, open, held, timed>>

(* put blocks while the queue is full.                                     *)
DialFails(t) ==
    /\ pc[t] = "dial" /\ Len(slots) < Size
    /\ slots' = Append(slots, None)
    /\ Goto(t, "idle")
    /\ UNCHANGED <<phase, opened, closed, open, held, timed>>

(* The body of the with statement: reconnect closes the socket of the      *)
(* connection and may open another.                                        *)
SocketCloses(t) ==
    /\ pc[t] = "using" /\ held[t] \in open
    /\ open' = open \ {held[t]}
    /\ UNCHANGED <<phase, opened, slots, closed, pc, held, timed>>

SocketReopens(t) ==
    /\ pc[t] = "using" /\ held[t] \notin open
    /\ open' = open \cup {held[t]}
    /\ UNCHANGED <<phase, opened, slots, closed, pc, held, timed>>

Leave(t) ==
    /\ pc[t] = "using"
    /\ Goto(t, "release")
    /\ UNCHANGED <<phase, opened, slots, closed, open, held, timed>>

(* Mutant of ReleaseToClosed: the connection is dropped open.              *)
ReleaseDropping(t) ==
    /\ pc[t] = "release" /\ closed
    /\ held' = [held EXCEPT ![t] = None]
    /\ Goto(t, "idle")
    /\ UNCHANGED <<phase, opened, slots, closed, open, timed>>

(* ConnectionPool._release reads _closed once ...                          *)
ReleaseToClosed(t) ==
    /\ pc[t] = "release" /\ closed
    /\ open' = open \ {held[t]}
    /\ held' = [held EXCEPT ![t] = None]
    /\ Goto(t, "idle")
    /\ UNCHANGED <<phase, opened, slots, closed, timed>>

ReleaseToOpen(t) ==
    /\ pc[t] = "release" /\ ~closed
    /\ Goto(t, "put")
    /\ UNCHANGED <<phase, opened, slots, closed, open, held, timed>>

(* Mutant of PutBack: connection.closed is not looked at.                  *)
PutBackAnything(t) ==
    /\ pc[t] = "put" /\ Len(slots) < Size
    /\ slots' = Append(slots, held[t])
    /\ held' = [held EXCEPT ![t] = None]
    /\ Goto(t, "idle")
    /\ UNCHANGED <<phase, opened, closed, open, timed>>

(* ... and pushes later.                                                   *)
PutBack(t) ==
    /\ pc[t] = "put" /\ Len(slots) < Size
    /\ slots' = Append(slots, IF held[t] \in open THEN held[t] ELSE None)
    /\ held' = [held EXCEPT ![t] = None]
    /\ Goto(t, "idle")
    /\ UNCHANGED <<phase, opened, closed, open, timed>>

-----------------------------------------------------------------------------
(* ConnectionPool.close.                                                   *)

CloseCheck(t) ==
    /\ phase = "serving" /\ pc[t] = "idle" /\ ~closed
    /\ Goto(t, "close")
    /\ UNCHANGED <<phase, opened, slots, closed, open, held, timed>>

SetClosed(t) ==
    /\ pc[t] = "close"
    /\ closed' = TRUE
    /\ Goto(t, "drain")
    /\ UNCHANGED <<phase, opened, slots, open, held, timed>>

(* Mutant of Drain: an empty slot is pushed back.                          *)
DrainPushingBack(t) ==
    /\ pc[t] = "drain" /\ slots # <<>>
    /\ slots' = IF Last(slots) = None THEN slots ELSE Front(slots)
    /\ open' = open \ {Last(slots)}
    /\ UNCHANGED <<phase, opened, closed, pc, held, timed>>

Drain(t) ==
    /\ pc[t] = "drain" /\ slots # <<>>
    /\ slots' = Front(slots)
    /\ open' = open \ {Last(slots)}
    /\ UNCHANGED <<phase, opened, closed, pc, held, timed>>

Drained(t) ==
    /\ pc[t] = "drain" /\ slots = <<>>
    /\ Goto(t, "idle")
    /\ UNCHANGED <<phase, opened, slots, closed, open, held, timed>>

-----------------------------------------------------------------------------
Prefill == FillSlot \/ FillFails \/ FillDone

(* What a thread may begin, and what its user's code does with a           *)
(* connection; nothing makes it.                                           *)
Choice(t) ==
    \/ Acquire(t) \/ AcquireRefused(t) \/ CloseCheck(t)
    \/ SocketCloses(t) \/ SocketReopens(t) \/ Leave(t)

(* What the pool's code goes on with once it was called.                   *)
Step(t) ==
    \/ Take(t) \/ TakeTimesOut(t) \/ Dial(t) \/ DialFails(t)
    \/ ReleaseToClosed(t) \/ ReleaseToOpen(t) \/ PutBack(t)
    \/ SetClosed(t) \/ Drain(t) \/ Drained(t)

Next ==
    \/ Prefill \/ Abandoned
    \/ \E t \in Threads : Choice(t) \/ Step(t)

(* A thread that can run does; the queue favours nobody.                   *)
Fairness == WF_vars(Prefill) /\ \A t \in Threads : WF_vars(Step(t))

Spec == Init /\ [][Next]_vars
FairSpec == Spec /\ Fairness

-----------------------------------------------------------------------------
(* Threads that took a slot and have not given it back.                    *)
Holders == {t \in Threads : pc[t] \in {"dial", "using", "release", "put"}}

(* A connection has one owner: one thread, or one slot.  What FqCall says  *)
(* of the calls of a connection rests on it.                               *)
OneOwner ==
    /\ \A t, u \in Threads : held[t] # None /\ held[t] = held[u] => t = u
    /\ \A t \in Threads : held[t] # None => held[t] \notin ToSet(slots)
    /\ NoDuplicates(slots)

(* No slot is lost or invented while the pool serves, whatever fails, so   *)
(* that put never blocks and pool_size bounds the connections in use.      *)
SlotsAccounted ==
    phase = "serving" =>
        /\ Len(slots) + Cardinality(Holders) <= Size
        /\ ~closed => Len(slots) + Cardinality(Holders) = Size

(* An open socket is always somebody's: of prefill, of a slot or of a      *)
(* thread.  None is left behind by a failed prefill, a release or a close. *)
NoOrphans ==
    open \subseteq ToSet(opened) \cup ToSet(slots) \cup {held[t] : t \in Threads}

(* A slot never keeps a connection that was closed.                        *)
IdleIsOpen == ToSet(slots) \ {None} \subseteq open

(* What the program counters and the phases tell of the rest of the state: *)
(* with it the four invariants above are inductive (FqPoolProofs).         *)
PhaseInv ==
    /\ \A t \in Threads :
          /\ held[t] # None <=> pc[t] \in {"using", "release", "put"}
          /\ pc[t] = "drain" => closed
          /\ phase # "serving" => pc[t] = "idle"
    /\ phase # "serving" => ToSet(slots) \subseteq {None}
    /\ phase = "filling" =>
          /\ Len(slots) + Len(opened) = Size /\ ~closed
          /\ NoDuplicates(opened) /\ ToSet(opened) \subseteq open
    /\ phase # "filling" => opened = <<>>

PoolInv == PhaseInv /\ OneOwner /\ SlotsAccounted /\ NoOrphans /\ IdleIsOpen

(* close() returns, while other threads go on releasing.                   *)
CloseReturns == \A t \in Threads : pc[t] = "close" ~> pc[t] = "idle"

(* A caller with a deadline does not wait for a slot forever, not even in  *)
(* a pool that is closed while it waits.                                   *)
TimedAcquireReturns ==
    \A t \in Threads : (pc[t] = "take" /\ timed[t]) ~> pc[t] # "take"

-----------------------------------------------------------------------------
(* "Close the pool and every connection in it": what the docstring of      *)
(* close says, and the code does not keep.                                 *)
ClosedPoolIsClosed ==
    closed /\ (\A t \in Threads : pc[t] = "idle") => open = {}
=============================================================================

------------------------------- MODULE FqCall -------------------------------
(***************************************************************************)
(* The calls of one Client that land on one slot of its pool, one after    *)
(* the other: Client._execute and Client.inspect, the retry loop of        *)
(* Client._with_retry, and the Connection they drive, in the threaded      *)
(* client and in the asyncio one, whose calls are tasks that can be        *)
(* cancelled where they wait.                                              *)
(*                                                                         *)
(* The pool hands a connection to one holder at a time (OneOwner, proved   *)
(* in FqPoolProofs), so the calls of a slot are sequential, whichever      *)
(* threads or tasks make them.                                             *)
(***************************************************************************)
EXTENDS FqWire

CONSTANTS
    Unlimited,     \* ReconnectPolicy.max_attempts = None
    Clients,       \* the clients looked at: asyncio or not, and their
                   \* ReconnectPolicy.max_attempts, a number or Unlimited
    LastDelay      \* the last attempt whose delay a float can hold: 1024
                   \* for the default multiplier

ASSUME CallAssumption ==
    /\ Unlimited \notin Nat
    /\ Clients \subseteq [aio : BOOLEAN, maxAttempts : Nat \cup {Unlimited}]
    /\ LastDelay \in Nat \ {0}

VARIABLES
    client,     \* the client the calls are made with
    pc,         \* where the call is
    cur,        \* the call under way, or the last one made
    kind,       \* kind[c]: the command of call c
    due,        \* the deadline of the call under way
    attempt,    \* failed tries of the call under way
    inFlight,   \* Connection.request_in_flight
    body,       \* frames the ChunkAssembler of this try has taken in
    outcome,    \* outcome[c]: how call c ended
    result,     \* the frames the last ended call decoded
    written,    \* written[c]: how often call c was written out in full
    clean,      \* the socket owed nobody an answer when this call got it
    tries       \* how often the call under way was tried

progress == <<client, cur, kind, due, clean, tries>>
vars == <<wire, applied, client, pc, cur, kind, due, attempt, inFlight, body,
          outcome, result, written, clean, tries>>

(* "none" is Deadline(None).                                               *)
Dues == {"none", "future", "past"}

PCs == {"idle", "factory", "try", "arm write", "write", "frame", "arm read",
        "header", "body", "lost", "sleep", "dial"}

Outcomes ==
    {"pending",
     "answered",      \* a value
     "server error",  \* ProtocolError: the server answered err|
     "refused",       \* RequestError: larger than the negotiated maximum
     "timeout",       \* FQTimeoutError
     "lost",          \* FQConnectionError
     "unreachable",   \* FQConnectionError while the pool opened a slot
     "rejected",      \* the handshake was answered, and not with an ok
     "corrupted",     \* CorruptedResponseError
     "bad timeout",   \* ValueError of socket.settimeout
     "overflow",      \* OverflowError of ReconnectPolicy.delay
     "cancelled"}     \* CancelledError: the task of the call was cancelled

TypeOK ==
    /\ client \in Clients
    /\ sock \in {"open", "none"} /\ link \in {"up", "down"}
    /\ requests \in Seq(Request) /\ inbox \in Seq(Frame)
    /\ shorn \in BOOLEAN /\ inFlight \in BOOLEAN /\ clean \in BOOLEAN
    /\ pc \in PCs /\ cur \in 0 .. MaxCalls /\ due \in Dues
    /\ pc # "idle" => cur \in Calls
    /\ kind \in [Calls -> Kinds] /\ outcome \in [Calls -> Outcomes]
    /\ attempt \in Nat /\ tries \in Nat
    /\ body \in Seq(Frame) /\ result \in Seq(Frame)
    /\ written \in [Calls -> Nat] /\ applied \in [Calls -> Nat]

(* The constructor prefilled the pool: the slot holds a fresh connection.  *)
Init ==
    /\ client \in Clients
    /\ sock = "open" /\ link = "up"
    /\ requests = <<>> /\ inbox = <<>> /\ shorn = FALSE
    /\ pc = "idle" /\ cur = 0 /\ due = "none" /\ attempt = 0 /\ tries = 0
    /\ kind \in [Calls -> Kinds]
    /\ inFlight = FALSE /\ clean = TRUE
    /\ body = <<>> /\ result = <<>>
    /\ outcome = [c \in Calls |-> "pending"]
    /\ written = [c \in Calls |-> 0] /\ applied = [c \in Calls |-> 0]

-----------------------------------------------------------------------------
ReadOnly(c) == kind[c] # "mutating"

(* Mutant of Exhausted: the budget counts the first try as well.           *)
ExhaustedAtOnce(n) == client.maxAttempts # Unlimited /\ n >= client.maxAttempts

Exhausted(n) == client.maxAttempts # Unlimited /\ n > client.maxAttempts
DelayOverflows(n) == n > LastDelay
Expired == due = "past"

(* The call ends with o and its connection goes back to the pool, which    *)
(* keeps it whenever its socket is still open.                             *)
Conclude(o, frames) ==
    /\ pc' = "idle"
    /\ outcome' = [outcome EXCEPT ![cur] = o]
    /\ result' = frames
    /\ UNCHANGED <<progress, attempt, body, applied>>

Finish(o, frames) == Conclude(o, frames) /\ UNCHANGED written

Go(next) == /\ pc' = next
            /\ UNCHANGED <<progress, outcome, result, applied>>

(* A caller makes the next call and gets the slot: its connection, or      *)
(* nothing, in which case the pool's factory opens one.                    *)
Begin ==
    /\ pc = "idle" /\ cur < MaxCalls
    /\ cur' = cur + 1
    /\ due' \in {"none", "future"}
    /\ attempt' = 0
    /\ clean' = Quiet
    /\ pc' = IF sock = "open" THEN "try" ELSE "factory"
    /\ tries' = IF sock = "open" THEN 1 ELSE 0
    /\ UNCHANGED <<wire, applied, client, kind, inFlight, body, outcome, result, written>>

(* The application makes no more calls.                                    *)
Stop == pc = "idle" /\ cur = MaxCalls /\ UNCHANGED vars

(* Time passes.                                                            *)
Tick ==
    /\ pc # "idle" /\ due = "future"
    /\ due' = "past"
    /\ UNCHANGED <<wire, applied, client, pc, cur, kind, attempt, inFlight, body,
                   outcome, result, written, clean, tries>>

-----------------------------------------------------------------------------
(* Connection._write_request and Connection._read_frame.                   *)

RefuseOversized ==
    /\ pc = "try"
    /\ Finish("refused", <<>>)
    /\ UNCHANGED <<wire, inFlight>>

RequireSocket ==
    /\ pc = "try" /\ sock = "none"
    /\ Go("lost")
    /\ UNCHANGED <<wire, attempt, inFlight, body, written>>

CheckExpired ==
    /\ \/ pc = "try" /\ sock = "open"
       \/ pc = "frame"
    /\ Expired
    /\ Finish("timeout", <<>>)
    /\ UNCHANGED <<wire, inFlight>>

CheckPasses ==
    /\ ~Expired
    /\ \/ pc = "try" /\ sock = "open" /\ Go("arm write")
       \/ pc = "frame" /\ Go("arm read")
    /\ UNCHANGED <<wire, attempt, inFlight, body, written>>

(* The clock is read again for settimeout.  asyncio.timeout takes any      *)
(* delay, and interrupts only what has to wait.                            *)
SetTimeout ==
    /\ ~Expired \/ client.aio
    /\ \/ pc = "arm write" /\ Go("write")
       \/ pc = "arm read" /\ Go("header")
    /\ UNCHANGED <<wire, attempt, inFlight, body, written>>

(* It has run out in between: settimeout refuses a negative number.        *)
SetNegativeTimeout ==
    /\ ~client.aio
    /\ pc \in {"arm write", "arm read"} /\ Expired
    /\ Finish("bad timeout", <<>>)
    /\ UNCHANGED <<wire, inFlight>>

(* It is exactly zero: the socket turns non-blocking and an operation that *)
(* is not ready at once fails with an OSError that is no TimeoutError.  Or *)
(* settimeout itself fails: "connection is unusable".                      *)
SetTimeoutFails ==
    /\ ~client.aio
    /\ pc \in {"arm write", "arm read"}
    /\ Expired \/ link = "down"
    /\ Go("lost")
    /\ UNCHANGED <<wire, attempt, inFlight, body, written>>

(* Mutant of Write: the assembler outlives the try it was made for.        *)
WriteKeepingBody ==
    /\ pc = "write"
    /\ Put(cur, kind[cur], TRUE)
    /\ written' = [written EXCEPT ![cur] = @ + 1]
    /\ inFlight' = TRUE
    /\ Go("frame")
    /\ UNCHANGED <<sock, link, inbox, shorn, attempt, body>>

Write ==
    /\ pc = "write"
    /\ Put(cur, kind[cur], TRUE)
    /\ written' = [written EXCEPT ![cur] = @ + 1]
    /\ inFlight' = TRUE
    /\ body' = <<>>
    /\ Go("frame")
    /\ UNCHANGED <<sock, link, inbox, shorn, attempt>>

WriteTimesOut ==
    /\ ~client.aio /\ pc = "write" /\ Expired
    /\ UNCHANGED requests \/ Put(cur, kind[cur], FALSE)
    /\ inFlight' = TRUE
    /\ Finish("timeout", <<>>)
    /\ UNCHANGED <<sock, link, inbox, shorn>>

(* StreamWriter.drain times out, but the transport holds the whole frame   *)
(* and goes on sending it.                                                 *)
DrainTimesOut ==
    /\ client.aio /\ pc = "write" /\ Expired
    /\ Put(cur, kind[cur], TRUE)
    /\ written' = [written EXCEPT ![cur] = @ + 1]
    /\ inFlight' = TRUE
    /\ Conclude("timeout", <<>>)
    /\ UNCHANGED <<sock, link, inbox, shorn>>

WriteLost ==
    /\ pc = "write" /\ link = "down"
    /\ Go("lost")
    /\ UNCHANGED <<wire, attempt, inFlight, body, written>>

ReadHeader ==
    /\ pc = "header" /\ inbox # <<>> /\ ~shorn
    /\ Go("body")
    /\ UNCHANGED <<wire, attempt, inFlight, body, written>>

(* recv returns nothing, or fails, in front of a whole frame.              *)
ReadLost ==
    /\ pc \in {"header", "body"} /\ link = "down"
    /\ inbox = <<>> \/ shorn
    /\ Go("lost")
    /\ UNCHANGED <<wire, attempt, inFlight, body, written>>

(* Mutant of ReadTimesOut: the wait for a header has no timeout.           *)
ReadTimesOutInBody ==
    /\ pc = "body" /\ Expired
    /\ inbox # <<>> => shorn' = TRUE
    /\ inbox = <<>> => UNCHANGED shorn
    /\ Finish("timeout", <<>>)
    /\ UNCHANGED <<sock, link, requests, inbox, inFlight>>

(* The bytes already read of a frame are gone with the exception: a header *)
(* that was taken and, in the threaded client, a piece of one.             *)
ReadTimesOut ==
    /\ pc \in {"header", "body"} /\ Expired
    /\ \/ (pc = "header" \/ inbox = <<>>) /\ UNCHANGED <<inbox, shorn>>
       \/ /\ inbox # <<>> /\ ~shorn
          /\ pc = "body" \/ ~client.aio
          /\ shorn' = TRUE /\ UNCHANGED inbox
       \/ pc = "header" /\ shorn /\ Swallow
    /\ Finish("timeout", <<>>)
    /\ UNCHANGED <<sock, link, requests, inFlight>>

(* Misaligned bytes make an impossible length or an impossible answer.     *)
ReadGarbage ==
    /\ pc = "header" /\ shorn
    /\ Swallow
    /\ inFlight' \in IF kind[cur] = "inspect" THEN {inFlight} ELSE {inFlight, FALSE}
    /\ Finish("corrupted", <<>>)
    /\ UNCHANGED <<sock, link, requests>>

(* Connection.send returns the frame and clears the flag; the caller       *)
(* decodes it after the connection was released.                           *)
ReadAnswer ==
    /\ pc = "body" /\ inbox # <<>> /\ kind[cur] # "inspect"
    /\ inbox' = Tail(inbox)
    /\ inFlight' = FALSE
    /\ LET tag == Head(inbox).tag IN
       \/ tag = "ok"  /\ Finish("answered", <<Head(inbox)>>)
       \/ tag = "err" /\ Finish("server error", <<Head(inbox)>>)
       \/ tag = "nxt" /\ Finish("corrupted", <<>>)
    /\ UNCHANGED <<sock, link, requests, shorn>>

(* Mutant of ReadPart: the first part is taken for the whole answer.       *)
ReadPartOnly ==
    /\ pc = "body" /\ inbox # <<>> /\ kind[cur] = "inspect"
    /\ inbox' = Tail(inbox)
    /\ inFlight' = FALSE
    /\ Finish("answered", <<Head(inbox)>>)
    /\ UNCHANGED <<sock, link, requests, shorn>>

(* Connection.send_chunked with ChunkAssembler.feed: an err| frame is      *)
(* raised from inside the loop, before the flag is cleared.                *)
ReadPart ==
    /\ pc = "body" /\ inbox # <<>> /\ kind[cur] = "inspect"
    /\ inbox' = Tail(inbox)
    /\ LET frame == Head(inbox) IN
       \/ /\ frame.tag = "nxt"
          /\ body' = Append(body, frame)
          /\ Go("frame")
          /\ UNCHANGED <<attempt, inFlight, written>>
       \/ /\ frame.tag = "ok"
          /\ inFlight' = FALSE
          /\ Finish("answered", Append(body, frame))
       \/ /\ frame.tag = "err"
          /\ Finish("server error", <<frame>>)
          /\ UNCHANGED inFlight
    /\ UNCHANGED <<sock, link, requests, shorn>>

-----------------------------------------------------------------------------
(* The except clauses of Client._with_retry, and Client._backoff.          *)

(* A mutating request that may have reached the server is not repeated.    *)
GiveUp ==
    /\ pc = "lost" /\ inFlight /\ ~ReadOnly(cur)
    /\ Finish("lost", <<>>)
    /\ UNCHANGED <<wire, inFlight>>

(* Mutant of MayRetry: a blind retry.                                      *)
MayRetryAnything == pc = "lost"

MayRetry == pc = "lost" /\ ~(inFlight /\ ~ReadOnly(cur))

Exhaust ==
    /\ MayRetry /\ Exhausted(attempt + 1)
    /\ Finish("lost", <<>>)
    /\ UNCHANGED <<wire, inFlight>>

BackoffExpired ==
    /\ MayRetry /\ ~Exhausted(attempt + 1)
    /\ Expired
    /\ Finish("timeout", <<>>)
    /\ UNCHANGED <<wire, inFlight>>

BackoffOverflows ==
    /\ MayRetry /\ ~Exhausted(attempt + 1)
    /\ ~Expired /\ DelayOverflows(attempt + 1)
    /\ Finish("overflow", <<>>)
    /\ UNCHANGED <<wire, inFlight>>

Backoff ==
    /\ MayRetry /\ ~Exhausted(attempt + 1)
    /\ ~Expired /\ ~DelayOverflows(attempt + 1)
    /\ attempt' = attempt + 1
    /\ Go("sleep")
    /\ UNCHANGED <<wire, inFlight, body, written>>

(* Mutant of WakeExpired: an error the client's callers do not know.       *)
WakeExpiredStrangely ==
    /\ pc = "sleep" /\ Expired
    /\ Finish("expired", <<>>)
    /\ UNCHANGED <<wire, inFlight>>

WakeExpired ==
    /\ pc = "sleep" /\ Expired
    /\ Finish("timeout", <<>>)
    /\ UNCHANGED <<wire, inFlight>>

Wake ==
    /\ pc = "sleep" /\ ~Expired
    /\ Go("dial")
    /\ UNCHANGED <<wire, attempt, inFlight, body, written>>

-----------------------------------------------------------------------------
(* Connection.connect with its handshake, from the pool's factory or from  *)
(* Connection.reconnect.  It runs on connect_timeout: the deadline of the  *)
(* call is not looked at.                                                  *)

(* The socket is up and HELLO was answered.                                *)
Establish ==
    /\ pc \in {"factory", "dial"}
    /\ Connected
    /\ inFlight' = FALSE
    /\ clean' = TRUE
    /\ pc' = "try"
    /\ tries' = tries + 1
    /\ UNCHANGED <<applied, client, cur, kind, due, attempt, body, outcome, result, written>>

(* An FQConnectionError: the retry loop goes round again with no socket.   *)
(* The flag is FALSE from connect on and TRUE once HELLO is written; a     *)
(* refused TCP connection does not touch it.                               *)
RedialFails ==
    /\ pc = "dial"
    /\ Closed
    /\ inFlight' \in BOOLEAN
    /\ pc' = "try"
    /\ tries' = tries + 1
    /\ UNCHANGED <<applied, client, cur, kind, due, attempt, body, outcome, result,
                   written, clean>>

(* Nobody retries for a slot that was empty.                               *)
FactoryFails ==
    /\ pc = "factory"
    /\ Closed
    /\ inFlight' = FALSE
    /\ Finish("unreachable", <<>>)

(* HELLO was not answered within connect_timeout, or answered with an      *)
(* error or an unknown version.  The connection object is dropped with its *)
(* slot.                                                                   *)
HandshakeFails ==
    /\ pc \in {"factory", "dial"}
    /\ Closed
    /\ inFlight' = FALSE
    /\ \E o \in {"timeout", "rejected"} : Finish(o, <<>>)

-----------------------------------------------------------------------------
(* The asyncio client: the task of the call is cancelled where it waits,   *)
(* and leaves through every except clause.                                 *)

Leave == client.aio /\ Conclude("cancelled", <<>>)

(* In drain, the whole request already with the transport.                 *)
CancelWrite ==
    /\ pc = "write"
    /\ Put(cur, kind[cur], TRUE)
    /\ written' = [written EXCEPT ![cur] = @ + 1]
    /\ Leave
    /\ UNCHANGED <<sock, link, inbox, shorn, inFlight>>

(* In readexactly, which gives back what it has not returned: of a frame   *)
(* whose header was taken the rest is left.                                *)
CancelRead ==
    /\ pc \in {"header", "body"}
    /\ shorn' = (shorn \/ (pc = "body" /\ inbox # <<>>))
    /\ Leave
    /\ UNCHANGED <<sock, link, requests, inbox, written, inFlight>>

CancelSleep ==
    /\ pc = "sleep"
    /\ Leave
    /\ UNCHANGED <<wire, written, inFlight>>

(* In open_connection or in the handshake: connect closes what it opened.  *)
(* (One that comes while the old socket is being closed is swallowed.)     *)
CancelDial ==
    /\ pc \in {"factory", "dial"}
    /\ Closed
    /\ inFlight' \in IF pc = "factory" THEN {FALSE} ELSE BOOLEAN
    /\ Leave
    /\ UNCHANGED written

Cancel == CancelWrite \/ CancelRead \/ CancelSleep \/ CancelDial

-----------------------------------------------------------------------------
ClientStep ==
    \/ RefuseOversized \/ RequireSocket \/ CheckExpired \/ CheckPasses
    \/ SetTimeout \/ SetNegativeTimeout \/ SetTimeoutFails
    \/ Write \/ WriteTimesOut \/ DrainTimesOut \/ WriteLost
    \/ ReadHeader \/ ReadLost \/ ReadTimesOut \/ ReadGarbage
    \/ ReadAnswer \/ ReadPart
    \/ GiveUp \/ Exhaust \/ BackoffExpired \/ BackoffOverflows \/ Backoff
    \/ WakeExpired \/ Wake
    \/ Establish \/ RedialFails \/ FactoryFails \/ HandshakeFails

(* The server and the network move whatever the client is doing.           *)
Environment ==
    /\ ServerStep
    /\ UNCHANGED <<client, pc, cur, kind, due, attempt, inFlight, body, outcome,
                   result, written, clean, tries>>

Next == Begin \/ Stop \/ Tick \/ ClientStep \/ Cancel \/ Environment

(* A thread that can run does, a timed socket operation returns, and the   *)
(* clock moves on.  Nothing is assumed of the server.                      *)
Fairness == WF_vars(ClientStep) /\ WF_vars(Tick)

Spec == Init /\ [][Next]_vars
FairSpec == Spec /\ Fairness

-----------------------------------------------------------------------------
Ended(o) == pc = "idle" /\ cur # 0 /\ outcome[cur] = o

(* "A blind retry could apply them twice": however often connections break *)
(* and whatever is retried, the whole request of a mutating command is     *)
(* written to a server once at most, and carried out once at most.         *)
AtMostOnce ==
    \A c \in Calls : ~ReadOnly(c) => written[c] <= 1 /\ applied[c] <= 1

(* A mutating command that failed with one of these errors was never put   *)
(* on the wire, so its caller may safely make it again.                    *)
FailedUnsent ==
    \A c \in Calls :
        /\ ~ReadOnly(c)
        /\ outcome[c] \in {"refused", "unreachable", "rejected", "overflow"}
        => written[c] = 0 /\ applied[c] = 0

(* The frames a call decodes are one whole answer to this very call, from  *)
(* one try, and the server did carry it out.                               *)
OwnAnswer ==
    Ended("answered") =>
        /\ \E n \in Parts(kind[cur]) : result = Answer(cur, n, "ok")
        /\ applied[cur] >= 1

(* ... on a socket that owed no earlier call an answer.                    *)
OwnAnswerIfClean == clean => OwnAnswer

(* A call that was answered, by a value or an error, and one that was      *)
(* refused before it was sent, give back a socket that owes nothing.       *)
AnsweredLeavesQuiet ==
    clean /\ (Ended("answered") \/ Ended("server error") \/ Ended("refused"))
        => Quiet

(* With a budget of N attempts a call is tried N + 1 times at most.  And a  *)
(* lost connection ends a call, when no mutating request may be out, only  *)
(* when these tries are used up: not one too early, with a reconnect that  *)
(* failed counted like a connection that broke, and without a budget never.*)
BudgetKept ==
    /\ client.maxAttempts # Unlimited => tries <= client.maxAttempts + 1
    /\ Ended("lost") =>
          \/ inFlight /\ ~ReadOnly(cur)
          \/ client.maxAttempts # Unlimited /\ tries = client.maxAttempts + 1

(* A call with a deadline ends, whatever the server and the network do.    *)
TimedCallEnds == (pc # "idle" /\ due # "none") ~> (pc = "idle")

(* What a caller may conclude from the way his calls ended (FqPromise): a  *)
(* mutating command that may have been sent is carried out once at most,   *)
(* even late; as long as all calls were answered or refused, every answer  *)
(* is the call's own and nothing is carried out after its call ended.      *)
Promise == INSTANCE FqPromise WITH returned <- {result[i].call : i \in DOMAIN result}
KeepsPromise == Promise!Spec

-----------------------------------------------------------------------------
(* Inductive invariants behind AtMostOnce, FailedUnsent and BudgetKept;    *)
(* FqCallProofs proves them.                                               *)

Awaiting == {"frame", "arm read", "header", "body"}

(* A call not made yet has left no trace, and one under way has no result. *)
FutureUntouched ==
    /\ \A c \in Calls : c > cur => written[c] = 0 /\ outcome[c] = "pending"
    /\ pc # "idle" => outcome[cur] = "pending"

(* The flag the retry loop decides by tells when a mutating request is out.*)
FlagTells ==
    pc # "idle" /\ ~ReadOnly(cur) /\ written[cur] = 1
        => pc \in Awaiting \cup {"lost"} /\ inFlight

(* A whole mutating request in front of the server is there once and was   *)
(* not carried out yet.                                                    *)
UnservedOnce ==
    \A i \in 1 .. Len(requests) :
        requests[i].whole /\ ~ReadOnly(requests[i].call) =>
            /\ written[requests[i].call] = 1 /\ applied[requests[i].call] = 0
            /\ \A j \in 1 .. Len(requests) :
                  requests[j].whole /\ requests[j].call = requests[i].call => j = i

WrittenOnce ==
    \A c \in Calls : ~ReadOnly(c) => written[c] <= 1 /\ applied[c] <= written[c]

OnceInv ==
    FutureUntouched /\ FlagTells /\ UnservedOnce /\ WrittenOnce /\ FailedUnsent

(* Every try beyond the first was paid for with an attempt.                *)
BudgetInv ==
    /\ pc = "factory" => attempt = 0 /\ tries = 0
    /\ pc \in {"sleep", "dial"} => tries = attempt
    /\ pc \in PCs \ {"idle", "factory", "sleep", "dial"} => tries = attempt + 1
    /\ client.maxAttempts # Unlimited => attempt <= client.maxAttempts
    /\ BudgetKept

-----------------------------------------------------------------------------
(* Inductive invariants behind OwnAnswerIfClean, AnsweredLeavesQuiet and   *)
(* KeepsPromise; FqAnswerProofs proves them.                               *)

(* The request of the call is in front of the server, alone.               *)
Asked ==
    /\ requests = <<[call |-> cur, kind |-> kind[cur], whole |-> TRUE]>>
    /\ inbox = <<>> /\ body = <<>>

(* Of the answer in n parts some first frames are taken in, and some of    *)
(* the others, or all, are under way.  (When the request was lost: none of *)
(* an err| frame that will not come.)                                      *)
Answering(n, last) ==
    /\ requests = <<>>
    /\ Len(body) < n /\ Len(body) + Len(inbox) <= n
    /\ \A i \in 1 .. Len(body) : body[i] = Answer(cur, n, last)[i]
    /\ \A i \in 1 .. Len(inbox) : inbox[i] = Answer(cur, n, last)[Len(body) + i]
    /\ last = "ok" => applied[cur] >= 1
    /\ last = "err" /\ ~ReadOnly(cur) => applied[cur] = 0

(* A call that got a clean socket finds it so in each of its tries.        *)
CleanTry ==
    clean =>
        /\ pc \in {"try", "arm write", "write"} => Quiet
        /\ pc \in Awaiting =>
              ~shorn /\ (Asked \/ \E n \in Parts(kind[cur]), last \in {"ok", "err"} :
                                      Answering(n, last))

(* As long as all calls were settled the sockets they got were clean, and  *)
(* no request of theirs is left.                                           *)
SettledIsClean ==
    /\ pc = "idle" => cur = 0 \/ outcome[cur] # "pending"
    /\ cur = 0 => Quiet
    /\ cur # 0 /\ Promise!Settled(cur - 1) => clean
    /\ \A i \in 1 .. Len(requests) :
          /\ requests[i].call <= cur
          /\ requests[i].call < cur => ~Promise!Settled(requests[i].call)

AnswerInv ==
    CleanTry /\ OwnAnswerIfClean /\ AnsweredLeavesQuiet /\ SettledIsClean

-----------------------------------------------------------------------------
(* What the repository says of the program and the code does not keep; the *)
(* violation runs show how.                                                *)

(* README: "FQTimeoutError for an expired deadline".                       *)
ExpiryIsATimeout == ~Ended("bad timeout")

(* README: a command is only kept from a retry when its "request already   *)
(* reached the socket".                                                    *)
UnsentIsRetried ==
    client.maxAttempts = Unlimited => (Ended("lost") => written[cur] > 0)

(* README: "Within that deadline the client reconnects as many times as it *)
(* needs to".  So with no limit on attempts, a call gives up for want of a *)
(* server only when its deadline is over.                                  *)
GivesUpAtTheDeadline ==
    client.maxAttempts = Unlimited =>
        \A o \in {"unreachable", "timeout", "overflow"} : Ended(o) => Expired
=============================================================================

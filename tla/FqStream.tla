------------------------------ MODULE FqStream ------------------------------
(***************************************************************************)
(* A stream of a ShardedClient or an AsyncShardedClient: one worker per    *)
(* shard, a thread or a task, that runs Client._stream or                  *)
(* AsyncClient._iter_stream on a connection of the shard's pool and puts   *)
(* what it reads into one queue, and the generator of _fan_out that        *)
(* empties the queue for its consumer.  After the stream, a call on the    *)
(* connection it gave back.                                                *)
(*                                                                         *)
(* A worker thread is told to stop by an Event it polls, a worker task by  *)
(* a cancellation, which reaches it where it awaits.                       *)
(***************************************************************************)
EXTENDS Naturals, Sequences, FiniteSets

CONSTANTS
    Shards,        \* the shards of the client
    Unlimited,     \* ReconnectPolicy.max_attempts = None
    Clients,       \* the clients looked at
    Used,          \* idle connections that earlier calls and streams gave back
    LastDelay,     \* the last attempt whose delay a float can hold
    MaxEvents,     \* how many events the servers publish
    Flaky,         \* the shards whose connections are not always sound
    MaxFailures    \* how often one breaks, cannot be opened or is a used one

ASSUME StreamAssumption ==
    /\ IsFiniteSet(Shards)
    /\ Unlimited \notin Nat
    /\ Clients \subseteq [aio : BOOLEAN, maxAttempts : Nat \cup {Unlimited}]
    /\ {LastDelay, MaxEvents, MaxFailures} \subseteq Nat

VARIABLES
    client,      \* which of Clients it is: never changes
    pc,          \* where each worker is
    attempt,     \* the worker's failures since its last event
    sock,        \* the connection the worker holds, or gave back
    cancelled,   \* a cancellation is on its way to the worker's task
    swallowed,   \* ... and was suppressed by AsyncConnection.close
    phase,       \* where the generator is
    queue,       \* `events' of _fan_out
    delivered,   \* delivered[s]: the events of shard s the consumer got
    published,   \* published[s]: how many events the server of s published
    read,        \* read[s]: the events read off the sockets of s
    due,         \* due[s]: the event to come next, 0 once bytes were dropped
    losses,      \* the losses of a worker's connection since its last event
    clean,       \* nobody had the worker's connection before, or it has none
    failures,    \* how many failures have happened
    answered     \* what the first call after a shard's stream read

vars == <<client, pc, attempt, sock, cancelled, swallowed, phase, queue,
          delivered, published, read, due, losses, clean, failures, answered>>

\* What the environment and the calls leave alone.
program == <<client, pc, attempt, cancelled, swallowed, phase, queue, delivered,
             read>>
consumer == <<phase, queue, delivered>>
history == <<published, read, due, losses, clean, failures, answered>>

(* A frame is the number of an event, or the refusal of a subscription.  In *)
(* what an earlier holder left, they stand for any frame that parses as an *)
(* event, and for any that does not: the answer of a call that gave up.    *)
Refusal == 0
Event == 1 .. MaxEvents
Frame == Event \cup {Refusal}

(* Errors no policy retries, and the two that come of retrying.            *)
Errors == {"final",       \* no slot, a rejected handshake or subscription,
                          \* an err| frame, CorruptedResponseError
           "lost",        \* the attempts are exhausted
           "overflow"}    \* OverflowError of ReconnectPolicy.delay

PCs == {"acquire", "top", "read", "put", "lost", "sleep", "closing", "dial",
        "undo", "done"}

(* Where a task can be cancelled: the awaits that suspend it.              *)
Awaits == {"acquire", "read", "sleep", "closing", "dial", "undo"}

Connection == [link : {"none", "up", "down"}, subscribed : BOOLEAN,
               inbox : Seq(Frame), shorn : BOOLEAN]

(* What an earlier holder may leave on a connection: a subscription that   *)
(* goes on, frames nobody read, a frame cut in two, a peer that is gone.   *)
ASSUME UsedAssumption ==
    /\ Used \subseteq Connection
    /\ \A c \in Used : c.link # "none" /\ (c.subscribed => c.link = "up")

Entry == [shard : Shards, event : Frame, error : Errors \cup {"none"}]

(* What a worker read: an event, which one was due, on which connection.   *)
Readings == [event : Event, due : 0 .. MaxEvents + 1, clean : BOOLEAN]

TypeOK ==
    /\ client \in Clients
    /\ pc \in [Shards -> PCs]
    /\ attempt \in [Shards -> Nat]
    /\ sock \in [Shards -> Connection]
    /\ cancelled \in [Shards -> BOOLEAN] /\ swallowed \in [Shards -> BOOLEAN]
    /\ phase \in {"get", "yield", "closing", "ended"}
    /\ queue \in Seq(Entry)
    /\ delivered \in [Shards -> Seq(Event)]
    /\ published \in [Shards -> 0 .. MaxEvents]
    /\ read \in [Shards -> Seq(Readings)]
    /\ due \in [Shards -> 0 .. MaxEvents + 1]
    /\ losses \in [Shards -> Nat]
    /\ clean \in [Shards -> BOOLEAN]
    /\ failures \in 0 .. MaxFailures
    /\ answered \in {"nothing", "its answer", "a leftover"}

Socket(link) == [link |-> link, subscribed |-> FALSE, inbox |-> <<>>, shorn |-> FALSE]

Init ==
    /\ client \in Clients
    /\ pc = [s \in Shards |-> "acquire"]
    /\ attempt = [s \in Shards |-> 0]
    /\ sock = [s \in Shards |-> Socket("none")]
    /\ cancelled = [s \in Shards |-> FALSE]
    /\ swallowed = [s \in Shards |-> FALSE]
    /\ phase = "get" /\ queue = <<>>
    /\ delivered = [s \in Shards |-> <<>>]
    /\ published = [s \in Shards |-> 0]
    /\ read = [s \in Shards |-> <<>>]
    /\ due = [s \in Shards |-> 0]
    /\ losses = [s \in Shards |-> 0]
    /\ clean = [s \in Shards |-> TRUE]
    /\ failures = 0
    /\ answered = "nothing"

-----------------------------------------------------------------------------
(* The stop flag of the threads.                                           *)
Stopping == ~client.aio /\ phase \in {"closing", "ended"}

At(s, where) == pc[s] = where /\ ~(where \in Awaits /\ cancelled[s])

Goto(s, next) == pc' = [pc EXCEPT ![s] = next]

Fails(s) == s \in Flaky /\ failures < MaxFailures /\ failures' = failures + 1

(* The worker's generator is left, which gives the connection back, and    *)
(* the worker puts the error into the queue.                               *)
Raise(s, e) ==
    /\ Goto(s, "done")
    /\ queue' = Append(queue, [shard |-> s, event |-> 0, error |-> e])
    /\ UNCHANGED <<client, cancelled, swallowed, phase, delivered>>

Quietly == UNCHANGED <<client, cancelled, swallowed, consumer>>

-----------------------------------------------------------------------------
(* Client._stream and AsyncClient._iter_stream.                            *)

(* The pool hands out a new connection, or an idle one as it is.           *)
Acquire(s) ==
    /\ At(s, "acquire")
    /\ \/ /\ sock' = [sock EXCEPT ![s] = Socket("up")]
          /\ clean' = [clean EXCEPT ![s] = TRUE]
          /\ UNCHANGED failures
       \/ /\ \E c \in Used : sock' = [sock EXCEPT ![s] = c]
          /\ clean' = [clean EXCEPT ![s] = FALSE]
          /\ Fails(s)
    /\ Goto(s, "top")
    /\ Quietly /\ UNCHANGED <<attempt, published, read, due, losses, answered>>

AcquireFails(s) ==
    /\ At(s, "acquire")
    /\ Fails(s)
    /\ Raise(s, "final")
    /\ UNCHANGED <<attempt, sock, published, read, due, losses, clean, answered>>

StopAtTop(s) ==
    /\ At(s, "top") /\ Stopping
    /\ Goto(s, "done")
    /\ Quietly /\ UNCHANGED <<attempt, sock, history>>

(* A prefix may be too long for what the server takes.                     *)
RefuseOversized(s) ==
    /\ At(s, "top") /\ ~Stopping
    /\ Raise(s, "final")
    /\ UNCHANGED <<attempt, sock, history>>

(* The kernel takes the request even when the peer is gone.                *)
Subscribe(s) ==
    /\ At(s, "top") /\ ~Stopping /\ sock[s].link # "none"
    /\ sock' = [sock EXCEPT ![s].subscribed = sock[s].link = "up"]
    /\ due' = [due EXCEPT ![s] = published[s] + 1]
    /\ Goto(s, "read")
    /\ Quietly /\ UNCHANGED <<attempt, published, read, losses, clean, failures,
                              answered>>

SubscribeFails(s) ==
    /\ At(s, "top") /\ ~Stopping /\ sock[s].link # "up"
    /\ Goto(s, "lost")
    /\ losses' = [losses EXCEPT ![s] = @ + 1]
    /\ Quietly /\ UNCHANGED <<attempt, sock, published, read, due, clean, failures,
                              answered>>

(* Mutant of ReadEvent: the tag of the frame is not looked at.             *)
ReadAnything(s) ==
    /\ At(s, "read") /\ ~sock[s].shorn /\ sock[s].inbox # <<>>
    /\ sock' = [sock EXCEPT ![s].inbox = Tail(@)]
    /\ read' = [read EXCEPT ![s] =
                    Append(@, [event |-> Head(sock[s].inbox), due |-> due[s],
                               clean |-> clean[s]])]
    /\ due' = [due EXCEPT ![s] = Head(sock[s].inbox) + 1]
    /\ Goto(s, "put")
    /\ Quietly /\ UNCHANGED <<attempt, published, losses, clean, failures, answered>>

(* A whole frame, whose event the generator yields.                        *)
ReadEvent(s) ==
    /\ At(s, "read") /\ ~sock[s].shorn
    /\ sock[s].inbox # <<>> /\ Head(sock[s].inbox) # Refusal
    /\ sock' = [sock EXCEPT ![s].inbox = Tail(@)]
    /\ read' = [read EXCEPT ![s] =
                    Append(@, [event |-> Head(sock[s].inbox), due |-> due[s],
                               clean |-> clean[s]])]
    /\ due' = [due EXCEPT ![s] = Head(sock[s].inbox) + 1]
    /\ Goto(s, "put")
    /\ Quietly /\ UNCHANGED <<attempt, published, losses, clean, failures, answered>>

ReadRefusal(s) ==
    /\ At(s, "read") /\ ~sock[s].shorn
    /\ sock[s].inbox # <<>> /\ Head(sock[s].inbox) = Refusal
    /\ sock' = [sock EXCEPT ![s].inbox = Tail(@)]
    /\ Raise(s, "final")
    /\ UNCHANGED <<attempt, history>>

(* recv returns nothing, or fails, in front of a whole frame.              *)
ReadLost(s) ==
    /\ At(s, "read") /\ sock[s].link = "down"
    /\ sock[s].inbox = <<>> \/ sock[s].shorn
    /\ Goto(s, "lost")
    /\ losses' = [losses EXCEPT ![s] = @ + 1]
    /\ Quietly /\ UNCHANGED <<attempt, sock, published, read, due, clean, failures,
                              answered>>

(* Misaligned bytes make an impossible length or an impossible event.      *)
ReadGarbage(s) ==
    /\ At(s, "read") /\ sock[s].shorn
    /\ Raise(s, "final")
    /\ UNCHANGED <<attempt, sock, history>>

(* Mutant of PollEnds: a frame under way is thrown away as a whole.        *)
PollEndsSkipping(s) ==
    /\ ~client.aio /\ pc[s] = "read"
    /\ \/ sock[s].inbox = <<>> /\ UNCHANGED sock
       \/ /\ sock[s].inbox # <<>>
          /\ sock' = [sock EXCEPT ![s].inbox = Tail(@)]
    /\ Goto(s, IF Stopping THEN "done" ELSE "read")
    /\ Quietly /\ UNCHANGED <<attempt, history>>

(* The poll interval of a thread ends: before a frame came; inside one,    *)
(* whose bytes are dropped; or inside what a reader out of step takes for  *)
(* one, which may leave it in step again.  The worker looks at the flag.   *)
PollEnds(s) ==
    /\ ~client.aio /\ pc[s] = "read"
    /\ \/ sock[s].inbox = <<>> /\ UNCHANGED <<sock, due>>
       \/ /\ ~sock[s].shorn /\ sock[s].inbox # <<>>
          /\ sock' = [sock EXCEPT ![s].shorn = TRUE]
          /\ due' = [due EXCEPT ![s] = 0]
       \/ /\ sock[s].shorn
          /\ \E n \in 1 .. Len(sock[s].inbox), still \in BOOLEAN :
                /\ n = Len(sock[s].inbox) => ~still
                /\ sock' = [sock EXCEPT ![s].shorn = still,
                                        ![s].inbox = SubSeq(@, n + 1, Len(@))]
          /\ UNCHANGED due
    /\ Goto(s, IF Stopping THEN "done" ELSE "read")
    /\ Quietly /\ UNCHANGED <<attempt, published, read, losses, clean, failures,
                              answered>>

(* Mutant of Put: the flag is looked at before the event is put.           *)
PutUnlessStopping(s) ==
    /\ pc[s] = "put"
    /\ IF Stopping
       THEN Goto(s, "done") /\ UNCHANGED <<attempt, losses, queue>>
       ELSE /\ Goto(s, "read") /\ attempt' = [attempt EXCEPT ![s] = 0]
            /\ losses' = [losses EXCEPT ![s] = 0]
            /\ queue' = Append(queue, [shard |-> s, error |-> "none",
                                       event |-> read[s][Len(read[s])].event])
    /\ UNCHANGED <<client, sock, cancelled, swallowed, phase, delivered,
                   published, read, due, clean, failures, answered>>

(* Mutant of Put: an event does not start the count of attempts again.     *)
PutKeepingAttempt(s) ==
    /\ pc[s] = "put"
    /\ queue' = Append(queue, [shard |-> s, event |-> read[s][Len(read[s])].event,
                               error |-> "none"])
    /\ losses' = [losses EXCEPT ![s] = 0]
    /\ Goto(s, IF Stopping THEN "done" ELSE "read")
    /\ UNCHANGED <<client, attempt, sock, cancelled, swallowed, phase, delivered,
                   published, read, due, clean, failures, answered>>

(* The worker of _fan_out puts the event; a thread then looks at the flag. *)
Put(s) ==
    /\ pc[s] = "put"
    /\ queue' = Append(queue, [shard |-> s, event |-> read[s][Len(read[s])].event,
                               error |-> "none"])
    /\ IF Stopping
       THEN Goto(s, "done") /\ UNCHANGED attempt
       ELSE Goto(s, "read") /\ attempt' = [attempt EXCEPT ![s] = 0]
    /\ losses' = [losses EXCEPT ![s] = 0]
    /\ UNCHANGED <<client, sock, cancelled, swallowed, phase, delivered,
                   published, read, due, clean, failures, answered>>

-----------------------------------------------------------------------------
(* Their except clauses, and reconnect.                                    *)

Exhausted(n) == client.maxAttempts # Unlimited /\ n > client.maxAttempts
DelayOverflows(n) == n > LastDelay

Exhaust(s) ==
    /\ pc[s] = "lost" /\ Exhausted(attempt[s] + 1)
    /\ attempt' = [attempt EXCEPT ![s] = @ + 1]
    /\ Raise(s, "lost")
    /\ UNCHANGED <<sock, history>>

BackoffOverflows(s) ==
    /\ pc[s] = "lost" /\ ~Exhausted(attempt[s] + 1) /\ DelayOverflows(attempt[s] + 1)
    /\ attempt' = [attempt EXCEPT ![s] = @ + 1]
    /\ Raise(s, "overflow")
    /\ UNCHANGED <<sock, history>>

Backoff(s) ==
    /\ pc[s] = "lost" /\ ~Exhausted(attempt[s] + 1) /\ ~DelayOverflows(attempt[s] + 1)
    /\ attempt' = [attempt EXCEPT ![s] = @ + 1]
    /\ Goto(s, "sleep")
    /\ Quietly /\ UNCHANGED <<sock, history>>

(* reconnect closes the socket; a task waits until it is closed.           *)
Wake(s) ==
    /\ At(s, "sleep")
    /\ sock' = [sock EXCEPT ![s] = Socket("none")]
    /\ clean' = [clean EXCEPT ![s] = TRUE]
    /\ Goto(s, IF client.aio /\ sock[s].link # "none" THEN "closing" ELSE "dial")
    /\ Quietly /\ UNCHANGED <<attempt, published, read, due, losses, failures, answered>>

WaitClosed(s) ==
    /\ \/ At(s, "closing") /\ Goto(s, "dial")
       \/ At(s, "undo") /\ Goto(s, "top")
    /\ Quietly /\ UNCHANGED <<attempt, sock, history>>

Establish(s) ==
    /\ At(s, "dial")
    /\ sock' = [sock EXCEPT ![s] = Socket("up")]
    /\ Goto(s, "top")
    /\ Quietly /\ UNCHANGED <<attempt, history>>

(* Mutant of RedialFails: the failure of a reconnect is not caught.        *)
RedialFailsRaising(s) ==
    /\ At(s, "dial")
    /\ Fails(s)
    /\ Raise(s, "lost")
    /\ UNCHANGED <<attempt, sock, published, read, due, losses, clean, answered>>

(* An FQConnectionError, FQTimeoutError among them; a connection whose     *)
(* handshake failed is closed first.                                       *)
RedialFails(s) ==
    /\ At(s, "dial")
    /\ Fails(s)
    /\ \/ Goto(s, "top")
       \/ client.aio /\ Goto(s, "undo")
    /\ Quietly /\ UNCHANGED <<attempt, sock, published, read, due, losses, clean, answered>>

HandshakeRejected(s) ==
    /\ At(s, "dial")
    /\ Fails(s)
    /\ Raise(s, "final")
    /\ UNCHANGED <<attempt, sock, published, read, due, losses, clean, answered>>

-----------------------------------------------------------------------------
(* Cancellation.                                                           *)

(* CancelledError leaves the worker; it may strike between the length of a *)
(* frame and the rest.                                                     *)
CancelHits(s) ==
    /\ cancelled[s] /\ pc[s] \in {"acquire", "read", "sleep", "dial"}
    /\ cancelled' = [cancelled EXCEPT ![s] = FALSE]
    /\ Goto(s, "done")
    /\ \/ UNCHANGED sock
       \/ /\ pc[s] = "read" /\ sock[s].inbox # <<>>
          /\ sock' = [sock EXCEPT ![s].shorn = TRUE]
    /\ UNCHANGED <<client, attempt, swallowed, consumer, history>>

(* AsyncConnection.close suppresses it, and the worker goes on.            *)
CancelSwallowed(s) ==
    /\ cancelled[s] /\ pc[s] \in {"closing", "undo"}
    /\ cancelled' = [cancelled EXCEPT ![s] = FALSE]
    /\ swallowed' = [swallowed EXCEPT ![s] = TRUE]
    /\ Goto(s, IF pc[s] = "closing" THEN "dial" ELSE "top")
    /\ UNCHANGED <<client, attempt, sock, consumer, history>>

-----------------------------------------------------------------------------
(* The generator of _fan_out.                                              *)

(* Mutant of Close: the tasks are awaited and not cancelled.               *)
CloseAndWait ==
    /\ phase' = "closing"
    /\ UNCHANGED cancelled

(* Its finally clause: threads see the flag, tasks are cancelled.          *)
Close ==
    /\ phase' = "closing"
    /\ cancelled' = [s \in Shards |-> client.aio /\ pc[s] # "done"]

GetEvent ==
    /\ phase = "get" /\ queue # <<>> /\ Head(queue).error = "none"
    /\ delivered' = [delivered EXCEPT ![Head(queue).shard] =
                         Append(@, Head(queue).event)]
    /\ queue' = Tail(queue)
    /\ phase' = "yield"
    /\ UNCHANGED <<client, pc, attempt, sock, cancelled, swallowed, history>>

GetError ==
    /\ phase = "get" /\ queue # <<>> /\ Head(queue).error # "none"
    /\ Close
    /\ queue' = Tail(queue)
    /\ UNCHANGED <<client, pc, attempt, sock, swallowed, delivered, history>>

Resume ==
    /\ phase = "yield"
    /\ phase' = "get"
    /\ UNCHANGED <<client, pc, attempt, sock, cancelled, swallowed, queue,
                   delivered, history>>

(* The consumer closes the generator at a yield; one that is a task may be *)
(* cancelled while it waits.                                               *)
Leave ==
    /\ \/ phase = "yield" /\ Close
       \/ phase = "get" /\ client.aio /\ Close
    /\ UNCHANGED <<client, pc, attempt, sock, swallowed, queue, delivered, history>>

(* join waits a second for each thread; gather waits for all tasks.        *)
Join ==
    /\ phase = "closing"
    /\ client.aio => \A s \in Shards : pc[s] = "done"
    /\ phase' = "ended"
    /\ UNCHANGED <<client, pc, attempt, sock, cancelled, swallowed, queue,
                   delivered, history>>

-----------------------------------------------------------------------------
(* The servers, the network, and the next call on the connection.          *)

AllPublished ==
    Cardinality({p \in Shards \X Event : p[2] <= published[p[1]]}) >= MaxEvents

(* An event nobody is subscribed to leaves no trace.                       *)
Publish(s) ==
    /\ ~AllPublished /\ sock[s].subscribed
    /\ published' = [published EXCEPT ![s] = @ + 1]
    /\ sock' = [sock EXCEPT ![s].inbox = Append(@, published[s] + 1)]
    /\ UNCHANGED <<program, due, losses, clean, failures, answered>>

(* The refusal answers the request, after what was under way before it.    *)
RefuseSubscription(s) ==
    /\ sock[s].subscribed /\ pc[s] = "read"
    /\ clean[s] => sock[s].inbox = <<>>
    /\ sock' = [sock EXCEPT ![s].inbox = Append(@, Refusal), ![s].subscribed = FALSE]
    /\ UNCHANGED <<program, published, due, losses, clean, failures, answered>>

(* Any tail of the frames under way is gone.  What happens to a connection *)
(* that was given back is FqCall's.                                        *)
Drop(s) ==
    /\ pc[s] # "done" /\ sock[s].link = "up"
    /\ Fails(s)
    /\ \E n \in 0 .. Len(sock[s].inbox) :
          sock' = [sock EXCEPT ![s].link = "down", ![s].subscribed = FALSE,
                               ![s].inbox = SubSeq(@, 1, n)]
    /\ UNCHANGED <<program, published, due, losses, clean, answered>>

(* Connection.send, for the next holder of the connection the stream gave  *)
(* back: it writes its request and reads one frame.                        *)
CallAfter(s) ==
    /\ phase = "ended" /\ pc[s] = "done" /\ answered = "nothing"
    /\ sock[s].link = "up" /\ ~sock[s].shorn
    /\ \/ /\ sock[s].inbox = <<>>
          /\ answered' = "its answer"
          /\ UNCHANGED sock
       \/ /\ sock[s].inbox # <<>>
          /\ answered' = "a leftover"
          /\ sock' = [sock EXCEPT ![s].inbox = Tail(@)]
    /\ UNCHANGED <<program, published, due, losses, clean, failures>>

(* The servers have nothing to publish and the consumer asks for nothing.  *)
Silence == (\A s \in Shards : pc[s] \in {"read", "done"}) /\ UNCHANGED vars

-----------------------------------------------------------------------------
Worker(s) ==
    \/ Acquire(s) \/ AcquireFails(s)
    \/ StopAtTop(s) \/ RefuseOversized(s) \/ Subscribe(s) \/ SubscribeFails(s)
    \/ ReadEvent(s) \/ ReadRefusal(s) \/ ReadLost(s) \/ ReadGarbage(s)
    \/ PollEnds(s) \/ Put(s)
    \/ Exhaust(s) \/ BackoffOverflows(s) \/ Backoff(s) \/ Wake(s) \/ WaitClosed(s)
    \/ Establish(s) \/ RedialFails(s) \/ HandshakeRejected(s)
    \/ CancelHits(s) \/ CancelSwallowed(s)

Generator == GetEvent \/ GetError \/ Resume \/ Leave \/ Join

Environment(s) ==
    Publish(s) \/ RefuseSubscription(s) \/ Drop(s) \/ CallAfter(s)

Next ==
    \/ \E s \in Shards : Worker(s) \/ Environment(s)
    \/ Generator \/ Silence

(* Threads and tasks are scheduled, sleeps and timed operations end, and a *)
(* generator that is being closed goes on.  Nothing is assumed of the      *)
(* consumer and the servers.                                               *)
Fairness == WF_vars(Join) /\ \A s \in Shards : WF_vars(Worker(s))

Spec == Init /\ [][Next]_vars
FairSpec == Spec /\ Fairness

-----------------------------------------------------------------------------
(* Where in the queue the events of a shard are.                           *)
Queued(s) ==
    {i \in 1 .. Len(queue) : queue[i].shard = s /\ queue[i].error = "none"}

(* The event of a queue's i-th place is its shard's Rank(s, i)-th in there.*)
Rank(s, i) == Cardinality({j \in Queued(s) : j <= i})

(* Every event read off a socket goes to the consumer, once and in order:  *)
(* what he got, what is queued and what the worker is about to put are the *)
(* events read, whatever was stopped, cancelled or lost meanwhile.         *)
EventsKept ==
    \A s \in Shards :
        /\ Len(read[s]) = Len(delivered[s]) + Cardinality(Queued(s))
                          + (IF pc[s] = "put" THEN 1 ELSE 0)
        /\ \A i \in 1 .. Len(delivered[s]) : delivered[s][i] = read[s][i].event
        /\ \A i \in Queued(s) :
              queue[i].event = read[s][Len(delivered[s]) + Rank(s, i)].event

(* On the connections a stream opens, and on a new one of the pool, the    *)
(* events of a shard come in the order they were published and without     *)
(* repetition, also over reconnects, and none is missing that came in a    *)
(* subscription's time, unless a poll interval ended inside a frame.  An   *)
(* idle connection first gives what its earlier holder left, and promises  *)
(* nothing until it is lost (CallsReadAnswers).                            *)
Gapless ==
    \A s \in Shards : \A i \in 1 .. Len(read[s]) : read[s][i].clean =>
        /\ read[s][i].due \in {0, read[s][i].event}
        /\ \A j \in 1 .. i - 1 :
              read[s][j].clean => read[s][j].event < read[s][i].event

(* Why: what was read was published before,                                *)
SeenPublished(s) ==
    \A i \in 1 .. Len(read[s]) :
        read[s][i].clean => read[s][i].event <= published[s]

(* and on a connection that is clean, a worker that is about to subscribe  *)
(* finds nothing,                                                          *)
Fresh(s) ==
    pc[s] \in {"acquire", "top", "closing", "dial", "undo"} =>
        sock[s].inbox = <<>> /\ ~sock[s].subscribed /\ ~sock[s].shorn

(* the frames are events of a subscription one after the other, all later  *)
(* than what was read, or its refusal alone,                               *)
InOrder(s) ==
    LET inbox == sock[s].inbox
    IN  inbox # <<Refusal>> =>
            \A i \in 1 .. Len(inbox) :
                /\ inbox[i] = inbox[1] + i - 1 /\ inbox[i] \in 1 .. published[s]
                /\ \A j \in 1 .. Len(read[s]) :
                      read[s][j].clean => read[s][j].event < inbox[i]

(* the last of them the latest while the subscription lives,               *)
UpToDate(s) ==
    LET inbox == sock[s].inbox
    IN  sock[s].subscribed =>
            inbox # <<Refusal>> /\ (inbox # <<>> => inbox[Len(inbox)] = published[s])

(* and the next of them is due unless bytes were dropped.                  *)
NextIsDue(s) ==
    LET inbox == sock[s].inbox
    IN  pc[s] \in {"read", "put"} /\ due[s] # 0 =>
            /\ ~sock[s].shorn
            /\ inbox \notin {<<>>, <<Refusal>>} => inbox[1] = due[s]
            /\ sock[s].subscribed /\ inbox = <<>> => due[s] = published[s] + 1

InStep ==
    \A s \in Shards :
        /\ SeenPublished(s)
        /\ clean[s] => Fresh(s) /\ InOrder(s) /\ UpToDate(s) /\ NextIsDue(s)

(* A stream gives up when it has lost its connection, or failed to get a   *)
(* new one, once more than its policy allows, counted from the last event: *)
(* not earlier, and it never tries more often.                             *)
Limited == client.maxAttempts # Unlimited

RetriesSpent ==
    \A s \in Shards :
        /\ Limited => losses[s] <= client.maxAttempts + 1
        /\ \A i \in 1 .. Len(queue) : queue[i].shard = s =>
              /\ queue[i].error = "lost" => Limited /\ losses[s] = client.maxAttempts + 1
              /\ queue[i].error = "overflow" => losses[s] = LastDelay + 1

(* Why: the worker counts each loss, when it handles it.                   *)
CountsLosses ==
    \A s \in Shards :
        /\ pc[s] = "lost" => losses[s] = attempt[s] + 1
        /\ pc[s] \notin {"lost", "done"} => losses[s] = attempt[s]
        /\ pc[s] # "done" /\ Limited => attempt[s] <= client.maxAttempts
        /\ pc[s] # "done" => attempt[s] <= LastDelay

(* and has nothing left to count after its error.                          *)
ErrorsAreLast ==
    \A i \in 1 .. Len(queue) :
        queue[i].error # "none" => pc[queue[i].shard] = "done"

(* README: "a dropped connection does not end the loop".  Unless the       *)
(* stream is being closed, is refused, or has spent its attempts, a worker *)
(* that lost its connection subscribes again.                              *)
Excused(s) ==
    \/ phase \in {"closing", "ended"}
    \/ \E i \in 1 .. Len(queue) : queue[i].shard = s /\ queue[i].error = "final"
    \/ Limited /\ losses[s] > client.maxAttempts

(* "streams have no deadline and so reconnect indefinitely"                *)
(* (_reconnect.py:17): they do not when the delay overflows.               *)
NotIndefinitely(s) == losses[s] > LastDelay

Resubscribes ==
    \A s \in Shards :
        (pc[s] = "lost") ~> (sock[s].subscribed \/ Excused(s) \/ NotIndefinitely(s))

(* A generator that is closed, by its consumer or by an error, ends, and   *)
(* so do all its workers; tasks only if no cancellation was suppressed.    *)
StreamCloses ==
    (phase = "closing") ~> \/ phase = "ended" /\ \A s \in Shards : pc[s] = "done"
                           \/ \E s \in Shards : swallowed[s]

-----------------------------------------------------------------------------
(* Connection.send: "Send a command and read one response frame."  The     *)
(* call that gets the connection of a stream reads an event instead.       *)
CallsReadAnswers == answered # "a leftover"
=============================================================================

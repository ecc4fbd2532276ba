------------------------------- MODULE FqWire -------------------------------
(***************************************************************************)
(* One TCP socket of the client and the fq server at its other end, as     *)
(* the client's code can tell them apart.  The server is not part of the   *)
(* repository: it is modelled from what src/fq expects of it.              *)
(*                                                                         *)
(* Frames are records, not bytes.  The one thing about bytes that matters  *)
(* is kept: a reader or a writer that stops inside a frame leaves the      *)
(* stream misaligned (`shorn' for answers, whole = FALSE for requests).    *)
(***************************************************************************)
EXTENDS Naturals, Sequences

CONSTANTS
    MaxCalls,   \* how many calls are made through the connection
    MaxParts    \* the most frames one INSPECT answer is split into

ASSUME WireAssumption == MaxCalls \in Nat /\ MaxParts \in Nat \ {0}

VARIABLES
    sock,       \* "open" or "none": Connection._sock
    link,       \* "up", or "down" once the peer or the network dropped it
    requests,   \* requests written and not yet served, oldest first
    inbox,      \* answer frames sent and not yet read, oldest first
    shorn,      \* the oldest frame of inbox has lost its leading bytes
    applied     \* applied[c]: how often the server carried out call c

wire == <<sock, link, requests, inbox, shorn>>

Calls == 1 .. MaxCalls

(* Command.read_only splits the catalogue; INSPECT is the read-only        *)
(* command whose answer may span several frames.                           *)
Kinds == {"mutating", "read", "inspect"}

Tags == {"nxt", "ok", "err"}

(* The call of an answer to bytes that were no request of any call.        *)
NoCall == 0

Request == [call : Calls, kind : Kinds, whole : BOOLEAN]
Frame == [call : Calls \cup {NoCall}, part : 1 .. MaxParts, tag : Tags]

(* The frames that answer call c in n parts: "nxt" parts and one last      *)
(* "ok" or "err".                                                          *)
Answer(c, n, last) ==
    [i \in 1 .. n |-> [call |-> c, part |-> i,
                       tag  |-> IF i = n THEN last ELSE "nxt"]]

Parts(k) == IF k = "inspect" THEN 1 .. MaxParts ELSE {1}

(* Nothing written is unanswered and nothing sent is unread.               *)
Quiet == requests = <<>> /\ inbox = <<>> /\ ~shorn

-----------------------------------------------------------------------------
(* What the client does to its socket.                                     *)

Closed == /\ sock' = "none"
          /\ link' = "down"
          /\ requests' = <<>>
          /\ inbox' = <<>>
          /\ shorn' = FALSE

Connected == /\ sock' = "open"
             /\ link' = "up"
             /\ requests' = <<>>
             /\ inbox' = <<>>
             /\ shorn' = FALSE

(* Bytes are accepted by the kernel even when nobody will receive them.    *)
Put(c, k, whole) ==
    requests' = IF link = "up"
                THEN Append(requests, [call |-> c, kind |-> k, whole |-> whole])
                ELSE requests

(* A reader out of step takes frame bytes for a length and swallows        *)
(* whatever that length covers.                                            *)
Swallow ==
    \E n \in 0 .. Len(inbox) :
        /\ inbox' = SubSeq(inbox, n + 1, Len(inbox))
        /\ shorn' \in {s \in BOOLEAN : (n = 0 => s) /\ (n = Len(inbox) => ~s)}

-----------------------------------------------------------------------------
(* What the server and the network do.                                     *)

(* The server carries out the oldest request and sends its answer.         *)
Serve ==
    /\ sock = "open" /\ link = "up"
    /\ requests # <<>> /\ Head(requests).whole
    /\ \E n \in Parts(Head(requests).kind), last \in {"ok", "err"} :
          /\ inbox' = inbox \o Answer(Head(requests).call, n, last)
          /\ applied' = [applied EXCEPT ![Head(requests).call] =
                             IF last = "ok" THEN @ + 1 ELSE @]
    /\ requests' = Tail(requests)
    /\ UNCHANGED <<sock, link, shorn>>

(* Behind a request that was cut short every later one is read out of      *)
(* step and refused.                                                       *)
Misread ==
    /\ sock = "open" /\ link = "up"
    /\ Len(requests) >= 2 /\ ~Head(requests).whole
    /\ inbox' = inbox \o Answer(NoCall, 1, "err")
    /\ requests' = <<Head(requests)>> \o Tail(Tail(requests))
    /\ UNCHANGED <<sock, link, shorn, applied>>

(* The peer restarts or the network breaks: unserved requests and any      *)
(* tail of the answers under way are gone.  The client learns of it only   *)
(* when it next reads or writes.                                           *)
Drop ==
    /\ sock = "open" /\ link = "up"
    /\ link' = "down"
    /\ requests' = <<>>
    /\ \E n \in 0 .. Len(inbox) : inbox' = SubSeq(inbox, 1, n)
    /\ UNCHANGED <<sock, shorn, applied>>

ServerStep == Serve \/ Misread \/ Drop
=============================================================================

--------------------------- MODULE FqAnswerProofs ---------------------------
(***************************************************************************)
(* Theorems about the answers of FqCall, and that FqCall implements        *)
(* FqPromise, for any number of calls, any size of answers and any         *)
(* reconnection policy.                                                    *)
(***************************************************************************)
EXTENDS FqCallProofs

-----------------------------------------------------------------------------
(* The kinds of steps a client makes.                                      *)

Settling == {"answered", "server error", "refused"}
OpenEndings == Outcomes \ ({"pending"} \cup Settling)
Writing == {"try", "arm write", "write"}

(* A call goes on with its socket as it is,                                *)
Moves ==
    /\ pc # "idle" /\ pc' # "idle"
    /\ UNCHANGED <<wire, progress, outcome, result, body, applied>>
    /\ pc' \in Writing => pc \in Writing
    /\ pc' \in Awaiting => pc \in Awaiting

(* or with a new one or none.                                              *)
Renews ==
    /\ pc # "idle" /\ pc' = "try" /\ Quiet' /\ clean' \in {clean, TRUE}
    /\ UNCHANGED <<cur, kind, outcome, result, applied>>

(* Every step of a client goes on, ends in a way that leaves things open,  *)
(* or is one of four.                                                      *)
LEMMA StepKinds ==
    ASSUME ClientStep \/ Cancel
    PROVE  \/ \E o \in OpenEndings : Conclude(o, <<>>)
           \/ Moves \/ Renews
           \/ Write \/ RefuseOversized \/ ReadAnswer \/ ReadPart
<1>1. CASE RequireSocket
  BY <1>1 DEF RequireSocket, Moves, Go, Writing, Awaiting, wire
<1>2. CASE CheckExpired
  <2>1. Conclude("timeout", <<>>)
    BY <1>2 DEF CheckExpired, Finish, Leave
  <2> QED
    BY <2>1 DEF OpenEndings, Outcomes, Settling
<1>3. CASE CheckPasses
  BY <1>3 DEF CheckPasses, Moves, Go, Writing, Awaiting, wire
<1>4. CASE SetTimeout
  BY <1>4 DEF SetTimeout, Moves, Go, Writing, Awaiting, wire
<1>5. CASE SetNegativeTimeout
  <2>1. Conclude("bad timeout", <<>>)
    BY <1>5 DEF SetNegativeTimeout, Finish, Leave
  <2> QED
    BY <2>1 DEF OpenEndings, Outcomes, Settling
<1>6. CASE SetTimeoutFails
  BY <1>6 DEF SetTimeoutFails, Moves, Go, Writing, Awaiting, wire
<1>7. CASE WriteTimesOut
  <2>1. Conclude("timeout", <<>>)
    BY <1>7 DEF WriteTimesOut, Finish, Leave
  <2> QED
    BY <2>1 DEF OpenEndings, Outcomes, Settling
<1>8. CASE DrainTimesOut
  <2>1. Conclude("timeout", <<>>)
    BY <1>8 DEF DrainTimesOut, Finish, Leave
  <2> QED
    BY <2>1 DEF OpenEndings, Outcomes, Settling
<1>9. CASE WriteLost
  BY <1>9 DEF WriteLost, Moves, Go, Writing, Awaiting, wire
<1>10. CASE ReadHeader
  BY <1>10 DEF ReadHeader, Moves, Go, Writing, Awaiting, wire
<1>11. CASE ReadLost
  BY <1>11 DEF ReadLost, Moves, Go, Writing, Awaiting, wire
<1>12. CASE ReadTimesOut
  <2>1. Conclude("timeout", <<>>)
    BY <1>12 DEF ReadTimesOut, Finish, Leave
  <2> QED
    BY <2>1 DEF OpenEndings, Outcomes, Settling
<1>13. CASE ReadGarbage
  <2>1. Conclude("corrupted", <<>>)
    BY <1>13 DEF ReadGarbage, Finish, Leave
  <2> QED
    BY <2>1 DEF OpenEndings, Outcomes, Settling
<1>14. CASE GiveUp
  <2>1. Conclude("lost", <<>>)
    BY <1>14 DEF GiveUp, Finish, Leave
  <2> QED
    BY <2>1 DEF OpenEndings, Outcomes, Settling
<1>15. CASE Exhaust
  <2>1. Conclude("lost", <<>>)
    BY <1>15 DEF Exhaust, MayRetry, Finish, Leave
  <2> QED
    BY <2>1 DEF OpenEndings, Outcomes, Settling
<1>16. CASE BackoffExpired
  <2>1. Conclude("timeout", <<>>)
    BY <1>16 DEF BackoffExpired, MayRetry, Finish, Leave
  <2> QED
    BY <2>1 DEF OpenEndings, Outcomes, Settling
<1>17. CASE BackoffOverflows
  <2>1. Conclude("overflow", <<>>)
    BY <1>17 DEF BackoffOverflows, MayRetry, Finish, Leave
  <2> QED
    BY <2>1 DEF OpenEndings, Outcomes, Settling
<1>18. CASE Backoff
  BY <1>18 DEF Backoff, MayRetry, Moves, Go, Writing, Awaiting, wire
<1>19. CASE WakeExpired
  <2>1. Conclude("timeout", <<>>)
    BY <1>19 DEF WakeExpired, Finish, Leave
  <2> QED
    BY <2>1 DEF OpenEndings, Outcomes, Settling
<1>20. CASE Wake
  BY <1>20 DEF Wake, Moves, Go, Writing, Awaiting, wire
<1>21. CASE Establish
  BY <1>21 DEF Establish, Renews, Quiet, Connected, progress
<1>22. CASE RedialFails
  BY <1>22 DEF RedialFails, Renews, Quiet, Closed, Go, progress
<1>23. CASE FactoryFails
  <2>1. Conclude("unreachable", <<>>)
    BY <1>23 DEF FactoryFails, Finish, Leave
  <2> QED
    BY <2>1 DEF OpenEndings, Outcomes, Settling
<1>24. CASE HandshakeFails
  <2>1. PICK o \in {"timeout", "rejected"} : Finish(o, <<>>)
    BY <1>24 DEF HandshakeFails
  <2> QED
    BY <2>1 DEF Finish, OpenEndings, Outcomes, Settling
<1>25. CASE CancelWrite
  <2>1. Conclude("cancelled", <<>>)
    BY <1>25 DEF CancelWrite, Finish, Leave
  <2> QED
    BY <2>1 DEF OpenEndings, Outcomes, Settling
<1>26. CASE CancelRead
  <2>1. Conclude("cancelled", <<>>)
    BY <1>26 DEF CancelRead, Finish, Leave
  <2> QED
    BY <2>1 DEF OpenEndings, Outcomes, Settling
<1>27. CASE CancelSleep
  <2>1. Conclude("cancelled", <<>>)
    BY <1>27 DEF CancelSleep, Finish, Leave
  <2> QED
    BY <2>1 DEF OpenEndings, Outcomes, Settling
<1>28. CASE CancelDial
  <2>1. Conclude("cancelled", <<>>)
    BY <1>28 DEF CancelDial, Finish, Leave
  <2> QED
    BY <2>1 DEF OpenEndings, Outcomes, Settling
<1> QED
  BY <1>1, <1>2, <1>3, <1>4, <1>5, <1>6, <1>7, <1>8, <1>9, <1>10, <1>11, <1>12, <1>13, <1>14, <1>15, <1>16, <1>17, <1>18, <1>19, <1>20, <1>21, <1>22, <1>23, <1>24, <1>25, <1>26, <1>27, <1>28
     DEF ClientStep, Cancel

(* What a step of a client leaves in front of the server: what was there,  *)
(* nothing, or one request of the call more.                               *)
LEMMA RequestsGrow ==
    ASSUME TypeOK, ClientStep \/ Cancel
    PROVE  \A i \in 1 .. Len(requests') :
              \/ requests'[i].call = cur
              \/ i \in 1 .. Len(requests) /\ requests'[i] = requests[i]
<1>1. requests \in Seq(Request) /\ Len(requests) \in Nat /\ cur \in Calls
  BY CurrentCall, LenProperties DEF TypeOK
<1>2. CASE requests' = requests
  BY <1>2
<1>3. CASE requests' = <<>>
  BY <1>3, EmptySeq
<1>4. ASSUME NEW w \in BOOLEAN, Put(cur, kind[cur], w)
      PROVE  \A i \in 1 .. Len(requests') :
                \/ requests'[i].call = cur
                \/ i \in 1 .. Len(requests) /\ requests'[i] = requests[i]
  <2> DEFINE x == [call |-> cur, kind |-> kind[cur], whole |-> w]
  <2>1. x \in Request /\ x.call = cur
    BY <1>1 DEF TypeOK, Request
  <2>2. requests' = requests \/ requests' = Append(requests, x)
    BY <1>4 DEF Put
  <2> HIDE DEF x
  <2> QED
    BY <1>1, <2>1, <2>2, AppendProperties
<1>5. WholeWrite => Put(cur, kind[cur], TRUE)
  BY DEF WholeWrite, Write, DrainTimesOut, CancelWrite
<1>6. WriteTimesOut => requests' = requests \/ Put(cur, kind[cur], FALSE)
  BY DEF WriteTimesOut
<1> QED
  BY <1>2, <1>3, <1>4, <1>5, <1>6, ClientTallies

-----------------------------------------------------------------------------
(* The calls before are settled, or were not.                              *)

(* How the calls before ended does not change.                             *)
LEMMA PastIsPast ==
    ASSUME TypeOK, cur \in Calls, NEW d \in Nat, d < cur,
           outcome' = outcome \/ \E o : outcome' = [outcome EXCEPT ![cur] = o]
    PROVE  \A e \in 1 .. d : outcome'[e] = outcome[e]
<1>1. outcome \in [Calls -> Outcomes]
  BY DEF TypeOK
<1>2. ASSUME NEW e \in 1 .. d
      PROVE  e \in Calls /\ e # cur
  BY WireAssumption DEF Calls
<1> QED
  BY <1>1, <1>2

(* A step of a client keeps SettledIsClean.                                *)
LEMMA ClientBooks ==
    ASSUME TypeOK, SettledIsClean, ClientStep \/ Cancel,
           UNCHANGED cur, clean' \in {clean, TRUE},
           \/ outcome' = outcome /\ pc' # "idle"
           \/ \E o \in Outcomes \ {"pending"} : outcome' = [outcome EXCEPT ![cur] = o]
    PROVE  SettledIsClean'
<1>1. cur \in Calls /\ cur \in Nat /\ cur # 0 /\ cur - 1 \in Nat /\ cur - 1 < cur
  BY CurrentCall DEF Calls
<1>2. pc' = "idle" => outcome'[cur] # "pending"
  BY <1>1 DEF TypeOK
<1>3. Promise!Settled(cur - 1)' => clean'
  <2> DEFINE d == cur - 1
  <2>1. d \in Nat /\ d < cur
    BY <1>1
  <2>2. (\A e \in 1 .. d : outcome'[e] \in Settling) => \A e \in 1 .. d : outcome[e] \in Settling
    <3>1. \A e \in 1 .. d : outcome'[e] = outcome[e]
      BY <1>1, <2>1, PastIsPast
    <3> QED
      BY <3>1
  <2> QED
    BY <1>1, <2>2 DEF SettledIsClean, Promise!Settled, Promise!Settling, Settling
<1>4. ASSUME NEW i \in 1 .. Len(requests')
      PROVE  /\ requests'[i].call <= cur
             /\ requests'[i].call < cur => ~Promise!Settled(requests[i].call)'
  <2>1. CASE requests'[i].call = cur
    BY <1>1, <2>1
  <2>2. CASE i \in 1 .. Len(requests) /\ requests'[i] = requests[i]
    <3> DEFINE d == requests[i].call
    <3>1. d <= cur /\ (d < cur => ~Promise!Settled(d)) /\ requests'[i].call = d
      BY <2>2 DEF SettledIsClean
    <3>2. requests[i] \in Request
      BY <2>2, ElementOfSeq DEF TypeOK
    <3>3. d \in Nat
      BY <3>2 DEF Request, Calls
    <3>4. d < cur => ~ \A e \in 1 .. d : outcome[e] \in Settling
      BY <3>1 DEF Promise!Settled, Promise!Settling, Settling
    <3> HIDE DEF d
    <3>5. d < cur => \A e \in 1 .. d : outcome'[e] = outcome[e]
      BY <1>1, <3>3, PastIsPast
    <3>6. d < cur => ~ \A e \in 1 .. d : outcome'[e] \in Settling
      BY <3>4, <3>5
    <3> QED
      BY <3>1, <3>6 DEF Promise!Settled, Promise!Settling, Settling
  <2> QED
    BY <2>1, <2>2, RequestsGrow
<1> QED
  BY <1>1, <1>2, <1>3, <1>4 DEF SettledIsClean

-----------------------------------------------------------------------------
(* Reading on a socket that was clean.                                     *)

(* The frames of an answer.                                                *)
LEMMA AnswerFrames ==
    ASSUME NEW c, NEW n \in 1 .. MaxParts, NEW last
    PROVE  /\ Len(Answer(c, n, last)) = n
           /\ \A i \in 1 .. n :
                 Answer(c, n, last)[i] = [call |-> c, part |-> i,
                                          tag |-> IF i = n THEN last ELSE "nxt"]
BY WireAssumption DEF Answer

(* How many parts an answer has.                                           *)
LEMMA PartsType ==
    ASSUME NEW k, NEW n \in Parts(k)
    PROVE  n \in 1 .. MaxParts /\ n \in Nat /\ (k # "inspect" => n = 1)
BY WireAssumption DEF Parts

(* What is known where a frame is read.                                    *)
LEMMA AtFrame ==
    ASSUME TypeOK, CleanTry, clean, pc = "body", inbox # <<>>
    PROVE  \E n \in Parts(kind[cur]), last \in {"ok", "err"} :
              /\ Answering(n, last) /\ ~shorn
              /\ Head(inbox) \in Frame /\ Head(inbox).call = cur
              /\ Head(inbox) = Answer(cur, n, last)[Len(body) + 1]
              /\ Head(inbox).tag = IF Len(body) + 1 = n THEN last ELSE "nxt"
              /\ Tail(inbox) \in Seq(Frame) /\ Len(Tail(inbox)) = Len(inbox) - 1
              /\ \A i \in 1 .. Len(inbox) - 1 : Tail(inbox)[i] = inbox[i + 1]
              /\ Len(inbox) \in Nat /\ Len(inbox) > 0 /\ Len(body) \in Nat /\ n \in Nat
              /\ Len(body) + 1 = n => Tail(inbox) = <<>>
<1>1. ~shorn /\ \E n \in Parts(kind[cur]), last \in {"ok", "err"} : Answering(n, last)
  BY DEF CleanTry, Awaiting, Asked
<1>2. PICK n \in Parts(kind[cur]), last \in {"ok", "err"} : Answering(n, last)
  BY <1>1
<1>3. n \in 1 .. MaxParts /\ n \in Nat
  BY <1>2, PartsType
<1>4. inbox \in Seq(Frame) /\ Len(inbox) \in Nat /\ Len(inbox) > 0 /\ Len(body) \in Nat
  BY EmptySeq, LenProperties DEF TypeOK
<1>5. /\ Head(inbox) \in Frame /\ Tail(inbox) \in Seq(Frame)
      /\ Len(Tail(inbox)) = Len(inbox) - 1
      /\ \A i \in 1 .. Len(inbox) - 1 : Tail(inbox)[i] = inbox[i + 1]
  BY <1>4, HeadTailProperties
<1>6. Head(inbox) = inbox[1]
  BY <1>4
<1>7. /\ Len(body) < n /\ Len(body) + Len(inbox) <= n
      /\ \A i \in 1 .. Len(inbox) : inbox[i] = Answer(cur, n, last)[Len(body) + i]
  BY <1>2 DEF Answering
<1>8. Head(inbox) = Answer(cur, n, last)[Len(body) + 1] /\ Len(body) + 1 \in 1 .. n
  BY <1>3, <1>4, <1>6, <1>7
<1>9. Answer(cur, n, last)[Len(body) + 1]
        = [call |-> cur, part |-> Len(body) + 1,
           tag |-> IF Len(body) + 1 = n THEN last ELSE "nxt"]
  <2>1. \A i \in 1 .. n :
           Answer(cur, n, last)[i] = [call |-> cur, part |-> i,
                                      tag |-> IF i = n THEN last ELSE "nxt"]
    BY DEF Answer
  <2> DEFINE k == Len(body) + 1
  <2>2. k \in 1 .. n
    BY <1>8
  <2> HIDE DEF k
  <2>3. Answer(cur, n, last)[k] = [call |-> cur, part |-> k,
                                   tag |-> IF k = n THEN last ELSE "nxt"]
    BY <2>1, <2>2
  <2> QED
    BY <2>3 DEF k
<1>10. Head(inbox).call = cur /\ Head(inbox).tag = IF Len(body) + 1 = n THEN last ELSE "nxt"
  BY <1>8, <1>9
<1>11. Len(body) + 1 = n => Tail(inbox) = <<>>
  <2> SUFFICES ASSUME Len(body) + 1 = n PROVE Tail(inbox) = <<>>
    OBVIOUS
  <2>1. Len(Tail(inbox)) = 0
    BY <1>3, <1>4, <1>5, <1>7
  <2> QED
    BY <1>5, <2>1, EmptySeq
<1> QED
  BY <1>1, <1>2, <1>3, <1>4, <1>5, <1>8, <1>10, <1>11

(* The last frame makes the frames taken in a whole answer.                *)
LEMMA LastFrame ==
    ASSUME TypeOK, cur \in Calls, NEW n \in Parts(kind[cur]), NEW last \in {"ok", "err"},
           Answering(n, last), Len(body) + 1 = n, NEW f \in Frame,
           f = Answer(cur, n, last)[Len(body) + 1]
    PROVE  Append(body, f) = Answer(cur, n, last)
<1> DEFINE a == Answer(cur, n, last)
<1>1. n \in 1 .. MaxParts /\ n \in Nat /\ body \in Seq(Frame) /\ Len(body) \in Nat
  BY PartsType, LenProperties DEF TypeOK
<1>2. a \in Seq(Frame) /\ Len(a) = n
  BY <1>1, AnswerType, AnswerFrames
<1>3. \A i \in 1 .. Len(body) : body[i] = a[i]
  BY DEF Answering
<1> HIDE DEF a
<1>4. /\ Append(body, f) \in Seq(Frame) /\ Len(Append(body, f)) = n
      /\ \A i \in 1 .. Len(body) : Append(body, f)[i] = body[i]
      /\ Append(body, f)[n] = f
  BY <1>1, AppendProperties
<1>5. \A i \in 1 .. n : Append(body, f)[i] = a[i]
  <2>1. ASSUME NEW i \in 1 .. n
        PROVE  Append(body, f)[i] = a[i]
    <3>1. CASE i \in 1 .. Len(body)
      BY <1>3, <1>4, <3>1
    <3>2. CASE i = n
      BY <1>4, <3>2 DEF a
    <3> QED
      BY <1>1, <3>1, <3>2
  <2> QED
    BY <2>1
<1>6. Append(body, f) = a
  BY <1>2, <1>4, <1>5, SeqEqual
<1> QED
  BY <1>6 DEF a

(* How a call that reads on a clean socket ends: with a whole answer to it *)
(* or an error the server sent for it, and nothing left.                   *)
EndsAnswered ==
    /\ pc' = "idle" /\ outcome' = [outcome EXCEPT ![cur] = "answered"]
    /\ \E n \in Parts(kind[cur]) : result' = Answer(cur, n, "ok")
    /\ applied[cur] >= 1 /\ Quiet'
EndsRefusedByServer ==
    /\ pc' = "idle" /\ outcome' = [outcome EXCEPT ![cur] = "server error"]
    /\ \E f \in Frame : result' = <<f>> /\ f.call = cur
    /\ (~ReadOnly(cur) => applied[cur] = 0) /\ Quiet'
TakesPart ==
    /\ pc' = "frame" /\ UNCHANGED <<outcome, result>> /\ ~shorn'
    /\ \E n \in Parts(kind[cur]), last \in {"ok", "err"} : Answering(n, last)'

(* Connection.send reads the whole answer of the call.                     *)
LEMMA ReadsAnswer ==
    ASSUME TypeOK, CleanTry, clean, ReadAnswer
    PROVE  EndsAnswered \/ EndsRefusedByServer
<1>1. /\ pc = "body" /\ inbox # <<>> /\ kind[cur] # "inspect" /\ cur \in Calls
      /\ inbox' = Tail(inbox) /\ UNCHANGED <<requests, shorn>>
  BY DEF ReadAnswer, TypeOK
<1>2. PICK n \in Parts(kind[cur]), last \in {"ok", "err"} :
         /\ Answering(n, last) /\ ~shorn
         /\ Head(inbox) \in Frame /\ Head(inbox).call = cur
         /\ Head(inbox) = Answer(cur, n, last)[Len(body) + 1]
         /\ Head(inbox).tag = IF Len(body) + 1 = n THEN last ELSE "nxt"
         /\ Len(body) \in Nat
         /\ Len(body) + 1 = n => Tail(inbox) = <<>>
  BY <1>1, AtFrame
<1>3. n = 1 /\ Len(body) = 0 /\ body = <<>>
  <2>1. n = 1 /\ Len(body) < n /\ body \in Seq(Frame)
    BY <1>1, <1>2, PartsType DEF Answering, TypeOK
  <2>2. Len(body) = 0
    BY <1>2, <2>1
  <2> QED
    BY <2>1, <2>2, EmptySeq
<1>4. Head(inbox).tag = last /\ Tail(inbox) = <<>>
  BY <1>2, <1>3
<1>5. Quiet'
  BY <1>1, <1>2, <1>4 DEF Quiet, Answering
<1>6. <<Head(inbox)>> = Answer(cur, n, last)
  <2>1. Append(body, Head(inbox)) = Answer(cur, n, last)
    BY <1>1, <1>2, <1>3, LastFrame
  <2> QED
    BY <1>3, <2>1
<1>7. CASE last = "ok"
  <2>1. Finish("answered", <<Head(inbox)>>)
    BY <1>4, <1>7 DEF ReadAnswer
  <2> QED
    BY <1>2, <1>5, <1>6, <1>7, <2>1 DEF Finish, Conclude, EndsAnswered, Answering
<1>8. CASE last = "err"
  <2>1. Finish("server error", <<Head(inbox)>>)
    BY <1>4, <1>8 DEF ReadAnswer
  <2> QED
    BY <1>2, <1>5, <1>8, <2>1 DEF Finish, Conclude, EndsRefusedByServer, Answering
<1> QED
  BY <1>7, <1>8

(* Connection.send_chunked takes in a part or the whole.                   *)
LEMMA ReadsPart ==
    ASSUME TypeOK, CleanTry, clean, ReadPart
    PROVE  EndsAnswered \/ EndsRefusedByServer \/ TakesPart
<1> DEFINE f == Head(inbox)
<1>1. /\ pc = "body" /\ inbox # <<>> /\ cur \in Calls
      /\ inbox' = Tail(inbox) /\ UNCHANGED <<requests, shorn>>
  BY DEF ReadPart, TypeOK
<1>2. PICK n \in Parts(kind[cur]), last \in {"ok", "err"} :
         /\ Answering(n, last) /\ ~shorn
         /\ f \in Frame /\ f.call = cur
         /\ f = Answer(cur, n, last)[Len(body) + 1]
         /\ f.tag = IF Len(body) + 1 = n THEN last ELSE "nxt"
         /\ Len(Tail(inbox)) = Len(inbox) - 1
         /\ \A i \in 1 .. Len(inbox) - 1 : Tail(inbox)[i] = inbox[i + 1]
         /\ Len(inbox) \in Nat /\ Len(inbox) > 0 /\ Len(body) \in Nat /\ n \in Nat
         /\ Len(body) + 1 = n => Tail(inbox) = <<>>
  BY <1>1, AtFrame
<1>3. body \in Seq(Frame)
  BY DEF TypeOK
<1>4. Len(body) + 1 = n => Quiet'
  BY <1>1, <1>2 DEF Quiet, Answering
<1>5. CASE Len(body) + 1 = n /\ last = "ok"
  <2>1. Finish("answered", Append(body, f))
    BY <1>2, <1>5 DEF ReadPart
  <2>2. Append(body, f) = Answer(cur, n, last)
    BY <1>1, <1>2, <1>5, LastFrame
  <2> QED
    BY <1>2, <1>4, <1>5, <2>1, <2>2 DEF Finish, Conclude, EndsAnswered, Answering
<1>6. CASE Len(body) + 1 = n /\ last = "err"
  <2>1. Finish("server error", <<f>>)
    BY <1>2, <1>6 DEF ReadPart
  <2> QED
    BY <1>2, <1>4, <1>6, <2>1 DEF Finish, Conclude, EndsRefusedByServer, Answering
<1>7. CASE Len(body) + 1 # n
  <2>1. f.tag = "nxt"
    BY <1>2, <1>7
  <2>2. /\ body' = Append(body, f) /\ pc' = "frame"
        /\ UNCHANGED <<cur, kind, outcome, result, applied>>
    BY <2>1 DEF ReadPart, Go, progress
  <2> DEFINE k == Len(body)
             m == Len(inbox)
  <2>3. /\ requests = <<>> /\ k < n /\ k + m <= n
        /\ \A i \in 1 .. k : body[i] = Answer(cur, n, last)[i]
        /\ \A i \in 1 .. m : inbox[i] = Answer(cur, n, last)[k + i]
        /\ last = "ok" => applied[cur] >= 1
        /\ last = "err" /\ ~ReadOnly(cur) => applied[cur] = 0
    BY <1>2 DEF Answering
  <2> DEFINE a == Answer(cur, n, last)
  <2>4. Answer(cur, n, last)' = a
    BY <2>2 DEF Answer
  <2>5. k \in Nat /\ m \in Nat /\ m > 0 /\ f = a[k + 1]
    BY <1>2
  <2>6. /\ Len(body') = k + 1 /\ body'[k + 1] = f /\ \A i \in 1 .. k : body'[i] = body[i]
        /\ Len(inbox') = m - 1 /\ \A i \in 1 .. m - 1 : inbox'[i] = inbox[i + 1]
    <3>1. /\ Len(body') = k + 1 /\ body'[k + 1] = f /\ \A i \in 1 .. k : body'[i] = body[i]
      BY <1>2, <1>3, <2>2, AppendProperties
    <3> QED
      BY <1>1, <1>2, <3>1
  <2> HIDE DEF a, k, m, f
  <2>7. /\ k + 1 < n /\ (k + 1) + (m - 1) <= n
    BY <1>2, <1>7, <2>3, <2>5 DEF k
  <2>8. \A i \in 1 .. k + 1 : body'[i] = a[i]
    <3>1. ASSUME NEW i \in 1 .. k + 1
          PROVE  body'[i] = a[i]
      <4>1. CASE i \in 1 .. k
        BY <2>3, <2>6, <4>1 DEF a
      <4>2. CASE i = k + 1
        BY <2>5, <2>6, <4>2
      <4> QED
        BY <2>5, <4>1, <4>2
    <3> QED
      BY <3>1
  <2>9. \A i \in 1 .. m - 1 : inbox'[i] = a[(k + 1) + i]
    <3>1. ASSUME NEW i \in 1 .. m - 1
          PROVE  inbox'[i] = a[(k + 1) + i]
      <4>1. i + 1 \in 1 .. m /\ k + (i + 1) = (k + 1) + i
        BY <2>5
      <4> QED
        BY <2>3, <2>6, <4>1 DEF a
    <3> QED
      BY <3>1
  <2>10. Answering(n, last)'
    <3>1. requests' = <<>> /\ applied'[cur'] = applied[cur] /\ (ReadOnly(cur)' <=> ReadOnly(cur))
      BY <1>1, <2>2, <2>3 DEF ReadOnly
    <3> QED
      BY <2>3, <2>4, <2>6, <2>7, <2>8, <2>9, <3>1 DEF Answering
  <2> QED
    BY <1>1, <1>2, <2>2, <2>10 DEF TakesPart
<1> QED
  BY <1>5, <1>6, <1>7

(* A request written on a clean socket is alone, or lost.                  *)
LEMMA WritesAlone ==
    ASSUME TypeOK, OnceInv, CleanTry, clean, Write
    PROVE  ~shorn' /\ (Asked' \/ Answering(1, "err")')
<1>1. /\ Put(cur, kind[cur], TRUE) /\ body' = <<>> /\ pc = "write" /\ cur \in Calls
      /\ UNCHANGED <<inbox, shorn, cur, kind, applied>>
  BY DEF Write, Go, progress, TypeOK
<1>2. requests = <<>> /\ inbox = <<>> /\ ~shorn
  BY <1>1 DEF CleanTry, Quiet
<1>3. CASE link = "up"
  <2>1. requests' = <<[call |-> cur, kind |-> kind[cur], whole |-> TRUE]>>
    BY <1>1, <1>2, <1>3 DEF Put
  <2> QED
    BY <1>1, <1>2, <2>1 DEF Asked
<1>4. CASE link # "up"
  <2>1. requests' = <<>>
    BY <1>1, <1>2, <1>4 DEF Put
  <2>2. ~ReadOnly(cur) => applied[cur] = 0
    <3>1. written[cur] \in Nat /\ applied[cur] \in Nat
      BY <1>1 DEF TypeOK
    <3>2. ~ReadOnly(cur) => written[cur] # 1
      BY <1>1 DEF OnceInv, FlagTells, Awaiting
    <3>3. ~ReadOnly(cur) => written[cur] <= 1 /\ applied[cur] <= written[cur]
      BY <1>1 DEF OnceInv, WrittenOnce
    <3> QED
      BY <3>1, <3>2, <3>3
  <2>3. Len(body') = 0 /\ Len(inbox') = 0
    BY <1>1, <1>2, EmptySeq
  <2>4. Answering(1, "err")'
    BY <1>1, <2>1, <2>2, <2>3 DEF Answering, ReadOnly
  <2> QED
    BY <1>1, <1>2, <2>4
<1> QED
  BY <1>3, <1>4

-----------------------------------------------------------------------------
(* What the steps of a client do to the invariant.                         *)

AnswerKept == CleanTry /\ OwnAnswerIfClean /\ AnsweredLeavesQuiet

(* A call that ends in a way that leaves things open promises nothing.     *)
LEMMA OpenEndingKeeps ==
    ASSUME TypeOK, cur \in Calls, NEW o \in OpenEndings, Conclude(o, <<>>)
    PROVE  AnswerKept'
<1>1. pc' = "idle" /\ cur' = cur /\ outcome' = [outcome EXCEPT ![cur] = o]
  BY DEF Conclude, progress
<1>2. outcome'[cur'] = o
  BY <1>1 DEF TypeOK
<1>3. o \notin Settling
  BY DEF OpenEndings
<1>4. CleanTry'
  BY <1>1 DEF CleanTry, Awaiting
<1>5. ~Ended("answered")' /\ ~Ended("server error")' /\ ~Ended("refused")'
  BY <1>2, <1>3 DEF Ended, Settling
<1> QED
  BY <1>4, <1>5 DEF AnswerKept, OwnAnswerIfClean, OwnAnswer, AnsweredLeavesQuiet

(* A call that goes on stays where it was with its socket,                 *)
LEMMA MovesKeeps ==
    ASSUME CleanTry, Moves
    PROVE  AnswerKept'
<1>1. UNCHANGED <<requests, inbox, shorn, cur, kind, body, applied, clean>> /\ pc' # "idle"
  BY DEF Moves, wire, progress
<1>2. \A n, last : Answering(n, last)' <=> Answering(n, last)
  BY <1>1 DEF Answering, Answer, ReadOnly
<1>3. (Asked' <=> Asked) /\ (Quiet' <=> Quiet) /\ Parts(kind[cur])' = Parts(kind[cur])
  BY <1>1 DEF Asked, Quiet, Parts
<1>4. CleanTry'
  BY <1>1, <1>2, <1>3 DEF Moves, CleanTry, Writing
<1> QED
  BY <1>1, <1>4 DEF AnswerKept, OwnAnswerIfClean, OwnAnswer, AnsweredLeavesQuiet, Ended

(* or goes on with a socket that owes nothing.                             *)
LEMMA RenewsKeeps ==
    ASSUME Renews
    PROVE  AnswerKept'
<1>1. pc' = "try" /\ Quiet'
  BY DEF Renews
<1>2. CleanTry'
  BY <1>1 DEF CleanTry, Awaiting
<1> QED
  BY <1>1, <1>2 DEF AnswerKept, OwnAnswerIfClean, OwnAnswer, AnsweredLeavesQuiet, Ended

(* A call that was answered on a clean socket has its own answer.          *)
LEMMA AnsweredKeeps ==
    ASSUME TypeOK, cur \in Calls, UNCHANGED <<cur, kind, applied, clean>>,
           EndsAnswered \/ EndsRefusedByServer
    PROVE  AnswerKept'
<1>1. pc' = "idle" /\ Quiet'
  BY DEF EndsAnswered, EndsRefusedByServer
<1>2. CleanTry'
  BY <1>1 DEF CleanTry, Awaiting
<1>3. AnsweredLeavesQuiet'
  BY <1>1 DEF AnsweredLeavesQuiet
<1>4. CASE EndsAnswered
  <2>1. PICK n \in Parts(kind[cur]) : result' = Answer(cur, n, "ok")
    BY <1>4 DEF EndsAnswered
  <2>2. n \in Parts(kind'[cur']) /\ result' = Answer(cur', n, "ok") /\ applied'[cur'] >= 1
    BY <1>4, <2>1 DEF EndsAnswered
  <2>3. OwnAnswer'
    BY <2>2 DEF OwnAnswer, Parts, Answer
  <2> QED
    BY <1>2, <1>3, <2>3 DEF AnswerKept, OwnAnswerIfClean
<1>5. CASE EndsRefusedByServer
  <2>1. outcome'[cur'] = "server error"
    BY <1>5 DEF EndsRefusedByServer, TypeOK
  <2>2. OwnAnswer'
    BY <2>1 DEF OwnAnswer, Ended
  <2> QED
    BY <1>2, <1>3, <2>2 DEF AnswerKept, OwnAnswerIfClean
<1> QED
  BY <1>4, <1>5

(* The four steps of a call that can settle it, or lead to that.           *)
Settles == Write \/ RefuseOversized \/ ReadAnswer \/ ReadPart

(* They leave the rest of the call alone.                                  *)
LEMMA SettlesFrame ==
    ASSUME TypeOK, Settles
    PROVE  /\ UNCHANGED <<cur, kind, applied, clean>> /\ pc # "idle" /\ cur \in Calls
           /\ \/ outcome' = outcome /\ pc' # "idle"
              \/ \E o \in Outcomes \ {"pending"} : outcome' = [outcome EXCEPT ![cur] = o]
<1>1. CASE Write
  BY <1>1 DEF Write, Go, progress, TypeOK
<1>2. CASE RefuseOversized
  <2>1. Finish("refused", <<>>) /\ pc = "try"
    BY <1>2 DEF RefuseOversized
  <2> QED
    BY <2>1 DEF Finish, Conclude, progress, TypeOK, Outcomes
<1>3. CASE ReadAnswer
  <2>1. PICK o \in {"answered", "server error", "corrupted"},
             frames \in {<<Head(inbox)>>, <<>>} : Finish(o, frames)
    BY <1>3 DEF ReadAnswer
  <2>2. pc = "body" /\ o \in Outcomes \ {"pending"}
    BY <1>3 DEF ReadAnswer, Outcomes
  <2> QED
    BY <2>1, <2>2 DEF Finish, Conclude, progress, TypeOK
<1>4. CASE ReadPart
  <2>1. pc = "body"
    BY <1>4 DEF ReadPart
  <2>2. \/ Go("frame")
        \/ \E o \in {"answered", "server error"},
              frames \in {Append(body, Head(inbox)), <<Head(inbox)>>} : Finish(o, frames)
    BY <1>4 DEF ReadPart
  <2>3. {"answered", "server error"} \subseteq Outcomes \ {"pending"}
    BY DEF Outcomes
  <2> QED
    BY <2>1, <2>2, <2>3 DEF Go, Finish, Conclude, progress, TypeOK
<1> QED
  BY <1>1, <1>2, <1>3, <1>4 DEF Settles

(* They keep what is known of answers.                                     *)
LEMMA SettlesKeeps ==
    ASSUME TypeOK, OnceInv, CleanTry, Settles
    PROVE  AnswerKept'
<1>1. UNCHANGED <<cur, kind, applied, clean>> /\ cur \in Calls
  BY SettlesFrame
<1>2. CASE ~clean
  BY <1>1, <1>2 DEF AnswerKept, CleanTry, OwnAnswerIfClean, AnsweredLeavesQuiet
<1>3. CASE clean /\ Write
  <2>1. pc' = "frame" /\ ~shorn' /\ (Asked' \/ Answering(1, "err")')
    BY <1>3, WritesAlone DEF Write, Go
  <2>2. 1 \in Parts(kind[cur])'
    BY WireAssumption DEF Parts
  <2>3. CleanTry'
    BY <2>1, <2>2 DEF CleanTry
  <2> QED
    BY <2>1, <2>3 DEF AnswerKept, OwnAnswerIfClean, OwnAnswer, AnsweredLeavesQuiet, Ended
<1>4. CASE clean /\ RefuseOversized
  <2>1. /\ pc = "try" /\ pc' = "idle" /\ UNCHANGED <<requests, inbox, shorn>>
        /\ outcome' = [outcome EXCEPT ![cur] = "refused"]
    BY <1>4 DEF RefuseOversized, Finish, Conclude, wire
  <2>2. Quiet'
    BY <1>4, <2>1 DEF CleanTry, Quiet
  <2>3. CleanTry'
    BY <2>1 DEF CleanTry, Awaiting
  <2>4. outcome'[cur'] = "refused"
    BY <1>1, <2>1 DEF TypeOK
  <2> QED
    BY <2>2, <2>3, <2>4 DEF AnswerKept, OwnAnswerIfClean, OwnAnswer, AnsweredLeavesQuiet, Ended
<1>5. CASE clean /\ ReadAnswer
  BY <1>1, <1>5, ReadsAnswer, AnsweredKeeps
<1>6. CASE clean /\ ReadPart
  <2>1. CASE TakesPart
    <3>1. /\ pc' = "frame" /\ ~shorn'
          /\ \E n \in Parts(kind[cur])', last \in {"ok", "err"} : Answering(n, last)'
      BY <1>1, <2>1 DEF TakesPart, Parts
    <3>2. CleanTry'
      BY <3>1 DEF CleanTry
    <3> QED
      BY <3>1, <3>2 DEF AnswerKept, OwnAnswerIfClean, OwnAnswer, AnsweredLeavesQuiet, Ended
  <2> QED
    BY <1>1, <1>6, <2>1, ReadsPart, AnsweredKeeps
<1> QED
  BY <1>2, <1>3, <1>4, <1>5, <1>6 DEF Settles

(* A step of a client keeps AnswerInv.                                     *)
LEMMA ClientAnswers ==
    ASSUME TypeOK, OnceInv, AnswerInv, ClientStep \/ Cancel
    PROVE  AnswerInv'
<1>1. cur \in Calls /\ CleanTry /\ SettledIsClean
  BY CurrentCall DEF AnswerInv
<1>2. CASE \E o \in OpenEndings : Conclude(o, <<>>)
  <2>1. PICK o \in OpenEndings : Conclude(o, <<>>)
    BY <1>2
  <2>2. AnswerKept'
    BY <1>1, <2>1, OpenEndingKeeps
  <2>3. /\ UNCHANGED <<cur, clean>> /\ outcome' = [outcome EXCEPT ![cur] = o]
        /\ o \in Outcomes \ {"pending"}
    BY <2>1 DEF Conclude, progress, OpenEndings
  <2>4. SettledIsClean'
    BY <1>1, <2>3, ClientBooks
  <2> QED
    BY <2>2, <2>4 DEF AnswerInv, AnswerKept
<1>3. CASE Moves
  <2>1. AnswerKept'
    BY <1>1, <1>3, MovesKeeps
  <2>2. UNCHANGED <<cur, clean, outcome>> /\ pc' # "idle"
    BY <1>3 DEF Moves, progress
  <2>3. SettledIsClean'
    BY <1>1, <2>2, ClientBooks
  <2> QED
    BY <2>1, <2>3 DEF AnswerInv, AnswerKept
<1>4. CASE Renews
  <2>1. AnswerKept'
    BY <1>4, RenewsKeeps
  <2>2. UNCHANGED <<cur, outcome>> /\ clean' \in {clean, TRUE} /\ pc' # "idle"
    BY <1>4 DEF Renews
  <2>3. SettledIsClean'
    BY <1>1, <2>2, ClientBooks
  <2> QED
    BY <2>1, <2>3 DEF AnswerInv, AnswerKept
<1>5. CASE Settles
  <2>1. AnswerKept'
    BY <1>1, <1>5, SettlesKeeps
  <2>2. /\ UNCHANGED <<cur, clean>>
        /\ \/ outcome' = outcome /\ pc' # "idle"
           \/ \E o \in Outcomes \ {"pending"} : outcome' = [outcome EXCEPT ![cur] = o]
    BY <1>5, SettlesFrame
  <2>3. SettledIsClean'
    BY <1>1, <2>2, ClientBooks
  <2> QED
    BY <2>1, <2>3 DEF AnswerInv, AnswerKept
<1> QED
  BY <1>2, <1>3, <1>4, <1>5, StepKinds DEF Settles

-----------------------------------------------------------------------------
(* What the steps of the server and the network do to it.                  *)

(* What is in front of the server afterwards was there before.             *)
LEMMA FromRequests ==
    ASSUME TypeOK, ServerStep
    PROVE  \A i \in 1 .. Len(requests') :
              \E j \in 1 .. Len(requests) : requests'[i] = requests[j]
<1>1. requests \in Seq(Request) /\ Len(requests) \in Nat
  BY LenProperties DEF TypeOK
<1>2. CASE Serve
  <2>1. /\ Len(requests') = Len(requests) - 1
        /\ \A i \in 1 .. Len(requests') : requests'[i] = requests[i + 1]
    BY <1>1, <1>2, HeadTailProperties DEF Serve
  <2>2. \A i \in 1 .. Len(requests') : i + 1 \in 1 .. Len(requests)
    BY <1>1, <2>1
  <2> QED
    BY <2>1, <2>2
<1>3. CASE Misread
  <2>1. /\ Len(requests') = Len(requests) - 1
        /\ \A i \in 1 .. Len(requests') :
              requests'[i] = IF i = 1 THEN requests[1] ELSE requests[i + 1]
    BY <1>3, MisreadKeeps
  <2>2. \A i \in 1 .. Len(requests') : 1 \in 1 .. Len(requests) /\ i + 1 \in 1 .. Len(requests)
    BY <1>1, <2>1
  <2> QED
    BY <2>1, <2>2
<1>4. CASE Drop
  BY <1>4, EmptySeq DEF Drop
<1> QED
  BY <1>2, <1>3, <1>4 DEF ServerStep

(* The first frames of those under way.                                    *)
LEMMA DropLeaves ==
    ASSUME TypeOK, Drop
    PROVE  /\ inbox' \in Seq(Frame) /\ Len(inbox') <= Len(inbox)
           /\ \A i \in 1 .. Len(inbox') : inbox'[i] = inbox[i]
<1>1. PICK n \in 0 .. Len(inbox) : inbox' = SubSeq(inbox, 1, n)
  BY DEF Drop
<1>2. inbox \in Seq(Frame) /\ Len(inbox) \in Nat
  BY LenProperties DEF TypeOK
<1>3. /\ SubSeq(inbox, 1, n) \in Seq(Frame) /\ Len(SubSeq(inbox, 1, n)) = n
      /\ \A i \in 1 .. n : SubSeq(inbox, 1, n)[i] = inbox[i]
  BY <1>1, <1>2, SubSeqProperties
<1> QED
  BY <1>1, <1>2, <1>3

(* Where nothing is owed nothing comes.                                    *)
LEMMA QuietStays ==
    ASSUME TypeOK, Quiet, ServerStep
    PROVE  Quiet' /\ UNCHANGED applied
<1>1. requests = <<>> /\ inbox = <<>> /\ ~shorn /\ Len(requests) = 0 /\ Len(inbox) = 0
  BY EmptySeq DEF Quiet
<1>2. Drop
  BY <1>1 DEF ServerStep, Serve, Misread
<1>3. inbox' \in Seq(Frame) /\ Len(inbox') = 0
  <2>1. inbox' \in Seq(Frame) /\ Len(inbox') <= 0 /\ Len(inbox') \in Nat
    BY <1>1, <1>2, DropLeaves, LenProperties
  <2> QED
    BY <2>1
<1>4. inbox' = <<>>
  BY <1>3, EmptySeq
<1> QED
  BY <1>1, <1>2, <1>4 DEF Drop, Quiet

(* The request of a call is answered, or lost.                             *)
LEMMA AskedIsAnswered ==
    ASSUME TypeOK, OnceInv, cur \in Calls, Asked, ServerStep, UNCHANGED <<cur, kind, body>>
    PROVE  \E n \in Parts(kind[cur])', last \in {"ok", "err"} : Answering(n, last)'
<1> DEFINE x == [call |-> cur, kind |-> kind[cur], whole |-> TRUE]
<1>1. /\ requests = <<x>> /\ Len(requests) = 1 /\ requests[1] = x /\ Head(requests) = x
      /\ Tail(requests) = <<>> /\ inbox = <<>> /\ Len(inbox) = 0
      /\ body' = <<>> /\ Len(body') = 0
  BY EmptySeq DEF Asked
<1>2. x.call = cur /\ x.kind = kind[cur] /\ x.whole
  OBVIOUS
<1> HIDE DEF x
<1>3. ~ReadOnly(cur) => applied[cur] = 0
  BY <1>1, <1>2 DEF OnceInv, UnservedOnce
<1>4. CASE Serve
  <2>1. PICK n \in Parts(kind[cur]), last \in {"ok", "err"} :
           /\ inbox' = inbox \o Answer(cur, n, last)
           /\ applied' = [applied EXCEPT ![cur] = IF last = "ok" THEN @ + 1 ELSE @]
    BY <1>1, <1>2, <1>4 DEF Serve
  <2>2. n \in 1 .. MaxParts /\ n \in Nat /\ n > 0
    BY PartsType, <2>1
  <2>3. Answer(cur, n, last) \in Seq(Frame) /\ Len(Answer(cur, n, last)) = n
    BY <2>2, AnswerType, AnswerFrames
  <2>4. inbox' = Answer(cur, n, last)
    BY <1>1, <2>1, <2>3, ConcatEmptySeq
  <2>5. requests' = <<>> /\ Answer(cur, n, last)' = Answer(cur, n, last)
    BY <1>1, <1>4 DEF Serve, Answer
  <2>6. applied[cur] \in Nat /\ applied'[cur] = IF last = "ok" THEN applied[cur] + 1 ELSE applied[cur]
    BY <2>1 DEF TypeOK
  <2>7. /\ last = "ok" => applied'[cur] >= 1
        /\ last = "err" /\ ~ReadOnly(cur) => applied'[cur] = 0
    BY <1>3, <2>6
  <2>8. /\ Len(body') < n /\ Len(body') + Len(inbox') <= n
        /\ \A i \in 1 .. Len(inbox') : inbox'[i] = Answer(cur, n, last)[Len(body') + i]
    BY <1>1, <2>2, <2>3, <2>4
  <2>9. \A i \in 1 .. Len(body') : body'[i] = Answer(cur, n, last)[i]
    BY <1>1
  <2>10. Answering(n, last)'
    BY <2>5, <2>7, <2>8, <2>9 DEF Answering, ReadOnly
  <2> QED
    BY <2>10 DEF Parts
<1>5. CASE Drop
  <2>1. inbox' \in Seq(Frame) /\ Len(inbox') <= 0 /\ Len(inbox') \in Nat
    BY <1>1, <1>5, DropLeaves, LenProperties
  <2>2. Len(inbox') = 0 /\ requests' = <<>> /\ UNCHANGED applied
    BY <1>5, <2>1 DEF Drop
  <2>3. /\ Len(body') < 1 /\ Len(body') + Len(inbox') <= 1
        /\ \A i \in 1 .. Len(inbox') : inbox'[i] = Answer(cur, 1, "err")'[Len(body') + i]
        /\ \A i \in 1 .. Len(body') : body'[i] = Answer(cur, 1, "err")'[i]
    BY <1>1, <2>2
  <2>4. Answering(1, "err")'
    BY <1>3, <2>2, <2>3 DEF Answering, ReadOnly
  <2>5. 1 \in Parts(kind[cur])'
    BY WireAssumption DEF Parts
  <2> QED
    BY <2>4, <2>5
<1>6. ~Misread
  BY <1>1 DEF Misread
<1> QED
  BY <1>4, <1>5, <1>6 DEF ServerStep

(* The answer of a call stays under way, or is cut off.                    *)
LEMMA AnsweringStays ==
    ASSUME TypeOK, NEW n \in Nat, NEW last, Answering(n, last), ServerStep,
           UNCHANGED <<cur, kind, body>>
    PROVE  Answering(n, last)'
<1>1. requests = <<>> /\ Len(requests) = 0
  BY EmptySeq DEF Answering
<1>2. Drop
  BY <1>1 DEF ServerStep, Serve, Misread
<1>3. requests' = <<>> /\ UNCHANGED applied /\ Answer(cur, n, last)' = Answer(cur, n, last)
  BY <1>2 DEF Drop, Answer
<1>4. /\ Len(inbox') \in Nat /\ Len(inbox') <= Len(inbox) /\ Len(inbox) \in Nat /\ Len(body) \in Nat
      /\ \A i \in 1 .. Len(inbox') : inbox'[i] = inbox[i]
  BY <1>2, DropLeaves, LenProperties DEF TypeOK
<1>5. /\ Len(body) + Len(inbox) <= n
      /\ \A i \in 1 .. Len(inbox) : inbox[i] = Answer(cur, n, last)[Len(body) + i]
  BY DEF Answering
<1>6. /\ Len(body) + Len(inbox') <= n
      /\ \A i \in 1 .. Len(inbox') : inbox'[i] = Answer(cur, n, last)[Len(body) + i]
  BY <1>4, <1>5
<1> QED
  BY <1>3, <1>6 DEF Answering, ReadOnly

(* A step of the server or the network keeps AnswerInv.                    *)
LEMMA ServerAnswers ==
    ASSUME TypeOK, OnceInv, AnswerInv, Environment
    PROVE  AnswerInv'
<1>1. /\ ServerStep /\ UNCHANGED shorn
      /\ UNCHANGED <<pc, cur, kind, body, outcome, result, clean>>
  BY DEF Environment, ServerStep, Serve, Misread, Drop
<1>2. Quiet => Quiet' /\ UNCHANGED applied
  BY <1>1, QuietStays
<1>3. CleanTry'
  <2> SUFFICES ASSUME clean
               PROVE  /\ pc \in {"try", "arm write", "write"} => Quiet'
                      /\ pc \in Awaiting =>
                            ~shorn' /\ (Asked' \/ \E n \in Parts(kind[cur])',
                                          last \in {"ok", "err"} : Answering(n, last)')
    BY <1>1 DEF CleanTry
  <2>1. pc \in {"try", "arm write", "write"} => Quiet'
    BY <1>2 DEF AnswerInv, CleanTry
  <2>2. ASSUME pc \in Awaiting
        PROVE  ~shorn' /\ (Asked' \/ \E n \in Parts(kind[cur])',
                             last \in {"ok", "err"} : Answering(n, last)')
    <3>1. /\ ~shorn /\ cur \in Calls
          /\ Asked \/ \E n \in Parts(kind[cur]), last \in {"ok", "err"} : Answering(n, last)
      BY <2>2 DEF AnswerInv, CleanTry, TypeOK, Awaiting
    <3>2. CASE Asked
      BY <1>1, <3>1, <3>2, AskedIsAnswered
    <3>3. CASE \E n \in Parts(kind[cur]), last \in {"ok", "err"} : Answering(n, last)
      <4>1. PICK n \in Parts(kind[cur]), last \in {"ok", "err"} : Answering(n, last)
        BY <3>3
      <4>2. n \in Parts(kind[cur])'
        BY <1>1, <4>1 DEF Parts
      <4>3. n \in Nat
        BY <4>1, PartsType
      <4>4. Answering(n, last)'
        BY <1>1, <4>1, <4>3, AnsweringStays
      <4> QED
        BY <1>1, <3>1, <4>2, <4>4
    <3> QED
      BY <3>1, <3>2, <3>3
  <2> QED
    BY <2>1, <2>2
<1>4. AnsweredLeavesQuiet'
  BY <1>1, <1>2 DEF AnswerInv, AnsweredLeavesQuiet, Ended
<1>5. OwnAnswerIfClean'
  <2> SUFFICES ASSUME clean, Ended("answered")
               PROVE  OwnAnswer'
    BY <1>1 DEF OwnAnswerIfClean, OwnAnswer, Ended
  <2>1. UNCHANGED applied
    BY <1>2 DEF AnswerInv, AnsweredLeavesQuiet
  <2>2. OwnAnswer
    BY DEF AnswerInv, OwnAnswerIfClean
  <2> QED
    BY <1>1, <2>1, <2>2 DEF OwnAnswer, Ended, Parts, Answer
<1>6. SettledIsClean'
  <2>1. ASSUME NEW i \in 1 .. Len(requests')
        PROVE  /\ requests'[i].call <= cur
               /\ requests'[i].call < cur => ~Promise!Settled(requests[i].call)'
    <3>1. PICK j \in 1 .. Len(requests) : requests'[i] = requests[j]
      BY <1>1, FromRequests
    <3>2. /\ requests[j].call <= cur
          /\ requests[j].call < cur => ~Promise!Settled(requests[j].call)
      BY DEF AnswerInv, SettledIsClean
    <3> QED
      BY <1>1, <3>1, <3>2 DEF Promise!Settled
  <2> QED
    BY <1>1, <1>2, <2>1 DEF AnswerInv, SettledIsClean, Promise!Settled
<1> QED
  BY <1>3, <1>4, <1>5, <1>6 DEF AnswerInv

-----------------------------------------------------------------------------
(* The invariant.                                                          *)

(* When every call made so far was settled the socket owes nothing.        *)
LEMMA SettledIsQuiet ==
    ASSUME TypeOK, AnswerInv, pc = "idle", Promise!Settled(cur)
    PROVE  Quiet
<1>1. CASE cur = 0
  BY <1>1 DEF AnswerInv, SettledIsClean
<1>2. CASE cur # 0
  <2>1. cur \in 1 .. cur /\ cur \in Nat /\ \A d \in 1 .. cur - 1 : d \in 1 .. cur
    BY <1>2 DEF TypeOK
  <2>2. outcome[cur] \in Settling /\ Promise!Settled(cur - 1)
    BY <2>1 DEF Promise!Settled, Promise!Settling, Settling
  <2>3. clean
    BY <1>2, <2>2 DEF AnswerInv, SettledIsClean
  <2>4. Ended("answered") \/ Ended("server error") \/ Ended("refused")
    BY <1>2, <2>2 DEF Ended, Settling
  <2> QED
    BY <2>3, <2>4 DEF AnswerInv, AnsweredLeavesQuiet
<1> QED
  BY <1>1, <1>2

(* A new call keeps AnswerInv.                                             *)
LEMMA BeginAnswers ==
    ASSUME TypeOK, AnswerInv, Begin
    PROVE  AnswerInv'
<1>1. /\ pc = "idle" /\ pc' \in {"try", "factory"} /\ cur' = cur + 1 /\ clean' = Quiet
      /\ UNCHANGED <<requests, inbox, shorn, outcome>>
  BY DEF Begin, wire
<1>2. cur \in Nat /\ cur' # 0 /\ cur' - 1 = cur
  BY <1>1 DEF TypeOK
<1>3. CleanTry'
  BY <1>1 DEF CleanTry, Awaiting, Quiet
<1>4. OwnAnswerIfClean' /\ AnsweredLeavesQuiet'
  BY <1>1 DEF OwnAnswerIfClean, OwnAnswer, AnsweredLeavesQuiet, Ended
<1>5. Promise!Settled(cur) => Quiet
  BY <1>1, SettledIsQuiet
<1>6. Promise!Settled(cur - 1)' => clean'
  BY <1>1, <1>2, <1>5 DEF Promise!Settled
<1>7. ASSUME NEW i \in 1 .. Len(requests)
      PROVE  /\ requests[i].call <= cur + 1
             /\ requests[i].call < cur + 1 => ~Promise!Settled(requests[i].call)
  <2>1. requests[i] \in Request
    BY ElementOfSeq DEF TypeOK
  <2>2. requests[i].call \in Nat
    BY <2>1 DEF Request, Calls
  <2>3. requests # <<>>
    BY EmptySeq
  <2>4. ~Promise!Settled(cur)
    BY <1>5, <2>3 DEF Quiet
  <2>5. /\ requests[i].call <= cur
        /\ requests[i].call < cur => ~Promise!Settled(requests[i].call)
    BY DEF AnswerInv, SettledIsClean
  <2>6. requests[i].call = cur \/ requests[i].call < cur
    BY <1>2, <2>2, <2>5
  <2> QED
    BY <1>2, <2>2, <2>4, <2>5, <2>6
<1>8. SettledIsClean'
  BY <1>1, <1>2, <1>6, <1>7 DEF SettledIsClean, Promise!Settled
<1> QED
  BY <1>3, <1>4, <1>8 DEF AnswerInv

(* Every step keeps AnswerInv.                                             *)
LEMMA AnswerStep ==
    ASSUME TypeOK, OnceInv, AnswerInv, [Next]_vars
    PROVE  AnswerInv'
<1>1. CASE Tick \/ Stop \/ UNCHANGED vars
  <2>1. UNCHANGED <<wire, applied, pc, cur, kind, body, outcome, result, clean>>
    BY <1>1 DEF Tick, Stop, vars, wire
  <2>2. UNCHANGED <<requests, inbox, shorn>>
    BY <2>1 DEF wire
  <2>3. \A n, last : Answering(n, last)' <=> Answering(n, last)
    BY <2>1, <2>2 DEF Answering, Answer, ReadOnly
  <2>4. (Asked' <=> Asked) /\ (Quiet' <=> Quiet) /\ Parts(kind[cur])' = Parts(kind[cur])
    BY <2>1, <2>2 DEF Asked, Quiet, Parts
  <2>5. CleanTry'
    BY <2>1, <2>2, <2>3, <2>4 DEF AnswerInv, CleanTry
  <2>6. OwnAnswerIfClean' /\ AnsweredLeavesQuiet'
    BY <2>1, <2>4
       DEF AnswerInv, OwnAnswerIfClean, OwnAnswer, AnsweredLeavesQuiet, Ended, Answer
  <2>7. SettledIsClean'
    BY <2>1, <2>2, <2>4 DEF AnswerInv, SettledIsClean, Promise!Settled
  <2> QED
    BY <2>5, <2>6, <2>7 DEF AnswerInv
<1> QED
  BY <1>1, BeginAnswers, ClientAnswers, ServerAnswers DEF Next

(* AnswerInv holds of every behaviour.                                     *)
LEMMA AnswerInvariant == Spec => [](TypeOK /\ OnceInv /\ AnswerInv)
<1>1. Init => AnswerInv
  <2> SUFFICES ASSUME Init PROVE AnswerInv
    OBVIOUS
  <2>1. pc = "idle" /\ cur = 0 /\ Quiet /\ requests = <<>> /\ Len(requests) = 0
    BY EmptySeq DEF Init, Quiet
  <2>2. CleanTry /\ AnsweredLeavesQuiet
    BY <2>1 DEF CleanTry, AnsweredLeavesQuiet, Awaiting
  <2>3. OwnAnswerIfClean
    BY <2>1 DEF OwnAnswerIfClean, OwnAnswer, Ended
  <2>4. SettledIsClean
    BY <2>1 DEF SettledIsClean
  <2> QED
    BY <2>2, <2>3, <2>4 DEF AnswerInv
<1>2. TypeOK /\ OnceInv /\ AnswerInv /\ [Next]_vars => AnswerInv'
  BY AnswerStep
<1> QED
  BY <1>1, <1>2, OnceInvariant, PTL DEF Spec

(* On a socket that owed no earlier call an answer, the frames that a call *)
(* decodes are one whole answer to this call and from one try, in as many  *)
(* parts as there may be, and the server carried the call out: send and    *)
(* send_chunked match answers by nothing but their order.                  *)
THEOREM AnswersAreOwn == Spec => []OwnAnswerIfClean
<1>1. AnswerInv => OwnAnswerIfClean
  BY DEF AnswerInv
<1> QED
  BY <1>1, AnswerInvariant, PTL

(* ... and when the call was answered or refused it gives back a socket    *)
(* that owes nothing, so the next call finds it clean.                     *)
THEOREM AnswersLeaveQuiet == Spec => []AnsweredLeavesQuiet
<1>1. AnswerInv => AnsweredLeavesQuiet
  BY DEF AnswerInv
<1> QED
  BY <1>1, AnswerInvariant, PTL

-----------------------------------------------------------------------------
(* FqCall implements FqPromise: a call begins, is carried out and ends;    *)
(* every other step is a stutter.                                          *)

(* A call is under way in the promise when it is here.                     *)
LEMMA SameIdle ==
    ASSUME TypeOK, OnceInv, AnswerInv
    PROVE  Promise!Idle <=> pc = "idle"
<1>1. pc = "idle" => Promise!Idle
  BY DEF AnswerInv, SettledIsClean, Promise!Idle
<1>2. pc # "idle" => ~Promise!Idle
  <2>1. pc # "idle" => cur \in Calls /\ outcome[cur] = "pending"
    BY DEF TypeOK, OnceInv, FutureUntouched
  <2> QED
    BY <2>1 DEF Promise!Idle, Calls
<1> QED
  BY <1>1, <1>2

(* The frames of an answer to the call name no other.                      *)
LEMMA ReturnsOwn ==
    ASSUME TypeOK, EndsAnswered \/ EndsRefusedByServer
    PROVE  {result'[i].call : i \in DOMAIN result'} = {cur}
<1>1. CASE EndsAnswered
  <2>1. PICK n \in Parts(kind[cur]) : result' = Answer(cur, n, "ok")
    BY <1>1 DEF EndsAnswered
  <2>2. n \in Nat /\ n \in 1 .. MaxParts
    BY <2>1, PartsType
  <2>3. DOMAIN result' = 1 .. n /\ 1 \in 1 .. n /\ \A i \in 1 .. n : result'[i].call = cur
    BY <2>1, <2>2 DEF Answer
  <2> QED
    BY <2>3
<1>2. CASE EndsRefusedByServer
  <2>1. PICK f \in Frame : result' = <<f>> /\ f.call = cur
    BY <1>2 DEF EndsRefusedByServer
  <2>2. DOMAIN result' = {1} /\ result'[1].call = cur
    BY <2>1
  <2> QED
    BY <2>2
<1> QED
  BY <1>1, <1>2

(* Zero is the number of no call.                                          *)
LEMMA NoCallIsZero == \A c \in Calls : c \in Nat /\ c # NoCall
BY WireAssumption DEF Calls, NoCall

(* A call that ends, ends in the promise.                                  *)
LEMMA EndsAsPromised ==
    ASSUME TypeOK, TypeOK', OnceInv, OnceInv', AnswerInv, cur \in Calls, pc # "idle",
           UNCHANGED <<kind, cur, applied>>,
           NEW o \in Outcomes \ {"pending"}, outcome' = [outcome EXCEPT ![cur] = o],
           o \in {"answered", "server error"} /\ clean => EndsAnswered \/ EndsRefusedByServer
    PROVE  Promise!End
<1> DEFINE answers == {result'[i].call : i \in DOMAIN result'}
<1>1. outcome'[cur] = o /\ o \in Promise!Endings
  BY DEF TypeOK, Outcomes, Promise!Endings, Promise!Settling, Promise!Unsent
<1>2. answers \in SUBSET (Calls \cup {0})
  <2>1. result' \in Seq(Frame)
    BY DEF TypeOK
  <2>2. DOMAIN result' = 1 .. Len(result')
    BY <2>1, LenProperties
  <2>3. \A i \in DOMAIN result' : result'[i] \in Frame
    BY <2>1, <2>2, ElementOfSeq
  <2> QED
    BY <2>3 DEF Frame, NoCall
<1>3. Promise!Settled(cur - 1) => clean
  <2>1. cur # 0
    BY NoCallIsZero DEF NoCall
  <2> QED
    BY <2>1 DEF AnswerInv, SettledIsClean
<1>4. ASSUME o \in {"answered", "server error"}, Promise!Settled(cur - 1)
      PROVE  /\ answers = {cur}
             /\ o = "answered" => applied[cur] > 0
             /\ o = "server error" /\ kind[cur] = "mutating" => applied[cur] = 0
  <2>1. EndsAnswered \/ EndsRefusedByServer
    BY <1>3, <1>4
  <2>2. answers = {cur}
    BY <2>1, ReturnsOwn
  <2>3. o = "answered" => EndsAnswered
    BY <1>1, <2>1 DEF EndsRefusedByServer, TypeOK
  <2>4. o = "server error" => EndsRefusedByServer
    BY <1>1, <2>1 DEF EndsAnswered, TypeOK
  <2>5. o = "answered" => applied[cur] > 0
    <3>1. applied[cur] \in Nat
      BY DEF TypeOK
    <3>2. o = "answered" => applied[cur] >= 1
      BY <2>3 DEF EndsAnswered
    <3> QED
      BY <3>1, <3>2
  <2>6. o = "server error" /\ kind[cur] = "mutating" => applied[cur] = 0
    BY <2>4 DEF EndsRefusedByServer, ReadOnly
  <2> QED
    BY <2>2, <2>5, <2>6
<1>5. o \in Promise!Unsent /\ kind[cur] = "mutating" => applied[cur] = 0
  <2>1. FailedUnsent'
    BY DEF OnceInv
  <2> QED
    BY <1>1, <2>1 DEF FailedUnsent, ReadOnly, Promise!Unsent
<1>6. ~Promise!Idle
  BY SameIdle
<1> QED
  BY <1>1, <1>2, <1>4, <1>5, <1>6
     DEF Promise!End, Promise!Mutating, Promise!Calls, Calls

(* The server carries out no call it may not.                              *)
LEMMA ServesAsPromised ==
    ASSUME TypeOK, OnceInv, AnswerInv, Environment
    PROVE  (\E c \in Promise!Calls : Promise!CarryOut(c)) \/ UNCHANGED Promise!vars
<1>1. ServerStep /\ UNCHANGED <<kind, cur, outcome, result, pc>>
  BY DEF Environment
<1>2. CASE UNCHANGED applied
  BY <1>1, <1>2 DEF Promise!vars
<1>3. CASE Serve
  <2> DEFINE c == Head(requests).call
  <2>1. requests # <<>> /\ Len(requests) \in Nat \ {0} /\ Head(requests) = requests[1]
        /\ requests[1].whole /\ 1 \in 1 .. Len(requests)
    BY <1>3, EmptySeq, LenProperties DEF Serve, TypeOK
  <2>2. Head(requests) \in Request
    BY <2>1, ElementOfSeq DEF TypeOK
  <2>3. c \in Calls /\ c \in Nat /\ cur \in Nat
    BY <2>2 DEF Request, Calls, TypeOK
  <2>4. PICK last \in {"ok", "err"} :
           applied' = [applied EXCEPT ![c] = IF last = "ok" THEN @ + 1 ELSE @]
    BY <1>3 DEF Serve
  <2>5. c <= cur /\ (c < cur => ~Promise!Settled(c))
    BY <2>1 DEF AnswerInv, SettledIsClean
  <2>6. kind[c] = "mutating" => written[c] = 1 /\ applied[c] = 0
    BY <2>1 DEF OnceInv, UnservedOnce, ReadOnly
  <2> HIDE DEF c
  <2>7. c = cur => ~Promise!Settled(c)
    <3>1. pc = "idle" => ~Promise!Settled(cur)
      BY <2>1, SettledIsQuiet DEF Quiet
    <3>2. pc # "idle" => ~Promise!Settled(cur)
      <4>1. pc # "idle" => cur \in 1 .. cur /\ outcome[cur] = "pending"
        BY DEF TypeOK, OnceInv, FutureUntouched, Calls
      <4> QED
        BY <4>1 DEF Promise!Settled, Promise!Settling
    <3> QED
      BY <3>1, <3>2
  <2>8. kind[c] = "mutating" => outcome[c] \notin Promise!Unsent
    BY <2>3, <2>6 DEF OnceInv, FailedUnsent, ReadOnly, Promise!Unsent
  <2>9. ~Promise!Settled(c)
    BY <2>3, <2>5, <2>7
  <2>10. CASE last = "ok"
    <3>1. applied' = [applied EXCEPT ![c] = @ + 1]
      BY <2>4, <2>10
    <3>2. Promise!CarryOut(c)
      BY <1>1, <2>5, <2>6, <2>8, <2>9, <3>1 DEF Promise!CarryOut, Promise!Mutating
    <3> QED
      BY <2>3, <3>2 DEF Promise!Calls, Calls
  <2>11. CASE last # "ok"
    <3>1. applied' = applied
      BY <2>3, <2>4, <2>11 DEF TypeOK
    <3> QED
      BY <1>2, <3>1
  <2> QED
    BY <2>10, <2>11
<1> QED
  BY <1>1, <1>2, <1>3 DEF ServerStep, Misread, Drop

(* A step of a client ends its call in the promise, or does nothing there. *)
LEMMA ClientAsPromised ==
    ASSUME TypeOK, TypeOK', OnceInv, OnceInv', AnswerInv, ClientStep \/ Cancel
    PROVE  Promise!End \/ UNCHANGED Promise!vars
<1>1. cur \in Calls /\ CleanTry /\ UNCHANGED <<kind, cur, applied>>
  BY CurrentCall, ClientTallies DEF AnswerInv
<1>2. pc # "idle"
  BY DEF ClientStep, MayRetry, RefuseOversized, RequireSocket, CheckExpired, CheckPasses,
         SetTimeout, SetNegativeTimeout, SetTimeoutFails, Write,
         WriteTimesOut, WriteLost, ReadHeader, ReadLost,
         ReadTimesOut, ReadGarbage, ReadAnswer, ReadPart, GiveUp,
         Exhaust, BackoffExpired, BackoffOverflows, Backoff,
         WakeExpired, Wake, Establish, RedialFails, FactoryFails,
         HandshakeFails, DrainTimesOut, Cancel, CancelWrite, CancelRead,
         CancelSleep, CancelDial
<1>3. CASE \E o \in OpenEndings : Conclude(o, <<>>)
  <2>1. PICK o \in OpenEndings : Conclude(o, <<>>)
    BY <1>3
  <2>2. /\ outcome' = [outcome EXCEPT ![cur] = o] /\ o \in Outcomes \ {"pending"}
        /\ o \notin {"answered", "server error"}
    BY <2>1 DEF Conclude, OpenEndings, Settling
  <2> QED
    BY <1>1, <1>2, <2>2, EndsAsPromised
<1>4. CASE Moves \/ Renews
  BY <1>1, <1>4 DEF Moves, Renews, Promise!vars
<1>5. CASE Settles
  <2>1. CASE Write
    BY <1>1, <2>1 DEF Write, Go, Promise!vars
  <2>2. CASE RefuseOversized
    <3>1. outcome' = [outcome EXCEPT ![cur] = "refused"]
      BY <2>2 DEF RefuseOversized, Finish, Conclude
    <3>2. "refused" \in Outcomes \ {"pending"} /\ "refused" \notin {"answered", "server error"}
      BY DEF Outcomes
    <3> QED
      BY <1>1, <1>2, <3>1, <3>2, EndsAsPromised
  <2>3. CASE ReadAnswer
    <3>1. PICK o \in {"answered", "server error", "corrupted"} :
             outcome' = [outcome EXCEPT ![cur] = o]
      BY <2>3 DEF ReadAnswer, Finish, Conclude
    <3>2. o \in Outcomes \ {"pending"}
      BY DEF Outcomes
    <3>3. clean => EndsAnswered \/ EndsRefusedByServer
      BY <1>1, <2>3, ReadsAnswer
    <3> QED
      BY <1>1, <1>2, <3>1, <3>2, <3>3, EndsAsPromised
  <2>4. CASE ReadPart
    <3>1. \/ Go("frame")
          \/ \E o \in {"answered", "server error"} :
                outcome' = [outcome EXCEPT ![cur] = o] /\ pc' = "idle"
      BY <2>4 DEF ReadPart, Finish, Conclude
    <3>2. CASE Go("frame")
      BY <1>1, <3>2 DEF Go, Promise!vars
    <3>3. ASSUME NEW o \in {"answered", "server error"},
                 outcome' = [outcome EXCEPT ![cur] = o], pc' = "idle"
          PROVE  Promise!End
      <4>1. o \in Outcomes \ {"pending"}
        BY DEF Outcomes
      <4>2. clean => EndsAnswered \/ EndsRefusedByServer
        BY <1>1, <2>4, <3>3, ReadsPart DEF TakesPart
      <4> QED
        BY <1>1, <1>2, <3>3, <4>1, <4>2, EndsAsPromised
    <3> QED
      BY <3>1, <3>2, <3>3
  <2> QED
    BY <1>5, <2>1, <2>2, <2>3, <2>4 DEF Settles
<1> QED
  BY <1>3, <1>4, <1>5, StepKinds DEF Settles

(* Every step of FqCall is a step of FqPromise or a stutter.               *)
LEMMA StepAsPromised ==
    ASSUME TypeOK, TypeOK', OnceInv, OnceInv', AnswerInv, [Next]_vars
    PROVE  [Promise!Next]_(Promise!vars)
<1>1. CASE Begin
  <2>1. /\ pc = "idle" /\ cur < MaxCalls /\ cur' = cur + 1
        /\ UNCHANGED <<kind, outcome, applied, result>>
    BY <1>1 DEF Begin
  <2>2. Promise!Begin
    BY <2>1, SameIdle DEF Promise!Begin
  <2> QED
    BY <2>2 DEF Promise!Next
<1>2. CASE Tick \/ Stop \/ UNCHANGED vars
  BY <1>2 DEF Tick, Stop, vars, Promise!vars
<1>3. CASE ClientStep \/ Cancel
  BY <1>3, ClientAsPromised DEF Promise!Next
<1>4. CASE Environment
  BY <1>4, ServesAsPromised DEF Promise!Next
<1> QED
  BY <1>1, <1>2, <1>3, <1>4 DEF Next

(* However often connections break, deadlines run out and tasks are        *)
(* cancelled, a caller may rely on FqPromise: a mutating command that may  *)
(* have been sent is carried out once at most, even late, and never after  *)
(* an error that says it was not sent; and as long as all calls were       *)
(* answered or refused every answer is the call's own.                     *)
THEOREM CallsKeepTheirPromise == Spec => KeepsPromise
<1>1. Init => Promise!Init
  <2> SUFFICES ASSUME Init PROVE Promise!Init
    OBVIOUS
  <2>1. {result[i].call : i \in DOMAIN result} = {}
    BY DEF Init
  <2> QED
    BY <2>1 DEF Init, Promise!Init, Promise!Calls, Calls, Kinds
<1>2. /\ TypeOK /\ OnceInv /\ AnswerInv /\ [Next]_vars
      /\ TypeOK' /\ OnceInv'
      => [Promise!Next]_(Promise!vars)
  BY StepAsPromised
<1> QED
  BY <1>1, <1>2, AnswerInvariant, PTL DEF Spec, KeepsPromise, Promise!Spec
=============================================================================

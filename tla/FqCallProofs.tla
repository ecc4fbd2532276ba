---------------------------- MODULE FqCallProofs ----------------------------
(***************************************************************************)
(* Theorems about FqCall for any number of calls, any size of answers and  *)
(* any reconnection policy.                                                *)
(***************************************************************************)
EXTENDS FqCall, SequenceTheorems, TLAPS

(* One element makes a sequence.                                          *)
LEMMA OneElementSeq ==
    ASSUME NEW S, NEW x \in S
    PROVE  <<x>> \in Seq(S)
OBVIOUS

(* The answer to any call is a sequence of frames.                         *)
LEMMA AnswerType ==
    ASSUME NEW c \in Calls \cup {NoCall}, NEW n \in 1 .. MaxParts,
           NEW last \in {"ok", "err"}
    PROVE  Answer(c, n, last) \in Seq(Frame)
<1>1. \A i \in 1 .. n : [call |-> c, part |-> i,
                         tag |-> IF i = n THEN last ELSE "nxt"] \in Frame
  BY WireAssumption DEF Frame, Tags
<1>2. Answer(c, n, last) \in [1 .. n -> Frame]
  BY <1>1 DEF Answer
<1> QED
  BY <1>2, WireAssumption

(* A reader out of step leaves a suffix of the frames it found.            *)
LEMMA SwallowType ==
    ASSUME TypeOK, Swallow
    PROVE  inbox' \in Seq(Frame) /\ shorn' \in BOOLEAN
<1>1. PICK n \in 0 .. Len(inbox) : inbox' = SubSeq(inbox, n + 1, Len(inbox))
  BY DEF Swallow
<1>2. inbox' \in Seq(Frame)
  BY <1>1, SubSeqProperties, LenProperties DEF TypeOK
<1> QED
  BY <1>2 DEF Swallow

(* Handing a request to the kernel keeps the type of the request queue.    *)
LEMMA PutType ==
    ASSUME TypeOK, cur \in Calls, NEW whole \in BOOLEAN, Put(cur, kind[cur], whole)
    PROVE  requests' \in Seq(Request)
<1>1. [call |-> cur, kind |-> kind[cur], whole |-> whole] \in Request
  BY DEF TypeOK, Request
<1> QED
  BY <1>1 DEF TypeOK, Put

(* A misread request is taken out from behind the one that was cut short.  *)
LEMMA MisreadKeeps ==
    ASSUME TypeOK, Misread
    PROVE  /\ requests' \in Seq(Request)
           /\ Len(requests') = Len(requests) - 1
           /\ \A i \in 1 .. Len(requests') :
                 requests'[i] = IF i = 1 THEN requests[1] ELSE requests[i + 1]
<1> DEFINE rest == Tail(requests)
<1>1. Len(requests) \in Nat /\ Len(requests) >= 2 /\ requests # <<>>
  BY LenProperties, EmptySeq DEF TypeOK, Misread
<1>2. /\ rest \in Seq(Request) /\ Len(rest) = Len(requests) - 1
      /\ \A i \in 1 .. Len(rest) : rest[i] = requests[i + 1]
      /\ Head(requests) \in Request
  BY <1>1, HeadTailProperties DEF TypeOK
<1> HIDE DEF rest
<1>3. rest # <<>>
  <2>1. Len(rest) # 0
    BY <1>1, <1>2
  <2> QED
    BY <2>1, EmptySeq
<1>4. /\ Tail(rest) \in Seq(Request) /\ Len(Tail(rest)) = Len(rest) - 1
      /\ \A i \in 1 .. Len(Tail(rest)) : Tail(rest)[i] = rest[i + 1]
  BY <1>2, <1>3, HeadTailProperties
<1>5. <<Head(requests)>> \in Seq(Request) /\ Len(<<Head(requests)>>) = 1
      /\ Head(requests) = requests[1]
  BY <1>1, <1>2 DEF TypeOK
<1>6. requests' = <<Head(requests)>> \o Tail(rest)
  BY DEF Misread, rest
<1>7. /\ requests' \in Seq(Request)
      /\ Len(requests') = 1 + Len(Tail(rest))
      /\ \A i \in 1 .. 1 + Len(Tail(rest)) :
            requests'[i] = IF i <= 1 THEN <<Head(requests)>>[i] ELSE Tail(rest)[i - 1]
  BY <1>4, <1>5, <1>6, ConcatProperties
<1>8. \A i \in 2 .. 1 + Len(Tail(rest)) : Tail(rest)[i - 1] = requests[i + 1]
  BY <1>1, <1>2, <1>4
<1>9. Len(Tail(rest)) = Len(requests) - 2 /\ <<Head(requests)>>[1] = requests[1]
  BY <1>1, <1>2, <1>4, <1>5
<1>10. Len(requests') = Len(requests) - 1
  BY <1>1, <1>7, <1>9
<1>11. \A i \in 1 .. Len(requests') :
          requests'[i] = IF i = 1 THEN requests[1] ELSE requests[i + 1]
  <2> TAKE i \in 1 .. Len(requests')
  <2>1. i \in 1 .. 1 + Len(Tail(rest))
    BY <1>7
  <2>2. CASE i = 1
    BY <1>7, <1>9, <2>1, <2>2
  <2>3. CASE i # 1
    <3>1. i \in 2 .. 1 + Len(Tail(rest)) /\ ~(i <= 1)
      BY <1>1, <1>9, <2>1, <2>3
    <3> QED
      BY <1>7, <1>8, <2>1, <2>3, <3>1
  <2> QED
    BY <2>2, <2>3
<1> QED
  BY <1>7, <1>10, <1>11

(* The steps of the server and the network keep the types of the wire.     *)
LEMMA ServerType ==
    ASSUME TypeOK, ServerStep
    PROVE  /\ sock' \in {"open", "none"} /\ link' \in {"up", "down"}
           /\ requests' \in Seq(Request) /\ inbox' \in Seq(Frame)
           /\ shorn' \in BOOLEAN /\ applied' \in [Calls -> Nat]
<1>1. CASE Serve
  <2>1. Head(requests) \in Request /\ Tail(requests) \in Seq(Request)
    BY <1>1, HeadTailProperties DEF Serve, TypeOK
  <2>2. PICK n \in Parts(Head(requests).kind), last \in {"ok", "err"} :
           /\ inbox' = inbox \o Answer(Head(requests).call, n, last)
           /\ applied' = [applied EXCEPT ![Head(requests).call] =
                              IF last = "ok" THEN @ + 1 ELSE @]
    BY <1>1 DEF Serve
  <2>3. Head(requests).call \in Calls /\ n \in 1 .. MaxParts
    BY <2>1, <2>2, WireAssumption DEF Request, Parts
  <2>4. Answer(Head(requests).call, n, last) \in Seq(Frame)
    BY <2>3, AnswerType
  <2>5. inbox' \in Seq(Frame)
    BY <2>2, <2>4 DEF TypeOK
  <2>6. applied' \in [Calls -> Nat]
    BY <2>2, <2>3 DEF TypeOK
  <2> QED
    BY <1>1, <2>1, <2>5, <2>6 DEF Serve, TypeOK
<1>2. CASE Misread
  <2>3. requests' \in Seq(Request)
    BY <1>2, MisreadKeeps
  <2>4. Answer(NoCall, 1, "err") \in Seq(Frame)
    BY AnswerType, WireAssumption
  <2>5. inbox' \in Seq(Frame)
    BY <1>2, <2>4 DEF Misread, TypeOK
  <2> QED
    BY <1>2, <2>3, <2>5 DEF Misread, TypeOK
<1>3. CASE Drop
  <2>1. PICK n \in 0 .. Len(inbox) : inbox' = SubSeq(inbox, 1, n)
    BY <1>3 DEF Drop
  <2>2. inbox' \in Seq(Frame)
    BY <2>1, SubSeqProperties, LenProperties DEF TypeOK
  <2> QED
    BY <1>3, <2>2 DEF Drop, TypeOK
<1> QED
  BY <1>1, <1>2, <1>3 DEF ServerStep

(* The client only steps inside a call.                                    *)
LEMMA CurrentCall ==
    ASSUME TypeOK, ClientStep \/ Cancel
    PROVE  cur \in Calls
BY DEF TypeOK, ClientStep, MayRetry, RefuseOversized, RequireSocket, CheckExpired, CheckPasses,
       SetTimeout, SetNegativeTimeout, SetTimeoutFails, Write,
       WriteTimesOut, WriteLost, ReadHeader, ReadLost,
       ReadTimesOut, ReadGarbage, ReadAnswer, ReadPart, GiveUp,
       Exhaust, BackoffExpired, BackoffOverflows, Backoff,
       WakeExpired, Wake, Establish, RedialFails, FactoryFails,
       HandshakeFails, DrainTimesOut, Cancel, CancelWrite, CancelRead,
       CancelSleep, CancelDial

(* One step of the client keeps the types.                                 *)
LEMMA ClientType ==
    ASSUME TypeOK, ClientStep \/ Cancel
    PROVE  TypeOK'
<1>e. <<>> \in Seq(Frame) /\ <<>> \in Seq(Request)
  BY EmptySeq
<1>c. cur \in Calls
  BY CurrentCall
<1>1. CASE RefuseOversized
  BY <1>c, <1>e, <1>1 DEF TypeOK, RefuseOversized, Finish, Conclude, wire, progress, PCs, Outcomes
<1>2. CASE RequireSocket
  BY <1>c, <1>e, <1>2 DEF TypeOK, RequireSocket, Go, wire, progress, PCs, Outcomes
<1>3. CASE CheckExpired
  BY <1>c, <1>e, <1>3 DEF TypeOK, CheckExpired, Finish, Conclude, wire, progress, PCs, Outcomes
<1>4. CASE CheckPasses
  BY <1>c, <1>e, <1>4 DEF TypeOK, CheckPasses, Go, wire, progress, PCs, Outcomes
<1>5. CASE SetTimeout
  BY <1>c, <1>e, <1>5 DEF TypeOK, SetTimeout, Go, wire, progress, PCs, Outcomes
<1>6. CASE SetNegativeTimeout
  BY <1>c, <1>e, <1>6 DEF TypeOK, SetNegativeTimeout, Finish, Conclude, wire, progress, PCs, Outcomes
<1>7. CASE SetTimeoutFails
  BY <1>c, <1>e, <1>7 DEF TypeOK, SetTimeoutFails, Go, wire, progress, PCs, Outcomes
<1>8. CASE Write
  <2>1. requests' \in Seq(Request)
    BY <1>c, <1>e, <1>8, PutType DEF Write
  <2>2. written' \in [Calls -> Nat]
    BY <1>c, <1>e, <1>8 DEF Write, TypeOK
  <2> QED
    BY <1>c, <1>e, <1>8, <2>1, <2>2 DEF TypeOK, Write, Go, progress, PCs
<1>9. CASE WriteTimesOut
  <2>1. requests' \in Seq(Request)
    BY <1>c, <1>e, <1>9, PutType DEF WriteTimesOut, TypeOK
  <2> QED
    BY <1>c, <1>e, <1>9, <2>1 DEF TypeOK, WriteTimesOut, Finish, Conclude, progress, PCs, Outcomes
<1>10. CASE WriteLost
  BY <1>c, <1>e, <1>10 DEF TypeOK, WriteLost, Go, wire, progress, PCs, Outcomes
<1>11. CASE ReadHeader
  BY <1>c, <1>e, <1>11 DEF TypeOK, ReadHeader, Go, wire, progress, PCs, Outcomes
<1>12. CASE ReadLost
  BY <1>c, <1>e, <1>12 DEF TypeOK, ReadLost, Go, wire, progress, PCs, Outcomes
<1>13. CASE ReadTimesOut
  <2>1. inbox' \in Seq(Frame) /\ shorn' \in BOOLEAN
    BY <1>13, SwallowType DEF ReadTimesOut, TypeOK
  <2> QED
    BY <1>c, <1>e, <1>13, <2>1 DEF TypeOK, ReadTimesOut, Finish, Conclude, progress, PCs, Outcomes
<1>14. CASE ReadGarbage
  <2>1. inbox' \in Seq(Frame) /\ shorn' \in BOOLEAN
    BY <1>14, SwallowType DEF ReadGarbage
  <2>2. inFlight' \in BOOLEAN
    BY <1>14 DEF ReadGarbage, TypeOK
  <2> QED
    BY <1>c, <1>e, <1>14, <2>1, <2>2 DEF TypeOK, ReadGarbage, Finish, Conclude, progress, PCs, Outcomes
<1>15. CASE ReadAnswer
  <2>1. Head(inbox) \in Frame /\ inbox' \in Seq(Frame)
    BY <1>15, HeadTailProperties DEF ReadAnswer, TypeOK
  <2>2. PICK o \in {"answered", "server error", "corrupted"},
             frames \in {<<Head(inbox)>>, <<>>} : Finish(o, frames)
    BY <1>15 DEF ReadAnswer
  <2>3. frames \in Seq(Frame)
    <3>1. <<Head(inbox)>> \in Seq(Frame)
      BY <2>1, OneElementSeq
    <3> QED
      BY <1>e, <2>2, <3>1
  <2> QED
    BY <1>c, <1>e, <1>15, <2>1, <2>2, <2>3 DEF TypeOK, ReadAnswer, Finish, Conclude, progress, PCs, Outcomes
<1>16. CASE ReadPart
  <2>1. Head(inbox) \in Frame /\ inbox' \in Seq(Frame)
    BY <1>16, HeadTailProperties DEF ReadPart, TypeOK
  <2>2. Append(body, Head(inbox)) \in Seq(Frame) /\ <<Head(inbox)>> \in Seq(Frame)
    BY <2>1 DEF TypeOK
  <2>3. \/ /\ body' = Append(body, Head(inbox))
           /\ Go("frame")
           /\ UNCHANGED <<attempt, inFlight, written>>
        \/ \E o \in {"answered", "server error"},
              frames \in {Append(body, Head(inbox)), <<Head(inbox)>>} :
              Finish(o, frames) /\ inFlight' \in BOOLEAN
    BY <1>16 DEF ReadPart, TypeOK
  <2> QED
    BY <1>c, <1>e, <1>16, <2>1, <2>2, <2>3
       DEF TypeOK, ReadPart, Finish, Conclude, Go, progress, PCs, Outcomes
<1>17. CASE GiveUp
  BY <1>c, <1>e, <1>17 DEF TypeOK, GiveUp, Finish, Conclude, wire, progress, PCs, Outcomes
<1>18. CASE Exhaust
  BY <1>c, <1>e, <1>18 DEF TypeOK, Exhaust, MayRetry, Finish, Conclude, wire, progress, PCs, Outcomes
<1>19. CASE BackoffExpired
  BY <1>c, <1>e, <1>19 DEF TypeOK, BackoffExpired, MayRetry, Finish, Conclude, wire, progress, PCs, Outcomes
<1>20. CASE BackoffOverflows
  BY <1>c, <1>e, <1>20 DEF TypeOK, BackoffOverflows, MayRetry, Finish, Conclude, wire, progress, PCs, Outcomes
<1>21. CASE Backoff
  <2>1. attempt' \in Nat /\ pc' = "sleep"
    BY <1>21 DEF TypeOK, Backoff, Go
  <2> QED
    BY <1>c, <1>21, <2>1 DEF TypeOK, Backoff, Go, wire, progress, PCs
<1>22. CASE WakeExpired
  BY <1>c, <1>e, <1>22 DEF TypeOK, WakeExpired, Finish, Conclude, wire, progress, PCs, Outcomes
<1>23. CASE Wake
  BY <1>c, <1>e, <1>23 DEF TypeOK, Wake, Go, wire, progress, PCs, Outcomes
<1>24. CASE Establish
  <2>1. tries' \in Nat
    BY <1>24 DEF TypeOK, Establish
  <2> QED
    BY <1>c, <1>e, <1>24, <2>1 DEF TypeOK, Establish, Connected, PCs
<1>25. CASE RedialFails
  <2>1. tries' \in Nat
    BY <1>25 DEF TypeOK, RedialFails
  <2> QED
    BY <1>c, <1>e, <1>25, <2>1 DEF TypeOK, RedialFails, Closed, PCs
<1>26. CASE FactoryFails
  BY <1>c, <1>e, <1>26 DEF TypeOK, FactoryFails, Closed, Finish, Conclude, wire, progress, PCs, Outcomes
<1>27. CASE HandshakeFails
  BY <1>c, <1>e, <1>27 DEF TypeOK, HandshakeFails, Closed, Finish, Conclude, wire, progress, PCs, Outcomes
<1>28. CASE DrainTimesOut
  <2>1. requests' \in Seq(Request)
    BY <1>c, <1>e, <1>28, PutType DEF DrainTimesOut
  <2>2. written' \in [Calls -> Nat]
    BY <1>c, <1>28 DEF DrainTimesOut, TypeOK
  <2> QED
    BY <1>c, <1>e, <1>28, <2>1, <2>2 DEF TypeOK, DrainTimesOut, Conclude, progress, PCs, Outcomes
<1>29. CASE CancelWrite
  <2>1. requests' \in Seq(Request)
    BY <1>c, <1>e, <1>29, PutType DEF CancelWrite
  <2>2. written' \in [Calls -> Nat]
    BY <1>c, <1>29 DEF CancelWrite, TypeOK
  <2> QED
    BY <1>c, <1>e, <1>29, <2>1, <2>2
       DEF TypeOK, CancelWrite, Leave, Conclude, progress, PCs, Outcomes
<1>30. CASE CancelRead
  <2>1. shorn' \in BOOLEAN
    BY <1>30 DEF CancelRead, TypeOK
  <2> QED
    BY <1>c, <1>e, <1>30, <2>1
       DEF TypeOK, CancelRead, Leave, Conclude, progress, PCs, Outcomes
<1>31. CASE CancelSleep
  BY <1>c, <1>e, <1>31
     DEF TypeOK, CancelSleep, Leave, Conclude, wire, progress, PCs, Outcomes
<1>32. CASE CancelDial
  <2>1. inFlight' \in BOOLEAN
    BY <1>32 DEF CancelDial, TypeOK
  <2> QED
    BY <1>c, <1>e, <1>32, <2>1
       DEF TypeOK, CancelDial, Leave, Closed, Conclude, progress, PCs, Outcomes
<1> QED
  BY <1>1, <1>2, <1>3, <1>4, <1>5, <1>6, <1>7, <1>8, <1>9, <1>10,
     <1>11, <1>12, <1>13, <1>14, <1>15, <1>16, <1>17, <1>18, <1>19,
     <1>20, <1>21, <1>22, <1>23, <1>24, <1>25, <1>26, <1>27, <1>28,
     <1>29, <1>30, <1>31, <1>32
     DEF ClientStep, Cancel

(* Every step keeps the types.                                             *)
LEMMA NextType ==
    ASSUME TypeOK, [Next]_vars
    PROVE  TypeOK'
<1>e. <<>> \in Seq(Frame)
  BY EmptySeq
<1>1. CASE Begin
  BY <1>e, <1>1, WireAssumption DEF TypeOK, Begin, Calls, wire, PCs, Dues, Quiet
<1>2. CASE Stop
  BY <1>2 DEF TypeOK, Stop, vars, wire
<1>3. CASE Tick
  BY <1>3 DEF TypeOK, Tick, wire, Dues
<1>4. CASE ClientStep \/ Cancel
  BY <1>4, ClientType
<1>5. CASE Environment
  BY <1>5, ServerType DEF TypeOK, Environment
<1>6. CASE UNCHANGED vars
  BY <1>6 DEF TypeOK, vars, wire
<1> QED
  BY <1>1, <1>2, <1>3, <1>4, <1>5, <1>6 DEF Next

(* TypeOK holds of every behaviour, whatever the constants.                *)
THEOREM TypeCorrect == Spec => []TypeOK
<1>e. <<>> \in Seq(Frame) /\ <<>> \in Seq(Request)
  BY EmptySeq
<1>1. Init => TypeOK
  <2> SUFFICES ASSUME Init PROVE TypeOK
    OBVIOUS
  <2>1. cur \in 0 .. MaxCalls
    BY WireAssumption DEF Init
  <2>2. outcome \in [Calls -> Outcomes]
    BY DEF Init, Outcomes
  <2>3. written \in [Calls -> Nat] /\ applied \in [Calls -> Nat]
    BY DEF Init
  <2> QED
    BY <1>e, <2>1, <2>2, <2>3 DEF Init, TypeOK, PCs, Dues
<1>2. TypeOK /\ [Next]_vars => TypeOK'
  BY NextType
<1> QED
  BY <1>1, <1>2, PTL DEF Spec

-----------------------------------------------------------------------------
(* The steps that hand the whole request over.                             *)
WholeWrite == Write \/ DrainTimesOut \/ CancelWrite

(* Only these count a write, only a write touches the requests in front   *)
(* of the server, except that a new or closed socket has none.             *)
LEMMA ClientTallies ==
    ASSUME ClientStep \/ Cancel
    PROVE  /\ UNCHANGED <<client, cur, kind, applied>>
           /\ ~WholeWrite => UNCHANGED written
           /\ ~WholeWrite /\ ~WriteTimesOut => requests' = requests \/ requests' = <<>>
<1>1. CASE RefuseOversized
  BY <1>1 DEF RefuseOversized, Finish, Conclude, wire, progress
<1>2. CASE RequireSocket
  BY <1>2 DEF RequireSocket, Go, wire, progress
<1>3. CASE CheckExpired
  BY <1>3 DEF CheckExpired, Finish, Conclude, wire, progress
<1>4. CASE CheckPasses
  BY <1>4 DEF CheckPasses, Go, wire, progress
<1>5. CASE SetTimeout
  BY <1>5 DEF SetTimeout, Go, wire, progress
<1>6. CASE SetNegativeTimeout
  BY <1>6 DEF SetNegativeTimeout, Finish, Conclude, wire, progress
<1>7. CASE SetTimeoutFails
  BY <1>7 DEF SetTimeoutFails, Go, wire, progress
<1>8. CASE Write
  BY <1>8 DEF WholeWrite, Write, Go, wire, progress
<1>9. CASE WriteTimesOut
  BY <1>9 DEF WriteTimesOut, Finish, Conclude, wire, progress
<1>10. CASE WriteLost
  BY <1>10 DEF WriteLost, Go, wire, progress
<1>11. CASE ReadHeader
  BY <1>11 DEF ReadHeader, Go, wire, progress
<1>12. CASE ReadLost
  BY <1>12 DEF ReadLost, Go, wire, progress
<1>13. CASE ReadTimesOut
  BY <1>13 DEF ReadTimesOut, Finish, Conclude, wire, progress
<1>14. CASE ReadGarbage
  BY <1>14 DEF ReadGarbage, Finish, Conclude, wire, progress
<1>15. CASE ReadAnswer
  BY <1>15 DEF ReadAnswer, Finish, Conclude, wire, progress
<1>16. CASE ReadPart
  BY <1>16 DEF ReadPart, Go, Finish, Conclude, wire, progress
<1>17. CASE GiveUp
  BY <1>17 DEF GiveUp, Finish, Conclude, wire, progress
<1>18. CASE Exhaust
  BY <1>18 DEF Exhaust, MayRetry, Finish, Conclude, wire, progress
<1>19. CASE BackoffExpired
  BY <1>19 DEF BackoffExpired, MayRetry, Finish, Conclude, wire, progress
<1>20. CASE BackoffOverflows
  BY <1>20 DEF BackoffOverflows, MayRetry, Finish, Conclude, wire, progress
<1>21. CASE Backoff
  BY <1>21 DEF Backoff, MayRetry, Go, wire, progress
<1>22. CASE WakeExpired
  BY <1>22 DEF WakeExpired, Finish, Conclude, wire, progress
<1>23. CASE Wake
  BY <1>23 DEF Wake, Go, wire, progress
<1>24. CASE Establish
  BY <1>24 DEF Establish, Connected, wire, progress
<1>25. CASE RedialFails
  BY <1>25 DEF RedialFails, Closed, Go, wire, progress
<1>26. CASE FactoryFails
  BY <1>26 DEF FactoryFails, Closed, Finish, Conclude, wire, progress
<1>27. CASE HandshakeFails
  BY <1>27 DEF HandshakeFails, Closed, Finish, Conclude, wire, progress
<1>28. CASE DrainTimesOut
  BY <1>28 DEF WholeWrite, DrainTimesOut, Conclude, wire, progress
<1>29. CASE CancelWrite
  BY <1>29 DEF WholeWrite, CancelWrite, Leave, Conclude, wire, progress
<1>30. CASE CancelRead
  BY <1>30 DEF CancelRead, Leave, Conclude, wire, progress
<1>31. CASE CancelSleep
  BY <1>31 DEF CancelSleep, Leave, Conclude, wire, progress
<1>32. CASE CancelDial
  BY <1>32 DEF CancelDial, Leave, Closed, Conclude, wire, progress
<1> QED
  BY <1>1, <1>2, <1>3, <1>4, <1>5, <1>6, <1>7, <1>8, <1>9, <1>10,
     <1>11, <1>12, <1>13, <1>14, <1>15, <1>16, <1>17, <1>18, <1>19,
     <1>20, <1>21, <1>22, <1>23, <1>24, <1>25, <1>26, <1>27, <1>28,
     <1>29, <1>30, <1>31, <1>32
     DEF ClientStep, Cancel

Unsent == {"refused", "unreachable", "rejected", "overflow"}

(* A call may end in any way, but in those that tell its request was never *)
(* sent only if it never was.                                              *)
LEMMA FinishOnce ==
    ASSUME TypeOK, OnceInv, cur \in Calls, NEW o, NEW frames, Finish(o, frames),
           ~ReadOnly(cur) /\ o \in Unsent => written[cur] = 0 /\ applied[cur] = 0
    PROVE  FutureUntouched' /\ FlagTells' /\ FailedUnsent'
<1>1. UNCHANGED <<cur, kind, written, applied>> /\ pc' = "idle"
      /\ outcome' = [outcome EXCEPT ![cur] = o]
  BY DEF Finish, Conclude, progress
<1>2. FutureUntouched'
  BY <1>1 DEF TypeOK, OnceInv, FutureUntouched, Calls
<1>3. FlagTells'
  BY <1>1 DEF FlagTells
<1>4. ASSUME NEW c \in Calls, ~ReadOnly(c)', outcome'[c] \in Unsent
      PROVE  written'[c] = 0 /\ applied'[c] = 0
  <2>1. CASE c = cur
    BY <1>1, <1>4, <2>1 DEF TypeOK, ReadOnly
  <2>2. CASE c # cur
    BY <1>1, <1>4, <2>2 DEF TypeOK, OnceInv, FailedUnsent, ReadOnly, Unsent
  <2> QED
    BY <2>1, <2>2
<1> QED
  BY <1>2, <1>3, <1>4 DEF FailedUnsent, ReadOnly, Unsent

(* The same of a call that ends as it hands its request over.              *)
LEMMA ConcludeOnce ==
    ASSUME TypeOK, OnceInv, cur \in Calls, NEW o, Conclude(o, <<>>),
           o \notin Unsent, written' = [written EXCEPT ![cur] = @ + 1]
    PROVE  FutureUntouched' /\ FlagTells' /\ FailedUnsent'
<1>1. /\ UNCHANGED <<cur, kind, applied>> /\ pc' = "idle"
      /\ outcome' = [outcome EXCEPT ![cur] = o]
      /\ \A c \in Calls : c # cur => written'[c] = written[c]
  BY DEF Conclude, progress, TypeOK
<1>2. FutureUntouched'
  BY <1>1 DEF TypeOK, OnceInv, FutureUntouched, Calls
<1>3. FlagTells'
  BY <1>1 DEF FlagTells
<1>4. ASSUME NEW c \in Calls, ~ReadOnly(c)', outcome'[c] \in Unsent
      PROVE  written'[c] = 0 /\ applied'[c] = 0
  BY <1>1, <1>4 DEF TypeOK, OnceInv, FailedUnsent, ReadOnly, Unsent
<1> QED
  BY <1>2, <1>3, <1>4 DEF FailedUnsent, ReadOnly, Unsent

(* A step of the client keeps what the flag and the outcomes tell.         *)
LEMMA ClientOnce ==
    ASSUME TypeOK, OnceInv, ClientStep \/ Cancel
    PROVE  FutureUntouched' /\ FlagTells' /\ FailedUnsent'
<1>c. cur \in Calls
  BY CurrentCall
<1>w. /\ written[cur] \in Nat /\ applied[cur] \in Nat
      /\ pc # "idle" => outcome[cur] = "pending"
  BY <1>c DEF TypeOK, OnceInv, FutureUntouched
<1>u. ~ReadOnly(cur) /\ written[cur] # 1 => written[cur] = 0 /\ applied[cur] = 0
  BY <1>c, <1>w DEF OnceInv, WrittenOnce
<1>k. UNCHANGED <<cur, kind, applied>>
  BY ClientTallies
<1>f. ~ReadOnly(cur) /\ pc \notin Awaiting \cup {"lost", "idle"}
         => written[cur] = 0 /\ applied[cur] = 0
  BY <1>u DEF OnceInv, FlagTells
<1>l. ~ReadOnly(cur) /\ pc = "lost" /\ ~inFlight
         => written[cur] = 0 /\ applied[cur] = 0
  BY <1>u DEF OnceInv, FlagTells
<1>1. CASE RefuseOversized
  BY <1>c, <1>f, <1>1, FinishOnce DEF RefuseOversized, Awaiting, Unsent
<1>2. CASE RequireSocket
  BY <1>c, <1>u, <1>k, <1>2
     DEF TypeOK, OnceInv, FutureUntouched, FlagTells, FailedUnsent, ReadOnly,
         RequireSocket, Go, wire, progress, Awaiting
<1>3. CASE CheckExpired
  BY <1>c, <1>3, FinishOnce DEF CheckExpired, Unsent
<1>4. CASE CheckPasses
  BY <1>c, <1>u, <1>k, <1>4
     DEF TypeOK, OnceInv, FutureUntouched, FlagTells, FailedUnsent, ReadOnly,
         CheckPasses, Go, wire, progress, Awaiting
<1>5. CASE SetTimeout
  BY <1>c, <1>u, <1>k, <1>5
     DEF TypeOK, OnceInv, FutureUntouched, FlagTells, FailedUnsent, ReadOnly,
         SetTimeout, Go, wire, progress, Awaiting
<1>6. CASE SetNegativeTimeout
  BY <1>c, <1>6, FinishOnce DEF SetNegativeTimeout, Unsent
<1>7. CASE SetTimeoutFails
  BY <1>c, <1>u, <1>k, <1>7
     DEF TypeOK, OnceInv, FutureUntouched, FlagTells, FailedUnsent, ReadOnly,
         SetTimeoutFails, Go, wire, progress, Awaiting
<1>8. CASE Write
  BY <1>c, <1>u, <1>k, <1>8
     DEF TypeOK, OnceInv, FutureUntouched, FlagTells, FailedUnsent, ReadOnly,
         Write, Go, wire, progress, Awaiting
<1>9. CASE WriteTimesOut
  BY <1>c, <1>9, FinishOnce DEF WriteTimesOut, Unsent
<1>10. CASE WriteLost
  BY <1>c, <1>u, <1>k, <1>10
     DEF TypeOK, OnceInv, FutureUntouched, FlagTells, FailedUnsent, ReadOnly,
         WriteLost, Go, wire, progress, Awaiting
<1>11. CASE ReadHeader
  BY <1>c, <1>u, <1>k, <1>11
     DEF TypeOK, OnceInv, FutureUntouched, FlagTells, FailedUnsent, ReadOnly,
         ReadHeader, Go, wire, progress, Awaiting
<1>12. CASE ReadLost
  BY <1>c, <1>u, <1>k, <1>12
     DEF TypeOK, OnceInv, FutureUntouched, FlagTells, FailedUnsent, ReadOnly,
         ReadLost, Go, wire, progress, Awaiting
<1>13. CASE ReadTimesOut
  BY <1>c, <1>13, FinishOnce DEF ReadTimesOut, Unsent
<1>14. CASE ReadGarbage
  BY <1>c, <1>14, FinishOnce DEF ReadGarbage, Unsent
<1>15. CASE ReadAnswer
  <2>1. PICK o \in {"answered", "server error", "corrupted"},
             frames \in {<<Head(inbox)>>, <<>>} : Finish(o, frames)
    BY <1>15 DEF ReadAnswer
  <2> QED
    BY <1>c, <2>1, FinishOnce DEF Unsent
<1>16. CASE ReadPart
  <2>1. CASE \E o \in {"answered", "server error"},
             frames \in {Append(body, Head(inbox)), <<Head(inbox)>>} : Finish(o, frames)
    BY <1>c, <2>1, FinishOnce DEF Unsent
  <2>2. CASE Go("frame") /\ UNCHANGED <<attempt, inFlight, written>>
    BY <1>c, <1>u, <1>k, <1>16, <2>2 
       DEF ReadPart, Go, progress, Awaiting, OnceInv, FutureUntouched, FlagTells,
           FailedUnsent, ReadOnly
  <2> QED
    BY <1>16, <2>1, <2>2 DEF ReadPart
<1>17. CASE GiveUp
  BY <1>c, <1>17, FinishOnce DEF GiveUp, Unsent
<1>18. CASE Exhaust
  BY <1>c, <1>18, FinishOnce DEF Exhaust, Unsent
<1>19. CASE BackoffExpired
  BY <1>c, <1>19, FinishOnce DEF BackoffExpired, Unsent
<1>20. CASE BackoffOverflows
  BY <1>c, <1>l, <1>20, FinishOnce DEF BackoffOverflows, MayRetry, Awaiting, Unsent
<1>21. CASE Backoff
  BY <1>c, <1>u, <1>k, <1>21
     DEF TypeOK, OnceInv, FutureUntouched, FlagTells, FailedUnsent, ReadOnly,
         Backoff, MayRetry, Go, wire, progress, Awaiting
<1>22. CASE WakeExpired
  BY <1>c, <1>22, FinishOnce DEF WakeExpired, Unsent
<1>23. CASE Wake
  BY <1>c, <1>u, <1>k, <1>23
     DEF TypeOK, OnceInv, FutureUntouched, FlagTells, FailedUnsent, ReadOnly,
         Wake, Go, wire, progress, Awaiting
<1>24. CASE Establish
  BY <1>c, <1>u, <1>k, <1>24
     DEF TypeOK, OnceInv, FutureUntouched, FlagTells, FailedUnsent, ReadOnly,
         Establish, Connected, wire, progress, Awaiting
<1>25. CASE RedialFails
  BY <1>c, <1>u, <1>k, <1>25
     DEF TypeOK, OnceInv, FutureUntouched, FlagTells, FailedUnsent, ReadOnly,
         RedialFails, Closed, Go, wire, progress, Awaiting
<1>26. CASE FactoryFails
  BY <1>c, <1>f, <1>26, FinishOnce DEF FactoryFails, Awaiting, Unsent
<1>27. CASE HandshakeFails
  <2>1. PICK o \in {"timeout", "rejected"} : Finish(o, <<>>)
    BY <1>27 DEF HandshakeFails
  <2> QED
    BY <1>c, <1>f, <1>27, <2>1, FinishOnce DEF HandshakeFails, Awaiting
<1>28. CASE DrainTimesOut
  BY <1>c, <1>28, ConcludeOnce DEF DrainTimesOut, Unsent
<1>29. CASE CancelWrite
  BY <1>c, <1>29, ConcludeOnce DEF CancelWrite, Leave, Unsent
<1>30. CASE CancelRead
  BY <1>c, <1>30, FinishOnce DEF CancelRead, Leave, Finish, Unsent
<1>31. CASE CancelSleep
  BY <1>c, <1>31, FinishOnce DEF CancelSleep, Leave, Finish, Unsent
<1>32. CASE CancelDial
  BY <1>c, <1>32, FinishOnce DEF CancelDial, Leave, Finish, Unsent
<1> QED
  BY <1>1, <1>2, <1>3, <1>4, <1>5, <1>6, <1>7, <1>8, <1>9, <1>10,
     <1>11, <1>12, <1>13, <1>14, <1>15, <1>16, <1>17, <1>18, <1>19,
     <1>20, <1>21, <1>22, <1>23, <1>24, <1>25, <1>26, <1>27, <1>28,
     <1>29, <1>30, <1>31, <1>32
     DEF ClientStep, Cancel

(* Putting a request behind the others keeps UnservedOnce and WrittenOnce, *)
(* when it is cut short or the one whole request of its call.              *)
LEMMA PutOnce ==
    ASSUME TypeOK, OnceInv, cur \in Calls, UNCHANGED <<kind, applied>>,
           NEW whole \in BOOLEAN,
           requests' = requests \/ Put(cur, kind[cur], whole),
           whole => written' = [written EXCEPT ![cur] = @ + 1],
           ~whole => written' = written,
           whole /\ ~ReadOnly(cur) => written[cur] = 0 /\ applied[cur] = 0
    PROVE  UnservedOnce' /\ WrittenOnce'
<1> DEFINE new == [call |-> cur, kind |-> kind[cur], whole |-> whole]
<1>1. \A c \in Calls : /\ written[c] \in Nat /\ applied[c] \in Nat
                       /\ c # cur => written'[c] = written[c]
                       /\ whole => written'[cur] = written[cur] + 1
                       /\ ~whole => written'[cur] = written[cur]
  BY DEF TypeOK
<1>2. WrittenOnce'
  BY <1>1 DEF OnceInv, WrittenOnce, ReadOnly
<1>3. \A i \in 1 .. Len(requests) : requests[i] \in Request
  BY ElementOfSeq DEF TypeOK
<1>4. \A i \in 1 .. Len(requests) :
         /\ requests[i].call \in Calls
         /\ whole /\ requests[i].whole /\ ~ReadOnly(requests[i].call)
              => requests[i].call # cur
  BY <1>3 DEF OnceInv, UnservedOnce, Request
<1>5. CASE requests' = requests
  <2>1. ASSUME NEW i \in 1 .. Len(requests), requests[i].whole,
               ~ReadOnly(requests[i].call)
        PROVE  /\ written'[requests[i].call] = 1 /\ applied'[requests[i].call] = 0
               /\ \A j \in 1 .. Len(requests) :
                     requests[j].whole /\ requests[j].call = requests[i].call => j = i
    <3>1. written'[requests[i].call] = written[requests[i].call]
      BY <1>1, <1>4, <2>1
    <3> QED
      BY <2>1, <3>1 DEF OnceInv, UnservedOnce
  <2> QED
    BY <1>2, <1>5, <2>1 DEF UnservedOnce, ReadOnly
<1>6. CASE requests' = Append(requests, new)
  <2>1. /\ Len(requests) \in Nat /\ Len(requests') = Len(requests) + 1
        /\ requests'[Len(requests) + 1] = new
        /\ \A i \in 1 .. Len(requests) : requests'[i] = requests[i]
    BY <1>6 DEF TypeOK
  <2> HIDE DEF new
  <2>2. new.call = cur /\ new.whole = whole
    BY DEF new
  <2>3. ASSUME NEW i \in 1 .. Len(requests'), requests'[i].whole,
               ~ReadOnly(requests'[i].call)
        PROVE  /\ written'[requests'[i].call] = 1 /\ applied'[requests'[i].call] = 0
               /\ \A j \in 1 .. Len(requests') :
                     requests'[j].whole /\ requests'[j].call = requests'[i].call
                       => j = i
    <3>1. ~ReadOnly(requests'[i].call)
      BY <2>3
    <3>2. CASE i = Len(requests) + 1
      BY <1>1, <1>4, <2>1, <2>2, <2>3, <3>1, <3>2
    <3>3. CASE i # Len(requests) + 1
      <4>1. i \in 1 .. Len(requests) /\ requests'[i] = requests[i]
        BY <2>1, <3>3
      <4>2. /\ written[requests[i].call] = 1 /\ applied[requests[i].call] = 0
            /\ \A j \in 1 .. Len(requests) :
                  requests[j].whole /\ requests[j].call = requests[i].call => j = i
        BY <2>3, <3>1, <4>1 DEF OnceInv, UnservedOnce
      <4>3. whole => requests[i].call # cur
        BY <1>4, <2>3, <3>1, <4>1
      <4>4. written'[requests[i].call] = 1 /\ applied'[requests[i].call] = 0
        BY <1>1, <1>4, <4>1, <4>2, <4>3
      <4>5. ASSUME NEW j \in 1 .. Len(requests'), requests'[j].whole,
                   requests'[j].call = requests'[i].call
            PROVE  j = i
        BY <2>1, <2>2, <4>1, <4>2, <4>3, <4>5
      <4> QED
        BY <4>1, <4>4, <4>5
    <3> QED
      BY <3>2, <3>3
  <2> QED
    BY <1>2, <2>3 DEF UnservedOnce, ReadOnly
<1> QED
  BY <1>2, <1>5, <1>6 DEF Put

(* A step of the server keeps UnservedOnce and WrittenOnce.                *)
LEMMA ServerOnce ==
    ASSUME TypeOK, OnceInv, ServerStep, UNCHANGED <<kind, written>>
    PROVE  UnservedOnce' /\ WrittenOnce'
<1>1. \A i \in 1 .. Len(requests) : requests[i] \in Request
  BY ElementOfSeq DEF TypeOK
<1>2. CASE Serve
  <2> DEFINE c0 == Head(requests).call
  <2>1. /\ requests # <<>> /\ Len(requests) \in Nat \ {0}
        /\ Head(requests) = requests[1] /\ requests[1].whole
    BY <1>2, EmptySeq, LenProperties DEF Serve, TypeOK
  <2>2. /\ Len(requests') = Len(requests) - 1
        /\ \A i \in 1 .. Len(requests') : requests'[i] = requests[i + 1]
    BY <1>2, <2>1, HeadTailProperties DEF Serve, TypeOK
  <2>3. /\ c0 \in Calls /\ applied'[c0] \in {applied[c0], applied[c0] + 1}
        /\ \A c \in Calls : c # c0 => applied'[c] = applied[c]
    <3>1. c0 \in Calls
      BY <1>1, <2>1 DEF Request
    <3>2. PICK last \in {"ok", "err"} :
             applied' = [applied EXCEPT ![c0] = IF last = "ok" THEN @ + 1 ELSE @]
      BY <1>2 DEF Serve
    <3> HIDE DEF c0
    <3> QED
      BY <3>1, <3>2 DEF TypeOK
  <2>4. ~ReadOnly(c0) => /\ written[c0] = 1 /\ applied[c0] = 0
                         /\ \A j \in 2 .. Len(requests) :
                               ~(requests[j].whole /\ requests[j].call = c0)
    BY <2>1 DEF OnceInv, UnservedOnce
  <2> HIDE DEF c0
  <2>5. WrittenOnce'
    BY <2>3, <2>4 DEF OnceInv, WrittenOnce, ReadOnly
  <2>6. ASSUME NEW i \in 1 .. Len(requests'), requests'[i].whole,
               ~ReadOnly(requests'[i].call)
        PROVE  /\ written'[requests'[i].call] = 1 /\ applied'[requests'[i].call] = 0
               /\ \A j \in 1 .. Len(requests') :
                     requests'[j].whole /\ requests'[j].call = requests'[i].call
                       => j = i
    <3>1. ~ReadOnly(requests'[i].call)
      BY <2>6
    <3>2. i + 1 \in 2 .. Len(requests) /\ requests'[i] = requests[i + 1]
      BY <2>1, <2>2
    <3>3. requests[i + 1].call \in Calls /\ requests[i + 1].call # c0
      BY <1>1, <2>1, <2>4, <2>6, <3>1, <3>2 DEF Request
    <3>4. /\ written[requests[i + 1].call] = 1 /\ applied[requests[i + 1].call] = 0
          /\ \A j \in 1 .. Len(requests) :
                requests[j].whole /\ requests[j].call = requests[i + 1].call => j = i + 1
      BY <2>1, <2>6, <3>1, <3>2 DEF OnceInv, UnservedOnce
    <3>5. \A j \in 1 .. Len(requests') :
             j + 1 \in 1 .. Len(requests) /\ requests'[j] = requests[j + 1]
      BY <2>1, <2>2
    <3>6. /\ written'[requests'[i].call] = 1
          /\ applied'[requests'[i].call] = 0
      BY <2>3, <3>2, <3>3, <3>4
    <3>7. ASSUME NEW j \in 1 .. Len(requests'), requests'[j].whole,
                 requests'[j].call = requests'[i].call
          PROVE  j = i
      <4>1. j + 1 \in 1 .. Len(requests) /\ requests'[j] = requests[j + 1]
        BY <3>5
      <4>2. requests[j + 1].whole /\ requests[j + 1].call = requests[i + 1].call
        BY <3>2, <3>7, <4>1
      <4>3. j + 1 = i + 1
        BY <3>4, <4>1, <4>2
      <4> QED
        BY <4>3
    <3> QED
      BY <3>6, <3>7
  <2> QED
    BY <2>5, <2>6 DEF UnservedOnce, ReadOnly
<1>3. CASE Misread
  <2>1. /\ Len(requests) \in Nat /\ Len(requests) >= 2 /\ ~requests[1].whole
        /\ UNCHANGED applied
    BY <1>3, LenProperties DEF Misread, TypeOK
  <2>2. /\ Len(requests') = Len(requests) - 1
        /\ \A i \in 1 .. Len(requests') :
              requests'[i] = IF i = 1 THEN requests[1] ELSE requests[i + 1]
    BY <1>3, MisreadKeeps
  <2>3. \A i \in 1 .. Len(requests') : requests'[i].whole =>
            i + 1 \in 1 .. Len(requests) /\ requests'[i] = requests[i + 1]
    BY <2>1, <2>2
  <2>4. WrittenOnce'
    BY <2>1 DEF OnceInv, WrittenOnce, ReadOnly
  <2>5. ASSUME NEW i \in 1 .. Len(requests'), requests'[i].whole,
               ~ReadOnly(requests'[i].call)
        PROVE  /\ written'[requests'[i].call] = 1 /\ applied'[requests'[i].call] = 0
               /\ \A j \in 1 .. Len(requests') :
                     requests'[j].whole /\ requests'[j].call = requests'[i].call
                       => j = i
    <3>1. ~ReadOnly(requests'[i].call)
      BY <2>5
    <3>2. i + 1 \in 1 .. Len(requests) /\ requests'[i] = requests[i + 1]
      BY <2>3, <2>5
    <3>3. /\ written[requests[i + 1].call] = 1 /\ applied[requests[i + 1].call] = 0
          /\ \A j \in 1 .. Len(requests) :
                requests[j].whole /\ requests[j].call = requests[i + 1].call => j = i + 1
      BY <2>5, <3>1, <3>2 DEF OnceInv, UnservedOnce
    <3>4. ASSUME NEW j \in 1 .. Len(requests'), requests'[j].whole,
                 requests'[j].call = requests'[i].call
          PROVE  j = i
      <4>1. j + 1 \in 1 .. Len(requests) /\ requests'[j] = requests[j + 1]
        BY <2>3, <3>4
      <4>2. j + 1 = i + 1
        BY <3>2, <3>3, <3>4, <4>1
      <4> QED
        BY <4>2
    <3> QED
      BY <2>1, <3>2, <3>3, <3>4
  <2> QED
    BY <2>4, <2>5 DEF UnservedOnce, ReadOnly
<1>4. CASE Drop
  BY <1>4, EmptySeq DEF Drop, UnservedOnce, OnceInv, WrittenOnce, ReadOnly
<1> QED
  BY <1>2, <1>3, <1>4 DEF ServerStep

(* OnceInv is inductive.                                                   *)
LEMMA OnceStep ==
    ASSUME TypeOK, OnceInv, [Next]_vars
    PROVE  OnceInv'
<1>1. CASE Begin
  <2>1. /\ cur' = cur + 1 /\ cur' \in Calls /\ written[cur'] = 0
        /\ UNCHANGED <<kind, requests, outcome, written, applied>>
    BY <1>1, WireAssumption DEF Begin, TypeOK, OnceInv, FutureUntouched, Calls, wire
  <2>2. FutureUntouched'
    BY <2>1 DEF TypeOK, OnceInv, FutureUntouched, Calls
  <2>3. FlagTells'
    BY <2>1 DEF FlagTells
  <2> QED
    BY <2>1, <2>2, <2>3 DEF OnceInv, UnservedOnce, WrittenOnce, FailedUnsent, ReadOnly
<1>2. CASE Tick \/ Stop \/ UNCHANGED vars
  <2>1. UNCHANGED <<pc, cur, kind, inFlight, requests, outcome, written, applied>>
    BY <1>2 DEF Tick, Stop, vars, wire
  <2> QED
    BY <2>1 DEF OnceInv, FutureUntouched, FlagTells, UnservedOnce, WrittenOnce,
                FailedUnsent, ReadOnly
<1>3. CASE ClientStep \/ Cancel
  <2>1. FutureUntouched' /\ FlagTells' /\ FailedUnsent'
    BY <1>3, ClientOnce
  <2>2. UNCHANGED <<cur, kind, applied>>
    BY <1>3, ClientTallies
  <2>3. CASE WholeWrite
    <3>w. /\ pc = "write" /\ Put(cur, kind[cur], TRUE)
          /\ written' = [written EXCEPT ![cur] = @ + 1]
      BY <2>3 DEF WholeWrite, Write, DrainTimesOut, CancelWrite
    <3>1. cur \in Calls /\ written[cur] \in Nat /\ applied[cur] \in Nat
      BY <3>w DEF TypeOK
    <3>2. ~ReadOnly(cur) => written[cur] = 0 /\ applied[cur] = 0
      BY <3>w, <3>1 DEF OnceInv, FlagTells, WrittenOnce, Awaiting
    <3>3. UnservedOnce' /\ WrittenOnce'
      BY <2>2, <3>w, <3>1, <3>2, PutOnce
    <3> QED
      BY <2>1, <3>3 DEF OnceInv
  <2>4. CASE WriteTimesOut
    <3>1. cur \in Calls /\ UNCHANGED written
      BY <2>4 DEF WriteTimesOut, Finish, Conclude, TypeOK
    <3>2. UnservedOnce' /\ WrittenOnce'
      BY <2>2, <2>4, <3>1, PutOnce DEF WriteTimesOut
    <3> QED
      BY <2>1, <3>2 DEF OnceInv
  <2>5. CASE ~WholeWrite /\ ~WriteTimesOut
    <3>1. UNCHANGED written /\ (requests' = requests \/ requests' = <<>>)
      BY <1>3, <2>5, ClientTallies
    <3>2. UnservedOnce'
      BY <2>2, <3>1, EmptySeq DEF OnceInv, UnservedOnce, ReadOnly
    <3>3. WrittenOnce'
      BY <2>2, <3>1 DEF OnceInv, WrittenOnce, ReadOnly
    <3> QED
      BY <2>1, <3>2, <3>3 DEF OnceInv
  <2> QED
    BY <2>3, <2>4, <2>5
<1>4. CASE Environment
  <2>1. ServerStep /\ UNCHANGED <<pc, cur, kind, inFlight, outcome, written>>
    BY <1>4 DEF Environment
  <2>2. UnservedOnce' /\ WrittenOnce'
    BY <2>1, ServerOnce
  <2>3. FutureUntouched' /\ FlagTells'
    BY <2>1 DEF OnceInv, FutureUntouched, FlagTells, ReadOnly
  <2>4. applied' \in [Calls -> Nat]
    BY <2>1, ServerType
  <2>5. FailedUnsent'
    BY <2>1, <2>2, <2>4 DEF OnceInv, FailedUnsent, WrittenOnce, ReadOnly
  <2> QED
    BY <2>2, <2>3, <2>5 DEF OnceInv
<1> QED
  BY <1>1, <1>2, <1>3, <1>4 DEF Next

(* OnceInv holds of every behaviour.                                       *)
LEMMA OnceInvariant == Spec => [](TypeOK /\ OnceInv)
<1>1. Init => OnceInv
  <2> SUFFICES ASSUME Init PROVE OnceInv
    OBVIOUS
  <2>1. FutureUntouched /\ FlagTells
    BY DEF Init, FutureUntouched, FlagTells
  <2>2. UnservedOnce
    BY EmptySeq DEF Init, UnservedOnce
  <2>3. WrittenOnce /\ FailedUnsent
    BY DEF Init, WrittenOnce, FailedUnsent
  <2> QED
    BY <2>1, <2>2, <2>3 DEF OnceInv
<1>2. TypeOK /\ OnceInv /\ [Next]_vars => OnceInv'
  BY OnceStep
<1> QED
  BY <1>1, <1>2, TypeCorrect, PTL DEF Spec

(* A mutating command is written once at most and carried out once at      *)
(* most, whatever breaks and however _with_retry goes on: "a blind retry   *)
(* could apply them twice", and there is none.                             *)
THEOREM MutatingAtMostOnce == Spec => []AtMostOnce
<1>1. TypeOK /\ OnceInv => AtMostOnce
  BY DEF TypeOK, OnceInv, WrittenOnce, AtMostOnce
<1> QED
  BY <1>1, OnceInvariant, PTL

(* The errors after which a mutating command may be made again without any *)
(* danger: refused, unreachable, rejected, overflow.                       *)
THEOREM FailuresBeforeWriting == Spec => []FailedUnsent
<1>1. OnceInv => FailedUnsent
  BY DEF OnceInv
<1> QED
  BY <1>1, OnceInvariant, PTL

-----------------------------------------------------------------------------
(* A try begins at "try" and goes on until the connection is lost or the   *)
(* call ends.                                                              *)
Trying == PCs \ {"idle", "factory", "sleep", "dial"}

(* Where a step of the client leaves the two counters alone it stays in    *)
(* its try, or between two tries, or ends the call.                        *)
LEMMA CountersKept ==
    ASSUME ClientStep \/ Cancel, pc \in PCs,
           ~Backoff, ~Establish, ~RedialFails
    PROVE  /\ UNCHANGED <<client, kind, cur, attempt, tries>>
           /\ pc # "idle"
           /\ \/ pc' = "idle"
              \/ pc \in Trying /\ pc' \in Trying
              \/ pc = "sleep" /\ pc' = "dial"
<1>1. CASE RefuseOversized
  BY <1>1 DEF RefuseOversized, Finish, Conclude, progress, Trying, PCs
<1>2. CASE RequireSocket
  BY <1>2 DEF RequireSocket, Go, progress, Trying, PCs
<1>3. CASE CheckExpired
  BY <1>3 DEF CheckExpired, Finish, Conclude, progress, Trying, PCs
<1>4. CASE CheckPasses
  BY <1>4 DEF CheckPasses, Go, progress, Trying, PCs
<1>5. CASE SetTimeout
  BY <1>5 DEF SetTimeout, Go, progress, Trying, PCs
<1>6. CASE SetNegativeTimeout
  BY <1>6 DEF SetNegativeTimeout, Finish, Conclude, progress, Trying, PCs
<1>7. CASE SetTimeoutFails
  BY <1>7 DEF SetTimeoutFails, Go, progress, Trying, PCs
<1>8. CASE Write
  BY <1>8 DEF Write, Go, progress, Trying, PCs
<1>9. CASE WriteTimesOut
  BY <1>9 DEF WriteTimesOut, Finish, Conclude, progress, Trying, PCs
<1>10. CASE DrainTimesOut
  BY <1>10 DEF DrainTimesOut, Conclude, progress, Trying, PCs
<1>11. CASE WriteLost
  BY <1>11 DEF WriteLost, Go, progress, Trying, PCs
<1>12. CASE ReadHeader
  BY <1>12 DEF ReadHeader, Go, progress, Trying, PCs
<1>13. CASE ReadLost
  BY <1>13 DEF ReadLost, Go, progress, Trying, PCs
<1>14. CASE ReadTimesOut
  BY <1>14 DEF ReadTimesOut, Finish, Conclude, progress, Trying, PCs
<1>15. CASE ReadGarbage
  BY <1>15 DEF ReadGarbage, Finish, Conclude, progress, Trying, PCs
<1>16. CASE ReadAnswer
  BY <1>16 DEF ReadAnswer, Finish, Conclude, progress, Trying, PCs
<1>17. CASE ReadPart
  BY <1>17 DEF ReadPart, Go, Finish, Conclude, progress, Trying, PCs
<1>18. CASE GiveUp
  BY <1>18 DEF GiveUp, Finish, Conclude, progress, Trying, PCs
<1>19. CASE Exhaust
  BY <1>19 DEF Exhaust, Finish, Conclude, progress, Trying, PCs, MayRetry
<1>20. CASE BackoffExpired
  BY <1>20 DEF BackoffExpired, Finish, Conclude, progress, Trying, PCs, MayRetry
<1>21. CASE BackoffOverflows
  BY <1>21 DEF BackoffOverflows, Finish, Conclude, progress, Trying, PCs, MayRetry
<1>22. CASE WakeExpired
  BY <1>22 DEF WakeExpired, Finish, Conclude, progress, Trying, PCs
<1>23. CASE Wake
  BY <1>23 DEF Wake, Go, progress, Trying, PCs
<1>24. CASE FactoryFails
  BY <1>24 DEF FactoryFails, Finish, Conclude, progress, Trying, PCs
<1>25. CASE HandshakeFails
  BY <1>25 DEF HandshakeFails, Finish, Conclude, progress, Trying, PCs
<1>26. CASE CancelWrite
  BY <1>26 DEF CancelWrite, Leave, Conclude, progress, Trying, PCs
<1>27. CASE CancelRead
  BY <1>27 DEF CancelRead, Leave, Conclude, progress, Trying, PCs
<1>28. CASE CancelSleep
  BY <1>28 DEF CancelSleep, Leave, Conclude, progress, Trying, PCs
<1>29. CASE CancelDial
  BY <1>29 DEF CancelDial, Leave, Conclude, progress, Trying, PCs
<1> QED
  BY <1>1, <1>2, <1>3, <1>4, <1>5, <1>6, <1>7, <1>8, <1>9, <1>10, <1>11,
     <1>12, <1>13, <1>14, <1>15, <1>16, <1>17, <1>18, <1>19, <1>20, <1>21,
     <1>22, <1>23, <1>24, <1>25, <1>26, <1>27, <1>28, <1>29
     DEF ClientStep, Cancel

(* Only the two places that raise FQConnectionError end a call as lost.    *)
LEMMA OtherEndings ==
    ASSUME ClientStep \/ Cancel, ~GiveUp, ~Exhaust
    PROVE  outcome' = outcome \/ \E o \in Outcomes \ {"lost"} :
                                   outcome' = [outcome EXCEPT ![cur] = o]
<1>1. CASE RefuseOversized
  BY <1>1 DEF RefuseOversized, Finish, Conclude, Outcomes
<1>2. CASE RequireSocket
  BY <1>2 DEF RequireSocket, Go, Outcomes
<1>3. CASE CheckExpired
  BY <1>3 DEF CheckExpired, Finish, Conclude, Outcomes
<1>4. CASE CheckPasses
  BY <1>4 DEF CheckPasses, Go, Outcomes
<1>5. CASE SetTimeout
  BY <1>5 DEF SetTimeout, Go, Outcomes
<1>6. CASE SetNegativeTimeout
  BY <1>6 DEF SetNegativeTimeout, Finish, Conclude, Outcomes
<1>7. CASE SetTimeoutFails
  BY <1>7 DEF SetTimeoutFails, Go, Outcomes
<1>8. CASE Write
  BY <1>8 DEF Write, Go, Outcomes
<1>9. CASE WriteTimesOut
  BY <1>9 DEF WriteTimesOut, Finish, Conclude, Outcomes
<1>10. CASE WriteLost
  BY <1>10 DEF WriteLost, Go, Outcomes
<1>11. CASE ReadHeader
  BY <1>11 DEF ReadHeader, Go, Outcomes
<1>12. CASE ReadLost
  BY <1>12 DEF ReadLost, Go, Outcomes
<1>13. CASE ReadTimesOut
  BY <1>13 DEF ReadTimesOut, Finish, Conclude, Outcomes
<1>14. CASE ReadGarbage
  BY <1>14 DEF ReadGarbage, Finish, Conclude, Outcomes
<1>15. CASE ReadAnswer
  BY <1>15 DEF ReadAnswer, Finish, Conclude, Outcomes
<1>16. CASE ReadPart
  BY <1>16 DEF ReadPart, Go, Finish, Conclude, Outcomes
<1>17. CASE BackoffExpired
  BY <1>17 DEF BackoffExpired, Finish, Conclude, Outcomes
<1>18. CASE BackoffOverflows
  BY <1>18 DEF BackoffOverflows, Finish, Conclude, Outcomes
<1>19. CASE Backoff
  BY <1>19 DEF Backoff, Go, Outcomes
<1>20. CASE WakeExpired
  BY <1>20 DEF WakeExpired, Finish, Conclude, Outcomes
<1>21. CASE Wake
  BY <1>21 DEF Wake, Go, Outcomes
<1>22. CASE Establish
  BY <1>22 DEF Establish, Connected, Outcomes
<1>23. CASE RedialFails
  BY <1>23 DEF RedialFails, Go, Outcomes
<1>24. CASE FactoryFails
  BY <1>24 DEF FactoryFails, Finish, Conclude, Outcomes
<1>25. CASE HandshakeFails
  BY <1>25 DEF HandshakeFails, Finish, Conclude, Outcomes
<1>26. CASE DrainTimesOut
  BY <1>26 DEF DrainTimesOut, Conclude, Outcomes
<1>27. CASE CancelWrite
  BY <1>27 DEF CancelWrite, Leave, Conclude, Outcomes
<1>28. CASE CancelRead
  BY <1>28 DEF CancelRead, Leave, Conclude, Outcomes
<1>29. CASE CancelSleep
  BY <1>29 DEF CancelSleep, Leave, Conclude, Outcomes
<1>30. CASE CancelDial
  BY <1>30 DEF CancelDial, Leave, Closed, Conclude, Outcomes
<1> QED
  BY <1>1, <1>2, <1>3, <1>4, <1>5, <1>6, <1>7, <1>8, <1>9, <1>10,
     <1>11, <1>12, <1>13, <1>14, <1>15, <1>16, <1>17, <1>18, <1>19,
     <1>20, <1>21, <1>22, <1>23, <1>24, <1>25, <1>26, <1>27, <1>28,
     <1>29, <1>30
     DEF ClientStep, Cancel

(* BudgetInv is inductive, next to OnceInv.                                *)
LEMMA BudgetStep ==
    ASSUME TypeOK, TypeOK', OnceInv, BudgetInv, [Next]_vars
    PROVE  BudgetInv'
<1>c. UNCHANGED client
  BY ClientTallies DEF Next, Begin, Stop, Tick, Environment, vars
<1>n. /\ attempt \in Nat /\ tries \in Nat /\ pc \in PCs
      /\ client.maxAttempts # Unlimited => client.maxAttempts \in Nat
  BY CallAssumption DEF TypeOK
<1>b. /\ client.maxAttempts # Unlimited => attempt <= client.maxAttempts
      /\ client.maxAttempts # Unlimited => tries <= client.maxAttempts + 1
  BY DEF BudgetInv, BudgetKept
<1>1. CASE Begin
  <2>1. /\ pc' \in {"try", "factory"} /\ attempt' = 0
        /\ pc' = "try" => tries' = 1
        /\ pc' = "factory" => tries' = 0
    BY <1>1 DEF Begin
  <2> QED
    BY <1>c, <1>n, <2>1 DEF BudgetInv, BudgetKept, Ended
<1>2. CASE Tick \/ Stop \/ Environment \/ UNCHANGED vars
  <2>1. UNCHANGED <<client, kind, pc, cur, attempt, tries, outcome, inFlight>>
    BY <1>2 DEF Tick, Stop, Environment, vars
  <2> QED
    BY <2>1 DEF BudgetInv, BudgetKept, Ended, ReadOnly
<1>3. CASE Backoff
  <2>1. /\ pc = "lost" /\ pc' = "sleep" /\ attempt' = attempt + 1 /\ tries' = tries
        /\ ~Exhausted(attempt + 1)
    BY <1>3 DEF Backoff, MayRetry, Go, progress
  <2>2. tries = attempt + 1
    BY <2>1 DEF BudgetInv, PCs
  <2>3. client.maxAttempts # Unlimited => attempt + 1 <= client.maxAttempts
    BY <1>n, <2>1 DEF Exhausted
  <2> QED
    BY <1>c, <1>n, <2>1, <2>2, <2>3 DEF BudgetInv, BudgetKept, Ended
<1>4. CASE Establish \/ RedialFails
  <2>1. /\ pc \in {"factory", "dial"} /\ pc' = "try" /\ attempt' = attempt
        /\ tries' = tries + 1
    BY <1>4 DEF Establish, RedialFails
  <2>2. tries = attempt
    BY <2>1 DEF BudgetInv
  <2> QED
    BY <1>c, <1>n, <1>b, <2>1, <2>2 DEF BudgetInv, BudgetKept, Ended
<1>5. CASE (ClientStep \/ Cancel) /\ ~Backoff /\ ~Establish /\ ~RedialFails
  <2>1. /\ UNCHANGED <<client, kind, cur, attempt, tries>>
        /\ pc # "idle"
        /\ \/ pc' = "idle"
           \/ pc \in Trying /\ pc' \in Trying
           \/ pc = "sleep" /\ pc' = "dial"
    BY <1>n, <1>5, CountersKept
  <2>2. CASE pc' # "idle"
    <3>1. ~Ended("lost")'
      BY <2>2 DEF Ended
    <3>2. /\ pc' # "factory"
          /\ pc' \in {"sleep", "dial"} => tries = attempt
          /\ pc' \in Trying => tries = attempt + 1
      BY <2>1, <2>2 DEF BudgetInv, Trying
    <3> QED
      BY <1>b, <2>1, <2>2, <3>1, <3>2 DEF BudgetInv, BudgetKept, Trying
  <2>3. CASE pc' = "idle"
    <3>1. Ended("lost")' => \/ inFlight' /\ ~ReadOnly(cur)'
                            \/ client'.maxAttempts # Unlimited
                               /\ tries' = client'.maxAttempts + 1
      <4>1. CASE GiveUp
        BY <2>1, <4>1 DEF GiveUp, ReadOnly
      <4>2. CASE Exhaust
        <5>1. pc = "lost" /\ Exhausted(attempt + 1)
          BY <4>2 DEF Exhaust, MayRetry
        <5>2. tries = attempt + 1
          BY <5>1 DEF BudgetInv, PCs
        <5>3. client.maxAttempts # Unlimited /\ attempt + 1 = client.maxAttempts + 1
          BY <1>n, <1>b, <5>1 DEF Exhausted
        <5> QED
          BY <1>c, <2>1, <5>2, <5>3
      <4>3. CASE ~GiveUp /\ ~Exhaust
        <5>1. cur \in Calls /\ outcome[cur] # "lost"
          BY <1>5, <2>1, CurrentCall DEF OnceInv, FutureUntouched
        <5>2. outcome' = outcome \/ \E o \in Outcomes \ {"lost"} :
                                      outcome' = [outcome EXCEPT ![cur] = o]
          BY <1>5, <4>3, OtherEndings
        <5>3. outcome'[cur] # "lost"
          BY <5>1, <5>2 DEF TypeOK
        <5> QED
          BY <2>1, <5>3 DEF Ended
      <4> QED
        BY <4>1, <4>2, <4>3
    <3> QED
      BY <1>b, <2>1, <2>3, <3>1 DEF BudgetInv, BudgetKept
  <2> QED
    BY <2>2, <2>3
<1> QED
  BY <1>1, <1>2, <1>3, <1>4, <1>5 DEF Next

(* ReconnectPolicy.exhausted in _with_retry: with max_attempts = N no call *)
(* is tried more than N + 1 times, and a lost connection that ends one     *)
(* with no mutating request out finds it tried exactly so often; without a *)
(* budget that never happens.                                              *)
THEOREM AttemptsAreBounded == Spec => []BudgetKept
<1>1. Init => BudgetInv
  BY CallAssumption DEF Init, BudgetInv, BudgetKept, Ended
<1>2. TypeOK /\ TypeOK' /\ OnceInv /\ BudgetInv /\ [Next]_vars => BudgetInv'
  BY BudgetStep
<1>3. BudgetInv => BudgetKept
  BY DEF BudgetInv
<1> QED
  BY <1>1, <1>2, <1>3, OnceInvariant, PTL DEF Spec
=============================================================================

------------------------ MODULE AuditPipelineProofs ------------------------
(***************************************************************************)
(* The safety of the audit pipeline, for every set of events and workers,  *)
(* every batch size, every number of attempts and every length of stream.  *)
(***************************************************************************)
EXTENDS AuditPipeline, SequenceTheorems, TLAPS

USE DEF redisVars, workerVars, Phases, Goto

\* The phases in which a worker is at the first entry of its batch.
Busy == {"writing", "acking", "dlq_add", "dlq_ack"}
-----------------------------------------------------------------------------
(* Sequences.                                                              *)

LEMMA HeadTail ==
    ASSUME NEW S, NEW s \in Seq(S), s # <<>>
    PROVE  /\ Len(s) \in Nat \ {0}
           /\ Head(s) = s[1] /\ s[1] \in S
           /\ Tail(s) \in Seq(S) /\ Len(Tail(s)) = Len(s) - 1
           /\ DOMAIN s = 1..Len(s) /\ DOMAIN Tail(s) = 1..(Len(s) - 1)
           /\ \A i \in 1..(Len(s) - 1) : Tail(s)[i] = s[i + 1]
OBVIOUS

LEMMA Extended ==
    ASSUME NEW S, NEW s \in Seq(S), NEW e \in S, NEW n \in Nat
    PROVE  LET t == s \o [i \in 1..n |-> e]
           IN  /\ t \in Seq(S) /\ Len(t) = Len(s) + n
               /\ \A i \in 1..Len(s) : t[i] = s[i]
               /\ n > 0 => t[Len(s) + 1] = e
<1>1. [i \in 1..n |-> e] \in Seq(S) /\ Len([i \in 1..n |-> e]) = n
  OBVIOUS
<1> QED
  BY <1>1

LEMMA Positions ==
    ASSUME NEW c \in Nat, NEW d \in Nat, c <= d
    PROVE  Seq(1..c) \subseteq Seq(1..d)
<1> SUFFICES ASSUME NEW s \in Seq(1..c) PROVE s \in Seq(1..d)
  OBVIOUS
<1>1. \A i \in 1..Len(s) : s[i] \in 1..d
  OBVIOUS
<1> QED
  BY <1>1
-----------------------------------------------------------------------------
(* Type correctness, with what the phases say of the batches.              *)

\* A worker is busy exactly while its batch has entries, all different.
WorkerInv(w) ==
    /\ phase[w] \in Busy <=> batch[w] # <<>>
    /\ \A i, j \in DOMAIN batch[w] : i # j => batch[w][i] # batch[w][j]

BusyInv == \A w \in Workers : WorkerInv(w)

LEMMA TypeInit == Init => TypeOK /\ BusyInv
<1> SUFFICES ASSUME Init PROVE TypeOK /\ BusyInv
  OBVIOUS
<1>1. <<>> \in Seq(Events) /\ Len(<<>>) = 0 /\ <<>> \in Seq(1..cursor)
  OBVIOUS
<1>2. 1 \in 1..MaxRetries /\ 0 <= MaxStream
  BY AuditPipelineAssumption
<1>3. batch \in [Workers -> Seq(1..cursor)]
  BY <1>1 DEF Init
<1>4. stream \in Seq(Events) /\ Len(stream) = 0 /\ cursor = 0
  BY <1>1 DEF Init
<1>5. TypeOK
  <2>1. pel = {} /\ dlq = {} /\ lost = {} /\ recovered \in BOOLEAN
    BY DEF Init
  <2>2. /\ gateway \in [Events -> {"new", "direct", "handed"}]
        /\ graph \in [Events -> Nat]
        /\ phase \in [Workers -> Phases]
        /\ attempt \in [Workers -> 1..MaxRetries]
    BY <1>2 DEF Init
  <2> QED
    BY <1>2, <1>3, <1>4, <2>1, <2>2 DEF TypeOK
<1>6. BusyInv
  BY DEF Init, BusyInv, WorkerInv, Busy
<1> QED
  BY <1>5, <1>6

\* A step that moves one worker leaves the others as they are.
LEMMA OneWorkerMoves ==
    ASSUME BusyInv, NEW w \in Workers, WorkerInv(w)',
           \A v \in Workers \ {w} : phase'[v] = phase[v] /\ batch'[v] = batch[v]
    PROVE  BusyInv'
BY DEF BusyInv, WorkerInv

LEMMA BatchLenFacts ==
    ASSUME TypeOK, cursor < Len(stream)
    PROVE  BatchLen \in 1..BatchSize /\ cursor + BatchLen <= Len(stream)
BY AuditPipelineAssumption DEF TypeOK, BatchLen

\* The entry a busy worker is at.
LEMMA CurrentFacts ==
    ASSUME TypeOK, BusyInv, NEW w \in Workers, phase[w] \in Busy
    PROVE  /\ batch[w] # <<>> /\ batch[w] \in Seq(1..cursor)
           /\ Head(batch[w]) \in 1..cursor /\ 1..cursor \subseteq DOMAIN stream
           /\ Current(w) \in Events
           /\ DOMAIN stream = 1..Len(stream)
<1>1. batch[w] # <<>> /\ batch[w] \in Seq(1..cursor)
  BY DEF TypeOK, BusyInv, WorkerInv
<1>2. Head(batch[w]) \in 1..cursor
  BY <1>1, HeadTail
<1> QED
  BY <1>1, <1>2 DEF TypeOK, Current

LEMMA CommittedType ==
    ASSUME TypeOK, NEW e \in Events, WriteSucceeds(e) \/ WriteFails(e)
    PROVE  graph' \in [Events -> Nat]
BY DEF TypeOK, WriteSucceeds, WriteFails, Committed

LEMMA AppendType ==
    ASSUME TypeOK, NEW e \in Events, NEW n \in Nat, AppendEntries(e, n)
    PROVE  /\ stream' \in Seq(Events) /\ Len(stream') <= MaxStream
           /\ Len(stream') = Len(stream) + n
           /\ \A i \in 1..Len(stream) : stream'[i] = stream[i]
           /\ n > 0 => stream'[Len(stream) + 1] = e
BY Extended DEF TypeOK, AppendEntries

LEMMA RequeueType ==
    ASSUME TypeOK, NEW e \in Events, Requeue(e)
    PROVE  /\ stream' \in Seq(Events) /\ Len(stream') <= MaxStream
           /\ Len(stream') = Len(stream) + 1
           /\ \A i \in 1..Len(stream) : stream'[i] = stream[i]
           /\ stream'[Len(stream) + 1] = e
BY AuditPipelineAssumption DEF TypeOK, Requeue

LEMMA ReadType ==
    ASSUME TypeOK, BusyInv, NEW w \in Workers, Read(w)
    PROVE  TypeOK' /\ BusyInv'
<1> DEFINE n == BatchLen
           new == [i \in 1..n |-> cursor + i]
<1>1. n \in 1..BatchSize /\ n \in Nat \ {0} /\ cursor + n <= Len(stream)
  BY BatchLenFacts, AuditPipelineAssumption DEF Read
<1>2. cursor' = cursor + n /\ cursor \in Nat /\ cursor' \in Nat /\ cursor <= cursor'
  BY <1>1 DEF Read, Deliver, TypeOK
<1>3. pel' \subseteq 1..cursor'
  BY <1>1, <1>2 DEF Read, Deliver, TypeOK
<1>4. new \in Seq(1..cursor') /\ new # <<>> /\ DOMAIN new = 1..n
  BY <1>1, <1>2
<1>5. batch' \in [Workers -> Seq(1..cursor')]
  <2>1. batch \in [Workers -> Seq(1..cursor')]
    BY <1>2, Positions DEF TypeOK
  <2>2. batch' = [batch EXCEPT ![w] = new]
    BY DEF Read
  <2> HIDE DEF new
  <2> QED
    BY <2>1, <2>2, <1>4
<1>6. BusyInv'
  <2> SUFFICES ASSUME NEW v \in Workers PROVE WorkerInv(v)'
    BY DEF BusyInv
  <2>1. CASE v = w
    <3>1. batch'[v] = new /\ phase'[v] = "writing"
      BY <2>1 DEF Read, TypeOK
    <3> QED
      BY <3>1, <1>1, <1>2, <1>4 DEF WorkerInv, Busy
  <2>2. CASE v # w
    BY <2>2 DEF Read, BusyInv, WorkerInv, TypeOK
  <2> QED
    BY <2>1, <2>2
<1>7. stream' = stream /\ dlq' = dlq /\ cursor' <= Len(stream)
  BY <1>1, <1>2 DEF Read, Deliver
<1>8. /\ phase' \in [Workers -> Phases]
      /\ attempt' \in [Workers -> 1..MaxRetries]
  BY AuditPipelineAssumption DEF Read, TypeOK
<1> HIDE DEF n, new
<1>9. TypeOK'
  BY <1>2, <1>3, <1>5, <1>7, <1>8 DEF TypeOK, Read
<1> QED
  BY <1>6, <1>9

LEMMA ReadLostType ==
    ASSUME TypeOK, BusyInv, NEW w \in Workers, ReadLost(w)
    PROVE  TypeOK' /\ BusyInv'
<1> DEFINE n == BatchLen
<1>1. n \in Nat \ {0} /\ cursor + n <= Len(stream)
  BY BatchLenFacts, AuditPipelineAssumption DEF ReadLost
<1>2. cursor' = cursor + n /\ cursor \in Nat /\ cursor' \in Nat /\ cursor <= cursor'
  BY <1>1 DEF ReadLost, Deliver, TypeOK
<1>3. pel' \subseteq 1..cursor'
  BY <1>1, <1>2 DEF ReadLost, Deliver, TypeOK
<1>4. batch' \in [Workers -> Seq(1..cursor')]
  BY <1>2, Positions DEF TypeOK, ReadLost
<1> HIDE DEF n
<1> QED
  BY <1>1, <1>2, <1>3, <1>4 DEF TypeOK, ReadLost, Deliver, BusyInv, WorkerInv

\* Going on to the next entry of the batch.
LEMMA NextMessageType ==
    ASSUME TypeOK, BusyInv, NEW w \in Workers, phase[w] \in Busy, NextMessage(w),
           cursor' = cursor
    PROVE  /\ phase' \in [Workers -> Phases]
           /\ batch' \in [Workers -> Seq(1..cursor')]
           /\ attempt' \in [Workers -> 1..MaxRetries]
           /\ BusyInv'
<1>1. batch[w] # <<>> /\ batch[w] \in Seq(1..cursor)
  BY CurrentFacts
<1>2. Tail(batch[w]) \in Seq(1..cursor) /\ (Tail(batch[w]) = <<>> <=> Len(batch[w]) = 1)
  <2>1. Tail(batch[w]) \in Seq(1..cursor) /\ Len(Tail(batch[w])) = Len(batch[w]) - 1
    BY <1>1, HeadTail
  <2>2. Len(batch[w]) \in Nat \ {0}
    BY <1>1, HeadTail
  <2>3. Tail(batch[w]) = <<>> <=> Len(Tail(batch[w])) = 0
    BY <2>1, EmptySeq
  <2> QED
    BY <2>1, <2>2, <2>3
<1>3. BusyInv'
  <2> SUFFICES ASSUME NEW v \in Workers PROVE WorkerInv(v)'
    BY DEF BusyInv
  <2>1. CASE v = w
    <3>1. batch'[v] = Tail(batch[w])
          /\ phase'[v] = IF Len(batch[w]) = 1 THEN "reading" ELSE "writing"
      BY <2>1 DEF NextMessage, TypeOK
    <3>2. \A i, j \in DOMAIN Tail(batch[w]) :
              i # j => Tail(batch[w])[i] # Tail(batch[w])[j]
      BY <1>1, HeadTail DEF BusyInv, WorkerInv
    <3> QED
      BY <3>1, <3>2, <1>2 DEF WorkerInv, Busy
  <2>2. CASE v # w
    BY <2>2 DEF NextMessage, BusyInv, WorkerInv, TypeOK
  <2> QED
    BY <2>1, <2>2
<1>4. phase' \in [Workers -> Phases] /\ batch' \in [Workers -> Seq(1..cursor')]
  BY <1>2 DEF NextMessage, TypeOK
<1>5. attempt' \in [Workers -> 1..MaxRetries]
  BY AuditPipelineAssumption DEF NextMessage, TypeOK
<1> QED
  BY <1>3, <1>4, <1>5

LEMMA TypeStep == TypeOK /\ BusyInv /\ [Next]_vars => TypeOK' /\ BusyInv'
<1> SUFFICES ASSUME TypeOK, BusyInv, [Next]_vars PROVE TypeOK' /\ BusyInv'
  OBVIOUS
<1>1. ASSUME NEW e \in Events, Xadd(e) PROVE TypeOK' /\ BusyInv'
  <2>1. PICK n \in 1..2 : AppendEntries(e, n)
    BY <1>1 DEF Xadd
  <2>2. stream' \in Seq(Events) /\ Len(stream') <= MaxStream
        /\ Len(stream') = Len(stream) + n
    BY <2>1, AppendType
  <2> QED
    BY <1>1, <2>1, <2>2 DEF Xadd, AppendEntries, TypeOK, BusyInv, WorkerInv
<1>2. ASSUME NEW e \in Events, XaddRaises(e) PROVE TypeOK' /\ BusyInv'
  <2>1. PICK n \in 0..2 : AppendEntries(e, n)
    BY <1>2 DEF XaddRaises
  <2>2. stream' \in Seq(Events) /\ Len(stream') <= MaxStream
        /\ Len(stream') = Len(stream) + n
    BY <2>1, AppendType
  <2>3. cursor' \in 0..Len(stream')
    BY <2>1, <2>2 DEF AppendEntries, TypeOK
  <2>4. TypeOK'
    BY <1>2, <2>1, <2>2, <2>3 DEF XaddRaises, AppendEntries, TypeOK
  <2> QED
    BY <1>2, <2>4 DEF XaddRaises, BusyInv, WorkerInv
<1>3. ASSUME NEW e \in Events, DirectWrite(e) PROVE TypeOK' /\ BusyInv'
  <2>1. graph' \in [Events -> Nat]
    BY <1>3, CommittedType DEF DirectWrite
  <2> QED
    BY <1>3, <2>1 DEF DirectWrite, TypeOK, BusyInv, WorkerInv
<1>4. ASSUME NEW e \in Events, Requeue(e) PROVE TypeOK' /\ BusyInv'
  <2>1. stream' \in Seq(Events) /\ Len(stream') <= MaxStream
        /\ Len(stream') = Len(stream) + 1
    BY <1>4, RequeueType
  <2> QED
    BY <1>4, <2>1 DEF Requeue, TypeOK, BusyInv, WorkerInv
<1>5. ASSUME NEW w \in Workers, Start(w) PROVE TypeOK' /\ BusyInv'
  BY <1>5 DEF Start, TypeOK, BusyInv, WorkerInv, Busy
<1>6. ASSUME NEW w \in Workers, Write(w) PROVE TypeOK' /\ BusyInv'
  <2>1. graph' \in [Events -> Nat]
    BY <1>6, CurrentFacts, CommittedType DEF Write, Busy
  <2> QED
    BY <1>6, <2>1 DEF Write, TypeOK, BusyInv, WorkerInv, Busy
<1>7. ASSUME NEW w \in Workers, WriteAgain(w) PROVE TypeOK' /\ BusyInv'
  <2>1. graph' \in [Events -> Nat]
    BY <1>7, CurrentFacts, CommittedType DEF WriteAgain, Busy
  <2>2. attempt' \in [Workers -> 1..MaxRetries]
    <3>1. attempt[w] \in 1..MaxRetries
      BY DEF TypeOK
    <3>2. CASE attempt[w] < MaxRetries /\ attempt' = [attempt EXCEPT ![w] = @ + 1]
      <4>1. attempt[w] + 1 \in 1..MaxRetries
        BY <3>1, <3>2, AuditPipelineAssumption
      <4> QED
        BY <3>2, <4>1 DEF TypeOK
    <3>3. CASE attempt' = attempt
      BY <3>3 DEF TypeOK
    <3> QED
      BY <1>7, <3>2, <3>3 DEF WriteAgain
  <2>3. TypeOK'
    BY <1>7, <2>1, <2>2 DEF WriteAgain, TypeOK
  <2> QED
    <3>1. WorkerInv(w)'
      BY <1>7 DEF WriteAgain, BusyInv, WorkerInv, Busy, TypeOK
    <3> QED
      BY <1>7, <2>3, <3>1, OneWorkerMoves DEF WriteAgain, TypeOK
<1>8. ASSUME NEW w \in Workers, MoveToDlq(w) PROVE TypeOK' /\ BusyInv'
  <2>1. Current(w) \in Events
    BY <1>8, CurrentFacts DEF MoveToDlq, Busy
  <2> QED
    BY <1>8, <2>1 DEF MoveToDlq, TypeOK, BusyInv, WorkerInv, Busy
<1>9. ASSUME NEW w \in Workers, Ack(w) PROVE TypeOK' /\ BusyInv'
  <2>1. phase[w] \in Busy /\ cursor' = cursor
    BY <1>9 DEF Ack, Acknowledge, Busy
  <2>2. /\ phase' \in [Workers -> Phases]
        /\ batch' \in [Workers -> Seq(1..cursor')]
        /\ attempt' \in [Workers -> 1..MaxRetries]
        /\ BusyInv'
    BY <1>9, <2>1, NextMessageType DEF Ack
  <2> QED
    BY <1>9, <2>2 DEF Ack, Acknowledge, TypeOK
<1>10. ASSUME NEW w \in Workers, AckRaises(w) PROVE TypeOK' /\ BusyInv'
  <2>1. 1 \in 1..MaxRetries /\ <<>> \in Seq(1..cursor)
    BY AuditPipelineAssumption
  <2>2. pel' \subseteq pel /\ UNCHANGED <<stream, cursor, dlq>>
    BY <1>10 DEF AckRaises, Acknowledge
  <2>3. TypeOK'
    BY <1>10, <2>1, <2>2 DEF AckRaises, TypeOK
  <2>4. phase'[w] = "reading" /\ batch'[w] = <<>>
    BY <1>10 DEF AckRaises, TypeOK
  <2>5. WorkerInv(w)'
    BY <2>4 DEF WorkerInv, Busy
  <2> QED
    BY <1>10, <2>3, <2>5, OneWorkerMoves DEF AckRaises, TypeOK
<1>11. ASSUME NEW w \in Workers, Crash(w) PROVE TypeOK' /\ BusyInv'
  BY <1>11, AuditPipelineAssumption DEF Crash, TypeOK, BusyInv, WorkerInv, Busy
<1>12. CASE Recover
  BY <1>12 DEF Recover, TypeOK, BusyInv, WorkerInv
<1>13. CASE UNCHANGED vars
  BY <1>13 DEF vars, TypeOK, BusyInv, WorkerInv
<1> QED
  BY <1>1, <1>2, <1>3, <1>4, <1>5, <1>6, <1>7, <1>8, <1>9, <1>10, <1>11, <1>12,
     <1>13, ReadType, ReadLostType DEF Next, GatewayStep, WorkerStep, ReadNothing

(* Every variable keeps its type, and a worker never looks at the head of  *)
(* an empty batch.                                                         *)
THEOREM TypeCorrect == Spec => [](TypeOK /\ BusyInv)
BY TypeInit, TypeStep, PTL DEF Spec
-----------------------------------------------------------------------------
(* What the workers hold.                                                  *)

\* A worker with an empty batch holds nothing.
LEMMA HeldEmpty ==
    ASSUME NEW w \in Workers, batch[w] = <<>> PROVE Held(w) = {}
BY DEF Held

LEMMA HeldTypes ==
    ASSUME TypeOK, BusyInv, NEW w \in Workers
    PROVE  /\ Held(w) \subseteq 1..cursor
           /\ phase[w] \in Busy => Head(batch[w]) \in Held(w)
<1>1. Held(w) \subseteq 1..cursor
  BY DEF Held, TypeOK
<1>2. ASSUME phase[w] \in Busy PROVE Head(batch[w]) \in Held(w)
  <2>1. batch[w] # <<>> /\ batch[w] \in Seq(1..cursor)
    BY <1>2, CurrentFacts
  <2>2. Head(batch[w]) = batch[w][1] /\ 1 \in DOMAIN batch[w]
    BY <2>1, HeadTail
  <2> QED
    BY <2>2 DEF Held
<1> QED
  BY <1>1, <1>2

\* The entry a worker acknowledges is no longer among those it holds.
LEMMA AckHeld ==
    ASSUME TypeOK, BusyInv, NEW w \in Workers, Ack(w)
    PROVE  /\ Held(w)' \subseteq Held(w) \ {Head(batch[w])}
           /\ \A v \in Workers \ {w} : Held(v)' = Held(v)
<1>1. phase[w] \in Busy
  BY DEF Ack, Busy
<1>2. batch[w] # <<>> /\ batch[w] \in Seq(1..cursor)
  BY <1>1, CurrentFacts
<1>3. batch'[w] = Tail(batch[w]) /\ \A v \in Workers \ {w} : batch'[v] = batch[v]
  BY DEF Ack, NextMessage, TypeOK
<1>4. Head(batch[w]) = batch[w][1] /\ DOMAIN Tail(batch[w]) = 1..(Len(batch[w]) - 1)
      /\ DOMAIN batch[w] = 1..Len(batch[w]) /\ Len(batch[w]) \in Nat \ {0}
      /\ \A i \in 1..(Len(batch[w]) - 1) : Tail(batch[w])[i] = batch[w][i + 1]
  BY <1>2, HeadTail
<1>5. \A i \in DOMAIN Tail(batch[w]) :
          Tail(batch[w])[i] \in Held(w) /\ Tail(batch[w])[i] # Head(batch[w])
  BY <1>4 DEF Held, BusyInv, WorkerInv
<1> QED
  BY <1>3, <1>5 DEF Held

\* What a Read delivers is new to everybody.
LEMMA ReadHeld ==
    ASSUME TypeOK, NEW w \in Workers, Read(w)
    PROVE  /\ Held(w)' \subseteq pel' /\ Held(w)' \cap 1..cursor = {}
           /\ \A v \in Workers \ {w} : Held(v)' = Held(v)
           /\ pel \subseteq pel'
<1> DEFINE n == BatchLen
<1>1. n \in Nat /\ cursor \in Nat
  BY BatchLenFacts, AuditPipelineAssumption DEF Read, TypeOK
<1>2. batch'[w] = [i \in 1..n |-> cursor + i]
      /\ \A v \in Workers \ {w} : batch'[v] = batch[v]
  BY DEF Read, TypeOK
<1>3. pel' = pel \cup (cursor + 1)..(cursor + n)
  BY DEF Read, Deliver
<1> HIDE DEF n
<1>4. Held(w)' = {cursor + i : i \in 1..n}
  BY <1>2 DEF Held
<1> QED
  BY <1>1, <1>2, <1>3, <1>4 DEF Held

\* Any other step of a worker drops its whole batch or leaves it.
LEMMA DroppedHeld ==
    ASSUME TypeOK, NEW w \in Workers, batch' = [batch EXCEPT ![w] = <<>>]
    PROVE  Held(w)' = {} /\ \A v \in Workers \ {w} : Held(v)' = Held(v)
BY DEF Held, TypeOK

\* What every step does to what the workers hold and to the pending entries.
LEMMA HeldStep ==
    ASSUME TypeOK, BusyInv, [Next]_vars
    PROVE  \/ \E w \in Workers : Read(w)
           \/ \E w \in Workers :
                 /\ Held(w)' \subseteq Held(w) \ {Head(batch[w])}
                 /\ \A v \in Workers \ {w} : Held(v)' = Held(v)
                 /\ phase[w] \in Busy /\ pel' = pel \ {Head(batch[w])}
           \/ /\ \A w \in Workers : Held(w)' \subseteq Held(w)
              /\ pel \subseteq pel'
<1> DEFINE LetGo == /\ \A w \in Workers : Held(w)' \subseteq Held(w)
                    /\ pel \subseteq pel'
           Acked(w) == /\ Held(w)' \subseteq Held(w) \ {Head(batch[w])}
                       /\ \A v \in Workers \ {w} : Held(v)' = Held(v)
                       /\ phase[w] \in Busy /\ pel' = pel \ {Head(batch[w])}
<1>1. ASSUME UNCHANGED <<batch, pel>> PROVE LetGo
  BY <1>1 DEF Held
<1>2. ASSUME NEW e \in Events, GatewayStep(e) \/ Requeue(e) PROVE LetGo
  BY <1>1, <1>2 DEF GatewayStep, Requeue, Xadd, XaddRaises, DirectWrite, AppendEntries
<1>3. ASSUME NEW w \in Workers, Start(w) \/ Write(w) \/ WriteAgain(w) \/ MoveToDlq(w)
      PROVE  LetGo
  BY <1>1, <1>3 DEF Start, Write, WriteAgain, MoveToDlq
<1>4. ASSUME NEW w \in Workers, ReadLost(w) PROVE LetGo
  BY <1>4 DEF ReadLost, Deliver, Held
<1>5. ASSUME NEW w \in Workers, Ack(w) PROVE Acked(w)
  BY <1>5, AckHeld DEF Ack, Acknowledge, Busy
<1>6. ASSUME NEW w \in Workers, AckRaises(w) PROVE LetGo \/ Acked(w)
  <2>1. Held(w)' = {} /\ \A v \in Workers \ {w} : Held(v)' = Held(v)
    BY <1>6, DroppedHeld DEF AckRaises
  <2>2. phase[w] \in Busy /\ (pel' = pel \/ pel' = pel \ {Head(batch[w])})
    BY <1>6 DEF AckRaises, Acknowledge, Busy
  <2>3. CASE pel' = pel
    BY <2>1, <2>3
  <2>4. CASE pel' = pel \ {Head(batch[w])}
    BY <2>1, <2>2, <2>4
  <2> QED
    BY <2>2, <2>3, <2>4
<1>7. ASSUME NEW w \in Workers, Crash(w) PROVE LetGo
  BY <1>7, DroppedHeld DEF Crash
<1>8. ASSUME Recover \/ UNCHANGED vars PROVE LetGo
  BY <1>1, <1>8 DEF Recover, vars
<1>9. ASSUME NEW w \in Workers, WorkerStep(w)
      PROVE  Read(w) \/ Acked(w) \/ LetGo
  BY <1>3, <1>4, <1>5, <1>6, <1>9 DEF WorkerStep
<1> HIDE DEF LetGo
<1> QED
  <2>1. \/ \E w \in Workers : WorkerStep(w) /\ ~LetGo
        \/ LetGo
    BY <1>2, <1>7, <1>8 DEF Next, ReadNothing
  <2> QED
    BY <1>9, <2>1 DEF LetGo

LEMMA BatchesStep ==
    ASSUME TypeOK, BusyInv, BatchesAreDelivered, [Next]_vars
    PROVE  BatchesAreDelivered'
<1>1. ASSUME NEW w \in Workers, Read(w) PROVE BatchesAreDelivered'
  <2>1. \A v \in Workers : Held(v) \subseteq 1..cursor
    BY HeldTypes
  <2> QED
    BY <1>1, <2>1, ReadHeld DEF BatchesAreDelivered
<1>2. ASSUME NEW w \in Workers,
             Held(w)' \subseteq Held(w) \ {Head(batch[w])},
             \A v \in Workers \ {w} : Held(v)' = Held(v),
             phase[w] \in Busy, pel' = pel \ {Head(batch[w])}
      PROVE  BatchesAreDelivered'
  <2>1. Head(batch[w]) \in Held(w)
    BY <1>2, HeldTypes
  <2> QED
    BY <1>2, <2>1 DEF BatchesAreDelivered
<1>3. ASSUME \A w \in Workers : Held(w)' \subseteq Held(w), pel \subseteq pel'
      PROVE  BatchesAreDelivered'
  BY <1>3 DEF BatchesAreDelivered
<1> QED
  BY <1>1, <1>2, <1>3, HeldStep

LEMMA OrphansStep ==
    ASSUME TypeOK, BusyInv, [Next]_vars, NEW i \in pel,
           \A w \in Workers : i \notin Held(w)
    PROVE  i \in pel' /\ \A w \in Workers : i \notin Held(w)'
<1>1. i \in 1..cursor
  BY DEF TypeOK
<1>2. ASSUME NEW w \in Workers, phase[w] \in Busy PROVE i # Head(batch[w])
  BY <1>2, HeldTypes
<1> QED
  BY <1>1, <1>2, HeldStep, ReadHeld
-----------------------------------------------------------------------------
LEMMA BatchesHold == Spec => [](TypeOK /\ BusyInv /\ BatchesAreDelivered)
<1>1. Init => BatchesAreDelivered
  BY HeldEmpty DEF Init, BatchesAreDelivered
<1> QED
  BY <1>1, BatchesStep, TypeInit, TypeStep, PTL DEF Spec

(* XREADGROUP gives every entry to one worker only, and an XACK removes    *)
(* nothing but the entry of the worker that sends it.                      *)
THEOREM BatchesDelivered == Spec => []BatchesAreDelivered
BY BatchesHold, PTL

(* Nothing claims an entry that was delivered and dropped.                 *)
THEOREM OrphansAreFinal == Spec => OrphansStay
<1>1. TypeOK /\ BusyInv /\ [Next]_vars =>
          [\A i \in pel : (\A w \in Workers : i \notin Held(w)) =>
              /\ i \in pel'
              /\ \A w \in Workers : i \notin Held(w)']_vars
  BY OrphansStep
<1> QED
  BY <1>1, BatchesHold, PTL DEF Spec, OrphansStay
-----------------------------------------------------------------------------
(* Conservation.  While a worker acknowledges an entry it moved to the     *)
(* DLQ, an operator may requeue the event: what counts is an entry that    *)
(* no such acknowledgement is about to remove.                             *)

Waiting(e) ==
    \E i \in Unfinished :
        /\ stream[i] = e
        /\ \A w \in Workers : phase[w] = "dlq_ack" => Head(batch[w]) # i

Safe(e) == graph[e] > 0 \/ e \in dlq \/ e \in lost \/ Waiting(e)

\* An entry that is acknowledged as written was written.
AckedIsWritten ==
    \A w \in Workers : phase[w] = "acking" => graph[Current(w)] > 0

PipelineInv ==
    /\ \A e \in Events : gateway[e] = "handed" => Safe(e)
    /\ AckedIsWritten

\* The graph only grows.
LEMMA GraphStep ==
    ASSUME TypeOK, NEW e \in Events, WriteSucceeds(e) \/ WriteFails(e)
    PROVE  \A f \in Events : graph[f] > 0 => graph'[f] > 0
<1>1. CASE WriteSucceeds(e)
  <2>1. graph[e] = 0 /\ graph' = [graph EXCEPT ![e] = 1]
    BY <1>1 DEF WriteSucceeds, Accepts, Committed
  <2> QED
    BY <2>1 DEF TypeOK
<1>2. CASE UNCHANGED graph
  BY <1>2
<1> QED
  BY <1>1, <1>2 DEF WriteFails

\* Entries appended to the stream disturb nothing.
LEMMA AppendKeeps ==
    ASSUME TypeOK, BusyInv, PipelineInv, UNCHANGED <<cursor, pel, graph, workerVars>>,
           stream' \in Seq(Events), Len(stream) <= Len(stream'),
           \A i \in 1..Len(stream) : stream'[i] = stream[i]
    PROVE  /\ AckedIsWritten'
           /\ \A e \in Events : Waiting(e) => Waiting(e)'
<1>1. \A w \in Workers : phase[w] \in Busy => Head(batch[w]) \in 1..Len(stream)
  BY CurrentFacts
<1>2. AckedIsWritten'
  BY <1>1 DEF AckedIsWritten, PipelineInv, Current, Busy
<1>3. ASSUME NEW e \in Events, Waiting(e) PROVE Waiting(e)'
  <2>1. PICK i \in Unfinished :
            /\ stream[i] = e
            /\ \A w \in Workers : phase[w] = "dlq_ack" => Head(batch[w]) # i
    BY <1>3 DEF Waiting
  <2>2. i \in 1..Len(stream) /\ i \in Unfinished'
    BY DEF Unfinished, TypeOK
  <2> QED
    BY <2>1, <2>2 DEF Waiting
<1> QED
  BY <1>2, <1>3 DEF PipelineInv

\* The entry after the last one is unread, so nobody is about to remove it.
LEMMA AppendedWaits ==
    ASSUME TypeOK, BusyInv, NEW e \in Events, UNCHANGED <<cursor, pel, workerVars>>,
           stream' \in Seq(Events), Len(stream) < Len(stream'),
           stream'[Len(stream) + 1] = e
    PROVE  Waiting(e)'
<1>1. \A w \in Workers : phase[w] \in Busy => Head(batch[w]) \in 1..cursor
  BY CurrentFacts
<1>2. Len(stream) + 1 \in Unfinished' /\ cursor < Len(stream) + 1
  BY DEF Unfinished, TypeOK
<1>3. \A w \in Workers : phase[w] = "dlq_ack" => Head(batch[w]) # Len(stream) + 1
  BY <1>1, <1>2 DEF Busy, TypeOK
<1> QED
  BY <1>2, <1>3 DEF Waiting

LEMMA GatewayKeeps ==
    ASSUME TypeOK, BusyInv, PipelineInv, NEW e \in Events, GatewayStep(e) \/ Requeue(e)
    PROVE  PipelineInv'
<1>1. CASE Xadd(e)
  <2>1. PICK n \in 1..2 : AppendEntries(e, n)
    BY <1>1 DEF Xadd
  <2>2. /\ stream' \in Seq(Events) /\ Len(stream') = Len(stream) + n /\ n > 0
        /\ \A i \in 1..Len(stream) : stream'[i] = stream[i]
        /\ stream'[Len(stream) + 1] = e
    BY <2>1, AppendType
  <2>3. Len(stream) < Len(stream') /\ Len(stream) <= Len(stream')
    BY <2>2 DEF TypeOK
  <2>4. UNCHANGED <<cursor, pel, dlq, graph, workerVars, lost>>
    BY <1>1, <2>1 DEF Xadd, AppendEntries
  <2>5. Waiting(e)'
    BY <2>2, <2>3, <2>4, AppendedWaits
  <2>6. AckedIsWritten' /\ \A f \in Events : Waiting(f) => Waiting(f)'
    BY <2>2, <2>3, <2>4, AppendKeeps
  <2>7. \A f \in Events \ {e} : gateway'[f] = gateway[f]
    BY <1>1 DEF Xadd, TypeOK
  <2> QED
    BY <2>4, <2>5, <2>6, <2>7 DEF PipelineInv, Safe
<1>2. CASE XaddRaises(e)
  <2>1. PICK n \in 0..2 : AppendEntries(e, n)
    BY <1>2 DEF XaddRaises
  <2>2. /\ stream' \in Seq(Events) /\ Len(stream') = Len(stream) + n
        /\ \A i \in 1..Len(stream) : stream'[i] = stream[i]
    BY <2>1, AppendType
  <2>3. Len(stream) <= Len(stream')
    BY <2>2 DEF TypeOK
  <2>4. UNCHANGED <<cursor, pel, dlq, graph, workerVars, lost>>
    BY <1>2, <2>1 DEF XaddRaises, AppendEntries
  <2>5. AckedIsWritten' /\ \A f \in Events : Waiting(f) => Waiting(f)'
    BY <2>2, <2>3, <2>4, AppendKeeps
  <2>6. \A f \in Events : gateway'[f] = "handed" => gateway[f] = "handed"
    BY <1>2 DEF XaddRaises, TypeOK
  <2> QED
    BY <2>4, <2>5, <2>6 DEF PipelineInv, Safe
<1>3. CASE DirectWrite(e)
  <2>1. UNCHANGED <<redisVars, workerVars>>
        /\ \/ WriteSucceeds(e) /\ lost' = lost
           \/ WriteFails(e) /\ lost' = lost \cup {e}
    BY <1>3 DEF DirectWrite
  <2>2. \A f \in Events : graph[f] > 0 => graph'[f] > 0
    BY <2>1, GraphStep DEF PipelineInv
  <2>3. \A f \in Events : Waiting(f)' <=> Waiting(f)
    BY <2>1 DEF Waiting, Unfinished
  <2>4. AckedIsWritten'
    BY <2>1, <2>2, CurrentFacts DEF PipelineInv, AckedIsWritten, Current, Busy
  <2>5. Safe(e)'
    <3>1. CASE WriteSucceeds(e)
      BY <3>1 DEF WriteSucceeds, Accepts, Committed, Safe, TypeOK
    <3>2. CASE lost' = lost \cup {e}
      BY <3>2 DEF Safe
    <3> QED
      BY <2>1, <3>1, <3>2
  <2>6. \A f \in Events \ {e} : gateway'[f] = gateway[f]
    BY <1>3 DEF DirectWrite, TypeOK
  <2>7. \A f \in Events : Safe(f) => Safe(f)'
    BY <2>1, <2>2, <2>3 DEF Safe
  <2> QED
    BY <2>2, <2>4, <2>5, <2>6, <2>7 DEF PipelineInv
<1>4. CASE Requeue(e)
  <2>1. /\ stream' \in Seq(Events) /\ Len(stream') = Len(stream) + 1
        /\ \A i \in 1..Len(stream) : stream'[i] = stream[i]
        /\ stream'[Len(stream) + 1] = e
    BY <1>4, RequeueType
  <2>2. Len(stream) < Len(stream') /\ Len(stream) <= Len(stream')
    BY <2>1 DEF TypeOK
  <2>3. /\ UNCHANGED <<cursor, pel, graph, workerVars, lost, gateway>>
        /\ \A f \in Events \ {e} : f \in dlq => f \in dlq'
    BY <1>4 DEF Requeue
  <2>4. Waiting(e)'
    BY <2>1, <2>2, <2>3, AppendedWaits
  <2>5. AckedIsWritten' /\ \A f \in Events : Waiting(f) => Waiting(f)'
    BY <2>1, <2>2, <2>3, AppendKeeps
  <2> QED
    BY <2>3, <2>4, <2>5 DEF PipelineInv, Safe
<1> QED
  BY <1>1, <1>2, <1>3, <1>4 DEF GatewayStep

\* A worker that writes, gives up on or starts with an entry.
LEMMA WriteKeeps ==
    ASSUME TypeOK, BusyInv, PipelineInv, NEW w \in Workers,
           UNCHANGED <<gateway, stream, cursor, pel, batch>>,
           phase' = [phase EXCEPT ![w] = phase'[w]],
           lost \subseteq lost', dlq \subseteq dlq',
           \A f \in Events : graph[f] > 0 => graph'[f] > 0,
           phase'[w] = "acking" => graph'[Current(w)] > 0,
           phase'[w] = "dlq_ack" => Current(w) \in dlq' \cup lost',
           phase'[w] # phase[w] => phase[w] \notin {"acking", "dlq_ack"}
    PROVE  PipelineInv'
<1>1. \A v \in Workers : Current(v)' = Current(v)
  BY DEF Current
<1>2. \A v \in Workers \ {w} : phase'[v] = phase[v]
  BY DEF TypeOK
<1>3. AckedIsWritten'
  <2> SUFFICES ASSUME NEW v \in Workers, phase'[v] = "acking"
               PROVE  graph'[Current(v)] > 0
    BY <1>1 DEF AckedIsWritten
  <2>1. CASE v = w
    BY <2>1
  <2>2. CASE v # w
    <3>1. phase[v] = "acking" /\ Current(v) \in Events
      BY <1>2, <2>2, CurrentFacts DEF Busy
    <3> QED
      BY <3>1 DEF PipelineInv, AckedIsWritten
  <2> QED
    BY <2>1, <2>2
<1>4. ASSUME NEW e \in Events, Safe(e) PROVE Safe(e)'
  <2>1. CASE Waiting(e)
    <3>1. PICK i \in Unfinished :
              /\ stream[i] = e
              /\ \A v \in Workers : phase[v] = "dlq_ack" => Head(batch[v]) # i
      BY <2>1 DEF Waiting
    <3>2. i \in Unfinished' /\ stream'[i] = e
      BY <3>1 DEF Unfinished
    <3>3. CASE phase'[w] = "dlq_ack" /\ Head(batch[w]) = i
      BY <3>1, <3>3 DEF Current, Safe
    <3>4. CASE ~(phase'[w] = "dlq_ack" /\ Head(batch[w]) = i)
      BY <1>2, <3>1, <3>2, <3>4 DEF Safe, Waiting
    <3> QED
      BY <3>3, <3>4
  <2> QED
    BY <1>4, <2>1 DEF Safe
<1> QED
  BY <1>3, <1>4 DEF PipelineInv

\* An acknowledgement removes no entry a handed-over event depends on.
LEMMA AckKeeps ==
    ASSUME TypeOK, BusyInv, BatchesAreDelivered, PipelineInv, NEW w \in Workers,
           phase[w] \in {"acking", "dlq_ack"},
           UNCHANGED <<gateway, stream, cursor, dlq, graph, lost>>,
           pel' = pel \/ pel' = pel \ {Head(batch[w])},
           phase'[w] \in {"reading", "writing"},
           \A v \in Workers \ {w} : phase'[v] = phase[v] /\ batch'[v] = batch[v]
    PROVE  PipelineInv'
<1>1. AckedIsWritten'
  BY DEF AckedIsWritten, PipelineInv, Current
<1>2. ASSUME NEW e \in Events, Safe(e) PROVE Safe(e)'
  <2>1. CASE Waiting(e)
    <3>1. PICK i \in Unfinished :
              /\ stream[i] = e
              /\ \A v \in Workers : phase[v] = "dlq_ack" => Head(batch[v]) # i
      BY <2>1 DEF Waiting
    <3>2. CASE i \in Unfinished'
      BY <3>1, <3>2 DEF Safe, Waiting
    <3>3. CASE i \notin Unfinished'
      <4>1. Head(batch[w]) = i
        BY <3>3 DEF Unfinished
      <4>2. phase[w] = "acking"
        BY <3>1, <4>1
      <4> QED
        BY <3>1, <4>1, <4>2 DEF PipelineInv, AckedIsWritten, Current, Safe
    <3> QED
      BY <3>2, <3>3
  <2> QED
    BY <1>2, <2>1 DEF Safe
<1> QED
  BY <1>1, <1>2 DEF PipelineInv

\* Delivering entries, to a worker or to nobody, leaves them unfinished.
LEMMA DeliverKeeps ==
    ASSUME TypeOK, BusyInv, PipelineInv, NEW w \in Workers, Read(w) \/ ReadLost(w)
    PROVE  PipelineInv'
<1> DEFINE n == BatchLen
<1>1. n \in Nat /\ cursor + n <= Len(stream) /\ cursor \in Nat
  BY BatchLenFacts, AuditPipelineAssumption DEF Read, ReadLost, TypeOK
<1>2. cursor' = cursor + n /\ pel' = pel \cup (cursor + 1)..(cursor + n)
      /\ UNCHANGED <<stream, dlq, gateway, graph, lost>>
  BY DEF Read, ReadLost, Deliver
<1> HIDE DEF n
<1>3. Unfinished' = Unfinished
  BY <1>1, <1>2 DEF Unfinished, TypeOK
<1>4. \A v \in Workers : phase'[v] \in {"acking", "dlq_ack"} =>
          phase[v] = phase'[v] /\ batch'[v] = batch[v]
  BY DEF Read, ReadLost, TypeOK
<1>5. AckedIsWritten'
  BY <1>2, <1>4 DEF AckedIsWritten, PipelineInv, Current
<1>6. ASSUME NEW e \in Events, Waiting(e) PROVE Waiting(e)'
  BY <1>2, <1>3, <1>4, <1>6 DEF Waiting
<1> QED
  BY <1>2, <1>5, <1>6 DEF PipelineInv, Safe

LEMMA PipelineStep ==
    ASSUME TypeOK, BusyInv, BatchesAreDelivered, PipelineInv, [Next]_vars
    PROVE  PipelineInv'
<1>1. ASSUME NEW w \in Workers, Start(w) PROVE PipelineInv'
  BY <1>1, WriteKeeps DEF Start, TypeOK, PipelineInv
<1>2. ASSUME NEW w \in Workers, Write(w) PROVE PipelineInv'
  <2>1. Current(w) \in Events
    BY <1>2, CurrentFacts DEF Write, Busy
  <2>2. \A f \in Events : graph[f] > 0 => graph'[f] > 0
    BY <1>2, <2>1, GraphStep DEF Write, PipelineInv
  <2>3. graph'[Current(w)] > 0
    BY <1>2, <2>1 DEF Write, WriteSucceeds, Accepts, Committed, TypeOK
  <2> QED
    BY <1>2, <2>2, <2>3, WriteKeeps DEF Write, TypeOK
<1>3. ASSUME NEW w \in Workers, WriteAgain(w) PROVE PipelineInv'
  <2>1. \A f \in Events : graph[f] > 0 => graph'[f] > 0
    BY <1>3, CurrentFacts, GraphStep DEF WriteAgain, PipelineInv, Busy
  <2>2. phase'[w] \in {"writing", "dlq_add"}
        /\ phase' = [phase EXCEPT ![w] = phase'[w]] /\ phase[w] = "writing"
    BY <1>3 DEF WriteAgain, TypeOK
  <2> QED
    BY <1>3, <2>1, <2>2, WriteKeeps DEF WriteAgain
<1>4. ASSUME NEW w \in Workers, MoveToDlq(w) PROVE PipelineInv'
  <2>1. phase' = [phase EXCEPT ![w] = phase'[w]] /\ phase'[w] = "dlq_ack"
        /\ phase[w] = "dlq_add"
    BY <1>4 DEF MoveToDlq, TypeOK
  <2>2. dlq \subseteq dlq' /\ lost \subseteq lost' /\ Current(w) \in dlq' \cup lost'
    BY <1>4 DEF MoveToDlq
  <2> QED
    BY <1>4, <2>1, <2>2, WriteKeeps DEF MoveToDlq, PipelineInv
<1>5. ASSUME NEW w \in Workers, Ack(w) PROVE PipelineInv'
  <2>1. phase'[w] \in {"reading", "writing"}
        /\ \A v \in Workers \ {w} : phase'[v] = phase[v] /\ batch'[v] = batch[v]
    BY <1>5 DEF Ack, NextMessage, TypeOK
  <2> QED
    BY <1>5, <2>1, AckKeeps DEF Ack, Acknowledge
<1>6. ASSUME NEW w \in Workers, AckRaises(w) PROVE PipelineInv'
  <2>1. phase'[w] \in {"reading", "writing"}
        /\ \A v \in Workers \ {w} : phase'[v] = phase[v] /\ batch'[v] = batch[v]
    BY <1>6 DEF AckRaises, TypeOK
  <2> QED
    BY <1>6, <2>1, AckKeeps DEF AckRaises, Acknowledge
<1>7. ASSUME NEW w \in Workers, Crash(w) PROVE PipelineInv'
  <2>1. phase'[w] = "down"
        /\ \A v \in Workers \ {w} : phase'[v] = phase[v] /\ batch'[v] = batch[v]
    BY <1>7 DEF Crash, TypeOK
  <2> QED
    BY <1>7, <2>1
       DEF Crash, PipelineInv, Safe, Waiting, Unfinished, AckedIsWritten, Current
<1>8. CASE Recover
  BY <1>8 DEF Recover, PipelineInv, Safe, Waiting, Unfinished, AckedIsWritten,
              Current
<1>9. CASE UNCHANGED vars
  BY <1>9 DEF vars, PipelineInv, Safe, Waiting, Unfinished, AckedIsWritten,
              Current
<1> QED
  BY <1>1, <1>2, <1>3, <1>4, <1>5, <1>6, <1>7, <1>8, <1>9, GatewayKeeps,
     DeliverKeeps DEF Next, WorkerStep, ReadNothing

LEMMA PipelineHolds == Spec => [](TypeOK /\ PipelineInv)
<1>1. Init => PipelineInv
  BY DEF Init, PipelineInv, AckedIsWritten
<1> QED
  BY <1>1, PipelineStep, BatchesHold, PTL DEF Spec

(* An event that was handed over is in Neo4j, in the DLQ, unfinished in    *)
(* the stream, or dropped by one of the two writes nobody looks at.        *)
THEOREM Conservation == Spec => []NothingVanishes
<1>1. PipelineInv => NothingVanishes
  BY DEF PipelineInv, Safe, Waiting, NothingVanishes
<1> QED
  BY <1>1, PipelineHolds, PTL
-----------------------------------------------------------------------------
(* The promise.  A step of the pipeline is a step of AuditPromise on one   *)
(* event, or none.  For Accept the trail must not know an event the        *)
(* gateway has not emitted.                                                *)

USE DEF Promise!promiseVars

Fresh ==
    \A e \in Events : gateway[e] = "new" =>
        /\ e \notin dlq \cup lost
        /\ graph[e] = 0
        /\ \A i \in 1..Len(stream) : stream[i] # e

\* What a worker is at was emitted.
LEMMA CurrentIsEmitted ==
    ASSUME TypeOK, BusyInv, Fresh, NEW w \in Workers, phase[w] \in Busy
    PROVE  Current(w) \in Events /\ gateway[Current(w)] # "new"
<1>1. Head(batch[w]) \in 1..Len(stream) /\ Current(w) \in Events
  BY CurrentFacts
<1> QED
  BY <1>1 DEF Fresh, Current

LEMMA GraphOfOne ==
    ASSUME TypeOK, NEW e \in Events, WriteSucceeds(e) \/ WriteFails(e)
    PROVE  \A f \in Events \ {e} : graph'[f] = graph[f]
BY DEF TypeOK, WriteSucceeds, WriteFails, Committed

\* Every entry appended is of the event appended.
LEMMA AppendsOne ==
    ASSUME TypeOK, NEW e \in Events, NEW n \in Nat, AppendEntries(e, n)
    PROVE  \A i \in 1..Len(stream') : i \in 1..Len(stream) \/ stream'[i] = e
<1> SUFFICES ASSUME NEW i \in 1..Len(stream'), i \notin 1..Len(stream)
             PROVE  stream'[i] = e
  OBVIOUS
<1>1. /\ stream \in Seq(Events) /\ Len(stream') = Len(stream) + n
      /\ stream' = stream \o [j \in 1..n |-> e]
  BY AppendType DEF TypeOK, AppendEntries
<1>2. [j \in 1..n |-> e] \in Seq(Events) /\ Len([j \in 1..n |-> e]) = n
  OBVIOUS
<1>3. i - Len(stream) \in 1..n
  BY <1>1
<1>4. stream'[i] = [j \in 1..n |-> e][i - Len(stream)]
  BY <1>1, <1>2, <1>3
<1> QED
  BY <1>3, <1>4

LEMMA RequeuesOne ==
    ASSUME TypeOK, NEW e \in Events, Requeue(e)
    PROVE  \A i \in 1..Len(stream') : i \in 1..Len(stream) \/ stream'[i] = e
<1>1. stream' \in Seq(Events) /\ Len(stream) \in Nat
      /\ Len(stream') = Len(stream) + 1 /\ stream'[Len(stream) + 1] = e
  BY RequeueType DEF TypeOK
<1> QED
  BY <1>1

LEMMA FreshStep ==
    ASSUME TypeOK, BusyInv, Fresh, [Next]_vars PROVE Fresh'
<1>1. ASSUME NEW e \in Events, NEW n \in 0..2, AppendEntries(e, n),
             gateway' = [gateway EXCEPT ![e] = gateway'[e]], gateway'[e] # "new",
             UNCHANGED <<graph, lost>>
      PROVE  Fresh'
  <2> SUFFICES ASSUME NEW f \in Events, gateway'[f] = "new",
                      NEW i \in 1..Len(stream')
               PROVE  f \notin dlq' \cup lost' /\ graph'[f] = 0 /\ stream'[i] # f
    <3>1. \A f \in Events : gateway'[f] = "new" =>
              f \notin dlq' \cup lost' /\ graph'[f] = 0
      BY <1>1 DEF Fresh, AppendEntries, TypeOK
    <3> QED
      BY <3>1 DEF Fresh
  <2>1. f # e /\ gateway[f] = "new"
    BY <1>1 DEF TypeOK
  <2>2. f \notin dlq' \cup lost' /\ graph'[f] = 0
    BY <1>1, <2>1 DEF Fresh, AppendEntries
  <2>3. /\ \A j \in 1..Len(stream) : stream'[j] = stream[j]
        /\ \A j \in 1..Len(stream') : j \in 1..Len(stream) \/ stream'[j] = e
    BY <1>1, AppendType, AppendsOne
  <2>4. \A j \in 1..Len(stream) : stream[j] # f
    BY <2>1 DEF Fresh
  <2> QED
    BY <2>1, <2>2, <2>3, <2>4
<1>2. ASSUME NEW e \in Events, Xadd(e) PROVE Fresh'
  <2>1. PICK n \in 0..2 : AppendEntries(e, n)
    BY <1>2 DEF Xadd
  <2> QED
    BY <1>1, <1>2, <2>1 DEF Xadd, TypeOK
<1>3. ASSUME NEW e \in Events, XaddRaises(e) PROVE Fresh'
  BY <1>1, <1>3 DEF XaddRaises, TypeOK
<1>4. ASSUME NEW e \in Events, DirectWrite(e) PROVE Fresh'
  <2>1. \A f \in Events \ {e} : graph'[f] = graph[f]
    BY <1>4, GraphOfOne DEF DirectWrite
  <2> QED
    BY <1>4, <2>1 DEF DirectWrite, Fresh, TypeOK
<1>5. ASSUME NEW e \in Events, Requeue(e) PROVE Fresh'
  <2>1. gateway[e] # "new"
    BY <1>5 DEF Requeue, Fresh
  <2>2. \A i \in 1..Len(stream') : i \in 1..Len(stream) \/ stream'[i] = e
    BY <1>5, RequeuesOne
  <2>3. \A i \in 1..Len(stream) : stream'[i] = stream[i]
    BY <1>5, RequeueType
  <2>4. UNCHANGED <<gateway, graph, lost>> /\ dlq' \subseteq dlq
    BY <1>5 DEF Requeue
  <2> QED
    BY <2>1, <2>2, <2>3, <2>4 DEF Fresh
<1>6. ASSUME NEW w \in Workers, Write(w) \/ WriteAgain(w) PROVE Fresh'
  <2>1. Current(w) \in Events /\ gateway[Current(w)] # "new"
    BY <1>6, CurrentIsEmitted DEF Write, WriteAgain, Busy
  <2>2. \A f \in Events \ {Current(w)} : graph'[f] = graph[f]
    BY <1>6, <2>1, GraphOfOne DEF Write, WriteAgain
  <2>3. UNCHANGED <<gateway, stream, dlq, lost>>
    BY <1>6 DEF Write, WriteAgain
  <2> QED
    BY <2>1, <2>2, <2>3 DEF Fresh
<1>7. ASSUME NEW w \in Workers, MoveToDlq(w) PROVE Fresh'
  <2>1. Current(w) \in Events /\ gateway[Current(w)] # "new"
    BY <1>7, CurrentIsEmitted DEF MoveToDlq, Busy
  <2> QED
    BY <1>7, <2>1 DEF MoveToDlq, Fresh
<1>8. ASSUME UNCHANGED <<gateway, stream, dlq, graph, lost>> PROVE Fresh'
  BY <1>8 DEF Fresh
<1>9. ASSUME NEW w \in Workers,
             \/ Start(w) \/ Read(w) \/ ReadLost(w) \/ ReadNothing(w)
             \/ Ack(w) \/ AckRaises(w) \/ Crash(w)
      PROVE  Fresh'
  BY <1>8, <1>9 DEF Start, Read, ReadLost, ReadNothing, Deliver, Ack, AckRaises,
                    Acknowledge, Crash, vars
<1>10. CASE Recover \/ UNCHANGED vars
  BY <1>8, <1>10 DEF Recover, vars
<1> QED
  BY <1>2, <1>3, <1>4, <1>5, <1>6, <1>7, <1>9, <1>10
     DEF Next, GatewayStep, WorkerStep

LEMMA CurrentIsKept ==
    ASSUME TypeOK, BusyInv, BatchesAreDelivered, NEW w \in Workers, phase[w] \in Busy
    PROVE  Current(w) \in Events /\ Current(w) \in Kept
<1>1. Head(batch[w]) \in Held(w) /\ Current(w) \in Events
  BY HeldTypes, CurrentFacts
<1>2. Head(batch[w]) \in Unfinished
  BY <1>1 DEF BatchesAreDelivered, Unfinished
<1> QED
  BY <1>1, <1>2 DEF Kept, Current

LEMMA UnfinishedType == TypeOK => Unfinished \subseteq 1..Len(stream)
<1> SUFFICES ASSUME TypeOK, NEW i \in Unfinished PROVE i \in 1..Len(stream)
  OBVIOUS
<1>1. cursor \in Nat /\ cursor <= Len(stream) /\ Len(stream) \in Nat
  BY DEF TypeOK
<1>2. CASE i \in pel
  BY <1>1, <1>2 DEF TypeOK
<1>3. CASE i \in (cursor + 1)..Len(stream)
  BY <1>1, <1>3
<1> QED
  BY <1>2, <1>3 DEF Unfinished

\* Appending moves nothing but the event appended.
LEMMA KeptAfterAppend ==
    ASSUME TypeOK, NEW e \in Events, UNCHANGED <<cursor, pel>>,
           Len(stream') \in Nat, Len(stream) <= Len(stream'),
           \A i \in 1..Len(stream) : stream'[i] = stream[i],
           \A i \in 1..Len(stream') : i \in 1..Len(stream) \/ stream'[i] = e,
           \A f \in Events \ {e} : gateway'[f] = gateway[f] /\ (f \in dlq' <=> f \in dlq)
    PROVE  \A f \in Events \ {e} : f \in Kept' <=> f \in Kept
<1> SUFFICES ASSUME NEW f \in Events \ {e} PROVE f \in Kept' <=> f \in Kept
  OBVIOUS
<1>1. cursor \in Nat /\ pel \subseteq 1..cursor /\ cursor <= Len(stream)
      /\ Len(stream) \in Nat
  BY DEF TypeOK
<1>2. /\ Unfinished \subseteq Unfinished'
      /\ Unfinished \subseteq 1..Len(stream)
      /\ Unfinished' \subseteq 1..Len(stream')
  <2>1. Unfinished \subseteq 1..Len(stream)
    BY UnfinishedType
  <2>2. Unfinished' = pel \cup (cursor + 1)..Len(stream')
    BY DEF Unfinished
  <2>3. Unfinished \subseteq Unfinished'
    BY <1>1, <2>2 DEF Unfinished
  <2>4. Unfinished' \subseteq 1..Len(stream')
    <3> SUFFICES ASSUME NEW i \in Unfinished' PROVE i \in 1..Len(stream')
      OBVIOUS
    <3>1. CASE i \in pel
      BY <1>1, <3>1
    <3>2. CASE i \in (cursor + 1)..Len(stream')
      BY <1>1, <3>2
    <3> QED
      BY <2>2, <3>1, <3>2
  <2> QED
    BY <2>1, <2>3, <2>4
<1>3. \A i \in Unfinished' : i \in 1..Len(stream) => i \in Unfinished
  BY <1>1 DEF Unfinished
<1>4. (\E i \in Unfinished' : stream'[i] = f) <=> (\E i \in Unfinished : stream[i] = f)
  BY <1>2, <1>3
<1> QED
  BY <1>4 DEF Kept

\* A write of Neo4j, by the fallback or by a worker, that was or was not
\* committed, and whose failure may be what loses the event.
LEMMA WritePromise ==
    ASSUME TypeOK, NEW e \in Events, e \in Kept, Kept' \in {Kept, Kept \ {e}},
           recovered' = recovered,
           \/ WriteSucceeds(e) /\ lost' = lost
           \/ WriteFails(e) /\ lost' = lost \cup {e}
    PROVE  Promise!Next
<1>1. CASE WriteSucceeds(e)
  <2>1. graph[e] = 0 /\ e \notin Refused /\ graph' = [graph EXCEPT ![e] = 1]
    BY <1>1 DEF WriteSucceeds, Accepts, Committed, TypeOK
  <2>2. lost' = lost \/ (~recovered /\ lost' = lost \cup {e})
    BY <1>1 DEF WriteFails, WriteSucceeds
  <2> QED
    BY <2>1, <2>2 DEF Promise!Next, Promise!Record
<1>2. CASE ~WriteSucceeds(e)
  <2>1. UNCHANGED graph /\ lost' = lost \cup {e}
        /\ (graph[e] # 0 \/ e \in Refused \/ ~recovered)
    BY <1>2 DEF WriteFails, Accepts
  <2>2. graph[e] > 0 \/ e \in Refused \/ ~recovered
    BY <2>1 DEF TypeOK
  <2> QED
    BY <2>1, <2>2 DEF Promise!Next, Promise!GiveUp
<1> QED
  BY <1>1, <1>2

LEMMA PromiseStep ==
    ASSUME TypeOK, BusyInv, BatchesAreDelivered, PipelineInv, Fresh, PipelineInv',
           [Next]_vars
    PROVE  [Promise!Next]_(Promise!promiseVars)
<1> DEFINE Goal == [Promise!Next]_(Promise!promiseVars)
<1>1. ASSUME NEW e \in Events, NEW n \in 0..2, AppendEntries(e, n),
             gateway[e] = "new", gateway' = [gateway EXCEPT ![e] = gateway'[e]],
             gateway'[e] = "direct" \/ n > 0,
             UNCHANGED <<graph, lost, recovered>>
      PROVE  Goal
  <2>1. e \notin Kept \cup lost /\ graph[e] = 0
    <3>1. Unfinished \subseteq 1..Len(stream)
      BY UnfinishedType
    <3> QED
      BY <1>1, <3>1 DEF Kept, Fresh
  <2>2. /\ Len(stream) \in Nat /\ Len(stream') = Len(stream) + n
        /\ \A i \in 1..Len(stream) : stream'[i] = stream[i]
        /\ n > 0 => stream'[Len(stream) + 1] = e
        /\ \A i \in 1..Len(stream') : i \in 1..Len(stream) \/ stream'[i] = e
    <3>1. Len(stream) \in Nat
      BY DEF TypeOK
    <3>2. n \in Nat
      OBVIOUS
    <3> QED
      BY <1>1, <3>1, <3>2, AppendType, AppendsOne
  <2>3. UNCHANGED <<cursor, pel, dlq>>
        /\ \A f \in Events \ {e} : gateway'[f] = gateway[f]
    BY <1>1 DEF AppendEntries, TypeOK
  <2>4. \A f \in Events \ {e} : f \in Kept' <=> f \in Kept
    BY <2>2, <2>3, KeptAfterAppend
  <2>5. e \in Kept'
    <3>1. CASE n > 0
      <4>1. Len(stream) + 1 \in Unfinished'
        BY <2>2, <2>3, <3>1 DEF Unfinished, TypeOK
      <4> QED
        BY <2>2, <3>1, <4>1 DEF Kept
    <3>2. CASE gateway'[e] = "direct"
      BY <3>2 DEF Kept
    <3> QED
      BY <1>1, <3>1, <3>2
  <2>6. Kept' = Kept \cup {e}
    BY <2>4, <2>5 DEF Kept
  <2> QED
    BY <1>1, <2>1, <2>6 DEF Promise!Next, Promise!Accept
<1>2. ASSUME NEW e \in Events, Xadd(e) PROVE Goal
  <2>1. PICK n \in 1..2 : AppendEntries(e, n)
    BY <1>2 DEF Xadd
  <2>2. n \in 0..2 /\ n > 0
    OBVIOUS
  <2>3. gateway' = [gateway EXCEPT ![e] = gateway'[e]]
    BY <1>2 DEF Xadd, TypeOK
  <2> QED
    BY <1>1, <1>2, <2>1, <2>2, <2>3 DEF Xadd
<1>3. ASSUME NEW e \in Events, XaddRaises(e) PROVE Goal
  <2>1. PICK n \in 0..2 : AppendEntries(e, n)
    BY <1>3 DEF XaddRaises
  <2>2. gateway' = [gateway EXCEPT ![e] = gateway'[e]] /\ gateway'[e] = "direct"
    BY <1>3 DEF XaddRaises, TypeOK
  <2> QED
    BY <1>1, <1>3, <2>1, <2>2 DEF XaddRaises
<1>4. ASSUME NEW e \in Events, DirectWrite(e) PROVE Goal
  <2>1. e \in Kept
    BY <1>4 DEF DirectWrite, Kept
  <2>2. \A f \in Events \ {e} : f \in Kept' <=> f \in Kept
    BY <1>4 DEF DirectWrite, Kept, Unfinished, TypeOK
  <2>3. Kept' \in {Kept, Kept \ {e}}
    BY <2>1, <2>2 DEF Kept
  <2> QED
    BY <1>4, <2>1, <2>3, WritePromise DEF DirectWrite
<1>5. ASSUME NEW e \in Events, Requeue(e) PROVE Goal
  <2>1. /\ Len(stream) \in Nat /\ Len(stream') = Len(stream) + 1
        /\ \A i \in 1..Len(stream) : stream'[i] = stream[i]
        /\ stream'[Len(stream) + 1] = e
        /\ \A i \in 1..Len(stream') : i \in 1..Len(stream) \/ stream'[i] = e
    <3>1. Len(stream) \in Nat
      BY DEF TypeOK
    <3> QED
      BY <1>5, <3>1, RequeueType, RequeuesOne
  <2>2. UNCHANGED <<gateway, cursor, pel, graph, lost, recovered>>
        /\ \A f \in Events \ {e} : f \in dlq' <=> f \in dlq
    BY <1>5 DEF Requeue
  <2>3. \A f \in Events \ {e} : f \in Kept' <=> f \in Kept
    BY <2>1, <2>2, KeptAfterAppend
  <2>4. Len(stream) + 1 \in Unfinished'
    BY <2>1, <2>2 DEF Unfinished, TypeOK
  <2>5. e \in Kept /\ e \in Kept'
    BY <1>5, <2>1, <2>4 DEF Requeue, Kept
  <2>6. Kept' = Kept
    BY <2>3, <2>5 DEF Kept
  <2> QED
    BY <2>2, <2>6
<1>6. ASSUME NEW w \in Workers, Read(w) \/ ReadLost(w) PROVE Goal
  <2> DEFINE n == BatchLen
  <2>1. n \in Nat /\ cursor + n <= Len(stream) /\ cursor \in Nat
    BY <1>6, BatchLenFacts, AuditPipelineAssumption DEF Read, ReadLost, TypeOK
  <2>2. /\ cursor' = cursor + n /\ pel' = pel \cup (cursor + 1)..(cursor + n)
        /\ UNCHANGED <<stream, dlq, gateway, graph, lost, recovered>>
    BY <1>6 DEF Read, ReadLost, Deliver
  <2> HIDE DEF n
  <2>3. Unfinished' = Unfinished
    BY <2>1, <2>2 DEF Unfinished, TypeOK
  <2>4. Kept' = Kept
    BY <2>2, <2>3 DEF Kept
  <2> QED
    BY <2>2, <2>4
<1>7. ASSUME NEW w \in Workers, Write(w) PROVE Goal
  <2>1. Current(w) \in Events /\ Current(w) \in Kept
    BY <1>7, CurrentIsKept DEF Write, Busy
  <2>2. Kept' = Kept
    BY <1>7 DEF Write, Kept, Unfinished
  <2> QED
    BY <1>7, <2>1, <2>2, WritePromise DEF Write
<1>8. ASSUME NEW w \in Workers, WriteAgain(w) PROVE Goal
  <2>1. Current(w) \in Events /\ Current(w) \in Kept
    BY <1>8, CurrentIsKept DEF WriteAgain, Busy
  <2>2. Kept' = Kept
    BY <1>8 DEF WriteAgain, Kept, Unfinished
  <2>3. WriteFails(Current(w)) /\ UNCHANGED <<lost, recovered>>
    BY <1>8 DEF WriteAgain
  <2>4. CASE WriteSucceeds(Current(w))
    BY <2>1, <2>2, <2>3, <2>4, WritePromise
  <2>5. CASE UNCHANGED graph
    BY <2>2, <2>3, <2>5
  <2> QED
    BY <2>3, <2>4, <2>5 DEF WriteFails
<1>9. ASSUME NEW w \in Workers, MoveToDlq(w) PROVE Goal
  <2>1. Current(w) \in Events /\ Current(w) \in Kept
    BY <1>9, CurrentIsKept DEF MoveToDlq, Busy
  <2>2. /\ UNCHANGED <<gateway, stream, cursor, pel, graph, recovered>>
        /\ dlq' \in {dlq, dlq \cup {Current(w)}}
        /\ lost' = lost \/ (~recovered /\ lost' = lost \cup {Current(w)})
    BY <1>9 DEF MoveToDlq
  <2>3. Unfinished' = Unfinished
    BY <2>2 DEF Unfinished
  <2>4. Kept' = Kept
    <3>1. \A f \in Events \ {Current(w)} : f \in Kept' <=> f \in Kept
      BY <2>2, <2>3 DEF Kept
    <3>2. Current(w) \in Kept'
      BY <2>1, <2>2, <2>3 DEF Kept
    <3> QED
      BY <2>1, <3>1, <3>2 DEF Kept
  <2>5. CASE lost' = lost
    BY <2>2, <2>4, <2>5
  <2>6. CASE ~recovered /\ lost' = lost \cup {Current(w)}
    BY <2>1, <2>2, <2>4, <2>6 DEF Promise!Next, Promise!GiveUp
  <2> QED
    BY <2>2, <2>5, <2>6
<1>10. ASSUME NEW w \in Workers, Ack(w) \/ AckRaises(w) PROVE Goal
  <2>1. phase[w] \in Busy
    BY <1>10 DEF Ack, AckRaises, Busy
  <2> PICK e \in Events : e = Current(w)
    BY <2>1, CurrentIsKept
  <2>2. e \in Events /\ e \in Kept
    BY <2>1, CurrentIsKept
  <2>3. /\ UNCHANGED <<gateway, stream, cursor, dlq, graph, lost, recovered>>
        /\ pel' = pel \/ pel' = pel \ {Head(batch[w])}
    BY <1>10 DEF Ack, AckRaises, Acknowledge
  <2>4. Unfinished' \subseteq Unfinished
        /\ Unfinished \subseteq Unfinished' \cup {Head(batch[w])}
    BY <2>3 DEF Unfinished
  <2>5. \A f \in Events \ {e} : f \in Kept' <=> f \in Kept
    BY <2>3, <2>4 DEF Kept, Current
  <2>6. CASE e \in Kept'
    <3>1. Kept' = Kept
      BY <2>2, <2>5, <2>6 DEF Kept
    <3> QED
      BY <2>3, <3>1
  <2>7. CASE e \notin Kept'
    <3>1. Kept' = Kept \ {e}
      BY <2>2, <2>5, <2>7 DEF Kept
    <3>2. gateway'[e] = "handed"
      <4>1. gateway[e] # "new"
        BY <2>1, CurrentIsEmitted
      <4>2. gateway'[e] # "direct" /\ gateway'[e] = gateway[e]
        BY <2>2, <2>3, <2>7 DEF Kept
      <4> QED
        BY <2>2, <4>1, <4>2 DEF TypeOK
    <3>3. Safe(e)'
      BY <2>2, <3>2 DEF PipelineInv
    <3>4. graph[e] > 0 \/ e \in lost
      BY <2>2, <2>3, <2>7, <3>3 DEF Safe, Waiting, Kept
    <3> QED
      BY <2>2, <2>3, <3>1, <3>4 DEF Promise!Next, Promise!Release
  <2> QED
    BY <2>6, <2>7
<1>11. ASSUME UNCHANGED <<gateway, stream, cursor, pel, dlq, graph, lost, recovered>>
       PROVE  Goal
  BY <1>11 DEF Kept, Unfinished
<1>12. ASSUME NEW w \in Workers, Start(w) \/ ReadNothing(w) \/ Crash(w) PROVE Goal
  BY <1>11, <1>12 DEF Start, ReadNothing, Crash, vars
<1>13. CASE Recover
  <2>1. Kept' = Kept
    BY <1>13 DEF Recover, Kept, Unfinished
  <2> QED
    BY <1>13, <2>1 DEF Recover, Promise!Next, Promise!EndOfOutage
<1>14. CASE UNCHANGED vars
  BY <1>11, <1>14 DEF vars
<1> QED
  BY <1>2, <1>3, <1>4, <1>5, <1>6, <1>7, <1>8, <1>9, <1>10, <1>12, <1>13, <1>14
     DEF Next, GatewayStep, WorkerStep

\* An event the gateway has not emitted yet is nowhere in the trail.
LEMMA FreshHolds == Spec => []Fresh
<1>1. Init => Fresh
  BY DEF Init, Fresh
<1> QED
  BY <1>1, FreshStep, BatchesHold, PTL DEF Spec

(* The pipeline keeps the promise of the trail: an event is taken into     *)
(* custody once, recorded once, and let go of, by an XACK or by the        *)
(* fallback's return, only if it was recorded or one of the two ignored    *)
(* failures gave it up; after the outage only an event that is already     *)
(* recorded, or that Neo4j refuses, is given up on.                        *)
THEOREM PipelineKeepsPromise == Spec => KeepsPromise
<1>1. Init => Promise!Init
  BY DEF Init, Promise!Init, Kept, Unfinished
<1>2. TypeOK /\ BusyInv /\ BatchesAreDelivered /\ PipelineInv /\ Fresh
          /\ PipelineInv' /\ [Next]_vars
      => [Promise!Next]_(Promise!promiseVars)
  BY PromiseStep
<1> QED
  BY <1>1, <1>2, BatchesHold, PipelineHolds, FreshHolds, PTL
     DEF Spec, KeepsPromise, Promise!Spec
=============================================================================

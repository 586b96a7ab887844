--------------------------- MODULE AuditPipeline ---------------------------
(***************************************************************************)
(* The audit trail: the gateway appends an event to a Redis stream (or,    *)
(* when that raises, writes it to Neo4j itself), and worker processes of   *)
(* one consumer group read the stream, write Neo4j and acknowledge.        *)
(* database/stream_writer.py, database/stream_consumer.py and              *)
(* database/audit_writer.py.                                               *)
(*                                                                         *)
(* Every Redis command and every Neo4j transaction is a step.  During the  *)
(* outage each may raise, after it was applied or without having been, and *)
(* worker processes may die; Docker restarts them (restart:                *)
(* unless-stopped in docker-compose.yml).                                  *)
(***************************************************************************)
EXTENDS Integers, Sequences

CONSTANTS Events,       \* audit events, one per decision id
          Workers,      \* worker processes
          BatchSize,    \* _BATCH_SIZE
          MaxRetries,   \* _MAX_RETRIES
          MaxStream,    \* bound on appends: the stream is never trimmed here
          Refused       \* events no attempt can write

ASSUME AuditPipelineAssumption ==
    /\ BatchSize \in Nat \ {0}
    /\ MaxRetries \in Nat \ {0}
    /\ MaxStream \in Nat
    /\ Refused \subseteq Events

VARIABLES
    gateway,   \* per event: "new", "direct" (writing Neo4j itself) or "handed"
    stream,    \* sentinel:audit:events, entry ids are positions
    cursor,    \* last position the consumer group delivered
    pel,       \* positions delivered and not acknowledged
    dlq,       \* events in sentinel:audit:dlq
    graph,     \* number of Decision nodes per event in Neo4j
    phase,     \* where each worker stands
    batch,     \* positions the worker still has to process
    attempt,   \* the worker's attempt on the first of them
    lost,      \* events dropped by a write whose failure nobody looks at
    recovered  \* TRUE once the outage is over for good

redisVars == <<stream, cursor, pel, dlq>>
workerVars == <<phase, batch, attempt>>
vars == <<gateway, redisVars, graph, workerVars, lost, recovered>>

Phases == {"down", "reading", "writing", "acking", "dlq_add", "dlq_ack"}

TypeOK ==
    /\ gateway \in [Events -> {"new", "direct", "handed"}]
    /\ stream \in Seq(Events) /\ Len(stream) <= MaxStream
    /\ cursor \in 0..Len(stream)
    /\ pel \in SUBSET (1..cursor)
    /\ dlq \in SUBSET Events
    /\ graph \in [Events -> Nat]
    /\ phase \in [Workers -> Phases]
    /\ batch \in [Workers -> Seq(1..cursor)]
    /\ attempt \in [Workers -> 1..MaxRetries]
    /\ lost \in SUBSET Events
    /\ recovered \in BOOLEAN

Init ==
    /\ gateway = [e \in Events |-> "new"]
    /\ stream = <<>>
    /\ cursor = 0
    /\ pel = {}
    /\ dlq = {}
    /\ graph = [e \in Events |-> 0]
    /\ phase = [w \in Workers |-> "down"]
    /\ batch = [w \in Workers |-> <<>>]
    /\ attempt = [w \in Workers |-> 1]
    /\ lost = {}
    /\ recovered = FALSE
-----------------------------------------------------------------------------
(* Neo4j.  Decision.id is UNIQUE (database/schema.cypher), so the CREATE   *)
(* of a second node for an event is an error.  An event is refused for     *)
(* good when its fields do not parse (_parse_event) or its agent's name is *)
(* held by another Agent node of the tenant.                               *)

Accepts(e) == graph[e] = 0 /\ e \notin Refused

Committed(e) == graph' = [graph EXCEPT ![e] = @ + 1]

\* write_audit_event returned True.
WriteSucceeds(e) == Accepts(e) /\ Committed(e)

\* It returned False: refused, unreachable, or committed with the reply lost.
WriteFails(e) ==
    \/ ~Accepts(e) /\ UNCHANGED graph
    \/ ~recovered /\ UNCHANGED graph
    \/ ~recovered /\ WriteSucceeds(e)
-----------------------------------------------------------------------------
(* enqueue_audit_event in the gateway.                                     *)

\* retry_on_timeout sends a timed-out XADD once more: 0, 1 or 2 entries.
AppendEntries(e, n) ==
    /\ Len(stream) + n <= MaxStream
    /\ stream' = stream \o [i \in 1..n |-> e]
    /\ UNCHANGED <<cursor, pel, dlq>>

Xadd(e) ==
    /\ gateway[e] = "new"
    /\ gateway' = [gateway EXCEPT ![e] = "handed"]
    /\ \E n \in (IF recovered THEN {1} ELSE 1..2) : AppendEntries(e, n)
    /\ UNCHANGED <<graph, workerVars, lost, recovered>>

XaddRaises(e) ==
    /\ ~recovered
    /\ gateway[e] = "new"
    /\ gateway' = [gateway EXCEPT ![e] = "direct"]
    /\ \E n \in 0..2 : AppendEntries(e, n)
    /\ UNCHANGED <<graph, workerVars, lost, recovered>>

\* The fallback ignores what write_audit_event returns.
DirectWrite(e) ==
    /\ gateway[e] = "direct"
    /\ gateway' = [gateway EXCEPT ![e] = "handed"]
    /\ \/ WriteSucceeds(e) /\ UNCHANGED lost
       \/ WriteFails(e) /\ lost' = lost \cup {e}
    /\ UNCHANGED <<redisVars, workerVars, recovered>>
-----------------------------------------------------------------------------
(* run_consumer.                                                           *)

Goto(w, from, to) ==
    /\ phase[w] = from
    /\ phase' = [phase EXCEPT ![w] = to]

\* Mutant: a starting process moves the group to "$", the end of the stream.
StartAtEnd(w) ==
    /\ Goto(w, "down", "reading")
    /\ cursor' = Len(stream)
    /\ UNCHANGED <<gateway, stream, pel, dlq, graph, batch, attempt, lost, recovered>>

\* A new process has a new consumer name and starts reading at ">".
Start(w) ==
    /\ Goto(w, "down", "reading")
    /\ UNCHANGED <<gateway, redisVars, graph, batch, attempt, lost, recovered>>

Deliver(n) ==
    /\ cursor' = cursor + n
    /\ pel' = pel \cup (cursor + 1)..(cursor + n)
    /\ UNCHANGED <<stream, dlq>>

BatchLen == IF Len(stream) - cursor < BatchSize THEN Len(stream) - cursor ELSE BatchSize

Read(w) ==
    /\ cursor < Len(stream)
    /\ Goto(w, "reading", "writing")
    /\ Deliver(BatchLen)
    /\ batch' = [batch EXCEPT ![w] = [i \in 1..BatchLen |-> cursor + i]]
    /\ attempt' = [attempt EXCEPT ![w] = 1]
    /\ UNCHANGED <<gateway, graph, lost, recovered>>

\* Nothing arrived within _BLOCK_MS: the loop goes round.
ReadNothing(w) ==
    /\ phase[w] = "reading"
    /\ cursor = Len(stream)
    /\ UNCHANGED vars

\* The reply is lost: the group has delivered what nobody received.  That
\* takes no outage, as the socket timeout equals _BLOCK_MS; when the client
\* sends the command again, Read follows.
ReadLost(w) ==
    /\ phase[w] = "reading"
    /\ cursor < Len(stream)
    /\ Deliver(BatchLen)
    /\ UNCHANGED <<gateway, graph, workerVars, lost, recovered>>

Current(w) == stream[Head(batch[w])]

Write(w) ==
    /\ Goto(w, "writing", "acking")
    /\ WriteSucceeds(Current(w))
    /\ UNCHANGED <<gateway, redisVars, batch, attempt, lost, recovered>>

\* Mutants: one attempt too many, and a message that is given up on without
\* the DLQ.
WriteOnceMore(w) ==
    /\ phase[w] = "writing"
    /\ WriteFails(Current(w))
    /\ \/ /\ attempt[w] <= MaxRetries
          /\ attempt' = [attempt EXCEPT ![w] = @ + 1]
          /\ UNCHANGED phase
       \/ /\ attempt[w] > MaxRetries
          /\ Goto(w, "writing", "dlq_add")
          /\ UNCHANGED attempt
    /\ UNCHANGED <<gateway, redisVars, batch, lost, recovered>>

GiveUpWithoutDlq(w) ==
    /\ phase[w] = "writing"
    /\ WriteFails(Current(w))
    /\ \/ /\ attempt[w] < MaxRetries
          /\ attempt' = [attempt EXCEPT ![w] = @ + 1]
          /\ UNCHANGED phase
       \/ /\ attempt[w] = MaxRetries
          /\ Goto(w, "writing", "acking")
          /\ UNCHANGED attempt
    /\ UNCHANGED <<gateway, redisVars, batch, lost, recovered>>

WriteAgain(w) ==
    /\ phase[w] = "writing"
    /\ WriteFails(Current(w))
    /\ \/ /\ attempt[w] < MaxRetries
          /\ attempt' = [attempt EXCEPT ![w] = @ + 1]
          /\ UNCHANGED phase
       \/ /\ attempt[w] = MaxRetries
          /\ Goto(w, "writing", "dlq_add")
          /\ UNCHANGED attempt
    /\ UNCHANGED <<gateway, redisVars, batch, lost, recovered>>

\* _move_to_dlq swallows the exception of its XADD.
MoveToDlq(w) ==
    /\ Goto(w, "dlq_add", "dlq_ack")
    /\ \/ /\ dlq' = dlq \cup {Current(w)}
          /\ UNCHANGED lost
       \/ /\ ~recovered
          /\ lost' = lost \cup {Current(w)}
          /\ dlq' \in {dlq, dlq \cup {Current(w)}}
    /\ UNCHANGED <<gateway, stream, cursor, pel, graph, batch, attempt, recovered>>

NextMessage(w) ==
    /\ batch' = [batch EXCEPT ![w] = Tail(@)]
    /\ attempt' = [attempt EXCEPT ![w] = 1]
    /\ phase' = [phase EXCEPT ![w] = IF Len(batch[w]) = 1 THEN "reading" ELSE "writing"]

\* Mutant: everything up to the entry is acknowledged with it.
AcknowledgeUpTo(w) ==
    /\ pel' = pel \ 1..Head(batch[w])
    /\ UNCHANGED <<stream, cursor, dlq>>

Acknowledge(w) ==
    /\ pel' = pel \ {Head(batch[w])}
    /\ UNCHANGED <<stream, cursor, dlq>>

Ack(w) ==
    /\ phase[w] \in {"acking", "dlq_ack"}
    /\ Acknowledge(w)
    /\ NextMessage(w)
    /\ UNCHANGED <<gateway, graph, lost, recovered>>

\* Mutant: the entry is processed once more when its XACK raised.
RetryAfterAck(w) ==
    /\ ~recovered
    /\ phase[w] \in {"acking", "dlq_ack"}
    /\ Acknowledge(w) \/ UNCHANGED redisVars
    /\ phase' = [phase EXCEPT ![w] = "writing"]
    /\ attempt' = [attempt EXCEPT ![w] = 1]
    /\ UNCHANGED <<gateway, graph, batch, lost, recovered>>

\* XACK raising reaches the loop's except: the rest of the batch is dropped.
AckRaises(w) ==
    /\ ~recovered
    /\ phase[w] \in {"acking", "dlq_ack"}
    /\ Acknowledge(w) \/ UNCHANGED redisVars
    /\ phase' = [phase EXCEPT ![w] = "reading"]
    /\ batch' = [batch EXCEPT ![w] = <<>>]
    /\ attempt' = [attempt EXCEPT ![w] = 1]
    /\ UNCHANGED <<gateway, graph, lost, recovered>>

\* The process is killed; what it had in memory is gone.
Crash(w) ==
    /\ ~recovered
    /\ phase[w] # "down"
    /\ phase' = [phase EXCEPT ![w] = "down"]
    /\ batch' = [batch EXCEPT ![w] = <<>>]
    /\ attempt' = [attempt EXCEPT ![w] = 1]
    /\ UNCHANGED <<gateway, redisVars, graph, lost, recovered>>
-----------------------------------------------------------------------------
(* The operator's requeue of the runbook: XADD, then XDEL from the DLQ.    *)
(* Killed in between, it leaves the event in both.                         *)

Requeue(e) ==
    /\ e \in dlq
    /\ Len(stream) < MaxStream
    /\ stream' = Append(stream, e)
    /\ dlq' \in {dlq, dlq \ {e}}
    /\ UNCHANGED <<gateway, cursor, pel, graph, workerVars, lost, recovered>>

Recover ==
    /\ ~recovered
    /\ recovered' = TRUE
    /\ UNCHANGED <<gateway, redisVars, graph, workerVars, lost>>

GatewayStep(e) == Xadd(e) \/ XaddRaises(e) \/ DirectWrite(e)

WorkerStep(w) ==
    \/ Start(w) \/ Read(w) \/ ReadLost(w) \/ Write(w) \/ WriteAgain(w)
    \/ MoveToDlq(w) \/ Ack(w) \/ AckRaises(w)

Next ==
    \/ \E e \in Events : GatewayStep(e) \/ Requeue(e)
    \/ \E w \in Workers : WorkerStep(w) \/ ReadNothing(w) \/ Crash(w)
    \/ Recover

Spec == Init /\ [][Next]_vars

\* Workers that run, or that Docker restarts, keep consuming.
Fairness == \A w \in Workers : WF_vars(WorkerStep(w))

FairSpec == Spec /\ Fairness
-----------------------------------------------------------------------------
Held(w) == {batch[w][i] : i \in DOMAIN batch[w]}

\* Positions of the stream the group has yet to finish with.
Unfinished == pel \cup (cursor + 1)..Len(stream)

(* Conservation: an event the gateway has handed over is in Neo4j, in the  *)
(* DLQ, or still unacknowledged in the stream, unless one of the two       *)
(* writes whose failure nobody looks at dropped it (the fallback of        *)
(* enqueue_audit_event, the XADD of _move_to_dlq).  In particular XACK     *)
(* never comes before the write it acknowledges.                           *)
NothingVanishes ==
    \A e \in Events : gateway[e] = "handed" =>
        \/ graph[e] > 0
        \/ e \in dlq
        \/ \E i \in Unfinished : stream[i] = e
        \/ e \in lost

(* No two workers process the same entry, and what a worker processes is   *)
(* delivered and unacknowledged: acknowledging one entry never hides       *)
(* another worker's.                                                       *)
BatchesAreDelivered ==
    /\ \A w \in Workers : Held(w) \subseteq pel
    /\ \A v, w \in Workers : v # w => Held(v) \cap Held(w) = {}

(* The consumer reads ">" only: an entry that was delivered and dropped,   *)
(* by a crash, a lost reply or an XACK that raised, is never processed     *)
(* again (nothing claims it, not even a restart).                          *)
OrphansStay ==
    [][\A i \in pel : (\A w \in Workers : i \notin Held(w)) =>
          /\ i \in pel'
          /\ \A w \in Workers : i \notin Held(w)']_vars

\* Delivered, not acknowledged, and in no worker's hands.
Orphaned(i) == i \in pel /\ \A w \in Workers : i \notin Held(w)

\* What the trail may do with an entry: its event is in Neo4j, or in the DLQ
\* as Neo4j refuses it, or the reply that delivered the entry was lost.
Settled(i) ==
    \/ graph[stream[i]] > 0
    \/ stream[i] \in Refused /\ stream[i] \in dlq
    \/ Orphaned(i)

(* After the outage the workers settle every entry the group has not       *)
(* delivered yet: a restarted worker resumes where the group stands,       *)
(* refused entries and duplicates hold up nothing behind them, and only    *)
(* the refused end in the DLQ.                                             *)
UndeliveredIsSettled ==
    \A i \in 1..MaxStream :
        (recovered /\ cursor < i /\ i <= Len(stream)) ~>
            (i <= Len(stream) /\ Settled(i))

(* "After Neo4j recovers, the audit worker automatically drains the        *)
(* stream": every event of the stream reaches Neo4j.                       *)
StreamDrains ==
    \A e \in Events :
        (recovered /\ \E i \in 1..Len(stream) : stream[i] = e) ~> graph[e] > 0

(* The promise of the trail, refined: an event is in custody while the     *)
(* gateway writes it itself, while it is in the DLQ, and while the stream  *)
(* has an entry of it the group has yet to finish with.  XADD is Accept, a *)
(* committed transaction Record, the two ignored failures GiveUp, and XACK *)
(* is Release.                                                             *)
Kept ==
    {e \in Events :
        gateway[e] = "direct" \/ e \in dlq \/ \E i \in Unfinished : stream[i] = e}

Promise == INSTANCE AuditPromise WITH kept <- Kept, recorded <- graph, outage <- ~recovered
KeepsPromise == Promise!Spec
=============================================================================

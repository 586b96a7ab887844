# Sentinel AI in TLA+

Sentinel AI is a governance gateway for AI agents: before an agent runs a tool it asks the
gateway, which answers ALLOWED, BLOCKED or HUMAN_REVIEW. This directory models the parts of
it that keep shared state and run concurrently, checks them with TLC on small instances, and
proves the most important properties with TLAPS for every value of the constants.

All paths below are relative to the repository.

## 1. The system

| Component | State | Operations | Hard behaviour |
|---|---|---|---|
| Tool call handler, `gateway/routes/tool_calls.py` | none of its own | authenticate, rate limit, classify, fast path, answer or dispatch, audit and publish as background tasks | two reads of the active policy, tasks that raise or die with the gateway |
| Fast path and classifier, `gateway/fast_path/`, `gateway/classifier/heuristics.py` | none | `evaluate_fast_path`, `classify` | order of passes and of rules |
| Policies, `policies/loader.py`, `routes/policies.py`, `scripts/activate_policy.py` | `policy:active:<tenant>:<group>` keys, files | `get_active_policy`, `activate_policy_version` | activation between two reads, silent fall-backs |
| Rate limiter, `gateway/fast_path/rate_limiter.py` | `rate:<tenant>:<agent>`: tokens, last_refill_ts | one Lua script | stamps of several replicas, retries, rounding, key expiry |
| Cognitive path, `gateway/cognitive_path/handler.py`, `routes/decisions.py` | `decision:pending:<id>`, `decision:result:<id>` with TTLs | `store_pending`, `run_cognitive_evaluation` (background), `get_decision_result` | partial failures, crash of the task, poll between two writes |
| Judge cascade and tiers, `judge/` | breaker state and failure counter in Redis | `get_state`, `record_success`, `record_failure`, `run_cascade` | read–await–write, double recording, outage and recovery |
| Audit pipeline, `database/stream_writer.py`, `stream_consumer.py`, `audit_writer.py` | Redis stream, consumer group, DLQ, Neo4j graph | enqueue, consume, retry, DLQ, requeue | lost replies, worker restarts, duplicates |
| Agent registry, `routes/agents.py`, `auth/`, `middleware/auth.py` | key, reverse index, name and info records | register, authenticate, revoke, get | check-then-act, partial registration and revocation |
| WebSocket manager, `gateway/websocket/manager.py`, `routes/websocket.py` | connections, missed pings | connect, disconnect, broadcast, heartbeat, listener | a copy of the connections sent to while they come and go |
| Clients: SDK, `scripts/terminal_guard.py`, `scripts/gmail_guarded_send.py` | one call | check, poll, run or refrain | what each takes an error or "pending" for |

How they interact: the handler calls the limiter, the policy loader and the fast path in turn
and, when a judge is needed, stores a pending marker, starts `run_cognitive_evaluation` as a
background task and answers "pending". The task calls `run_cascade` (which uses the breaker),
stores the verdict, enqueues an audit event and publishes to the channel the WebSocket listener
reads. The agent's SDK polls. Audit workers read the stream and write Neo4j. Everything shared
is in Redis; there are no locks, so every `await` on Redis is a point where another task, replica
or process may act, and every one may raise after its command was applied, or be sent twice: the
clients of `shared/redis_client.py` have a socket timeout of two seconds and `retry_on_timeout`,
with which a timed-out command is sent once more and a quiet subscription is renewed.

What makes each part correct:

- **tool call**: the active policy decides, a block of the rules is final, answer and trail and
  dashboard agree, and a client runs only what was allowed.
- **fast path**: adding a block rule never makes a policy laxer.
- **cognitive path**: whatever fails, the agent is told the ruling or HUMAN_REVIEW; it is not
  told "not found" while the decision is under way; audit, dashboard and answer agree; it gets
  an answer at all.
- **cascade and breaker**: an OPEN breaker keeps calls away for the reset timeout and comes back
  to CLOSED by traffic alone; an ALLOWED is a sure one.
- **audit pipeline**: an event that was handed over is stored once, or is still somewhere; after
  an outage what is still to be delivered is settled.
- **rate limiter**: no window admits more than bucket plus rate; `reset_at` is kept.
- **registry**: a revoked key is dead, a key that was handed out can be revoked, names are unique
  but for a race, and the audit graph refuses nobody's events without a rival for the name.
- **event stream**: each dashboard gets each event once and in order, and misses only what is
  published while the subscription is renewed; dead connections go away.

The hazards are listed, each at its line, in `PROJECT.json`; two have no property, with the reason.

## 2. Modules

| Module | Models | Checked by | Proofs |
|---|---|---|---|
| `FastPath` | classifier and rules, as operators | `MCToolCall.cfg` | `ToolCallProofs` |
| `ToolCall` (extends `FastPath`) | a tool call from the key check to the client's reaction, policy activation | `MCToolCall*.cfg` | `ToolCallProofs` |
| `DecisionPromise` | what the agent is promised (abstract) | `KeepsPromise` of `MCCognitivePath.cfg` | `PathKeepsPromise` |
| `CognitivePath` | handler, task, poll, TTLs | `MCCognitivePath*.cfg` | `CognitivePathProofs` |
| `JudgeTiers` | what a tier makes of its model's answers, as operators | `MCJudgeCascade.cfg` | `JudgeCascadeProofs` |
| `JudgeCascade` (extends `JudgeTiers`) | cascade and breaker | `MCJudgeCascade*.cfg` | `JudgeCascadeProofs` |
| `CognitiveBranch` (extends `CognitivePath`) | the path as the cognitive branch of `ToolCall` | `MCCognitivePath.cfg` | `CognitiveBranchProofs` |
| `AuditPromise` | what the trail promises of each event (abstract) | `KeepsPromise` of `MCAuditPipeline.cfg` | `PipelineKeepsPromise` |
| `AuditPipeline` | stream, group, workers, DLQ, graph | `MCAuditPipeline*.cfg` | `AuditPipelineProofs` |
| `TokenBucket` | rate limiter | `MCTokenBucket*.cfg` | `TokenBucketProofs` |
| `Registry` | registration, revocation, authentication, Agent nodes | `MCRegistry.cfg` | `RegistryProofs` |
| `WsManager` | connections, listener, heartbeat, reconnecting dashboard | `MCWsManager.cfg` | `WsManagerProofs` |

`MC*` modules extend a module for TLC; the `.cfg` files give the constants. Operators commented
"Mutant" are plausible bugs. Nothing uses them; `PROJECT.json` pairs each with the definition it
would replace and the property that then fails, which shows the property is sensitive to that code.

### FastPath and ToolCall

A rule is a record of its type, the tools it applies to, the argument it looks at, its action and
the set its pattern, list or limit stands for; `EvaluateFastPath` keeps the order of the four
passes, the first rule of a pass, and which passes obey the action. `Cognitive` is `classify`.

`phase` is where the handler stands, then its background tasks: `get_tenant`, `get_system` and
`got` are the steps of `get_active_policy`, which the handler runs twice, for the rules (`applied`)
and for the version it reports (`recorded`). `Activate` moves a key; `GetKeyRaises` is the fall-back
in silence. `due` and `disturbed` are history: the policy active at the start and the calls
during whose reads something moved. `judge`, `audit`, `publish` are the tasks; each may raise, and
`Crash` kills them. `Receive`, `Lose` and `Poll` are the clients: `SdkReaction`, `MailReaction` and
`GuardReaction` say what each does with an answer, `GuardError` what `--fail-closed` changes.
The limiter is cut down to yes or no (`Limited`), the judge to a ruling or a failure
(`JudgeRules`, `JudgeFails`) and the poll to its outcomes: these are what `TokenBucket`,
`JudgeCascade` and `CognitivePath` are about; that the last of these cuts is right is checked and
proved in `CognitiveBranch`.

### CognitivePath

`req`, `task`, `sdk` are program counters of the handler, of `run_cognitive_evaluation` and of
`AgentClient.check`; `pending`, `result`, `ttl` are the two keys; `judged`, `audited`, `shown`,
`answer` record what the cascade returned, what reached the audit pipeline, what the dashboard
channel carried and what the agent was told; `age` and `notFound` are history for
`NoEarlyNotFound`. Every Redis command is an action with a `...Raises` twin that
covers "applied, reply lost" and "not applied" and continues where the code does: in the except
block for the try block, at the end of the task (`dead`) for the except block. `Crash` kills the
task. `ReadPending` and `ReadResult` are the two reads of one poll. `RunCascade` returns
any verdict: which one, and that it may raise, is the matter of `JudgeCascade`.

### CognitiveBranch

`ToolCall` has five actions (`JudgeRules`, `JudgeFails`, `Audit`, `Publish`, `Poll`, with the twins
that raise) where `CognitivePath` has the task, the keys and the SDK. This module gives the variables
of `ToolCall` as functions of those of `CognitivePath`: `Phase`, `ReplyTo`, `Client` and `Event` map
the program counters, `heard` is who has begun to poll, and the writes of the two keys are invisible.
The path begins where the handler has read the policy twice and is about to store the marker;
`Request`, `Applied` and `Recorded`, the tool call and what the two reads found, are constants, any
that leave the decision to a judge (`BranchAssumption`). Activations after the second read are left
out, as nothing reads the policy any more. `KeepsToolCall` says that every step is a step of
`ToolCall` or unseen: the task audits before it publishes, each at most once whatever raises, and
the agent goes on only on an answer or a poll.

### JudgeTiers and JudgeCascade

`VerdictFromResults` is `_verdict_from_results`: a confidence is abstracted to whether it reaches
the tier's minimum. `phase` is where a run of `run_cascade` stands between its Redis commands,
`tier1` the result it holds. `breaker`, `openFor` are the state key (`opened_at` as elapsed time);
`failures`, `expiry` the counter and its TTL. `record` tells the failure recorded by `__aexit__`
from the one recorded by the except branch. `Resend` is the client's second copy of a command whose
reply was late: it matters for INCR, which then counts a failure twice (`IncrementExtra`); `resent`
has the runs whose command under way was sent again, which the client does once. `saw`, `counted`,
`allowance` are history: the state that let a run in, the failed runs behind the counter, and what
they and the re-sent INCRs account for (two records a run, one an INCR). `Answers` are the results
Tier 1 may give. `OperatorReset` is the runbook's deletion of the keys. Publishing and the gauge
are left out, as nothing reads them back.
`judge_force_tier3_openai` is off: a run with it on never meets the breaker.

### AuditPipeline

The stream is a sequence whose positions are the entry ids; `cursor` and `pel` are the consumer
group's last delivered id and pending entries list; `graph` counts Decision nodes per event;
`batch`, `attempt`, `phase` are what a worker has in memory. `Accepts` says what Neo4j takes: no
second Decision of one id, and no event of `Refused` ever: a poison entry (one `_parse_event`
cannot read), or one whose agent's name another Agent node holds (`schema.cypher:15`). Such an
entry fails on every attempt and goes to the DLQ. `ReadLost` is the reply of XREADGROUP that comes
too late: as `_BLOCK_MS` equals the socket timeout it takes no outage, and it stays possible after
`Recover`. `lost` is history: events dropped by the two failures the code ignores. Waiting between
attempts is left out: time plays no part.

`AuditPromise` knows no stream: an event is accepted once, recorded at most once and for good, and
custody of it ends only when it is recorded or given up on; after the outage only what is recorded
or refused is given up on. `Kept` is the refinement mapping: an event is in custody while the gateway writes it
itself, while it is in the DLQ, and while the stream holds an entry of it the group has not finished
with. A redelivered entry that is written again, a requeue from the DLQ and a worker that loses its
batch are stutters.

### TokenBucket

One evaluation of the script is one action, as Redis runs it atomically; the stamp it carries was
read earlier, so it is any time of the last `MaxDelay`. The rate is the fraction `Num/Den`
per tick (50 per minute: 1/1200 per millisecond), so rounding is exact. Cost is 1, the only value
the code passes. `admitted`, `start`, `regained` observe a window that any evaluation may start.

### Registry

An element of `Agents` is one registration request with the id and key it draws. `reg` and
`revoke` are where `register_agent` and `revoke_api_key` stand between Redis commands, each of which
may raise before or after it was applied. `keys`, `index`, `owner`, `info` are the four records;
`node` is the Agent node that holds a name, as `AuditCall` (an authenticated call that is audited)
creates it under the unique constraint, and `rejected` the agents whose event Neo4j refused.
`OutsiderAudited` creates nodes that `register_agent` knows nothing of: for calls with the admin
key and for the events `seed_neo4j.py` writes, neither of which has an `agent:name:*` key;
`ClearTenant` is its `--clear`. `met` and `foreign` are history: requests whose name check
overlapped a namesake's writes, and names an outsider has used.

### WsManager

A session is one connection of a dashboard (the endpoint draws a session id per connection).
`socket` is the connection, `endpoint` its coroutine; the listener and the heartbeat each hold a
copy of the connections (`targets`, `round`) and await once per connection, so a step ends at
every await. `Connect` is `useWebSocket.ts`, which has one socket at a time; `Break` resets a
connection or lets its client fall silent. `last` is the last event a client got. `Drop` is a
channel that was quiet for two seconds: `pubsub.listen()` times out, `retry_on_timeout` disconnects
and subscribes again (`Resubscribe`), and the loop of `_listen_redis` notices nothing; `gaps` is
history, the events published in between. An event that is on its way when the timeout strikes is
one of these: it is published after `Drop`. Time is left out: a round of the heartbeat starts, and
a channel is quiet, whenever it likes.

That the redis client (5.0.4) sends a timed-out command once more, and renews a subscription that
way, is not in this repository: it is how the actions named `Resend`, `Drop` and `Resubscribe`, the
second copies of XADD and EVAL, and `ReadLost` understand `redis_client.py:27-28`.

## 3. Runs

| Run | Bounds | Shows |
|---|---|---|
| `tool_call` | 1 call of 4 kinds of clients and 7 requests, 2 versions, 2 tenants, 2 activations | policy, hard blocks, trail, clients, block rules |
| `guard_pending` | same, 1 activation | **violated**: the terminal guard runs what is pending |
| `cognitive_path` | 1 decision, TTLs 2 and 3 ticks, 2 polls; policy moved between the handler's reads | all safety, `check` ends, refinement of `DecisionPromise` and of `ToolCall` |
| `fallback_audit` | same | **violated**: a fallback decision is never audited |
| `judge_cascade` | 2 runs, fail_max 3, reset timeout 1 tick | cool-down, two records per failed run and one per re-sent INCR, sure ALLOWED, the breaker closes with an empty counter |
| `half_open_probe` | same | **violated**: two probes at a time |
| `audit_pipeline` | 2 events, one of them refused, 1 worker, batch 2, 2 attempts, 3 stream entries | conservation, orphans, settlement, refinement of `AuditPromise` |
| `stream_drain` | 2 events, none refused, 3 attempts, 2 stream entries | **violated**: a delivered entry is never processed after the outage |
| `token_bucket` | bucket 2, rate 2/3, TTL 4, delay 1, clock 7 | admission bound, reset_at |
| `bucket_refill` | same, no delay | **violated**: denied requests throw the fraction of a token away |
| `registry` | 3 registrations, 2 names, an outsider | revocation, namesakes, refused audit events |
| `ws_manager` | 1 dashboard with 2 connections, 1 missed ping, 2 events | order, delivery but for renewals, dead connections |

Why these bounds are enough. Calls and decisions share only keys that no call writes (policies)
or keys of their own, so one call and one decision show every interleaving of their actors. The
two policies have a catch-all rule before a block rule, a review in an earlier pass than a block,
and mail for the judge; two tenants give the fall-back to `system`, and the keys start at any
version, one beyond the disk included (a roll-back). Two activations move the key under both
reads. Two polls give one that fails and one that is last, and a result TTL one above the pending
TTL lets either end first. With fail_max 3, one failed run (two records) does not trip the breaker
and two do, so the runs interfere in tripping, probing and closing; a reset timeout of one tick
with a counter TTL of two lets the counter expire before and after a probe. In `judge_cascade`
one run is on a replica with an OpenAI key and one is not, and Tier 1 answers ALLOWED or
HUMAN_REVIEW, sure or not: no property tells BLOCKED from the latter. Two events, a batch of two and
three entries give a duplicate, a second entry behind a refused one, and an entry not yet delivered;
`MaxStream` is the bound on appends that keeps the stream finite, and caps requeues. A rate of
2/3 makes refills round down and waits round up; seven ticks pass the TTL of four. Three
registrations over two names are a race and one beside it, or a race of three. Two connections of
one dashboard are an old session still registered beside its successor; one missed ping is enough for
a pong to come before and after the round that finds the limit reached (with the code's two the same
run takes five minutes and passes as well); two events give one that is lost to a renewal and one
before or after it. Dashboards meet only in the lists the tasks work on, and
the two sessions of one are two entries there already.

What is cut: `attempts` by `MaxPolls`, which is the code's own; `failures` and `allowance` at
`FailMax`, above which the code makes no difference; `now` by `MaxTime`; `regained` by
`MaxRegained`; activations, appends, events and connections by `MaxActivations`, `MaxStream`,
`MaxPublished` and `Connects`.

Fairness. `CognitivePath`: weak fairness of each task's and poller's steps (an event loop runs
what is ready) and of the clock; none of requests, and `Crash` stays possible at any time.
`JudgeCascade`: of each run's steps – agents keep calling – and of the clock; `Recover`, after
which no command raises or is sent twice, is not assumed but is the premise of `EventuallyCloses`. `AuditPipeline`:
of the worker's steps only, which covers the restart by Docker (`restart: unless-stopped`);
again `Recover` is a premise, and replies of XREADGROUP may be lost even then. `WsManager`: of the
listener (which finishes a renewal or ends), the heartbeat and each endpoint, which
the event loop resumes; nobody has to connect, to answer a ping or to break, and the Redis
subscription may be renewed or fail for good at any time. No run assumes that a failing alternative is ever
taken or avoided, and liveness under fairness is checked by TLC only. The `tool_call` and
`registry` runs check safety only. Deadlock is off where the system may stop: all calls are
answered, all registrations done, all connections used up.

### What the violations say

1. `OneProbe`: `circuit_breaker.py:7` promises one probe in HALF_OPEN; `__aenter__` admits all.
2. `FallbackIsAudited`: the runbook (384–388) queries Neo4j for fallback decisions; the except
   block of `run_cognitive_evaluation` enqueues none.
3. `StreamDrains`: the runbook (163) says the backlog drains by itself; entries delivered to a
   worker that lost them stay in the pending list, which no code claims.
4. `RefillsAtRate`: `rate_limiter.py:8` promises a rate; a denied request moves `last_refill_ts`
   without crediting the fraction of a token, so asking faster than one token takes is denied for ever.
5. `GuardWaits`: `tool_calls.py:11` says a pending decision returns 202, which the terminal guard
   waits on; the route returns 200 (line 61), and the guard reads a body without a verdict as ALLOWED.

Smaller disagreements the models show or the reading turned up, without a run of their own:

- `run_cascade` does raise when recording a failure raises (`RecordRaises`; `cascade.py:45` says
  never), and an OPEN breaker escalates to Tier 3 when a key is configured instead of returning
  HUMAN_REVIEW (`Return`; `circuit_breaker.py:6`). With Redis down `get_state` raises, where
  `runbook.md:99` has "Circuit breaker returns CLOSED".
- A HUMAN_REVIEW of the rules counts for nothing once the classifier wants a judge
  (`NeedsJudge`; `tool_calls.py:157`), and a human_review rule of an earlier pass hides a block
  rule of a later one: the passes go by type, whatever `severity` says in the docstring of
  `router.py`.
- Tasks added before a 429 is raised are discarded with the response, against the comment at
  `tool_calls.py:96`; a fast-path BLOCKED is counted at 153 and again at 225.
- A dashboard stays connected and silent after the listener ended (`ListenerEnds`), where
  `runbook.md:101` expects "WS Disconnected". A round of the heartbeat that started before a
  session ended leaves it an entry in `_missed_pings` for ever (`Ping`; `manager.py:150`).
- `runbook.md:118` says the audit worker retries DLQ events on startup; no code reads the DLQ, and
  only the runbook's own script (`Requeue`) empties it.
- `README.md:191-196` gives each Redis database an eviction policy of its own, `noeviction` for the
  audit stream; `docker-compose.yml:28-29` runs one Redis with `allkeys-lru` for all (see 5).
- A name is not freed by a registration that failed after `set_name`, nor by a revocation
  (`Registry`).
- `/v1/auth/token` cannot succeed: `agents.py:146` reads `body.session_id`, which `TokenRequest`
  does not have.
- `terminal_guard.py:71` caches its key and never drops it on a 401, after which it fails open.

## 4. Proofs

Eight proof modules prove facts of `Spec` for all constants that satisfy the named assumptions:
every safety property of the runs, the three refinements, and further safety results that need no
run of their own. `MaxX` bounds are arbitrary naturals, so the proofs cover runs of any length.

`CognitivePathProofs` (assumption: TTLs and poll limit are positive, the result TTL is not below
the pending TTL – 3600 s and 120 s in the code). None of the properties is inductive; `PathInv`
has three parts per decision besides `RuledInv`, without which even `TypeOK` is not inductive
(what `Enqueue` audits must be a verdict):

- `VerdictInv`: who may have written which verdict. Nothing is stored before the ruling, so a
  ruling never replaces another verdict; hence `FailClosed`, `AnswerAgreesWithAudit`,
  `StoredOnlyWeakened` and the refinement of `DecisionPromise`.
- `ChannelInv`: what the keys hold at each step before publishing; hence `ShownIsStored`.
- `TimeInv`: until the pending TTL is over one of the two keys is there: the marker with
  exactly the TTL that remains, or a result that outlives it. A poll that missed the marker
  therefore finds the result; hence `NoEarlyNotFound`.

`CognitiveBranchProofs` (the assumptions of the path, the types of the tool call's constants, and
`BranchAssumption`). `PathKeepsToolCall` takes each action of the path to the one action of
`ToolCall` it is, or shows that it leaves the mapped variables alone; it needs `RuledInv` and
`VerdictInv` (the polled verdict is the ruling or HUMAN_REVIEW) and `BranchInv` (a task runs only
for an accepted request, an agent with a poll behind it has heard). `PathInheritsToolCall` then
carries `RunsOnlyIfAllowed` and `TrailTellsTheAnswer` down: the invariant of `ToolCallProofs`, used
there under the mapping by INSTANCE, holds where the path begins and is kept by every step of `ToolCall`.

`TokenBucketProofs` (assumptions: positive constants, and a key does not expire before its bucket
would be full – 120 s against 60 s in the code). `AdmissionBound` is strengthened to count what is
left in the bucket with what was admitted, and to say that an idle key was last evaluated at least
`idle` ago; `ExpiredIsPaidFor` is the step where an expired key restarts from a full bucket.
`ResetPromiseKept` follows from `ResetInv`: a 429 always names the last stamp plus one token's wait.
`OnTimeBound` is the bound without `regained`, for a gateway whose stamps are never late
(`MaxDelay = 0`, a special case and not assumed elsewhere). `EmptyBucketStarves` is why the run
`bucket_refill` fails, for every size and rate: a request sooner than one token's time after the
last one finds the bucket empty and leaves it empty, and moves the stamp.

`ToolCallProofs` (assumption: the types of the constants only). `CallInv` says, per call, on the
strength of which rules it was answered (`AnswerInv`), that tasks tell no other verdict
(`TrailInv`), and on which answer a client acts (`ClientInv`); the four properties about clients
and trail follow. `ReadInv` follows one read of the policy from key to key and gives
`PolicyIsTheActiveOne`. `BlockRuleTightens` is about `EvaluateFastPath` alone, for every policy,
position, block rule and call: an inserted rule shifts the positions of the others and keeps their
order, so the first rule that fires in a pass is the old one or the new one. `OrderWithinTypes`
is its companion: moving rules past rules of other types, for every policy, changes no verdict, as
the passes go by type. `OnlyTheOpenGuardSkips` covers all clients: a command runs unchecked only in
the terminal guard without `--fail-closed`, and only when no answer reached it or the answer was an
error; every other client that ran, or polls, was told ALLOWED or pending.

`JudgeCascadeProofs` (positive limits). `NoProbeDuringCoolDown` is inductive with the types, and so
is `SureInv`, behind `AllowedIsSure`. `TwoRecordsPerRun` needs to count the records that are still
owed: `Owing` are the counted runs with their second record to come, and `Bound` has them paid
for in advance out of `allowance`, which a re-sent INCR raises by the one record it makes.
`TripsAreEarned` follows: the breaker opens only by a run that was told a full counter, and then
failed runs at two records each, with the re-sent INCRs, accounted for `fail_max` since the counter
was last deleted: half of `fail_max` failed runs if no INCR was sent twice, fewer otherwise.
`OpenIsLeftByProbes` says how OPEN is left: by the operator, or by a run that waited for the reset
timeout or had read the breaker before it tripped, and to CLOSED only by one that Tier 1 answered.

`AuditPipelineProofs` (positive batch size and retries). `BusyInv` ties a worker's phase to its
batch; `BatchesAreDelivered` is then inductive. `PipelineInv` says of every event handed over that it
is in the graph, the DLQ or `lost`, or in an entry that is unfinished and that no worker is about
to acknowledge on the strength of a DLQ entry (`Safe`, `Waiting`), and that an acknowledgement
follows a write (`AckedIsWritten`); hence `NothingVanishes`. No assumption is made on `Refused`.
`PipelineKeepsPromise` is the refinement of `AuditPromise`, from these invariants and `Fresh` (an
event the gateway has not emitted is nowhere in the trail): `PromiseStep` takes each action to
`Accept`, `Record`, `GiveUp`, `Release`, `EndOfOutage` or a stutter; a failed write is `Record`
when its transaction had committed. `BatchesAreDelivered` is a step of that argument and proved,
not a property of a run.

`RegistryProofs` (no assumption but that `NoAgent` is none of the agents). `KeyInv`, `RevokeInv`:
the reverse index is written after the key and deleted after it, so a revocation that found the
index finds no later write of the key. `ClaimInv`: of two that claim a name, one saw it
free while the other was storing, or the second saw it taken. `GraphInv`: a node belongs to an
outsider, who has then used the name, or to an agent of that name that was given a key; hence
`OnlyRivalsCauseRefusals`. `KeysNeverComeBack` is the step property behind `RevokedIsGone`: a
key that was handed out or met by a revocation is, once gone, never written again.

`WsManagerProofs` (natural bounds). `OpenInv`: an open connection is registered, is its dashboard's
only one, and of all that was taken since it was accepted it misses only events of `gaps` and the
one a broadcast has still to send to it. `ListenerInv` adds that a renewal begins with nothing
waiting and that all that comes until it ends is in `gaps`, which is what lets `Resubscribe` skip
it. `FanOutKeepsOrder` is what a send then does, and `NobodyIsForgotten` states the part of
`OpenInv` a reader of `manager.py` would ask for.

Only model-checked: the liveness properties (`CheckEnds`, `EventuallyCloses`,
`UndeliveredIsSettled`, `EventsArrive`, `DeadAreDropped`), which need ENABLED and the fairness
rules and are out of the prover's reach, and the violations. The refinement mappings are of
safety: fairness of the detailed specifications is not part of them.

## 5. Not modelled, and why

- The judges' answers: language models, any answer their schema allows is possible. Prompts,
  HTTP and parsing with them.
- Hashing, JWT signing and key-pair creation, the seeding of the admin key: cryptography or
  done once before the gateway serves.
- Trimming of the audit stream: its limit is 100 000 entries; with one as small as a model's
  streams every outage would drop events, so the model has none.
- The Session and PolicyVersion nodes of the audit transaction: merged, read by no code here.
  The Agent node is in `Registry`; that it can refuse an event is `Refused` in `AuditPipeline`.
- The breaker's gauge and all other metrics, logging, configuration and wiring; a setting that
  matters is a CONSTANT.
- Eviction: one Redis of 512 MB with `allkeys-lru` (`docker-compose.yml:28-29`) may drop any key
  once it is full. No model has that, so whatever is said of keys that stay is said of a Redis with
  memory to spare: a reverse index that outlives its key (`GivenKeysAreRevocable`), an event that
  is still in the stream or the DLQ (`NothingVanishes`, `KeepsPromise`), a stored result or marker
  (`NoEarlyNotFound`), the breaker's OPEN state (`NoProbeDuringCoolDown`).
- The WebSocket endpoint's token check, its gauge and the shutdown of the manager; the
  dashboard's presentation and event store.
- Command parsing, the key cache and the shell hooks of the guards.
- Demo agents, tests and deployment: callers. Of the seeding scripts only what they leave in the
  audit graph is modelled (`Registry`).

## 6. Plan

What is left, most important first:

1. Two replicas of the gateway in `WsManager`, whose listeners read one channel.
2. The life of a key (drawn, handed out, revoked) as an abstract specification that `Registry`
   implements.
3. `JudgeCascade` under `CognitivePath`: the verdict `RunCascade` takes at will is one that
   `run_cascade` may return.
4. `AuditPipeline` with trimming, with a bound on how far consumers may fall behind as premise.

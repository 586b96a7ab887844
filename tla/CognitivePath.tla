--------------------------- MODULE CognitivePath ---------------------------
(***************************************************************************)
(* The asynchronous decision: the request handler stores a pending marker  *)
(* and answers "pending", a background task runs the judge cascade and     *)
(* stores, audits and publishes the verdict, and the agent's SDK polls.    *)
(*                                                                         *)
(* gateway/cognitive_path/handler.py, the cognitive branch of              *)
(* gateway/routes/tool_calls.py, gateway/routes/decisions.py and           *)
(* sentinel-sdk/client.py.  Every Redis command is a step of its own, and  *)
(* each may raise after it was applied or without having been (the clients *)
(* of shared/redis_client.py have a two second socket timeout).  The       *)
(* gateway process may die between any two steps.  Time passes in ticks    *)
(* that run the two TTLs down.                                             *)
(***************************************************************************)
EXTENDS Integers

CONSTANTS Decisions,    \* decision ids, unique per tool call (uuid4)
          PendingTTL,   \* _PENDING_TTL_SECONDS, in ticks
          ResultTTL,    \* _RESULT_TTL_SECONDS, in ticks
          MaxPolls      \* _MAX_POLL_ATTEMPTS of the SDK

ASSUME CognitivePathAssumption ==
    /\ PendingTTL \in Nat \ {0}
    /\ ResultTTL \in Nat
    /\ ResultTTL >= PendingTTL
    /\ MaxPolls \in Nat \ {0}

Verdicts == {"ALLOWED", "BLOCKED", "HUMAN_REVIEW"}
NoVerdict == "none"

VARIABLES
    req,       \* the request handler: "new", "accepted" or "rejected" (HTTP 500)
    task,      \* where the background task stands
    judged,    \* the verdict run_cascade returned to the task
    pending,   \* TTL left on decision:pending:<id>, 0 when the key is absent
    result,    \* decision:result:<id>, NoVerdict when the key is absent
    ttl,       \* TTL left on decision:result:<id>
    audited,   \* verdicts that reached the audit pipeline under this id
    shown,     \* the verdict the dashboard channel last carried
    sdk,       \* where AgentClient.check stands
    attempts,  \* polls made
    answer,    \* the verdict check() returned
    age,       \* ticks since the request, counted up to PendingTTL
    notFound   \* decisions for which a poll was answered 404

redisVars == <<pending, result, ttl>>
taskVars == <<req, task, judged, audited, shown>>
sdkVars == <<sdk, attempts, answer, notFound>>
vars == <<req, task, judged, pending, result, ttl, audited, shown,
          sdk, attempts, answer, age, notFound>>

TaskSteps == {"set_result", "clear_pending", "enqueue", "publish",
              "fallback_set", "fallback_clear", "fallback_publish"}
Running == TaskSteps \cup {"cascade"}
SdkStates == {"waiting", "sleeping", "get_pending", "get_result", "answered", "raised"}

TypeOK ==
    /\ req \in [Decisions -> {"new", "accepted", "rejected"}]
    /\ task \in [Decisions -> Running \cup {"idle", "done", "dead"}]
    /\ judged \in [Decisions -> Verdicts \cup {NoVerdict}]
    /\ pending \in [Decisions -> 0..PendingTTL]
    /\ result \in [Decisions -> Verdicts \cup {NoVerdict}]
    /\ ttl \in [Decisions -> 0..ResultTTL]
    /\ audited \in [Decisions -> SUBSET Verdicts]
    /\ shown \in [Decisions -> Verdicts \cup {NoVerdict}]
    /\ sdk \in [Decisions -> SdkStates]
    /\ attempts \in [Decisions -> 0..MaxPolls]
    /\ answer \in [Decisions -> Verdicts \cup {NoVerdict}]
    /\ age \in [Decisions -> 0..PendingTTL]
    /\ notFound \in SUBSET Decisions

Init ==
    /\ req = [d \in Decisions |-> "new"]
    /\ task = [d \in Decisions |-> "idle"]
    /\ judged = [d \in Decisions |-> NoVerdict]
    /\ pending = [d \in Decisions |-> 0]
    /\ result = [d \in Decisions |-> NoVerdict]
    /\ ttl = [d \in Decisions |-> 0]
    /\ audited = [d \in Decisions |-> {}]
    /\ shown = [d \in Decisions |-> NoVerdict]
    /\ sdk = [d \in Decisions |-> "waiting"]
    /\ attempts = [d \in Decisions |-> 0]
    /\ answer = [d \in Decisions |-> NoVerdict]
    /\ age = [d \in Decisions |-> 0]
    /\ notFound = {}
-----------------------------------------------------------------------------
(* Redis commands on the two keys.  A command that raises may have been    *)
(* applied before its reply was lost.                                      *)

SetPending(d) ==
    /\ pending' = [pending EXCEPT ![d] = PendingTTL]
    /\ UNCHANGED <<result, ttl>>

SetResult(d, v) ==
    /\ result' = [result EXCEPT ![d] = v]
    /\ ttl' = [ttl EXCEPT ![d] = ResultTTL]
    /\ UNCHANGED pending

ClearPending(d) ==
    /\ pending' = [pending EXCEPT ![d] = 0]
    /\ UNCHANGED <<result, ttl>>

Goto(d, from, to) ==
    /\ task[d] = from
    /\ task' = [task EXCEPT ![d] = to]
-----------------------------------------------------------------------------
(* The request handler, cognitive branch.                                  *)

StorePending(d) ==
    /\ req[d] = "new"
    /\ req' = [req EXCEPT ![d] = "accepted"]
    /\ SetPending(d)
    /\ Goto(d, "idle", "cascade")
    /\ UNCHANGED <<judged, audited, shown, sdkVars, age>>

StorePendingRaises(d) ==
    /\ req[d] = "new"
    /\ req' = [req EXCEPT ![d] = "rejected"]
    /\ SetPending(d) \/ UNCHANGED redisVars
    /\ UNCHANGED <<task, judged, audited, shown, sdkVars, age>>
-----------------------------------------------------------------------------
(* run_cognitive_evaluation.  store_decision_result is two commands.       *)

\* Mutant: the except block stores ALLOWED.
FailOpenVerdict == "ALLOWED"

FallbackVerdict == "HUMAN_REVIEW"

RunCascade(d) ==
    /\ Goto(d, "cascade", "set_result")
    /\ \E v \in Verdicts : judged' = [judged EXCEPT ![d] = v]
    /\ UNCHANGED <<req, redisVars, audited, shown, sdkVars, age>>

\* Mutant: the marker is deleted before the result is written.
DeleteFirst(d) ==
    /\ Goto(d, "set_result", "clear_pending")
    /\ ClearPending(d)
    /\ UNCHANGED <<req, judged, audited, shown, sdkVars, age>>

StoreResult(d) ==
    /\ Goto(d, "set_result", "clear_pending")
    /\ SetResult(d, judged[d])
    /\ UNCHANGED <<req, judged, audited, shown, sdkVars, age>>

StoreResultClear(d) ==
    /\ Goto(d, "clear_pending", "enqueue")
    /\ ClearPending(d)
    /\ UNCHANGED <<req, judged, audited, shown, sdkVars, age>>

\* enqueue_audit_event returns after its direct write to Neo4j failed, too:
\* write_audit_event reports that by a return value nobody reads.
Enqueue(d) ==
    /\ Goto(d, "enqueue", "publish")
    /\ audited' = [audited EXCEPT ![d] = @ \cup {judged[d]}] \/ UNCHANGED audited
    /\ UNCHANGED <<req, judged, redisVars, shown, sdkVars, age>>

\* Publishing never raises; a message Redis did not take is lost.
Publish(d) ==
    /\ Goto(d, "publish", "done")
    /\ shown' = [shown EXCEPT ![d] = judged[d]] \/ UNCHANGED shown
    /\ UNCHANGED <<req, judged, redisVars, audited, sdkVars, age>>

\* Any exception of the try block continues in the except block.
CascadeRaises(d) ==
    /\ Goto(d, "cascade", "fallback_set")
    /\ UNCHANGED <<req, judged, redisVars, audited, shown, sdkVars, age>>

StoreResultRaises(d) ==
    /\ Goto(d, "set_result", "fallback_set")
    /\ SetResult(d, judged[d]) \/ UNCHANGED redisVars
    /\ UNCHANGED <<req, judged, audited, shown, sdkVars, age>>

\* Mutants: the failed DELETE is judged again, or is ignored.
JudgeAgainAfterClear(d) ==
    /\ Goto(d, "clear_pending", "cascade")
    /\ ClearPending(d) \/ UNCHANGED redisVars
    /\ UNCHANGED <<req, judged, audited, shown, sdkVars, age>>

IgnoreFailedClear(d) ==
    /\ Goto(d, "clear_pending", "enqueue")
    /\ ClearPending(d) \/ UNCHANGED redisVars
    /\ UNCHANGED <<req, judged, audited, shown, sdkVars, age>>

StoreResultClearRaises(d) ==
    /\ Goto(d, "clear_pending", "fallback_set")
    /\ ClearPending(d) \/ UNCHANGED redisVars
    /\ UNCHANGED <<req, judged, audited, shown, sdkVars, age>>

\* Mutant: the whole evaluation is retried when its audit raised.
JudgeAgainAfterEnqueue(d) ==
    /\ Goto(d, "enqueue", "cascade")
    /\ audited' = [audited EXCEPT ![d] = @ \cup {judged[d]}] \/ UNCHANGED audited
    /\ UNCHANGED <<req, judged, redisVars, shown, sdkVars, age>>

EnqueueRaises(d) ==
    /\ Goto(d, "enqueue", "fallback_set")
    /\ audited' = [audited EXCEPT ![d] = @ \cup {judged[d]}] \/ UNCHANGED audited
    /\ UNCHANGED <<req, judged, redisVars, shown, sdkVars, age>>

FallbackStore(d) ==
    /\ Goto(d, "fallback_set", "fallback_clear")
    /\ SetResult(d, FallbackVerdict)
    /\ UNCHANGED <<req, judged, audited, shown, sdkVars, age>>

FallbackClear(d) ==
    /\ Goto(d, "fallback_clear", "fallback_publish")
    /\ ClearPending(d)
    /\ UNCHANGED <<req, judged, audited, shown, sdkVars, age>>

FallbackPublish(d) ==
    /\ Goto(d, "fallback_publish", "done")
    /\ shown' = [shown EXCEPT ![d] = FallbackVerdict] \/ UNCHANGED shown
    /\ UNCHANGED <<req, judged, redisVars, audited, sdkVars, age>>

\* An exception of the except block itself ends the task.
FallbackRaises(d) ==
    /\ \/ /\ Goto(d, "fallback_set", "dead")
          /\ SetResult(d, FallbackVerdict) \/ UNCHANGED redisVars
       \/ /\ Goto(d, "fallback_clear", "dead")
          /\ ClearPending(d) \/ UNCHANGED redisVars
    /\ UNCHANGED <<req, judged, audited, shown, sdkVars, age>>

\* The gateway process that runs the task dies; Redis keeps what it has.
Crash(d) ==
    /\ task[d] \in Running
    /\ task' = [task EXCEPT ![d] = "dead"]
    /\ UNCHANGED <<req, judged, redisVars, audited, shown, sdkVars, age>>
-----------------------------------------------------------------------------
(* AgentClient.check and _poll_decision; a poll is served by poll_decision *)
(* and get_decision_result, two reads of Redis one after the other.        *)

SdkGoto(d, from, to) ==
    /\ sdk[d] = from
    /\ sdk' = [sdk EXCEPT ![d] = to]

ReceivePending(d) ==
    /\ req[d] = "accepted"
    /\ SdkGoto(d, "waiting", "sleeping")
    /\ UNCHANGED <<attempts, answer, notFound, taskVars, redisVars, age>>

\* Connection errors, timeouts and the 500 of a rejected request are raised.
SdkRaises(d) ==
    /\ sdk[d] \in {"waiting", "get_pending", "get_result"}
    /\ sdk' = [sdk EXCEPT ![d] = "raised"]
    /\ UNCHANGED <<attempts, answer, notFound, taskVars, redisVars, age>>

\* Mutants: one poll too many, and a loop that does not count its polls.
PollOnceMore(d) ==
    /\ SdkGoto(d, "sleeping", "get_pending")
    /\ attempts[d] <= MaxPolls
    /\ attempts' = [attempts EXCEPT ![d] = @ + 1]
    /\ UNCHANGED <<answer, notFound, taskVars, redisVars, age>>

PollForever(d) ==
    /\ SdkGoto(d, "sleeping", "get_pending")
    /\ UNCHANGED <<attempts, answer, notFound, taskVars, redisVars, age>>

StartPoll(d) ==
    /\ SdkGoto(d, "sleeping", "get_pending")
    /\ attempts[d] < MaxPolls
    /\ attempts' = [attempts EXCEPT ![d] = @ + 1]
    /\ UNCHANGED <<answer, notFound, taskVars, redisVars, age>>

ReadPending(d) ==
    /\ IF pending[d] > 0
       THEN SdkGoto(d, "get_pending", "sleeping")
       ELSE SdkGoto(d, "get_pending", "get_result")
    /\ UNCHANGED <<attempts, answer, notFound, taskVars, redisVars, age>>

ReadResult(d) ==
    /\ \/ /\ result[d] # NoVerdict
          /\ SdkGoto(d, "get_result", "answered")
          /\ answer' = [answer EXCEPT ![d] = result[d]]
          /\ UNCHANGED notFound
       \/ /\ result[d] = NoVerdict
          /\ SdkGoto(d, "get_result", "sleeping")
          /\ notFound' = notFound \cup {d}
          /\ UNCHANGED answer
    /\ UNCHANGED <<attempts, taskVars, redisVars, age>>

\* A Redis error while a poll is served is a 500, which the SDK skips.
PollFails(d) ==
    /\ sdk[d] \in {"get_pending", "get_result"}
    /\ sdk' = [sdk EXCEPT ![d] = "sleeping"]
    /\ UNCHANGED <<attempts, answer, notFound, taskVars, redisVars, age>>

\* Mutant: an agent that waited long enough goes ahead.
AllowOnTimeout(d) ==
    /\ attempts[d] = MaxPolls
    /\ SdkGoto(d, "sleeping", "answered")
    /\ answer' = [answer EXCEPT ![d] = "ALLOWED"]
    /\ UNCHANGED <<attempts, notFound, taskVars, redisVars, age>>

PollsExhausted(d) ==
    /\ attempts[d] = MaxPolls
    /\ SdkGoto(d, "sleeping", "answered")
    /\ answer' = [answer EXCEPT ![d] = "HUMAN_REVIEW"]
    /\ UNCHANGED <<attempts, notFound, taskVars, redisVars, age>>
-----------------------------------------------------------------------------
Less(t) == IF t > 0 THEN t - 1 ELSE 0

\* A tick of time: Redis expires what has no TTL left.
Tick ==
    /\ pending' = [d \in Decisions |-> Less(pending[d])]
    /\ ttl' = [d \in Decisions |-> Less(ttl[d])]
    /\ result' = [d \in Decisions |-> IF ttl[d] > 1 THEN result[d] ELSE NoVerdict]
    /\ age' = [d \in Decisions |->
                  IF req[d] # "new" /\ age[d] < PendingTTL THEN age[d] + 1 ELSE age[d]]
    /\ UNCHANGED <<taskVars, sdkVars>>

TaskStep(d) ==
    \/ RunCascade(d) \/ StoreResult(d) \/ StoreResultClear(d)
    \/ Enqueue(d) \/ Publish(d)
    \/ CascadeRaises(d) \/ StoreResultRaises(d) \/ StoreResultClearRaises(d)
    \/ EnqueueRaises(d)
    \/ FallbackStore(d) \/ FallbackClear(d) \/ FallbackPublish(d) \/ FallbackRaises(d)

SdkStep(d) ==
    \/ ReceivePending(d) \/ SdkRaises(d) \/ StartPoll(d) \/ ReadPending(d)
    \/ ReadResult(d) \/ PollFails(d) \/ PollsExhausted(d)

Next ==
    \/ \E d \in Decisions :
          \/ StorePending(d) \/ StorePendingRaises(d)
          \/ TaskStep(d) \/ Crash(d) \/ SdkStep(d)
    \/ Tick

Spec == Init /\ [][Next]_vars

\* The event loops of the gateway and of the agent run what is ready, the
\* clock runs; nothing promises that a request comes or that a crash does not.
Fairness ==
    /\ \A d \in Decisions : WF_vars(TaskStep(d)) /\ WF_vars(SdkStep(d))
    /\ WF_vars(Tick)

FairSpec == Spec /\ Fairness
-----------------------------------------------------------------------------
(* Within the pending TTL no poll is answered 404, whatever fails: the     *)
(* result is written before the marker is deleted, the marker is read      *)
(* before the result, and the result outlives the marker                   *)
(* (store_decision_result, get_decision_result).                           *)
NoEarlyNotFound == \A d \in notFound : age[d] = PendingTTL

(* An agent is told ALLOWED or BLOCKED only if the judge ruled so: every   *)
(* failure path of the task and of the SDK ends in HUMAN_REVIEW.           *)
FailClosed ==
    \A d \in Decisions : answer[d] \in {judged[d], "HUMAN_REVIEW", NoVerdict}

(* What the agent was told never contradicts the audit trail: if both have *)
(* a verdict they agree, or the agent got the more careful HUMAN_REVIEW.   *)
AnswerAgreesWithAudit ==
    \A d \in Decisions : \A v \in audited[d] :
        answer[d] \in {NoVerdict, v, "HUMAN_REVIEW"}

(* The dashboard never runs ahead of the poll: when a decision is on the   *)
(* channel its marker is gone and its result is the one shown, until the   *)
(* result expires.                                                         *)
ShownIsStored ==
    \A d \in Decisions : shown[d] # NoVerdict =>
        /\ pending[d] = 0
        /\ result[d] \in {shown[d], NoVerdict}

(* A stored verdict is replaced by HUMAN_REVIEW or expires, and is never   *)
(* changed in any other way, whatever the except block overwrites.         *)
StoredOnlyWeakened ==
    [][\A d \in Decisions :
          result[d] # NoVerdict => result'[d] \in {result[d], "HUMAN_REVIEW", NoVerdict}]_vars

(* "so polling doesn't hang forever": once the handler has answered        *)
(* pending, check() ends, even if the gateway died under the decision.     *)
CheckEnds ==
    \A d \in Decisions : sdk[d] = "sleeping" ~> sdk[d] \in {"answered", "raised"}

(* The runbook's query for fallback decisions in the audit graph finds     *)
(* them: a task that ends without a ruling has left an audit event.        *)
FallbackIsAudited ==
    \A d \in Decisions :
        task[d] = "done" /\ judged[d] = NoVerdict => audited[d] # {}

(* The promise to the agent, refined: Rule is RunCascade, Tell is the step *)
(* on which check() returns.                                               *)
Promise == INSTANCE DecisionPromise
              WITH SafeVerdict <- "HUMAN_REVIEW", ruling <- judged, told <- answer
KeepsPromise == Promise!Spec
=============================================================================

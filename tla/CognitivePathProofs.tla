------------------------ MODULE CognitivePathProofs ------------------------
(***************************************************************************)
(* The safety of the asynchronous decision, for every set of decisions,    *)
(* every TTL and every number of polls.                                    *)
(***************************************************************************)
EXTENDS CognitivePath, TLAPS

USE DEF redisVars, taskVars, sdkVars, Goto, SdkGoto, SetPending, SetResult,
        ClearPending, Verdicts, NoVerdict, FallbackVerdict, TaskSteps, Running,
        SdkStates

\* The steps of the try block that follow run_cascade.
Ruled == {"set_result", "clear_pending", "enqueue", "publish"}

\* TypeOK needs it: what Enqueue audits is a verdict.
RuledInv == \A d \in Decisions : task[d] \in Ruled => judged[d] # NoVerdict
-----------------------------------------------------------------------------
(* Type correctness.                                                       *)

LEMMA TypeInit == Init => TypeOK /\ RuledInv
BY CognitivePathAssumption DEF Init, TypeOK, RuledInv, Ruled

LEMMA HandlerType ==
    ASSUME TypeOK, RuledInv, NEW d \in Decisions,
           StorePending(d) \/ StorePendingRaises(d)
    PROVE  TypeOK' /\ RuledInv'
<1> USE CognitivePathAssumption DEF TypeOK, RuledInv, Ruled
<1>1. CASE StorePending(d)
  BY <1>1 DEF StorePending
<1>2. CASE StorePendingRaises(d)
  BY <1>2 DEF StorePendingRaises
<1> QED
  BY <1>1, <1>2

LEMMA TaskType ==
    ASSUME TypeOK, RuledInv, NEW d \in Decisions, TaskStep(d) \/ Crash(d)
    PROVE  TypeOK' /\ RuledInv'
<1> USE CognitivePathAssumption DEF TypeOK, RuledInv, Ruled
<1>1. CASE RunCascade(d)
  BY <1>1 DEF RunCascade
<1>2. CASE StoreResult(d)
  BY <1>2 DEF StoreResult
<1>3. CASE StoreResultClear(d)
  BY <1>3 DEF StoreResultClear
<1>4. CASE Enqueue(d)
  BY <1>4 DEF Enqueue
<1>5. CASE Publish(d)
  BY <1>5 DEF Publish
<1>6. CASE CascadeRaises(d)
  BY <1>6 DEF CascadeRaises
<1>7. CASE StoreResultRaises(d)
  BY <1>7 DEF StoreResultRaises
<1>8. CASE StoreResultClearRaises(d)
  BY <1>8 DEF StoreResultClearRaises
<1>9. CASE EnqueueRaises(d)
  BY <1>9 DEF EnqueueRaises
<1>10. CASE FallbackStore(d)
  BY <1>10 DEF FallbackStore
<1>11. CASE FallbackClear(d)
  BY <1>11 DEF FallbackClear
<1>12. CASE FallbackPublish(d)
  BY <1>12 DEF FallbackPublish
<1>13. CASE FallbackRaises(d)
  BY <1>13 DEF FallbackRaises
<1>14. CASE Crash(d)
  BY <1>14 DEF Crash
<1> QED
  BY <1>1, <1>2, <1>3, <1>4, <1>5, <1>6, <1>7, <1>8, <1>9, <1>10, <1>11,
     <1>12, <1>13, <1>14 DEF TaskStep

LEMMA SdkType ==
    ASSUME TypeOK, RuledInv, NEW d \in Decisions, SdkStep(d)
    PROVE  TypeOK' /\ RuledInv'
<1> USE CognitivePathAssumption DEF TypeOK, RuledInv, Ruled
<1>1. CASE ReceivePending(d)
  BY <1>1 DEF ReceivePending
<1>2. CASE SdkRaises(d)
  BY <1>2 DEF SdkRaises
<1>3. CASE StartPoll(d)
  BY <1>3 DEF StartPoll
<1>4. CASE ReadPending(d)
  BY <1>4 DEF ReadPending
<1>5. CASE ReadResult(d)
  BY <1>5 DEF ReadResult
<1>6. CASE PollFails(d)
  BY <1>6 DEF PollFails
<1>7. CASE PollsExhausted(d)
  BY <1>7 DEF PollsExhausted
<1> QED
  BY <1>1, <1>2, <1>3, <1>4, <1>5, <1>6, <1>7 DEF SdkStep

LEMMA TickType ==
    ASSUME TypeOK, RuledInv, Tick
    PROVE  TypeOK' /\ RuledInv'
BY CognitivePathAssumption DEF TypeOK, RuledInv, Ruled, Tick, Less

LEMMA TypeStep == TypeOK /\ RuledInv /\ [Next]_vars => TypeOK' /\ RuledInv'
<1> SUFFICES ASSUME TypeOK, RuledInv, [Next]_vars PROVE TypeOK' /\ RuledInv'
  OBVIOUS
<1>1. CASE UNCHANGED vars
  BY <1>1 DEF vars, TypeOK, RuledInv
<1> QED
  BY <1>1, HandlerType, TaskType, SdkType, TickType DEF Next

(* Every variable keeps its type.                                          *)
THEOREM TypeCorrect == Spec => [](TypeOK /\ RuledInv)
BY TypeInit, TypeStep, PTL DEF Spec
-----------------------------------------------------------------------------
(* The inductive invariant, in four parts.                                 *)

\* Who may have written which verdict.
VerdictInv(d) ==
    /\ task[d] \in {"idle", "cascade"} => judged[d] = NoVerdict /\ audited[d] = {}
    /\ task[d] \in {"idle", "cascade", "set_result"} => result[d] = NoVerdict
    /\ result[d] \in {judged[d], "HUMAN_REVIEW", NoVerdict}
    /\ audited[d] \subseteq {judged[d]}
    /\ answer[d] \in {judged[d], "HUMAN_REVIEW", NoVerdict}
    /\ sdk[d] # "answered" => answer[d] = NoVerdict

\* What the two keys hold on the way to the channel.
ChannelInv(d) ==
    /\ req[d] = "new" => task[d] = "idle"
    /\ task[d] = "clear_pending" => result[d] \in {judged[d], NoVerdict}
    /\ task[d] \in {"enqueue", "publish"} =>
          pending[d] = 0 /\ result[d] \in {judged[d], NoVerdict}
    /\ task[d] = "fallback_clear" => result[d] \in {"HUMAN_REVIEW", NoVerdict}
    /\ task[d] = "fallback_publish" =>
          pending[d] = 0 /\ result[d] \in {"HUMAN_REVIEW", NoVerdict}
    /\ shown[d] # NoVerdict =>
          task[d] = "done" /\ pending[d] = 0 /\ result[d] \in {shown[d], NoVerdict}

\* The result will be there until the pending TTL is over.
Kept(d) == result[d] # NoVerdict /\ ttl[d] >= PendingTTL - age[d]

\* Until then one of the keys is there, whatever the task and the poll do.
TimeInv(d) ==
    /\ req[d] = "new" => age[d] = 0
    /\ sdk[d] \in {"sleeping", "get_pending", "get_result"} => req[d] = "accepted"
    /\ age[d] < PendingTTL =>
          /\ req[d] = "accepted" => pending[d] = PendingTTL - age[d] \/ Kept(d)
          /\ task[d] \in {"clear_pending", "fallback_clear"} => Kept(d)
          /\ sdk[d] = "get_result" => Kept(d)
    /\ d \in notFound => age[d] = PendingTTL

DecisionInv(d) == VerdictInv(d) /\ ChannelInv(d) /\ TimeInv(d)

PathInv == \A d \in Decisions : DecisionInv(d)

LEMMA PathInit == Init => PathInv
<1> SUFFICES ASSUME Init, NEW d \in Decisions PROVE DecisionInv(d)
  BY DEF PathInv
<1> USE DEF Init
<1>1. VerdictInv(d)
  BY DEF VerdictInv
<1>2. ChannelInv(d)
  BY DEF ChannelInv
<1>3. TimeInv(d)
  BY DEF TimeInv
<1> QED
  BY <1>1, <1>2, <1>3 DEF DecisionInv

LEMMA HandlerPath ==
    ASSUME TypeOK, RuledInv, PathInv, NEW d \in Decisions,
           StorePending(d) \/ StorePendingRaises(d)
    PROVE  PathInv'
<1> SUFFICES ASSUME NEW e \in Decisions PROVE DecisionInv(e)'
  BY DEF PathInv
<1>0. DecisionInv(d) /\ DecisionInv(e)
  BY DEF PathInv
<1> USE <1>0, CognitivePathAssumption
    DEF TypeOK, RuledInv, Ruled, DecisionInv, VerdictInv, ChannelInv, TimeInv, Kept
<1>1. CASE StorePending(d)
  BY <1>1 DEF StorePending
<1>2. CASE StorePendingRaises(d)
  BY <1>2 DEF StorePendingRaises
<1> QED
  BY <1>1, <1>2

LEMMA TaskPath ==
    ASSUME TypeOK, RuledInv, PathInv, NEW d \in Decisions,
           TaskStep(d) \/ Crash(d)
    PROVE  PathInv'
<1> SUFFICES ASSUME NEW e \in Decisions PROVE DecisionInv(e)'
  BY DEF PathInv
<1>0. DecisionInv(d) /\ DecisionInv(e)
  BY DEF PathInv
<1> USE <1>0, CognitivePathAssumption
    DEF TypeOK, RuledInv, Ruled, DecisionInv, VerdictInv, ChannelInv, TimeInv, Kept
<1>1. CASE RunCascade(d)
  BY <1>1 DEF RunCascade
<1>2. CASE StoreResult(d)
  BY <1>2 DEF StoreResult
<1>3. CASE StoreResultClear(d)
  BY <1>3 DEF StoreResultClear
<1>4. CASE Enqueue(d)
  BY <1>4 DEF Enqueue
<1>5. CASE Publish(d)
  BY <1>5 DEF Publish
<1>6. CASE CascadeRaises(d)
  BY <1>6 DEF CascadeRaises
<1>7. CASE StoreResultRaises(d)
  BY <1>7 DEF StoreResultRaises
<1>8. CASE StoreResultClearRaises(d)
  BY <1>8 DEF StoreResultClearRaises
<1>9. CASE EnqueueRaises(d)
  BY <1>9 DEF EnqueueRaises
<1>10. CASE FallbackStore(d)
  BY <1>10 DEF FallbackStore
<1>11. CASE FallbackClear(d)
  BY <1>11 DEF FallbackClear
<1>12. CASE FallbackPublish(d)
  BY <1>12 DEF FallbackPublish
<1>13. CASE FallbackRaises(d)
  BY <1>13 DEF FallbackRaises
<1>14. CASE Crash(d)
  BY <1>14 DEF Crash
<1> QED
  BY <1>1, <1>2, <1>3, <1>4, <1>5, <1>6, <1>7, <1>8, <1>9, <1>10, <1>11, <1>12, <1>13, <1>14 DEF TaskStep

LEMMA SdkPath ==
    ASSUME TypeOK, RuledInv, PathInv, NEW d \in Decisions,
           SdkStep(d)
    PROVE  PathInv'
<1> SUFFICES ASSUME NEW e \in Decisions PROVE DecisionInv(e)'
  BY DEF PathInv
<1>0. DecisionInv(d) /\ DecisionInv(e)
  BY DEF PathInv
<1> USE <1>0, CognitivePathAssumption
    DEF TypeOK, RuledInv, Ruled, DecisionInv, VerdictInv, ChannelInv, TimeInv, Kept
<1>1. CASE ReceivePending(d)
  BY <1>1 DEF ReceivePending
<1>2. CASE SdkRaises(d)
  BY <1>2 DEF SdkRaises
<1>3. CASE StartPoll(d)
  BY <1>3 DEF StartPoll
<1>4. CASE ReadPending(d)
  BY <1>4 DEF ReadPending
<1>5. CASE ReadResult(d)
  BY <1>5 DEF ReadResult
<1>6. CASE PollFails(d)
  BY <1>6 DEF PollFails
<1>7. CASE PollsExhausted(d)
  BY <1>7 DEF PollsExhausted
<1> QED
  BY <1>1, <1>2, <1>3, <1>4, <1>5, <1>6, <1>7 DEF SdkStep

LEMMA TickPath ==
    ASSUME TypeOK, PathInv, Tick
    PROVE  PathInv'
<1> SUFFICES ASSUME NEW d \in Decisions PROVE DecisionInv(d)'
  BY DEF PathInv
<1>0. DecisionInv(d)
  BY DEF PathInv
<1> USE <1>0, CognitivePathAssumption DEF TypeOK, DecisionInv, Tick, Less
<1>1. VerdictInv(d)'
  BY DEF VerdictInv
<1>2. ChannelInv(d)'
  BY DEF ChannelInv
<1>3. TimeInv(d)'
  <2>1. CASE age'[d] = age[d]
    BY <2>1 DEF TimeInv, ChannelInv, Kept
  <2>2. CASE age'[d] = age[d] + 1
    BY <2>2 DEF TimeInv, Kept
  <2>3. age'[d] \in {age[d], age[d] + 1}
    OBVIOUS
  <2> QED
    BY <2>1, <2>2, <2>3
<1> QED
  BY <1>1, <1>2, <1>3

LEMMA PathStep == TypeOK /\ RuledInv /\ PathInv /\ [Next]_vars => PathInv'
<1> SUFFICES ASSUME TypeOK, RuledInv, PathInv, [Next]_vars PROVE PathInv'
  OBVIOUS
<1>1. CASE UNCHANGED vars
  BY <1>1 DEF vars, PathInv, DecisionInv, VerdictInv, ChannelInv, TimeInv, Kept
<1> QED
  BY <1>1, HandlerPath, TaskPath, SdkPath, TickPath DEF Next

(* The four parts hold in every reachable state: the invariant the         *)
(* theorems below rest on.                                                 *)
THEOREM PathInvariant == Spec => [](TypeOK /\ RuledInv /\ PathInv)
BY TypeInit, TypeStep, PathInit, PathStep, PTL DEF Spec
-----------------------------------------------------------------------------
(* No poll is answered 404 before the pending TTL is over, whatever        *)
(* command fails and wherever the gateway dies.                            *)
THEOREM NotFoundIsLate == Spec => []NoEarlyNotFound
<1>1. TypeOK /\ PathInv => NoEarlyNotFound
  BY DEF NoEarlyNotFound, PathInv, DecisionInv, TimeInv, TypeOK
<1> QED
  BY <1>1, PathInvariant, PTL

(* An agent is told ALLOWED or BLOCKED only if the judge ruled so.         *)
THEOREM FailsClosed == Spec => []FailClosed
<1>1. PathInv => FailClosed
  BY DEF FailClosed, PathInv, DecisionInv, VerdictInv
<1> QED
  BY <1>1, PathInvariant, PTL

(* What the agent was told never contradicts the audit trail.              *)
THEOREM AnswerIsAudited == Spec => []AnswerAgreesWithAudit
<1>1. PathInv => AnswerAgreesWithAudit
  BY DEF AnswerAgreesWithAudit, PathInv, DecisionInv, VerdictInv
<1> QED
  BY <1>1, PathInvariant, PTL

(* What the dashboard shows is what a poll returns, until the result       *)
(* expires.                                                                *)
THEOREM ChannelFollowsStore == Spec => []ShownIsStored
<1>1. PathInv => ShownIsStored
  BY DEF ShownIsStored, PathInv, DecisionInv, ChannelInv
<1> QED
  BY <1>1, PathInvariant, PTL
-----------------------------------------------------------------------------
(* Steps: what happens to a stored verdict, and the promise refined.       *)

\* A step on a stored verdict: keep it, weaken it, or expire it.
Weakens(d) == result[d] # NoVerdict => result'[d] \in {result[d], "HUMAN_REVIEW", NoVerdict}

LEMMA TaskWeakens ==
    ASSUME TypeOK, PathInv, NEW d \in Decisions, TaskStep(d) \/ Crash(d)
    PROVE  \A e \in Decisions : Weakens(e)
<1>1. task[d] = "set_result" => result[d] = NoVerdict
  BY DEF PathInv, DecisionInv, VerdictInv
<1>2. CASE UNCHANGED result
  BY <1>2 DEF Weakens
<1>3. CASE StoreResult(d) \/ StoreResultRaises(d)
  BY <1>1, <1>3 DEF StoreResult, StoreResultRaises, Weakens, TypeOK
<1>4. CASE FallbackStore(d) \/ FallbackRaises(d)
  BY <1>4 DEF FallbackStore, FallbackRaises, Weakens, TypeOK
<1>5. UNCHANGED result \/ StoreResult(d) \/ StoreResultRaises(d)
        \/ FallbackStore(d) \/ FallbackRaises(d)
  BY DEF TaskStep, Crash, RunCascade, StoreResultClear, Enqueue, Publish,
         CascadeRaises, StoreResultClearRaises, EnqueueRaises, FallbackClear,
         FallbackPublish
<1> QED
  BY <1>2, <1>3, <1>4, <1>5

(* A stored verdict is only ever weakened to HUMAN_REVIEW or expires.      *)
THEOREM VerdictsOnlyWeaken == Spec => StoredOnlyWeakened
<1>1. ASSUME TypeOK, PathInv, [Next]_vars
      PROVE  [\A d \in Decisions : Weakens(d)]_vars
  <2>1. CASE \E d \in Decisions : TaskStep(d) \/ Crash(d)
    BY <1>1, <2>1, TaskWeakens
  <2>2. CASE \E d \in Decisions :
               StorePending(d) \/ StorePendingRaises(d) \/ SdkStep(d)
    <3>1. UNCHANGED result
      BY <2>2 DEF StorePending, StorePendingRaises, SdkStep, ReceivePending,
                  SdkRaises, StartPoll, ReadPending, ReadResult, PollFails,
                  PollsExhausted
    <3> QED
      BY <3>1 DEF Weakens
  <2>3. CASE Tick
    BY <2>3 DEF Tick, Weakens
  <2> QED
    BY <1>1, <2>1, <2>2, <2>3 DEF Next
<1>2. TypeOK /\ PathInv /\ [Next]_vars
        => [\A d \in Decisions : result[d] # NoVerdict =>
              result'[d] \in {result[d], "HUMAN_REVIEW", NoVerdict}]_vars
  BY <1>1 DEF Weakens
<1> QED
  BY <1>2, PathInvariant, PTL DEF Spec, StoredOnlyWeakened

LEMMA PromiseInit == Init => Promise!Init
BY DEF Init, Promise!Init

LEMMA PromiseStep ==
    ASSUME TypeOK, PathInv, [Next]_vars
    PROVE  [Promise!Next]_Promise!promiseVars
<1> USE DEF Promise!promiseVars
<1>1. ASSUME UNCHANGED <<judged, answer>>
      PROVE  [Promise!Next]_Promise!promiseVars
  BY <1>1
<1>2. ASSUME NEW d \in Decisions, RunCascade(d)
      PROVE  Promise!Rule(d)
  <2>1. judged[d] = NoVerdict
    BY <1>2 DEF RunCascade, PathInv, DecisionInv, VerdictInv
  <2> QED
    BY <1>2, <2>1 DEF RunCascade, Promise!Rule
<1>3. ASSUME NEW d \in Decisions, ReadResult(d), answer' # answer
      PROVE  Promise!Tell(d)
  <2>1. /\ answer[d] = NoVerdict
        /\ result[d] \in {judged[d], "HUMAN_REVIEW", NoVerdict}
    BY <1>3 DEF ReadResult, PathInv, DecisionInv, VerdictInv
  <2> QED
    BY <1>3, <2>1 DEF ReadResult, Promise!Tell
<1>4. ASSUME NEW d \in Decisions, PollsExhausted(d)
      PROVE  Promise!Tell(d)
  <2>1. answer[d] = NoVerdict
    BY <1>4 DEF PollsExhausted, PathInv, DecisionInv, VerdictInv
  <2> QED
    BY <1>4, <2>1 DEF PollsExhausted, Promise!Tell
<1>5. ASSUME NEW d \in Decisions, TaskStep(d) \/ Crash(d), ~RunCascade(d)
      PROVE  UNCHANGED <<judged, answer>>
  BY <1>5 DEF TaskStep, Crash, StoreResult, StoreResultClear, Enqueue, Publish,
              CascadeRaises, StoreResultRaises, StoreResultClearRaises,
              EnqueueRaises, FallbackStore, FallbackClear, FallbackPublish,
              FallbackRaises
<1>6. ASSUME NEW d \in Decisions, SdkStep(d), ~ReadResult(d), ~PollsExhausted(d)
      PROVE  UNCHANGED <<judged, answer>>
  BY <1>6 DEF SdkStep, ReceivePending, SdkRaises, StartPoll, ReadPending, PollFails
<1>7. ASSUME NEW d \in Decisions, StorePending(d) \/ StorePendingRaises(d)
      PROVE  UNCHANGED <<judged, answer>>
  BY <1>7 DEF StorePending, StorePendingRaises
<1>8. CASE Tick \/ UNCHANGED vars
  BY <1>1, <1>8 DEF Tick, vars
<1>9. ASSUME NEW d \in Decisions, ReadResult(d)
      PROVE  UNCHANGED judged
  BY <1>9 DEF ReadResult
<1> QED
  BY <1>1, <1>2, <1>3, <1>4, <1>5, <1>6, <1>7, <1>8, <1>9 DEF Next, Promise!Next

(* The detailed path implements the promise: a judge rules once, the agent *)
(* is told once, and is told the ruling or HUMAN_REVIEW.                   *)
THEOREM PathKeepsPromise == Spec => KeepsPromise
<1>1. TypeOK /\ PathInv /\ [Next]_vars => [Promise!Next]_Promise!promiseVars
  BY PromiseStep
<1> QED
  BY <1>1, PromiseInit, PathInvariant, PTL DEF Spec, KeepsPromise, Promise!Spec
=============================================================================

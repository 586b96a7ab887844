----------------------- MODULE CognitiveBranchProofs -----------------------
(***************************************************************************)
(* The detailed cognitive path implements the five actions ToolCall.tla    *)
(* has in its place, for every set of decisions, every TTL, every number   *)
(* of polls and every policy that leaves the calls to a judge.             *)
(***************************************************************************)
EXTENDS CognitiveBranch, CognitivePathProofs

USE DEF redisVars, taskVars, sdkVars, Goto, SdkGoto, SetPending, SetResult,
        ClearPending, Verdicts, NoVerdict, FallbackVerdict, TaskSteps, Running,
        SdkStates, Calls, active, activations, kind, request, phase, found, applied,
        recorded, due, disturbed, reply, trail, client

\* A task runs only for an accepted request, and polls are counted.
BranchInv ==
    \A d \in Decisions :
        /\ task[d] # "idle" => req[d] = "accepted"
        /\ sdk[d] = "waiting" => attempts[d] = 0
        /\ sdk[d] \in {"get_pending", "get_result", "answered"} => attempts[d] > 0

LEMMA BranchInit == Init => BranchInv
BY DEF Init, BranchInv

LEMMA BranchStep ==
    ASSUME TypeOK, BranchInv, [Next]_vars PROVE BranchInv'
<1> SUFFICES ASSUME NEW e \in Decisions
             PROVE  (/\ task[e] # "idle" => req[e] = "accepted"
                     /\ sdk[e] = "waiting" => attempts[e] = 0
                     /\ sdk[e] \in {"get_pending", "get_result", "answered"}
                           => attempts[e] > 0)'
  BY DEF BranchInv
<1> USE CognitivePathAssumption DEF TypeOK, BranchInv
<1>1. ASSUME NEW d \in Decisions, StorePending(d) \/ StorePendingRaises(d)
      PROVE  BranchInv'
  BY <1>1 DEF StorePending, StorePendingRaises
<1>2. ASSUME NEW d \in Decisions, TaskStep(d) \/ Crash(d)
      PROVE  BranchInv'
  <2>1. /\ task[d] # "idle"
        /\ UNCHANGED <<req, sdk, attempts>>
        /\ \E t : task' = [task EXCEPT ![d] = t]
    BY <1>2 DEF TaskStep, Crash, RunCascade, StoreResult, StoreResultClear, Enqueue,
                Publish, CascadeRaises, StoreResultRaises, StoreResultClearRaises,
                EnqueueRaises, FallbackStore, FallbackClear, FallbackPublish,
                FallbackRaises
  <2> QED
    BY <2>1
<1>3. ASSUME NEW d \in Decisions, SdkStep(d)
      PROVE  BranchInv'
  BY <1>3 DEF SdkStep, ReceivePending, SdkRaises, StartPoll, ReadPending, ReadResult,
              PollFails, PollsExhausted
<1>4. CASE Tick \/ UNCHANGED vars
  BY <1>4 DEF Tick, vars
<1> QED
  BY <1>1, <1>2, <1>3, <1>4 DEF Next
-----------------------------------------------------------------------------
(* How the mapped variables move.                                          *)

\* What the policy store and the handler have said stays while a task runs.
LEMMA TaskFrame ==
    ASSUME UNCHANGED <<req, sdk, attempts, answer>>
    PROVE  UNCHANGED <<Tool!policyVars, Tool!Handler, Tool!clientVars>>
<1>1. \A d : ReplyTo(d)' = ReplyTo(d) /\ Client(d)' = Client(d)
  BY DEF ReplyTo, Client
<1>2. heard' = heard
  BY DEF heard
<1> QED
  BY <1>1, <1>2 DEF Tool!policyVars, Tool!Handler, Tool!clientVars, Tool!readVars

\* One call's phase moves, as the handler or its tasks go on.
LEMMA PhaseMoves ==
    ASSUME NEW d \in Decisions, NEW from, NEW to,
           Phase(d) = from, Phase(d)' = to,
           \A e \in Decisions \ {d} : Phase(e)' = Phase(e)
    PROVE  Tool!Goto(d, from, to)
BY DEF Tool!Goto

LEMMA TaskMoves ==
    ASSUME TypeOK, BranchInv, NEW d \in Decisions, NEW from, NEW to, NEW t,
           task' = [task EXCEPT ![d] = t], UNCHANGED req, task[d] # "idle",
           TaskPhase(task[d]) = from, TaskPhase(t) = to
    PROVE  Tool!Goto(d, from, to)
<1>1. Phase(d) = from /\ Phase(d)' = to
  BY DEF Phase, TypeOK, BranchInv
<1>2. \A e \in Decisions \ {d} : Phase(e)' = Phase(e)
  BY DEF Phase, TypeOK
<1> QED
  BY <1>1, <1>2, PhaseMoves

LEMMA TrailStays ==
    ASSUME UNCHANGED audited PROVE UNCHANGED [d \in Decisions |-> Event(d)]
BY DEF Event

\* An event that reached the pipeline is the one the tool call's model has.
LEMMA EventEnqueued ==
    ASSUME TypeOK, RuledInv, PathInv, BranchInv, NEW d \in Decisions,
           task[d] = "enqueue", UNCHANGED <<req, judged>>,
           audited' = [audited EXCEPT ![d] = @ \cup {judged[d]}]
    PROVE  Tool!Enqueued(d)
<1>1. req[d] = "accepted" /\ audited[d] \subseteq {judged[d]}
  BY DEF BranchInv, PathInv, DecisionInv, VerdictInv
<1>2. audited'[d] = {judged[d]}
  BY <1>1 DEF TypeOK
<1>3. Event(d)' = [verdict |-> judged[d], version |-> Recorded[d]]
  <2>1. (CHOOSE v \in {judged[d]} : TRUE) = judged[d]
    OBVIOUS
  <2> QED
    BY <1>2, <2>1 DEF Event
<1>4. \A e \in Decisions \ {d} : Event(e)' = Event(e)
  BY DEF Event, TypeOK
<1>5. ReplyTo(d) = "pending"
  BY <1>1 DEF ReplyTo
<1> QED
  BY <1>1, <1>3, <1>4, <1>5 DEF Tool!Enqueued
-----------------------------------------------------------------------------
(* Each step of the path, and the action of the tool call it stands for.   *)

\* The calls of the branch need a judge, in the tool call's own words.
LEMMA JudgeNeeded == \A d \in Decisions : Tool!NeedsJudge(d)
BY BranchAssumption
   DEF Verdict, Tool!NeedsJudge, Tool!FastVerdict, Tool!RulesOf, Tool!OnDisk,
       Tool!EvaluateFastPath, Tool!Cognitive, Tool!Firing, Tool!First, Tool!Refusal,
       Tool!RegexVerdict, Tool!AppliesTo, Tool!Matches, Tool!Text, Tool!Argument,
       Tool!Searched, Tool!Missing, Tool!TaskKey, Tool!AlwaysMatch,
       Fast!EvaluateFastPath, Fast!Cognitive, Fast!Firing, Fast!First, Fast!Refusal,
       Fast!RegexVerdict, Fast!AppliesTo, Fast!Matches, Fast!Text, Fast!Argument,
       Fast!Searched, Fast!Missing, Fast!TaskKey, Fast!AlwaysMatch

\* The handler's last step: the marker is stored, or Redis failed.
LEMMA HandlerMaps ==
    ASSUME TypeOK, PathInv, NEW d \in Decisions
    PROVE  /\ StorePending(d) => Tool!AnswerPending(d)
           /\ StorePendingRaises(d) => Tool!StorePendingRaises(d)
<1> DEFINE Step == StorePending(d) \/ StorePendingRaises(d)
<1> SUFFICES ASSUME Step
             PROVE  /\ StorePending(d) => Tool!AnswerPending(d)
                    /\ StorePendingRaises(d) => Tool!StorePendingRaises(d)
  BY Zenon
<1>1. /\ req[d] = "new"
      /\ UNCHANGED <<judged, audited, shown, sdk, attempts, answer>>
      /\ \A e \in Decisions \ {d} : req'[e] = req[e] /\ task'[e] = task[e]
  BY DEF StorePending, StorePendingRaises, TypeOK
<1>2. /\ UNCHANGED <<heard, [e \in Decisions |-> Event(e)],
                     [e \in Decisions |-> Client(e)]>>
  BY <1>1 DEF heard, Event, Client
<1>3. /\ Phase(d) = "got" /\ ReplyTo(d) = NoVerdict
      /\ \A e \in Decisions \ {d} : /\ Phase(e)' = Phase(e)
                                    /\ ReplyTo(e)' = ReplyTo(e)
  <2>1. Phase(d) = "got"
    BY <1>1 DEF Phase
  <2>2. ReplyTo(d) = NoVerdict
    BY <1>1 DEF ReplyTo
  <2>3. ASSUME NEW e \in Decisions \ {d} PROVE Phase(e)' = Phase(e)
    BY <1>1 DEF Phase
  <2>4. ASSUME NEW e \in Decisions \ {d} PROVE ReplyTo(e)' = ReplyTo(e)
    BY <1>1 DEF ReplyTo
  <2> QED
    BY <2>1, <2>2, <2>3, <2>4
<1>4. Applied[d] # -1
  BY CognitiveBranchAssumption
<1>5. Tool!Record(d)
  <2>1. /\ req' \in [Decisions -> {"new", "accepted", "rejected"}]
        /\ req'[d] # "new"
    BY DEF StorePending, StorePendingRaises, TypeOK
  <2> DEFINE R == [e \in Decisions |-> IF req[e] = "new" THEN -1 ELSE Recorded[e]]
  <2>2. R' = [R EXCEPT ![d] = Recorded[d]]
    BY <1>1, <2>1
  <2> QED
    BY <1>1, <1>2, <1>4, <2>2
    DEF Tool!Record, Tool!policyVars, Tool!taskVars, Tool!clientVars, Tool!Unread
<1>6. ASSUME StorePending(d) PROVE Tool!AnswerPending(d)
  <2>1. req'[d] = "accepted" /\ task'[d] = "cascade"
    BY <1>6 DEF StorePending, TypeOK
  <2>2. Phase(d)' = "judge" /\ ReplyTo(d)' = "pending"
    BY <2>1 DEF Phase, TaskPhase, ReplyTo
  <2>3. Tool!Goto(d, "got", "judge")
    BY <1>3, <2>2, PhaseMoves
  <2>4. Tool!Answer(d, "pending")
    BY <1>3, <2>2 DEF Tool!Answer
  <2> QED
    BY <1>5, <2>3, <2>4, JudgeNeeded DEF Tool!AnswerPending
<1>7. ASSUME StorePendingRaises(d) PROVE Tool!StorePendingRaises(d)
  <2>1. req'[d] = "rejected"
    BY <1>7 DEF StorePendingRaises, TypeOK
  <2>2. Phase(d)' = "done" /\ ReplyTo(d)' = "500"
    BY <2>1 DEF Phase, ReplyTo
  <2>3. Tool!Goto(d, "got", "done")
    BY <1>3, <2>2, PhaseMoves
  <2>4. Tool!Answer(d, "500")
    BY <1>3, <2>2 DEF Tool!Answer
  <2> QED
    BY <1>5, <2>3, <2>4, JudgeNeeded DEF Tool!StorePendingRaises
<1> QED
  BY <1>6, <1>7

\* The tool call's model does not see when the keys are written.
LEMMA Unseen ==
    ASSUME UNCHANGED <<req, judged, audited, shown, sdk, attempts, answer>>,
           \A d \in Decisions : TaskPhase(task[d])' = TaskPhase(task[d])
    PROVE  UNCHANGED Tool!vars
<1>1. UNCHANGED <<Tool!policyVars, Tool!Handler, Tool!clientVars>>
  BY TaskFrame
<1>2. UNCHANGED [d \in Decisions |-> Event(d)]
  BY TrailStays
<1>3. UNCHANGED [d \in Decisions |-> Phase(d)]
  <2>1. \A d \in Decisions : Phase(d)' = Phase(d)
    BY DEF Phase
  <2> QED
    BY <2>1
<1> QED
  BY <1>1, <1>2, <1>3
  DEF Tool!vars, Tool!policyVars, Tool!Handler, Tool!clientVars, Tool!readVars

\* The background task.
LEMMA TaskMaps ==
    ASSUME TypeOK, RuledInv, PathInv, BranchInv, NEW d \in Decisions,
           TaskStep(d) \/ Crash(d)
    PROVE  Tool!BackgroundTask(d) \/ Tool!Crash(d) \/ UNCHANGED Tool!vars
<1>1. /\ task[d] \in Running /\ req[d] = "accepted"
      /\ UNCHANGED <<req, sdk, attempts, answer>>
  BY DEF BranchInv, TaskStep, Crash, RunCascade, StoreResult, StoreResultClear,
         Enqueue, Publish, CascadeRaises, StoreResultRaises, StoreResultClearRaises,
         EnqueueRaises, FallbackStore, FallbackClear, FallbackPublish, FallbackRaises
<1>2. /\ UNCHANGED <<Tool!policyVars, Tool!Handler, Tool!clientVars>>
      /\ ReplyTo(d) = "pending"
      /\ task[d] # "idle"
  BY <1>1, TaskFrame DEF ReplyTo
<1> USE DEF Tool!taskVars, TaskPhase
<1>3. CASE RunCascade(d)
  <2>1. Tool!Goto(d, "judge", "audit")
    BY <1>1, <1>2, <1>3, TaskMoves DEF RunCascade
  <2>2. UNCHANGED [e \in Decisions |-> Event(e)]
    BY <1>3, TrailStays DEF RunCascade
  <2> QED
    BY <1>2, <1>3, <2>1, <2>2
    DEF RunCascade, Tool!JudgeRules, Tool!BackgroundTask, Tool!Verdicts
<1>4. CASE CascadeRaises(d)
  <2>1. Tool!Goto(d, "judge", "publish")
    BY <1>1, <1>2, <1>4, TaskMoves DEF CascadeRaises
  <2>2. UNCHANGED [e \in Decisions |-> Event(e)]
    BY <1>4, TrailStays DEF CascadeRaises
  <2> QED
    BY <1>2, <1>4, <2>1, <2>2 DEF CascadeRaises, Tool!JudgeFails, Tool!BackgroundTask
<1>5. CASE StoreResult(d) \/ StoreResultClear(d) \/ FallbackStore(d) \/ FallbackClear(d)
  <2>1. \A e \in Decisions : TaskPhase(task[e])' = TaskPhase(task[e])
    BY <1>5 DEF StoreResult, StoreResultClear, FallbackStore, FallbackClear, TypeOK
  <2> QED
    BY <1>1, <1>5, <2>1, Unseen
    DEF StoreResult, StoreResultClear, FallbackStore, FallbackClear
<1>6. CASE StoreResultRaises(d) \/ StoreResultClearRaises(d)
  <2>1. Tool!Goto(d, "audit", "publish")
    BY <1>1, <1>2, <1>6, TaskMoves DEF StoreResultRaises, StoreResultClearRaises
  <2>2. UNCHANGED [e \in Decisions |-> Event(e)]
    BY <1>6, TrailStays DEF StoreResultRaises, StoreResultClearRaises
  <2> QED
    BY <1>2, <1>6, <2>1, <2>2
    DEF StoreResultRaises, StoreResultClearRaises, Tool!AuditRaises, Tool!BackgroundTask
<1>7. CASE Enqueue(d) \/ EnqueueRaises(d)
  <2>1. Tool!Goto(d, "audit", "publish")
    BY <1>1, <1>2, <1>7, TaskMoves DEF Enqueue, EnqueueRaises
  <2>2. Tool!Enqueued(d) \/ UNCHANGED [e \in Decisions |-> Event(e)]
    BY <1>7, EventEnqueued, TrailStays DEF Enqueue, EnqueueRaises
  <2> QED
    BY <1>2, <1>7, <2>1, <2>2
    DEF Enqueue, EnqueueRaises, Tool!Audit, Tool!BackgroundTask
<1>8. CASE Publish(d) \/ FallbackPublish(d)
  <2>1. Tool!Goto(d, "publish", "done")
    BY <1>1, <1>2, <1>8, TaskMoves DEF Publish, FallbackPublish
  <2>2. UNCHANGED [e \in Decisions |-> Event(e)]
    BY <1>8, TrailStays DEF Publish, FallbackPublish
  <2>3. task[d] = "publish" => judged[d] # NoVerdict
    BY DEF RuledInv, Ruled
  <2>4. \/ UNCHANGED shown
        \/ \E v \in {judged[d], "HUMAN_REVIEW"} \ {NoVerdict} :
              shown' = [shown EXCEPT ![d] = v]
    BY <1>8, <2>3 DEF Publish, FallbackPublish
  <2> QED
    BY <1>2, <1>8, <2>1, <2>2, <2>4
    DEF Publish, FallbackPublish, Tool!Publish, Tool!BackgroundTask, Tool!Unset
<1>9. CASE FallbackRaises(d) \/ Crash(d)
  <2>1. PICK from \in Tool!Tasks : Tool!Goto(d, from, "dead")
    <3>1. task' = [task EXCEPT ![d] = "dead"]
      BY <1>9 DEF FallbackRaises, Crash
    <3>2. TaskPhase(task[d]) \in Tool!Tasks
      BY <1>1 DEF Tool!Tasks
    <3> QED
      BY <1>1, <1>2, <3>1, <3>2, TaskMoves
  <2>2. UNCHANGED [e \in Decisions |-> Event(e)]
    BY <1>9, TrailStays DEF FallbackRaises, Crash
  <2> QED
    BY <1>2, <1>9, <2>1, <2>2 DEF FallbackRaises, Crash, Tool!Crash, Tool!Goto
<1> QED
  BY <1>3, <1>4, <1>5, <1>6, <1>7, <1>8, <1>9 DEF TaskStep

\* The agent's side.
LEMMA ClientMoves ==
    ASSUME NEW d \in Decisions, NEW to, Client(d)' = to,
           \A e \in Decisions \ {d} : Client(e)' = Client(e)
    PROVE  [e \in Decisions |-> Client(e)]' = [[e \in Decisions |-> Client(e)] EXCEPT ![d] = to]
OBVIOUS

LEMMA SdkMaps ==
    ASSUME TypeOK, PathInv, BranchInv, NEW d \in Decisions, SdkStep(d)
    PROVE  Tool!Receive(d) \/ Tool!Lose(d) \/ Tool!Poll(d) \/ UNCHANGED Tool!vars
<1>1. /\ UNCHANGED taskVars
      /\ \A e \in Decisions \ {d} :
            sdk'[e] = sdk[e] /\ attempts'[e] = attempts[e] /\ answer'[e] = answer[e]
  BY DEF TypeOK, SdkStep, ReceivePending, SdkRaises, StartPoll, ReadPending, ReadResult,
         PollFails, PollsExhausted
<1>2. /\ UNCHANGED <<Tool!policyVars, Tool!Handler, [e \in Decisions |-> Phase(e)],
                     Tool!taskVars>>
      /\ \A e \in Decisions \ {d} : Client(e)' = Client(e)
  <2>1. /\ \A e \in Decisions : Phase(e)' = Phase(e) /\ ReplyTo(e)' = ReplyTo(e)
        /\ \A e \in Decisions : Event(e)' = Event(e)
    BY <1>1 DEF Phase, ReplyTo, Event
  <2>2. \A e \in Decisions \ {d} : Client(e)' = Client(e)
    BY <1>1 DEF Client
  <2> QED
    BY <1>1, <2>1, <2>2
    DEF Tool!policyVars, Tool!Handler, Tool!taskVars, Tool!readVars
<1>3. /\ sdk[d] = "waiting" => attempts[d] = 0
      /\ sdk[d] \in {"get_pending", "get_result"} => attempts[d] > 0
      /\ attempts \in [Decisions -> Nat] /\ MaxPolls > 0
      /\ sdk \in [Decisions -> SdkStates]
      /\ answer \in [Decisions -> Verdicts \cup {NoVerdict}]
      /\ result[d] \in {judged[d], "HUMAN_REVIEW", NoVerdict}
  BY CognitivePathAssumption DEF TypeOK, BranchInv, PathInv, DecisionInv, VerdictInv
<1>4. CASE ReceivePending(d)
  <2>1. Client(d) = "waiting" /\ Client(d)' = "polling"
    BY <1>3, <1>4 DEF ReceivePending, Client
  <2>2. heard' = heard \cup {d}
    BY <1>3, <1>4 DEF ReceivePending, heard
  <2>3. ReplyTo(d) = "pending"
    BY <1>4 DEF ReceivePending, ReplyTo
  <2>4. Tool!Reaction("sdk", "pending") = "polling"
    BY DEF Tool!Reaction, Tool!SdkReaction
  <2>5. Tool!Receive(d)
    BY <1>2, <2>1, <2>2, <2>3, <2>4, ClientMoves DEF Tool!Receive, Tool!React, Tool!Unset
  <2> QED
    BY <2>5
<1>5. CASE SdkRaises(d)
  <2>1. /\ Client(d)' = "raised"
        /\ Client(d) = IF sdk[d] = "waiting" THEN "waiting" ELSE "polling"
    BY <1>3, <1>5 DEF SdkRaises, Client
  <2>2. heard' = heard
    BY <1>3, <1>5 DEF SdkRaises, heard
  <2>3. CASE sdk[d] = "waiting"
    <3>1. Tool!Reaction("sdk", "500") = "raised"
      BY DEF Tool!Reaction, Tool!SdkReaction
    <3>2. Tool!Lose(d)
      BY <1>2, <2>1, <2>2, <2>3, <3>1, ClientMoves DEF Tool!Lose, Tool!React
    <3> QED
      BY <3>2
  <2>4. CASE sdk[d] # "waiting"
    <3>1. Tool!Poll(d)
      BY <1>2, <2>1, <2>2, <2>4, ClientMoves DEF Tool!Poll
    <3> QED
      BY <3>1
  <2> QED
    BY <2>3, <2>4
<1>6. CASE StartPoll(d) \/ ReadPending(d) \/ PollFails(d) \/ (ReadResult(d) /\ result[d] = NoVerdict)
  <2>1. Client(d)' = Client(d)
    BY <1>3, <1>6 DEF StartPoll, ReadPending, PollFails, ReadResult, Client
  <2>2. heard' = heard
    <3>1. \A e \in Decisions : e \in heard' <=> e \in heard
      BY <1>1, <1>3, <1>6 DEF StartPoll, ReadPending, PollFails, ReadResult, heard
    <3> QED
      BY <3>1 DEF heard
  <2>3. UNCHANGED Tool!clientVars
    <3>1. \A e \in Decisions : Client(e)' = Client(e)
      BY <1>2, <2>1
    <3> QED
      BY <2>2, <3>1 DEF Tool!clientVars
  <2>4. UNCHANGED Tool!vars
    BY <1>2, <2>3 DEF Tool!vars, Tool!policyVars, Tool!Handler, Tool!clientVars,
                      Tool!readVars, Tool!taskVars
  <2> QED
    BY <2>4
<1>7. CASE (ReadResult(d) /\ result[d] # NoVerdict) \/ PollsExhausted(d)
  <2>1. Client(d) = "polling" /\ sdk'[d] = "answered" /\ attempts' = attempts
    BY <1>3, <1>7 DEF ReadResult, PollsExhausted, Client
  <2>2. answer'[d] \in {judged[d], "HUMAN_REVIEW"} \ {NoVerdict}
    BY <1>3, <1>7 DEF ReadResult, PollsExhausted
  <2>3. judged[d] \in Verdicts \cup {NoVerdict}
    BY DEF TypeOK
  <2>4. Client(d)' \in {Tool!SdkReaction(judged[d]), "refused"}
    BY <2>1, <2>2, <2>3 DEF Client, Tool!SdkReaction
  <2>5. heard' = heard
    <3>1. sdk[d] = "sleeping" \/ attempts[d] > 0
      BY <1>3, <1>7 DEF ReadResult, PollsExhausted
    <3>2. attempts'[d] > 0
      BY <1>3, <1>7 DEF ReadResult, PollsExhausted
    <3>3. \A e \in Decisions : e \in heard' <=> e \in heard
      BY <1>1, <3>1, <3>2 DEF heard
    <3> QED
      BY <3>3 DEF heard
  <2>6. Tool!Poll(d)
    BY <1>2, <2>1, <2>4, <2>5, ClientMoves DEF Tool!Poll
  <2> QED
    BY <2>6
<1> QED
  BY <1>4, <1>5, <1>6, <1>7 DEF SdkStep
-----------------------------------------------------------------------------
LEMMA ToolCallStep ==
    ASSUME TypeOK, RuledInv, PathInv, BranchInv, [Next]_vars
    PROVE  [Tool!Next]_(Tool!vars)
<1>1. CASE Tick \/ UNCHANGED vars
  BY <1>1, Unseen DEF Tick, vars
<1>2. ASSUME NEW d \in Decisions, StorePending(d) \/ StorePendingRaises(d)
      PROVE  Tool!Respond(d)
  BY <1>2, HandlerMaps DEF Tool!Respond
<1>3. ASSUME NEW d \in Decisions, TaskStep(d) \/ Crash(d) \/ SdkStep(d)
      PROVE  \/ Tool!BackgroundTask(d) \/ Tool!Crash(d)
             \/ Tool!Receive(d) \/ Tool!Lose(d) \/ Tool!Poll(d)
             \/ UNCHANGED Tool!vars
  BY <1>3, TaskMaps, SdkMaps
<1> QED
  BY <1>1, <1>2, <1>3 DEF Next, Tool!Next

(* The path implements the part of the tool call it was cut down to.       *)
THEOREM PathKeepsToolCall == Spec => KeepsToolCall
<1>1. TypeOK /\ RuledInv /\ PathInv /\ BranchInv /\ [Next]_vars
        => [Tool!Next]_(Tool!vars)
  BY ToolCallStep
<1>2. TypeOK /\ BranchInv /\ [Next]_vars => BranchInv'
  BY BranchStep
<1> QED
  BY <1>1, <1>2, BranchInit, PathInvariant, PTL DEF Spec, KeepsToolCall
-----------------------------------------------------------------------------
(* What ToolCallProofs.tla proves of the tool call holds of the path: the  *)
(* invariant it rests on holds where the path begins, and is kept by every *)
(* step of the tool call's model, hence by every step of the path.         *)

Whole == INSTANCE ToolCallProofs

\* Tool and Whole!... are the same formulas.
LEMMA SameNext == [Tool!Next]_(Tool!vars) <=> [Whole!Next]_(Whole!vars)
BY DEF Tool!policyVars, Whole!policyVars, Tool!readVars, Whole!readVars, Tool!taskVars,
       Whole!taskVars, Tool!clientVars, Whole!clientVars, Tool!vars, Whole!vars,
       Tool!OnDisk, Whole!OnDisk, Tool!Unread, Whole!Unread, Tool!Unset, Whole!Unset,
       Tool!NoEvent, Whole!NoEvent, Tool!Reading, Whole!Reading, Tool!Tasks,
       Whole!Tasks, Tool!Goto, Whole!Goto, Tool!Answer, Whole!Answer,
       Tool!ActivePolicy, Whole!ActivePolicy, Tool!RulesOf, Whole!RulesOf,
       Tool!Activate, Whole!Activate, Tool!Unauthorized, Whole!Unauthorized,
       Tool!Limited, Whole!Limited, Tool!Admit, Whole!Admit, Tool!Find, Whole!Find,
       Tool!GetTenantKey, Whole!GetTenantKey, Tool!GetSystemKey, Whole!GetSystemKey,
       Tool!GetKeyRaises, Whole!GetKeyRaises, Tool!ReadRules, Whole!ReadRules,
       Tool!FastVerdict, Whole!FastVerdict, Tool!NeedsJudge, Whole!NeedsJudge,
       Tool!Record, Whole!Record, Tool!AnswerFast, Whole!AnswerFast,
       Tool!AnswerPending, Whole!AnswerPending, Tool!StorePendingRaises,
       Whole!StorePendingRaises, Tool!Handler, Whole!Handler, Tool!JudgeRules,
       Whole!JudgeRules, Tool!JudgeFails, Whole!JudgeFails, Tool!Enqueued,
       Whole!Enqueued, Tool!Audit, Whole!Audit, Tool!AuditRaises, Whole!AuditRaises,
       Tool!Publish, Whole!Publish, Tool!Crash, Whole!Crash, Tool!SdkReaction,
       Whole!SdkReaction, Tool!GuardError, Whole!GuardError, Tool!GuardReaction,
       Whole!GuardReaction, Tool!MailReaction, Whole!MailReaction, Tool!Reaction,
       Whole!Reaction, Tool!React, Whole!React, Tool!Receive, Whole!Receive, Tool!Lose,
       Whole!Lose, Tool!Poll, Whole!Poll, Tool!GetActivePolicy, Whole!GetActivePolicy,
       Tool!Respond, Whole!Respond, Tool!BackgroundTask, Whole!BackgroundTask,
       Tool!Next, Whole!Next, Tool!Missing, Whole!Missing, Tool!TaskKey, Whole!TaskKey,
       Tool!AlwaysMatch, Whole!AlwaysMatch, Tool!Verdicts, Whole!Verdicts,
       Tool!Cognitive, Whole!Cognitive, Tool!AppliesTo, Whole!AppliesTo, Tool!Argument,
       Whole!Argument, Tool!Text, Whole!Text, Tool!Searched, Whole!Searched,
       Tool!Matches, Whole!Matches, Tool!Firing, Whole!Firing, Tool!First, Whole!First,
       Tool!Refusal, Whole!Refusal, Tool!RegexVerdict, Whole!RegexVerdict,
       Tool!EvaluateFastPath, Whole!EvaluateFastPath

LEMMA SameProperties ==
    /\ Tool!RunsOnlyIfAllowed <=> Whole!RunsOnlyIfAllowed
    /\ Tool!TrailTellsTheAnswer <=> Whole!TrailTellsTheAnswer
BY DEF Tool!RunsOnlyIfAllowed, Whole!RunsOnlyIfAllowed, Tool!TrailTellsTheAnswer,
       Whole!TrailTellsTheAnswer, Tool!FastVerdict, Whole!FastVerdict, Tool!NeedsJudge,
       Whole!NeedsJudge, Tool!RulesOf, Whole!RulesOf, Tool!OnDisk, Whole!OnDisk,
       Tool!NoEvent, Whole!NoEvent, Tool!Unset, Whole!Unset, Tool!Unread, Whole!Unread,
       Tool!Missing, Whole!Missing, Tool!TaskKey, Whole!TaskKey, Tool!AlwaysMatch,
       Whole!AlwaysMatch, Tool!Cognitive, Whole!Cognitive, Tool!AppliesTo,
       Whole!AppliesTo, Tool!Argument, Whole!Argument, Tool!Text, Whole!Text,
       Tool!Searched, Whole!Searched, Tool!Matches, Whole!Matches, Tool!Firing,
       Whole!Firing, Tool!First, Whole!First, Tool!Refusal, Whole!Refusal,
       Tool!RegexVerdict, Whole!RegexVerdict, Tool!EvaluateFastPath,
       Whole!EvaluateFastPath

WholeInv == Whole!TypeOK /\ Whole!TaskInv /\ Whole!CallInv

LEMMA WholeAssumption == Rules \in [1..Newest -> Seq(Whole!Rule)]
BY CognitiveBranchAssumption DEF Whole!Rule, Fast!Rule

LEMMA WholeInit == Init => WholeInv
<1> SUFFICES ASSUME Init PROVE WholeInv
  OBVIOUS
<1>1. \A d \in Decisions :
          /\ Phase(d) = "got" /\ ReplyTo(d) = NoVerdict /\ Client(d) = "waiting"
          /\ Event(d) = [verdict |-> NoVerdict, version |-> -1]
  BY DEF Init, Phase, ReplyTo, Client, Event
<1>2. heard = {}
  BY DEF Init, heard
<1>3. Whole!TypeOK
  BY <1>1, <1>2, CognitiveBranchAssumption
  DEF Whole!TypeOK, Init, Requests, MaxActivations, Whole!Kinds, Whole!Phases,
      Whole!Reading, Whole!Versions, Whole!Unread, Whole!Replies, Whole!Verdicts,
      Whole!Unset, Whole!Reactions
<1>4. Whole!TaskInv
  BY <1>1 DEF Whole!TaskInv, Whole!Tasks
<1>5. Whole!CallInv
  BY <1>1, <1>2, CognitiveBranchAssumption
  DEF Init, Whole!CallInv, Whole!AnswerInv, Whole!TrailInv, Whole!ClientInv,
      Whole!Unset, Whole!Unread, Whole!NoEvent, Whole!Verdicts, Whole!Told
<1> QED
  BY <1>3, <1>4, <1>5 DEF WholeInv

LEMMA WholeStep == WholeInv /\ [Whole!Next]_(Whole!vars) => WholeInv'
BY WholeAssumption, CognitiveBranchAssumption, Whole!TypeStep, Whole!CallStep
DEF WholeInv, MaxActivations

(* The agent behind the polls goes on only if the judge allowed the call,  *)
(* and the audit event and the dashboard tell the ruling, with the version *)
(* the handler recorded, or HUMAN_REVIEW: proved of the tool call, where   *)
(* run_cognitive_evaluation is two steps, and of the path by refinement.   *)
THEOREM PathInheritsToolCall ==
    Spec => [](Tool!RunsOnlyIfAllowed /\ Tool!TrailTellsTheAnswer)
<1>1. TypeOK /\ RuledInv /\ PathInv /\ BranchInv /\ [Next]_vars
        => [Whole!Next]_(Whole!vars)
  BY ToolCallStep, SameNext
<1>2. TypeOK /\ BranchInv /\ [Next]_vars => BranchInv'
  BY BranchStep
<1>3. WholeInv => Tool!RunsOnlyIfAllowed /\ Tool!TrailTellsTheAnswer
  BY WholeAssumption, CognitiveBranchAssumption, Whole!CallSafety, SameProperties
  DEF WholeInv, MaxActivations
<1> QED
  BY <1>1, <1>2, <1>3, BranchInit, WholeInit, WholeStep, PathInvariant, PTL DEF Spec
=============================================================================

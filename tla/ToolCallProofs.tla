--------------------------- MODULE ToolCallProofs ---------------------------
(***************************************************************************)
(* The safety of a tool call, from the rules to the client, for every set  *)
(* of calls and tenants, every policy and every number of versions and     *)
(* activations.                                                            *)
(***************************************************************************)
EXTENDS ToolCall, WellFoundedInduction, TLAPS

USE DEF policyVars, readVars, taskVars, clientVars, Handler, OnDisk, Versions, Unread,
        Unset, NoEvent, Kinds, Reading, Tasks, Phases, Replies, Reactions, Verdicts,
        Goto, Answer, Find

\* What the handler said, or the judge in its stead.
Told(c) == IF reply[c] = "pending" THEN judged[c] ELSE reply[c]
-----------------------------------------------------------------------------
(* The pure functions.                                                     *)

LEMMA RefusalType == \A action : Refusal(action) \in {"BLOCKED", "HUMAN_REVIEW"}
BY DEF Refusal

LEMMA FastPathType ==
    \A rules, call : EvaluateFastPath(rules, call) \in Verdicts \cup {"ESCALATE"}
BY RefusalType DEF EvaluateFastPath, RegexVerdict

\* An answer that is not asked for is a verdict.
LEMMA FastVerdictType ==
    ASSUME NEW c \in Calls, ~NeedsJudge(c) PROVE FastVerdict(c) \in Verdicts
BY FastPathType DEF NeedsJudge, FastVerdict

LEMMA ReactionType ==
    ASSUME NEW k \in Kinds, NEW answer \in Replies \ {Unset}
    PROVE  /\ Reaction(k, answer) \in Reactions \cup {"polling"}
           /\ Reaction(k, answer) = "ran" => answer \in {"ALLOWED", "pending"}
           /\ Reaction(k, answer) = "ran" /\ k \in {"sdk", "mail"} => answer = "ALLOWED"
           /\ Reaction(k, answer) = "polling" => answer = "pending" /\ k = "sdk"
           /\ answer \in {"BLOCKED", "HUMAN_REVIEW", "429"} =>
                 Reaction(k, answer) \in {"refused", "raised"}
<1>1. CASE k = "sdk"
  BY <1>1 DEF Reaction, SdkReaction
<1>2. CASE k = "mail"
  BY <1>2 DEF Reaction, MailReaction
<1>3. CASE k \in {"guard", "guard_closed"}
  BY <1>3 DEF Reaction, GuardReaction, GuardError
<1> QED
  BY <1>1, <1>2, <1>3

\* Only the guard that fails open turns an error into a run.
LEMMA UncheckedReaction ==
    ASSUME NEW k \in Kinds, NEW answer \in Replies \ {Unset}
    PROVE  Reaction(k, answer) = "ran_unchecked" =>
              k = "guard" /\ answer \in {"401", "500"}
<1>1. CASE k = "sdk"
  BY <1>1 DEF Reaction, SdkReaction
<1>2. CASE k = "mail"
  BY <1>2 DEF Reaction, MailReaction
<1>3. CASE k \in {"guard", "guard_closed"}
  BY <1>3 DEF Reaction, GuardReaction, GuardError
<1> QED
  BY <1>1, <1>2, <1>3
-----------------------------------------------------------------------------
(* Type correctness.                                                       *)

\* The tasks run for a call that was answered with a verdict or "pending".
TaskInv ==
    \A c \in Calls : phase[c] \in Tasks => reply[c] \in Verdicts \cup {"pending"}

\* What the types need of the constants.
LEMMA ConstantTypes ==
    /\ Newest \in Nat /\ MaxActivations \in Nat
    /\ Tenant \in [Calls -> Tenants] /\ System \in Tenants
BY ToolCallAssumption

LEMMA TypeInit == Init => TypeOK /\ TaskInv
BY ToolCallAssumption DEF Init, TypeOK, TaskInv

LEMMA ActivePolicyType == \A t \in Tenants : ActivePolicy(t) \in Versions
BY ToolCallAssumption DEF ActivePolicy

LEMMA HandlerType ==
    ASSUME TypeOK, TaskInv, NEW c \in Calls,
           \/ Unauthorized(c) \/ Limited(c) \/ Admit(c)
           \/ GetActivePolicy(c) \/ ReadRules(c) \/ Respond(c)
    PROVE  TypeOK' /\ TaskInv'
<1> USE ConstantTypes DEF TypeOK, TaskInv
<1>1. CASE Unauthorized(c)
  BY <1>1 DEF Unauthorized
<1>2. CASE Limited(c)
  BY <1>2 DEF Limited
<1>3. CASE Admit(c)
  <2>1. Tenant[c] \in Tenants
    OBVIOUS
  <2>2. due' \in [Calls -> Versions]
    BY <1>3, <2>1, ActivePolicyType DEF Admit
  <2> QED
    BY <1>3, <2>2 DEF Admit
<1>4. CASE GetTenantKey(c)
  BY <1>4 DEF GetTenantKey
<1>5. CASE GetSystemKey(c)
  BY <1>5 DEF GetSystemKey
<1>6. CASE GetKeyRaises(c)
  BY <1>6 DEF GetKeyRaises
<1>7. CASE ReadRules(c)
  BY <1>7 DEF ReadRules
<1>8. CASE AnswerFast(c)
  BY <1>8, FastVerdictType DEF AnswerFast, Record
<1>9. CASE AnswerPending(c)
  BY <1>9 DEF AnswerPending, Record
<1>10. CASE StorePendingRaises(c)
  BY <1>10 DEF StorePendingRaises, Record
<1> QED
  BY <1>1, <1>2, <1>3, <1>4, <1>5, <1>6, <1>7, <1>8, <1>9, <1>10
     DEF GetActivePolicy, Respond

\* The event handed to the pipeline holds a verdict and a version.
LEMMA EnqueuedType ==
    ASSUME TypeOK, TaskInv, NEW c \in Calls, phase[c] = "audit",
           Enqueued(c) \/ UNCHANGED trail
    PROVE  trail' \in [Calls -> [verdict : Verdicts \cup {Unset},
                                 version : Versions \cup {Unread}]]
<1>1. /\ (IF reply[c] = "pending" THEN judged[c] ELSE reply[c]) \in Verdicts \cup {Unset}
      /\ recorded[c] \in Versions \cup {Unread}
  BY DEF TypeOK, TaskInv
<1>2. [verdict |-> IF reply[c] = "pending" THEN judged[c] ELSE reply[c],
       version |-> recorded[c]]
          \in [verdict : Verdicts \cup {Unset}, version : Versions \cup {Unread}]
  BY <1>1
<1> QED
  BY <1>2 DEF Enqueued, TypeOK

LEMMA TaskType ==
    ASSUME TypeOK, TaskInv, NEW c \in Calls, BackgroundTask(c) \/ Crash(c)
    PROVE  TypeOK' /\ TaskInv'
<1>1. CASE JudgeRules(c)
  BY <1>1 DEF JudgeRules, TypeOK, TaskInv
<1>2. CASE JudgeFails(c)
  BY <1>2 DEF JudgeFails, TypeOK, TaskInv
<1>3. CASE Audit(c)
  <2>1. trail' \in [Calls -> [verdict : Verdicts \cup {Unset},
                              version : Versions \cup {Unread}]]
    BY <1>3, EnqueuedType DEF Audit
  <2> QED
    BY <1>3, <2>1 DEF Audit, TypeOK, TaskInv
<1>4. CASE AuditRaises(c)
  <2>1. trail' \in [Calls -> [verdict : Verdicts \cup {Unset},
                              version : Versions \cup {Unread}]]
    BY <1>4, EnqueuedType DEF AuditRaises
  <2>2. phase' \in [Calls -> Phases]
    BY <1>4 DEF AuditRaises, TypeOK
  <2>3. TypeOK'
    BY <1>4, <2>1, <2>2 DEF AuditRaises, TypeOK
  <2>4. TaskInv'
    BY <1>4 DEF AuditRaises, TypeOK, TaskInv
  <2> QED
    BY <2>3, <2>4
<1>5. CASE Publish(c)
  BY <1>5 DEF Publish, TypeOK, TaskInv
<1>6. CASE Crash(c)
  BY <1>6 DEF Crash, TypeOK, TaskInv
<1> QED
  BY <1>1, <1>2, <1>3, <1>4, <1>5, <1>6 DEF BackgroundTask

LEMMA ClientType ==
    ASSUME TypeOK, TaskInv, NEW c \in Calls, Receive(c) \/ Lose(c) \/ Poll(c)
    PROVE  TypeOK' /\ TaskInv'
<1>1. ASSUME NEW answer \in Replies \ {Unset}, React(c, answer), heard' \subseteq Calls
      PROVE  TypeOK' /\ TaskInv'
  <2>1. kind[c] \in Kinds
    BY DEF TypeOK
  <2>2. client' \in [Calls -> Reactions \cup {"waiting", "polling"}]
    BY <1>1, <2>1, ReactionType DEF React, TypeOK
  <2> QED
    BY <1>1, <2>2 DEF React, TypeOK, TaskInv
<1>2. CASE Receive(c)
  BY <1>1, <1>2 DEF Receive, TypeOK
<1>3. CASE Lose(c)
  BY <1>1, <1>3 DEF Lose, TypeOK
<1>4. CASE Poll(c)
  <2>1. SdkReaction(judged[c]) \in Reactions
    BY DEF SdkReaction, TypeOK
  <2>2. client' \in [Calls -> Reactions \cup {"waiting", "polling"}]
    BY <1>4, <2>1 DEF Poll, TypeOK
  <2> QED
    BY <1>4, <2>2 DEF Poll, TypeOK, TaskInv
<1> QED
  BY <1>2, <1>3, <1>4

LEMMA ActivateType ==
    ASSUME TypeOK, TaskInv, NEW t \in Tenants, NEW v \in OnDisk, Activate(t, v)
    PROVE  TypeOK' /\ TaskInv'
BY ToolCallAssumption DEF Activate, TypeOK, TaskInv

LEMMA TypeStep == TypeOK /\ TaskInv /\ [Next]_vars => TypeOK' /\ TaskInv'
<1> SUFFICES ASSUME TypeOK, TaskInv, [Next]_vars PROVE TypeOK' /\ TaskInv'
  OBVIOUS
<1>1. CASE UNCHANGED vars
  BY <1>1 DEF vars, TypeOK, TaskInv
<1> QED
  BY <1>1, ActivateType, HandlerType, TaskType, ClientType DEF Next

(* Every variable keeps its type.                                          *)
THEOREM TypeCorrect == Spec => [](TypeOK /\ TaskInv)
BY TypeInit, TypeStep, PTL DEF Spec
-----------------------------------------------------------------------------
(* The inductive invariant, in three parts.                                *)

\* What was answered, and on the strength of which rules.
AnswerInv(c) ==
    /\ phase[c] \in {"new"} \cup Reading => reply[c] = Unset
    /\ phase[c] = "new" => applied[c] = Unread
    /\ reply[c] \in Verdicts =>
          applied[c] # Unread /\ ~NeedsJudge(c) /\ reply[c] = FastVerdict(c)
    /\ reply[c] \in {"pending", "500"} => applied[c] # Unread /\ NeedsJudge(c)
    /\ reply[c] \in {"401", "429"} => applied[c] = Unread

\* The tasks tell no other verdict than the handler, or the judge for it.
TrailInv(c) ==
    /\ reply[c] # "pending" => judged[c] = Unset
    /\ reply[c] \notin Verdicts \cup {"pending"} => trail[c] = NoEvent /\ shown[c] = Unset
    /\ phase[c] = "judge" =>
          /\ reply[c] = "pending" /\ judged[c] = Unset
          /\ trail[c] = NoEvent /\ shown[c] = Unset
    /\ trail[c] \in {NoEvent, [verdict |-> Told(c), version |-> recorded[c]]}
    /\ shown[c] \in {Unset, Told(c)} \cup
           (IF reply[c] = "pending" THEN {"HUMAN_REVIEW"} ELSE {})

\* What the client did, and on the strength of which answer.
ClientInv(c) ==
    /\ client[c] = "ran" =>
          /\ reply[c] \in {"ALLOWED", "pending"}
          /\ kind[c] \in {"sdk", "mail"} /\ reply[c] = "pending" => judged[c] = "ALLOWED"
    /\ client[c] = "polling" => reply[c] = "pending"
    /\ c \in heard =>
          /\ reply[c] # Unset /\ client[c] # "waiting"
          /\ reply[c] \in {"BLOCKED", "HUMAN_REVIEW", "429"} =>
                client[c] \in {"refused", "raised"}

CallInv == \A c \in Calls : AnswerInv(c) /\ TrailInv(c) /\ ClientInv(c)

LEMMA CallInit == Init => CallInv
BY DEF Init, CallInv, AnswerInv, TrailInv, ClientInv, Told

\* The verdict of the rules changes only with the rules applied.
LEMMA SameRules ==
    ASSUME NEW c \in Calls, UNCHANGED request, applied'[c] = applied[c]
    PROVE  FastVerdict(c)' = FastVerdict(c) /\ (NeedsJudge(c)' <=> NeedsJudge(c))
BY DEF FastVerdict, NeedsJudge

\* A step that touches no more than one call keeps the invariant of the others.
LEMMA OtherCalls ==
    ASSUME CallInv, NEW d \in Calls,
           UNCHANGED <<kind, request>>,
           phase'[d] = phase[d], applied'[d] = applied[d], recorded'[d] = recorded[d],
           reply'[d] = reply[d], judged'[d] = judged[d], trail'[d] = trail[d],
           shown'[d] = shown[d], client'[d] = client[d], d \in heard' <=> d \in heard
    PROVE  AnswerInv(d)' /\ TrailInv(d)' /\ ClientInv(d)'
<1>1. FastVerdict(d)' = FastVerdict(d) /\ (NeedsJudge(d)' <=> NeedsJudge(d))
  BY SameRules
<1>2. AnswerInv(d)'
  BY <1>1 DEF CallInv, AnswerInv
<1>3. TrailInv(d)' /\ ClientInv(d)'
  BY DEF CallInv, TrailInv, ClientInv, Told
<1> QED
  BY <1>2, <1>3

\* Before the answer: only the rules and the versions read change.
LEMMA ReadingKeeps ==
    ASSUME TypeOK, CallInv, NEW c \in Calls,
           Admit(c) \/ GetActivePolicy(c) \/ ReadRules(c)
    PROVE  CallInv'
<1> SUFFICES ASSUME NEW d \in Calls PROVE AnswerInv(d)' /\ TrailInv(d)' /\ ClientInv(d)'
  BY DEF CallInv
<1>1. /\ UNCHANGED <<kind, request, reply, judged, trail, shown, client, heard, recorded>>
      /\ phase[c] \in {"new"} \cup Reading /\ phase'[c] \in Reading
      /\ \A e \in Calls \ {c} : phase'[e] = phase[e] /\ applied'[e] = applied[e]
  BY DEF Admit, GetActivePolicy, GetTenantKey, GetSystemKey, GetKeyRaises, ReadRules,
         TypeOK
<1>2. CASE d # c
  BY <1>1, <1>2, OtherCalls
<1>3. CASE d = c
  <2>1. reply[d] = Unset
    BY <1>1, <1>3 DEF CallInv, AnswerInv
  <2> QED
    BY <1>1, <1>3, <2>1 DEF CallInv, AnswerInv, TrailInv, ClientInv, Told
<1> QED
  BY <1>2, <1>3

\* The answer.
LEMMA AnswerKeeps ==
    ASSUME TypeOK, CallInv, NEW c \in Calls,
           Unauthorized(c) \/ Limited(c) \/ Respond(c)
    PROVE  CallInv'
<1> SUFFICES ASSUME NEW d \in Calls PROVE AnswerInv(d)' /\ TrailInv(d)' /\ ClientInv(d)'
  BY DEF CallInv
<1>1. /\ UNCHANGED <<kind, request, applied, judged, trail, shown, client, heard>>
      /\ phase[c] \in {"new"} \cup Reading
      /\ \A e \in Calls \ {c} : /\ phase'[e] = phase[e] /\ reply'[e] = reply[e]
                                /\ recorded'[e] = recorded[e]
  BY DEF Unauthorized, Limited, Respond, AnswerFast, AnswerPending,
         StorePendingRaises, Record, TypeOK
<1>2. CASE d # c
  BY <1>1, <1>2, OtherCalls
<1>3. CASE d = c
  <2>1. reply[c] = Unset /\ judged[c] = Unset /\ trail[c] = NoEvent /\ shown[c] = Unset
        /\ client[c] \notin {"ran", "polling"} /\ c \notin heard
    BY <1>1 DEF CallInv, AnswerInv, TrailInv, ClientInv
  <2>2. FastVerdict(c)' = FastVerdict(c) /\ (NeedsJudge(c)' <=> NeedsJudge(c))
    BY <1>1, SameRules
  <2>3. \/ phase'[c] = "done" /\ reply'[c] \in {"401", "429"} /\ applied[c] = Unread
        \/ /\ phase'[c] = "audit" /\ applied[c] # Unread /\ ~NeedsJudge(c)
           /\ reply'[c] = FastVerdict(c) /\ reply'[c] \in Verdicts
        \/ /\ phase'[c] = "judge" /\ reply'[c] = "pending"
           /\ applied[c] # Unread /\ NeedsJudge(c)
        \/ /\ phase'[c] = "done" /\ reply'[c] = "500"
           /\ applied[c] # Unread /\ NeedsJudge(c)
    BY FastVerdictType
       DEF Unauthorized, Limited, Respond, AnswerFast, AnswerPending,
           StorePendingRaises, Record, TypeOK, CallInv, AnswerInv
  <2>4. AnswerInv(c)'
    BY <1>1, <2>2, <2>3 DEF AnswerInv
  <2>5. TrailInv(c)' /\ ClientInv(c)'
    BY <1>1, <2>1, <2>3 DEF TrailInv, ClientInv
  <2> QED
    BY <1>3, <2>4, <2>5
<1> QED
  BY <1>2, <1>3

\* The background tasks.
LEMMA TaskKeeps ==
    ASSUME TypeOK, TaskInv, CallInv, NEW c \in Calls, BackgroundTask(c) \/ Crash(c)
    PROVE  CallInv'
<1> SUFFICES ASSUME NEW d \in Calls PROVE AnswerInv(d)' /\ TrailInv(d)' /\ ClientInv(d)'
  BY DEF CallInv
<1>1. /\ UNCHANGED <<kind, request, applied, recorded, reply, client, heard>>
      /\ phase'[c] \notin {"new"} \cup Reading
      /\ \A e \in Calls \ {c} : /\ phase'[e] = phase[e] /\ judged'[e] = judged[e]
                                /\ trail'[e] = trail[e] /\ shown'[e] = shown[e]
  BY DEF BackgroundTask, JudgeRules, JudgeFails, Audit, AuditRaises, Enqueued,
         Publish, Crash, TypeOK
<1>2. CASE d # c
  BY <1>1, <1>2, OtherCalls
<1>3. CASE d = c
  <2>1. FastVerdict(c)' = FastVerdict(c) /\ (NeedsJudge(c)' <=> NeedsJudge(c))
    BY <1>1, SameRules
  <2>2. AnswerInv(c)'
    BY <1>1, <2>1 DEF CallInv, AnswerInv
  <2>3. AnswerInv(c) /\ TrailInv(c) /\ ClientInv(c)
    BY DEF CallInv
  <2>4. CASE JudgeRules(c)
    <3>1. /\ phase[c] = "judge" /\ phase'[c] = "audit" /\ UNCHANGED <<trail, shown>>
          /\ judged'[c] \in Verdicts
      BY <2>4 DEF JudgeRules, TypeOK
    <3> QED
      BY <1>1, <1>3, <2>2, <2>3, <3>1 DEF TrailInv, ClientInv
  <2>5. CASE JudgeFails(c) \/ Crash(c)
    BY <1>1, <1>3, <2>2, <2>3, <2>5
       DEF JudgeFails, Crash, TrailInv, ClientInv, Told, TypeOK
  <2>6. CASE Audit(c) \/ AuditRaises(c)
    <3>1. /\ phase[c] = "audit" /\ phase'[c] # "judge" /\ UNCHANGED <<judged, shown>>
          /\ trail'[c] \in {trail[c], [verdict |-> Told(c), version |-> recorded[c]]}
      BY <2>6 DEF Audit, AuditRaises, Enqueued, Told, TypeOK
    <3>2. reply[c] \in Verdicts \cup {"pending"}
      BY <3>1 DEF TaskInv
    <3> QED
      BY <1>1, <1>3, <2>2, <2>3, <3>1, <3>2 DEF TrailInv, ClientInv, Told
  <2>7. CASE Publish(c)
    <3>1. /\ phase[c] = "publish" /\ phase'[c] = "done" /\ UNCHANGED <<judged, trail>>
          /\ shown'[c] \in {shown[c], Told(c)} \cup
                 (IF reply[c] = "pending" THEN {"HUMAN_REVIEW"} ELSE {})
      BY <2>7 DEF Publish, Told, TypeOK
    <3>2. reply[c] \in Verdicts \cup {"pending"}
      BY <3>1 DEF TaskInv
    <3> QED
      BY <1>1, <1>3, <2>2, <2>3, <3>1, <3>2 DEF TrailInv, ClientInv, Told
  <2> QED
    BY <2>4, <2>5, <2>6, <2>7 DEF BackgroundTask
<1> QED
  BY <1>2, <1>3

\* The client.
LEMMA ClientKeeps ==
    ASSUME TypeOK, CallInv, NEW c \in Calls, Receive(c) \/ Lose(c) \/ Poll(c)
    PROVE  CallInv'
<1> SUFFICES ASSUME NEW d \in Calls PROVE AnswerInv(d)' /\ TrailInv(d)' /\ ClientInv(d)'
  BY DEF CallInv
<1>1. /\ UNCHANGED <<kind, request, phase, applied, recorded, reply, judged, trail, shown>>
      /\ \A e \in Calls \ {c} : client'[e] = client[e] /\ (e \in heard' <=> e \in heard)
  BY DEF Receive, Lose, React, Poll, TypeOK
<1>2. CASE d # c
  BY <1>1, <1>2, OtherCalls
<1>3. CASE d = c
  <2>1. FastVerdict(c)' = FastVerdict(c) /\ (NeedsJudge(c)' <=> NeedsJudge(c))
    BY <1>1, SameRules
  <2>2. AnswerInv(c)' /\ TrailInv(c)'
    BY <1>1, <2>1 DEF CallInv, AnswerInv, TrailInv, Told
  <2>3. ClientInv(c) /\ kind[c] \in Kinds
    BY DEF CallInv, TypeOK
  <2>4. CASE Receive(c)
    <3>1. reply[c] \in Replies \ {Unset} /\ client'[c] = Reaction(kind[c], reply[c])
      BY <2>4 DEF Receive, React, TypeOK
    <3>2. client'[c] # "waiting"
      BY <2>3, <3>1, ReactionType
    <3> QED
      BY <1>1, <1>3, <2>2, <2>3, <3>1, <3>2, ReactionType DEF ClientInv
  <2>5. CASE Lose(c)
    <3>1. client'[c] = Reaction(kind[c], "500") /\ heard' = heard /\ client[c] = "waiting"
      BY <2>5 DEF Lose, React, TypeOK
    <3>2. client'[c] \notin {"ran", "polling"}
      BY <2>3, <3>1, ReactionType
    <3> QED
      BY <1>1, <1>3, <2>2, <2>3, <3>1, <3>2 DEF ClientInv
  <2>6. CASE Poll(c)
    <3>1. /\ client[c] = "polling" /\ heard' = heard
          /\ client'[c] \in {SdkReaction(judged[c]), "refused", "raised"}
      BY <2>6 DEF Poll, TypeOK
    <3>2. /\ SdkReaction(judged[c]) = "ran" => judged[c] = "ALLOWED"
          /\ SdkReaction(judged[c]) \notin {"polling", "waiting"}
      BY DEF SdkReaction, TypeOK
    <3> QED
      BY <1>1, <1>3, <2>2, <2>3, <3>1, <3>2 DEF ClientInv
  <2> QED
    BY <2>4, <2>5, <2>6
<1> QED
  BY <1>2, <1>3

LEMMA ActivateKeeps ==
    ASSUME CallInv, NEW t \in Tenants, NEW v \in OnDisk, Activate(t, v)
    PROVE  CallInv'
<1> SUFFICES ASSUME NEW d \in Calls PROVE AnswerInv(d)' /\ TrailInv(d)' /\ ClientInv(d)'
  BY DEF CallInv
<1> QED
  BY OtherCalls DEF Activate

LEMMA CallStep == TypeOK /\ TaskInv /\ CallInv /\ [Next]_vars => CallInv'
<1> SUFFICES ASSUME TypeOK, TaskInv, CallInv, [Next]_vars PROVE CallInv'
  OBVIOUS
<1>1. CASE UNCHANGED vars
  BY <1>1, OtherCalls DEF vars, CallInv
<1> QED
  BY <1>1, ReadingKeeps, AnswerKeeps, TaskKeeps, ClientKeeps, ActivateKeeps DEF Next

LEMMA CallHolds == Spec => [](TypeOK /\ CallInv)
BY TypeInit, TypeStep, CallInit, CallStep, PTL DEF Spec
-----------------------------------------------------------------------------
(* What follows from it.                                                   *)

LEMMA CallSafety ==
    TypeOK /\ CallInv =>
        /\ HardBlockIsFinal /\ RunsOnlyIfAllowed
        /\ RefusalIsObeyed /\ TrailTellsTheAnswer
<1> SUFFICES ASSUME TypeOK, CallInv
             PROVE  /\ HardBlockIsFinal /\ RunsOnlyIfAllowed
                    /\ RefusalIsObeyed /\ TrailTellsTheAnswer
  OBVIOUS
<1>1. HardBlockIsFinal
  <2> SUFFICES ASSUME NEW c \in Calls, applied[c] # Unread, FastVerdict(c) = "BLOCKED"
               PROVE  /\ judged[c] = Unset
                      /\ {reply[c], trail[c].verdict, shown[c]} \subseteq {Unset, "BLOCKED"}
                      /\ client[c] # "ran"
    BY DEF HardBlockIsFinal
  <2>1. AnswerInv(c) /\ TrailInv(c) /\ ClientInv(c)
    BY DEF CallInv
  <2>2. reply[c] \in {Unset, "BLOCKED"}
    BY <2>1 DEF AnswerInv, NeedsJudge, TypeOK
  <2> QED
    BY <2>1, <2>2 DEF TrailInv, ClientInv, Told
<1>2. RunsOnlyIfAllowed
  BY DEF CallInv, AnswerInv, ClientInv, RunsOnlyIfAllowed
<1>3. RefusalIsObeyed
  BY DEF CallInv, ClientInv, RefusalIsObeyed, TypeOK
<1>4. TrailTellsTheAnswer
  BY DEF CallInv, TrailInv, Told, TrailTellsTheAnswer
<1> QED
  BY <1>1, <1>2, <1>3, <1>4

(* A call the rules block is blocked for good: no judge rules on it, and   *)
(* nobody is told anything else.                                           *)
THEOREM HardBlocksAreFinal == Spec => []HardBlockIsFinal
BY CallSafety, CallHolds, PTL

(* The SDK and the mail script run a call only if the rules or the judge   *)
(* allowed it.                                                             *)
THEOREM NothingRunsUnallowed == Spec => []RunsOnlyIfAllowed
BY CallSafety, CallHolds, PTL

(* A client that was told to refrain refrains.                             *)
THEOREM RefusalsAreObeyed == Spec => []RefusalIsObeyed
BY CallSafety, CallHolds, PTL

(* The trail and the dashboard tell what the agent was told.               *)
THEOREM TrailTellsTheTruth == Spec => []TrailTellsTheAnswer
BY CallSafety, CallHolds, PTL
-----------------------------------------------------------------------------
(* Who runs a call, and on what: the guards' side of RunsOnlyIfAllowed.    *)

\* A call is made unchecked by the guard that fails open, and by no other
\* client, after a failure; made on an answer, by any of them, it was heard
\* to be allowed or pending.
RunsOnAnAnswer ==
    \A c \in Calls :
        /\ client[c] = "ran_unchecked" =>
              /\ kind[c] = "guard"
              /\ c \in heard => reply[c] \in {"401", "500"}
        /\ client[c] \in {"ran", "polling"} =>
              c \in heard /\ reply[c] \in {"ALLOWED", "pending"}

LEMMA RunsStep ==
    ASSUME TypeOK, CallInv, RunsOnAnAnswer, [Next]_vars PROVE RunsOnAnAnswer'
<1>0. UNCHANGED kind
  BY DEF Next, vars, Activate, Unauthorized, Limited, Admit, GetActivePolicy,
         GetTenantKey, GetSystemKey, GetKeyRaises, ReadRules, Respond, AnswerFast,
         AnswerPending, StorePendingRaises, Record, BackgroundTask, JudgeRules,
         JudgeFails, Audit, AuditRaises, Publish, Crash, Receive, Lose, React, Poll
<1>1. ASSUME NEW c \in Calls,
             \/ Unauthorized(c) \/ Limited(c) \/ Admit(c)
             \/ GetActivePolicy(c) \/ ReadRules(c) \/ Respond(c)
      PROVE  RunsOnAnAnswer'
  <2>1. /\ UNCHANGED clientVars /\ \A d \in Calls \ {c} : reply'[d] = reply[d]
        /\ phase[c] \in {"new"} \cup Reading
    BY <1>1 DEF Unauthorized, Limited, Admit, GetActivePolicy, GetTenantKey,
                GetSystemKey, GetKeyRaises, ReadRules, Respond, AnswerFast,
                AnswerPending, StorePendingRaises, Record, TypeOK
  <2>2. c \notin heard
    BY <2>1 DEF CallInv, AnswerInv, ClientInv
  <2> QED
    BY <1>0, <2>1, <2>2 DEF RunsOnAnAnswer
<1>2. ASSUME NEW c \in Calls, BackgroundTask(c) \/ Crash(c) PROVE RunsOnAnAnswer'
  <2>1. UNCHANGED <<clientVars, reply>>
    BY <1>2 DEF BackgroundTask, JudgeRules, JudgeFails, Audit, AuditRaises, Publish, Crash
  <2> QED
    BY <1>0, <2>1 DEF RunsOnAnAnswer
<1>3. ASSUME NEW c \in Calls, Receive(c) \/ Lose(c) PROVE RunsOnAnAnswer'
  <2>1. PICK answer \in Replies \ {Unset} :
            /\ React(c, answer)
            /\ \/ answer = reply[c] /\ heard' = heard \cup {c}
               \/ answer = "500" /\ heard' = heard
    BY <1>3 DEF Receive, Lose, TypeOK
  <2>2. /\ UNCHANGED reply /\ client' = [client EXCEPT ![c] = Reaction(kind[c], answer)]
        /\ c \notin heard
    BY <2>1 DEF React, CallInv, ClientInv
  <2>3. kind[c] \in Kinds
    BY DEF TypeOK
  <2>4. /\ Reaction(kind[c], answer) = "ran_unchecked" =>
              kind[c] = "guard" /\ answer \in {"401", "500"}
        /\ Reaction(kind[c], answer) \in {"ran", "polling"} =>
              answer \in {"ALLOWED", "pending"}
    BY <2>3, ReactionType, UncheckedReaction
  <2>5. ASSUME NEW d \in Calls \ {c}
        PROVE  client'[d] = client[d] /\ (d \in heard' <=> d \in heard)
    BY <2>1, <2>2 DEF TypeOK
  <2>6. client'[c] = Reaction(kind[c], answer)
    BY <2>2 DEF TypeOK
  <2> QED
    BY <1>0, <2>1, <2>2, <2>4, <2>5, <2>6 DEF RunsOnAnAnswer
<1>4. ASSUME NEW c \in Calls, Poll(c) PROVE RunsOnAnAnswer'
  <2>1. /\ UNCHANGED <<reply, heard>> /\ client[c] = "polling"
        /\ \A d \in Calls \ {c} : client'[d] = client[d]
        /\ client'[c] \in {"ran", "refused", "raised", "polling"}
    BY <1>4 DEF Poll, SdkReaction, TypeOK
  <2> QED
    BY <1>0, <2>1 DEF RunsOnAnAnswer
<1>5. ASSUME NEW t \in Tenants, NEW v \in OnDisk, Activate(t, v) PROVE RunsOnAnAnswer'
  BY <1>0, <1>5 DEF Activate, RunsOnAnAnswer
<1>6. CASE UNCHANGED vars
  BY <1>6 DEF vars, RunsOnAnAnswer
<1> QED
  BY <1>1, <1>2, <1>3, <1>4, <1>5, <1>6 DEF Next

(* Only terminal_guard.py without --fail-closed runs a command unchecked,  *)
(* and only when no answer reached it or the answer was an error; every    *)
(* other run rests on an answer that allowed the call or left it pending.  *)
THEOREM OnlyTheOpenGuardSkips == Spec => []RunsOnAnAnswer
<1>1. Init => RunsOnAnAnswer
  BY DEF Init, RunsOnAnAnswer
<1> QED
  BY <1>1, RunsStep, CallHolds, PTL DEF Spec
-----------------------------------------------------------------------------
(* The policy: what the two reads find while nothing moves under them.     *)

ReadInv(c) ==
    /\ phase[c] = "new" => applied[c] = Unread /\ recorded[c] = Unread
    /\ c \notin disturbed =>
          /\ applied[c] \in {Unread, due[c]} /\ recorded[c] \in {Unread, due[c]}
          /\ phase[c] \in Reading => due[c] = ActivePolicy(Tenant[c])
          /\ phase[c] = "get_system" => active[Tenant[c]] \notin OnDisk
          /\ phase[c] = "got" => found[c] = due[c]

PolicyInv == \A c \in Calls : ReadInv(c)

\* A step that leaves the policies and what a call read of them alone.
LEMMA SameReads ==
    ASSUME PolicyInv, NEW d \in Calls, UNCHANGED active,
           phase'[d] = phase[d] \/ phase'[d] \notin {"new"} \cup Reading,
           applied'[d] = applied[d], recorded'[d] = recorded[d], found'[d] = found[d],
           due'[d] = due[d], d \in disturbed => d \in disturbed'
    PROVE  ReadInv(d)'
BY DEF PolicyInv, ReadInv, ActivePolicy

LEMMA PolicyHandler ==
    ASSUME TypeOK, PolicyInv, NEW c \in Calls,
           \/ Unauthorized(c) \/ Limited(c) \/ Admit(c)
           \/ GetActivePolicy(c) \/ ReadRules(c) \/ Respond(c)
    PROVE  PolicyInv'
<1> SUFFICES ASSUME NEW d \in Calls PROVE ReadInv(d)'
  BY DEF PolicyInv
<1>1. /\ UNCHANGED active /\ disturbed \subseteq disturbed'
      /\ \A e \in Calls \ {c} : /\ phase'[e] = phase[e] /\ applied'[e] = applied[e]
                                /\ recorded'[e] = recorded[e] /\ found'[e] = found[e]
                                /\ due'[e] = due[e]
  BY DEF Unauthorized, Limited, Admit, GetActivePolicy, GetTenantKey, GetSystemKey,
         GetKeyRaises, ReadRules, Respond, AnswerFast, AnswerPending,
         StorePendingRaises, Record, TypeOK
<1>2. CASE d # c
  BY <1>1, <1>2, SameReads
<1>3. CASE d = c
  <2>0. ReadInv(c)
    BY DEF PolicyInv
  <2> USE <1>3, <2>0 DEF ReadInv, TypeOK
  <2>1. CASE Unauthorized(c) \/ Limited(c)
    BY <2>1 DEF Unauthorized, Limited
  <2>2. CASE Admit(c)
    <3>1. ActivePolicy(Tenant[c])' = ActivePolicy(Tenant[c])
      BY <1>1 DEF ActivePolicy
    <3> QED
      BY <2>2, <3>1 DEF Admit
  <2>3. CASE GetTenantKey(c)
    BY <2>3 DEF GetTenantKey, ActivePolicy
  <2>4. CASE GetSystemKey(c)
    BY <2>4 DEF GetSystemKey, ActivePolicy
  <2>5. CASE GetKeyRaises(c)
    BY <2>5 DEF GetKeyRaises
  <2>6. CASE ReadRules(c)
    <3>1. ActivePolicy(Tenant[c])' = ActivePolicy(Tenant[c])
      BY <1>1 DEF ActivePolicy
    <3> QED
      BY <2>6, <3>1 DEF ReadRules
  <2>7. CASE Respond(c)
    BY <2>7 DEF Respond, AnswerFast, AnswerPending, StorePendingRaises, Record
  <2> QED
    BY <2>1, <2>2, <2>3, <2>4, <2>5, <2>6, <2>7 DEF GetActivePolicy
<1> QED
  BY <1>2, <1>3

LEMMA PolicyStep == TypeOK /\ PolicyInv /\ [Next]_vars => PolicyInv'
<1> SUFFICES ASSUME TypeOK, PolicyInv, [Next]_vars PROVE PolicyInv'
  OBVIOUS
<1>1. ASSUME NEW t \in Tenants, NEW v \in OnDisk, Activate(t, v) PROVE PolicyInv'
  BY <1>1 DEF Activate, PolicyInv, ReadInv
<1>2. ASSUME NEW c \in Calls, \/ BackgroundTask(c) \/ Crash(c)
                              \/ Receive(c) \/ Lose(c) \/ Poll(c)
      PROVE  PolicyInv'
  <2> SUFFICES ASSUME NEW d \in Calls PROVE ReadInv(d)'
    BY DEF PolicyInv
  <2>1. /\ UNCHANGED <<active, applied, recorded, found, due, disturbed>>
        /\ phase'[d] = phase[d] \/ phase'[d] \notin {"new"} \cup Reading
    BY <1>2 DEF BackgroundTask, JudgeRules, JudgeFails, Audit, AuditRaises, Publish,
                Crash, Receive, Lose, React, Poll, TypeOK
  <2> QED
    BY <2>1, SameReads
<1>3. CASE UNCHANGED vars
  BY <1>3, SameReads DEF vars, PolicyInv
<1> QED
  BY <1>1, <1>2, <1>3, PolicyHandler DEF Next

(* Two reads of two keys each: unless a key moved or Redis failed under    *)
(* them, the rules applied and the version recorded are those of the       *)
(* policy active when the handler began.                                   *)
THEOREM PolicyIsActive == Spec => []PolicyIsTheActiveOne
<1>1. Init => PolicyInv
  BY DEF Init, PolicyInv, ReadInv
<1>2. PolicyInv => PolicyIsTheActiveOne
  BY DEF PolicyInv, ReadInv, PolicyIsTheActiveOne
<1> QED
  BY <1>1, <1>2, PolicyStep, TypeInit, TypeStep, PTL DEF Spec
-----------------------------------------------------------------------------
(* Adding a block rule to a policy.                                        *)

\* A set of positions has a least one, and First is it.
LEMMA FirstIsLeast ==
    ASSUME NEW S, S \subseteq Nat, S # {}
    PROVE  First(S) \in S /\ \A j \in S : First(S) <= j
<1> DEFINE R == {p \in Nat \X Nat : p[1] < p[2]}
<1>1. R = OpToRel(<, Nat)
  BY DEF OpToRel
<1>2. IsWellFoundedOn(R, Nat)
  BY <1>1, NatLessThanWellFounded
<1>3. PICK i \in S : \A j \in S : <<j, i>> \notin R
  <2> HIDE DEF R
  <2> QED
    BY <1>2, WFMin
<1>4. \A j \in S : i \in Nat /\ j \in Nat /\ ~(j < i)
  BY <1>3
<1>5. \E k \in S : \A j \in S : k <= j
  BY <1>4
<1> QED
  BY <1>5 DEF First

\* Where a position of the policy is once a rule was inserted at i.
Shift(i, j) == IF j < i THEN j ELSE j + 1

\* The rules of a type that fire are the ones that did, and perhaps the new one.
LEMMA InsertFiring ==
    ASSUME NEW rules \in Seq(Rule), NEW i \in 1..(Len(rules) + 1), NEW rule,
           NEW type, NEW call
    PROVE  LET old == Firing(rules, type, call)
               new == Firing(Insert(rules, i, rule), type, call)
           IN  /\ old \subseteq 1..Len(rules) /\ new \subseteq 1..(Len(rules) + 1)
               /\ \A j \in old : Shift(i, j) \in new
               /\ \A k \in new : k = i \/ \E j \in old : k = Shift(i, j)
               /\ \A j \in old : Insert(rules, i, rule)[Shift(i, j)] = rules[j]
               /\ Insert(rules, i, rule)[i] = rule
<1> DEFINE with == Insert(rules, i, rule)
           old == Firing(rules, type, call)
           new == Firing(with, type, call)
           Fires(r) == r.type = type /\ AppliesTo(r, call) /\ Matches(r, call)
<1>1. Len(rules) \in Nat /\ DOMAIN rules = 1..Len(rules)
      /\ DOMAIN with = 1..(Len(rules) + 1) /\ i \in Nat
  BY DEF Insert
<1>2. \A j \in 1..Len(rules) :
          Shift(i, j) \in 1..(Len(rules) + 1) /\ with[Shift(i, j)] = rules[j]
  BY <1>1 DEF Insert, Shift
<1>3. with[i] = rule
  BY <1>1 DEF Insert
<1>4. \A k \in 1..(Len(rules) + 1) : k = i \/ \E j \in 1..Len(rules) : k = Shift(i, j)
  <2> SUFFICES ASSUME NEW k \in 1..(Len(rules) + 1), k # i
               PROVE  \E j \in 1..Len(rules) : k = Shift(i, j)
    OBVIOUS
  <2>1. CASE k < i
    BY <1>1, <2>1 DEF Shift
  <2>2. CASE k > i
    <3>1. k - 1 \in 1..Len(rules) /\ k = Shift(i, k - 1)
      BY <1>1, <2>2 DEF Shift
    <3> QED
      BY <3>1
  <2> QED
    BY <1>1, <2>1, <2>2
<1>5. old = {j \in 1..Len(rules) : Fires(rules[j])}
      /\ new = {k \in 1..(Len(rules) + 1) : Fires(with[k])}
  BY <1>1 DEF Firing
<1> HIDE DEF with, old, new, Fires
<1>6. /\ old \subseteq 1..Len(rules) /\ new \subseteq 1..(Len(rules) + 1)
      /\ \A j \in old : Shift(i, j) \in new
      /\ \A k \in new : k = i \/ \E j \in old : k = Shift(i, j)
      /\ \A j \in old : with[Shift(i, j)] = rules[j]
  BY <1>2, <1>4, <1>5
<1> QED
  BY <1>3, <1>6 DEF with, old, new

\* The first rule of a type that fires is the new one or the one that was.
LEMMA InsertFirst ==
    ASSUME NEW rules \in Seq(Rule), NEW i \in 1..(Len(rules) + 1), NEW rule,
           NEW type, NEW call
    PROVE  LET with == Insert(rules, i, rule)
               old == Firing(rules, type, call)
               new == Firing(with, type, call)
           IN  /\ old # {} => new # {}
               /\ new # {} => \/ with[First(new)] = rule
                              \/ old # {} /\ with[First(new)] = rules[First(old)]
<1> DEFINE with == Insert(rules, i, rule)
           old == Firing(rules, type, call)
           new == Firing(with, type, call)
<1>1. /\ old \subseteq 1..Len(rules) /\ new \subseteq 1..(Len(rules) + 1)
      /\ \A j \in old : Shift(i, j) \in new
      /\ \A k \in new : k = i \/ \E j \in old : k = Shift(i, j)
      /\ \A j \in old : with[Shift(i, j)] = rules[j]
      /\ with[i] = rule
  BY InsertFiring
<1>2. Len(rules) \in Nat /\ i \in Nat /\ old \subseteq Nat /\ new \subseteq Nat
  BY <1>1
<1> HIDE DEF with, old, new
<1>3. ASSUME new # {}, First(new) # i
      PROVE  old # {} /\ with[First(new)] = rules[First(old)]
  <2>1. First(new) \in new /\ \A k \in new : First(new) <= k
    BY <1>2, <1>3, FirstIsLeast
  <2>2. PICK j \in old : First(new) = Shift(i, j)
    BY <1>1, <1>3, <2>1
  <2>3. First(old) \in old /\ \A k \in old : First(old) <= k
    BY <1>2, <2>2, FirstIsLeast
  <2>4. Shift(i, j) <= Shift(i, First(old)) /\ First(old) <= j
    BY <1>1, <2>1, <2>2, <2>3
  <2>5. j \in Nat /\ First(old) \in Nat
    BY <1>2, <2>2, <2>3
  <2>6. j = First(old)
    BY <1>2, <2>4, <2>5 DEF Shift
  <2> QED
    BY <1>1, <2>2, <2>6
<1>4. old # {} => new # {}
  BY <1>1
<1>5. new # {} => \/ with[First(new)] = rule
                  \/ old # {} /\ with[First(new)] = rules[First(old)]
  BY <1>1, <1>3
<1> QED
  BY <1>4, <1>5 DEF with, old, new

(* For every policy and every tool call: a rule whose action is block, put *)
(* at any place, leaves the verdict of evaluate_fast_path alone or blocks. *)
THEOREM BlockRuleTightens ==
    ASSUME NEW rules \in Seq(Rule), NEW i \in 1..(Len(rules) + 1), NEW rule,
           rule.action = "block", NEW call
    PROVE  EvaluateFastPath(Insert(rules, i, rule), call)
               \in {EvaluateFastPath(rules, call), "BLOCKED"}
<1> DEFINE with == Insert(rules, i, rule)
           Old(type) == Firing(rules, type, call)
           New(type) == Firing(with, type, call)
<1>1. \A type : /\ Old(type) # {} => New(type) # {}
                /\ New(type) # {} =>
                      \/ with[First(New(type))].action = "block"
                      \/ /\ Old(type) # {}
                         /\ with[First(New(type))].action
                                = rules[First(Old(type))].action
  <2> SUFFICES ASSUME NEW type
               PROVE  /\ Old(type) # {} => New(type) # {}
                      /\ New(type) # {} =>
                            \/ with[First(New(type))].action = "block"
                            \/ /\ Old(type) # {}
                               /\ with[First(New(type))].action
                                      = rules[First(Old(type))].action
    OBVIOUS
  <2>1. /\ Old(type) # {} => New(type) # {}
        /\ New(type) # {} => \/ with[First(New(type))] = rule
                             \/ /\ Old(type) # {}
                                /\ with[First(New(type))] = rules[First(Old(type))]
    BY InsertFirst
  <2> HIDE DEF with, Old, New
  <2> QED
    BY <2>1
<1>2. Refusal("block") = "BLOCKED" /\ RegexVerdict("block") = "BLOCKED"
  BY DEF Refusal, RegexVerdict
<1>3. EvaluateFastPath(rules, call) =
          IF Old("denylist") # {} THEN "BLOCKED"
          ELSE IF Old("allowlist") # {}
               THEN Refusal(rules[First(Old("allowlist"))].action)
          ELSE IF Old("threshold") # {}
               THEN Refusal(rules[First(Old("threshold"))].action)
          ELSE IF Old("regex") # {}
               THEN RegexVerdict(rules[First(Old("regex"))].action)
          ELSE "ALLOWED"
  BY DEF EvaluateFastPath
<1>4. EvaluateFastPath(with, call) =
          IF New("denylist") # {} THEN "BLOCKED"
          ELSE IF New("allowlist") # {}
               THEN Refusal(with[First(New("allowlist"))].action)
          ELSE IF New("threshold") # {}
               THEN Refusal(with[First(New("threshold"))].action)
          ELSE IF New("regex") # {}
               THEN RegexVerdict(with[First(New("regex"))].action)
          ELSE "ALLOWED"
  BY DEF EvaluateFastPath
<1> HIDE DEF Old, New, with
<1>5. CASE New("denylist") # {}
  BY <1>4, <1>5 DEF with
<1>6. CASE New("denylist") = {} /\ New("allowlist") # {}
  BY <1>1, <1>2, <1>3, <1>4, <1>6 DEF with
<1>7. CASE New("denylist") = {} /\ New("allowlist") = {} /\ New("threshold") # {}
  BY <1>1, <1>2, <1>3, <1>4, <1>7 DEF with
<1>8. CASE /\ New("denylist") = {} /\ New("allowlist") = {} /\ New("threshold") = {}
           /\ New("regex") # {}
  BY <1>1, <1>2, <1>3, <1>4, <1>8 DEF with
<1>9. CASE /\ New("denylist") = {} /\ New("allowlist") = {} /\ New("threshold") = {}
           /\ New("regex") = {}
  BY <1>1, <1>3, <1>4, <1>9 DEF with
<1> QED
  BY <1>5, <1>6, <1>7, <1>8, <1>9

\* A policy whose rules were moved, each to a place given by p, so that no two
\* rules of a type changed places.
Reorders(rules, other, p) ==
    /\ p \in [1..Len(rules) -> 1..Len(other)]
    /\ \A k \in 1..Len(other) : \E j \in 1..Len(rules) : p[j] = k
    /\ \A j \in 1..Len(rules) : other[p[j]] = rules[j]
    /\ \A j, k \in 1..Len(rules) :
          j <= k /\ rules[j].type = rules[k].type => p[j] <= p[k]

LEMMA ReorderedFirst ==
    ASSUME NEW rules \in Seq(Rule), NEW other \in Seq(Rule), NEW p,
           Reorders(rules, other, p), NEW type, NEW call
    PROVE  LET old == Firing(rules, type, call)
               new == Firing(other, type, call)
           IN  /\ old # {} <=> new # {}
               /\ new # {} => other[First(new)] = rules[First(old)]
<1> DEFINE Fires(rule) == rule.type = type /\ AppliesTo(rule, call) /\ Matches(rule, call)
           old == Firing(rules, type, call)
           new == Firing(other, type, call)
<1>1. /\ old = {j \in 1..Len(rules) : Fires(rules[j])}
      /\ new = {k \in 1..Len(other) : Fires(other[k])}
      /\ \A rule : Fires(rule) => rule.type = type
  BY DEF Firing
<1> HIDE DEF Fires, old, new
<1>2. /\ \A j \in old : p[j] \in new
      /\ \A k \in new : \E j \in old : p[j] = k
  BY <1>1 DEF Reorders
<1>3. old \subseteq Nat /\ new \subseteq Nat /\ old \subseteq 1..Len(rules)
  BY <1>1
<1>4. ASSUME new # {} PROVE other[First(new)] = rules[First(old)]
  <2>1. First(new) \in new /\ \A k \in new : First(new) <= k
    BY <1>3, <1>4, FirstIsLeast
  <2>2. PICK j \in old : p[j] = First(new)
    BY <1>2, <2>1
  <2>3. First(old) \in old /\ \A k \in old : First(old) <= k
    BY <1>3, <2>2, FirstIsLeast
  <2>4. rules[First(old)].type = rules[j].type
    BY <1>1, <2>2, <2>3
  <2>5. First(old) <= j /\ First(old) \in 1..Len(rules) /\ j \in 1..Len(rules)
    BY <1>3, <2>2, <2>3
  <2>6. p[First(old)] <= p[j]
    BY <2>4, <2>5 DEF Reorders
  <2>7. First(new) <= p[First(old)] /\ p[First(old)] \in Nat /\ First(new) \in Nat
    BY <1>2, <1>3, <2>1, <2>3
  <2>8. p[First(old)] = First(new)
    BY <2>2, <2>6, <2>7
  <2> QED
    BY <2>5, <2>8 DEF Reorders
<1>5. old # {} <=> new # {}
  BY <1>2
<1> QED
  BY <1>4, <1>5 DEF old, new

(* The order of a policy's rules matters only among the rules of one type: *)
(* evaluate_fast_path asks the types in an order of its own and the rules  *)
(* of a type in theirs, so moving rules past rules of other types, by any  *)
(* edit of the YAML, changes no verdict of any call.                       *)
THEOREM OrderWithinTypes ==
    ASSUME NEW rules \in Seq(Rule), NEW other \in Seq(Rule), NEW p,
           Reorders(rules, other, p), NEW call
    PROVE  EvaluateFastPath(other, call) = EvaluateFastPath(rules, call)
<1> DEFINE Old(type) == Firing(rules, type, call)
           New(type) == Firing(other, type, call)
<1>1. ASSUME NEW type
      PROVE  /\ Old(type) # {} <=> New(type) # {}
             /\ New(type) # {} =>
                    other[First(New(type))].action = rules[First(Old(type))].action
  <2>1. /\ Old(type) # {} <=> New(type) # {}
        /\ New(type) # {} => other[First(New(type))] = rules[First(Old(type))]
    BY ReorderedFirst
  <2> QED
    BY <2>1
<1>2. EvaluateFastPath(rules, call) =
          IF Old("denylist") # {} THEN "BLOCKED"
          ELSE IF Old("allowlist") # {}
               THEN Refusal(rules[First(Old("allowlist"))].action)
          ELSE IF Old("threshold") # {}
               THEN Refusal(rules[First(Old("threshold"))].action)
          ELSE IF Old("regex") # {}
               THEN RegexVerdict(rules[First(Old("regex"))].action)
          ELSE "ALLOWED"
  BY DEF EvaluateFastPath
<1>3. EvaluateFastPath(other, call) =
          IF New("denylist") # {} THEN "BLOCKED"
          ELSE IF New("allowlist") # {}
               THEN Refusal(other[First(New("allowlist"))].action)
          ELSE IF New("threshold") # {}
               THEN Refusal(other[First(New("threshold"))].action)
          ELSE IF New("regex") # {}
               THEN RegexVerdict(other[First(New("regex"))].action)
          ELSE "ALLOWED"
  BY DEF EvaluateFastPath
<1> HIDE DEF Old, New
<1> QED
  BY <1>1, <1>2, <1>3

(* So the property of the run holds for every set of policies.             *)
THEOREM BlockRulesTighten == Spec => []BlockRulesOnlyTighten
<1>1. TypeOK => BlockRulesOnlyTighten
  <2> SUFFICES ASSUME NEW c \in Calls, applied[c] \in OnDisk,
                      NEW v \in OnDisk, NEW k \in DOMAIN Rules[v],
                      NEW i \in 1..(Len(Rules[applied[c]]) + 1)
               PROVE  EvaluateFastPath(
                          Insert(Rules[applied[c]], i,
                                 [Rules[v][k] EXCEPT !.action = "block"]), request[c])
                              \in {FastVerdict(c), "BLOCKED"}
    BY DEF BlockRulesOnlyTighten
  <2> DEFINE rule == [Rules[v][k] EXCEPT !.action = "block"]
  <2>1. Rules[applied[c]] \in Seq(Rule) /\ Rules[v] \in Seq(Rule)
    BY ToolCallAssumption
  <2>2. Rules[v][k] \in Rule
    BY <2>1
  <2>3. rule.action = "block"
    BY <2>2 DEF Rule
  <2>4. FastVerdict(c) = EvaluateFastPath(Rules[applied[c]], request[c])
    BY DEF FastVerdict, RulesOf
  <2> HIDE DEF rule
  <2>5. EvaluateFastPath(Insert(Rules[applied[c]], i, rule), request[c])
            \in {EvaluateFastPath(Rules[applied[c]], request[c]), "BLOCKED"}
    BY <2>1, <2>3, BlockRuleTightens
  <2> QED
    BY <2>4, <2>5 DEF rule
<1> QED
  BY <1>1, TypeInit, TypeStep, PTL DEF Spec
=============================================================================

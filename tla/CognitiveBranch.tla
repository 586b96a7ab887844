--------------------------- MODULE CognitiveBranch --------------------------
(***************************************************************************)
(* The asynchronous decision as the cognitive branch of a tool call:       *)
(* CognitivePath.tla beside the handler it starts in.  ToolCall.tla cuts   *)
(* run_cognitive_evaluation, the two Redis keys and the polling down to    *)
(* five actions; here each step of the detailed path is mapped to the one  *)
(* it stands for (gateway/routes/tool_calls.py,                            *)
(* gateway/cognitive_path/handler.py, sentinel-sdk/client.py).             *)
(*                                                                         *)
(* The path begins where the handler has read the policy twice and is      *)
(* about to store the pending marker, with whatever the two reads found.   *)
(***************************************************************************)
EXTENDS CognitivePath, Sequences

CONSTANTS LowRiskTools, HighRiskTools, PiiKeys, LargeAmounts, Suspicious,
          ForceCognitive,           \* of the classifier
          Tenants, System, Tenant,  \* of the policy store
          Newest, Rules,
          Active,                   \* the keys of the policy store
          Request,                  \* the tool call behind each decision
          Applied,                  \* the version whose rules were applied to it
          Recorded                  \* the version the second read found

\* Where the tool call's handler or its tasks stand.
TaskPhase(t) ==
    CASE t = "cascade" -> "judge"
      [] t \in {"set_result", "clear_pending", "enqueue"} -> "audit"
      [] t \in {"publish", "fallback_set", "fallback_clear", "fallback_publish"}
            -> "publish"
      [] OTHER -> t

Phase(d) ==
    IF req[d] = "new" THEN "got"
    ELSE IF req[d] = "rejected" THEN "done" ELSE TaskPhase(task[d])

ReplyTo(d) ==
    CASE req[d] = "new" -> NoVerdict
      [] req[d] = "accepted" -> "pending"
      [] req[d] = "rejected" -> "500"

\* check_and_raise: the caller goes on only with ALLOWED.
Client(d) ==
    CASE sdk[d] \in {"sleeping", "get_pending", "get_result"} -> "polling"
      [] sdk[d] = "answered" -> IF answer[d] = "ALLOWED" THEN "ran" ELSE "refused"
      [] OTHER -> sdk[d]

Event(d) ==
    IF audited[d] = {} THEN [verdict |-> NoVerdict, version |-> -1]
    ELSE [verdict |-> CHOOSE v \in audited[d] : TRUE, version |-> Recorded[d]]
-----------------------------------------------------------------------------
(* The tool call's parameters and variables that the path does not have.   *)

Calls == Decisions
Requests == [k \in {"sdk", "guard", "guard_closed", "mail"} |->
                {Request[d] : d \in Decisions}]
MaxActivations == 0

active == Active
activations == 0
kind == [d \in Decisions |-> "sdk"]
request == Request
phase == [d \in Decisions |-> Phase(d)]
found == Recorded
applied == Applied
recorded == [d \in Decisions |-> IF req[d] = "new" THEN -1 ELSE Recorded[d]]
due == Applied
disturbed == {d \in Decisions : Recorded[d] # Applied[d]}
reply == [d \in Decisions |-> ReplyTo(d)]
trail == [d \in Decisions |-> Event(d)]
client == [d \in Decisions |-> Client(d)]

\* The answer reached the SDK: it polls, or has polled.
heard == {d \in Decisions : sdk[d] = "sleeping" \/ attempts[d] > 0}

Tool == INSTANCE ToolCall

Fast == INSTANCE FastPath

ASSUME CognitiveBranchAssumption ==
    /\ System \in Tenants
    /\ Tenant \in [Decisions -> Tenants]
    /\ Newest \in Nat
    /\ Rules \in [1..Newest -> Seq(Fast!Rule)]
    /\ Active \in [Tenants -> 0..(Newest + 1)]
    /\ DOMAIN Request = Decisions
    /\ Applied \in [Decisions -> 0..Newest]
    /\ Recorded \in [Decisions -> 0..Newest]

\* The decisions are those the rules and the classifier leave to a judge.
Verdict(d) ==
    Fast!EvaluateFastPath(IF Applied[d] \in 1..Newest THEN Rules[Applied[d]] ELSE <<>>,
                          Request[d])

ASSUME BranchAssumption ==
    \A d \in Decisions :
        /\ Verdict(d) = "ESCALATE" \/ Fast!Cognitive(Request[d])
        /\ Verdict(d) # "BLOCKED"
-----------------------------------------------------------------------------
(* Every step of the detailed path is one the tool call's model has, or    *)
(* one it does not see: the judge rules once, then the call is audited and *)
(* published at most once and in this order, whichever command raises, and *)
(* the agent goes on only by an answer of the gateway or by a poll that    *)
(* tells it the ruling or refuses.                                         *)
KeepsToolCall == [][Tool!Next]_(Tool!vars)
=============================================================================

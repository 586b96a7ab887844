------------------------------ MODULE FastPath ------------------------------
(***************************************************************************)
(* The two pure functions a tool call goes through: classify               *)
(* (gateway/classifier/heuristics.py) and evaluate_fast_path               *)
(* (gateway/fast_path/router.py with denylist.py, allowlist.py and         *)
(* threshold.py).                                                          *)
(*                                                                         *)
(* A tool call is a record of its tool, its arguments (a function on the   *)
(* keys it has) and its task description.  A policy is a sequence of       *)
(* rules in YAML order; a rule is a record of its type, the tools it       *)
(* applies to ({} is all), the argument key it looks at, its action and    *)
(* "values", the set its patterns, its list of approved values or its      *)
(* maximum stand for: what they match, what they approve, what is above.   *)
(***************************************************************************)
EXTENDS Integers, Sequences

CONSTANTS LowRiskTools,    \* LOW_RISK_TOOLS
          HighRiskTools,   \* HIGH_RISK_TOOLS
          PiiKeys,         \* _PII_ARGUMENT_KEYS
          LargeAmounts,    \* amounts above _PAYMENT_COGNITIVE_THRESHOLD
          Suspicious,      \* texts _SUSPICIOUS_PATTERNS find something in
          ForceCognitive   \* settings.force_cognitive_path

Missing == "missing"            \* arguments.get(key) is None, in no rule's values
TaskKey == "__context"          \* "__context.task_description"
AlwaysMatch == "__always_match"

Verdicts == {"ALLOWED", "BLOCKED", "HUMAN_REVIEW"}
-----------------------------------------------------------------------------
(* The classifier: does the call need a judge, whatever the policy says?   *)

Cognitive(call) ==
    LET suspicious == call.task \in Suspicious
        pii        == DOMAIN call.args \cap PiiKeys # {}
        large      == /\ "amount" \in DOMAIN call.args
                      /\ call.args["amount"] \in LargeAmounts
    IN  \/ ForceCognitive
        \/ /\ call.tool \in LowRiskTools => suspicious
           /\ call.tool \in HighRiskTools \/ pii \/ suspicious \/ large
-----------------------------------------------------------------------------
(* The rules.                                                              *)

\* RegexRule, DenylistRule, AllowlistRule and ThresholdRule in one.
Rule == [type : STRING, tools : SUBSET STRING, key : STRING,
         values : SUBSET STRING, action : STRING]

AppliesTo(rule, call) == rule.tools = {} \/ call.tool \in rule.tools

Argument(rule, call) ==
    IF rule.key \in DOMAIN call.args THEN call.args[rule.key] ELSE Missing

\* Denylist and regex rules also reach the task description.
Text(rule, call) == IF rule.key = TaskKey THEN call.task ELSE Argument(rule, call)

\* A regex searches the empty string when the argument is missing.
Searched(rule, call) ==
    IF Text(rule, call) = Missing THEN "" ELSE Text(rule, call)

Matches(rule, call) ==
    \/ rule.type = "denylist" /\ Text(rule, call) \in rule.values
    \/ /\ rule.type = "allowlist"
       /\ rule.key = AlwaysMatch \/ Argument(rule, call) \notin rule.values
    \/ rule.type = "threshold" /\ Argument(rule, call) \in rule.values
    \/ /\ rule.type = "regex"
       /\ Searched(rule, call) \in rule.values
       /\ rule.action \in {"block", "human_review", "cognitive_check"}

\* The positions of the rules of one type that fire.
Firing(rules, type, call) ==
    {i \in DOMAIN rules : /\ rules[i].type = type
                          /\ AppliesTo(rules[i], call)
                          /\ Matches(rules[i], call)}

First(positions) == CHOOSE i \in positions : \A j \in positions : i <= j

\* Mutant: the verdict of the rule is taken for the other one.
SoftBlock(action) == IF action = "block" THEN "HUMAN_REVIEW" ELSE "BLOCKED"

\* Allowlist and threshold rules refuse whatever their action is.
Refusal(action) == IF action = "block" THEN "BLOCKED" ELSE "HUMAN_REVIEW"

RegexVerdict(action) ==
    IF action = "cognitive_check" THEN "ESCALATE" ELSE Refusal(action)

\* Denylist rules block whatever their action is; "ESCALATE" stands for a
\* result without a verdict that needs the cognitive path.
EvaluateFastPath(rules, call) ==
    LET allow == Firing(rules, "allowlist", call)
        above == Firing(rules, "threshold", call)
        regex == Firing(rules, "regex", call)
    IN  IF Firing(rules, "denylist", call) # {} THEN "BLOCKED"
        ELSE IF allow # {} THEN Refusal(rules[First(allow)].action)
        ELSE IF above # {} THEN Refusal(rules[First(above)].action)
        ELSE IF regex # {} THEN RegexVerdict(rules[First(regex)].action)
        ELSE "ALLOWED"
=============================================================================

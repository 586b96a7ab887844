----------------------------- MODULE JudgeTiers -----------------------------
(***************************************************************************)
(* What a judge tier makes of the answers of its model: judge/tier1.py,    *)
(* judge/tier3.py and the records of judge/models.py.  A confidence is     *)
(* abstracted to whether it reaches the tier's min_confidence.             *)
(***************************************************************************)

ThreatLevel == {"safe", "suspicious", "malicious"}
FaithfulnessVerdict == {"faithful", "unfaithful", "uncertain"}

IntentCheckResult == [threat : ThreatLevel, sure : BOOLEAN]

\* No faithfulness check without source documents.
NotChecked == [verdict |-> "not_checked", sure |-> TRUE]

FaithfulnessResult ==
    [verdict : FaithfulnessVerdict, sure : BOOLEAN] \cup {NotChecked}

JudgeVerdict == {"ALLOWED", "BLOCKED", "HUMAN_REVIEW"}

JudgeResult == [verdict : JudgeVerdict, sure : BOOLEAN]

Result(verdict, sure) == [verdict |-> verdict, sure |-> sure]

\* Mutant: an answer without findings is accepted whatever its confidence.
AcceptUnsure(intent, faith) ==
    CASE intent.threat = "malicious" -> Result("BLOCKED", intent.sure)
      [] intent.threat # "malicious" /\ faith.verdict = "unfaithful" ->
            Result("BLOCKED", faith.sure)
      [] intent.threat = "suspicious" /\ faith.verdict # "unfaithful" ->
            Result("HUMAN_REVIEW", intent.sure)
      [] OTHER -> Result("ALLOWED", intent.sure /\ faith.sure)

\* _verdict_from_results: the first finding decides and lends the result its
\* confidence, so a finding may be as unsure as the check that made it.
VerdictFromResults(intent, faith) ==
    CASE intent.threat = "malicious" -> Result("BLOCKED", intent.sure)
      [] intent.threat # "malicious" /\ faith.verdict = "unfaithful" ->
            Result("BLOCKED", faith.sure)
      [] intent.threat = "suspicious" /\ faith.verdict # "unfaithful" ->
            Result("HUMAN_REVIEW", intent.sure)
      [] intent.threat = "safe" /\ faith.verdict = "uncertain" ->
            Result("HUMAN_REVIEW", faith.sure)
      [] OTHER -> LET sure == intent.sure /\ faith.sure
                  IN  Result(IF sure THEN "ALLOWED" ELSE "HUMAN_REVIEW", sure)

\* What run_tier1 may return: its two calls answer anything their schema allows.
Tier1Results ==
    {VerdictFromResults(i, f) : i \in IntentCheckResult, f \in FaithfulnessResult}

\* run_tier3 raises the confidence of a very unsure review to 0.5, which is
\* below its min_confidence still, and is never escalated.
Tier3Results == Tier1Results

\* run_cascade's own result when no tier ruled.
NobodyRuled == Result("HUMAN_REVIEW", FALSE)

\* No answer, or no result yet.
NoResult == [verdict |-> "none", sure |-> FALSE]
=============================================================================

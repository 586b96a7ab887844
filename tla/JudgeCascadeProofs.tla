------------------------- MODULE JudgeCascadeProofs -------------------------
(***************************************************************************)
(* The safety of the judge cascade and its circuit breaker, for every set  *)
(* of runs, every fail_max and every reset timeout.                        *)
(***************************************************************************)
EXTENDS JudgeCascade, FiniteSetTheorems, TLAPS

USE DEF stateVars, counterVars, redisVars, Probing, Recording, Phases, Goto,
        WriteState, Enter2ndRecord, LeaveProbing, Recorded
-----------------------------------------------------------------------------
(* The tiers.                                                              *)

\* The result of a tier is an accepted or an unsure one, and ALLOWED only
\* when it is sure.
LEMMA VerdictFacts ==
    ASSUME NEW i \in IntentCheckResult, NEW f \in FaithfulnessResult
    PROVE  /\ VerdictFromResults(i, f) \in JudgeResult
           /\ VerdictFromResults(i, f).verdict = "ALLOWED" =>
                 VerdictFromResults(i, f).sure
<1> USE DEF JudgeResult, JudgeVerdict, Result, VerdictFromResults
<1>1. i.threat \in ThreatLevel /\ i.sure \in BOOLEAN /\ f.sure \in BOOLEAN
      /\ f.verdict \in FaithfulnessVerdict \cup {"not_checked"}
  <2>1. i.threat \in ThreatLevel /\ i.sure \in BOOLEAN
    BY DEF IntentCheckResult
  <2>2. CASE f \in [verdict : FaithfulnessVerdict, sure : BOOLEAN]
    BY <2>1, <2>2
  <2>3. CASE f = NotChecked
    BY <2>1, <2>3 DEF NotChecked
  <2> QED
    BY <2>2, <2>3 DEF FaithfulnessResult
<1>2. CASE i.threat = "malicious"
  BY <1>1, <1>2
<1>3. CASE i.threat # "malicious" /\ f.verdict = "unfaithful"
  BY <1>1, <1>3
<1>4. CASE i.threat = "suspicious" /\ f.verdict # "unfaithful"
  BY <1>1, <1>4
<1>5. CASE i.threat = "safe" /\ f.verdict = "uncertain"
  BY <1>1, <1>5
<1>6. CASE i.threat = "safe" /\ f.verdict \in {"faithful", "not_checked"}
  BY <1>1, <1>6
<1> QED
  BY <1>1, <1>2, <1>3, <1>4, <1>5, <1>6 DEF ThreatLevel, FaithfulnessVerdict

LEMMA TierFacts ==
    /\ Tier1Results \subseteq JudgeResult
    /\ \A o \in Tier1Results : o.verdict = "ALLOWED" => o.sure
BY VerdictFacts DEF Tier1Results
-----------------------------------------------------------------------------
(* Type correctness.                                                       *)

LEMMA UpToType ==
    ASSUME NEW n \in Nat, NEW max \in Nat
    PROVE  UpTo(n, max) \in 0..max /\ UpTo(n, max) <= n
BY DEF UpTo

CounterOK ==
    /\ failures \in 0..FailMax
    /\ expiry \in 0..(2 * ResetTimeout)
    /\ counted \in SUBSET Runs
    /\ allowance \in 0..FailMax

LEMMA CounterType ==
    ASSUME TypeOK,
           \/ DeleteCounter \/ ArmExpiry \/ UNCHANGED counterVars
           \/ IncrementExtra \/ \E r \in Runs : IncrementCounter(r)
    PROVE  CounterOK'
<1>0. /\ failures + 1 \in Nat /\ allowance + 1 \in Nat /\ allowance + 2 \in Nat
      /\ FailMax \in Nat
  BY JudgeCascadeAssumption DEF TypeOK
<1>1. CASE DeleteCounter
  BY <1>1, JudgeCascadeAssumption DEF DeleteCounter, CounterOK
<1>2. CASE ArmExpiry
  BY <1>2, JudgeCascadeAssumption DEF ArmExpiry, TypeOK, CounterOK
<1>3. CASE UNCHANGED counterVars
  BY <1>3 DEF TypeOK, CounterOK
<1>4. CASE \E r \in Runs : IncrementCounter(r)
  <2>1. PICK r \in Runs : IncrementCounter(r)
    BY <1>4
  <2>2. UpTo(failures + 1, FailMax) \in 0..FailMax
        /\ UpTo(allowance + 2, FailMax) \in 0..FailMax
    BY <1>0, UpToType
  <2> QED
    BY <2>1, <2>2 DEF IncrementCounter, TypeOK, CounterOK
<1>5. CASE IncrementExtra
  <2>1. UpTo(failures + 1, FailMax) \in 0..FailMax
        /\ UpTo(allowance + 1, FailMax) \in 0..FailMax
    BY <1>0, UpToType
  <2> QED
    BY <1>5, <2>1 DEF IncrementExtra, TypeOK, CounterOK
<1> QED
  BY <1>1, <1>2, <1>3, <1>4, <1>5

LEMMA TypeInit == Init => TypeOK
<1> SUFFICES ASSUME Init PROVE TypeOK
  OBVIOUS
<1>1. 0 \in 0..FailMax /\ 0 \in 0..ResetTimeout /\ 0 \in 0..(2 * ResetTimeout)
  BY JudgeCascadeAssumption
<1>2. healthy \in BOOLEAN
  BY DEF Init
<1> QED
  BY <1>1, <1>2 DEF Init, TypeOK

LEMMA TypeStep == TypeOK /\ [Next]_vars => TypeOK'
<1> SUFFICES ASSUME TypeOK, [Next]_vars PROVE TypeOK'
  OBVIOUS
<1> USE JudgeCascadeAssumption, CounterType DEF TypeOK, CounterOK
<1>1. ASSUME NEW r \in Runs, Begin(r) PROVE TypeOK'
  BY <1>1 DEF Begin
<1>2. ASSUME NEW r \in Runs, GetState(r) PROVE TypeOK'
  BY <1>2 DEF GetState
<1>3. ASSUME NEW r \in Runs, SetHalfOpen(r) PROVE TypeOK'
  BY <1>3 DEF SetHalfOpen
<1>4. ASSUME NEW r \in Runs, GetStateRaises(r) PROVE TypeOK'
  BY <1>4 DEF GetStateRaises
<1>5. ASSUME NEW r \in Runs, SetHalfOpenRaises(r) PROVE TypeOK'
  BY <1>5 DEF SetHalfOpenRaises
<1>6. ASSUME NEW r \in Runs, Tier1Answers(r) PROVE TypeOK'
  <2>1. \A a \in Answers : a \in JudgeResult
    BY TierFacts
  <2> QED
    BY <1>6, <2>1 DEF Tier1Answers
<1>7. ASSUME NEW r \in Runs, Tier1Fails(r) PROVE TypeOK'
  BY <1>7 DEF Tier1Fails
<1>8. ASSUME NEW r \in Runs, SuccessDelete(r) PROVE TypeOK'
  BY <1>8 DEF SuccessDelete
<1>9. ASSUME NEW r \in Runs, SuccessSet(r) PROVE TypeOK'
  BY <1>9 DEF SuccessSet
<1>10. ASSUME NEW r \in Runs, SuccessRaises(r) PROVE TypeOK'
  BY <1>10 DEF SuccessRaises
<1>11. ASSUME NEW r \in Runs, Increment(r) PROVE TypeOK'
  BY <1>11 DEF Increment
<1>12. ASSUME NEW r \in Runs, SetExpiry(r) PROVE TypeOK'
  BY <1>12 DEF SetExpiry
<1>13. ASSUME NEW r \in Runs, Trip(r) PROVE TypeOK'
  BY <1>13 DEF Trip, WriteOpen
<1>14. ASSUME NEW r \in Runs, RecordRaises(r) PROVE TypeOK'
  BY <1>14 DEF RecordRaises, WriteOpen
<1>15. ASSUME NEW r \in Runs, Return(r) PROVE TypeOK'
  BY <1>15 DEF Return
<1>16. ASSUME NEW r \in Runs, Crash(r) PROVE TypeOK'
  BY <1>16 DEF Crash
<1>17. CASE Tick
  BY <1>17 DEF Tick, UpTo
<1>18. CASE OperatorReset
  BY <1>18 DEF OperatorReset
<1>19. CASE Recover
  BY <1>19 DEF Recover
<1>20. CASE UNCHANGED vars
  BY <1>20 DEF vars
<1>21. ASSUME NEW r \in Runs, Resend(r) PROVE TypeOK'
  BY <1>21 DEF Resend, WriteOpen
<1> QED
  BY <1>1, <1>2, <1>3, <1>4, <1>5, <1>6, <1>7, <1>8, <1>9, <1>10, <1>11, <1>12,
     <1>13, <1>14, <1>15, <1>16, <1>17, <1>18, <1>19, <1>20, <1>21
     DEF Next, RunStep

(* Every variable keeps its type.                                          *)
THEOREM TypeCorrect == Spec => []TypeOK
BY TypeInit, TypeStep, PTL DEF Spec
-----------------------------------------------------------------------------
(* Cool-down and ALLOWED: inductive as they stand, with the types.         *)

\* The tier-1 result a run holds is never ALLOWED and unsure.
SureInv == \A r \in Runs : tier1[r].verdict = "ALLOWED" => tier1[r].sure

Calm == NoProbeDuringCoolDown /\ SureInv

LEMMA CoolDownStep ==
    ASSUME TypeOK, Calm, [Next]_vars
    PROVE  Calm'
<1> USE JudgeCascadeAssumption DEF TypeOK, Calm, NoProbeDuringCoolDown, SureInv
<1>1. ASSUME NEW r \in Runs, Begin(r) PROVE Calm'
  BY <1>1 DEF Begin
<1>2. ASSUME NEW r \in Runs, GetState(r) PROVE Calm'
  BY <1>2 DEF GetState
<1>3. ASSUME NEW r \in Runs, SetHalfOpen(r) PROVE Calm'
  BY <1>3 DEF SetHalfOpen
<1>4. ASSUME NEW r \in Runs, GetStateRaises(r) PROVE Calm'
  BY <1>4 DEF GetStateRaises
<1>5. ASSUME NEW r \in Runs, SetHalfOpenRaises(r) PROVE Calm'
  BY <1>5 DEF SetHalfOpenRaises
<1>6. ASSUME NEW r \in Runs, Tier1Answers(r) PROVE Calm'
  <2>1. \A a \in Answers : a.verdict = "ALLOWED" => a.sure
    BY TierFacts
  <2> QED
    BY <1>6, <2>1 DEF Tier1Answers
<1>7. ASSUME NEW r \in Runs, Tier1Fails(r) PROVE Calm'
  BY <1>7 DEF Tier1Fails
<1>8. ASSUME NEW r \in Runs, SuccessDelete(r) PROVE Calm'
  BY <1>8 DEF SuccessDelete
<1>9. ASSUME NEW r \in Runs, SuccessSet(r) PROVE Calm'
  BY <1>9 DEF SuccessSet
<1>10. ASSUME NEW r \in Runs, SuccessRaises(r) PROVE Calm'
  BY <1>10 DEF SuccessRaises
<1>11. ASSUME NEW r \in Runs, Increment(r) PROVE Calm'
  BY <1>11 DEF Increment
<1>12. ASSUME NEW r \in Runs, SetExpiry(r) PROVE Calm'
  BY <1>12 DEF SetExpiry
<1>13. ASSUME NEW r \in Runs, Trip(r) PROVE Calm'
  BY <1>13 DEF Trip, WriteOpen
<1>14. ASSUME NEW r \in Runs, RecordRaises(r) PROVE Calm'
  <2>1. NoProbeDuringCoolDown'
    BY <1>14 DEF RecordRaises, WriteOpen
  <2>2. SureInv'
    BY <1>14 DEF RecordRaises, NoResult
  <2> QED
    BY <2>1, <2>2
<1>15. ASSUME NEW r \in Runs, Return(r) PROVE Calm'
  BY <1>15 DEF Return, NoResult
<1>16. ASSUME NEW r \in Runs, Crash(r) PROVE Calm'
  BY <1>16 DEF Crash, NoResult
<1>17. CASE Tick
  BY <1>17 DEF Tick, UpTo
<1>18. CASE OperatorReset
  BY <1>18 DEF OperatorReset
<1>19. CASE Recover
  BY <1>19 DEF Recover
<1>20. CASE UNCHANGED vars
  BY <1>20 DEF vars
<1>21. ASSUME NEW r \in Runs, Resend(r) PROVE Calm'
  BY <1>21 DEF Resend, WriteOpen
<1> QED
  BY <1>1, <1>2, <1>3, <1>4, <1>5, <1>6, <1>7, <1>8, <1>9, <1>10, <1>11, <1>12,
     <1>13, <1>14, <1>15, <1>16, <1>17, <1>18, <1>19, <1>20, <1>21
     DEF Next, RunStep

LEMMA CoolDownHolds == Spec => [](TypeOK /\ Calm)
<1>1. Init => Calm
  BY DEF Init, Calm, NoProbeDuringCoolDown, SureInv, NoResult
<1> QED
  BY <1>1, CoolDownStep, TypeInit, TypeStep, PTL DEF Spec

(* While the breaker cools down nobody who looked at it since it tripped   *)
(* is calling Tier 1 or about to change the state.                         *)
THEOREM CoolDown == Spec => []NoProbeDuringCoolDown
<1>1. Calm => NoProbeDuringCoolDown
  BY DEF Calm
<1> QED
  BY <1>1, CoolDownHolds, PTL

(* Whatever fails on the way, run_cascade returns ALLOWED only for checks  *)
(* that reached the confidence their tier asks for.                        *)
THEOREM AllowedOnlyIfSure == Spec => []AllowedIsSure
<1>1. TypeOK /\ Calm => AllowedIsSure
  <2> SUFFICES ASSUME SureInv, NEW r \in Runs, NEW o \in Outcomes(r),
                      o.verdict = "ALLOWED"
               PROVE  o.sure
    BY DEF AllowedIsSure, Calm
  <2>1. CASE tier1[r].sure
    BY <2>1 DEF Outcomes
  <2>2. CASE ~tier1[r].sure /\ r \in Keyed
    BY <2>2, TierFacts DEF Outcomes, Tier3Results, NobodyRuled, Result
  <2>3. CASE ~tier1[r].sure /\ r \notin Keyed
    BY <2>3 DEF Outcomes, SureInv, NobodyRuled, Result
  <2> QED
    BY <2>1, <2>2, <2>3
<1> QED
  BY <1>1, CoolDownHolds, PTL
-----------------------------------------------------------------------------
(* Two records per run.  The inductive invariant counts the records that   *)
(* are still owed: a run whose first record is in the counter has at most  *)
(* one more to make.                                                       *)

Owes(r) ==
    \/ phase[r] = "incr" /\ record[r] = 2
    \/ phase[r] \in {"expire", "trip"} /\ record[r] = 1

Owing == {r \in counted : Owes(r)}

\* Before its first record a run is not counted, and is at record 1 or came
\* to record 2 without making record 1.
BeforeRecord(r) ==
    /\ phase[r] \notin Recording => record[r] = 1
    /\ phase[r] \in {"get_state"} \cup Probing => r \notin counted
    /\ phase[r] = "incr" /\ record[r] = 1 => r \notin counted

Bound == failures + Cardinality(Owing) <= allowance \/ allowance = FailMax

RecordInv ==
    /\ IsFiniteSet(counted)
    /\ \A r \in Runs : BeforeRecord(r)
    /\ Bound

LEMMA OwingFinite ==
    ASSUME IsFiniteSet(counted)
    PROVE  IsFiniteSet(Owing) /\ Cardinality(Owing) \in Nat
BY FS_Subset, FS_CardinalityType DEF Owing

\* The counter stays and no run comes to owe a record.
LEMMA OwingShrinks ==
    ASSUME TypeOK, RecordInv, UNCHANGED <<failures, allowance>>, counted' \subseteq counted,
           \A r \in counted' : Owes(r)' => Owes(r)
    PROVE  IsFiniteSet(counted)' /\ Bound'
<1>1. IsFiniteSet(counted')
  BY FS_Subset DEF RecordInv
<1>2. Owing' \subseteq Owing
  BY DEF Owing
<1>3. Cardinality(Owing') <= Cardinality(Owing) /\ Cardinality(Owing) \in Nat
      /\ Cardinality(Owing') \in Nat
  BY <1>2, OwingFinite, FS_Subset, FS_CardinalityType DEF RecordInv
<1>4. failures \in Nat /\ allowance \in Nat /\ failures' = failures /\ allowance' = allowance
  BY JudgeCascadeAssumption DEF TypeOK
<1>5. (failures + Cardinality(Owing))' <= allowance \/ allowance = FailMax
  BY <1>3, <1>4 DEF RecordInv, Bound
<1> QED
  BY <1>1, <1>4, <1>5 DEF Bound

\* DEL of the counter.
LEMMA OwingCleared ==
    ASSUME DeleteCounter
    PROVE  IsFiniteSet(counted)' /\ Bound'
<1>1. failures' = 0 /\ allowance' = 0 /\ counted' = {} /\ Owing' = {}
  BY DEF DeleteCounter, Owing
<1> QED
  BY <1>1, FS_EmptySet DEF Bound

\* INCR by a run: it owed the record, or it accounts for two.
LEMMA OwingIncremented ==
    ASSUME TypeOK, RecordInv, NEW r \in Runs, IncrementCounter(r),
           phase[r] = "incr", r \in counted => ~Owes(r)',
           \A s \in counted \ {r} : Owes(s)' => Owes(s)
    PROVE  IsFiniteSet(counted)' /\ Bound'
<1>1. IsFiniteSet(counted')
  BY FS_AddElement DEF RecordInv, IncrementCounter
<1>2. /\ Cardinality(Owing) \in Nat /\ Cardinality(Owing') \in Nat
      /\ IsFiniteSet(Owing) /\ IsFiniteSet(Owing')
  <2>1. Owing' \subseteq counted'
    BY DEF Owing
  <2> QED
    BY <1>1, <2>1, OwingFinite, FS_Subset, FS_CardinalityType DEF RecordInv
<1>3. /\ failures \in Nat /\ failures' \in Nat /\ allowance \in Nat
      /\ allowance' \in Nat /\ failures' <= failures + 1 /\ FailMax \in Nat
  BY JudgeCascadeAssumption DEF TypeOK, IncrementCounter, UpTo
<1>4. CASE r \in counted
  <2>1. record[r] = 2 /\ r \in Owing
    BY <1>4 DEF RecordInv, BeforeRecord, Owing, Owes, TypeOK
  <2>2. Owing' \subseteq Owing \ {r}
    BY <1>4 DEF Owing, IncrementCounter
  <2>3. Cardinality(Owing \ {r}) = Cardinality(Owing) - 1 /\ IsFiniteSet(Owing \ {r})
    BY <1>2, <2>1, FS_RemoveElement
  <2>4. Cardinality(Owing') <= Cardinality(Owing) - 1
    BY <2>2, <2>3, FS_Subset
  <2>5. allowance' = allowance
    BY <1>4 DEF IncrementCounter
  <2>6. failures' + Cardinality(Owing') <= allowance \/ allowance = FailMax
    BY <1>2, <1>3, <2>4 DEF RecordInv, Bound
  <2> QED
    BY <1>1, <2>5, <2>6 DEF Bound
<1>5. CASE r \notin counted
  <2>1. Owing' \subseteq Owing \cup {r}
    BY <1>5 DEF Owing, IncrementCounter
  <2>2. Cardinality(Owing \cup {r}) <= Cardinality(Owing) + 1
        /\ IsFiniteSet(Owing \cup {r})
    <3>1. r \notin Owing
      BY <1>5 DEF Owing
    <3>2. /\ IsFiniteSet(Owing \cup {r})
          /\ Cardinality(Owing \cup {r}) = Cardinality(Owing) + 1
      BY <1>2, <3>1, FS_AddElement
    <3> QED
      BY <1>2, <3>2
  <2>3. Cardinality(Owing') <= Cardinality(Owing \cup {r})
        /\ Cardinality(Owing \cup {r}) \in Nat
    BY <2>1, <2>2, FS_Subset, FS_CardinalityType
  <2>4. allowance' = FailMax \/ (allowance' = allowance + 2 /\ allowance # FailMax)
    BY <1>3, <1>5 DEF IncrementCounter, UpTo, TypeOK
  <2>5. allowance # FailMax => failures + Cardinality(Owing) <= allowance
    BY DEF RecordInv, Bound
  <2>6. failures' + Cardinality(Owing') <= allowance' \/ allowance' = FailMax
    BY <1>2, <1>3, <2>2, <2>3, <2>4, <2>5
  <2> QED
    BY <1>1, <2>6 DEF Bound
<1> QED
  BY <1>4, <1>5

\* A re-sent INCR accounts for itself, and no run comes to owe more.
LEMMA OwingExtra ==
    ASSUME TypeOK, RecordInv, IncrementExtra, UNCHANGED <<phase, record>>
    PROVE  IsFiniteSet(counted)' /\ Bound'
<1>1. counted' = counted /\ Owing' = Owing
  BY DEF IncrementExtra, Owing, Owes
<1>2. Cardinality(Owing) \in Nat
  BY OwingFinite DEF RecordInv
<1>3. /\ failures \in Nat /\ failures' \in Nat /\ allowance \in Nat
      /\ allowance <= FailMax /\ FailMax \in Nat /\ failures' <= failures + 1
  BY JudgeCascadeAssumption DEF TypeOK, IncrementExtra, UpTo
<1>4. allowance' = FailMax \/ (allowance' = allowance + 1 /\ allowance # FailMax)
  BY <1>3 DEF IncrementExtra, UpTo
<1>5. allowance # FailMax => failures + Cardinality(Owing) <= allowance
  BY DEF RecordInv, Bound
<1>6. failures' + Cardinality(Owing) <= allowance' \/ allowance' = FailMax
  BY <1>2, <1>3, <1>4, <1>5
<1> QED
  BY <1>1, <1>6 DEF RecordInv, Bound

LEMMA RecordStep ==
    ASSUME TypeOK, RecordInv, [Next]_vars PROVE RecordInv'
<1> USE DEF TypeOK, RecordInv, BeforeRecord
<1>1. ASSUME NEW r \in Runs, Begin(r) PROVE RecordInv'
  <2>1. \A s \in Runs : BeforeRecord(s)'
    BY <1>1 DEF Begin
  <2>2. IsFiniteSet(counted)' /\ Bound'
    BY <1>1, OwingShrinks DEF Begin, Owes
  <2> QED
    BY <2>1, <2>2
<1>2. ASSUME NEW r \in Runs, GetState(r) PROVE RecordInv'
  <2>1. \A s \in Runs : BeforeRecord(s)'
    BY <1>2 DEF GetState
  <2>2. IsFiniteSet(counted)' /\ Bound'
    BY <1>2, OwingShrinks DEF GetState, Owes
  <2> QED
    BY <2>1, <2>2
<1>3. ASSUME NEW r \in Runs, SetHalfOpen(r) PROVE RecordInv'
  <2>1. \A s \in Runs : BeforeRecord(s)'
    BY <1>3 DEF SetHalfOpen
  <2>2. IsFiniteSet(counted)' /\ Bound'
    BY <1>3, OwingShrinks DEF SetHalfOpen, Owes
  <2> QED
    BY <2>1, <2>2
<1>4. ASSUME NEW r \in Runs, GetStateRaises(r) PROVE RecordInv'
  <2>1. \A s \in Runs : BeforeRecord(s)'
    BY <1>4 DEF GetStateRaises
  <2>2. IsFiniteSet(counted)' /\ Bound'
    BY <1>4, OwingShrinks DEF GetStateRaises, Owes
  <2> QED
    BY <2>1, <2>2
<1>5. ASSUME NEW r \in Runs, SetHalfOpenRaises(r) PROVE RecordInv'
  <2>1. \A s \in Runs : BeforeRecord(s)'
    BY <1>5 DEF SetHalfOpenRaises
  <2>2. IsFiniteSet(counted)' /\ Bound'
    BY <1>5, OwingShrinks DEF SetHalfOpenRaises, Owes
  <2> QED
    BY <2>1, <2>2
<1>6. ASSUME NEW r \in Runs, Tier1Answers(r) PROVE RecordInv'
  <2>1. \A s \in Runs : BeforeRecord(s)'
    BY <1>6 DEF Tier1Answers
  <2>2. IsFiniteSet(counted)' /\ Bound'
    BY <1>6, OwingShrinks DEF Tier1Answers, Owes
  <2> QED
    BY <2>1, <2>2
<1>7. ASSUME NEW r \in Runs, Tier1Fails(r) PROVE RecordInv'
  <2>1. \A s \in Runs : BeforeRecord(s)'
    BY <1>7 DEF Tier1Fails
  <2>2. IsFiniteSet(counted)' /\ Bound'
    BY <1>7, OwingShrinks DEF Tier1Fails, Owes
  <2> QED
    BY <2>1, <2>2
<1>8. ASSUME NEW r \in Runs, SuccessDelete(r) PROVE RecordInv'
  <2>1. \A s \in Runs : BeforeRecord(s)'
    BY <1>8 DEF SuccessDelete, DeleteCounter
  <2>2. IsFiniteSet(counted)' /\ Bound'
    BY <1>8, OwingCleared DEF SuccessDelete, DeleteCounter, Owes
  <2> QED
    BY <2>1, <2>2
<1>9. ASSUME NEW r \in Runs, SuccessSet(r) PROVE RecordInv'
  <2>1. \A s \in Runs : BeforeRecord(s)'
    BY <1>9 DEF SuccessSet
  <2>2. IsFiniteSet(counted)' /\ Bound'
    BY <1>9, OwingShrinks DEF SuccessSet, Owes
  <2> QED
    BY <2>1, <2>2
<1>10. ASSUME NEW r \in Runs, SuccessRaises(r) PROVE RecordInv'
  <2>1. \A s \in Runs : BeforeRecord(s)'
    BY <1>10 DEF SuccessRaises, DeleteCounter
  <2>2. IsFiniteSet(counted)' /\ Bound'
    BY <1>10, OwingShrinks, OwingCleared DEF SuccessRaises, DeleteCounter, Owes
  <2> QED
    BY <2>1, <2>2
<1>11. ASSUME NEW r \in Runs, Increment(r) PROVE RecordInv'
  <2>1. \A s \in Runs : BeforeRecord(s)'
    BY <1>11 DEF Increment, IncrementCounter
  <2>2. IsFiniteSet(counted)' /\ Bound'
    BY <1>11, OwingIncremented DEF Increment, IncrementCounter, Owes
  <2> QED
    BY <2>1, <2>2
<1>12. ASSUME NEW r \in Runs, SetExpiry(r) PROVE RecordInv'
  <2>1. \A s \in Runs : BeforeRecord(s)'
    BY <1>12 DEF SetExpiry, ArmExpiry
  <2>2. IsFiniteSet(counted)' /\ Bound'
    BY <1>12, OwingShrinks DEF SetExpiry, ArmExpiry, Owes
  <2> QED
    BY <2>1, <2>2
<1>13. ASSUME NEW r \in Runs, Trip(r) PROVE RecordInv'
  <2>1. \A s \in Runs : BeforeRecord(s)'
    BY <1>13 DEF Trip, WriteOpen
  <2>2. IsFiniteSet(counted)' /\ Bound'
    BY <1>13, OwingShrinks DEF Trip, WriteOpen, Owes
  <2> QED
    BY <2>1, <2>2
<1>14. ASSUME NEW r \in Runs, RecordRaises(r) PROVE RecordInv'
  <2>1. phase[r] \in Recording /\ (record[r] = 1 => phase'[r] = "incr" /\ record'[r] = 2)
        /\ (record[r] = 2 => phase'[r] = "idle" /\ record'[r] = 1)
        /\ \A s \in Runs \ {r} : phase'[s] = phase[s] /\ record'[s] = record[s]
    BY <1>14 DEF RecordRaises
  <2>2. CASE phase[r] = "incr" /\ IncrementCounter(r)
    <3>1. \A s \in Runs : BeforeRecord(s)'
      BY <2>1, <2>2 DEF IncrementCounter
    <3>2. IsFiniteSet(counted)' /\ Bound'
      BY <2>1, <2>2, OwingIncremented DEF Owes
    <3> QED
      BY <3>1, <3>2
  <2>3. CASE UNCHANGED <<failures, allowance, counted>>
    <3>1. \A s \in Runs : BeforeRecord(s)'
      BY <2>1, <2>3
    <3>2. IsFiniteSet(counted)' /\ Bound'
      BY <2>1, <2>3, OwingShrinks DEF Owes
    <3> QED
      BY <3>1, <3>2
  <2> QED
    BY <1>14, <2>2, <2>3 DEF RecordRaises, ArmExpiry
<1>15. ASSUME NEW r \in Runs, Return(r) PROVE RecordInv'
  <2>1. \A s \in Runs : BeforeRecord(s)'
    BY <1>15 DEF Return
  <2>2. IsFiniteSet(counted)' /\ Bound'
    BY <1>15, OwingShrinks DEF Return, Owes
  <2> QED
    BY <2>1, <2>2
<1>16. ASSUME NEW r \in Runs, Crash(r) PROVE RecordInv'
  <2>1. \A s \in Runs : BeforeRecord(s)'
    BY <1>16 DEF Crash
  <2>2. IsFiniteSet(counted)' /\ Bound'
    BY <1>16, OwingShrinks DEF Crash, Owes
  <2> QED
    BY <2>1, <2>2
<1>17. CASE Tick
  <2>1. \A s \in Runs : BeforeRecord(s)'
    BY <1>17 DEF Tick, DeleteCounter
  <2>2. IsFiniteSet(counted)' /\ Bound'
    BY <1>17, OwingShrinks, OwingCleared DEF Tick, DeleteCounter, Owes
  <2> QED
    BY <2>1, <2>2
<1>18. CASE OperatorReset
  <2>1. \A s \in Runs : BeforeRecord(s)'
    BY <1>18 DEF OperatorReset, DeleteCounter
  <2>2. IsFiniteSet(counted)' /\ Bound'
    BY <1>18, OwingCleared DEF OperatorReset, DeleteCounter, Owes
  <2> QED
    BY <2>1, <2>2
<1>19. CASE Recover
  <2>1. \A s \in Runs : BeforeRecord(s)'
    BY <1>19 DEF Recover
  <2>2. IsFiniteSet(counted)' /\ Bound'
    BY <1>19, OwingShrinks DEF Recover, Owes
  <2> QED
    BY <2>1, <2>2
<1>20. CASE UNCHANGED vars
  <2>1. \A s \in Runs : BeforeRecord(s)'
    BY <1>20 DEF vars
  <2>2. IsFiniteSet(counted)' /\ Bound'
    BY <1>20, OwingShrinks DEF vars, Owes
  <2> QED
    BY <2>1, <2>2
<1>21. ASSUME NEW r \in Runs, Resend(r) PROVE RecordInv'
  <2>1. UNCHANGED <<phase, record>>
    BY <1>21 DEF Resend
  <2>2. CASE DeleteCounter
    <3>1. \A s \in Runs : BeforeRecord(s)'
      BY <2>1, <2>2 DEF DeleteCounter
    <3> QED
      BY <2>2, <3>1, OwingCleared
  <2>3. CASE IncrementExtra
    <3>1. \A s \in Runs : BeforeRecord(s)'
      BY <2>1, <2>3 DEF IncrementExtra
    <3> QED
      BY <2>1, <2>3, <3>1, OwingExtra
  <2>4. CASE UNCHANGED <<failures, allowance, counted>>
    <3>1. \A s \in Runs : BeforeRecord(s)'
      BY <2>1, <2>4
    <3>2. IsFiniteSet(counted)' /\ Bound'
      BY <2>1, <2>4, OwingShrinks DEF Owes
    <3> QED
      BY <3>1, <3>2
  <2> QED
    BY <1>21, <2>2, <2>3, <2>4 DEF Resend, ArmExpiry
<1> QED
  BY <1>1, <1>2, <1>3, <1>4, <1>5, <1>6, <1>7, <1>8, <1>9, <1>10, <1>11, <1>12,
     <1>13, <1>14, <1>15, <1>16, <1>17, <1>18, <1>19, <1>20, <1>21
     DEF Next, RunStep

LEMMA RecordHolds == Spec => [](TypeOK /\ RecordInv)
<1>1. Init => RecordInv
  <2> SUFFICES ASSUME Init PROVE RecordInv
    OBVIOUS
  <2>1. counted = {} /\ Owing = {} /\ failures = 0 /\ allowance = 0
    BY DEF Init, Owing
  <2>2. \A r \in Runs : BeforeRecord(r)
    BY DEF Init, BeforeRecord
  <2> QED
    BY <2>1, <2>2, FS_EmptySet DEF RecordInv, Bound
<1> QED
  BY <1>1, RecordStep, TypeInit, TypeStep, PTL DEF Spec

(* The failure counter never holds more than two records for each failed   *)
(* run and one for each re-sent INCR, whatever record_failure raises and   *)
(* whoever clears the counter.                                             *)
THEOREM AtMostTwoRecords == Spec => []TwoRecordsPerRun
<1>1. TypeOK /\ RecordInv => TwoRecordsPerRun
  <2> SUFFICES ASSUME TypeOK, RecordInv PROVE failures <= allowance
    BY DEF TwoRecordsPerRun
  <2>1. Cardinality(Owing) \in Nat
    BY OwingFinite DEF RecordInv
  <2>2. failures \in Nat /\ allowance \in Nat /\ FailMax \in Nat /\ failures <= FailMax
    BY JudgeCascadeAssumption DEF TypeOK
  <2> QED
    BY <2>1, <2>2 DEF RecordInv, Bound
<1> QED
  BY <1>1, RecordHolds, PTL
-----------------------------------------------------------------------------
(* What moves the breaker.                                                 *)

\* A run that records a success has an answer of Tier 1.
Answered ==
    \A r \in Runs : phase[r] \in {"success_del", "success_set"} =>
        tier1[r] \in Tier1Results

LEMMA AnsweredStep ==
    ASSUME TypeOK, Answered, [Next]_vars PROVE Answered'
<1> USE DEF TypeOK, Answered
<1>1. ASSUME NEW r \in Runs, Tier1Answers(r) PROVE Answered'
  BY <1>1, JudgeCascadeAssumption DEF Tier1Answers
<1>2. ASSUME NEW r \in Runs, tier1' = tier1,
             \A s \in Runs : phase'[s] \in {"success_del", "success_set"} =>
                 phase[s] \in {"success_del", "success_set"}
      PROVE  Answered'
  BY <1>2
<1>3. ASSUME NEW r \in Runs,
             \/ Begin(r) \/ GetState(r) \/ SetHalfOpen(r)
             \/ GetStateRaises(r) \/ SetHalfOpenRaises(r) \/ Tier1Fails(r)
      PROVE  Answered'
  BY <1>3, <1>2 DEF Begin, GetState, SetHalfOpen, GetStateRaises,
                    SetHalfOpenRaises, Tier1Fails
<1>4. ASSUME NEW r \in Runs, SuccessDelete(r) \/ SuccessSet(r) \/ SuccessRaises(r)
      PROVE  Answered'
  BY <1>4, <1>2 DEF SuccessDelete, SuccessSet, SuccessRaises
<1>5. ASSUME NEW r \in Runs, Increment(r) \/ SetExpiry(r) \/ Trip(r) \/ Resend(r)
      PROVE  Answered'
  BY <1>5, <1>2 DEF Increment, SetExpiry, Trip, Resend
<1>6. ASSUME NEW r \in Runs, RecordRaises(r) \/ Return(r) \/ Crash(r) PROVE Answered'
  <2>1. phase'[r] \notin {"success_del", "success_set"}
        /\ \A s \in Runs \ {r} : phase'[s] = phase[s] /\ tier1'[s] = tier1[s]
    BY <1>6 DEF RecordRaises, Return, Crash
  <2> QED
    BY <2>1
<1>7. CASE Tick \/ OperatorReset \/ Recover \/ UNCHANGED vars
  BY <1>7 DEF Tick, OperatorReset, Recover, vars
<1> QED
  BY <1>1, <1>3, <1>4, <1>5, <1>6, <1>7 DEF Next, RunStep

(* An OPEN breaker is left by the operator's reset, or by a run of the     *)
(* cascade: one that probes after the reset timeout, or one that read the  *)
(* breaker before it tripped; and no run sets it CLOSED that Tier 1 has    *)
(* not answered.                                                           *)
OpenIsLeft ==
    breaker = "open" /\ breaker' # "open" =>
        \/ OperatorReset
        \/ \E r \in Runs :
              /\ phase[r] \in {"set_half", "success_set"}
              /\ breaker' = "closed" => tier1[r] \in Tier1Results
              /\ openFor < ResetTimeout => saw[r] = "stale"

(* Whatever raises or dies between a run's get_state and its               *)
(* record_success, this is how the state key leaves OPEN                   *)
(* (circuit_breaker.py).                                                   *)
THEOREM OpenIsLeftByProbes == Spec => [][OpenIsLeft]_vars
<1>1. Init => Answered
  BY DEF Init, Answered
<1>2. TypeOK /\ Answered /\ [Next]_vars => Answered'
  BY AnsweredStep
<1>3. TypeOK /\ Calm /\ Answered /\ [Next]_vars => [OpenIsLeft]_vars
  <2> SUFFICES ASSUME TypeOK, Calm, Answered, Next, breaker = "open", breaker' # "open",
                      ~OperatorReset
               PROVE  \E r \in Runs :
                          /\ phase[r] \in {"set_half", "success_set"}
                          /\ breaker' = "closed" => tier1[r] \in Tier1Results
                          /\ openFor < ResetTimeout => saw[r] = "stale"
    BY DEF OpenIsLeft, vars
  <2>1. breaker' # breaker
    OBVIOUS
  <2>2. PICK r \in Runs : RunStep(r) \/ Resend(r)
    <3>1. ~Tick /\ ~Recover
      BY <2>1 DEF Tick, Recover
    <3>2. \A r \in Runs : ~Crash(r)
      BY <2>1 DEF Crash
    <3> QED
      BY <3>1, <3>2 DEF Next
  <2>3. ~(Begin(r) \/ GetState(r) \/ GetStateRaises(r) \/ Tier1Answers(r)
          \/ Tier1Fails(r) \/ SuccessDelete(r) \/ Increment(r) \/ SetExpiry(r)
          \/ Trip(r) \/ RecordRaises(r) \/ Return(r))
    BY <2>1 DEF Begin, GetState, GetStateRaises, Tier1Answers, Tier1Fails,
                SuccessDelete, Increment, SetExpiry, Trip, RecordRaises, Return,
                WriteOpen
  <2>4. \/ phase[r] = "set_half" /\ breaker' = "half_open"
        \/ phase[r] = "success_set"
    BY <2>1, <2>2, <2>3 DEF RunStep, SetHalfOpen, SetHalfOpenRaises, SuccessSet,
                            SuccessRaises, Resend, WriteOpen
  <2>5. openFor < ResetTimeout => saw[r] = "stale"
    BY <2>4 DEF Calm, NoProbeDuringCoolDown
  <2> QED
    BY <2>4, <2>5 DEF Answered
<1> QED
  BY <1>1, <1>2, <1>3, CoolDownHolds, PTL DEF Spec

(* A trip is earned: the breaker opens only by a run that was told a full  *)
(* counter, and when the counter told it so, the runs that had failed and  *)
(* the INCRs that had been re-sent since it was last deleted accounted for *)
(* FailMax: two for each of the former, one for each of the latter.        *)
TripIsEarned ==
    /\ breaker # "open" /\ breaker' = "open" => \E r \in Runs : phase[r] = "trip"
    /\ \A r \in Runs :
          /\ phase[r] # "trip" /\ phase'[r] = "trip" =>
                phase[r] = "expire" /\ count[r] = FailMax
          /\ count[r] # FailMax /\ count'[r] = FailMax => FailMax <= allowance'

LEMMA TripStep ==
    ASSUME TypeOK, TwoRecordsPerRun', [Next]_vars PROVE [TripIsEarned]_vars
<1> USE DEF TypeOK
<1> SUFFICES ASSUME Next PROVE TripIsEarned
  OBVIOUS
<1>1. breaker # "open" /\ breaker' = "open" => \E r \in Runs : phase[r] = "trip"
  <2>1. ASSUME NEW r \in Runs, RunStep(r) \/ Resend(r) \/ Crash(r),
               breaker # "open", breaker' = "open"
        PROVE  phase[r] = "trip"
    <3>1. Trip(r) \/ RecordRaises(r) \/ Resend(r)
      BY <2>1 DEF RunStep, Begin, GetState, SetHalfOpen, GetStateRaises,
                  SetHalfOpenRaises, Tier1Answers, Tier1Fails, SuccessDelete,
                  SuccessSet, SuccessRaises, Increment, SetExpiry, Return, Crash
    <3> QED
      BY <2>1, <3>1 DEF Trip, Recorded, Enter2ndRecord, RecordRaises, Resend
  <2> QED
    BY <2>1 DEF Next, Tick, OperatorReset, Recover
<1>2. ASSUME NEW r \in Runs, phase[r] # "trip", phase'[r] = "trip"
      PROVE  phase[r] = "expire" /\ count[r] = FailMax
  <2>1. PICK s \in Runs : RunStep(s) \/ Resend(s) \/ Crash(s)
    BY <1>2 DEF Next, Tick, OperatorReset, Recover
  <2>2. SetExpiry(s)
    BY <1>2, <2>1 DEF RunStep, Begin, GetState, SetHalfOpen, GetStateRaises,
                SetHalfOpenRaises, Tier1Answers, Tier1Fails, SuccessDelete,
                SuccessSet, SuccessRaises, Increment, Trip, RecordRaises, Return,
                Resend, Crash, Recorded, Enter2ndRecord
  <2>3. s = r /\ phase[r] = "expire" /\ count[r] >= FailMax
    BY <1>2, <2>2 DEF SetExpiry, Recorded, Enter2ndRecord
  <2> QED
    BY <2>3, JudgeCascadeAssumption
<1>3. ASSUME NEW r \in Runs, count[r] # FailMax, count'[r] = FailMax
      PROVE  FailMax <= allowance'
  <2>1. PICK s \in Runs : RunStep(s) \/ Resend(s) \/ Crash(s)
    BY <1>3 DEF Next, Tick, OperatorReset, Recover
  <2>2. Increment(s)
    BY <1>3, <2>1, JudgeCascadeAssumption
       DEF RunStep, Begin, GetState, SetHalfOpen, GetStateRaises,
           SetHalfOpenRaises, Tier1Answers, Tier1Fails, SuccessDelete,
           SuccessSet, SuccessRaises, SetExpiry, Trip, RecordRaises, Return, Resend,
           Crash
  <2>3. failures' = FailMax
    BY <1>3, <2>2 DEF Increment
  <2> QED
    BY <2>3 DEF TwoRecordsPerRun
<1> QED
  BY <1>1, <1>2, <1>3 DEF TripIsEarned

(* record_failure trips on the counter alone; by TwoRecordsPerRun a trip   *)
(* stands for failures that account for fail_max: for half as many failed  *)
(* runs at least when no INCR was re-sent.                                 *)
THEOREM TripsAreEarned == Spec => [][TripIsEarned]_vars
<1>1. TypeOK /\ TwoRecordsPerRun' /\ [Next]_vars => [TripIsEarned]_vars
  BY TripStep
<1> QED
  BY <1>1, AtMostTwoRecords, TypeCorrect, PTL DEF Spec
=============================================================================

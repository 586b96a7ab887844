------------------------- MODULE TokenBucketProofs -------------------------
(***************************************************************************)
(* TypeOK, AdmissionBound and ResetPromiseKept for every bucket size, rate *)
(* and delay.  AdmissionBound is not inductive: what is left in the bucket *)
(* has to be counted with what was admitted, and a key must be shown not   *)
(* to expire before its bucket would have been full anyway.                *)
(***************************************************************************)
EXTENDS TokenBucket, TLAPS

(* Arithmetic, stated once: products are out of reach of linear reasoning. *)

(* The whole tokens a time yields are worth no more than that time.        *)
LEMMA DivBelow ==
    ASSUME NEW x \in Nat, NEW d \in Nat \ {0}
    PROVE  /\ x \div d \in Nat
           /\ (x \div d) * d <= x
           /\ x < (x \div d) * d + d
OBVIOUS

(* Multiplying by a natural number keeps an order.                         *)
LEMMA Monotonic ==
    ASSUME NEW k \in Nat, NEW a \in Int, NEW b \in Int, a <= b
    PROVE  k * a <= k * b /\ a * k <= b * k
OBVIOUS

(* Multiplication distributes over a sum.                                  *)
LEMMA Distributes ==
    ASSUME NEW k \in Int, NEW a \in Int, NEW b \in Int
    PROVE  /\ k * (a + b) = k * a + k * b
           /\ (a + b) * k = a * k + b * k
OBVIOUS

(* A part of what is within a budget is within it.                         *)
LEMMA PartWithinBudget ==
    ASSUME NEW a \in Nat, NEW b \in Nat, NEW d \in Nat, NEW c \in Int,
           (a + b) * d <= c
    PROVE  a * d <= c
<1>1. (a + b) * d = a * d + b * d /\ b * d \in Nat /\ a * d \in Nat
  OBVIOUS
<1> QED
  BY <1>1

(* Handing out n of r and keeping t costs no more than r.                  *)
LEMMA SharedOut ==
    ASSUME NEW a \in Nat, NEW n \in Nat, NEW t \in Nat, NEW r \in Nat,
           NEW d \in Nat, n + t <= r
    PROVE  ((a + n) + t) * d <= (a + r) * d
<1>1. (a + n) + t <= a + r
  OBVIOUS
<1> QED
  BY <1>1, Monotonic
-----------------------------------------------------------------------------
(* The script's operators.                                                 *)

(* A refill gives whole tokens, at most a bucket of them and at most what  *)
(* the bucket held plus what the rate yields.                              *)
LEMMA RefillBounds ==
    ASSUME TypeOK, NEW s \in Nat
    PROVE  /\ Refilled(s) \in 0..Bucket
           /\ Present => Refilled(s) * Den <= tokens * Den + Elapsed(s) * Num
<1> USE TokenBucketAssumption
<1>1. Elapsed(s) \in Nat
  BY DEF Elapsed, TypeOK
<1> DEFINE x == Elapsed(s) * Num
           q == x \div Den
<1>2. x \in Nat
  BY <1>1
<1> HIDE DEF x
<1>3. q \in Nat /\ q * Den <= x
  BY <1>2, DivBelow
<1> HIDE DEF q
<1>4. Refilled(s) = IF ~Present \/ tokens + q > Bucket THEN Bucket ELSE tokens + q
  BY DEF Refilled, x, q
<1>5. tokens \in Nat /\ tokens <= Bucket
  BY DEF TypeOK
<1>6. Refilled(s) \in 0..Bucket
  BY <1>3, <1>4, <1>5
<1>7. Present => Refilled(s) <= tokens + q
  BY <1>3, <1>4, <1>5
<1>8. (tokens + q) * Den = tokens * Den + q * Den
  BY <1>3, <1>5, Distributes
<1>9. ASSUME Present PROVE Refilled(s) * Den <= tokens * Den + x
  <2>1. Refilled(s) * Den <= (tokens + q) * Den
    BY <1>9, <1>3, <1>5, <1>6, <1>7, Monotonic
  <2> QED
    BY <2>1, <1>2, <1>3, <1>5, <1>6, <1>8
<1> QED
  BY <1>6, <1>9 DEF x

(* The wait is a natural number of ticks, long enough for one token.       *)
LEMMA WaitYieldsToken == Wait \in Nat /\ Wait * Num >= Den
<1> USE TokenBucketAssumption
<1>1. Den + Num - 1 \in Nat
  OBVIOUS
<1>2. Wait \in Nat /\ Den + Num - 1 < Wait * Num + Num
  BY <1>1, DivBelow DEF Wait
<1> QED
  BY <1>2

(* A stamp is a time no later than now and at most MaxDelay old.           *)
LEMMA StampBounds ==
    ASSUME TypeOK, NEW s \in Stamps
    PROVE  s \in Nat /\ s <= now /\ s >= now - MaxDelay
BY TokenBucketAssumption DEF Stamps, TypeOK

(* Every evaluation of the script is one of the three actions, and in each *)
(* what is admitted and what is left add up to at most the refilled bucket.*)
Evaluation(s, n) ==
    /\ Evaluate(s)
    /\ Observe(s, n)
    /\ n \in {0, 1}
    /\ n + tokens' <= Refilled(s)
    /\ tokens' \in 0..Bucket
    /\ reset' \in {0, s + Wait}

LEMMA ActionsEvaluate ==
    ASSUME TypeOK, NEW s \in Stamps, Admit(s) \/ Deny(s) \/ ReplyLost(s)
    PROVE  \E n \in {0, 1} : Evaluation(s, n)
<1>1. Refilled(s) \in 0..Bucket
  BY StampBounds, RefillBounds
<1>2. CASE Admit(s)
  BY <1>1, <1>2, TokenBucketAssumption DEF Admit, Allows, Evaluate, Evaluation
<1>3. CASE Deny(s)
  BY <1>1, <1>3, TokenBucketAssumption DEF Deny, Allows, Evaluate, Evaluation
<1>4. CASE ReplyLost(s)
  BY <1>1, <1>4, TokenBucketAssumption DEF ReplyLost, Allows, Evaluate, Evaluation
<1> QED
  BY <1>2, <1>3, <1>4
-----------------------------------------------------------------------------
(* Type correctness.                                                       *)

LEMMA TypeInit == Init => TypeOK
BY TokenBucketAssumption DEF Init, TypeOK

LEMMA TypeStep == TypeOK /\ [Next]_vars => TypeOK'
<1> SUFFICES ASSUME TypeOK, [Next]_vars PROVE TypeOK'
  OBVIOUS
<1> USE TokenBucketAssumption
<1>1. ASSUME NEW s \in Stamps, Admit(s) \/ Deny(s) \/ ReplyLost(s)
      PROVE  TypeOK'
  <2>1. PICK n \in {0, 1} : Evaluation(s, n)
    BY <1>1, ActionsEvaluate
  <2>2. s \in Nat
    BY StampBounds
  <2>3. Regained(s) \in Nat
    BY <2>2 DEF Regained, TypeOK
  <2>4. admitted' \in Nat /\ start' \in Nat /\ regained' \in Nat
    <3>1. n \in Nat /\ admitted \in Nat /\ start \in Nat /\ regained \in Nat
      BY DEF TypeOK
    <3>2. \/ admitted' = n /\ start' = s /\ regained' = 0
          \/ /\ admitted' = admitted + n
             /\ regained' = regained + Regained(s)
             /\ start' = start
      BY <2>1 DEF Evaluation, Observe
    <3> QED
      BY <2>2, <2>3, <3>1, <3>2
  <2>5. reset' \in Nat
    BY <2>1, <2>2, WaitYieldsToken DEF Evaluation
  <2> QED
    BY <2>1, <2>2, <2>4, <2>5 DEF Evaluation, Evaluate, TypeOK
<1>2. CASE Tick
  BY <1>2 DEF Tick, Present, windowVars, TypeOK
<1>3. CASE UNCHANGED vars
  BY <1>3 DEF vars, bucketVars, windowVars, TypeOK
<1> QED
  BY <1>1, <1>2, <1>3 DEF Next

(* Every variable keeps its type: in particular no evaluation leaves the   *)
(* bucket below empty or above its size.                                   *)
THEOREM TypeCorrect == Spec => []TypeOK
BY TypeInit, TypeStep, PTL DEF Spec
-----------------------------------------------------------------------------
(* The admission bound.                                                    *)

\* What the window may admit by the time of the last evaluation.
Budget == Bucket * Den + Num * (last - start + regained)

\* Before the first evaluation.
Fresh == ~Present /\ last = 0 /\ admitted = 0 /\ start = 0 /\ regained = 0

BucketInv ==
    /\ AdmissionBound
    /\ Present => (admitted + tokens) * Den <= Budget
    /\ Fresh \/ last + idle <= now

LEMMA BucketInit == Init => BucketInv
BY TokenBucketAssumption DEF Init, BucketInv, AdmissionBound, Fresh, Present

(* An evaluation that finds the key gone starts from a full bucket, which  *)
(* the time since the last evaluation has paid for.                        *)
LEMMA ExpiredIsPaidFor ==
    ASSUME TypeOK, BucketInv, ~Present, NEW s \in Stamps
    PROVE  admitted * Den <= Num * (s - start + regained)
<1> USE TokenBucketAssumption
<1>1. s \in Nat /\ s >= now - MaxDelay
  BY StampBounds
<1>2. CASE Fresh
  <2>1. Num * 0 <= Num * (s - start + regained)
    BY <1>1, <1>2, Monotonic DEF Fresh
  <2> QED
    BY <1>2, <2>1 DEF Fresh
<1>3. CASE last + idle <= now
  <2>1. last + Expire <= now
    BY <1>3 DEF Present, TypeOK
  <2>2. Num * ((Expire - MaxDelay) + (last - start + regained))
          <= Num * (s - start + regained)
    BY <1>1, <2>1, Monotonic DEF TypeOK
  <2>3. Num * ((Expire - MaxDelay) + (last - start + regained))
          = Num * (Expire - MaxDelay) + Num * (last - start + regained)
    BY Distributes DEF TypeOK
  <2>4. admitted * Den <= Bucket * Den + Num * (last - start + regained)
    BY DEF BucketInv, AdmissionBound
  <2> QED
    BY <1>1, <2>2, <2>3, <2>4, ExpiryAssumption DEF TypeOK
<1> QED
  BY <1>2, <1>3 DEF BucketInv

(* One evaluation keeps what was admitted and what is left within budget.  *)
LEMMA EvaluationWithinBudget ==
    ASSUME TypeOK, TypeOK', BucketInv, NEW s \in Stamps, NEW n \in {0, 1},
           Evaluation(s, n)
    PROVE  ((admitted + tokens) * Den <= Budget)'
<1> USE TokenBucketAssumption
<1> DEFINE R == Refilled(s)
<1>1. s \in Nat
  BY StampBounds
<1>2. R \in Nat /\ R <= Bucket
  BY <1>1, RefillBounds
<1>3. n + tokens' <= R /\ tokens' \in Nat /\ last' = s
  BY DEF Evaluation, Evaluate
<1> HIDE DEF R
<1>4. R * Den <= Bucket * Den
  BY <1>2, Monotonic
<1>5. CASE admitted' = n /\ start' = s /\ regained' = 0
  <2>1. (n + tokens') * Den <= R * Den
    <3> DEFINE t == n + tokens'
    <3>1. t \in Int /\ t <= R
      BY <1>3
    <3> HIDE DEF t
    <3>2. t * Den <= R * Den
      BY <1>2, <3>1, Monotonic
    <3> QED
      BY <3>2 DEF t
  <2>2. s - start' + regained' = 0
    BY <1>1, <1>5
  <2>3. Num * (last' - start' + regained') = 0
    BY <1>3, <2>2
  <2>4. Budget' = Bucket * Den
    BY <2>3 DEF Budget
  <2>5. (n + tokens') * Den <= Bucket * Den
    <3>1. (n + tokens') * Den \in Int /\ R * Den \in Int /\ Bucket * Den \in Int
      BY <1>2, <1>3
    <3> QED
      BY <1>4, <2>1, <3>1
  <2> QED
    BY <1>5, <2>4, <2>5
<1>6. CASE /\ admitted' = admitted + n
           /\ regained' = regained + Regained(s)
           /\ UNCHANGED start
  <2> DEFINE a == admitted
             g == last - start + regained
             h == s - start + regained + Regained(s)
  <2>1. a \in Nat /\ g \in Int /\ Regained(s) \in Nat /\ h \in Int
    BY <1>1 DEF TypeOK, Regained
  <2>2. (admitted' + tokens') * Den <= (a + R) * Den
    <3>1. n \in Nat /\ admitted' = a + n
      BY <1>6
    <3> QED
      BY <1>2, <1>3, <2>1, <3>1, SharedOut
  <2>3. (a + R) * Den = a * Den + R * Den
    BY <1>2, <2>1, Distributes
  <2>4. Budget' = Bucket * Den + Num * h
    BY <1>3, <1>6, <2>1 DEF Budget, TypeOK
  <2>7. SUFFICES a * Den + R * Den <= Bucket * Den + Num * h
    <3>1. (admitted' + tokens') * Den \in Int
      BY <1>3, <1>6, <2>1
    <3>2. (a + R) * Den \in Int /\ Bucket * Den + Num * h \in Int
      BY <1>2, <2>1
    <3> HIDE DEF a, g, h
    <3> QED
      BY <2>2, <2>3, <2>4, <3>1, <3>2
  <2>5. CASE ~Present
    <3>1. a * Den <= Num * (s - start + regained)
      BY <2>5, ExpiredIsPaidFor
    <3>2. Regained(s) = 0
      BY <2>5 DEF Regained
    <3>3. h = s - start + regained
      BY <1>1, <3>2 DEF TypeOK
    <3>4. a * Den <= Num * h
      BY <3>1, <3>3
    <3>5. /\ a * Den \in Int /\ Num * h \in Int
          /\ R * Den \in Int /\ Bucket * Den \in Int
      BY <1>2, <2>1
    <3> HIDE DEF a, g, h
    <3> QED
      BY <1>4, <3>4, <3>5
  <2>6. CASE Present
    <3>1. R * Den <= tokens * Den + Elapsed(s) * Num
      BY <1>1, <2>6, RefillBounds DEF R
    <3>2. (a + tokens) * Den <= Bucket * Den + Num * g
      BY <2>6 DEF BucketInv, Budget
    <3>3. (a + tokens) * Den = a * Den + tokens * Den
      BY <2>1, Distributes DEF TypeOK
    <3>4. h = g + Elapsed(s)
      BY <1>1, <2>6 DEF TypeOK, Regained, Elapsed
    <3>5. Elapsed(s) \in Nat
      BY <1>1 DEF TypeOK, Elapsed
    <3>6. tokens \in Nat
      BY DEF TypeOK
    <3> HIDE DEF a, g, h
    <3>7. Num * h = Num * g + Num * Elapsed(s)
      BY <2>1, <3>4, <3>5, Distributes
    <3>8. a * Den + R * Den <= Bucket * Den + Num * h
      BY <1>2, <2>1, <3>1, <3>2, <3>3, <3>5, <3>6, <3>7
    <3> QED
      BY <3>8
  <2> QED
    BY <2>5, <2>6
<1> QED
  BY <1>5, <1>6 DEF Evaluation, Observe

LEMMA BucketStep == TypeOK /\ TypeOK' /\ BucketInv /\ [Next]_vars => BucketInv'
<1> SUFFICES ASSUME TypeOK, TypeOK', BucketInv, [Next]_vars PROVE BucketInv'
  OBVIOUS
<1> USE TokenBucketAssumption
<1>1. ASSUME NEW s \in Stamps, Admit(s) \/ Deny(s) \/ ReplyLost(s)
      PROVE  BucketInv'
  <2>1. PICK n \in {0, 1} : Evaluation(s, n)
    BY <1>1, ActionsEvaluate
  <2>2. ((admitted + tokens) * Den <= Budget)'
    BY <2>1, EvaluationWithinBudget
  <2>3. admitted' \in Nat /\ tokens' \in Nat /\ Budget' \in Int
    BY DEF TypeOK, Budget
  <2>4. AdmissionBound'
    <3>1. admitted' * Den <= Budget'
      BY <2>2, <2>3, PartWithinBudget
    <3> QED
      BY <3>1 DEF AdmissionBound, Budget
  <2>5. (last + idle <= now)'
    BY <2>1, StampBounds DEF Evaluation, Evaluate
  <2> QED
    BY <2>2, <2>4, <2>5 DEF BucketInv
<1>2. CASE Tick
  <2>1. UNCHANGED <<tokens, last, admitted, start, regained>>
    BY <1>2 DEF Tick, windowVars
  <2>2. AdmissionBound'
    BY <2>1 DEF BucketInv, AdmissionBound
  <2>3. Present' => Present
    BY <1>2 DEF Tick, Present, TypeOK
  <2>4. Present' => ((admitted + tokens) * Den <= Budget)'
    BY <2>1, <2>3 DEF BucketInv, Budget
  <2>5. CASE Fresh
    BY <1>2, <2>1, <2>2, <2>3, <2>4, <2>5 DEF BucketInv, Fresh
  <2>6. CASE last + idle <= now
    <3>1. (last + idle <= now)'
      BY <1>2, <2>1, <2>6 DEF Tick, Present, TypeOK
    <3> QED
      BY <2>2, <2>4, <3>1 DEF BucketInv
  <2> QED
    BY <2>5, <2>6 DEF BucketInv
<1>3. CASE UNCHANGED vars
  BY <1>3 DEF vars, bucketVars, windowVars, BucketInv, AdmissionBound, Budget,
              Fresh, Present
<1> QED
  BY <1>1, <1>2, <1>3 DEF Next

(* In every interval the script admits at most a full bucket and what the  *)
(* rate yields, with late stamps paid for and an expired key adding        *)
(* nothing: the contract of the Lua script, for every size, rate and delay.*)
THEOREM AdmissionBounded == Spec => []AdmissionBound
<1>1. BucketInv => AdmissionBound
  BY DEF BucketInv
<1> QED
  BY TypeCorrect, BucketInit, BucketStep, <1>1, PTL DEF Spec
-----------------------------------------------------------------------------
(* The promise of reset_at.                                                *)

\* A 429 names the time one token takes from the evaluation that denied.
ResetInv == reset > 0 => reset = last + Wait

(* At reset_at the refill yields a token, so the script allows.            *)
LEMMA ResetAllows ==
    ASSUME TypeOK, ResetInv, reset > 0, NEW s \in Nat, s >= reset
    PROVE  Allows(s)
<1> USE TokenBucketAssumption
<1>1. Wait \in Nat /\ Wait * Num >= Den
  BY WaitYieldsToken
<1>2. Elapsed(s) \in Nat /\ Elapsed(s) >= Wait
  BY <1>1 DEF Elapsed, ResetInv, TypeOK
<1>3. Wait * Num <= Elapsed(s) * Num
  BY <1>1, <1>2, Monotonic
<1> DEFINE x == Elapsed(s) * Num
           q == x \div Den
<1>4. x \in Nat /\ x >= Den
  <2>1. x \in Nat /\ Wait * Num \in Nat
    BY <1>1, <1>2
  <2> QED
    BY <1>1, <1>3, <2>1
<1> HIDE DEF x
<1>5. q \in Nat /\ x < q * Den + Den
  BY <1>4, DivBelow
<1> HIDE DEF q
<1>6. q # 0
  BY <1>4, <1>5
<1>7. Refilled(s) = IF ~Present \/ tokens + q > Bucket THEN Bucket ELSE tokens + q
  BY DEF Refilled, x, q
<1>8. tokens \in Nat
  BY DEF TypeOK
<1> QED
  BY <1>5, <1>6, <1>7, <1>8 DEF Allows

LEMMA ResetStep ==
    ASSUME TypeOK, ResetInv, [Next]_vars
    PROVE  /\ ResetInv'
           /\ reset > 0 /\ reset' > 0 => last' < reset
<1> USE TokenBucketAssumption
<1>1. Wait \in Nat /\ Wait # 0
  BY WaitYieldsToken
<1>2. Wait' = Wait
  BY DEF Wait
<1>3. ASSUME NEW s \in Stamps, Deny(s)
      PROVE  ResetInv' /\ (reset > 0 => last' < reset)
  <2>1. s \in Nat /\ last' = s /\ reset' = s + Wait
    BY <1>3, StampBounds DEF Deny, Evaluate
  <2>2. ResetInv'
    BY <1>2, <2>1 DEF ResetInv
  <2>3. reset > 0 => ~(s >= reset)
    BY <1>3, <2>1, ResetAllows DEF Deny
  <2> QED
    BY <2>1, <2>2, <2>3 DEF TypeOK
<1>4. ASSUME NEW s \in Stamps, Admit(s) \/ ReplyLost(s)
      PROVE  reset' = 0
  BY <1>4 DEF Admit, ReplyLost
<1>5. ASSUME UNCHANGED <<reset, last>>
      PROVE  ResetInv' /\ (reset > 0 => last' < reset)
  BY <1>1, <1>2, <1>5 DEF ResetInv, TypeOK
<1>6. CASE Tick
  BY <1>5, <1>6 DEF Tick
<1>7. CASE UNCHANGED vars
  BY <1>5, <1>7 DEF vars, bucketVars
<1>8. CASE \E s \in Stamps : Admit(s) \/ ReplyLost(s)
  BY <1>4, <1>8 DEF ResetInv
<1> QED
  BY <1>3, <1>6, <1>7, <1>8 DEF Next

(* An agent that waits until reset_at is not denied again: the wait of the *)
(* 429 is rounded up, and late stamps cannot take it back.                 *)
THEOREM ResetIsKept == Spec => ResetPromiseKept
<1>1. Init => ResetInv
  BY DEF Init, ResetInv
<1>2. TypeOK /\ ResetInv /\ [Next]_vars => ResetInv'
  BY ResetStep
<1>3. TypeOK /\ ResetInv /\ [Next]_vars
        => [reset > 0 /\ reset' > 0 => last' < reset]_vars
  BY ResetStep
<1> QED
  BY TypeCorrect, <1>1, <1>2, <1>3, PTL DEF Spec, ResetPromiseKept
-----------------------------------------------------------------------------
(* Stamps that are never late.                                             *)

\* Nothing is stamped later than now, and nothing was ever moved back.
OnTimeInv == last <= now /\ regained = 0

LEMMA OnTimeStep ==
    ASSUME TypeOK, OnTimeInv, MaxDelay = 0, [Next]_vars PROVE OnTimeInv'
<1> USE DEF TypeOK, OnTimeInv
<1>1. ASSUME NEW s \in Stamps, Admit(s) \/ Deny(s) \/ ReplyLost(s) PROVE OnTimeInv'
  <2>1. s = now
    BY <1>1, StampBounds
  <2>2. last' = s /\ now' = now
    BY <1>1 DEF Admit, Deny, ReplyLost, Evaluate
  <2>3. Regained(s) = 0
    BY <2>1 DEF Regained
  <2>4. regained' = 0
    BY <1>1, <2>3 DEF Admit, Deny, ReplyLost, Observe
  <2> QED
    BY <2>1, <2>2, <2>4
<1>2. CASE Tick
  BY <1>2 DEF Tick, windowVars
<1>3. CASE UNCHANGED vars
  BY <1>3 DEF vars, bucketVars, windowVars
<1> QED
  BY <1>1, <1>2, <1>3 DEF Next

(* The bound of the textbook: on a gateway whose commands are never late,  *)
(* every interval admits at most a full bucket and the rate's yield in it. *)
SimpleBound == admitted * Den <= Bucket * Den + Num * (last - start)

(* One replica whose retries never delay a command (MaxDelay = 0) is the   *)
(* case the docstring of rate_limiter.py has in mind.                      *)
THEOREM OnTimeBound ==
    ASSUME MaxDelay = 0 PROVE Spec => []SimpleBound
<1>1. Init => OnTimeInv
  BY DEF Init, OnTimeInv
<1>2. TypeOK /\ OnTimeInv /\ [Next]_vars => OnTimeInv'
  BY OnTimeStep
<1>3. TypeOK /\ AdmissionBound /\ OnTimeInv => SimpleBound
  BY DEF TypeOK, AdmissionBound, OnTimeInv, SimpleBound
<1> QED
  BY <1>1, <1>2, <1>3, TypeCorrect, AdmissionBounded, PTL DEF Spec
-----------------------------------------------------------------------------
(* Starvation, the other side of the rounded-down refill.                  *)

(* A step that finds the bucket empty, sooner than the time of one token   *)
(* after the evaluation before, serves nobody and leaves the bucket empty, *)
(* but resets the time the next refill is counted from: an agent that is   *)
(* denied and asks more often than the rate is denied for ever.            *)
Starves ==
    Present /\ tokens = 0 /\ Num * (last' - last) < Den =>
        /\ tokens' = 0
        /\ served' = served
        /\ admitted' <= admitted

LEMMA EarlyRefillIsNothing ==
    ASSUME TypeOK, Present, tokens = 0, NEW s \in Nat, Num * (s - last) < Den
    PROVE  Refilled(s) = 0
<1> USE TokenBucketAssumption
<1>1. Elapsed(s) \in Nat /\ (Elapsed(s) = 0 \/ Elapsed(s) = s - last)
  BY DEF Elapsed, TypeOK
<1> DEFINE x == Elapsed(s) * Num
<1>2. x \in Nat /\ x < Den
  <2>1. CASE Elapsed(s) = 0
    BY <2>1
  <2>2. CASE Elapsed(s) = s - last
    <3>1. Elapsed(s) * Num = Num * (s - last) /\ Elapsed(s) * Num \in Nat
      BY <1>1, <2>2
    <3> QED
      BY <3>1
  <2> QED
    BY <1>1, <2>1, <2>2
<1> HIDE DEF x
<1>3. x \div Den = 0
  BY <1>2
<1>4. Refilled(s) = IF 0 + 0 > Bucket THEN Bucket ELSE 0
  BY <1>3 DEF Refilled, x
<1> QED
  BY <1>4

(* The script writes last_refill_ts also when it denies; so asking early   *)
(* is what keeps an agent denied, for every size and rate.                 *)
THEOREM EmptyBucketStarves == Spec => [][Starves]_vars
<1>1. TypeOK /\ [Next]_vars => [Starves]_vars
  <2> SUFFICES ASSUME TypeOK, Next, Present, tokens = 0, Num * (last' - last) < Den
               PROVE  tokens' = 0 /\ served' = served /\ admitted' <= admitted
    BY DEF Starves
  <2>1. ASSUME NEW s \in Stamps, Admit(s) \/ Deny(s) \/ ReplyLost(s)
        PROVE  tokens' = 0 /\ served' = served /\ admitted' <= admitted
    <3>1. s \in Nat /\ last' = s
      BY <2>1, StampBounds DEF Admit, Deny, ReplyLost, Evaluate
    <3>2. Refilled(s) = 0
      BY <3>1, EarlyRefillIsNothing
    <3>3. ~Allows(s)
      BY <3>2 DEF Allows
    <3>4. Evaluate(s) /\ Observe(s, 0)
      BY <2>1, <3>3 DEF Admit, Deny, ReplyLost
    <3>5. tokens' = 0 /\ served' = served
      BY <3>2, <3>3, <3>4 DEF Evaluate
    <3> QED
      BY <3>4, <3>5 DEF Observe, TypeOK
  <2>2. CASE Tick
    BY <2>2 DEF Tick, windowVars, TypeOK
  <2> QED
    BY <2>1, <2>2 DEF Next
<1> QED
  BY <1>1, TypeCorrect, PTL DEF Spec
=============================================================================

---------------------------- MODULE TokenBucket ----------------------------
(***************************************************************************)
(* The rate limiter of one agent: gateway/fast_path/rate_limiter.py.  The  *)
(* Lua script makes refill and consume one atomic step, but the time it    *)
(* works with is the caller's: check_rate_limit reads the clock before it  *)
(* sends the script, so evaluations of several gateway replicas, or of one *)
(* whose command was delayed or retried, may carry stamps up to MaxDelay   *)
(* old and out of order.  The rate is Num tokens every Den ticks.          *)
(***************************************************************************)
EXTENDS Integers

CONSTANTS Bucket,     \* rate_limit_bucket_size
          Num, Den,    \* tokens_per_minute / 60000 tokens per ms, as a fraction
          Expire,      \* EXPIRE of the key, in ticks
          MaxDelay,    \* greatest age of a stamp when its script runs
          MaxTime,     \* bound on the clock
          MaxRegained  \* bound on regained: a window is observed no further

ASSUME TokenBucketAssumption ==
    /\ Bucket \in Nat \ {0}
    /\ Num \in Nat \ {0}
    /\ Den \in Nat \ {0}
    /\ Expire \in Nat \ {0}
    /\ MaxDelay \in Nat
    /\ MaxTime \in Nat
    /\ MaxRegained \in Nat

\* An idle key expires only after its bucket would have been full anyway.
ASSUME ExpiryAssumption == Bucket * Den <= Num * (Expire - MaxDelay)

VARIABLES
    now,       \* the time
    idle,      \* ticks since the script last ran, Expire once the key is gone
    tokens,    \* field "tokens" of the key
    last,      \* field "last_refill_ts": the stamp of the last evaluation
    reset,     \* reset_at of the agent's last answer if that was 429, else 0
    served,    \* stamp of the last evaluation that took a token
    admitted,  \* requests the script admitted in the window under observation
    start,     \* stamp of the first evaluation of that window
    regained   \* time by which late stamps have moved last back in it

bucketVars == <<idle, tokens, last>>
windowVars == <<admitted, start, regained>>
vars == <<now, bucketVars, reset, served, windowVars>>

TypeOK ==
    /\ now \in Nat
    /\ idle \in 0..Expire
    /\ tokens \in 0..Bucket
    /\ last \in Nat
    /\ reset \in Nat
    /\ served \in Nat
    /\ admitted \in Nat
    /\ start \in Nat
    /\ regained \in Nat

\* No key yet.
Init ==
    /\ now = 0
    /\ idle = Expire
    /\ tokens = 0
    /\ last = 0
    /\ reset = 0
    /\ served = 0
    /\ admitted = 0
    /\ start = 0
    /\ regained = 0
-----------------------------------------------------------------------------
(* The script.                                                             *)

Present == idle < Expire

Elapsed(s) == IF s > last THEN s - last ELSE 0

\* Mutant: the refill is not capped at the bucket size.
RefilledUncapped(s) ==
    IF ~Present THEN Bucket ELSE tokens + (Elapsed(s) * Num) \div Den

Refilled(s) ==
    LET sum == tokens + (Elapsed(s) * Num) \div Den
    IN  IF ~Present \/ sum > Bucket THEN Bucket ELSE sum

Allows(s) == Refilled(s) >= 1

\* Mutant: the wait is rounded down.
WaitFloor == Den \div Num

\* ceil(1 / rate): the wait for the one token that is missing.
Wait == (Den + Num - 1) \div Num

\* Mutant: a denied request is charged a token, too.
ChargeDenied(s) ==
    /\ tokens' = Refilled(s) - 1
    /\ last' = s
    /\ idle' = 0
    /\ served' = IF Allows(s) THEN s ELSE served
    /\ UNCHANGED now

Evaluate(s) ==
    /\ tokens' = IF Allows(s) THEN Refilled(s) - 1 ELSE Refilled(s)
    /\ last' = s
    /\ idle' = 0
    /\ served' = IF Allows(s) THEN s ELSE served
    /\ UNCHANGED now

Stamps == {s \in (now - MaxDelay)..now : s >= 0}

Regained(s) == IF Present /\ s < last THEN last - s ELSE 0

(* Any evaluation may be the first of the window under observation, so     *)
(* what holds of the window holds of every interval.                       *)
Observe(s, n) ==
    \/ /\ admitted' = n
       /\ start' = s
       /\ regained' = 0
    \/ /\ admitted' = admitted + n
       /\ regained' = regained + Regained(s)
       /\ regained' <= MaxRegained
       /\ UNCHANGED start
-----------------------------------------------------------------------------
(* check_rate_limit.                                                       *)

Admit(s) ==
    /\ Allows(s)
    /\ Evaluate(s)
    /\ reset' = 0
    /\ Observe(s, 1)

Deny(s) ==
    /\ ~Allows(s)
    /\ Evaluate(s)
    /\ reset' = s + Wait
    /\ Observe(s, 0)

(* The script ran but its reply was lost: the client sends it once more or *)
(* fails open.  Neither changes the bucket further, except as a check of   *)
(* its own; what fails open is not counted as admitted by the bucket.      *)
ReplyLost(s) ==
    /\ Evaluate(s)
    /\ reset' = 0
    /\ Observe(s, 0)

Tick ==
    /\ now < MaxTime
    /\ now' = now + 1
    /\ idle' = IF Present THEN idle + 1 ELSE Expire
    /\ UNCHANGED <<tokens, last, reset, served, windowVars>>

Next ==
    \/ \E s \in Stamps : Admit(s) \/ Deny(s) \/ ReplyLost(s)
    \/ Tick

Spec == Init /\ [][Next]_vars
-----------------------------------------------------------------------------
(* The token bucket's contract: in every interval the script admits at     *)
(* most a full bucket and what the rate yields in that time; stamps that   *)
(* arrive out of order add no more than the rate times the time by which   *)
(* they move last_refill_ts back.  An expired key adds nothing.            *)
AdmissionBound ==
    admitted * Den <= Bucket * Den + Num * (last - start + regained)

(* An agent that was told reset_at and sends its next request at that time *)
(* or later is not denied again, unless a request of its own was charged   *)
(* in between without an answer reaching it (ReplyLost).                   *)
ResetPromiseKept == [][reset > 0 /\ reset' > 0 => last' < reset]_vars

(* "Bucket refills at tokens_per_minute / 60 tokens per second": an agent  *)
(* that has taken no token for the time one token needs is not denied.     *)
RefillsAtRate == reset > 0 => last - served < Wait
=============================================================================

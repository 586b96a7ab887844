---------------------------- MODULE JudgeCascade ----------------------------
(***************************************************************************)
(* The judge cascade and the circuit breaker in front of its first tier:   *)
(* judge/circuit_breaker.py and judge/cascade.py.  Runs of run_cascade on  *)
(* all gateway replicas share the breaker's two Redis keys.  Every Redis   *)
(* command is a step of its own; during the outage each may be sent twice  *)
(* (retry_on_timeout in shared/redis_client.py) and may raise, after it    *)
(* was applied or without having been.  Time passes in ticks that age an   *)
(* OPEN breaker and run the failure counter's TTL down.                    *)
(***************************************************************************)
EXTENDS Integers, FiniteSets, JudgeTiers

CONSTANTS Runs,          \* concurrent executions of run_cascade
          FailMax,       \* circuit_breaker_fail_max
          ResetTimeout,  \* circuit_breaker_reset_timeout_seconds, in ticks
          Keyed,         \* runs on replicas that have an openai_api_key
          Answers        \* the results of Tier 1 that occur

ASSUME JudgeCascadeAssumption ==
    /\ FailMax \in Nat \ {0}
    /\ ResetTimeout \in Nat \ {0}
    /\ Keyed \subseteq Runs
    /\ Answers \subseteq Tier1Results

VARIABLES
    breaker,    \* the state key: "closed" (also when absent), "open", "half_open"
    openFor,    \* time since opened_at, counted up to ResetTimeout
    failures,   \* the failure counter, counted up to FailMax
    expiry,     \* TTL left on the failure counter, 0 when it has none
    counted,    \* the runs under way whose failure the counter holds
    allowance,  \* what its failed runs and re-sent INCRs account for, up to FailMax
    phase,      \* where each run stands
    resent,     \* runs whose current command was applied and is sent again
    saw,        \* the state that let a run in, "stale" if the breaker tripped since
    record,     \* which record_failure of the run is under way: 1 or 2
    count,      \* what INCR returned to the run
    tier1,      \* tier1_result of a run under way
    healthy     \* TRUE once the outage of Ollama and Redis is over for good

stateVars == <<breaker, openFor>>
counterVars == <<failures, expiry, counted, allowance>>
redisVars == <<stateVars, counterVars>>
vars == <<redisVars, phase, resent, saw, record, count, tier1, healthy>>

Probing == {"set_half", "tier1", "success_del", "success_set"}
Recording == {"incr", "expire", "trip"}
Phases == {"idle", "get_state", "decide"} \cup Probing \cup Recording

TypeOK ==
    /\ breaker \in {"closed", "open", "half_open"}
    /\ openFor \in 0..ResetTimeout
    /\ failures \in 0..FailMax
    /\ expiry \in 0..(2 * ResetTimeout)
    /\ counted \in SUBSET Runs
    /\ allowance \in 0..FailMax
    /\ resent \in SUBSET Runs
    /\ phase \in [Runs -> Phases]
    /\ saw \in [Runs -> {"stale", "closed", "open", "half_open"}]
    /\ record \in [Runs -> {1, 2}]
    /\ count \in [Runs -> 0..FailMax]
    /\ tier1 \in [Runs -> JudgeResult \cup {NoResult}]
    /\ healthy \in BOOLEAN

Init ==
    /\ breaker = "closed"
    /\ openFor = 0
    /\ failures = 0
    /\ expiry = 0
    /\ counted = {}
    /\ allowance = 0
    /\ resent = {}
    /\ phase = [r \in Runs |-> "idle"]
    /\ saw = [r \in Runs |-> "stale"]
    /\ record = [r \in Runs |-> 1]
    /\ count = [r \in Runs |-> 0]
    /\ tier1 = [r \in Runs |-> NoResult]
    /\ healthy = FALSE
-----------------------------------------------------------------------------
(* Redis commands on the two keys.                                         *)

UpTo(n, max) == IF n < max THEN n ELSE max

\* The run goes on: the command it was at has answered or raised.
Goto(r, from, to) ==
    /\ phase[r] = from
    /\ phase' = [phase EXCEPT ![r] = to]
    /\ resent' = resent \ {r}

WriteState(s) ==
    /\ breaker' = s
    /\ openFor' = 0

\* Writing OPEN is a new trip: what any run read before is stale now.
WriteOpen ==
    /\ WriteState("open")
    /\ saw' = [r \in Runs |-> "stale"]

DeleteCounter ==
    /\ failures' = 0
    /\ expiry' = 0
    /\ counted' = {}
    /\ allowance' = 0

\* The failure of a run accounts for two records, the first INCR of the run
\* and one more; a re-sent INCR for one, itself.
IncrementCounter(r) ==
    /\ failures' = UpTo(failures + 1, FailMax)
    /\ allowance' = IF r \in counted THEN allowance ELSE UpTo(allowance + 2, FailMax)
    /\ counted' = counted \cup {r}
    /\ UNCHANGED expiry

\* The first copy of an INCR that is sent twice.
IncrementExtra ==
    /\ failures' = UpTo(failures + 1, FailMax)
    /\ allowance' = UpTo(allowance + 1, FailMax)
    /\ UNCHANGED <<expiry, counted>>

\* EXPIRE does nothing to a key that another run deleted meanwhile.
\* Mutant: a TTL longer than twice the reset timeout.
ArmLongExpiry ==
    /\ expiry' = IF failures > 0 THEN 3 * ResetTimeout ELSE expiry
    /\ UNCHANGED <<failures, counted, allowance>>

ArmExpiry ==
    /\ expiry' = IF failures > 0 THEN 2 * ResetTimeout ELSE expiry
    /\ UNCHANGED <<failures, counted, allowance>>
-----------------------------------------------------------------------------
(* __aenter__: get_state, a GET that may be followed by a SET.             *)

Begin(r) ==
    /\ Goto(r, "idle", "get_state")
    /\ counted' = counted \ {r}
    /\ UNCHANGED <<stateVars, failures, expiry, allowance, saw, record, count, tier1,
                   healthy>>

\* Mutant: get_state does not look at opened_at.
HalfOpenAtOnce(r) ==
    /\ \/ /\ breaker = "open"
          /\ Goto(r, "get_state", "set_half")
       \/ /\ breaker # "open"
          /\ Goto(r, "get_state", "tier1")
    /\ saw' = [saw EXCEPT ![r] = breaker]
    /\ UNCHANGED <<redisVars, record, count, tier1, healthy>>

GetState(r) ==
    /\ \/ /\ breaker = "open" /\ openFor >= ResetTimeout
          /\ Goto(r, "get_state", "set_half")
       \/ /\ breaker = "open" /\ openFor < ResetTimeout
          /\ Goto(r, "get_state", "decide")
       \/ /\ breaker # "open"
          /\ Goto(r, "get_state", "tier1")
    /\ saw' = [saw EXCEPT ![r] = IF phase'[r] \in Probing THEN breaker ELSE "stale"]
    /\ UNCHANGED <<redisVars, record, count, tier1, healthy>>

SetHalfOpen(r) ==
    /\ Goto(r, "set_half", "tier1")
    /\ WriteState("half_open")
    /\ saw' = [saw EXCEPT ![r] = IF saw[r] = "stale" THEN "stale" ELSE "half_open"]
    /\ UNCHANGED <<counterVars, record, count, tier1, healthy>>

\* Raising in __aenter__ skips __aexit__: only run_cascade records a failure.
Enter2ndRecord(r, from) ==
    /\ Goto(r, from, "incr")
    /\ record' = [record EXCEPT ![r] = 2]

LeaveProbing(r) == saw' = [saw EXCEPT ![r] = "stale"]

GetStateRaises(r) ==
    /\ ~healthy
    /\ Enter2ndRecord(r, "get_state")
    /\ UNCHANGED <<redisVars, saw, count, tier1, healthy>>

SetHalfOpenRaises(r) ==
    /\ ~healthy
    /\ Enter2ndRecord(r, "set_half")
    /\ WriteState("half_open") \/ UNCHANGED stateVars
    /\ LeaveProbing(r)
    /\ UNCHANGED <<counterVars, count, tier1, healthy>>
-----------------------------------------------------------------------------
(* run_tier1, then __aexit__.                                              *)

Tier1Answers(r) ==
    /\ Goto(r, "tier1", "success_del")
    /\ \E a \in Answers : tier1' = [tier1 EXCEPT ![r] = a]
    /\ UNCHANGED <<redisVars, saw, record, count, healthy>>

Tier1Fails(r) ==
    /\ ~healthy
    /\ Goto(r, "tier1", "incr")
    /\ LeaveProbing(r)
    /\ UNCHANGED <<redisVars, record, count, tier1, healthy>>

SuccessDelete(r) ==
    /\ Goto(r, "success_del", "success_set")
    /\ DeleteCounter
    /\ UNCHANGED <<stateVars, saw, record, count, tier1, healthy>>

\* Mutant: record_success clears the counter and leaves the state alone.
SuccessKeepsState(r) ==
    /\ Goto(r, "success_set", "decide")
    /\ LeaveProbing(r)
    /\ UNCHANGED <<redisVars, record, count, tier1, healthy>>

SuccessSet(r) ==
    /\ Goto(r, "success_set", "decide")
    /\ WriteState("closed")
    /\ LeaveProbing(r)
    /\ UNCHANGED <<counterVars, record, count, tier1, healthy>>

\* record_success raising turns the success into a failure of the cascade's.
SuccessRaises(r) ==
    /\ ~healthy
    /\ \/ /\ Enter2ndRecord(r, "success_del")
          /\ DeleteCounter \/ UNCHANGED counterVars
          /\ UNCHANGED stateVars
       \/ /\ Enter2ndRecord(r, "success_set")
          /\ WriteState("closed") \/ UNCHANGED stateVars
          /\ UNCHANGED counterVars
    /\ LeaveProbing(r)
    /\ UNCHANGED <<count, tier1, healthy>>
-----------------------------------------------------------------------------
(* record_failure, called by __aexit__ (record 1) and again by the except  *)
(* branch of run_cascade (record 2).                                       *)

\* Mutant: the second record may be made twice.
RecordedAgain(r, from) ==
    \/ Enter2ndRecord(r, from)
    \/ /\ record[r] = 2
       /\ Goto(r, from, "decide")
       /\ record' = [record EXCEPT ![r] = 1]

\* After the first record the exception reaches run_cascade, which records
\* it once more; after the second the cascade goes on.
Recorded(r, from) ==
    \/ /\ record[r] = 1
       /\ Enter2ndRecord(r, from)
    \/ /\ record[r] = 2
       /\ Goto(r, from, "decide")
       /\ record' = [record EXCEPT ![r] = 1]

Increment(r) ==
    /\ Goto(r, "incr", "expire")
    /\ IncrementCounter(r)
    /\ count' = [count EXCEPT ![r] = failures']
    /\ UNCHANGED <<stateVars, saw, record, tier1, healthy>>

SetExpiry(r) ==
    /\ ArmExpiry
    /\ \/ /\ count[r] >= FailMax
          /\ Goto(r, "expire", "trip")
          /\ UNCHANGED record
       \/ /\ count[r] < FailMax
          /\ Recorded(r, "expire")
    /\ count' = [count EXCEPT ![r] = 0]
    /\ UNCHANGED <<stateVars, saw, tier1, healthy>>

Trip(r) ==
    /\ WriteOpen
    /\ Recorded(r, "trip")
    /\ UNCHANGED <<counterVars, count, tier1, healthy>>

\* record_failure raising: inside __aexit__ the new exception is recorded
\* by run_cascade; inside the except branch it leaves run_cascade.
RecordRaises(r) ==
    /\ ~healthy
    /\ \/ /\ record[r] = 1
          /\ \E p \in Recording : Enter2ndRecord(r, p)
       \/ /\ record[r] = 2
          /\ \E p \in Recording : Goto(r, p, "idle")
          /\ record' = [record EXCEPT ![r] = 1]
    /\ \/ UNCHANGED <<redisVars, saw>>
       \/ phase[r] = "incr" /\ IncrementCounter(r) /\ UNCHANGED <<stateVars, saw>>
       \/ phase[r] = "expire" /\ ArmExpiry /\ UNCHANGED <<stateVars, saw>>
       \/ phase[r] = "trip" /\ WriteOpen /\ UNCHANGED counterVars
    /\ count' = [count EXCEPT ![r] = 0]
    /\ tier1' = IF record[r] = 2 THEN [tier1 EXCEPT ![r] = NoResult] ELSE tier1
    /\ UNCHANGED healthy
-----------------------------------------------------------------------------
(* The rest of run_cascade: accept Tier 1, or escalate to Tier 3.          *)

\* What run_cascade may return: the sure answer of Tier 1, else what Tier 3
\* says, else whatever Tier 1 said on a replica without a key.
Outcomes(r) ==
    CASE tier1[r].sure -> {tier1[r]}
      [] ~tier1[r].sure /\ r \in Keyed -> Tier3Results \cup {NobodyRuled}
      [] OTHER -> {IF tier1[r] = NoResult THEN NobodyRuled ELSE tier1[r]}

Return(r) ==
    /\ Goto(r, "decide", "idle")
    /\ tier1' = [tier1 EXCEPT ![r] = NoResult]
    /\ UNCHANGED <<redisVars, saw, record, count, healthy>>
-----------------------------------------------------------------------------
(* retry_on_timeout: a command that was applied, but whose reply is late,  *)
(* is sent once more (Retry of the redis client: one retry), and what      *)
(* other runs do in the two seconds between comes in between.              *)
Resend(r) ==
    /\ ~healthy
    /\ r \notin resent
    /\ resent' = resent \cup {r}
    /\ \/ /\ \/ phase[r] = "set_half" /\ WriteState("half_open")
             \/ phase[r] = "success_set" /\ WriteState("closed")
          /\ UNCHANGED <<counterVars, saw>>
       \/ phase[r] = "trip" /\ WriteOpen /\ UNCHANGED counterVars
       \/ /\ \/ phase[r] = "success_del" /\ DeleteCounter
             \/ phase[r] = "incr" /\ IncrementExtra
             \/ phase[r] = "expire" /\ ArmExpiry
          /\ UNCHANGED <<stateVars, saw>>
    /\ UNCHANGED <<phase, record, count, tier1, healthy>>
-----------------------------------------------------------------------------
Tick ==
    /\ openFor' = IF breaker = "open" THEN UpTo(openFor + 1, ResetTimeout) ELSE 0
    /\ \/ /\ expiry = 1
          /\ DeleteCounter
       \/ /\ expiry # 1
          /\ expiry' = IF expiry > 1 THEN expiry - 1 ELSE 0
          /\ UNCHANGED <<failures, counted, allowance>>
    /\ UNCHANGED <<breaker, phase, resent, saw, record, count, tier1, healthy>>

\* The runbook's manual reset: an operator deletes both keys.
OperatorReset ==
    /\ ~healthy
    /\ WriteState("closed")
    /\ DeleteCounter
    /\ UNCHANGED <<phase, resent, saw, record, count, tier1, healthy>>

\* The gateway process of the run dies; Redis keeps what it has.
Crash(r) ==
    /\ ~healthy
    /\ phase[r] # "idle"
    /\ Goto(r, phase[r], "idle")
    /\ LeaveProbing(r)
    /\ record' = [record EXCEPT ![r] = 1]
    /\ count' = [count EXCEPT ![r] = 0]
    /\ tier1' = [tier1 EXCEPT ![r] = NoResult]
    /\ UNCHANGED <<redisVars, healthy>>

Recover ==
    /\ ~healthy
    /\ healthy' = TRUE
    /\ UNCHANGED <<redisVars, phase, resent, saw, record, count, tier1>>

RunStep(r) ==
    \/ Begin(r) \/ GetState(r) \/ SetHalfOpen(r)
    \/ GetStateRaises(r) \/ SetHalfOpenRaises(r)
    \/ Tier1Answers(r) \/ Tier1Fails(r)
    \/ SuccessDelete(r) \/ SuccessSet(r) \/ SuccessRaises(r)
    \/ Increment(r) \/ SetExpiry(r) \/ Trip(r) \/ RecordRaises(r)
    \/ Return(r)

Next ==
    \/ \E r \in Runs : RunStep(r) \/ Resend(r) \/ Crash(r)
    \/ Tick \/ OperatorReset \/ Recover

Spec == Init /\ [][Next]_vars

\* Agents keep calling, the event loops keep running, the clock runs; the
\* outage may end but need not, and no fault has to happen.
Fairness == WF_vars(Tick) /\ \A r \in Runs : WF_vars(RunStep(r))

FairSpec == Spec /\ Fairness
-----------------------------------------------------------------------------
(* While the breaker is OPEN and its reset timeout has not passed, every   *)
(* run that is calling Tier 1 or about to change the state read the        *)
(* breaker before it tripped: a run that looks later bypasses Tier 1       *)
(* (get_state, __aenter__).  So an OPEN period is cut short only by a run  *)
(* that was under way when it began.                                       *)
NoProbeDuringCoolDown ==
    breaker = "open" /\ openFor < ResetTimeout =>
        \A r \in Runs : phase[r] \in Probing => saw[r] = "stale"

(* The counter never holds more than two records for each failed run, the  *)
(* one of __aexit__ and the one of run_cascade, and one more for each INCR *)
(* the client sent twice: so a trip needs at least half of FailMax failed  *)
(* runs since the counter was last deleted, but for re-sent INCRs.         *)
TwoRecordsPerRun == failures <= allowance

(* ALLOWED is a sure ruling: neither an unsure Tier-1 answer on a replica  *)
(* without a Tier 3, nor one kept across a failure to record it, nor the   *)
(* fallback of run_cascade lets a call run whose checks did not both reach *)
(* the confidence their tier asks for (tier1.py:110, cascade.py:88).       *)
AllowedIsSure ==
    \A r \in Runs : phase[r] = "decide" =>
        \A o \in Outcomes(r) : o.verdict = "ALLOWED" => o.sure

(* Once Ollama and Redis are back for good and agents keep calling, the    *)
(* breaker ends up CLOSED and stays so, and no failure of the outage is    *)
(* left on the counter, not even on one that a crash between INCR and      *)
(* EXPIRE left without a TTL: old failures count towards no later trip.    *)
EventuallyCloses == healthy ~> [](breaker = "closed" /\ failures = 0)

(* "HALF_OPEN -> one probe request allowed": at most one run that was      *)
(* admitted by a HALF_OPEN breaker is calling Tier 1.                      *)
OneProbe ==
    Cardinality({r \in Runs : phase[r] = "tier1" /\ saw[r] = "half_open"}) <= 1
=============================================================================

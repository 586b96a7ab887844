------------------------------ MODULE ToolCall ------------------------------
(***************************************************************************)
(* One tool call end to end: POST /v1/tool-calls                           *)
(* (gateway/routes/tool_calls.py) with its two reads of the active policy  *)
(* (policies/loader.py) while an administrator activates another version,  *)
(* its background tasks, and the client that acts on the answer: the SDK's *)
(* check_and_raise, scripts/terminal_guard.py or                           *)
(* scripts/gmail_guarded_send.py.  Every Redis command is a step.  The     *)
(* cognitive path is cut down to what CognitivePath.tla shows it promises: *)
(* a ruling, and an agent told that ruling or HUMAN_REVIEW.                *)
(***************************************************************************)
EXTENDS FastPath

CONSTANTS Calls,           \* decision ids
          Tenants,         \* tenant ids
          System,          \* _SYSTEM_TENANT
          Tenant,          \* the tenant of the agent behind each call
          Newest,          \* versions 1..Newest of the policy group are on disk
          Rules,           \* the rules of each of them, in YAML order
          Requests,        \* the tool calls each kind of client makes
          MaxActivations   \* bound on activations, for TLC

ASSUME ToolCallAssumption ==
    /\ System \in Tenants
    /\ Tenant \in [Calls -> Tenants]
    /\ Newest \in Nat
    /\ Rules \in [1..Newest -> Seq(Rule)]
    /\ MaxActivations \in Nat

VARIABLES
    active,       \* policy:active:<tenant>:<group>, 0 when the key is absent
    activations,  \* activations so far
    kind,         \* the client of each call
    request,      \* what it asks
    phase,        \* where the handler stands, then its background tasks
    found,        \* what the last get_active_policy returned
    applied,      \* the version whose rules were applied, Unread before
    recorded,     \* the version in the answer and the audit event
    due,          \* the version active when the handler began to look
    disturbed,    \* calls during whose reads a key moved or Redis failed
    reply,        \* the HTTP answer
    judged,       \* what the judge ruled
    trail,        \* the audit event handed to the pipeline
    shown,        \* the verdict published on the dashboard channel
    client,       \* what the client did
    heard         \* calls whose HTTP answer reached the client

policyVars == <<active, activations, due, disturbed>>
readVars == <<found, applied, recorded>>
taskVars == <<judged, trail, shown>>
clientVars == <<client, heard>>
vars == <<active, activations, kind, request, phase, found, applied, recorded,
          due, disturbed, reply, judged, trail, shown, client, heard>>

OnDisk == 1..Newest
Versions == 0..Newest   \* 0: the group has no policy on disk
Unread == -1
Unset == "none"
NoEvent == [verdict |-> Unset, version |-> Unread]

Kinds == {"sdk", "guard", "guard_closed", "mail"}
Reading == {"get_tenant", "get_system", "got"}
Tasks == {"judge", "audit", "publish"}
Phases == {"new", "done", "dead"} \cup Reading \cup Tasks
Replies == Verdicts \cup {Unset, "pending", "401", "429", "500"}
Reactions == {"ran", "ran_unchecked", "refused", "raised"}

TypeOK ==
    /\ active \in [Tenants -> 0..(Newest + 1)]
    /\ activations \in 0..MaxActivations
    /\ kind \in [Calls -> Kinds]
    /\ \A c \in Calls : request[c] \in Requests[kind[c]]
    /\ phase \in [Calls -> Phases]
    /\ found \in [Calls -> Versions]
    /\ applied \in [Calls -> Versions \cup {Unread}]
    /\ recorded \in [Calls -> Versions \cup {Unread}]
    /\ due \in [Calls -> Versions]
    /\ disturbed \in SUBSET Calls
    /\ reply \in [Calls -> Replies]
    /\ judged \in [Calls -> Verdicts \cup {Unset}]
    /\ trail \in [Calls -> [verdict : Verdicts \cup {Unset},
                            version : Versions \cup {Unread}]]
    /\ shown \in [Calls -> Verdicts \cup {Unset}]
    /\ client \in [Calls -> Reactions \cup {"waiting", "polling"}]
    /\ heard \in SUBSET Calls

\* A key may name version Newest + 1, which a roll-back took off the disk.
Init ==
    /\ active \in [Tenants -> 0..(Newest + 1)]
    /\ activations = 0
    /\ kind \in [Calls -> Kinds]
    /\ request \in {r \in [Calls -> UNION {Requests[k] : k \in Kinds}] :
                       \A c \in Calls : r[c] \in Requests[kind[c]]}
    /\ phase = [c \in Calls |-> "new"]
    /\ found = [c \in Calls |-> 0]
    /\ applied = [c \in Calls |-> Unread]
    /\ recorded = [c \in Calls |-> Unread]
    /\ due = [c \in Calls |-> 0]
    /\ disturbed = {}
    /\ reply = [c \in Calls |-> Unset]
    /\ judged = [c \in Calls |-> Unset]
    /\ trail = [c \in Calls |-> NoEvent]
    /\ shown = [c \in Calls |-> Unset]
    /\ client = [c \in Calls |-> "waiting"]
    /\ heard = {}

Goto(c, from, to) ==
    /\ phase[c] = from
    /\ phase' = [phase EXCEPT ![c] = to]

Answer(c, r) == reply' = [reply EXCEPT ![c] = r]
-----------------------------------------------------------------------------
(* The policy store.                                                       *)

\* get_active_policy if nothing moved under it.
ActivePolicy(t) ==
    IF active[t] \in OnDisk THEN active[t]
    ELSE IF active[System] \in OnDisk THEN active[System] ELSE Newest

RulesOf(v) == IF v \in OnDisk THEN Rules[v] ELSE <<>>

\* activate_policy_version: the route for the administrator's own tenant,
\* scripts/activate_policy.py for any.  A version not on disk is refused.
Activate(t, v) ==
    /\ v \in OnDisk
    /\ activations < MaxActivations
    /\ activations' = activations + 1
    /\ active' = [active EXCEPT ![t] = v]
    /\ disturbed' = disturbed \cup {c \in Calls : phase[c] \in Reading}
    /\ UNCHANGED <<kind, request, phase, readVars, due, reply, taskVars, clientVars>>
-----------------------------------------------------------------------------
(* The handler.  TokenBucket.tla is the rate limiter itself.               *)

\* require_agent, in front of the handler: a revoked key, or one the guard or
\* the mail script cached before Redis was emptied.
Unauthorized(c) ==
    /\ Goto(c, "new", "done")
    /\ Answer(c, "401")
    /\ UNCHANGED <<policyVars, kind, request, readVars, taskVars, clientVars>>

\* Its audit and publish tasks go with the answer the raise throws away.
Limited(c) ==
    /\ Goto(c, "new", "done")
    /\ Answer(c, "429")
    /\ UNCHANGED <<policyVars, kind, request, readVars, taskVars, clientVars>>

Admit(c) ==
    /\ Goto(c, "new", "get_tenant")
    /\ due' = [due EXCEPT ![c] = ActivePolicy(Tenant[c])]
    /\ UNCHANGED <<active, activations, disturbed, kind, request, readVars,
                   reply, taskVars, clientVars>>

Find(c, v) == found' = [found EXCEPT ![c] = v]

\* Mutant: _active_policy_version is called with its default tenant.
GetDefaultTenantKey(c) ==
    LET t == IF applied[c] = Unread THEN Tenant[c] ELSE System
    IN  /\ IF active[t] \in OnDisk
           THEN Goto(c, "get_tenant", "got") /\ Find(c, active[t])
           ELSE Goto(c, "get_tenant", "get_system") /\ UNCHANGED found
        /\ UNCHANGED <<policyVars, kind, request, applied, recorded, reply,
                       taskVars, clientVars>>

GetTenantKey(c) ==
    /\ IF active[Tenant[c]] \in OnDisk
       THEN Goto(c, "get_tenant", "got") /\ Find(c, active[Tenant[c]])
       ELSE Goto(c, "get_tenant", "get_system") /\ UNCHANGED found
    /\ UNCHANGED <<policyVars, kind, request, applied, recorded, reply,
                   taskVars, clientVars>>

\* Mutant: the version the key names is not looked for on disk.
TrustSystemKey(c) ==
    /\ Goto(c, "get_system", "got")
    /\ Find(c, IF active[System] > 0 THEN active[System] ELSE Newest)
    /\ UNCHANGED <<policyVars, kind, request, applied, recorded, reply,
                   taskVars, clientVars>>

GetSystemKey(c) ==
    /\ Goto(c, "get_system", "got")
    /\ Find(c, IF active[System] \in OnDisk THEN active[System] ELSE Newest)
    /\ UNCHANGED <<policyVars, kind, request, applied, recorded, reply,
                   taskVars, clientVars>>

\* Any exception falls back to the newest version on disk, in silence.
GetKeyRaises(c) ==
    /\ Goto(c, "get_tenant", "got") \/ Goto(c, "get_system", "got")
    /\ Find(c, Newest)
    /\ disturbed' = disturbed \cup {c}
    /\ UNCHANGED <<active, activations, due, kind, request, applied, recorded,
                   reply, taskVars, clientVars>>

\* The first of the two reads: the rules to apply.
ReadRules(c) ==
    /\ applied[c] = Unread
    /\ Goto(c, "got", "get_tenant")
    /\ applied' = [applied EXCEPT ![c] = found[c]]
    /\ UNCHANGED <<policyVars, kind, request, found, recorded, reply,
                   taskVars, clientVars>>

FastVerdict(c) == EvaluateFastPath(RulesOf(applied[c]), request[c])

\* Mutant: a call the classifier sends to the judge goes there, blocked or not.
JudgeWhateverBlocked(c) == FastVerdict(c) = "ESCALATE" \/ Cognitive(request[c])

NeedsJudge(c) ==
    /\ FastVerdict(c) = "ESCALATE" \/ Cognitive(request[c])
    /\ FastVerdict(c) # "BLOCKED"

\* The second read: the version for the answer and the audit event.
Record(c) ==
    /\ applied[c] # Unread
    /\ recorded' = [recorded EXCEPT ![c] = found[c]]
    /\ UNCHANGED <<policyVars, kind, request, found, applied, taskVars, clientVars>>

AnswerFast(c) ==
    /\ Record(c)
    /\ ~NeedsJudge(c)
    /\ Goto(c, "got", "audit")
    /\ Answer(c, FastVerdict(c))

\* The answer is a plain HTTP 200: the route's status_code.
AnswerPending(c) ==
    /\ Record(c)
    /\ NeedsJudge(c)
    /\ Goto(c, "got", "judge")
    /\ Answer(c, "pending")

StorePendingRaises(c) ==
    /\ Record(c)
    /\ NeedsJudge(c)
    /\ Goto(c, "got", "done")
    /\ Answer(c, "500")
-----------------------------------------------------------------------------
(* The background tasks, run one after the other once the answer is sent.  *)

Handler == <<kind, request, readVars, reply>>

\* run_cognitive_evaluation, cut down to its promise.
JudgeRules(c) ==
    /\ Goto(c, "judge", "audit")
    /\ \E v \in Verdicts : judged' = [judged EXCEPT ![c] = v]
    /\ UNCHANGED <<policyVars, Handler, trail, shown, clientVars>>

\* Its except block: nothing is audited, HUMAN_REVIEW is published.
JudgeFails(c) ==
    /\ Goto(c, "judge", "publish")
    /\ UNCHANGED <<policyVars, Handler, taskVars, clientVars>>

\* Mutant: the version is looked up again when the event is written.
AuditActive(c) ==
    /\ Goto(c, "audit", "publish")
    /\ trail' = [trail EXCEPT ![c] =
                    [verdict |-> IF reply[c] = "pending" THEN judged[c] ELSE reply[c],
                     version |-> ActivePolicy(Tenant[c])]]
    /\ UNCHANGED <<policyVars, Handler, judged, shown, clientVars>>

Enqueued(c) ==
    trail' = [trail EXCEPT ![c] =
                [verdict |-> IF reply[c] = "pending" THEN judged[c] ELSE reply[c],
                 version |-> recorded[c]]]

\* The pipeline may lose the event without raising (AuditPipeline.tla).
Audit(c) ==
    /\ Goto(c, "audit", "publish")
    /\ Enqueued(c) \/ UNCHANGED trail
    /\ UNCHANGED <<policyVars, Handler, judged, shown, clientVars>>

\* An audit task that raises takes the publish task behind it along; the
\* cognitive task goes on in its except block.
AuditRaises(c) ==
    /\ IF reply[c] = "pending" THEN Goto(c, "audit", "publish")
                               ELSE Goto(c, "audit", "done")
    /\ Enqueued(c) \/ UNCHANGED trail
    /\ UNCHANGED <<policyVars, Handler, judged, shown, clientVars>>

\* Publishing never raises; a message Redis did not take is lost.
Publish(c) ==
    /\ Goto(c, "publish", "done")
    /\ \/ UNCHANGED shown
       \/ \E v \in (IF reply[c] = "pending" THEN {judged[c], "HUMAN_REVIEW"}
                                              ELSE {reply[c]}) \ {Unset} :
              shown' = [shown EXCEPT ![c] = v]
    /\ UNCHANGED <<policyVars, Handler, judged, trail, clientVars>>

\* The gateway process dies under the handler or under its tasks.
Crash(c) ==
    /\ phase[c] \in Reading \cup Tasks
    /\ phase' = [phase EXCEPT ![c] = "dead"]
    /\ UNCHANGED <<policyVars, Handler, taskVars, clientVars>>
-----------------------------------------------------------------------------
(* The clients.  "ran" is a call made on the strength of an answer,        *)
(* "ran_unchecked" one made because asking for an answer failed.           *)

\* AgentClient.check, then check_and_raise or an if on is_allowed.
SdkReaction(answer) ==
    CASE answer = "ALLOWED" -> "ran"
      [] answer \in {"BLOCKED", "HUMAN_REVIEW", "429"} -> "refused"
      [] answer = "pending" -> "polling"
      [] OTHER -> "raised"

\* evaluate: fail open unless --fail-closed.
GuardError(k) == IF k = "guard_closed" THEN "refused" ELSE "ran_unchecked"

\* Mutant: without the branch for 429, rate limiting is a failure.
GuardIgnores429(k, answer) ==
    CASE answer \in {"BLOCKED", "HUMAN_REVIEW"} -> "refused"
      [] answer \in {"401", "429", "500"} -> GuardError(k)
      [] OTHER -> "ran"

\* evaluate: it polls only on 202, and body.get("verdict", "ALLOWED") finds
\* no verdict in a pending answer.
GuardReaction(k, answer) ==
    CASE answer \in {"BLOCKED", "HUMAN_REVIEW", "429"} -> "refused"
      [] answer \in {"401", "500"} -> GuardError(k)
      [] OTHER -> "ran"

\* Mutant: the mail script takes the guard's default for a missing verdict.
MailTrustsMissing(answer) ==
    CASE answer \in {"ALLOWED", "pending"} -> "ran"
      [] answer \in {"BLOCKED", "HUMAN_REVIEW"} -> "refused"
      [] OTHER -> "raised"

\* main: decision.get("verdict", "") is not ALLOWED in a pending answer.
MailReaction(answer) ==
    CASE answer = "ALLOWED" -> "ran"
      [] answer \in {"BLOCKED", "HUMAN_REVIEW", "pending"} -> "refused"
      [] OTHER -> "raised"

Reaction(k, answer) ==
    CASE k = "sdk" -> SdkReaction(answer)
      [] k = "mail" -> MailReaction(answer)
      [] OTHER -> GuardReaction(k, answer)

React(c, answer) ==
    /\ client[c] = "waiting"
    /\ client' = [client EXCEPT ![c] = Reaction(kind[c], answer)]
    /\ UNCHANGED <<policyVars, Handler, phase, taskVars>>

Receive(c) ==
    /\ reply[c] # Unset
    /\ heard' = heard \cup {c}
    /\ React(c, reply[c])

\* Gateway unreachable or too slow, or its answer lost: an exception, which
\* every client takes for what it takes a 500 for.
Lose(c) == React(c, "500") /\ UNCHANGED heard

\* _poll_decision of the SDK: the ruling, or HUMAN_REVIEW after a fallback
\* or too many polls, or a connection error.
Poll(c) ==
    /\ client[c] = "polling"
    /\ \E v \in {SdkReaction(judged[c]), "refused", "raised"} :
           client' = [client EXCEPT ![c] = v]
    /\ UNCHANGED <<policyVars, Handler, phase, taskVars, heard>>
-----------------------------------------------------------------------------
GetActivePolicy(c) == GetTenantKey(c) \/ GetSystemKey(c) \/ GetKeyRaises(c)

Respond(c) == AnswerFast(c) \/ AnswerPending(c) \/ StorePendingRaises(c)

BackgroundTask(c) ==
    JudgeRules(c) \/ JudgeFails(c) \/ Audit(c) \/ AuditRaises(c) \/ Publish(c)

Next ==
    \/ \E t \in Tenants : \E v \in OnDisk : Activate(t, v)
    \/ \E c \in Calls :
          \/ Unauthorized(c) \/ Limited(c) \/ Admit(c)
          \/ GetActivePolicy(c) \/ ReadRules(c) \/ Respond(c)
          \/ BackgroundTask(c) \/ Crash(c)
          \/ Receive(c) \/ Lose(c) \/ Poll(c)

Spec == Init /\ [][Next]_vars
-----------------------------------------------------------------------------
(* Unless a key moved or Redis failed while the handler read them, the     *)
(* rules applied to a call and the version recorded for it are both those  *)
(* of the policy active for the agent's tenant when the handler began,     *)
(* although get_active_policy runs twice and makes two reads each time.    *)
PolicyIsTheActiveOne ==
    \A c \in Calls \ disturbed :
        /\ applied[c] \in {Unread, due[c]}
        /\ recorded[c] \in {Unread, due[c]}

(* "hard blocks skip judge": once the rules applied to a call block it, no *)
(* judge is asked, no other verdict is answered, audited or published, and *)
(* no client makes the call on the strength of an answer.                  *)
HardBlockIsFinal ==
    \A c \in Calls : applied[c] # Unread /\ FastVerdict(c) = "BLOCKED" =>
        /\ judged[c] = Unset
        /\ {reply[c], trail[c].verdict, shown[c]} \subseteq {Unset, "BLOCKED"}
        /\ client[c] # "ran"

(* The SDK and the mail script make a call only if the rules let it pass   *)
(* and the classifier asked for no judge, or if the judge allowed it.      *)
RunsOnlyIfAllowed ==
    \A c \in Calls : kind[c] \in {"sdk", "mail"} /\ client[c] = "ran" =>
        IF NeedsJudge(c) THEN judged[c] = "ALLOWED" ELSE FastVerdict(c) = "ALLOWED"

(* A client that was told to refrain, by a verdict or by a 429, does not   *)
(* make the call, not even the guard that fails open on errors.            *)
RefusalIsObeyed ==
    \A c \in heard : reply[c] \in {"BLOCKED", "HUMAN_REVIEW", "429"} =>
        client[c] \in {"refused", "raised"}

(* The audit event and the dashboard tell what the agent was told and the  *)
(* version it was told, whatever is activated meanwhile; for a call that   *)
(* went to the judge, what the judge ruled or HUMAN_REVIEW.                *)
TrailTellsTheAnswer ==
    \A c \in Calls :
        LET verdict == IF reply[c] = "pending" THEN judged[c] ELSE reply[c]
        IN  /\ trail[c] \in {NoEvent, [verdict |-> verdict, version |-> recorded[c]]}
            /\ shown[c] \in {Unset, verdict} \cup
                   (IF reply[c] = "pending" THEN {"HUMAN_REVIEW"} ELSE {})

(* Adding a rule whose action is block, of any type and at any place, to   *)
(* the policy applied to a call leaves its verdict alone or blocks it.     *)
(* For a human_review rule that is false: placed in an earlier pass it     *)
(* hides a later block rule.                                               *)
Insert(rules, i, rule) ==
    [j \in 1..(Len(rules) + 1) |->
        IF j < i THEN rules[j] ELSE IF j = i THEN rule ELSE rules[j - 1]]

BlockRulesOnlyTighten ==
    \A c \in Calls : phase[c] = "got" /\ applied[c] \in OnDisk =>
        \A v \in OnDisk : \A k \in DOMAIN Rules[v] :
            LET rules == Rules[applied[c]]
                rule  == [Rules[v][k] EXCEPT !.action = "block"]
            IN  \A i \in 1..(Len(rules) + 1) :
                   EvaluateFastPath(Insert(rules, i, rule), request[c])
                       \in {FastVerdict(c), "BLOCKED"}

(* The flow of the route as its docstring has it, "store pending, return   *)
(* 202", which the guard relies on ("evaluates a terminal command against  *)
(* Sentinel before execution"): a command is not run while its decision is *)
(* pending.                                                                *)
GuardWaits ==
    \A c \in Calls : kind[c] \in {"guard", "guard_closed"} /\ client[c] = "ran" =>
        reply[c] = "ALLOWED"
=============================================================================

------------------------------ MODULE Registry ------------------------------
(***************************************************************************)
(* The agent registry in Redis and what hangs on it: POST /v1/agents and   *)
(* GET /v1/agents/{id} (gateway/routes/agents.py), store_api_key,          *)
(* validate_api_key and revoke_api_key (gateway/auth/api_keys.py), the     *)
(* resolution of an API key on every request (gateway/middleware/auth.py)  *)
(* and the Agent nodes that audit events make (database/audit_writer.py),  *)
(* those of agents and those of identities that were never registered.     *)
(*                                                                         *)
(* An agent id and its key are drawn anew by every registration, so an     *)
(* element of Agents stands for one registration request.  Every Redis     *)
(* command is a step and may raise, after it was applied or without having *)
(* been; requests run side by side, on one gateway or several.             *)
(***************************************************************************)
CONSTANTS Agents,    \* registration requests, with the id and key each draws
          Names,     \* names within a tenant
          NoAgent,
          Outsider   \* an identity that register_agent knows nothing of

ASSUME RegistryAssumption ==
    /\ NoAgent \notin Agents
    /\ Outsider \notin Agents \cup {NoAgent}

VARIABLES
    name,      \* the name each request registers
    reg,       \* where register_agent stands
    keys,      \* agents whose agent:key:<hash> exists
    index,     \* agents whose agent:id:<id> exists
    owner,     \* agent:name:<tenant>:<name>
    info,      \* agents whose agent:info:<id> exists
    given,     \* agents whose key was returned to whoever registered them
    met,       \* agents that checked a name while a namesake was about to take it
    revoke,    \* where the last revoke_api_key for the agent stands
    node,      \* the Agent node in Neo4j that holds a name
    foreign,   \* names that an outsider's node has held
    rejected   \* agents one of whose audit events Neo4j refused

redisVars == <<keys, index, owner, info>>
clientVars == <<given, met>>
graphVars == <<node, foreign, rejected>>
vars == <<name, reg, redisVars, clientVars, revoke, graphVars>>

Storing == {"set_key", "set_id", "set_name", "set_info"}
Phases == {"new", "registered", "conflict", "failed"} \cup Storing
Revoking == {"delete_key", "delete_id"}

TypeOK ==
    /\ name \in [Agents -> Names]
    /\ reg \in [Agents -> Phases]
    /\ keys \in SUBSET Agents
    /\ index \in SUBSET Agents
    /\ owner \in [Names -> Agents \cup {NoAgent}]
    /\ info \in SUBSET Agents
    /\ given \in SUBSET Agents
    /\ met \in SUBSET Agents
    /\ revoke \in [Agents -> {"idle", "revoked"} \cup Revoking]
    /\ node \in [Names -> Agents \cup {NoAgent, Outsider}]
    /\ foreign \in SUBSET Names
    /\ rejected \in SUBSET Agents

Init ==
    /\ name \in [Agents -> Names]
    /\ reg = [a \in Agents |-> "new"]
    /\ keys = {}
    /\ index = {}
    /\ owner = [n \in Names |-> NoAgent]
    /\ info = {}
    /\ given = {}
    /\ met = {}
    /\ revoke = [a \in Agents |-> "idle"]
    /\ node = [n \in Names |-> NoAgent]
    /\ foreign = {}
    /\ rejected = {}

Goto(a, from, to) ==
    /\ reg[a] = from
    /\ reg' = [reg EXCEPT ![a] = to]

Namesakes(a) == {b \in Agents \ {a} : name[b] = name[a]}
-----------------------------------------------------------------------------
(* register_agent.  Any exception is a 500: the key drawn is never shown.  *)

\* Mutant: the name is not looked up.
CheckNothing(a) ==
    /\ Goto(a, "new", "set_key")
    /\ UNCHANGED <<name, redisVars, clientVars, revoke, graphVars>>

CheckName(a) ==
    /\ IF owner[name[a]] = NoAgent
       THEN /\ Goto(a, "new", "set_key")
            /\ LET rivals == {b \in Namesakes(a) : reg[b] \in Storing}
               IN  met' = met \cup rivals \cup (IF rivals = {} THEN {} ELSE {a})
       ELSE /\ Goto(a, "new", "conflict")
            /\ UNCHANGED met
    /\ UNCHANGED <<name, redisVars, given, revoke, graphVars>>

WriteKey(a) == keys' = keys \cup {a} /\ UNCHANGED <<index, owner, info>>
WriteIndex(a) == index' = index \cup {a} /\ UNCHANGED <<keys, owner, info>>

\* Mutant: the name is stored under the name, not the agent id.
OwnerIsName(a) ==
    /\ owner' = [owner EXCEPT ![name[a]] = name[a]]
    /\ UNCHANGED <<keys, index, info>>

WriteOwner(a) ==
    /\ owner' = [owner EXCEPT ![name[a]] = a]
    /\ UNCHANGED <<keys, index, info>>
WriteInfo(a) == info' = info \cup {a} /\ UNCHANGED <<keys, index, owner>>

\* Mutant: store_api_key writes the reverse index before the key.
IndexFirst(a) ==
    /\ \/ Goto(a, "set_key", "set_id") /\ WriteIndex(a)
       \/ Goto(a, "set_id", "set_name") /\ WriteKey(a)
    /\ UNCHANGED <<name, clientVars, revoke, graphVars>>

\* store_api_key: the key, then the reverse index.
StoreKey(a) ==
    /\ \/ Goto(a, "set_key", "set_id") /\ WriteKey(a)
       \/ Goto(a, "set_id", "set_name") /\ WriteIndex(a)
    /\ UNCHANGED <<name, clientVars, revoke, graphVars>>

StoreName(a) ==
    /\ Goto(a, "set_name", "set_info")
    /\ WriteOwner(a)
    /\ UNCHANGED <<name, clientVars, revoke, graphVars>>

\* Mutant: the answer is sent before the agent's info is stored.
AnswerEarly(a) ==
    /\ Goto(a, "set_info", "registered")
    /\ given' = given \cup {a}
    /\ WriteInfo(a) \/ UNCHANGED redisVars
    /\ UNCHANGED <<name, met, revoke, graphVars>>

\* The last write, and the answer that shows the key, which may be lost.
StoreInfo(a) ==
    /\ Goto(a, "set_info", "registered")
    /\ WriteInfo(a)
    /\ given' \in {given, given \cup {a}}
    /\ UNCHANGED <<name, met, revoke, graphVars>>

RegistrationRaises(a) ==
    /\ reg' = [reg EXCEPT ![a] = "failed"]
    /\ \/ reg[a] \in {"new"} \cup Storing /\ UNCHANGED redisVars
       \/ reg[a] = "set_key" /\ WriteKey(a)
       \/ reg[a] = "set_id" /\ WriteIndex(a)
       \/ reg[a] = "set_name" /\ WriteOwner(a)
       \/ reg[a] = "set_info" /\ WriteInfo(a)
    /\ UNCHANGED <<name, clientVars, revoke, graphVars>>
-----------------------------------------------------------------------------
(* revoke_api_key, by an operator who knows the agent id.  It raises where *)
(* a command raises, and may then be called again.                         *)

RevokeGoto(a, to) == revoke' = [revoke EXCEPT ![a] = to]

FindHash(a) ==
    /\ revoke[a] \in {"idle", "revoked"}
    /\ a \in index
    /\ RevokeGoto(a, "delete_key")
    /\ UNCHANGED <<name, reg, redisVars, clientVars, graphVars>>

DropKey(a) == keys' = keys \ {a} /\ UNCHANGED <<index, owner, info>>
DropIndex(a) == index' = index \ {a} /\ UNCHANGED <<keys, owner, info>>

\* Mutant: the reverse index is deleted before the key.
DeleteIndexFirst(a) ==
    /\ \/ revoke[a] = "delete_key" /\ RevokeGoto(a, "delete_id") /\ DropIndex(a)
       \/ revoke[a] = "delete_id" /\ RevokeGoto(a, "revoked") /\ DropKey(a)
    /\ UNCHANGED <<name, reg, clientVars, graphVars>>

Delete(a) ==
    /\ \/ revoke[a] = "delete_key" /\ RevokeGoto(a, "delete_id") /\ DropKey(a)
       \/ revoke[a] = "delete_id" /\ RevokeGoto(a, "revoked") /\ DropIndex(a)
    /\ UNCHANGED <<name, reg, clientVars, graphVars>>

RevocationRaises(a) ==
    /\ RevokeGoto(a, "idle")
    /\ \/ revoke[a] \in Revoking /\ UNCHANGED redisVars
       \/ revoke[a] = "delete_key" /\ DropKey(a)
       \/ revoke[a] = "delete_id" /\ DropIndex(a)
    /\ UNCHANGED <<name, reg, clientVars, graphVars>>
-----------------------------------------------------------------------------
(* Requests of an agent that has its key: _resolve_from_api_key finds the  *)
(* key or answers 401, which changes nothing.                              *)

Authenticated(a) == a \in given /\ a \in keys

\* A governed call is audited: MERGE on the agent's id, ON CREATE SET its name,
\* under the constraint that (name, tenant_id) is unique.
AuditCall(a) ==
    /\ Authenticated(a)
    /\ IF node[name[a]] \in {NoAgent, a}
       THEN node' = [node EXCEPT ![name[a]] = a] /\ UNCHANGED rejected
       ELSE rejected' = rejected \cup {a} /\ UNCHANGED node
    /\ UNCHANGED <<name, reg, redisVars, clientVars, revoke, foreign>>

\* The audit event of an outsider: a call with the admin key, which answers to
\* "Sentinel Admin", or one that scripts/seed_neo4j.py writes under the name
\* of a demo agent.  No agent:name:* goes with it.
OutsiderAudited(n) ==
    /\ node[n] = NoAgent
    /\ node' = [node EXCEPT ![n] = Outsider]
    /\ foreign' = foreign \cup {n}
    /\ UNCHANGED <<name, reg, redisVars, clientVars, revoke, rejected>>

\* seed_neo4j.py --clear: every node of the tenant goes, whoever made it.
ClearTenant ==
    /\ node' = [n \in Names |-> NoAgent]
    /\ UNCHANGED <<name, reg, redisVars, clientVars, revoke, foreign, rejected>>

\* get_agent: about oneself, or for an administrator about anyone.
GetAgent(caller, admin, a) ==
    IF ~admin /\ caller # a THEN "403" ELSE IF a \notin info THEN "404" ELSE "200"
-----------------------------------------------------------------------------
Register(a) ==
    CheckName(a) \/ StoreKey(a) \/ StoreName(a) \/ StoreInfo(a) \/ RegistrationRaises(a)

Revoke(a) == FindHash(a) \/ Delete(a) \/ RevocationRaises(a)

Next ==
    \/ \E a \in Agents : Register(a) \/ Revoke(a) \/ AuditCall(a)
    \/ \E n \in Names : OutsiderAudited(n)
    \/ ClearTenant

Spec == Init /\ [][Next]_vars
-----------------------------------------------------------------------------
(* Revocation is for good: once revoke_api_key has returned True the key   *)
(* does not authenticate, even if the agent was still being registered     *)
(* (the reverse index it finds is written after the key).                  *)
RevokedIsGone == \A a \in Agents : revoke[a] = "revoked" => a \notin keys

(* A key somebody was given can always be revoked, also after attempts     *)
(* that failed half-way: the reverse index outlives the key, in a Redis    *)
(* that has no need to evict either.                                       *)
GivenKeysAreRevocable == \A a \in given : a \in keys => a \in index

(* Two agents with one name were given keys only if one of them checked    *)
(* the name while the other was being registered.                          *)
NamesakesMet ==
    \A a, b \in given : a # b /\ name[a] = name[b] => a \in met /\ b \in met

(* Neo4j refuses an audit event for the name of its agent only if the      *)
(* agent raced the duplicate-name check with a namesake, or the name was   *)
(* used by somebody the check cannot see: registrations that follow one    *)
(* another never cost each other the trail, whoever fails, is revoked or   *)
(* clears the graph in between.                                            *)
RefusedHadARival == \A a \in rejected : a \in met \/ name[a] \in foreign

(* An agent with a valid key is never told that it does not exist: the key *)
(* is shown after its info was stored, and revocation leaves the info.     *)
KnownToItself == \A a \in Agents : Authenticated(a) => GetAgent(a, FALSE, a) = "200"
=============================================================================

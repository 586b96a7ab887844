--------------------------- MODULE RegistryProofs ---------------------------
(***************************************************************************)
(* The safety of the agent registry, for every set of registration         *)
(* requests and every set of names.                                        *)
(***************************************************************************)
EXTENDS Registry, TLAPS

USE DEF redisVars, clientVars, graphVars, Storing, Phases, Revoking, Goto,
        RevokeGoto, WriteKey, WriteIndex, WriteOwner, WriteInfo, DropKey, DropIndex

\* The phases in which the name has been found free and nothing has failed.
Claiming == Storing \cup {"registered"}

\* The phases reached without the reverse index having been sent.
Unindexed == {"new", "conflict", "set_key", "set_id"}
-----------------------------------------------------------------------------
(* The inductive invariant, in three parts.                                *)

\* What a key, its reverse index and its info say of the registration.
KeyInv(a) ==
    /\ a \in index => reg[a] \notin Unindexed
    /\ reg[a] \in {"set_name", "set_info", "registered"} /\ a \in keys => a \in index
    /\ a \in given => reg[a] = "registered" /\ a \in info

\* A revocation runs only for an indexed agent, and deletes the key first.
RevokeInv(a) ==
    /\ revoke[a] # "idle" => reg[a] \notin Unindexed
    /\ revoke[a] \in {"delete_id", "revoked"} => a \notin keys

\* Who claims a name has left its mark on the name, or met the others.
ClaimInv(a) ==
    /\ reg[a] \in {"set_info", "registered"} => owner[name[a]] # NoAgent
    /\ reg[a] \in Claiming =>
          \A b \in Agents \ {a} : name[b] = name[a] /\ reg[b] \in Claiming =>
              a \in met /\ b \in met

\* The graph holds names of agents that were given their keys, and of outsiders.
GraphInv ==
    /\ \A n \in Names :
          \/ node[n] = NoAgent
          \/ node[n] = Outsider /\ n \in foreign
          \/ node[n] \in given /\ name[node[n]] = n
    /\ RefusedHadARival

RegistryInv ==
    /\ \A a \in Agents : KeyInv(a) /\ RevokeInv(a)
    /\ \A a \in Agents : ClaimInv(a)
    /\ GraphInv
-----------------------------------------------------------------------------
(* Type correctness.                                                       *)

LEMMA TypeInit == Init => TypeOK
BY RegistryAssumption DEF Init, TypeOK

LEMMA TypeStep == TypeOK /\ [Next]_vars => TypeOK'
<1> SUFFICES ASSUME TypeOK, [Next]_vars PROVE TypeOK'
  OBVIOUS
<1> USE RegistryAssumption DEF TypeOK
<1>1. ASSUME NEW a \in Agents, CheckName(a) PROVE TypeOK'
  BY <1>1 DEF CheckName, Namesakes
<1>2. ASSUME NEW a \in Agents, StoreKey(a) PROVE TypeOK'
  BY <1>2 DEF StoreKey
<1>3. ASSUME NEW a \in Agents, StoreName(a) PROVE TypeOK'
  BY <1>3 DEF StoreName
<1>4. ASSUME NEW a \in Agents, StoreInfo(a) PROVE TypeOK'
  BY <1>4 DEF StoreInfo
<1>5. ASSUME NEW a \in Agents, RegistrationRaises(a) PROVE TypeOK'
  BY <1>5 DEF RegistrationRaises
<1>6. ASSUME NEW a \in Agents, FindHash(a) PROVE TypeOK'
  BY <1>6 DEF FindHash
<1>7. ASSUME NEW a \in Agents, Delete(a) PROVE TypeOK'
  BY <1>7 DEF Delete
<1>8. ASSUME NEW a \in Agents, RevocationRaises(a) PROVE TypeOK'
  BY <1>8 DEF RevocationRaises
<1>9. ASSUME NEW a \in Agents, AuditCall(a) PROVE TypeOK'
  BY <1>9 DEF AuditCall, Authenticated
<1>10. CASE UNCHANGED vars
  BY <1>10 DEF vars
<1>11. CASE (\E n \in Names : OutsiderAudited(n)) \/ ClearTenant
  BY <1>11 DEF OutsiderAudited, ClearTenant
<1> QED
  BY <1>1, <1>2, <1>3, <1>4, <1>5, <1>6, <1>7, <1>8, <1>9, <1>10, <1>11
     DEF Next, Register, Revoke

(* Every variable keeps its type.                                          *)
THEOREM TypeCorrect == Spec => []TypeOK
BY TypeInit, TypeStep, PTL DEF Spec
-----------------------------------------------------------------------------
(* The invariant is inductive.                                             *)

LEMMA InvInit == Init => RegistryInv
BY DEF Init, RegistryInv, KeyInv, RevokeInv, ClaimInv, GraphInv, RefusedHadARival,
       Claiming, Unindexed

\* A name found free is not yet any registered agent's: every other claimant
\* is still storing, so this check is the race.
LEMMA CheckNameClaims ==
    ASSUME TypeOK, RegistryInv, NEW a \in Agents, CheckName(a)
    PROVE  \A b \in Agents : ClaimInv(b)'
<1>1. CASE owner[name[a]] = NoAgent
  <2>1. \A b \in Agents \ {a} : name[b] = name[a] /\ reg[b] \in Claiming =>
            b \in met' /\ a \in met'
    BY <1>1 DEF CheckName, Namesakes, RegistryInv, ClaimInv, Claiming
  <2> QED
    BY <1>1, <2>1 DEF CheckName, RegistryInv, ClaimInv, Claiming, TypeOK
<1>2. CASE owner[name[a]] # NoAgent
  BY <1>2 DEF CheckName, RegistryInv, ClaimInv, Claiming, TypeOK
<1> QED
  BY <1>1, <1>2

\* An audited agent and the agent whose node holds its name are namesakes
\* with keys, so both met; any other holder is an outsider.
LEMMA AuditCallGraph ==
    ASSUME TypeOK, RegistryInv, NEW a \in Agents, AuditCall(a)
    PROVE  GraphInv'
<1>1. CASE node[name[a]] \in {NoAgent, a}
  BY <1>1 DEF AuditCall, Authenticated, RegistryInv, GraphInv, RefusedHadARival, TypeOK
<1>2. CASE node[name[a]] = Outsider
  <2>1. name[a] \in foreign
    BY <1>2, RegistryAssumption DEF RegistryInv, GraphInv, TypeOK
  <2> QED
    BY <1>2, <2>1, RegistryAssumption
       DEF AuditCall, RegistryInv, GraphInv, RefusedHadARival, TypeOK
<1>3. CASE node[name[a]] \notin {NoAgent, Outsider, a}
  <2> DEFINE b == node[name[a]]
  <2>1. b \in given /\ name[b] = name[a] /\ b \in Agents /\ b # a
    BY <1>3 DEF RegistryInv, GraphInv, TypeOK
  <2>2. reg[a] = "registered" /\ reg[b] = "registered"
    BY <2>1 DEF AuditCall, Authenticated, RegistryInv, KeyInv
  <2>3. a \in met
    BY <2>1, <2>2 DEF RegistryInv, ClaimInv, Claiming
  <2> QED
    BY <1>3, <2>3 DEF AuditCall, RegistryInv, GraphInv, RefusedHadARival
<1> QED
  BY <1>1, <1>2, <1>3

LEMMA InvStep == TypeOK /\ RegistryInv /\ [Next]_vars => RegistryInv'
<1> SUFFICES ASSUME TypeOK, RegistryInv, [Next]_vars PROVE RegistryInv'
  OBVIOUS
<1> USE RegistryAssumption DEF TypeOK, RegistryInv, KeyInv, RevokeInv, ClaimInv,
                               GraphInv, RefusedHadARival, Claiming, Unindexed
<1>1. ASSUME NEW a \in Agents, CheckName(a) PROVE RegistryInv'
  <2>1. (\A b \in Agents : KeyInv(b) /\ RevokeInv(b))' /\ GraphInv'
    BY <1>1 DEF CheckName
  <2> QED
    BY <1>1, <2>1, CheckNameClaims
<1>2. ASSUME NEW a \in Agents, StoreKey(a) PROVE RegistryInv'
  BY <1>2 DEF StoreKey
<1>3. ASSUME NEW a \in Agents, StoreName(a) PROVE RegistryInv'
  BY <1>3 DEF StoreName
<1>4. ASSUME NEW a \in Agents, StoreInfo(a) PROVE RegistryInv'
  BY <1>4 DEF StoreInfo
<1>5. ASSUME NEW a \in Agents, RegistrationRaises(a) PROVE RegistryInv'
  BY <1>5 DEF RegistrationRaises
<1>6. ASSUME NEW a \in Agents, FindHash(a) PROVE RegistryInv'
  BY <1>6 DEF FindHash
<1>7. ASSUME NEW a \in Agents, Delete(a) PROVE RegistryInv'
  BY <1>7 DEF Delete
<1>8. ASSUME NEW a \in Agents, RevocationRaises(a) PROVE RegistryInv'
  BY <1>8 DEF RevocationRaises
<1>9. ASSUME NEW a \in Agents, AuditCall(a) PROVE RegistryInv'
  <2>1. (\A b \in Agents : KeyInv(b) /\ RevokeInv(b))'
        /\ (\A b \in Agents : ClaimInv(b))'
    BY <1>9 DEF AuditCall
  <2> QED
    BY <1>9, <2>1, AuditCallGraph
<1>10. CASE UNCHANGED vars
  BY <1>10 DEF vars
<1>11. CASE (\E n \in Names : OutsiderAudited(n)) \/ ClearTenant
  BY <1>11 DEF OutsiderAudited, ClearTenant
<1> QED
  BY <1>1, <1>2, <1>3, <1>4, <1>5, <1>6, <1>7, <1>8, <1>9, <1>10, <1>11
     DEF Next, Register, Revoke

LEMMA InvHolds == Spec => [](TypeOK /\ RegistryInv)
BY TypeInit, TypeStep, InvInit, InvStep, PTL DEF Spec
-----------------------------------------------------------------------------
(* What follows from it.                                                   *)

(* After revoke_api_key has returned True the key authenticates nobody,    *)
(* whatever the registration of the agent was still doing.                 *)
THEOREM RevocationIsFinal == Spec => []RevokedIsGone
<1>1. TypeOK /\ RegistryInv => RevokedIsGone
  BY DEF RegistryInv, RevokeInv, RevokedIsGone
<1> QED
  BY <1>1, InvHolds, PTL

(* The reverse index that revocation needs outlives every key that was     *)
(* handed out.                                                             *)
THEOREM KeysStayRevocable == Spec => []GivenKeysAreRevocable
<1>1. TypeOK /\ RegistryInv => GivenKeysAreRevocable
  BY DEF RegistryInv, KeyInv, GivenKeysAreRevocable, TypeOK
<1> QED
  BY <1>1, InvHolds, PTL

(* Two agents share a name only through the race between the duplicate     *)
(* check and the write of the name.                                        *)
THEOREM OnlyTheRaceDuplicates == Spec => []NamesakesMet
<1>1. TypeOK /\ RegistryInv => NamesakesMet
  BY DEF RegistryInv, KeyInv, ClaimInv, Claiming, NamesakesMet, TypeOK
<1> QED
  BY <1>1, InvHolds, PTL

(* Neo4j refuses the audit events of agents that raced for a name and of   *)
(* agents whose name an unregistered identity has used, and of no others.  *)
THEOREM OnlyRivalsCauseRefusals == Spec => []RefusedHadARival
<1>1. TypeOK /\ RegistryInv => RefusedHadARival
  BY DEF RegistryInv, GraphInv
<1> QED
  BY <1>1, InvHolds, PTL

(* get_agent never answers 404 to the agent that asks about itself.        *)
THEOREM AgentsKnowThemselves == Spec => []KnownToItself
<1>1. TypeOK /\ RegistryInv => KnownToItself
  BY DEF RegistryInv, KeyInv, KnownToItself, GetAgent, Authenticated
<1> QED
  BY <1>1, InvHolds, PTL
-----------------------------------------------------------------------------
(* Keys never come back.                                                   *)

(* A key that is gone stays gone, whether revocation deleted it before or  *)
(* after it was handed out, raised half-way or is tried again: only a      *)
(* registration that nobody has answered or revoked still writes its key.  *)
GoneForGood ==
    \A a \in Agents :
        a \notin keys /\ (a \in given \/ revoke[a] # "idle") => a \notin keys'

(* revoke_api_key and register_agent may overlap, and either may raise     *)
(* between two commands; in no order does a key return after it was gone.  *)
THEOREM KeysNeverComeBack == Spec => [][GoneForGood]_vars
<1>1. TypeOK /\ RegistryInv /\ [Next]_vars => [GoneForGood]_vars
  <2> SUFFICES ASSUME TypeOK, RegistryInv, Next, NEW a \in Agents, a \notin keys,
                      a \in given \/ revoke[a] # "idle", a \in keys'
               PROVE  FALSE
    BY DEF GoneForGood
  <2>1. reg[a] # "set_key"
    BY DEF RegistryInv, KeyInv, RevokeInv, Unindexed
  <2>2. PICK b \in Agents : Register(b) \/ Revoke(b) \/ AuditCall(b)
    BY DEF Next, OutsiderAudited, ClearTenant
  <2>3. CASE Register(b)
    BY <2>1, <2>3 DEF Register, CheckName, StoreKey, StoreName, StoreInfo,
                      RegistrationRaises
  <2>4. CASE Revoke(b) \/ AuditCall(b)
    BY <2>4 DEF Revoke, FindHash, Delete, RevocationRaises, AuditCall
  <2> QED
    BY <2>2, <2>3, <2>4
<1> QED
  BY <1>1, InvHolds, PTL DEF Spec
=============================================================================

-------------------------- MODULE MCCognitivePath --------------------------
(* One decision: decisions share nothing but the clock, so one shows every *)
(* interleaving of its handler, task, poller, TTLs and crash.  The call is *)
(* one that a cognitive_check rule hands to the judge, and the policy was  *)
(* switched between the handler's two reads.                               *)
EXTENDS CognitiveBranch

MCNothing == {}
MCRules ==
    << << [type |-> "regex", tools |-> {}, key |-> "command", values |-> {"env"},
           action |-> "cognitive_check"] >>, << >> >>
MCTenant == [d \in Decisions |-> "acme"]
MCActive == [t \in Tenants |-> 2]
MCRequest == [d \in Decisions |->
    [tool |-> "terminal", args |-> [command |-> "env"], task |-> "work"]]
MCApplied == [d \in Decisions |-> 1]
MCRecorded == [d \in Decisions |-> 2]
=============================================================================

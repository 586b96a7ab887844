----------------------------- MODULE MCToolCall -----------------------------
(* Two versions of a policy in the manner of policies/examples: in version *)
(* 1 a catch-all cognitive_check hides the block rule behind it, in        *)
(* version 2 a review rule fires in an earlier pass than a block rule and  *)
(* one kind of mail goes to the judge.                                     *)
EXTENDS ToolCall

NewRule(type, tools, key, values, action) ==
    [type |-> type, tools |-> tools, key |-> key, values |-> values, action |-> action]

MCLowRiskTools == {"read_file"}
MCHighRiskTools == {"execute_payment"}
MCPiiKeys == {"ssn"}
MCLargeAmounts == {"20000"}
MCSuspicious == {"ignore"}

MCRules == <<
    << NewRule("regex", {"terminal"}, "command", {"ls", "env"}, "cognitive_check"),
       NewRule("regex", {}, "command", {"env"}, "block"),
       NewRule("allowlist", {"wire"}, AlwaysMatch, {}, "human_review") >>,
    << NewRule("regex", {"mail"}, "body", {"secret"}, "block"),
       NewRule("regex", {"mail"}, "body", {"offer"}, "cognitive_check"),
       NewRule("allowlist", {"mail"}, "domain", {"trusted"}, "human_review"),
       NewRule("threshold", {"execute_payment"}, "amount", {"20000"}, "human_review"),
       NewRule("denylist", {}, TaskKey, {"ignore"}, "block"),
       NewRule("regex", {"terminal"}, "cwd", {""}, "block") >> >>

Terminal == {
    [tool |-> "terminal", args |-> [command |-> "env"], task |-> "work"],
    [tool |-> "read_file", args |-> [command |-> "ls"], task |-> "ignore"] }
Mail == {
    [tool |-> "mail", args |-> [domain |-> m[1], body |-> m[2]], task |-> "work"] :
        m \in {<<"trusted", "secret">>, <<"other", "secret">>, <<"trusted", "offer">>} }
Payments == {
    [tool |-> "execute_payment", args |-> [amount |-> "20000"], task |-> "work"],
    [tool |-> "wire", args |-> [ssn |-> "1", amount |-> "5"], task |-> "work"] }

MCRequests ==
    [sdk |-> Terminal \cup Mail \cup Payments,
     guard |-> Terminal, guard_closed |-> Terminal, mail |-> Mail]

MCTenant == [c \in Calls |-> "acme"]
=============================================================================

-------------------------- MODULE DecisionPromise --------------------------
(***************************************************************************)
(* What the gateway promises an agent about one tool call, with no word on *)
(* how: a judge rules at most once, an agent is told at most once, and     *)
(* what it is told is the ruling or HUMAN_REVIEW, the verdict that hands   *)
(* the call to a person.  A call nobody has ruled on is never told         *)
(* anything else.                                                          *)
(***************************************************************************)
CONSTANTS Decisions, Verdicts, NoVerdict, SafeVerdict

VARIABLES ruling,   \* what the judge decided, NoVerdict until it has
          told      \* what the agent was told, NoVerdict until it was

promiseVars == <<ruling, told>>

Init ==
    /\ ruling = [d \in Decisions |-> NoVerdict]
    /\ told = [d \in Decisions |-> NoVerdict]

Rule(d) ==
    /\ ruling[d] = NoVerdict
    /\ \E v \in Verdicts : ruling' = [ruling EXCEPT ![d] = v]
    /\ UNCHANGED told

Tell(d) ==
    /\ told[d] = NoVerdict
    /\ \E v \in {ruling[d], SafeVerdict} \ {NoVerdict} :
           told' = [told EXCEPT ![d] = v]
    /\ UNCHANGED ruling

Next == \E d \in Decisions : Rule(d) \/ Tell(d)

Spec == Init /\ [][Next]_promiseVars
=============================================================================

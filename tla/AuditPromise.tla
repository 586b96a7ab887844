---------------------------- MODULE AuditPromise ----------------------------
(***************************************************************************)
(* What the audit trail promises of each event, with no word on streams,   *)
(* groups or workers: the event is taken into custody once, it is recorded *)
(* at most once and for good, and custody of it ends only if it was        *)
(* recorded or is known to be lost.  Once the outage is over nothing is    *)
(* lost that is not recorded, unless the record refuses it.                *)
(***************************************************************************)
EXTENDS Naturals

CONSTANTS Events,
          Refused    \* events that cannot be recorded

VARIABLES kept,      \* events in custody
          recorded,  \* how often each is recorded
          lost,      \* events given up on
          outage     \* TRUE until the outage is over for good

promiseVars == <<kept, recorded, lost, outage>>

Init ==
    /\ kept = {}
    /\ recorded = [e \in Events |-> 0]
    /\ lost = {}
    /\ outage = TRUE

Accept(e) ==
    /\ e \notin kept \cup lost /\ recorded[e] = 0
    /\ kept' = kept \cup {e}
    /\ UNCHANGED <<recorded, lost, outage>>

\* Custody may end with the record or outlast it; an event that was recorded
\* without anybody noticing may be given up on with the same step.
Record(e) ==
    /\ e \in kept \ Refused /\ recorded[e] = 0
    /\ recorded' = [recorded EXCEPT ![e] = 1]
    /\ kept' \in {kept, kept \ {e}}
    /\ lost' = lost \/ (outage /\ lost' = lost \cup {e})
    /\ UNCHANGED outage

GiveUp(e) ==
    /\ e \in kept
    /\ outage \/ recorded[e] > 0 \/ e \in Refused
    /\ lost' = lost \cup {e}
    /\ kept' \in {kept, kept \ {e}}
    /\ UNCHANGED <<recorded, outage>>

Release(e) ==
    /\ e \in kept
    /\ recorded[e] > 0 \/ e \in lost
    /\ kept' = kept \ {e}
    /\ UNCHANGED <<recorded, lost, outage>>

EndOfOutage ==
    /\ outage
    /\ outage' = FALSE
    /\ UNCHANGED <<kept, recorded, lost>>

Next ==
    \/ \E e \in Events : Accept(e) \/ Record(e) \/ GiveUp(e) \/ Release(e)
    \/ EndOfOutage

Spec == Init /\ [][Next]_promiseVars
=============================================================================

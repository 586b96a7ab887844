-------------------------- MODULE MCAuditPipeline --------------------------
(* Two events, one of which Neo4j refuses for good, through one worker     *)
(* that reads two at a time.                                               *)
EXTENDS AuditPipeline
=============================================================================

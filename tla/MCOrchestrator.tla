---------------------------- MODULE MCOrchestrator ----------------------------
(* One run for the safety of two parts of hr-orchestrator that share no state: the port registry and
   the backup pipeline.  The initial state picks the part that moves and the other stays where it
   starts, so that the numbers of states add up instead of multiplying. *)
EXTENDS PortRegistry, BackupPipeline, TLC

CONSTANTS a1, a2, a3, a4, c1, c2
VARIABLES part

sumVars == <<part, portVars, vars>>

SumInit == part \in {"ports", "backup"} /\ Init /\ BackupInit

PortPart   == part = "ports"  /\ UNCHANGED <<part, vars>>
BackupPart == part = "backup" /\ UNCHANGED <<part, portVars>>

SumNext ==
    \/ PortPart /\ Next
    \/ BackupPart /\ BackupNext

SumSpec == SumInit /\ [][SumNext]_sumVars

(* The types of the two parts: the range of ports and the job history keep their limits. *)
PartsTypeOK == TypeOK /\ BackupTypeOK
=============================================================================

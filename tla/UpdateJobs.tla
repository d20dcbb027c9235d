------------------------------ MODULE UpdateJobs ------------------------------
(***************************************************************************)
(* The checks for updates and the upgrades of the machine that hr-api runs *)
(* itself (routes/updates.rs): CHECK_RUNNING and UPGRADE_RUNNING, the      *)
(* background tasks they stand for, and their cancellation.                *)
(*                                                                         *)
(* A request reads the flag and sets it in two steps, and hr-api has       *)
(* several threads.  Cancelling kills a command by its name and lowers the *)
(* flag; the task finds its command ended and goes on.  The commands of    *)
(* apt and snap end in the end; what they print is left out.               *)
(***************************************************************************)
EXTENDS Integers, FiniteSets

CONSTANTS Jobs,         \* bound: the requests for a check or an upgrade
          MaxCancels    \* bound: the requests to cancel

ASSUME JobsAssumption == IsFiniteSet(Jobs) /\ MaxCancels \in Nat

VARIABLES
    running,    \* CHECK_RUNNING and UPGRADE_RUNNING
    job,        \* what each request is for, and the next step of it and of its task
    checkFile,  \* last-update-check.json: the job whose result it is
    cancels,
    disturbed   \* history: kinds that were cancelled at work, or asked for twice at once

jobsVars == <<running, job, checkFile, cancels, disturbed>>

JobKinds == {"check", "upgrade"}
JobSteps == {"unused", "asked", "command", "collect", "write", "over"}

JobsInit ==
    /\ running = [k \in JobKinds |-> FALSE]
    /\ job = [j \in Jobs |-> [kind |-> "check", step |-> "unused"]]
    /\ checkFile = "none" /\ cancels = 0
    /\ disturbed = {}

JobAt(j, step) == job[j].step = step
JobGo(j, step) == job' = [job EXCEPT ![j].step = step]
Lower(kind) == running' = [running EXCEPT ![kind] = FALSE]
Asking(kind) == {j \in Jobs : job[j].kind = kind /\ JobAt(j, "asked")}
AtWork(kind) == {j \in Jobs : job[j].kind = kind /\ job[j].step \in {"command", "collect", "write"}}

-----------------------------------------------------------------------------
\* Mutant: the flag is not looked at.
AskJob_Always(j, kind) ==
    /\ JobAt(j, "unused")
    /\ job' = [job EXCEPT ![j] = [kind |-> kind, step |-> "asked"]]
    /\ disturbed' = IF Asking(kind) = {} THEN disturbed ELSE disturbed \cup {kind}
    /\ UNCHANGED <<running, checkFile, cancels>>

\* A request that finds the flag raised is refused.
AskJob(j, kind) ==
    /\ JobAt(j, "unused") /\ ~running[kind]
    /\ job' = [job EXCEPT ![j] = [kind |-> kind, step |-> "asked"]]
    /\ disturbed' = IF Asking(kind) = {} THEN disturbed ELSE disturbed \cup {kind}
    /\ UNCHANGED <<running, checkFile, cancels>>

BeginJob(j) ==
    /\ JobAt(j, "asked") /\ JobGo(j, "command")
    /\ running' = [running EXCEPT ![job[j].kind] = TRUE]
    /\ UNCHANGED <<checkFile, cancels, disturbed>>

\* Mutant: the flag is lowered when the command has run, not when it could not be started.
UpgradeEnds_NotOnError(j) ==
    /\ JobAt(j, "command") /\ job[j].kind = "upgrade" /\ JobGo(j, "over")
    /\ Lower("upgrade") \/ UNCHANGED running
    /\ UNCHANGED <<checkFile, cancels, disturbed>>

\* The command has ended, was killed or could not be started: UpgradeComplete, and the flag.
UpgradeEnds(j) ==
    /\ JobAt(j, "command") /\ job[j].kind = "upgrade" /\ JobGo(j, "over")
    /\ Lower("upgrade")
    /\ UNCHANGED <<checkFile, cancels, disturbed>>

\* apt update has ended or was killed: the task does not ask which.
AptEnds(j) ==
    /\ JobAt(j, "command") /\ job[j].kind = "check" /\ JobGo(j, "collect")
    /\ UNCHANGED <<running, checkFile, cancels, disturbed>>

\* apt list, snap and needrestart.
Collect(j) ==
    /\ JobAt(j, "collect") /\ JobGo(j, "write")
    /\ checkFile' = j
    /\ UNCHANGED <<running, cancels, disturbed>>

\* The file is written: Complete, and the flag.
CheckEnds(j) ==
    /\ JobAt(j, "write") /\ JobGo(j, "over")
    /\ Lower("check")
    /\ UNCHANGED <<checkFile, cancels, disturbed>>

\* Mutant: the flag of the other kind is lowered.
Cancel_Other(kind) ==
    /\ cancels < MaxCancels /\ cancels' = cancels + 1
    /\ \E other \in JobKinds \ {kind} : Lower(other)
    /\ disturbed' = IF AtWork(kind) \cup Asking(kind) = {} THEN disturbed ELSE disturbed \cup {kind}
    /\ UNCHANGED <<job, checkFile>>

\* cancel_check and cancel_upgrade, after pkill: whether it has killed anything is not looked at.
Cancel(kind) ==
    /\ cancels < MaxCancels /\ cancels' = cancels + 1
    /\ Lower(kind)
    /\ disturbed' = IF AtWork(kind) \cup Asking(kind) = {} THEN disturbed ELSE disturbed \cup {kind}
    /\ UNCHANGED <<job, checkFile>>

JobStep(j) == BeginJob(j) \/ UpgradeEnds(j) \/ AptEnds(j) \/ Collect(j) \/ CheckEnds(j)

JobsNext ==
    \/ \E j \in Jobs : JobStep(j) \/ \E kind \in JobKinds : AskJob(j, kind)
    \/ \E kind \in JobKinds : Cancel(kind)

\* The tasks run, and the commands they wait for end.
JobsFairness == \A j \in Jobs : WF_jobsVars(JobStep(j))

JobsSpec == JobsInit /\ [][JobsNext]_jobsVars /\ JobsFairness

-----------------------------------------------------------------------------
JobsTypeOK ==
    /\ running \in [JobKinds -> BOOLEAN]
    /\ job \in [Jobs -> [kind : JobKinds, step : JobSteps]]
    /\ checkFile \in Jobs \cup {"none"}
    /\ cancels \in 0..MaxCancels /\ disturbed \subseteq JobKinds

\* A check or an upgrade that is shown as running does run, whatever was cancelled, failed or asked
\* for twice; and one that was left alone is alone and is shown until it ends.
RunningIsTrue ==
    \A kind \in JobKinds :
        /\ running[kind] => AtWork(kind) # {}
        /\ kind \notin disturbed => /\ Cardinality(AtWork(kind)) <= 1
                                    /\ AtWork(kind) # {} => running[kind]

\* No check and no upgrade keeps the next one out for ever.
RunningEnds == \A kind \in JobKinds : []<>~running[kind]
=============================================================================

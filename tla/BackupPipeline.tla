---------------------------- MODULE BackupPipeline ----------------------------
(***************************************************************************)
(* The backup pipeline of hr-orchestrator (backup_pipeline.rs).  A trigger *)
(* (a request, or the daily scheduler) starts a task that copies the       *)
(* repositories one after the other, each with an rsync child process; a   *)
(* cancel raises a flag that the task looks at now and then, and kills the *)
(* child whose pid the task has stored.  Trigger, cancel, the tasks and    *)
(* the children interleave at every await; nothing excludes a second task. *)
(*                                                                         *)
(* Repositories are their positions in default_repos(); a child is named   *)
(* by its task and repository.  Sizes, speeds, messages and events are     *)
(* left out.                                                               *)
(***************************************************************************)
EXTENDS Integers, Sequences

CONSTANTS Callers,    \* concurrent callers of trigger and cancel
          MaxRuns,    \* bound: the tasks that may be spawned
          NumRepos,   \* length of default_repos()
          MaxJobs,    \* MAX_JOB_HISTORY, at least NumRepos
          Patient,    \* whether a caller triggers only once the last task has ended
          TimesOut    \* whether the timeout of a whole run may fire

ASSUME BackupAssumption ==
    /\ MaxRuns \in Nat /\ NumRepos \in Nat /\ MaxJobs \in Nat /\ NumRepos <= MaxJobs
    /\ Patient \in BOOLEAN /\ TimesOut \in BOOLEAN

VARIABLES
    running, stage,     \* BackupStatus
    shown,              \* BackupProgress
    jobs,               \* BackupStatus.jobs, the latest first
    cancelled,          \* the flag
    rsyncPid,           \* the child to kill
    call,               \* next step of each caller
    task,               \* the spawned tasks
    rsync,              \* children alive
    clean,              \* children that have exited with code 0 or 24, for their tasks to see
    cut                 \* history: the runs that dropped a child or left its pid behind

status == <<running, stage, jobs>>
vars == <<status, shown, cancelled, rsyncPid, call, task, rsync, clean, cut>>

Runs == 1..MaxRuns
Repos == 1..NumRepos
NoPid == <<0, 0>>
Pids == Runs \X Repos

Stages == {"Idle", "RunningBackup", "Done", "Failed"}
Phases == {"Idle", "Scanning", "Transferring", "Verifying", "Done", "Failed"}
CallSteps == {"idle", "mark", "show", "spawn", "flag", "kill", "unmark", "hide"}
WorkSteps == {"connect", "next", "scan", "pid", "loop", "read", "drop", "eof", "wait", "verify", "good", "bad"}
TaskSteps == {"unused", "ended", "end status", "end shown"} \cup WorkSteps

BackupInit ==
    /\ running = FALSE /\ stage = "Idle" /\ jobs = <<>>
    /\ shown = [running |-> FALSE, phase |-> "Idle"]
    /\ cancelled = FALSE /\ rsyncPid = NoPid
    /\ call = [c \in Callers |-> "idle"]
    /\ task = [r \in Runs |-> [step |-> "unused", repo |-> 1, ok |-> TRUE]]
    /\ rsync = {} /\ clean = {} /\ cut = {}

Working(r) == task[r].step \in WorkSteps
Active(r) == task[r].step \notin {"unused", "ended"}
Pid(r) == <<r, task[r].repo>>

\* The child belongs to the repository that its task is working on.
Owned(p) == Pid(p[1]) = p /\ Working(p[1])

-----------------------------------------------------------------------------
(* trigger and cancel: a guard moves a caller from one step to the next.   *)

Step(c, from, to) == call[c] = from /\ call' = [call EXCEPT ![c] = to]

\* A patient caller waits for the task to end and does not overlap another trigger.
MayTrigger == Patient => /\ \A r \in Runs : ~Active(r)
                         /\ \A c \in Callers : call[c] \notin {"mark", "show", "spawn"}

TriggerCheck(c) ==
    /\ MayTrigger /\ \E r \in Runs : task[r].step = "unused"
    /\ ~running
    /\ Step(c, "idle", "mark")
    /\ UNCHANGED <<status, shown, cancelled, rsyncPid, task, rsync, clean, cut>>

TriggerMark(c) ==
    /\ Step(c, "mark", "show")
    /\ running' = TRUE /\ stage' = "RunningBackup"
    /\ UNCHANGED <<jobs, shown, cancelled, rsyncPid, task, rsync, clean, cut>>

TriggerShow(c) ==
    /\ Step(c, "show", "spawn")
    /\ shown' = [running |-> TRUE, phase |-> "Idle"]
    /\ UNCHANGED <<status, cancelled, rsyncPid, task, rsync, clean, cut>>

TriggerSpawn(c) ==
    /\ Step(c, "spawn", "idle")
    /\ cancelled' = FALSE
    /\ \E r \in Runs :
         /\ task[r].step = "unused" /\ \A q \in 1..(r - 1) : task[q].step # "unused"
         /\ task' = [task EXCEPT ![r].step = "connect"]
    /\ UNCHANGED <<status, shown, rsyncPid, rsync, clean, cut>>

CancelCheck(c) ==
    /\ running
    /\ Step(c, "idle", "flag")
    /\ UNCHANGED <<status, shown, cancelled, rsyncPid, task, rsync, clean, cut>>

CancelFlag(c) ==
    /\ Step(c, "flag", "kill")
    /\ cancelled' = TRUE
    /\ UNCHANGED <<status, shown, rsyncPid, task, rsync, clean, cut>>

\* Mutant: the flag is raised, the child is left to notice it.
CancelKill_FlagOnly(c) ==
    /\ Step(c, "kill", "unmark")
    /\ UNCHANGED <<status, shown, cancelled, rsyncPid, task, rsync, clean, cut>>

\* The read lock on rsync_pid is held until kill has returned.
CancelKill(c) ==
    /\ Step(c, "kill", "unmark")
    /\ rsync' = rsync \ {rsyncPid}
    /\ UNCHANGED <<status, shown, cancelled, rsyncPid, task, clean, cut>>

CancelUnmark(c) ==
    /\ Step(c, "unmark", "hide")
    /\ running' = FALSE /\ stage' = "Idle"
    /\ UNCHANGED <<jobs, shown, cancelled, rsyncPid, task, rsync, clean, cut>>

CancelHide(c) ==
    /\ Step(c, "hide", "idle")
    /\ shown' = [running |-> FALSE, phase |-> "Idle"]
    /\ UNCHANGED <<status, cancelled, rsyncPid, task, rsync, clean, cut>>

-----------------------------------------------------------------------------
(* run_pipeline: the connection, then one repository after the other.      *)

At(r, step) == task[r].step = step
Advance(r, step) == task' = [task EXCEPT ![r].step = step]
GiveUp(r) == task' = [task EXCEPT ![r].step = "end status", ![r].ok = FALSE]

Connect(r) ==
    /\ At(r, "connect")
    /\ Advance(r, "next") \/ GiveUp(r)
    /\ UNCHANGED <<status, shown, cancelled, rsyncPid, call, rsync, clean, cut>>

AllDone(r) ==
    /\ At(r, "next") /\ task[r].repo > NumRepos
    /\ Advance(r, "end status")
    /\ UNCHANGED <<status, shown, cancelled, rsyncPid, call, rsync, clean, cut>>

NextCancelled(r) ==
    /\ At(r, "next") /\ task[r].repo <= NumRepos /\ cancelled
    /\ GiveUp(r)
    /\ UNCHANGED <<status, shown, cancelled, rsyncPid, call, rsync, clean, cut>>

NextRepo(r) ==
    /\ At(r, "next") /\ task[r].repo <= NumRepos /\ ~cancelled
    /\ shown' = [running |-> TRUE, phase |-> "Scanning"]
    /\ Advance(r, "scan")
    /\ UNCHANGED <<status, cancelled, rsyncPid, call, rsync, clean, cut>>

\* Mutant: the job history is not truncated.
Record_Grows(r) ==
    /\ task[r].step \in {"good", "bad"}
    /\ LET ok == At(r, "good")
       IN /\ jobs' = <<[repo |-> task[r].repo, success |-> ok]>> \o jobs
          /\ task' = [task EXCEPT ![r] = [step |-> "next", repo |-> @.repo + 1, ok |-> @.ok /\ ok]]
    /\ clean' = clean \ {Pid(r)}
    /\ UNCHANGED <<running, stage, shown, cancelled, rsyncPid, call, rsync, cut>>

\* Mutant: any_success instead of all_success decides.
Record_AnySuccess(r) ==
    /\ task[r].step \in {"good", "bad"}
    /\ LET ok == At(r, "good")
           all == <<[repo |-> task[r].repo, success |-> ok]>> \o jobs
       IN /\ jobs' = IF Len(all) > MaxJobs THEN SubSeq(all, 1, MaxJobs) ELSE all
          /\ task' = [task EXCEPT ![r] = [step |-> "next", repo |-> @.repo + 1, ok |-> @.ok \/ ok]]
    /\ clean' = clean \ {Pid(r)}
    /\ UNCHANGED <<running, stage, shown, cancelled, rsyncPid, call, rsync, cut>>

\* The outcome of a repository: its status and its job, whatever the other runs did.
Record(r) ==
    /\ task[r].step \in {"good", "bad"}
    /\ LET ok == At(r, "good")
           job == [repo |-> task[r].repo, success |-> ok]
           all == <<job>> \o jobs
       IN /\ jobs' = IF Len(all) > MaxJobs THEN SubSeq(all, 1, MaxJobs) ELSE all
          /\ task' = [task EXCEPT ![r] = [step |-> "next", repo |-> @.repo + 1, ok |-> @.ok /\ ok]]
    /\ clean' = clean \ {Pid(r)}
    /\ UNCHANGED <<running, stage, shown, cancelled, rsyncPid, call, rsync, cut>>

-----------------------------------------------------------------------------
(* run_repo_backup                                                         *)

\* The source does not exist (good), or the remote directory or the child cannot be made (bad).
ScanEndsEarly(r) ==
    /\ At(r, "scan")
    /\ Advance(r, "good") \/ Advance(r, "bad")
    /\ UNCHANGED <<status, shown, cancelled, rsyncPid, call, rsync, clean, cut>>

ScanSpawns(r) ==
    /\ At(r, "scan")
    /\ rsync' = rsync \cup {Pid(r)}
    /\ Advance(r, "pid")
    /\ UNCHANGED <<status, shown, cancelled, rsyncPid, call, clean, cut>>

StorePid(r) ==
    /\ At(r, "pid")
    /\ rsyncPid' = Pid(r)
    /\ Advance(r, "loop")
    /\ UNCHANGED <<status, shown, cancelled, call, rsync, clean, cut>>

\* Mutant: a cancelled copy is left without killing its child.
LoopCancelled_NoKill(r) ==
    /\ At(r, "loop") /\ cancelled
    /\ Advance(r, "drop")
    /\ UNCHANGED <<status, shown, cancelled, rsyncPid, call, rsync, clean, cut>>

LoopCancelled(r) ==
    /\ At(r, "loop") /\ cancelled
    /\ rsync' = rsync \ {Pid(r)}
    /\ Advance(r, "drop")
    /\ UNCHANGED <<status, shown, cancelled, rsyncPid, call, clean, cut>>

DropPid(r) ==
    /\ At(r, "drop")
    /\ rsyncPid' = NoPid
    /\ Advance(r, "bad")
    /\ UNCHANGED <<status, shown, cancelled, call, rsync, clean, cut>>

LoopGoesOn(r) ==
    /\ At(r, "loop") /\ ~cancelled
    /\ Advance(r, "read")
    /\ UNCHANGED <<status, shown, cancelled, rsyncPid, call, rsync, clean, cut>>

\* Output of the child, which may still be in the pipe when it has exited.
ReadData(r) ==
    /\ At(r, "read")
    /\ shown' = [shown EXCEPT !.phase = "Transferring"]
    /\ Advance(r, "loop")
    /\ UNCHANGED <<status, cancelled, rsyncPid, call, rsync, clean, cut>>

\* The error leaves the function before the pid is cleared and the child waited for.
ReadFails(r) ==
    /\ At(r, "read") /\ Pid(r) \in rsync
    /\ Advance(r, "bad")
    /\ cut' = cut \cup {r}
    /\ UNCHANGED <<status, shown, cancelled, rsyncPid, call, rsync, clean>>

ReadEnd(r) ==
    /\ At(r, "read") /\ Pid(r) \notin rsync
    /\ Advance(r, "eof")
    /\ UNCHANGED <<status, shown, cancelled, rsyncPid, call, rsync, clean, cut>>

ClearPid(r) ==
    /\ At(r, "eof")
    /\ rsyncPid' = NoPid
    /\ Advance(r, "wait")
    /\ UNCHANGED <<status, shown, cancelled, call, rsync, clean, cut>>

Wait(r) ==
    /\ At(r, "wait")
    /\ Advance(r, IF cancelled \/ Pid(r) \notin clean THEN "bad" ELSE "verify")
    /\ UNCHANGED <<status, shown, cancelled, rsyncPid, call, rsync, clean, cut>>

Verify(r) ==
    /\ At(r, "verify")
    /\ shown' = [shown EXCEPT !.phase = "Verifying"]
    /\ Advance(r, "good")
    /\ UNCHANGED <<status, cancelled, rsyncPid, call, rsync, clean, cut>>

-----------------------------------------------------------------------------
(* The task around run_pipeline: the timeout, and the last two writes.     *)

\* Mutant: the timeout is around the whole task, its last writes included.
Timeout_DropsAll(r) ==
    /\ TimesOut /\ Working(r)
    /\ Advance(r, "ended")
    /\ cut' = IF task[r].step \in {"pid", "loop", "read", "drop", "eof"} THEN cut \cup {r} ELSE cut
    /\ UNCHANGED <<status, shown, cancelled, rsyncPid, call, rsync, clean>>

\* The future is dropped where it stands; its child is not killed.
Timeout(r) ==
    /\ TimesOut /\ Working(r)
    /\ GiveUp(r)
    /\ cut' = IF task[r].step \in {"pid", "loop", "read", "drop", "eof"} THEN cut \cup {r} ELSE cut
    /\ UNCHANGED <<status, shown, cancelled, rsyncPid, call, rsync, clean>>

EndStatus(r) ==
    /\ At(r, "end status")
    /\ running' = FALSE
    /\ stage' = IF task[r].ok THEN "Done" ELSE "Failed"
    /\ Advance(r, "end shown")
    /\ UNCHANGED <<jobs, shown, cancelled, rsyncPid, call, rsync, clean, cut>>

EndShown(r) ==
    /\ At(r, "end shown")
    /\ shown' = [running |-> FALSE, phase |-> IF task[r].ok THEN "Done" ELSE "Failed"]
    /\ Advance(r, "ended")
    /\ UNCHANGED <<status, cancelled, rsyncPid, call, rsync, clean, cut>>

\* A child ends by itself, with an exit code that counts as a success or not.
RsyncExits(p) ==
    /\ p \in rsync
    /\ rsync' = rsync \ {p}
    /\ clean' \in {clean} \cup (IF Owned(p) THEN {clean \cup {p}} ELSE {})
    /\ UNCHANGED <<status, shown, cancelled, rsyncPid, call, task, cut>>

-----------------------------------------------------------------------------
CallStep(c) ==
    \/ TriggerMark(c) \/ TriggerShow(c) \/ TriggerSpawn(c)
    \/ CancelFlag(c) \/ CancelKill(c) \/ CancelUnmark(c) \/ CancelHide(c)

TaskStep(r) ==
    \/ Connect(r) \/ AllDone(r) \/ NextCancelled(r) \/ NextRepo(r) \/ Record(r)
    \/ ScanEndsEarly(r) \/ ScanSpawns(r) \/ StorePid(r)
    \/ LoopCancelled(r) \/ DropPid(r) \/ LoopGoesOn(r)
    \/ ReadEnd(r) \/ ClearPid(r) \/ Wait(r) \/ Verify(r)
    \/ EndStatus(r) \/ EndShown(r)

ChildStep(r) == ReadData(r) \/ ReadFails(r)

BackupNext ==
    \/ \E c \in Callers : TriggerCheck(c) \/ CancelCheck(c) \/ CallStep(c)
    \/ \E r \in Runs : TaskStep(r) \/ ChildStep(r) \/ Timeout(r)
    \/ \E p \in Pids : RsyncExits(p)

\* tokio runs every call and every task that can go on, and ssh, find and du return.  Nobody has
\* to trigger or to cancel, and an rsync may hang for ever without output.
Fairness ==
    /\ \A c \in Callers : WF_vars(CallStep(c))
    /\ \A r \in Runs : WF_vars(TaskStep(r))

BackupSpec == BackupInit /\ [][BackupNext]_vars /\ Fairness

-----------------------------------------------------------------------------
BackupTypeOK ==
    /\ running \in BOOLEAN /\ stage \in Stages
    /\ shown \in [running : BOOLEAN, phase : Phases]
    /\ jobs \in Seq([repo : Repos, success : BOOLEAN]) /\ Len(jobs) <= MaxJobs
    /\ cancelled \in BOOLEAN /\ rsyncPid \in Pids \cup {NoPid}
    /\ call \in [Callers -> CallSteps]
    /\ task \in [Runs -> [step : TaskSteps, repo : 1..(NumRepos + 1), ok : BOOLEAN]]
    /\ rsync \subseteq Pids /\ clean \subseteq Pids /\ cut \subseteq Runs

AtRest == /\ \A r \in Runs : ~Active(r)
          /\ \A c \in Callers : call[c] = "idle"

\* When no task and no call is in progress, both records say so: whatever order the writes of the
\* triggers, the cancels and the tasks came in, none of them leaves "running" behind, which would
\* refuse every later backup.
RestIsShown ==
    AtRest => /\ ~running /\ stage # "RunningBackup"
              /\ ~shown.running /\ shown.phase \in {"Idle", "Done", "Failed"}

\* "Done" is only shown for a run all of whose repositories have been copied: the latest jobs are
\* one success per repository, in the order of default_repos().
DoneMeansAllCopied ==
    stage = "Done" => /\ Len(jobs) >= NumRepos
                      /\ \A i \in Repos : jobs[i] = [repo |-> NumRepos + 1 - i, success |-> TRUE]

\* A run that ended without losing its child (a timeout, a broken pipe) has left no rsync behind,
\* and the pid that cancel would kill is a child of the repository in progress.
NoStrayChild ==
    /\ \A p \in rsync : Owned(p) \/ p[1] \in cut
    /\ rsyncPid # NoPid => Owned(rsyncPid) \/ rsyncPid[1] \in cut

AnyActive == \E r \in DOMAIN task : Active(r)

\* The task that a cancel meets ends, even if its rsync would never end by itself, unless a new
\* trigger takes the flag back.
CancelEnds == []<>(~cancelled \/ ~AnyActive)

\* What is shown of the backups is true: nothing runs on at rest, no child runs on unseen, and "Done"
\* is all of them.
ShownIsTrue == RestIsShown /\ DoneMeansAllCopied /\ NoStrayChild
=============================================================================

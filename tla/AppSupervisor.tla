---------------------------- MODULE AppSupervisor ----------------------------
(***************************************************************************)
(* The supervision of one application by hr-apps                           *)
(* (crates/orchestrator/hr-apps/src/supervisor.rs) and the callers of the  *)
(* supervisor in hr-orchestrator (apps_handler.rs): the supervisor keeps   *)
(* one independent entry per slug, so that one slug is the whole story.    *)
(*                                                                         *)
(* The actors are the calls in progress (each a future of its own, run by  *)
(* an IPC connection), the boot of the orchestrator, the watcher tasks     *)
(* spawned by attach_watcher, and systemd, which runs the transient unit   *)
(* of the application.  A step of an actor is the code between two of its  *)
(* awaits; the mutex of the process entry is never held across an await    *)
(* (except while boot adopts a unit, when no other call runs), so that a   *)
(* critical section is one step.                                           *)
(*                                                                         *)
(* update_app_state reads the row and writes it back; what it writes does  *)
(* not depend on the state it read, so that one write of the state field   *)
(* stands for both.  Left out: the port (module AppLifecycle), deletion,   *)
(* the health loop (it only logs), pid and uptime, the events, and the     *)
(* delays: a timeout or the end of a sleep may come at any moment.         *)
(***************************************************************************)
EXTENDS Integers, FiniteSets

CONSTANTS Users,         \* the concurrent callers of the supervisor
          Boot,          \* the orchestrator's main function, when it starts
          Watchers,      \* identities for watcher tasks; that of a task that has ended is reused
          NoTask,        \* an empty JoinHandle slot
          Operations,    \* the operations the clients use, a subset of AllOperations
          MaxRestarts,   \* MAX_RESTARTS_PER_MIN (10 in production)
          MaxOrphans,    \* bound: detached systemd-run processes the model counts
          Reboots,       \* whether the orchestrator may stop and start again
          Timeouts       \* whether the bound on a build or ship pipeline may expire

AllOperations == {"start", "stop", "restart", "ship", "update"}

ASSUME SupervisorAssumption ==
    /\ Boot \notin Users /\ NoTask \notin Watchers
    /\ (Users \cup {Boot}) \cap Watchers = {}
    /\ Operations \subseteq AllOperations
    /\ MaxRestarts \in Nat \ {0} /\ MaxOrphans \in Nat
    /\ Reboots \in BOOLEAN /\ Timeouts \in BOOLEAN

Callers == Users \cup {Boot}
Actors  == Callers \cup Watchers

AppState == {"Stopped", "Starting", "Running", "Stopping", "Crashed"}

\* ActiveState of the unit as systemctl shows it: "none" is an unloaded unit and "queued" one
\* whose start job is accepted (--no-block) but has not begun; both show as inactive.
UnitState == {"none", "queued", "active", "deactivating"}

VARIABLES
    tracked,   \* whether the slug has an entry in the process map
    proc,      \* the entry: state, stopReq (stop_requested), watcher (the JoinHandle) and
               \* restarts, how many entries of restart_history are within RESTART_WINDOW
    reg,       \* the state field of the application's row in the registry (apps.json)
    unit,      \* the ActiveState of the transient unit
    pc, op,    \* of each caller: the next step, and the call it serves
    handle,    \* of each caller: the JoinHandle it has in its hands
    saw,       \* of each caller: the state field of the row AppUpdate read
    wpc,       \* of each watcher task: its next step, "off" when there is no such task
    cmd,       \* of each actor: its systemd-run child process
    orphans,   \* systemd-run child processes whose parent future was dropped
    calm,      \* history: the last call was a stop that nothing disturbed
    gaveUp,    \* history: a watcher has reached the restart limit since the last start
    alone      \* history: since the orchestrator started no call has begun beside another one, and
               \* no pipeline has timed out

callVars == <<pc, op, handle, saw>>
supVars  == <<tracked, proc, reg>>
runVars  == <<unit, cmd, orphans>>
marks    == <<calm, gaveUp, alone>>
supervisorVars == <<supVars, callVars, runVars, wpc, marks>>

CallSteps ==
    {"idle",
     "start", "startLock", "startReg", "startProbe", "startRun", "startWait",
     "startCrash", "startCrashReg", "attachSpawn", "attachSlot",
     "stop", "stopReg", "stopAbort", "stopCmd", "stopWait", "stopKill", "stopKillWait",
     "stopDone", "stopDoneReg", "rsync", "update", "updateWrite", "boot", "bootReg"}

WatchSteps ==
    {"off", "await", "mark", "markReg", "loop", "poll", "recheck", "crash", "crashReg",
     "bump", "backoff", "respawnReg", "respawn", "respawnWait", "respawnCrash",
     "respawnCrashReg"}

NewProcess == [state |-> "Stopped", stopReq |-> FALSE, watcher |-> NoTask, restarts |-> 0]

SupervisorInit ==
    /\ tracked = FALSE
    /\ proc = NewProcess
    /\ reg = "Stopped"
    /\ unit = "none"
    /\ pc = [c \in Callers |-> "idle"]
    /\ op = [c \in Callers |-> "none"]
    /\ handle = [c \in Callers |-> NoTask]
    /\ saw = [c \in Callers |-> "Stopped"]
    /\ wpc = [w \in Watchers |-> "off"]
    /\ cmd = [i \in Actors |-> "none"]
    /\ orphans = 0
    /\ calm = FALSE /\ gaveUp = FALSE /\ alone = TRUE

-----------------------------------------------------------------------------
(* What the steps are made of. *)

Live(w) == wpc[w] # "off"
Quiet(c) == pc[c] = "idle"
AllQuiet == \A c \in Callers : Quiet(c)

\* unit_is_active, and the test at the end of each poll of wait_unit_inactive.
UnitIsActive   == unit = "active"
UnitIsInactive == unit \in {"none", "queued"}

Step(c, from, to) == pc[c] = from /\ pc' = [pc EXCEPT ![c] = to]
WStep(w, from, to) == wpc[w] = from /\ wpc' = [wpc EXCEPT ![w] = to]

\* The call of c returns to its client.
Returns(c, from) == Step(c, from, "idle") /\ op' = [op EXCEPT ![c] = "none"]

SetState(s) == proc' = [proc EXCEPT !.state = s]

\* update_app_state.
SetReg(s) == reg' = s

\* JoinHandle::abort, and the drop of a future: the task or the call disappears at its await.
\* A systemd-run process it was waiting for is not killed: it becomes an orphan.
Orphaned(I) == {i \in Actors : i \in I /\ cmd[i] = "sent"}
DropCommands(I) ==
    /\ cmd' = [i \in Actors |-> IF i \in I THEN "none" ELSE cmd[i]]
    /\ orphans' = IF orphans + Cardinality(Orphaned(I)) <= MaxOrphans
                  THEN orphans + Cardinality(Orphaned(I)) ELSE MaxOrphans

\* abort of the handle t, which may be empty or that of a task that has ended.
Abort(t) ==
    /\ wpc' = [w \in Watchers |-> IF w = t THEN "off" ELSE wpc[w]]
    /\ DropCommands({t})
    /\ UNCHANGED unit

SendRun(i) ==
    /\ cmd' = [cmd EXCEPT ![i] = "sent"]
    /\ UNCHANGED <<unit, orphans>>
TakeResult(i, res) ==
    /\ cmd[i] = res
    /\ cmd' = [cmd EXCEPT ![i] = "none"]
    /\ UNCHANGED <<unit, orphans>>
-----------------------------------------------------------------------------
(* The clients: control (start, stop, restart), build and ship, and update. *)

\* An IPC connection takes a request; build and ship share a lock per slug and are refused
\* while it is held.
BeginCall(c, o) ==
    /\ Quiet(c) /\ Quiet(Boot)
    /\ o = "ship" => \A d \in Users : op[d] # "ship"
    /\ pc' = [pc EXCEPT ![c] = IF o \in {"start", "update"} THEN o ELSE "stop"]
    /\ op' = [op EXCEPT ![c] = o]
    /\ calm' = FALSE /\ alone' = (alone /\ \A d \in Users : Quiet(d))
    /\ UNCHANGED <<supVars, runVars, wpc, handle, saw, gaveUp>>

\* start: get_or_create_process.
StartCall(c) ==
    /\ Step(c, "start", "startLock")
    /\ tracked' = TRUE
    /\ calm' = FALSE
    /\ UNCHANGED <<proc, reg, runVars, wpc, op, handle, saw, gaveUp, alone>>

\* start, first critical section: the early return of an application that is already up, or
\* the move to Starting.
StartLock(c) ==
    /\ \/ /\ proc.state \in {"Running", "Starting"}
          /\ Returns(c, "startLock")
          /\ UNCHANGED proc
       \/ /\ proc.state \notin {"Running", "Starting"}
          /\ Step(c, "startLock", "startReg")
          /\ proc' = [proc EXCEPT !.state = "Starting", !.stopReq = FALSE]
          /\ UNCHANGED op
    /\ gaveUp' = (gaveUp /\ proc' = proc)
    /\ UNCHANGED <<tracked, reg, runVars, wpc, handle, saw, calm, alone>>

StartReg(c) ==
    /\ Step(c, "startReg", "startProbe")
    /\ SetReg("Starting")
    /\ UNCHANGED <<tracked, proc, runVars, wpc, op, handle, saw, marks>>

\* start: the port probe.  A busy port is an error unless the unit itself is active; any other
\* process, or the application on its way out, may be holding it.
StartProbe(c) ==
    /\ \/ Step(c, "startProbe", "startRun")
       \/ ~UnitIsActive /\ Step(c, "startProbe", "startCrash")
    /\ UNCHANGED <<supVars, runVars, wpc, op, handle, saw, marks>>

\* start: systemd_run_app, the launch of the command and its answer.
StartRun(c) ==
    /\ Step(c, "startRun", "startWait")
    /\ SendRun(c)
    /\ UNCHANGED <<supVars, wpc, op, handle, saw, marks>>

StartWait(c) ==
    /\ \/ Step(c, "startWait", "attachSpawn") /\ TakeResult(c, "ok")
       \/ Step(c, "startWait", "startCrash") /\ TakeResult(c, "err")
    /\ UNCHANGED <<supVars, wpc, op, handle, saw, marks>>

\* start: the two error paths, a busy port and a refused systemd-run.
StartCrash(c) ==
    /\ Step(c, "startCrash", "startCrashReg")
    /\ SetState("Crashed")
    /\ UNCHANGED <<tracked, reg, runVars, wpc, op, handle, saw, marks>>

StartCrashReg(c) ==
    /\ Returns(c, "startCrashReg")
    /\ SetReg("Crashed")
    /\ UNCHANGED <<tracked, proc, runVars, wpc, handle, saw, marks>>

\* attach_watcher spawns the task before it stores its handle.  The model takes the identity of a
\* task that has ended; a handle that still names it is from then on empty, which is the same: to
\* abort an ended task does nothing.
AttachSpawn(c) ==
    /\ Step(c, "attachSpawn", "attachSlot")
    /\ \E w \in Watchers :
          /\ ~Live(w)
          /\ wpc' = [wpc EXCEPT ![w] = "await"]
          /\ handle' = [d \in Callers |-> IF d = c THEN w
                                         ELSE IF handle[d] = w THEN NoTask ELSE handle[d]]
          /\ proc' = [proc EXCEPT !.watcher = IF @ = w THEN NoTask ELSE @]
    /\ UNCHANGED <<tracked, reg, runVars, op, saw, marks>>

\* Mutant of AttachSlot: the handle found in the slot is dropped instead of aborted.
AttachSlot_KeepsOld(c) ==
    /\ Returns(c, "attachSlot")
    /\ proc' = [proc EXCEPT !.watcher = handle[c]]
    /\ handle' = [handle EXCEPT ![c] = NoTask]
    /\ UNCHANGED <<tracked, reg, saw, runVars, wpc, marks>>

AttachSlot(c) ==
    /\ Returns(c, "attachSlot")
    /\ proc' = [proc EXCEPT !.watcher = handle[c]]
    /\ handle' = [handle EXCEPT ![c] = NoTask]
    /\ Abort(proc.watcher)
    /\ calm' = (calm /\ Orphaned({proc.watcher}) = {})
    /\ UNCHANGED <<tracked, reg, saw, gaveUp, alone>>

\* What the caller of stop does with its result: restart goes on after a success, a ship
\* pipeline in any case.
AfterStop(c, from, ok) ==
    LET next == IF op[c] = "restart" /\ ok THEN "start"
                ELSE IF op[c] = "ship" THEN "rsync" ELSE "idle"
    IN  /\ Step(c, from, next)
        /\ op' = [op EXCEPT ![c] = IF next = "idle" THEN "none" ELSE op[c]]

\* stop of a slug without an entry in the process map: it succeeds at once.
StopUntracked(c) ==
    /\ ~tracked
    /\ AfterStop(c, "stop", TRUE)
    /\ UNCHANGED <<supVars, runVars, wpc, handle, saw, marks>>

\* stop, first critical section: the request is recorded and the watcher's handle taken.
StopLock(c) ==
    /\ tracked
    /\ Step(c, "stop", "stopReg")
    /\ proc' = [proc EXCEPT !.state = "Stopping", !.stopReq = TRUE, !.watcher = NoTask]
    /\ handle' = [handle EXCEPT ![c] = proc.watcher]
    /\ calm' = /\ orphans = 0 /\ \A d \in Callers \ {c} : Quiet(d)
               /\ \A w \in Watchers : Live(w) => w = proc.watcher
    /\ UNCHANGED <<tracked, reg, runVars, wpc, op, saw, gaveUp, alone>>

StopReg(c) ==
    /\ Step(c, "stopReg", "stopAbort")
    /\ SetReg("Stopping")
    /\ UNCHANGED <<tracked, proc, runVars, wpc, op, handle, saw, marks>>

\* Mutant of StopAbort: the handle is taken but never aborted.
StopAbort_Forgets(c) ==
    /\ Step(c, "stopAbort", "stopCmd")
    /\ handle' = [handle EXCEPT ![c] = NoTask]
    /\ UNCHANGED <<supVars, runVars, wpc, op, saw, marks>>

\* stop: the watcher is aborted once the registry has been updated.
StopAbort(c) ==
    /\ Step(c, "stopAbort", "stopCmd")
    /\ Abort(handle[c])
    /\ calm' = (calm /\ Orphaned({handle[c]}) = {})
    /\ handle' = [handle EXCEPT ![c] = NoTask]
    /\ UNCHANGED <<supVars, op, saw, gaveUp, alone>>

\* stop: systemctl stop, which cancels a queued start job too; when the command fails, stop
\* only logs it and goes on.
StopCmd(c) ==
    /\ Step(c, "stopCmd", "stopWait")
    /\ \/ /\ unit' = CASE unit = "active" -> "deactivating"
                       [] unit = "queued" -> "none"
                       [] OTHER           -> unit
          /\ UNCHANGED calm
       \/ calm' = FALSE /\ UNCHANGED unit
    /\ UNCHANGED <<supVars, cmd, orphans, wpc, op, handle, saw, gaveUp, alone>>

\* Mutant of StopWait: stop returns as soon as systemctl does.
StopWait_Skips(c) ==
    /\ Step(c, "stopWait", "stopDone")
    /\ UNCHANGED <<supVars, runVars, wpc, op, handle, saw, marks>>

\* stop: wait_unit_inactive(STOP_GRACE).
StopWait(c) ==
    /\ \/ UnitIsInactive /\ Step(c, "stopWait", "stopDone")
       \/ ~UnitIsInactive /\ Step(c, "stopWait", "stopKill")
    /\ UNCHANGED <<supVars, runVars, wpc, op, handle, saw, marks>>

\* stop: systemctl kill; a process in uninterruptible sleep survives it.
StopKill(c) ==
    /\ Step(c, "stopKill", "stopKillWait")
    /\ unit' \in {unit} \cup (IF UnitIsInactive THEN {} ELSE {"none"})
    /\ UNCHANGED <<supVars, cmd, orphans, wpc, op, handle, saw, marks>>

\* Mutant of StopKillWait: the second wait has no deadline.
StopKillWait_Unbounded(c) ==
    /\ UnitIsInactive /\ Step(c, "stopKillWait", "stopDone")
    /\ UNCHANGED <<supVars, runVars, wpc, op, handle, saw, marks>>

\* stop: wait_unit_inactive(STOP_KILL_GRACE), then the error return, which leaves Stopping.
StopKillWait(c) ==
    /\ \/ UnitIsInactive /\ Step(c, "stopKillWait", "stopDone") /\ UNCHANGED op
       \/ ~UnitIsInactive /\ AfterStop(c, "stopKillWait", FALSE)
    /\ UNCHANGED <<supVars, runVars, wpc, handle, saw, marks>>

StopDone(c) ==
    /\ Step(c, "stopDone", "stopDoneReg")
    /\ SetState("Stopped")
    /\ UNCHANGED <<tracked, reg, runVars, wpc, op, handle, saw, marks>>

StopDoneReg(c) ==
    /\ AfterStop(c, "stopDoneReg", TRUE)
    /\ SetReg("Stopped")
    /\ UNCHANGED <<tracked, proc, runVars, wpc, handle, saw, marks>>

\* build and ship: the artefacts are copied over the files of the application, then start; a
\* failed copy returns with the application stopped.
Rsync(c) ==
    /\ \/ Step(c, "rsync", "start") /\ UNCHANGED op
       \/ Returns(c, "rsync")
    /\ UNCHANGED <<supVars, runVars, wpc, handle, saw, marks>>

\* build and ship: the bound on the whole pipeline expires and its future is dropped wherever
\* it is, a JoinHandle it holds with it; dropping a JoinHandle detaches its task.
PipelineTimeout(c) ==
    /\ Timeouts /\ op[c] = "ship" /\ ~Quiet(c)
    /\ Returns(c, pc[c])
    /\ handle' = [handle EXCEPT ![c] = NoTask]
    /\ DropCommands({c})
    /\ calm' = FALSE /\ alone' = FALSE
    /\ UNCHANGED <<supVars, unit, wpc, saw, gaveUp>>

\* AppUpdate reads the row of the application, changes other fields and writes the row back.
UpdateRead(c) ==
    /\ Step(c, "update", "updateWrite")
    /\ saw' = [saw EXCEPT ![c] = reg]
    /\ UNCHANGED <<supVars, runVars, wpc, op, handle, marks>>

UpdateWrite(c) ==
    /\ Returns(c, "updateWrite")
    /\ reg' = saw[c]
    /\ saw' = [saw EXCEPT ![c] = "Stopped"]
    /\ UNCHANGED <<tracked, proc, runVars, wpc, handle, marks>>
-----------------------------------------------------------------------------
(* The orchestrator's restart. *)

\* The orchestrator stops, at any moment: its tasks and its child processes end with it, the
\* application's unit does not (detach_all only drops tasks).  Then main starts again.
Reboot ==
    /\ Reboots
    /\ tracked' = FALSE
    /\ proc' = NewProcess
    /\ pc' = [c \in Callers |-> IF c = Boot THEN "boot" ELSE "idle"]
    /\ op' = [c \in Callers |-> "none"]
    /\ handle' = [c \in Callers |-> NoTask]
    /\ saw' = [c \in Callers |-> "Stopped"]
    /\ wpc' = [w \in Watchers |-> "off"]
    /\ cmd' = [i \in Actors |-> "none"]
    /\ orphans' = 0
    /\ calm' = FALSE
    /\ gaveUp' = FALSE /\ alone' = TRUE
    /\ UNCHANGED <<reg, unit>>

\* start_all_running, before the IPC server is up: nothing to do, adopt the unit, or start.
BootLook ==
    /\ \/ /\ reg \notin {"Running", "Starting"}
          /\ Step(Boot, "boot", "idle")
          /\ UNCHANGED <<tracked, proc>>
       \/ /\ reg \in {"Running", "Starting"} /\ UnitIsActive
          /\ Step(Boot, "boot", "bootReg")
          /\ tracked' = TRUE
          /\ SetState("Running")
       \/ /\ reg \in {"Running", "Starting"} /\ ~UnitIsActive
          /\ Step(Boot, "boot", "start")
          /\ UNCHANGED <<tracked, proc>>
    /\ UNCHANGED <<reg, runVars, wpc, op, handle, saw, marks>>

\* Mutant of BootReg: an adopted unit gets no watcher.
BootReg_NoWatcher ==
    /\ Step(Boot, "bootReg", "idle")
    /\ SetReg("Running")
    /\ UNCHANGED <<tracked, proc, runVars, wpc, op, handle, saw, marks>>

BootReg ==
    /\ Step(Boot, "bootReg", "attachSpawn")
    /\ SetReg("Running")
    /\ UNCHANGED <<tracked, proc, runVars, wpc, op, handle, saw, marks>>
-----------------------------------------------------------------------------
(* The watcher task. *)

\* The first 25 polls: until the unit is active, or a timeout.
WAwait(w) ==
    /\ \/ UnitIsActive /\ WStep(w, "await", "mark")
       \/ ~UnitIsActive /\ WStep(w, "await", "loop")
    /\ UNCHANGED <<supVars, callVars, runVars, marks>>

\* Running is recorded without a look at stop_requested.
WMark(w) ==
    /\ WStep(w, "mark", "markReg")
    /\ SetState("Running")
    /\ UNCHANGED <<tracked, reg, callVars, runVars, marks>>

WMarkReg(w) ==
    /\ WStep(w, "markReg", "loop")
    /\ SetReg("Running")
    /\ UNCHANGED <<tracked, proc, callVars, runVars, marks>>

\* Mutant of WLoop: the request to stop is looked at only once the unit is down.
WLoop_NoCheck(w) ==
    /\ WStep(w, "loop", "poll")
    /\ UNCHANGED <<supVars, callVars, runVars, marks>>

\* After each WATCH_INTERVAL: exit when a stop was requested.
WLoop(w) ==
    /\ \/ proc.stopReq /\ WStep(w, "loop", "off")
       \/ ~proc.stopReq /\ WStep(w, "loop", "poll")
    /\ UNCHANGED <<supVars, callVars, runVars, marks>>

WPoll(w) ==
    /\ \/ UnitIsActive /\ WStep(w, "poll", "loop")
       \/ ~UnitIsActive /\ WStep(w, "poll", "recheck")
    /\ UNCHANGED <<supVars, callVars, runVars, marks>>

\* The second look at stop_requested, in a critical section of its own.
WRecheck(w) ==
    /\ \/ proc.stopReq /\ WStep(w, "recheck", "off")
       \/ ~proc.stopReq /\ WStep(w, "recheck", "crash")
    /\ UNCHANGED <<supVars, callVars, runVars, marks>>

WCrash(w) ==
    /\ WStep(w, "crash", "crashReg")
    /\ SetState("Crashed")
    /\ UNCHANGED <<tracked, reg, callVars, runVars, marks>>

WCrashReg(w) ==
    /\ WStep(w, "crashReg", "bump")
    /\ SetReg("Crashed")
    /\ UNCHANGED <<tracked, proc, callVars, runVars, marks>>

\* Mutant of WBump: the history grows without the test of the limit.
WBump_NoLimit(w) ==
    /\ WStep(w, "bump", "backoff")
    /\ proc' = [proc EXCEPT !.restarts = @ + 1]
    /\ UNCHANGED <<tracked, reg, callVars, runVars, marks>>

\* bump_restart_and_should_continue.
WBump(w) ==
    /\ \/ /\ proc.restarts < MaxRestarts
          /\ WStep(w, "bump", "backoff")
          /\ proc' = [proc EXCEPT !.restarts = @ + 1]
       \/ /\ proc.restarts >= MaxRestarts
          /\ WStep(w, "bump", "off")
          /\ proc' = [proc EXCEPT !.restarts = MaxRestarts + 1, !.state = "Crashed"]
    /\ gaveUp' = (gaveUp \/ wpc'[w] = "off")
    /\ UNCHANGED <<tracked, reg, callVars, runVars, calm, alone>>

\* After the backoff.
WBackoff(w) ==
    /\ \/ proc.stopReq /\ WStep(w, "backoff", "off") /\ UNCHANGED proc
       \/ ~proc.stopReq /\ WStep(w, "backoff", "respawnReg") /\ SetState("Starting")
    /\ UNCHANGED <<tracked, reg, callVars, runVars, marks>>

\* Mutant of WRespawnReg: the loop goes on without the systemd-run.
WRespawnReg_NoRun(w) ==
    /\ WStep(w, "respawnReg", "loop")
    /\ SetReg("Starting")
    /\ UNCHANGED <<tracked, proc, callVars, runVars, marks>>

WRespawnReg(w) ==
    /\ WStep(w, "respawnReg", "respawn")
    /\ SetReg("Starting")
    /\ UNCHANGED <<tracked, proc, callVars, runVars, marks>>

WRespawn(w) ==
    /\ WStep(w, "respawn", "respawnWait")
    /\ SendRun(w)
    /\ UNCHANGED <<supVars, callVars, marks>>

WRespawnWait(w) ==
    /\ \/ WStep(w, "respawnWait", "loop") /\ TakeResult(w, "ok")
       \/ WStep(w, "respawnWait", "respawnCrash") /\ TakeResult(w, "err")
    /\ UNCHANGED <<supVars, callVars, marks>>

WRespawnCrash(w) ==
    /\ WStep(w, "respawnCrash", "respawnCrashReg")
    /\ SetState("Crashed")
    /\ UNCHANGED <<tracked, reg, callVars, runVars, marks>>

WRespawnCrashReg(w) ==
    /\ WStep(w, "respawnCrashReg", "loop")
    /\ SetReg("Crashed")
    /\ UNCHANGED <<tracked, proc, callVars, runVars, marks>>
-----------------------------------------------------------------------------
(* systemd and the passing of time. *)

\* systemd answers a systemd-run: it refuses a unit that is still loaded.
AnswerRun(i) ==
    /\ cmd[i] = "sent"
    /\ \/ unit = "none" /\ unit' = "queued" /\ cmd' = [cmd EXCEPT ![i] = "ok"]
       \/ unit # "none" /\ UNCHANGED unit /\ cmd' = [cmd EXCEPT ![i] = "err"]
    /\ UNCHANGED <<supVars, callVars, wpc, orphans, marks>>

AnswerOrphan ==
    /\ orphans > 0
    /\ orphans' = orphans - 1
    /\ unit' = IF unit = "none" THEN "queued" ELSE unit
    /\ UNCHANGED <<supVars, callVars, wpc, cmd, marks>>

\* The start job runs; the process exits or dies, and the unit is collected.
UnitStarts ==
    /\ unit = "queued" /\ unit' = "active"
    /\ UNCHANGED <<supVars, callVars, wpc, cmd, orphans, marks>>

UnitDies ==
    /\ unit = "active" /\ unit' = "none"
    /\ UNCHANGED <<supVars, callVars, wpc, cmd, orphans, marks>>

UnitEnds ==
    /\ unit = "deactivating" /\ unit' = "none"
    /\ UNCHANGED <<supVars, callVars, wpc, cmd, orphans, marks>>

\* A restart falls out of RESTART_WINDOW.
RestartExpires ==
    /\ proc.restarts > 0
    /\ proc' = [proc EXCEPT !.restarts = @ - 1]
    /\ UNCHANGED <<tracked, reg, callVars, runVars, wpc, marks>>
-----------------------------------------------------------------------------
StartStep(c) ==
    \/ StartCall(c) \/ StartLock(c) \/ StartReg(c) \/ StartProbe(c) \/ StartRun(c) \/ StartWait(c)
    \/ StartCrash(c) \/ StartCrashReg(c) \/ AttachSpawn(c) \/ AttachSlot(c)

StopStep(c) ==
    \/ StopUntracked(c) \/ StopLock(c) \/ StopReg(c) \/ StopAbort(c) \/ StopCmd(c)
    \/ StopWait(c) \/ StopKill(c) \/ StopKillWait(c) \/ StopDone(c) \/ StopDoneReg(c)

UserStep(c) == StartStep(c) \/ StopStep(c) \/ Rsync(c) \/ UpdateRead(c) \/ UpdateWrite(c)

BootStep == BootLook \/ BootReg

WatchStep(w) ==
    \/ WAwait(w) \/ WMark(w) \/ WMarkReg(w) \/ WLoop(w) \/ WPoll(w) \/ WRecheck(w)
    \/ WCrash(w) \/ WCrashReg(w) \/ WBump(w) \/ WBackoff(w) \/ WRespawnReg(w)
    \/ WRespawn(w) \/ WRespawnWait(w) \/ WRespawnCrash(w) \/ WRespawnCrashReg(w)

Systemd ==
    \/ \E i \in Actors : AnswerRun(i)
    \/ AnswerOrphan \/ UnitStarts \/ UnitEnds \/ UnitDies

SupervisorNext ==
    \/ \E c \in Users : PipelineTimeout(c) \/ \E o \in Operations : BeginCall(c, o)
    \/ \E c \in Callers : UserStep(c)
    \/ BootStep \/ Reboot
    \/ \E w \in Watchers : WatchStep(w)
    \/ Systemd \/ RestartExpires

SupervisorSpec == SupervisorInit /\ [][SupervisorNext]_supervisorVars

\* The scheduler runs every future and every task that can go on, and systemd answers every
\* command and carries out every job.  Nothing obliges a client to call, a process to die, the
\* orchestrator to restart or a pipeline to time out.
Fairness ==
    /\ \A c \in Callers : WF_supervisorVars(UserStep(c))
    /\ WF_supervisorVars(BootStep)
    /\ \A w \in Watchers : WF_supervisorVars(WatchStep(w))
    /\ \A i \in Actors : WF_supervisorVars(AnswerRun(i))
    /\ WF_supervisorVars(AnswerOrphan) /\ WF_supervisorVars(UnitStarts)

FairSpec == SupervisorSpec /\ Fairness
-----------------------------------------------------------------------------
Process == [state : AppState, stopReq : BOOLEAN, watcher : Watchers \cup {NoTask},
            restarts : 0 .. MaxRestarts + 1]

SupervisorTypeOK ==
    /\ tracked \in BOOLEAN /\ proc \in Process /\ reg \in AppState
    /\ unit \in UnitState
    /\ pc \in [Callers -> CallSteps] /\ op \in [Callers -> AllOperations \cup {"none"}]
    /\ handle \in [Callers -> Watchers \cup {NoTask}] /\ saw \in [Callers -> AppState]
    /\ wpc \in [Watchers -> WatchSteps]
    /\ cmd \in [Actors -> {"none", "sent", "ok", "err"}]
    /\ orphans \in 0 .. MaxOrphans
    /\ calm \in BOOLEAN /\ gaveUp \in BOOLEAN /\ alone \in BOOLEAN

\* No watcher task escapes: each one that runs can still be aborted, by the process entry that
\* holds its handle or by a call that is about to abort it or to store it.  Two respawners that
\* do not know of each other would start an application its owner has stopped.
WatcherOwned ==
    \A w \in Watchers : Live(w) => w = proc.watcher \/ \E c \in Callers : handle[c] = w

\* What stop promises holds once a stop has returned that no other call overlapped, that reached
\* systemd, that cut no systemd-run short and that no lost watcher survives: the unit is unloaded,
\* nothing will load it again, and the process entry and the registry both say Stopped.
UndisturbedStopHolds ==
    calm /\ AllQuiet /\ proc.state = "Stopped" =>
        /\ unit = "none" /\ reg = "Stopped" /\ orphans = 0
        /\ \A w \in Watchers : ~Live(w)
        /\ \A i \in Actors : cmd[i] # "sent"

\* Between calls that came one at a time, nobody drops an application that is meant to be up: its
\* entry, or the registry when it has no entry yet because the orchestrator has just started, says
\* Running or Starting only when a watcher runs, a stop was requested or a watcher reached the
\* restart limit.  Of calls that overlap this is false: a start withdraws the request of a stop
\* under way, which then aborts the watcher and may fail to end the unit.
UpIsSupervised ==
    LET believed == IF tracked THEN proc.state ELSE reg
    IN  AllQuiet /\ believed \in {"Running", "Starting"} =>
            (\E w \in Watchers : Live(w)) \/ proc.stopReq \/ gaveUp

\* What the calls leave behind: a stop that holds, an application that somebody looks after, and no
\* watcher without an owner, unless a pipeline that timed out has dropped its handle.
CallsHold ==
    /\ UndisturbedStopHolds
    /\ alone => UpIsSupervised
    /\ ~Timeouts => WatcherOwned

\* Every call returns, whatever the unit does: each wait of start and stop is bounded.  Two ways
\* out are the model's: an orchestrator that restarts for ever may never finish its boot, and
\* Watchers bounds the tasks that timed-out pipelines may lose.
CallsReturn ==
    LET stuck(c) == pc[c] = "attachSpawn" /\ \A w \in Watchers : Live(w)
    IN  (\A c \in Callers : ~Quiet(c) ~> (Quiet(c) \/ stuck(c))) \/ []<><<Reboot>>_supervisorVars

\* A unit that died is up again in the end, unless a call came, a stop was requested or the
\* watcher reached the restart limit.
CrashesHeal ==
    (AllQuiet /\ unit = "none" /\ ~proc.stopReq /\ \E w \in Watchers : Live(w))
        ~> (unit = "active" \/ proc.stopReq \/ gaveUp \/ ~AllQuiet)

\* After a stop request every watcher task ends, one whose handle a timed-out pipeline has lost
\* included, unless a start withdraws the request first: no path round the loop misses the flag.
StopReapsWatchers ==
    proc.stopReq ~> (~proc.stopReq \/ \A w \in Watchers : ~Live(w))

\* "Whether stop() was requested (suppresses respawn)" (supervisor.rs:63): with a stop requested
\* and no call in progress, nothing loads the unit.
StopSuppressesRespawn ==
    [][unit = "none" /\ unit' = "queued" => ~(tracked /\ proc.stopReq /\ AllQuiet)]_supervisorVars

=============================================================================

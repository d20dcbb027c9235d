------------------------------ MODULE EnergyModes ------------------------------
(***************************************************************************)
(* The energy mode of a remote host as hr-api keeps it (routes/energy.rs): *)
(* the requests that choose a mode, the restoration at the start of hr-api,*)
(* the poller that applies the saved mode to a host that has come back,    *)
(* and the enforcer of the schedule, which has the nights in economy.      *)
(*                                                                         *)
(* Each of them applies a mode with ssh, and most read the file of the     *)
(* saved mode first; they interleave at every await.  (The local host is   *)
(* the simpler case: its writes do not fail and the poller leaves it.)     *)
(* The governors behind a mode, single cores, metrics and the benchmark    *)
(* are left out.                                                           *)
(***************************************************************************)
EXTENDS Integers

CONSTANTS Calls,        \* bound: the requests that choose a mode
          MaxNights,    \* bound: the nights that begin
          MaxReboots,   \* bound: the times the host is away
          MaxStarts     \* bound: the starts of hr-api

VARIABLES
    up, actual,     \* the host: whether ssh reaches it, and its mode
    saved,          \* energy-mode-<host>.txt
    enabled, night, \* the schedule, and whether the clock is in its window
    active,         \* night_active of the enforcer
    online,         \* prev_online of the poller
    op,             \* what each task and each request is doing
    nights, reboots, starts,
    tainted         \* history: an ssh failed on a host that was up, or a mode was chosen meanwhile

host == <<up, actual>>
clock == <<enabled, night>>
vars == <<host, saved, clock, active, online, op, nights, reboots, starts, tainted>>

Modes == {"economy", "auto", "performance"}
Actors == {"startup", "poller", "enforcer"} \cup Calls
Steps == {"unused", "idle", "read", "reread", "apply", "create", "write", "over"}
Torn == ""      \* what is read of a file that is being written

Idle == [step |-> "idle", mode |-> Torn]
Over == [step |-> "over", mode |-> Torn]
Unused == [step |-> "unused", mode |-> Torn]

\* The tasks as main starts them.
Started == [a \in Actors |-> CASE a = "startup" -> [step |-> "read", mode |-> Torn]
                               [] a \in Calls -> Unused
                               [] OTHER -> Idle]

Init ==
    /\ up \in BOOLEAN /\ actual \in {"boot", "economy"}
    /\ saved \in {"economy", "performance"}
    /\ enabled \in BOOLEAN /\ night = FALSE
    /\ active = FALSE /\ online = FALSE
    /\ op = Started
    /\ nights = 0 /\ reboots = 0 /\ starts = 1
    /\ tainted = FALSE

At(a, step) == op[a].step = step
Does(a, step, mode) == op' = [op EXCEPT ![a] = [step |-> step, mode |-> mode]]
Saving(k) == At(k, "create") \/ At(k, "write")
Busy(k) == At(k, "apply") \/ Saving(k)

-----------------------------------------------------------------------------
(* read_stored_mode and apply_mode_on_host of the three tasks              *)

ReadSaved(a) ==
    /\ At(a, "read") /\ Does(a, "apply", saved)
    /\ UNCHANGED <<host, saved, clock, active, online, nights, reboots, starts, tainted>>

\* Where each task goes when it has applied a mode or has failed to; only the log tells which.
Applied(a) ==
    CASE a = "startup"  -> Does(a, "over", Torn) /\ UNCHANGED <<active, online>>
      [] a = "poller"   -> Does(a, "idle", Torn) /\ online' = TRUE /\ UNCHANGED active
      [] a = "enforcer" -> Does(a, "idle", Torn) /\ active' = ~active /\ UNCHANGED online

\* Another mode is saved by now, or has been applied and is about to be.
Outdated(a) == /\ a = "enforcer" => active
               /\ op[a].mode # saved \/ \E k \in Calls : Saving(k)

\* A mode that was read before another one was saved is applied all the same.
Apply(a) ==
    /\ a \notin Calls /\ At(a, "apply") /\ up /\ op[a].mode \in Modes
    /\ actual' = op[a].mode
    /\ Applied(a)
    /\ tainted' = (tainted \/ Outdated(a))
    /\ UNCHANGED <<up, saved, clock, nights, reboots, starts>>

\* ssh fails, or what was read is no mode ("Mode inconnu").
ApplyFails(a) ==
    /\ a \notin Calls /\ At(a, "apply")
    /\ Applied(a)
    /\ tainted' = (tainted \/ up \/ op[a].mode \notin Modes)
    /\ UNCHANGED <<host, saved, clock, nights, reboots, starts>>

-----------------------------------------------------------------------------
(* apply_mode: the mode is applied, then saved                             *)

Choose(k, mode) ==
    /\ At(k, "unused")
    /\ Does(k, "apply", mode)
    /\ tainted' = (tainted \/ \E j \in Calls : Busy(j))
    /\ UNCHANGED <<host, saved, clock, active, online, nights, reboots, starts>>

ChooseApply(k) ==
    /\ k \in Calls /\ At(k, "apply") /\ up
    /\ actual' = op[k].mode
    /\ Does(k, "create", op[k].mode)
    /\ UNCHANGED <<up, saved, clock, active, online, nights, reboots, starts, tainted>>

\* The answer of ssh may be lost after it has done its work.
ChooseFails(k) ==
    /\ k \in Calls /\ At(k, "apply")
    /\ Does(k, "over", Torn)
    /\ \/ UNCHANGED <<actual, tainted>>
       \/ up /\ actual' = op[k].mode /\ tainted' = TRUE
    /\ UNCHANGED <<up, saved, clock, active, online, nights, reboots, starts>>

\* store_mode: tokio::fs::write empties the file before it writes it.
Create(k) ==
    /\ At(k, "create") /\ Does(k, "write", op[k].mode)
    /\ saved' = Torn
    /\ UNCHANGED <<host, clock, active, online, nights, reboots, starts, tainted>>

Write(k) ==
    /\ At(k, "write") /\ Does(k, "over", Torn)
    /\ saved' = op[k].mode
    /\ UNCHANGED <<host, clock, active, online, nights, reboots, starts, tainted>>

-----------------------------------------------------------------------------
(* energy_metrics_poller                                                   *)

\* Mutant: a host that is back is remembered, and nothing applied to it.
PollFinds_Remembers ==
    /\ At("poller", "idle") /\ up /\ ~online
    /\ online' = TRUE
    /\ UNCHANGED <<host, saved, clock, active, op, nights, reboots, starts, tainted>>

PollFinds ==
    /\ At("poller", "idle") /\ up /\ ~online
    /\ Does("poller", "read", Torn)
    /\ UNCHANGED <<host, saved, clock, active, online, nights, reboots, starts, tainted>>

\* ssh may fail on a host that is up.
PollMisses ==
    /\ At("poller", "idle") /\ online
    /\ online' = FALSE
    /\ UNCHANGED <<host, saved, clock, active, op, nights, reboots, starts, tainted>>

-----------------------------------------------------------------------------
(* energy_schedule_enforcer                                                *)

NightBegins ==
    /\ At("enforcer", "idle") /\ enabled /\ night /\ ~active
    /\ Does("enforcer", "apply", "economy")
    /\ UNCHANGED <<host, saved, clock, active, online, nights, reboots, starts, tainted>>

NightEnds ==
    /\ At("enforcer", "idle") /\ enabled /\ ~night /\ active
    /\ Does("enforcer", "read", Torn)
    /\ UNCHANGED <<host, saved, clock, active, online, nights, reboots, starts, tainted>>

\* Mutant: a schedule that is switched off is not looked at again.
SwitchedOff_Ignored ==
    /\ At("enforcer", "idle") /\ ~enabled /\ active
    /\ active' = FALSE
    /\ UNCHANGED <<host, saved, clock, online, op, nights, reboots, starts, tainted>>

SwitchedOff ==
    /\ At("enforcer", "idle") /\ ~enabled /\ active
    /\ Does("enforcer", "reread", Torn)
    /\ UNCHANGED <<host, saved, clock, active, online, nights, reboots, starts, tainted>>

\* Economy is what the night has applied.
Reread ==
    /\ At("enforcer", "reread")
    /\ IF saved = "economy" THEN Applied("enforcer")
                             ELSE Does("enforcer", "apply", saved) /\ UNCHANGED <<active, online>>
    /\ tainted' = (tainted \/ \E k \in Calls : Saving(k))
    /\ UNCHANGED <<host, saved, clock, nights, reboots, starts>>

-----------------------------------------------------------------------------
(* The schedule and the clock, the host, and restarts of hr-api            *)

SaveSchedule ==
    /\ nights > 0 /\ enabled /\ enabled' = FALSE
    /\ UNCHANGED <<host, saved, night, active, online, op, nights, reboots, starts, tainted>>

Clock ==
    /\ night' = ~night
    /\ IF night THEN UNCHANGED nights ELSE nights < MaxNights /\ nights' = nights + 1
    /\ UNCHANGED <<host, saved, enabled, active, online, op, reboots, starts, tainted>>

GoesDown ==
    /\ up /\ reboots < MaxReboots /\ reboots' = reboots + 1
    /\ up' = FALSE /\ actual' = "boot"
    /\ UNCHANGED <<saved, clock, active, online, op, nights, starts, tainted>>

\* A host is away for longer than the poller, which looks every 3 s, needs to notice.
ComesUp ==
    /\ ~up /\ up' = TRUE
    /\ ~online /\ At("poller", "idle")
    /\ UNCHANGED <<actual, saved, clock, active, online, op, nights, reboots, starts, tainted>>

Restart ==
    /\ starts < MaxStarts /\ starts' = starts + 1
    /\ active' = FALSE /\ online' = FALSE
    /\ op' = [a \in Actors |-> IF a \in Calls /\ ~At(a, "unused") THEN Over ELSE Started[a]]
    /\ tainted' = (tainted \/ \E k \in Calls : Busy(k))
    /\ UNCHANGED <<host, saved, clock, nights, reboots>>

-----------------------------------------------------------------------------
TaskStep(a) == ReadSaved(a) \/ Apply(a) \/ ApplyFails(a)
CallStep(k) == ChooseApply(k) \/ ChooseFails(k) \/ Create(k) \/ Write(k)
PollerStep == PollFinds \/ PollMisses
EnforcerStep == NightBegins \/ NightEnds \/ SwitchedOff \/ Reread

Next ==
    \/ \E a \in Actors : TaskStep(a)
    \/ \E k \in Calls : CallStep(k) \/ \E mode \in Modes : Choose(k, mode)
    \/ PollerStep \/ EnforcerStep
    \/ SaveSchedule \/ Clock \/ GoesDown \/ ComesUp \/ Restart

\* The tasks and the requests run; every ssh ends within 5 s.
Fairness ==
    /\ \A a \in Actors : WF_vars(TaskStep(a))
    /\ \A k \in Calls : WF_vars(CallStep(k))
    /\ WF_vars(PollerStep) /\ WF_vars(EnforcerStep)

Spec == Init /\ [][Next]_vars /\ Fairness

-----------------------------------------------------------------------------
TypeOK ==
    /\ up \in BOOLEAN /\ actual \in Modes \cup {"boot"}
    /\ saved \in Modes \cup {Torn}
    /\ enabled \in BOOLEAN /\ night \in BOOLEAN /\ active \in BOOLEAN /\ online \in BOOLEAN
    /\ op \in [Actors -> [step : Steps, mode : Modes \cup {Torn}]]
    /\ nights \in 0..MaxNights /\ reboots \in 0..MaxReboots /\ starts \in 1..MaxStarts
    /\ tainted \in BOOLEAN

\* By day, or when the schedule is off, a host that is up ends in the mode that was saved for it:
\* after its nights, its reboots, restarts of hr-api in the night, and a schedule that was switched
\* off in the night.  One ssh that fails, or a mode that is chosen while a task has read the old
\* one, is never made good.
Day == up /\ ~(enabled /\ night)
SettlesInMode == <>[]Day => <>[](actual = saved \/ tainted)
=============================================================================

--------------------------- MODULE ServiceSupervisor ---------------------------
(***************************************************************************)
(* spawn_supervised of hr-common, which runs every long-lived service of   *)
(* hr-netcore and hr-edge: the loop that starts a service, waits for its   *)
(* end, counts its failures and gives up or starts it again after a delay, *)
(* with the entry of the service in the registry of services.              *)
(*                                                                         *)
(* One service is the whole story.  The retries are a u32 with saturating  *)
(* addition; Saturation stands for u32::MAX, which is also the limit of a  *)
(* critical service.                                                       *)
(***************************************************************************)
EXTENDS Integers

CONSTANTS
    ImportantRetries,  \* max_retries of an important service
    Saturation         \* u32::MAX, and max_retries of a critical one

ASSUME ServiceAssumption == ImportantRetries \in Nat \ {0} /\ Saturation \in Nat \ {0}

VARIABLES
    priority,          \* critical or important
    pc,                \* the loop: start, run, judge, sleep or over
    retries,
    shown,             \* the state in the registry
    shownRetries,      \* restart_count in the registry
    longRun,           \* whether the last run took more than a minute
    clean, flaky       \* history: it ended without an error; some run was short

loop == <<priority, pc, retries>>
entry == <<shown, shownRetries>>
serviceVars == <<loop, entry, longRun, clean, flaky>>

MaxRetries == IF priority = "critical" THEN Saturation ELSE ImportantRetries

ServiceInit ==
    /\ priority \in {"critical", "important"}
    /\ pc = "start" /\ retries = 0
    /\ shown = "absent" /\ shownRetries = 0
    /\ longRun = FALSE /\ clean = FALSE /\ flaky = FALSE

MarkRunning ==
    /\ pc = "start" /\ pc' = "run"
    /\ shown' = "running" /\ shownRetries' = retries
    /\ UNCHANGED <<priority, retries, longRun, clean, flaky>>

\* An error or a panic, after a short or a long run.
Fails(long) ==
    /\ pc = "run" /\ pc' = "judge"
    /\ shown' = "failed"
    /\ longRun' = long
    /\ flaky' = (flaky \/ ~long)
    /\ UNCHANGED <<priority, retries, shownRetries, clean>>

EndsCleanly ==
    /\ pc = "run" /\ pc' = "over"
    /\ shown' = "stopped"
    /\ clean' = TRUE
    /\ UNCHANGED <<priority, retries, shownRetries, longRun, flaky>>

\* saturating_add
Counted(n) == IF n = Saturation THEN n ELSE n + 1

\* Mutant: a long run does not forgive the failures before it.
Tries_NoReset == Counted(retries)

\* A run of more than a minute resets the counter before the failure is counted.
Tries == Counted(IF longRun THEN 0 ELSE retries)

\* Mutant: the last retry is one too many.
Exceeded_Early(n) == n >= MaxRetries

Exceeded(n) == n > MaxRetries

GiveUp ==
    /\ pc = "judge" /\ Exceeded(Tries)
    /\ pc' = "over"
    /\ retries' = Tries
    /\ shown' = "stopped"
    /\ UNCHANGED <<priority, shownRetries, longRun, clean, flaky>>

BackOff ==
    /\ pc = "judge" /\ ~Exceeded(Tries)
    /\ pc' = "sleep"
    /\ retries' = Tries
    /\ shownRetries' = Tries
    /\ UNCHANGED <<priority, shown, longRun, clean, flaky>>

WakeUp ==
    /\ pc = "sleep" /\ pc' = "start"
    /\ UNCHANGED <<priority, retries, entry, longRun, clean, flaky>>

LoopStep == MarkRunning \/ GiveUp \/ BackOff \/ WakeUp

ServiceNext == LoopStep \/ EndsCleanly \/ \E long \in BOOLEAN : Fails(long)

\* The loop is a task of its own: it goes on whatever becomes of the service.
ServiceSpec == ServiceInit /\ [][ServiceNext]_serviceVars /\ WF_serviceVars(LoopStep)

-----------------------------------------------------------------------------
ServiceTypeOK ==
    /\ priority \in {"critical", "important"}
    /\ pc \in {"start", "run", "judge", "sleep", "over"}
    /\ retries \in 0..Saturation /\ shownRetries \in 0..Saturation
    /\ shown \in {"absent", "running", "failed", "stopped"}
    /\ longRun \in BOOLEAN /\ clean \in BOOLEAN /\ flaky \in BOOLEAN

\* "Les services critiques redemarrent indefiniment": a critical service that has not ended by itself
\* does not stay failed, even when its counter has reached the end of its type.
CriticalComesBack == []<>(priority = "critical" => shown \notin {"failed", "stopped"} \/ clean)

\* A service that has not ended by itself is given up only when it is not critical and one of its
\* failures came within a minute of its start: a counter at the end of its type and failures that are
\* far apart do not count as too many.
RestartPolicy == (shown = "stopped" /\ ~clean) => (priority = "important" /\ flaky)
=============================================================================

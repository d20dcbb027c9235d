--------------------------------- MODULE MCApi ---------------------------------
(* One run for four parts of hr-api that share no state: the accounts, the updates of the machine
   itself, the upgrades of the hosts and the energy modes.  The initial state picks the part that
   moves, so that the numbers of states add up instead of multiplying.  Of the accounts there is a
   session, a change of the password and the death of one process. *)
EXTENDS Accounts, Updates

CONSTANT h1
VARIABLES part
VARIABLES up, actual, mode, enabled, night, active, online, op, nights, reboots, starts, tainted

\* A mode that is chosen, a night, an absence of the host and a restart of hr-api.
Energy == INSTANCE EnergyModes
    WITH Calls <- {"k"}, MaxNights <- 1, MaxReboots <- 1, MaxStarts <- 2, saved <- mode

energyVars == <<up, actual, mode, enabled, night, active, online, op, nights, reboots, starts, tainted>>
sumVars == <<part, vars, jobsVars, upgradesVars, energyVars>>

\* The parts that do not move start in one of their initial states.
SumInit ==
    /\ part \in {"users", "jobs", "upgrades", "energy"}
    /\ Init /\ JobsInit /\ UpgradesInit /\ Energy!Init
    /\ part # "upgrades" => waiting[h1] = 0 /\ results[h1] = 0
    /\ part # "energy" => up /\ actual = "economy" /\ mode = "economy" /\ enabled

UsersPart    == part = "users"    /\ UNCHANGED <<part, jobsVars, upgradesVars, energyVars>>
JobsPart     == part = "jobs"     /\ UNCHANGED <<part, vars, upgradesVars, energyVars>>
UpgradesPart == part = "upgrades" /\ UNCHANGED <<part, vars, jobsVars, energyVars>>
EnergyPart   == part = "energy"   /\ UNCHANGED <<part, vars, jobsVars, upgradesVars>>

SumNext ==
    \/ UsersPart /\ Next
    \/ JobsPart /\ JobsNext
    \/ UpgradesPart /\ UpgradesNext
    \/ EnergyPart /\ Energy!Next

\* The fairness that the parts state, for the part that moves.
SumFairness ==
    /\ \A j \in Jobs : WF_jobsVars(part = "jobs" /\ JobStep(j))
    /\ \A a \in Energy!Actors : WF_energyVars(part = "energy" /\ Energy!TaskStep(a))
    /\ WF_energyVars(part = "energy" /\ Energy!CallStep("k"))
    /\ WF_energyVars(part = "energy" /\ Energy!PollerStep)
    /\ WF_energyVars(part = "energy" /\ Energy!EnforcerStep)

SumSpec == SumInit /\ [][SumNext]_sumVars /\ SumFairness

(* The types of the four parts; no upgrade of a host is in the history twice. *)
PartsTypeOK == TypeOK /\ JobsTypeOK /\ UpgradesTypeOK /\ Energy!TypeOK
(* Updates (run_check, run_upgrade): no check and no upgrade keeps the next one out for ever.  Energy
   (apply_mode, the poller, the enforcer): a host ends in the mode that was saved for it. *)
ApiSettles == RunningEnds /\ Energy!SettlesInMode
=============================================================================

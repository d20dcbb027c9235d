-------------------------------- MODULE Updates --------------------------------
(***************************************************************************)
(* The updates of hr-api (routes/updates.rs): the checks and upgrades of   *)
(* the machine itself, and those of the hosts.  They share the router and  *)
(* the screen that shows them, and no state.                               *)
(***************************************************************************)
EXTENDS UpdateJobs, HostUpgrades

updatesVars == <<jobsVars, upgradesVars>>

UpdatesInit == JobsInit /\ UpgradesInit

UpdatesNext ==
    \/ JobsNext /\ UNCHANGED upgradesVars
    \/ UpgradesNext /\ UNCHANGED jobsVars

UpdatesSpec == UpdatesInit /\ [][UpdatesNext]_updatesVars

(* Updates (run_check, run_upgrade, upgrade_target): what is shown of a check or an upgrade, while it
   runs and in the history, is what happened. *)
UpdatesAreTrue == RunningIsTrue /\ UpgradesAreTold
=============================================================================

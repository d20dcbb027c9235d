------------------------------- MODULE MCNetwork -------------------------------
(* One run for five parts that share no state: the names of the local network, the delegated prefix,
   the supervision of a service, the link to a remote host, and the cancelling of backups.  The
   initial state picks the part that moves, so that the numbers of states add up instead of
   multiplying.  Both limits of the retries of a service are reached, the one of their type and the one
   of an important service. *)
EXTENDS PrefixDelegation, HostLink, LocalDns, ServiceSupervisor

CONSTANTS c1, c2
VARIABLES part
VARIABLES running, stage, backupShown, jobs, cancelled, rsyncPid, backupCall, task, rsync, exited, cut

\* The file of the resolver has no records; the cache has one entry, which the two foreign names
\* compete for.
NoRecords == [n \in Names \cup {Wildcard} |-> <<>>]

\* Two backups of one repository; a timeout would only end them sooner.
Backup == INSTANCE BackupPipeline
    WITH Callers <- {c1, c2}, MaxRuns <- 2, NumRepos <- 1, MaxJobs <- 1, Patient <- TRUE,
         TimesOut <- FALSE, shown <- backupShown, call <- backupCall, clean <- exited

backupVars ==
    <<running, stage, backupShown, jobs, cancelled, rsyncPid, backupCall, task, rsync, exited, cut>>
sumVars == <<part, dnsVars, vars, serviceVars, hostVars, backupVars>>

SumInit ==
    /\ part \in {"dns", "prefix", "service", "host", "backup"}
    /\ DnsInit /\ Init /\ ServiceInit /\ HostInit /\ Backup!BackupInit
    /\ part # "service" => priority = "critical"

DnsPart     == part = "dns"     /\ UNCHANGED <<part, vars, serviceVars, hostVars, backupVars>>
PrefixPart  == part = "prefix"  /\ UNCHANGED <<part, dnsVars, serviceVars, hostVars, backupVars>>
ServicePart == part = "service" /\ UNCHANGED <<part, dnsVars, vars, hostVars, backupVars>>
HostPart    == part = "host"    /\ UNCHANGED <<part, dnsVars, vars, serviceVars, backupVars>>
BackupPart  == part = "backup"  /\ UNCHANGED <<part, dnsVars, vars, serviceVars, hostVars>>

SumNext ==
    \/ DnsPart /\ DnsNext
    \/ PrefixPart /\ Next
    \/ ServicePart /\ ServiceNext
    \/ HostPart /\ HostNext
    \/ BackupPart /\ Backup!BackupNext

\* The fairness that the parts state, for the part that moves.
SumFairness ==
    /\ WF_dnsVars(part = "dns" /\ Periodic) /\ WF_dnsVars(part = "dns" /\ Wake)
    /\ WF_dnsVars(part = "dns" /\ Push) /\ WF_dnsVars(part = "dns" /\ PushFails)
    /\ WF_dnsVars(part = "dns" /\ \E q \in asking : Answer(q))
    /\ WF_dnsVars(part = "dns" /\ Start) /\ SF_dnsVars(part = "dns" /\ SetManaged)
    /\ WF_vars(part = "prefix" /\ ClientStep)
    /\ WF_vars(part = "prefix" /\ SenderStep)
    /\ \A l \in 1..2 : WF_vars(part = "prefix" /\ GrowsOld(l))
    /\ WF_serviceVars(part = "service" /\ LoopStep)
    /\ \A s \in Sockets : WF_hostVars(part = "host" /\ SocketStep(s))
    /\ \A k \in Calls : WF_hostVars(part = "host" /\ CallStep(k))
    /\ WF_hostVars(part = "host" /\ GrowOld) /\ WF_hostVars(part = "host" /\ Collect)
    /\ WF_hostVars(part = "host" /\ TimeOut) /\ WF_hostVars(part = "host" /\ Cleanup)
    /\ \A c \in {c1, c2} : WF_backupVars(part = "backup" /\ Backup!CallStep(c))
    /\ \A r \in Backup!Runs : WF_backupVars(part = "backup" /\ Backup!TaskStep(r))

SumSpec == SumInit /\ [][SumNext]_sumVars /\ SumFairness

(* The types of the parts; the cache and the host's channel keep their limits and no counter leaves its
   type. *)
PartsTypeOK == DnsTypeOK /\ TypeOK /\ ServiceTypeOK /\ HostTypeOK /\ Backup!BackupTypeOK
(* Backups (cancel): a cancelled run ends. *)
CancelEnds == Backup!CancelEnds
(* DNS (DnsRouteSync and hr-netcore): when the changes are over the names of the routes, and only they,
   resolve here for good, whatever calls timed out, overtook each other or fell into a restart or a
   reload of hr-netcore.  IPv6 (run_pd_client): a lease that is over is noticed.  Services
   (spawn_supervised): a critical service always comes back. *)
NetworkSettles == <>[](part = "dns" => RoutesResolve) /\ ExpiredIsWithdrawn /\ CriticalComesBack
=============================================================================

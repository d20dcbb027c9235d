----------------------------- MODULE HostUpgrades -----------------------------
(***************************************************************************)
(* The upgrades of hosts that hr-api starts (routes/updates.rs): the scans *)
(* of all hosts, the upgrade of one host or of all that have updates, and  *)
(* the history of upgrades in SQLite.                                      *)
(*                                                                         *)
(* hr-api never hears from a host: it sends a command through              *)
(* hr-orchestrator and then watches the host's last scan, which the        *)
(* orchestrator keeps in scan_results, for a change.  The calls, the scans *)
(* and the hosts interleave at every await.  The rows of the history carry *)
(* no name of their call: an outcome is written to the latest row of the   *)
(* same host and category, by a timestamp in seconds.                      *)
(***************************************************************************)
EXTENDS Integers, Sequences, FiniteSets

CONSTANTS Hosts, NoHost,
          MaxCalls,     \* bound: the calls and scans, in the order in which they are made
          MaxPublished, \* bound: the packages that wait at a host
          MaxRestarts   \* bound: the restarts of the two services together

ASSUME UpgradesAssumption ==
    /\ NoHost \notin Hosts /\ IsFiniteSet(Hosts)
    /\ MaxCalls \in Nat /\ MaxPublished \in Nat /\ MaxRestarts \in Nat

VARIABLES
    waiting,    \* os_upgradable as it is at each host
    inbox,      \* what the agent of each host has been told and has not done
    results,    \* scan_results of hr-orchestrator
    call,       \* the calls: what they are about, their next step and what they have read
    past,       \* update_history: the rows in the order of their insertion
    second,     \* whether a row has been inserted in the current second
    restarts,
    told,       \* history: the outcome that UpgradeComplete gave of each call
    crossed,    \* history: calls whose row could be taken for another's, or the other way round
    upgraded,   \* history: calls whose host has upgraded since their command was sent
    blurred     \* history: calls whose host got packages that the baseline does not count

upgradesVars == <<waiting, inbox, results, call, past, second, restarts, told, crossed,
          upgraded, blurred>>

Calls == 1..MaxCalls
Missing == -1           \* no entry in scan_results
CallKinds == {"apt", "agent", "batch", "scan"}
CallSteps == {"unused", "kind", "send", "nobody", "baseline", "poll", "trigger", "watch",  \* one host
          "list", "each",                                                        \* all hosts
          "ask", "relay",                                                        \* a scan
          "over", "dropped"}

NoCall == [kind |-> "apt", step |-> "unused", host |-> NoHost, seen |-> Missing, hosts |-> {}]

observed == <<upgraded, blurred>>

UpgradesInit ==
    /\ waiting \in [Hosts -> 0..MaxPublished]
    /\ inbox = [h \in Hosts |-> {}]
    /\ results \in [Hosts -> {Missing} \cup 0..MaxPublished] /\ \A h \in Hosts : results[h] <= waiting[h]
    /\ call = [k \in Calls |-> NoCall]
    /\ past = <<>> /\ second = FALSE
    /\ restarts = 0
    /\ told = [k \in Calls |-> "none"]
    /\ crossed = {} /\ upgraded = {} /\ blurred = {}

CallAt(k, step) == call[k].step = step
New(k) == CallAt(k, "unused") /\ \A j \in 1..(k - 1) : ~CallAt(j, "unused")
CallGo(k, step) == call' = [call EXCEPT ![k].step = step]
Working(k) == call[k].step \notin {"unused", "over", "dropped"}

\* The calls that have sent their command to the host and wait.
Sent(h) == {k \in Calls : call[k].host = h /\ (CallAt(k, "baseline") \/ CallAt(k, "poll"))}

-----------------------------------------------------------------------------
(* UpdateAuditLog                                                          *)

Category(k) == IF call[k].kind = "agent" THEN "agent" ELSE "apt"
SameKey(row, h, category) == row.host = h /\ row.category = category

\* A row may share its second with the one before it.
Stamp(sameSecond) ==
    IF past = <<>> THEN 1
    ELSE past[Len(past)].stamp + (IF sameSecond THEN 0 ELSE 1)

Row(k, h, category, stamp) ==
    [call |-> k, host |-> h, category |-> category, stamp |-> stamp, status |-> "started"]

\* The calls with a row that an outcome could hit instead of the new one, or that end later.
Rivals(h, category, stamp) ==
    {past[r].call : r \in {q \in 1..Len(past) :
        /\ SameKey(past[q], h, category)
        /\ past[q].stamp = stamp \/ Working(past[q].call)}}

Inserted(k, h, category) ==
    \E same \in IF second THEN BOOLEAN ELSE {FALSE} :
        LET stamp == Stamp(same)
            rivals == Rivals(h, category, stamp)
        IN /\ past' = Append(past, Row(k, h, category, stamp))
           /\ crossed' = IF rivals = {} THEN crossed ELSE crossed \cup rivals \cup {k}
           /\ second' = TRUE

\* ORDER BY timestamp DESC LIMIT 1: any of the rows of the last second.
Latest(h, category) ==
    {r \in 1..Len(past) :
        /\ SameKey(past[r], h, category)
        /\ \A q \in 1..Len(past) : SameKey(past[q], h, category) => past[q].stamp <= past[r].stamp}

\* Mutant: the first row of the host is taken.
Report_Oldest(k, outcome) ==
    /\ told' = [told EXCEPT ![k] = outcome]
    /\ LET rows == {r \in 1..Len(past) : SameKey(past[r], call[k].host, Category(k))}
       IN \E r \in rows : /\ \A q \in rows : r <= q
                          /\ past' = [past EXCEPT ![r].status = outcome]
    /\ CallGo(k, "over")

\* update_status and UpgradeComplete
Report(k, outcome) ==
    /\ told' = [told EXCEPT ![k] = outcome]
    /\ \E r \in Latest(call[k].host, Category(k)) : past' = [past EXCEPT ![r].status = outcome]
    /\ CallGo(k, "over")

-----------------------------------------------------------------------------
(* upgrade_target                                                          *)

\* The row is inserted and UpgradeStarted sent before anything else.
Target(k, h, kind) ==
    /\ New(k)
    /\ call' = [call EXCEPT ![k] =
         [NoCall EXCEPT !.kind = kind, !.host = h, !.step = IF kind = "agent" THEN "trigger" ELSE "kind"]]
    /\ Inserted(k, h, IF kind = "agent" THEN "agent" ELSE "apt")
    /\ UNCHANGED <<waiting, inbox, results, restarts, told, observed>>

\* Only the results of a scan say that the target is a host; all others are sent to the agents of
\* the applications, none of which connects any more.  The request for the results may fail.
Kind(k) ==
    /\ CallAt(k, "kind")
    /\ \/ results[call[k].host] # Missing /\ CallGo(k, "send")
       \/ CallGo(k, "nobody")
    /\ UNCHANGED <<waiting, inbox, results, past, second, restarts, told, crossed, observed>>

Send(k) ==
    /\ CallAt(k, "send") /\ CallGo(k, "baseline")
    /\ inbox' = [inbox EXCEPT ![call[k].host] = @ \cup {"upgrade"}]
    /\ UNCHANGED <<waiting, results, past, second, restarts, told, crossed, observed>>

SendFails(k) ==
    /\ CallAt(k, "send") \/ CallAt(k, "nobody")
    /\ Report(k, "failed")
    /\ UNCHANGED <<waiting, inbox, results, second, restarts, crossed, observed>>

\* What the upgrade is to change, read when the host may already be at work.
Baseline(k) ==
    /\ CallAt(k, "baseline")
    /\ \E seen \in {results[call[k].host], Missing} :
         call' = [call EXCEPT ![k].step = "poll", ![k].seen = seen]
    /\ blurred' = IF results[call[k].host] = waiting[call[k].host] THEN blurred ELSE blurred \cup {k}
    /\ UNCHANGED <<waiting, inbox, results, past, second, restarts, told, crossed, upgraded>>

\* Mutant: any result of the host is taken for the upgrade's.
Detected_AnyResult(k) ==
    /\ CallAt(k, "poll")
    /\ results[call[k].host] # Missing
    /\ Report(k, "success")
    /\ UNCHANGED <<waiting, inbox, results, second, restarts, crossed, observed>>

\* Without a baseline the first result is taken for the upgrade's.
Detected(k) ==
    /\ CallAt(k, "poll")
    /\ results[call[k].host] \notin {Missing, call[k].seen}
    /\ Report(k, "success")
    /\ UNCHANGED <<waiting, inbox, results, second, restarts, crossed, observed>>

\* 600 s without a change.
GivesUp(k) ==
    /\ CallAt(k, "poll")
    /\ Report(k, "failed")
    /\ UNCHANGED <<waiting, inbox, results, second, restarts, crossed, observed>>

\* trigger_update answers ok when no agent is connected too.
Trigger(k) ==
    /\ CallAt(k, "trigger")
    /\ \/ CallGo(k, "watch") /\ UNCHANGED <<past, told, observed>>
       \/ Report(k, "failed")
    /\ UNCHANGED <<waiting, inbox, results, second, restarts, crossed, observed>>

\* 30 s, or the latest version is seen: the outcome is the same.
Watched(k) ==
    /\ CallAt(k, "watch")
    /\ Report(k, "success")
    /\ UNCHANGED <<waiting, inbox, results, second, restarts, crossed, observed>>

-----------------------------------------------------------------------------
(* upgrade_hosts: started, and never looked at again                       *)

Batch(k) ==
    /\ New(k)
    /\ call' = [call EXCEPT ![k] = [NoCall EXCEPT !.kind = "batch", !.step = "list"]]
    /\ UNCHANGED <<waiting, inbox, results, past, second, restarts, told, crossed, observed>>

List(k) ==
    /\ CallAt(k, "list")
    /\ LET due == {h \in Hosts : results[h] > 0}
       IN call' = [call EXCEPT ![k].step = IF due = {} THEN "over" ELSE "each", ![k].hosts = due]
    /\ UNCHANGED <<waiting, inbox, results, past, second, restarts, told, crossed, observed>>

\* Mutant: a host whose row is inserted is still one of those to do.
EachInsert_Again(k) ==
    /\ CallAt(k, "each") /\ call[k].host = NoHost
    /\ \E h \in call[k].hosts : Inserted(k, h, "apt")
    /\ UNCHANGED <<waiting, inbox, results, call, restarts, told, observed>>

\* The insertion for a host; its command is what the call waits for next.
EachInsert(k) ==
    /\ CallAt(k, "each") /\ call[k].host = NoHost
    /\ \E h \in call[k].hosts :
         /\ Inserted(k, h, "apt")
         /\ call' = [call EXCEPT ![k].host = h]
    /\ UNCHANGED <<waiting, inbox, results, restarts, told, observed>>

\* A command that cannot be sent is not noticed.
EachSend(k) ==
    LET h == call[k].host
    IN /\ CallAt(k, "each") /\ h # NoHost
       /\ \/ inbox' = [inbox EXCEPT ![h] = @ \cup {"upgrade"}]
          \/ UNCHANGED inbox
       /\ call' = [call EXCEPT ![k].host = NoHost, ![k].hosts = @ \ {h},
                               ![k].step = IF call[k].hosts = {h} THEN "over" ELSE "each"]
       /\ UNCHANGED <<waiting, results, past, second, restarts, told, crossed, observed>>

\* The client goes away: axum drops the handler where it waits.  (What upgrade_target and the scans
\* have spawned goes on.)
HangUp(k) ==
    /\ call[k].step \in {"kind", "send", "nobody", "baseline", "list", "each"}
    /\ CallGo(k, "dropped")
    /\ UNCHANGED <<waiting, inbox, results, past, second, restarts, told, crossed, observed>>

-----------------------------------------------------------------------------
(* run_background_scan and scan_all: a scan is asked for and its results   *)
(* are relayed until there are as many as hosts were asked, or for 60 s    *)

Scan(k) ==
    /\ New(k)
    /\ call' = [call EXCEPT ![k] = [NoCall EXCEPT !.kind = "scan", !.step = "ask"]]
    /\ UNCHANGED <<waiting, inbox, results, past, second, restarts, told, crossed, observed>>

\* Of a request that fails or times out nothing is expected (seen is the number that is).
AskHosts(k) ==
    /\ CallAt(k, "ask")
    /\ \/ /\ inbox' = [h \in Hosts |-> inbox[h] \cup {"scan"}]
          /\ call' = [call EXCEPT ![k].step = "relay", ![k].seen = Cardinality(Hosts)]
       \/ /\ call' = [call EXCEPT ![k].step = "relay", ![k].seen = 0]
          /\ UNCHANGED inbox
    /\ UNCHANGED <<waiting, results, past, second, restarts, told, crossed, observed>>

\* Each host is relayed once, with the result that is there: it may be older than the scan.
Relay(k) ==
    LET all == call[k].hosts \cup {h \in Hosts : results[h] # Missing}
    IN /\ CallAt(k, "relay") /\ all # call[k].hosts
       /\ call' = [call EXCEPT ![k].hosts = all,
              ![k].step = IF call[k].seen > 0 /\ Cardinality(all) >= call[k].seen THEN "over" ELSE "relay"]
       /\ UNCHANGED <<waiting, inbox, results, past, second, restarts, told, crossed, observed>>

RelayEnds(k) ==
    /\ CallAt(k, "relay") /\ CallGo(k, "over")
    /\ UNCHANGED <<waiting, inbox, results, past, second, restarts, told, crossed, observed>>

-----------------------------------------------------------------------------
(* The hosts, and restarts                                                 *)

HostUpgrades(h) ==
    /\ "upgrade" \in inbox[h]
    /\ inbox' = [inbox EXCEPT ![h] = (@ \ {"upgrade"}) \cup {"scan"}]
    /\ waiting' = [waiting EXCEPT ![h] = 0]
    /\ upgraded' = upgraded \cup Sent(h)
    /\ UNCHANGED <<results, call, past, second, restarts, told, crossed, blurred>>

\* handle_host_agent_message: UpdateScanResult
HostReports(h) ==
    /\ "scan" \in inbox[h]
    /\ inbox' = [inbox EXCEPT ![h] = @ \ {"scan"}]
    /\ results' = [results EXCEPT ![h] = waiting[h]]
    /\ UNCHANGED <<waiting, call, past, second, restarts, told, crossed, observed>>

Publish(h) ==
    /\ waiting[h] < MaxPublished
    /\ waiting' = [waiting EXCEPT ![h] = @ + 1]
    /\ blurred' = blurred \cup Sent(h)
    /\ UNCHANGED <<inbox, results, call, past, second, restarts, told, crossed, upgraded>>

NextSecond ==
    /\ second /\ second' = FALSE
    /\ UNCHANGED <<waiting, inbox, results, call, past, restarts, told, crossed, observed>>

OrchestratorRestarts ==
    /\ restarts < MaxRestarts /\ restarts' = restarts + 1
    /\ results' = [h \in Hosts |-> Missing]
    /\ UNCHANGED <<waiting, inbox, call, past, second, told, crossed, observed>>

\* Mutant: the rows of the calls that died are left as they are.
ApiRestarts_KeepsRows ==
    /\ restarts < MaxRestarts /\ restarts' = restarts + 1
    /\ call' = [k \in Calls |-> IF Working(k) THEN [call[k] EXCEPT !.step = "over"] ELSE call[k]]
    /\ UNCHANGED <<waiting, inbox, results, past, second, told, crossed, observed>>

\* The calls are gone; UpdateAuditLog::new ends their rows.
ApiRestarts ==
    /\ restarts < MaxRestarts /\ restarts' = restarts + 1
    /\ call' = [k \in Calls |-> IF Working(k) THEN [call[k] EXCEPT !.step = "over"] ELSE call[k]]
    /\ past' = [r \in 1..Len(past) |->
         IF past[r].status = "started" THEN [past[r] EXCEPT !.status = "failed"] ELSE past[r]]
    /\ UNCHANGED <<waiting, inbox, results, second, told, crossed, observed>>

-----------------------------------------------------------------------------
CallStep(k) ==
    \/ Kind(k) \/ Send(k) \/ SendFails(k) \/ Baseline(k) \/ Detected(k) \/ GivesUp(k)
    \/ Trigger(k) \/ Watched(k) \/ List(k) \/ EachInsert(k) \/ EachSend(k)
    \/ AskHosts(k) \/ Relay(k) \/ RelayEnds(k) \/ HangUp(k)

UpgradesNext ==
    \/ \E k \in Calls : \/ CallStep(k) \/ Batch(k) \/ Scan(k)
                        \/ \E h \in Hosts, kind \in {"apt", "agent"} : Target(k, h, kind)
    \/ \E h \in Hosts : HostUpgrades(h) \/ HostReports(h) \/ Publish(h)
    \/ NextSecond \/ OrchestratorRestarts \/ ApiRestarts

UpgradesSpec == UpgradesInit /\ [][UpgradesNext]_upgradesVars

-----------------------------------------------------------------------------
\* One row of the history for a call and a host at most.
UpgradesTypeOK ==
    /\ waiting \in [Hosts -> 0..MaxPublished]
    /\ inbox \in [Hosts -> SUBSET {"scan", "upgrade"}]
    /\ results \in [Hosts -> {Missing} \cup 0..MaxPublished]
    /\ call \in [Calls -> [kind : CallKinds, step : CallSteps, host : Hosts \cup {NoHost},
                          seen : {Missing} \cup 0..(MaxPublished + Cardinality(Hosts)), hosts : SUBSET Hosts]]
    /\ Len(past) <= MaxCalls * Cardinality(Hosts)
    /\ \A r \in 1..Len(past) :
         past[r] \in [call : Calls, host : Hosts, category : {"apt", "agent"}, stamp : Nat,
                         status : {"started", "success", "failed"}]
    /\ second \in BOOLEAN /\ restarts \in 0..MaxRestarts
    /\ told \in [Calls -> {"none", "success", "failed"}] /\ crossed \subseteq Calls
    /\ upgraded \subseteq Calls /\ blurred \subseteq Calls

\* The outcome that the user was told of an upgrade is the one that its row in the history keeps,
\* after other upgrades of the host and after restarts, unless another upgrade of the same host and
\* category was under way or began in the same second.
HistoryIsTold ==
    \A r \in 1..Len(past) : LET k == past[r].call
                               IN told[k] # "none" /\ k \notin crossed => past[r].status = told[k]

\* A row that says "started" is that of a call that is still at work, of one whose client went away
\* before the command was confirmed, or of the upgrade of all hosts: no failure, timeout or restart
\* leaves another behind.
StartedIsAtWork ==
    \A r \in 1..Len(past) : LET k == past[r].call
                               IN past[r].status = "started" =>
                                    Working(k) \/ CallAt(k, "dropped") \/ k \in crossed \/ call[k].kind = "batch"

\* A success that was told against a baseline is of a host that has upgraded since it was asked to,
\* unless packages were published in between, which a scan of anybody's may bring to light.
WithBaseline(k) == told[k] = "success" /\ call[k].kind = "apt" /\ call[k].seen # Missing
SuccessIsReal == \A k \in Calls : WithBaseline(k) => k \in upgraded \/ k \in blurred

UpgradesAreTold == HistoryIsTold /\ StartedIsAtWork /\ SuccessIsReal

\* updates.rs:1069-1072: the compared field "avoids false positives from concurrent scans [...] without
\* actually upgrading anything".
SuccessMeansUpgraded == \A k \in Calls : WithBaseline(k) => k \in upgraded
=============================================================================

------------------------------- MODULE HostLink -------------------------------
(***************************************************************************)
(* One remote host as hr-orchestrator sees it (hr-registry state.rs and    *)
(* ws_routes.rs): the WebSockets its agent opens, the registered           *)
(* connection with its channel of outgoing messages, the power state with  *)
(* its timeouts, and the calls that wake the host, shut it down or reboot  *)
(* it, run a command on it, or scan it for updates.                        *)
(*                                                                         *)
(* Every socket has a task; a socket that breaks unnoticed lives on beside *)
(* its successor until its own timeout.  All tasks and calls interleave at *)
(* every await.  Left out: hosts.json, the MAC address cache, metrics, and *)
(* the container transfers, which nothing starts any more.                 *)
(***************************************************************************)
EXTENDS Integers, Sequences

CONSTANTS MaxSockets, \* bound: the sockets that the agent opens, numbered in that order
          MaxCalls,   \* bound: the calls that are made, in that order
          Capacity    \* capacity of a connection's channel

ASSUME HostAssumption == MaxSockets \in Nat /\ MaxCalls \in Nat /\ Capacity \in Nat

VARIABLES
    sock,       \* the task of each socket: its next step, the power state it is about to set
    conn,       \* host_connections: the socket registered for the host
    queue,      \* the messages in the channel of each socket, as the calls that sent them
    power,      \* host_power_states
    due,        \* the monitor has seen a state that is past its timeout
    call,       \* the next step of each call, and the socket it sends to
    readers,    \* the calls that hold the read lock of host_connections across an await
    signals,    \* exec_signals
    delivered   \* commands that the agent has received and not answered

Sockets == 1..MaxSockets
Calls == 1..MaxCalls

lock == <<conn, readers>>
hostVars == <<sock, lock, queue, power, due, call, signals, delivered>>

None == 0
Transitional == {"WakingUp", "ShuttingDown", "Rebooting"}
PowerStates == {"Online", "Offline"} \cup Transitional
Ages == {"fresh", "old"}    \* less than 30 s in a transitional state; more, the timeout may have passed

Open == {"online", "loop", "beat", "offline", "remove"}
SocketSteps == {"unused", "closed"} \cup Open
CallSteps ==
    {"unused", "dedup", "mark", "ShuttingDown", "Rebooting", "lookup", "send", "wait", "scan", "done"}

HostInit ==
    /\ sock = [s \in Sockets |-> [step |-> "unused", to |-> "Offline"]]
    /\ conn = None /\ readers = {}
    /\ queue = [s \in Sockets |-> <<>>]
    /\ power = [state |-> "Offline", age |-> "fresh"]
    /\ due = FALSE
    /\ call = [k \in Calls |-> [step |-> "unused", to |-> None]]
    /\ signals = {} /\ delivered = {}

\* transition_power_state: a state that does not change keeps its time.  Only transitional states
\* grow old: nothing looks at the time of the others.
Transition(state) ==
    power' = IF power.state = state THEN power ELSE [state |-> state, age |-> "fresh"]

-----------------------------------------------------------------------------
(* handle_host_agent_socket, with on_host_connected and -_disconnected     *)

At(s, step) == sock[s].step = step
Go(s, step) == sock' = [sock EXCEPT ![s].step = step]
WriteLock == readers = {}

\* An agent that has authenticated; a connection that is there already is replaced.
Insert(s) ==
    /\ At(s, "unused") /\ \A r \in 1..(s - 1) : ~At(r, "unused")
    /\ WriteLock
    /\ conn' = s
    /\ Go(s, "online")
    /\ UNCHANGED <<readers, queue, power, due, call, signals, delivered>>

ShowOnline(s) ==
    /\ At(s, "online") /\ Go(s, "loop")
    /\ Transition("Online")
    /\ UNCHANGED <<lock, queue, due, call, signals, delivered>>

\* A message whose handler takes the write lock (a heartbeat, metrics, interfaces, containers) and
\* has to wait for it; one that finds it free changes nothing here.
Receive(s) ==
    /\ At(s, "loop") /\ ~WriteLock
    /\ Go(s, "beat")
    /\ UNCHANGED <<lock, queue, power, due, call, signals, delivered>>

Beat(s) ==
    /\ At(s, "beat") /\ WriteLock
    /\ Go(s, "loop")
    /\ UNCHANGED <<lock, queue, power, due, call, signals, delivered>>

\* on_host_exec_result: an answer that comes after the timeout finds no one.
Result(s, k) ==
    /\ At(s, "loop") /\ k \in delivered
    /\ delivered' = delivered \ {k}
    /\ signals' = signals \ {k}
    /\ call' = IF k \in signals THEN [call EXCEPT ![k] = [step |-> "done", to |-> None]] ELSE call
    /\ UNCHANGED <<sock, lock, queue, power, due>>

\* The message reaches the agent.  (A socket that turns out to be broken leaves.)
SendOut(s) ==
    /\ At(s, "loop") /\ queue[s] # <<>>
    /\ queue' = [queue EXCEPT ![s] = Tail(@)]
    /\ delivered' = delivered \cup ({Head(queue[s])} \cap signals)
    /\ UNCHANGED <<sock, lock, power, due, call, signals>>

\* Mutant: the host reboots and will be back, the handler has nothing to do.
Leave_RebootReturns(s) ==
    /\ At(s, "loop")
    /\ sock' = [sock EXCEPT ![s] =
         IF power.state = "Rebooting" THEN [step |-> "closed", to |-> "Offline"]
                                      ELSE [step |-> "offline", to |-> "Offline"]]
    /\ UNCHANGED <<lock, queue, power, due, call, signals, delivered>>

\* Mutant: only a host that shuts down becomes Offline, the others keep their state.
Leave_OnlyShutdown(s) ==
    /\ At(s, "loop")
    /\ sock' = [sock EXCEPT ![s] =
         [step |-> "offline",
          to |-> IF power.state = "ShuttingDown" THEN "Offline" ELSE power.state]]
    /\ UNCHANGED <<lock, queue, power, due, call, signals, delivered>>

\* A Close, an error or 120 s without a message end the loop; the power state is read at once, and
\* set in a later step.
Leave(s) ==
    /\ At(s, "loop")
    /\ sock' = [sock EXCEPT ![s] =
         [step |-> "offline",
          to |-> IF power.state = "Rebooting" THEN "Rebooting" ELSE "Offline"]]
    /\ UNCHANGED <<lock, queue, power, due, call, signals, delivered>>

SetPower(s) ==
    /\ At(s, "offline") /\ Go(s, "remove")
    /\ Transition(sock[s].to)
    /\ UNCHANGED <<lock, queue, due, call, signals, delivered>>

\* By host: the connection of a successor goes too.
Remove(s) ==
    /\ At(s, "remove") /\ WriteLock
    /\ conn' = None
    /\ queue' = [queue EXCEPT ![s] = <<>>]
    /\ sock' = [sock EXCEPT ![s] = [step |-> "closed", to |-> "Offline"]]
    /\ UNCHANGED <<readers, power, due, call, signals, delivered>>

-----------------------------------------------------------------------------
(* request_wake_host and request_power_action                              *)

On(k, step) == call[k].step = step
New(k) == On(k, "unused") /\ \A j \in 1..(k - 1) : ~On(j, "unused")
Step(k, step) == call' = [call EXCEPT ![k].step = step]
Aim(k, step, to) == call' = [call EXCEPT ![k] = [step |-> step, to |-> to]]
End(k) == Aim(k, "done", None)

\* A host that is up or on its way down is not woken.
WakeCheck(k) ==
    /\ New(k)
    /\ Step(k, CASE power.state = "Offline" -> "mark"
                 [] power.state = "WakingUp" -> "dedup"
                 [] OTHER -> "done")
    /\ UNCHANGED <<sock, lock, queue, power, due, signals, delivered>>

WakeDedup(k) ==
    /\ On(k, "dedup")
    /\ \/ power.age = "fresh" /\ End(k)
       \/ (power.state \in Transitional => power.age = "old") /\ Step(k, "mark")
    /\ UNCHANGED <<sock, lock, queue, power, due, signals, delivered>>

\* No address is known, or the packet cannot be sent.
WakeFails(k) ==
    /\ On(k, "mark") /\ End(k)
    /\ UNCHANGED <<sock, lock, queue, power, due, signals, delivered>>

\* The packet has been sent.
\* Whatever the state has become since it was looked at.
WakeMark(k) ==
    /\ On(k, "mark") /\ End(k)
    /\ Transition("WakingUp")
    /\ UNCHANGED <<sock, lock, queue, due, signals, delivered>>

PowerCheck(k) ==
    /\ New(k)
    /\ power.state \notin {"WakingUp", "Offline"}
    /\ \E state \in {"ShuttingDown", "Rebooting"} \ {power.state} : Step(k, state)
    /\ UNCHANGED <<sock, lock, queue, power, due, signals, delivered>>

PowerSet(k) ==
    /\ call[k].step \in {"ShuttingDown", "Rebooting"} /\ Step(k, "lookup")
    /\ Transition(call[k].step)
    /\ UNCHANGED <<sock, lock, queue, due, signals, delivered>>

-----------------------------------------------------------------------------
(* send_host_command, exec_in_remote_container, trigger_host_update_scan   *)

Gone(s) == At(s, "closed")

Lookup(k) ==
    /\ On(k, "lookup")
    /\ IF conn = None THEN End(k) ELSE Aim(k, "send", conn)
    /\ UNCHANGED <<sock, lock, queue, power, due, signals, delivered>>

SendMessage(k) ==
    LET s == call[k].to
    IN /\ On(k, "send") /\ ~Gone(s) /\ Len(queue[s]) < Capacity
       /\ queue' = [queue EXCEPT ![s] = Append(@, k)]
       /\ Aim(k, IF k \in signals THEN "wait" ELSE "done", None)
       /\ UNCHANGED <<sock, lock, power, due, signals, delivered>>

\* 30 s without room, or nobody to receive; the signal of a command stays behind.
SendFails(k) ==
    LET s == call[k].to
    IN /\ On(k, "send") /\ (Gone(s) \/ Len(queue[s]) >= Capacity)
       /\ End(k)
       /\ UNCHANGED <<sock, lock, queue, power, due, signals, delivered>>

ExecBegin(k) ==
    /\ New(k) /\ Step(k, "lookup")
    /\ signals' = signals \cup {k}
    /\ UNCHANGED <<sock, lock, queue, power, due, delivered>>

ExecTimeout(k) ==
    /\ On(k, "wait") /\ End(k)
    /\ signals' = signals \ {k}
    /\ UNCHANGED <<sock, lock, queue, power, due, delivered>>

ScanLock(k) ==
    /\ New(k)
    /\ IF conn = None THEN End(k) /\ UNCHANGED readers
       ELSE Aim(k, "scan", conn) /\ readers' = readers \cup {k}
    /\ UNCHANGED <<sock, conn, queue, power, due, signals, delivered>>

\* Unlike send_host_command, with the lock held and without a timeout.
ScanSend(k) ==
    LET s == call[k].to
    IN /\ On(k, "scan") /\ Len(queue[s]) < Capacity
       /\ queue' = [queue EXCEPT ![s] = Append(@, k)]
       /\ readers' = readers \ {k}
       /\ End(k)
       /\ UNCHANGED <<sock, conn, power, due, signals, delivered>>

-----------------------------------------------------------------------------
(* run_heartbeat_monitor with check_power_state_timeouts, the passing of   *)
(* time, and cleanup_stale_signals                                         *)

GrowOld ==
    /\ power.state \in Transitional
    /\ power' = [power EXCEPT !.age = "old"]
    /\ UNCHANGED <<sock, lock, queue, due, call, signals, delivered>>

\* Mutant: a host that reboots is waited for without a limit.
Collect_NotRebooting ==
    /\ ~due
    /\ power.state \in {"WakingUp", "ShuttingDown"} /\ power.age = "old"
    /\ due' = TRUE
    /\ UNCHANGED <<sock, lock, queue, power, call, signals, delivered>>

Collect ==
    /\ ~due
    /\ power.state \in Transitional /\ power.age = "old"
    /\ due' = TRUE
    /\ UNCHANGED <<sock, lock, queue, power, call, signals, delivered>>

\* Whatever the state has become since it was collected.
TimeOut ==
    /\ due /\ due' = FALSE
    /\ Transition("Offline")
    /\ UNCHANGED <<sock, lock, queue, call, signals, delivered>>

\* Mutant: the receivers that are still there are dropped, the closed ones kept.
Cleanup_Inverted ==
    /\ signals' = {k \in signals : On(k, "done")}
    /\ UNCHANGED <<sock, lock, queue, power, due, call, delivered>>

\* A signal is closed when its call has ended.
Cleanup ==
    /\ signals' = {k \in signals : ~On(k, "done")}
    /\ UNCHANGED <<sock, lock, queue, power, due, call, delivered>>

-----------------------------------------------------------------------------
SocketStep(s) == ShowOnline(s) \/ Beat(s) \/ SetPower(s) \/ Remove(s)

CallStep(k) ==
    \/ WakeDedup(k) \/ WakeFails(k) \/ WakeMark(k) \/ PowerSet(k)
    \/ Lookup(k) \/ SendMessage(k) \/ SendFails(k) \/ ExecTimeout(k) \/ ScanSend(k)

HostNext ==
    \/ \E s \in Sockets : \/ Insert(s) \/ SocketStep(s) \/ Receive(s) \/ SendOut(s) \/ Leave(s)
                          \/ \E k \in Calls : Result(s, k)
    \/ \E k \in Calls : WakeCheck(k) \/ PowerCheck(k) \/ ExecBegin(k) \/ ScanLock(k) \/ CallStep(k)
    \/ GrowOld \/ Collect \/ TimeOut \/ Cleanup

\* tokio runs what can go on, the clock and the periodic tasks too; the agent need not do anything.
HostFairness ==
    /\ \A s \in Sockets : WF_hostVars(SocketStep(s))
    /\ \A k \in Calls : WF_hostVars(CallStep(k))
    /\ WF_hostVars(GrowOld) /\ WF_hostVars(Collect) /\ WF_hostVars(TimeOut) /\ WF_hostVars(Cleanup)

HostSpec == HostInit /\ [][HostNext]_hostVars /\ HostFairness

-----------------------------------------------------------------------------
HostTypeOK ==
    /\ sock \in [Sockets -> [step : SocketSteps, to : PowerStates]]
    /\ conn \in Sockets \cup {None} /\ readers \subseteq Calls
    /\ queue \in [Sockets -> Seq(Calls)] /\ \A s \in Sockets : Len(queue[s]) <= Capacity
    /\ power \in [state : PowerStates, age : Ages] /\ due \in BOOLEAN
    /\ call \in [Calls -> [step : CallSteps, to : Sockets \cup {None}]]
    /\ signals \subseteq Calls /\ delivered \subseteq Calls

\* The registered connection is one whose task is still there to take it away: no command is sent
\* into a channel that nobody reads, however the sockets of a host replace each other.
NoGhostConnection == conn # None => sock[conn].step \in Open

\* Nothing waits for an answer under the lock that the answer needs.  A task that sends to a
\* host's channel does not keep that host's handler from emptying it (state.rs:1089-1091).
NeverStuck ==
    \A k \in readers : LET s == call[k].to
                       IN ~(Len(queue[s]) = Capacity /\ sock[s].step \in {"beat", "remove"})

\* Waking, shutting down and rebooting end: a host that never answers is given up, and no later
\* request or reconnection that fails keeps the state alive for ever.
TransitionalStatesEnd == []<>(power.state \notin Transitional)

\* A host whose sockets have all gone is found Offline and not connected, whatever requests and
\* timeouts were under way when it went: again after every later one.
NoneOpen == \A s \in Sockets : sock[s].step \in {"unused", "closed"}
GoneHostEndsOffline == []<>(NoneOpen => power.state = "Offline" /\ conn = None)

\* No command's signal stays in the map: of a command that could not be sent, was not answered or
\* was answered too late.
SignalsReclaimed == \A k \in Calls : []<>(k \notin signals)

\* What is passing passes: power states between two others, connections, signals of commands.
HostSettles == TransitionalStatesEnd /\ GoneHostEndsOffline /\ SignalsReclaimed
=============================================================================

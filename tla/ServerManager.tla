--------------------------- MODULE ServerManager ---------------------------
(***************************************************************************)
(* class ServerManager of server_manager.py: start(), stop() and restart() *)
(* are called by any thread of the server (window, web panel, signal       *)
(* handler); start() leaves the work to a thread of its own (_do_start),   *)
(* and that one leaves a monitor, a traffic sampler and the enrolment      *)
(* listener behind.  Only the test at the head of start() is made under a  *)
(* lock; all the fields are read and written without one.                  *)
(*                                                                         *)
(* Run number r is the r-th thread of _do_start.  The wstunnel process,    *)
(* the monitor, the sampler and the listener it creates carry its number;  *)
(* None is the number 0.  The calls of the state's listeners are left out. *)
(***************************************************************************)
EXTENDS Naturals

CONSTANTS Callers,      \* threads that call start, stop and restart
          MaxCommands,  \* bound: their calls, hence runs
          MaxFaults     \* bound: deaths of wstunnel, failures of the platform

ASSUME ServerAssumption == MaxCommands \in Nat /\ MaxFaults \in Nat

Runs == 1..MaxCommands
None == 0

States == {"STOPPED", "STARTING", "RUNNING", "ERROR"}
StartSteps == {"wg", "verify", "spawn", "announce", "log", "clear",
               "watch", "sample", "listen"}

VARIABLES
    state, stopEvent,
    proc, monitor, sampler, listener,  \* the handles of the manager
    step,      \* step[r]: where run r is, "new" and "over" outside of it
    watch,     \* watch[r]: where its monitor is
    alive,     \* wstunnel processes on the machine
    sampling,  \* samplers whose thread runs
    bound,     \* the listener that has the enrolment port
    wgUp,      \* the WireGuard interface exists
    at, held,  \* at[c]: where caller c is; held[c]: what it has read from a handle
    again,     \* callers whose stop() is the first half of a restart
    started,   \* runs so far
    overlapped, \* history: two calls, or a call and a run, went on at once
    retried,    \* history: a run was started from ERROR
    refused,    \* history: the interface could not be taken down
    commands, faults

manager == <<state, stopEvent, proc, monitor, sampler, listener>>
machine == <<alive, sampling, bound, wgUp>>
threads == <<step, watch, at, held, again, started>>
history == <<overlapped, retried, refused>>
bounds == <<commands, faults>>
vars == <<manager, machine, threads, history, bounds>>

Init ==
    /\ state = "STOPPED"
    /\ stopEvent = FALSE
    /\ proc = None /\ monitor = None /\ sampler = None /\ listener = None
    /\ step = [r \in Runs |-> "new"]
    /\ watch = [r \in Runs |-> "none"]
    /\ alive = {} /\ sampling = {} /\ bound = None
    /\ wgUp = FALSE
    /\ at = [c \in Callers |-> "idle"]
    /\ held = [c \in Callers |-> None]
    /\ again = {}
    /\ started = 0
    /\ overlapped = FALSE /\ retried = FALSE /\ refused = FALSE
    /\ commands = 0 /\ faults = 0

Starting(r) == step[r] \in StartSteps
Watching(r) == watch[r] \in {"loop", "report"}

-----------------------------------------------------------------------------
(* _do_start, in the thread of run r.                                      *)

Goes(r, from, to) == step[r] = from /\ step' = [step EXCEPT ![r] = to]

\* What every step of a run leaves alone.
RunOnly == UNCHANGED <<at, held, again, started, history, commands>>

\* The run ends with an error: a failed check, a PlatformError, an exception.  The checks
\* before the interface touch nothing of the state.
Fails(r) ==
    /\ faults < MaxFaults
    /\ faults' = faults + 1
    /\ \E from \in {"wg", "spawn"} : Goes(r, from, "over")
    /\ state' = "ERROR"
    /\ UNCHANGED <<stopEvent, proc, monitor, sampler, listener, machine, watch>> /\ RunOnly

\* The service manager may report success for an interface that does not come up.
InstallsWg(r) ==
    /\ Goes(r, "wg", "verify")
    /\ \/ wgUp' = TRUE /\ UNCHANGED faults
       \/ wgUp' = wgUp /\ faults < MaxFaults /\ faults' = faults + 1
    /\ UNCHANGED <<manager, alive, sampling, bound, watch>> /\ RunOnly

Verifies(r) ==
    /\ wgUp
    /\ Goes(r, "verify", "spawn")
    /\ UNCHANGED <<manager, machine, watch, faults>> /\ RunOnly

FindsNoWg(r) ==
    /\ ~wgUp
    /\ Goes(r, "verify", "over")
    /\ state' = "ERROR"
    /\ UNCHANGED <<stopEvent, proc, monitor, sampler, listener, machine, watch, faults>> /\ RunOnly

Spawns(r) ==
    /\ Goes(r, "spawn", "announce")
    /\ proc' = r
    /\ alive' = alive \cup {r}
    /\ UNCHANGED <<state, stopEvent, monitor, sampler, listener, sampling, bound, wgUp,
                   watch, faults>> /\ RunOnly

Announces(r) ==
    /\ Goes(r, "announce", "log")
    /\ state' = "RUNNING"
    /\ UNCHANGED <<stopEvent, proc, monitor, sampler, listener, machine, watch, faults>> /\ RunOnly

\* The pid is read from the handle again: None raises.
Logs(r) ==
    /\ Goes(r, "log", IF proc = None THEN "over" ELSE "clear")
    /\ state' = IF proc = None THEN "ERROR" ELSE state
    /\ UNCHANGED <<stopEvent, proc, monitor, sampler, listener, machine, watch, faults>> /\ RunOnly

\* Variant: the event of the last stop() stays set.
ClearsNothing(r) ==
    Goes(r, "clear", "watch") /\ UNCHANGED <<manager, machine, watch, faults>> /\ RunOnly

Clears(r) ==
    /\ Goes(r, "clear", "watch")
    /\ stopEvent' = FALSE
    /\ UNCHANGED <<state, proc, monitor, sampler, listener, machine, watch, faults>> /\ RunOnly

Watches(r) ==
    /\ Goes(r, "watch", "sample")
    /\ monitor' = r
    /\ watch' = [watch EXCEPT ![r] = "loop"]
    /\ UNCHANGED <<state, stopEvent, proc, sampler, listener, machine, faults>> /\ RunOnly

Samples(r) ==
    /\ Goes(r, "sample", "listen")
    /\ sampler' = r
    /\ sampling' = sampling \cup {r}
    /\ UNCHANGED <<state, stopEvent, proc, monitor, listener, alive, bound, wgUp, watch, faults>>
    /\ RunOnly

\* The port can be taken by the listener of an earlier run: the handle is then None.
Listens(r) ==
    /\ Goes(r, "listen", "over")
    /\ IF bound = None THEN bound' = r /\ listener' = r ELSE listener' = None /\ UNCHANGED bound
    /\ UNCHANGED <<state, stopEvent, proc, monitor, sampler, alive, sampling, wgUp, watch, faults>>
    /\ RunOnly

DoStart(r) ==
    \/ InstallsWg(r) \/ Verifies(r) \/ FindsNoWg(r) \/ Spawns(r)
    \/ Announces(r) \/ Logs(r) \/ Clears(r) \/ Watches(r) \/ Samples(r) \/ Listens(r)

-----------------------------------------------------------------------------
(* _monitor_loop, in the thread of monitor r.  It looks at whatever process *)
(* the manager has a handle on.                                             *)

MonitorOnly == UNCHANGED <<stopEvent, proc, monitor, sampler, listener, machine, step, at, held,
                           again, started, history, bounds>>

MonitorEnds(r) ==
    /\ watch[r] = "loop"
    /\ stopEvent \/ state # "RUNNING"
    /\ watch' = [watch EXCEPT ![r] = "over"]
    /\ UNCHANGED state /\ MonitorOnly

MonitorSeesDeath(r) ==
    /\ watch[r] = "loop"
    /\ ~stopEvent /\ state = "RUNNING"
    /\ proc # None /\ proc \notin alive
    /\ watch' = [watch EXCEPT ![r] = "report"]
    /\ UNCHANGED state /\ MonitorOnly

MonitorReports(r) ==
    /\ watch[r] = "report"
    /\ watch' = [watch EXCEPT ![r] = "over"]
    /\ state' = "ERROR"
    /\ MonitorOnly

Monitor(r) == MonitorEnds(r) \/ MonitorSeesDeath(r) \/ MonitorReports(r)

-----------------------------------------------------------------------------
(* start(), stop(), restart(), in the thread of caller c.                  *)

Moves(c, from, to) == at[c] = from /\ at' = [at EXCEPT ![c] = to]

\* What every step of a call leaves alone.
CallOnly == UNCHANGED <<step, watch, started, overlapped, retried, bounds>>

Crosses(c) == (\E d \in Callers \ {c} : at[d] # "idle") \/ (\E r \in Runs : Starting(r))

\* start() under the lock; the thread is created right after it.
StartsRun(c) ==
    /\ at' = [at EXCEPT ![c] = "idle"]
    /\ IF state \in {"STARTING", "RUNNING"}
       THEN UNCHANGED <<state, started, step, retried>>
       ELSE /\ state' = "STARTING"
            /\ started' = started + 1
            /\ step' = [step EXCEPT ![started + 1] = "wg"]
            /\ retried' = (retried \/ state = "ERROR")
    /\ overlapped' = (overlapped \/ Crosses(c))
    /\ UNCHANGED <<stopEvent, proc, monitor, sampler, listener, machine, watch, held, again,
                   refused, faults>>

Start(c) ==
    /\ at[c] = "idle"
    /\ commands < MaxCommands /\ commands' = commands + 1
    /\ StartsRun(c)

\* stop() sets the event and looks whether there is a monitor to join.
Stop(c, restarts) ==
    /\ commands < MaxCommands /\ commands' = commands + 1
    /\ Moves(c, "idle", IF monitor = None THEN "sampler" ELSE "join")
    /\ stopEvent' = TRUE
    /\ again' = IF restarts THEN again \cup {c} ELSE again
    /\ overlapped' = (overlapped \/ Crosses(c))
    /\ UNCHANGED <<state, proc, monitor, sampler, listener, machine, step, watch, held,
                   started, retried, refused, faults>>

\* The handle is read a second time; None raises, and the call ends there.
Joins(c) ==
    /\ Moves(c, "join", IF monitor = None THEN "idle" ELSE "await")
    /\ held' = [held EXCEPT ![c] = monitor]
    /\ again' = IF monitor = None THEN again \ {c} ELSE again
    /\ UNCHANGED <<manager, machine, refused>> /\ CallOnly

\* The join ends with the monitor, or by its timeout when the event was cleared again.
Awaits(c) ==
    /\ Moves(c, "await", "sampler")
    /\ watch[held[c]] = "over" \/ ~stopEvent
    /\ monitor' = None
    /\ held' = [held EXCEPT ![c] = None]
    /\ UNCHANGED <<state, stopEvent, proc, sampler, listener, machine, again, refused>> /\ CallOnly

StopsSampler(c) ==
    /\ Moves(c, "sampler", "unsample")
    /\ sampling' = sampling \ {sampler}
    /\ UNCHANGED <<manager, alive, bound, wgUp, held, again, refused>> /\ CallOnly

ForgetsSampler(c) ==
    /\ Moves(c, "unsample", "listener")
    /\ sampler' = None
    /\ UNCHANGED <<state, stopEvent, proc, monitor, listener, machine, held, again, refused>>
    /\ CallOnly

StopsListener(c) ==
    /\ Moves(c, "listener", "unlisten")
    /\ bound' = IF bound = listener THEN None ELSE bound
    /\ UNCHANGED <<manager, alive, sampling, wgUp, held, again, refused>> /\ CallOnly

ForgetsListener(c) ==
    /\ Moves(c, "unlisten", "proc")
    /\ listener' = None
    /\ UNCHANGED <<state, stopEvent, proc, monitor, sampler, machine, held, again, refused>>
    /\ CallOnly

\* Variant: the handle is cleared before it is read.
ForgetsProc(c) ==
    /\ Moves(c, "proc", "term")
    /\ proc' = None
    /\ UNCHANGED <<state, stopEvent, monitor, sampler, listener, machine, held, again, refused>>
    /\ CallOnly

TakesProc(c) ==
    /\ Moves(c, "proc", "term")
    /\ held' = [held EXCEPT ![c] = proc]
    /\ proc' = None
    /\ UNCHANGED <<state, stopEvent, monitor, sampler, listener, machine, again, refused>>
    /\ CallOnly

\* Variant: the process is forgotten, not ended.
TerminatesNothing(c) ==
    /\ Moves(c, "term", "wg")
    /\ held' = [held EXCEPT ![c] = None]
    /\ UNCHANGED <<manager, machine, again, refused>> /\ CallOnly

Terminates(c) ==
    /\ Moves(c, "term", "wg")
    /\ alive' = alive \ {held[c]}
    /\ held' = [held EXCEPT ![c] = None]
    /\ UNCHANGED <<manager, sampling, bound, wgUp, again, refused>> /\ CallOnly

UninstallsWg(c) ==
    /\ Moves(c, "wg", "down")
    /\ wgUp' = FALSE
    /\ UNCHANGED <<manager, alive, sampling, bound, held, again, refused>> /\ CallOnly

UninstallFails(c) ==
    /\ faults < MaxFaults /\ faults' = faults + 1
    /\ Moves(c, "wg", "down")
    /\ refused' = TRUE
    /\ UNCHANGED <<manager, machine, held, again, step, watch, started, overlapped, retried, commands>>

GoesDown(c) ==
    /\ Moves(c, "down", IF c \in again THEN "clear" ELSE "idle")
    /\ state' = "STOPPED"
    /\ again' = again \ {c}
    /\ UNCHANGED <<stopEvent, proc, monitor, sampler, listener, machine, held, refused>> /\ CallOnly

RestartClears(c) ==
    /\ Moves(c, "clear", "start")
    /\ stopEvent' = FALSE
    /\ UNCHANGED <<state, proc, monitor, sampler, listener, machine, held, again, refused>>
    /\ CallOnly

Restarts(c) == at[c] = "start" /\ StartsRun(c) /\ UNCHANGED commands

CallerStep(c) ==
    \/ Joins(c) \/ Awaits(c) \/ StopsSampler(c) \/ ForgetsSampler(c)
    \/ StopsListener(c) \/ ForgetsListener(c) \/ TakesProc(c) \/ Terminates(c)
    \/ UninstallsWg(c) \/ UninstallFails(c) \/ GoesDown(c) \/ RestartClears(c) \/ Restarts(c)

-----------------------------------------------------------------------------
ProcDies ==
    /\ faults < MaxFaults /\ faults' = faults + 1
    /\ \E r \in alive : alive' = alive \ {r}
    /\ UNCHANGED <<manager, sampling, bound, wgUp, threads, history, commands>>

Command(c) == Start(c) \/ \E restarts \in BOOLEAN : Stop(c, restarts)

Next ==
    \/ \E r \in Runs : DoStart(r) \/ Fails(r) \/ Monitor(r)
    \/ \E c \in Callers : Command(c) \/ CallerStep(c)
    \/ ProcDies

Spec == Init /\ [][Next]_vars

-----------------------------------------------------------------------------
(* Properties.                                                             *)

AtRest == (\A c \in Callers : at[c] = "idle") /\ \A r \in Runs : ~Starting(r)

\* A server that was stopped has no process, no monitor and no interface, unless the
\* platform refused to take it down; and no sampler and no listener, unless a start from
\* ERROR has lost the handles on them.
StoppedIsDown ==
    AtRest /\ state = "STOPPED" /\ ~overlapped =>
        /\ alive = {}
        /\ \A r \in Runs : ~Watching(r)
        /\ wgUp => refused
        /\ ~retried => sampling = {} /\ bound = None

\* A server that runs has a process that the manager can end and a monitor that looks
\* at it.
RunningIsWatched ==
    AtRest /\ state = "RUNNING" /\ ~overlapped =>
        /\ proc # None /\ monitor = proc
        /\ Watching(monitor)
        /\ alive \subseteq {proc}
        /\ ~stopEvent

\* No wstunnel process is out of reach: the manager or the call that ends it knows it.
NoStrayProcess ==
    ~overlapped => \A r \in alive : r = proc \/ \E c \in Callers : at[c] = "term" /\ held[c] = r

-----------------------------------------------------------------------------
(* What the repository says and the code does not do (README, Deviations). *)

\* "Traffic-history scheduler lives for the duration of the run" (server_manager.py): no
\* sampler outlives the run it belongs to.
SamplerEndsWithRun ==
    AtRest /\ state = "STOPPED" /\ ~overlapped => sampling = {}
=============================================================================

---------------------------- MODULE TunnelManager ----------------------------
(***************************************************************************)
(* class TunnelManager of client/outwarp/tunnel.py, around the Tunnel it   *)
(* owns.  One thread (Run) executes _run(); any thread of the program may  *)
(* call start() and stop() (the GUI's API calls, the tray, the terminal    *)
(* interface, a profile swap): those are the Callers.                      *)
(*                                                                         *)
(* pc[t] is the next access thread t makes to shared state.  note[t] is    *)
(* the state _set_state() or _set_phase() read under the lock and has      *)
(* still to hand to the listeners: they are called after the lock is       *)
(* released, so another thread can run in between.                         *)
(*                                                                         *)
(* Rungs of the ladder are only counted: which rungs there are and their   *)
(* order is a pure function of the profile.  Times are not modelled: a     *)
(* wait ends at any moment, except that a join of 10 seconds only times    *)
(* out where the thread can be that slow (SlowSteps).                      *)
(***************************************************************************)
EXTENDS Tunnel, Naturals

CONSTANTS Run,          \* the thread "outwarp-tunnel"
          Callers,      \* threads that call start() and stop()
          MaxAttempts,  \* config.reconnect.max_attempts
          MaxRungs,     \* rungs of the longest ladder
          MaxCommands,  \* bound: calls of start, stop and reconnect
          MaxFaults     \* bound: deaths of wstunnel and of the interface, refused removals

ASSUME ManagerAssumption ==
    /\ Run \notin Callers
    /\ MaxAttempts \in Nat \ {0}   \* config.py refuses anything below 1
    /\ MaxRungs \in Nat \ {0}
    /\ MaxCommands \in Nat
    /\ MaxFaults \in Nat

Threads == Callers \cup {Run}

States == {"DISCONNECTED", "CONNECTING", "CONNECTED", "RECONNECTING", "FAILED"}
Phases == {"", "resolve", "wg", "ws", "done"}
NoNote == "none"

\* tunnel.connect(), from its first line to its return
ConnectSteps == {"connect", "probe", "install", "flag", "rung", "await", "ping",
                 "drop", "dropclear", "won"}
\* tunnel.disconnect(), called by both kinds of threads
DisconnectSteps == {"kill", "clear", "wg", "wgflag"}
RunSteps == {"dead", "begin", "loop", "announce", "failed", "backoff", "giveup",
             "exit", "report", "up", "monitor"} \cup ConnectSteps \cup DisconnectSteps
CallerSteps == {"idle", "capture", "join", "settle", "down", "start"} \cup DisconnectSteps

\* Where the thread can stay for 10 seconds with the stop event set: reachability
\* probes (4 s a rung), installing the interface (15 s on Windows), the handshake
\* (12 s), the ping (6 s), ending wstunnel (12 s), removing the interface (20 s).
SlowSteps == {"probe", "install", "rung", "await", "ping", "drop", "kill", "wg"}

VARIABLES
    state, phase, lastError, attempt,   \* what status calls read
    stopEvent,
    pc, note,
    failures,   \* the local variable "attempt" of _run
    todo,       \* rungs connect() has still to try
    died,       \* the thread is cleaning up after a drop, not after connect()
    waiting,    \* callers whose join() still waits for the thread they captured
    again,      \* callers whose stop() is the first half of a reconnect
    heard,      \* the last state the listeners were called with
    wanted,     \* history: what the last command asked for
    overlapped, \* history: a stop() went on beside a live thread
    commands, faults

managerVars == <<state, phase, lastError, attempt, stopEvent>>
threadVars  == <<pc, note, failures, todo, died, waiting, again>>
historyVars == <<heard, wanted, overlapped>>
boundVars   == <<commands, faults>>
vars == <<tunnelVars, managerVars, threadVars, historyVars, boundVars>>

TypeOK ==
    /\ TunnelTypeOK
    /\ state \in States
    /\ phase \in Phases
    /\ lastError \in BOOLEAN
    /\ attempt \in 0..MaxAttempts
    /\ stopEvent \in BOOLEAN
    /\ pc \in [Threads -> RunSteps \cup CallerSteps]
    /\ pc[Run] \in RunSteps
    /\ \A c \in Callers : pc[c] \in CallerSteps
    /\ note \in [Threads -> States \cup {NoNote}]
    /\ failures \in 0..MaxAttempts
    /\ todo \in 0..MaxRungs
    /\ died \in BOOLEAN
    /\ waiting \subseteq Callers
    /\ again \subseteq Callers
    /\ heard \in States
    /\ wanted \in {"nothing", "up", "again", "down"}
    /\ overlapped \in BOOLEAN
    /\ commands \in 0..MaxCommands
    /\ faults \in 0..MaxFaults

Init ==
    /\ TunnelInit
    /\ state = "DISCONNECTED"
    /\ phase = ""
    /\ lastError = FALSE
    /\ attempt = 0
    /\ stopEvent = FALSE
    /\ pc = [t \in Threads |-> IF t = Run THEN "dead" ELSE "idle"]
    /\ note = [t \in Threads |-> NoNote]
    /\ failures = 0
    /\ todo = 0
    /\ died = FALSE
    /\ waiting = {}
    /\ again = {}
    /\ heard = "DISCONNECTED"
    /\ wanted = "nothing"
    /\ overlapped = FALSE
    /\ commands = 0
    /\ faults = 0

-----------------------------------------------------------------------------
(* Building blocks.                                                        *)

\* Thread t, with no listener to call, moves from one label to another.
Step(t, from, to) ==
    /\ pc[t] = from
    /\ note[t] = NoNote
    /\ pc' = [pc EXCEPT ![t] = to]

SetState(t, s) ==
    /\ state' = s
    /\ note' = [note EXCEPT ![t] = IF s = state THEN NoNote ELSE s]

SetPhase(t, p) ==
    /\ phase' = p
    /\ note' = [note EXCEPT ![t] = IF p = phase THEN NoNote ELSE state]

\* The listeners are called outside the lock with the state read under it.
Notify(t) ==
    /\ note[t] # NoNote
    /\ heard' = note[t]
    /\ note' = [note EXCEPT ![t] = NoNote]
    /\ UNCHANGED <<tunnelVars, managerVars, pc, failures, todo, died, waiting, again,
                   wanted, overlapped, boundVars>>

Alive == pc[Run] # "dead"

\* _run returns: every join() on the thread ends, its locals are gone.
ThreadEnds(from) ==
    /\ Step(Run, from, "dead")
    /\ waiting' = {}
    /\ failures' = 0
    /\ todo' = 0
    /\ UNCHANGED <<tunnelVars, managerVars, note, died, again, historyVars, boundVars>>

\* A stop() between its first line and its last listener.
Stopping(c) == pc[c] \notin {"idle", "start"} \/ note[c] # NoNote

-----------------------------------------------------------------------------
(* _run, outside tunnel.connect() and tunnel.disconnect().                 *)

\* Variant: the count of the last streak is kept.
RunBeginsWithOldCount ==
    /\ Step(Run, "begin", "loop")
    /\ UNCHANGED <<tunnelVars, managerVars, note, failures, todo, died, waiting, again,
                   historyVars, boundVars>>

RunBegins ==
    /\ Step(Run, "begin", "loop")
    /\ attempt' = 0
    /\ UNCHANGED <<tunnelVars, state, phase, lastError, stopEvent, note,
                   failures, todo, died, waiting, again, historyVars, boundVars>>

LoopStops == stopEvent /\ ThreadEnds("loop")

LoopGoesOn ==
    /\ ~stopEvent
    /\ Step(Run, "loop", "announce")
    /\ SetPhase(Run, "")
    /\ UNCHANGED <<tunnelVars, state, lastError, attempt, stopEvent,
                   failures, todo, died, waiting, again, historyVars, boundVars>>

Announce ==
    /\ Step(Run, "announce", "connect")
    /\ SetState(Run, IF failures = 0 THEN "CONNECTING" ELSE "RECONNECTING")
    /\ UNCHANGED <<tunnelVars, phase, lastError, attempt, stopEvent,
                   failures, todo, died, waiting, again, historyVars, boundVars>>

\* connect() returned: the error is cleared and the stepper completed.
Report ==
    /\ Step(Run, "report", "up")
    /\ lastError' = FALSE
    /\ SetPhase(Run, "done")
    /\ UNCHANGED <<tunnelVars, state, attempt, stopEvent,
                   failures, todo, died, waiting, again, historyVars, boundVars>>

ComesUp ==
    /\ Step(Run, "up", "monitor")
    /\ SetState(Run, "CONNECTED")
    /\ UNCHANGED <<tunnelVars, phase, lastError, attempt, stopEvent,
                   failures, todo, died, waiting, again, historyVars, boundVars>>

\* Variant: the test is inverted.
MonitorStopsInverted == ~stopEvent /\ ThreadEnds("monitor")

MonitorStops == stopEvent /\ ThreadEnds("monitor")

\* The connection has held for the stability window: the streak is over.
Stabilises ==
    /\ failures > 0
    /\ ~stopEvent /\ IsActive
    /\ Step(Run, "monitor", "monitor")
    /\ failures' = 0
    /\ attempt' = 0
    /\ UNCHANGED <<tunnelVars, state, phase, lastError, stopEvent, note,
                   todo, died, waiting, again, historyVars, boundVars>>

MonitorSeesDrop ==
    /\ ~stopEvent /\ ~IsActive
    /\ Step(Run, "monitor", "kill")
    /\ lastError' = TRUE
    /\ died' = TRUE
    /\ UNCHANGED <<tunnelVars, state, phase, attempt, stopEvent, note,
                   failures, todo, waiting, again, historyVars, boundVars>>

\* Variant: the thread leaves without reporting FAILED.
NoRetryUnreported ==
    /\ died
    /\ Step(Run, "failed", "exit")
    /\ died' = FALSE
    /\ UNCHANGED <<tunnelVars, managerVars, note, failures, todo, waiting, again,
                   historyVars, boundVars>>

\* After a drop with automatic reconnection off.  The setting can be changed while
\* the thread runs and is read here only, so each drop may find it on or off.
NoRetryWanted ==
    /\ died
    /\ Step(Run, "failed", "giveup")
    /\ died' = FALSE
    /\ UNCHANGED <<tunnelVars, managerVars, note, failures, todo, waiting, again,
                   historyVars, boundVars>>

\* Variant: one attempt too many.
OutOfAttemptsLate(k) == k > MaxAttempts

OutOfAttempts(k) == k >= MaxAttempts

\* A failed connect(), or a drop that is to be retried, counts one attempt.
CountFailure ==
    /\ Step(Run, "failed", IF OutOfAttempts(failures + 1) THEN "giveup" ELSE "backoff")
    /\ lastError' = IF died THEN lastError ELSE TRUE
    /\ failures' = failures + 1
    /\ attempt' = failures + 1
    /\ died' = FALSE
    /\ UNCHANGED <<tunnelVars, state, phase, stopEvent, note,
                   todo, waiting, again, historyVars, boundVars>>

\* Variant: the thread gives up and says nothing.
GiveUpSilently ==
    /\ Step(Run, "giveup", "exit")
    /\ UNCHANGED <<tunnelVars, managerVars, note, failures, todo, died, waiting, again,
                   historyVars, boundVars>>

GiveUp ==
    /\ Step(Run, "giveup", "exit")
    /\ SetState(Run, "FAILED")
    /\ UNCHANGED <<tunnelVars, phase, lastError, attempt, stopEvent,
                   failures, todo, died, waiting, again, historyVars, boundVars>>

GaveUp == ThreadEnds("exit")

\* Variant: the test is inverted.
BackoffStopsInverted == ~stopEvent /\ ThreadEnds("backoff")

BackoffStops == stopEvent /\ ThreadEnds("backoff")

BackoffElapses ==
    /\ ~stopEvent
    /\ Step(Run, "backoff", "loop")
    /\ UNCHANGED <<tunnelVars, managerVars, note, failures, todo, died, waiting, again,
                   historyVars, boundVars>>

-----------------------------------------------------------------------------
(* tunnel.connect(), executed by Run.                                      *)

\* What the steps of connect() that only touch the Tunnel leave alone.
OnlyTunnel ==
    UNCHANGED <<managerVars, note, failures, died, waiting, again, historyVars, boundVars>>

ConnectBegins ==
    /\ Step(Run, "connect", "probe")
    /\ ForgetStrategy
    /\ SetPhase(Run, "resolve")
    /\ UNCHANGED <<state, lastError, attempt, stopEvent,
                   failures, todo, died, waiting, again, historyVars, boundVars>>

\* The ladder is built and each direct rung probed.  The phases "tls" and "wg"
\* follow one another with nothing in between and are one phase here.
LadderFound ==
    /\ Step(Run, "probe", "install")
    /\ todo' \in 1..MaxRungs
    /\ SetPhase(Run, "wg")
    /\ UNCHANGED <<tunnelVars, state, lastError, attempt, stopEvent,
                   failures, died, waiting, again, historyVars, boundVars>>

\* No rung can be dialled: connect() raises before it touches WireGuard.
NothingDialable ==
    /\ Step(Run, "probe", "failed")
    /\ UNCHANGED <<tunnelVars, todo>> /\ OnlyTunnel

WgInstalls == Step(Run, "install", "flag") /\ InstallWg /\ UNCHANGED todo /\ OnlyTunnel

\* A stale interface may or may not have been removed before the failure.
WgInstallFails ==
    /\ Step(Run, "install", "kill")
    /\ todo' = 0
    /\ WgVanishes \/ UNCHANGED tunnelVars
    /\ OnlyTunnel

WgRecorded == Step(Run, "flag", "rung") /\ RecordInstalled /\ UNCHANGED todo /\ OnlyTunnel

\* The certificate pin does not match, or wstunnel cannot be started.
RungRefused ==
    /\ todo > 0
    /\ Step(Run, "rung", "drop")
    /\ todo' = todo - 1
    /\ UNCHANGED tunnelVars /\ OnlyTunnel

RungStarts ==
    /\ todo > 0
    /\ Step(Run, "rung", "await")
    /\ todo' = todo - 1
    /\ \E p \in Procs : StartWstunnel(p)
    /\ OnlyTunnel

\* Variant: connect() raises without disconnecting.
LadderExhaustedUncleaned ==
    /\ todo = 0
    /\ Step(Run, "rung", "failed")
    /\ UNCHANGED <<tunnelVars, todo>> /\ OnlyTunnel

LadderExhausted ==
    /\ todo = 0
    /\ Step(Run, "rung", "kill")
    /\ UNCHANGED <<tunnelVars, todo>> /\ OnlyTunnel

HandshakeArrives ==
    /\ HandshakeSeen
    /\ Step(Run, "await", "ping")
    /\ UNCHANGED <<tunnelVars, todo>> /\ OnlyTunnel

\* The deadline passes, or the process is found dead.
HandshakeMissing ==
    Step(Run, "await", "drop") /\ UNCHANGED <<tunnelVars, todo>> /\ OnlyTunnel

PingArrives ==
    /\ PingAnswers
    /\ Step(Run, "ping", "won")
    /\ UNCHANGED <<tunnelVars, todo>> /\ OnlyTunnel

PingMissing ==
    Step(Run, "ping", "drop") /\ UNCHANGED <<tunnelVars, todo>> /\ OnlyTunnel

\* Variant: the process of the last rung is forgotten, not ended.
RungDroppedAlive ==
    /\ Step(Run, "drop", "dropclear")
    /\ UNCHANGED <<tunnelVars, todo>> /\ OnlyTunnel

\* _stop_wstunnel between two rungs.
RungDropped ==
    /\ Step(Run, "drop", IF proc = NoProc THEN "rung" ELSE "dropclear")
    /\ TerminateProc
    /\ UNCHANGED todo /\ OnlyTunnel

RungForgotten == Step(Run, "dropclear", "rung") /\ ClearProc /\ UNCHANGED todo /\ OnlyTunnel

RungWins ==
    /\ Step(Run, "won", "report")
    /\ KeepStrategy
    /\ todo' = 0
    /\ SetPhase(Run, "ws")
    /\ UNCHANGED <<state, lastError, attempt, stopEvent,
                   failures, died, waiting, again, historyVars, boundVars>>

-----------------------------------------------------------------------------
(* tunnel.disconnect(), executed by Run after a failure and by a caller in *)
(* stop().                                                                 *)

AfterDisconnect(t) == IF t = Run THEN "failed" ELSE "settle"

DisconnectKills(t) ==
    /\ Step(t, "kill", IF proc = NoProc THEN "wg" ELSE "clear")
    /\ ForgetAndTerminate
    /\ UNCHANGED todo /\ OnlyTunnel

DisconnectClears(t) == Step(t, "clear", "wg") /\ ClearProc /\ UNCHANGED todo /\ OnlyTunnel

DisconnectUninstalls(t) ==
    /\ wgInstalled
    /\ Step(t, "wg", "wgflag")
    /\ UninstallWg
    /\ UNCHANGED todo /\ OnlyTunnel

\* The failure is logged, if it is seen at all, and the interface forgotten.
DisconnectLeavesWg(t) ==
    /\ wgInstalled
    /\ faults < MaxFaults
    /\ faults' = faults + 1
    /\ Step(t, "wg", "wgflag")
    /\ UninstallFails
    /\ UNCHANGED <<managerVars, note, failures, todo, died, waiting, again,
                   historyVars, commands>>

DisconnectSkipsWg(t) ==
    /\ ~wgInstalled
    /\ Step(t, "wg", AfterDisconnect(t))
    /\ UNCHANGED <<tunnelVars, todo>> /\ OnlyTunnel

DisconnectEnds(t) ==
    Step(t, "wgflag", AfterDisconnect(t)) /\ ClearInstalled /\ UNCHANGED todo /\ OnlyTunnel

Disconnect(t) ==
    \/ DisconnectKills(t)
    \/ DisconnectClears(t)
    \/ DisconnectUninstalls(t)
    \/ DisconnectLeavesWg(t)
    \/ DisconnectSkipsWg(t)
    \/ DisconnectEnds(t)

-----------------------------------------------------------------------------
(* start(), stop() and reconnect, executed by a caller.                    *)

\* start() under the lock.  It does nothing while the old thread is alive; a new
\* thread overlaps every stop() that some other caller has not finished.
StartThread(c) ==
    /\ IF Alive
       THEN /\ pc' = [pc EXCEPT ![c] = "idle"]
            /\ UNCHANGED <<stopEvent, overlapped>>
       ELSE /\ pc' = [pc EXCEPT ![c] = "idle", ![Run] = "begin"]
            /\ stopEvent' = FALSE
            /\ overlapped' = (overlapped \/ \E d \in Callers \ {c} : Stopping(d))
    /\ UNCHANGED <<tunnelVars, state, phase, lastError, attempt, note,
                   failures, todo, died, waiting, again, heard, faults>>

Start(c) ==
    /\ pc[c] = "idle" /\ note[c] = NoNote
    /\ commands < MaxCommands
    /\ commands' = commands + 1
    /\ wanted' = "up"
    /\ StartThread(c)

\* The stop event is set; the thread to join is read in the next access.
StopSignals(c, goal) ==
    /\ commands < MaxCommands
    /\ commands' = commands + 1
    /\ Step(c, "idle", "capture")
    /\ stopEvent' = TRUE
    /\ wanted' = goal
    /\ again' = IF goal = "again" THEN again \cup {c} ELSE again \ {c}
    /\ UNCHANGED <<tunnelVars, state, phase, lastError, attempt, note,
                   failures, todo, died, waiting, heard, overlapped, faults>>

Stop(c) == StopSignals(c, "down")
Reconnect(c) == StopSignals(c, "again")

StopCaptures(c) ==
    /\ Step(c, "capture", "join")
    /\ waiting' = IF Alive THEN waiting \cup {c} ELSE waiting
    /\ UNCHANGED <<tunnelVars, managerVars, note, failures, todo, died, again,
                   historyVars, boundVars>>

\* Variant: the thread is not waited for.
JoinedAtOnce(c) ==
    /\ Step(c, "join", "kill")
    /\ waiting' = waiting \ {c}
    /\ UNCHANGED <<tunnelVars, managerVars, note, failures, todo, died, again,
                   historyVars, boundVars>>

Joined(c) ==
    /\ c \notin waiting
    /\ Step(c, "join", "kill")
    /\ UNCHANGED <<tunnelVars, managerVars, note, failures, todo, died, waiting, again,
                   historyVars, boundVars>>

JoinTimesOut(c) ==
    /\ c \in waiting
    /\ pc[Run] \in SlowSteps \/ ~stopEvent
    /\ Step(c, "join", "kill")
    /\ waiting' = waiting \ {c}
    /\ overlapped' = TRUE
    /\ UNCHANGED <<tunnelVars, managerVars, note, failures, todo, died, again,
                   heard, wanted, boundVars>>

Settles(c) ==
    /\ Step(c, "settle", "down")
    /\ lastError' = FALSE
    /\ attempt' = 0
    /\ SetPhase(c, "")
    /\ UNCHANGED <<tunnelVars, state, stopEvent,
                   failures, todo, died, waiting, again, historyVars, boundVars>>

GoesDown(c) ==
    /\ Step(c, "down", IF c \in again THEN "start" ELSE "idle")
    /\ SetState(c, "DISCONNECTED")
    /\ again' = again \ {c}
    /\ UNCHANGED <<tunnelVars, phase, lastError, attempt, stopEvent,
                   failures, todo, died, waiting, historyVars, boundVars>>

Restart(c) ==
    /\ pc[c] = "start" /\ note[c] = NoNote
    /\ StartThread(c)
    /\ UNCHANGED <<wanted, commands>>

-----------------------------------------------------------------------------
(* The machine and the network.  A handshake matters only to a thread that *)
(* awaits one.                                                             *)

PeersShakeHands ==
    /\ pc[Run] = "await"
    /\ Handshake
    /\ UNCHANGED <<managerVars, threadVars, historyVars, boundVars>>

Fault ==
    /\ faults < MaxFaults
    /\ faults' = faults + 1
    /\ WgVanishes \/ \E p \in Procs : ProcDies(p)
    /\ UNCHANGED <<managerVars, threadVars, historyVars, commands>>

-----------------------------------------------------------------------------
ConnectStep ==
    \/ ConnectBegins \/ LadderFound \/ NothingDialable
    \/ WgInstalls \/ WgInstallFails \/ WgRecorded
    \/ RungRefused \/ RungStarts \/ LadderExhausted
    \/ HandshakeArrives \/ HandshakeMissing \/ PingArrives \/ PingMissing
    \/ RungDropped \/ RungForgotten \/ RungWins

LoopStep ==
    \/ RunBegins \/ LoopStops \/ LoopGoesOn \/ Announce
    \/ Report \/ ComesUp \/ MonitorStops \/ Stabilises \/ MonitorSeesDrop
    \/ NoRetryWanted \/ CountFailure \/ GiveUp \/ GaveUp
    \/ BackoffStops \/ BackoffElapses

RunStep == ConnectStep \/ LoopStep \/ Disconnect(Run)

\* What a caller does to finish the call it is in.
CallerStep(c) ==
    \/ StopCaptures(c) \/ Joined(c) \/ JoinTimesOut(c)
    \/ Disconnect(c) \/ Settles(c) \/ GoesDown(c) \/ Restart(c)

Command == \E c \in Callers : Start(c) \/ Stop(c) \/ Reconnect(c)

\* Every step but the calls of the listeners, which other components extend.
QuietNext ==
    \/ RunStep
    \/ \E c \in Callers : CallerStep(c)
    \/ Command
    \/ PeersShakeHands
    \/ Fault

Next == QuietNext \/ \E t \in Threads : Notify(t)

Spec == Init /\ [][Next]_vars

\* The operating system runs every thread that can run; no call, fault or
\* handshake ever has to happen.
Fairness ==
    /\ WF_vars(RunStep \/ Notify(Run))
    /\ \A c \in Callers : WF_vars(CallerStep(c) \/ Notify(c))

FairSpec == Spec /\ Fairness

-----------------------------------------------------------------------------
(* Properties.  Most hold as long as no stop() ran on beside a live thread *)
(* (overlapped = FALSE); those without that premise hold whatever happens. *)

AtRest ==
    /\ ~Alive
    /\ \A c \in Callers : pc[c] = "idle"
    /\ \A t \in Threads : note[t] = NoNote

\* When every call and the thread have ended, the manager reports an end state and
\* has left no wstunnel process behind, and the interface only where the platform did
\* not remove it when asked; FAILED comes with an error to show, DISCONNECTED without
\* one and with the stepper reset.
CleanAtRest ==
    AtRest /\ ~overlapped =>
        /\ state \in {"DISCONNECTED", "FAILED"}
        /\ lastError = (state = "FAILED")
        /\ state = "DISCONNECTED" => phase = ""
        /\ proc = NoProc /\ alive = {}
        /\ ~wgInstalled /\ (wgUp => leftUp) /\ ~active

\* Whatever raced with whatever, a manager at rest never claims to be trying: the
\* user is not left with a stepper that no thread advances.
NoSpinnerAtRest == AtRest => state \notin {"CONNECTING", "RECONNECTING"}

\* connect() is called only while attempts are left, and the count that the status
\* shows is the count the thread decides by.
AttemptsCounted ==
    /\ pc[Run] \in ConnectSteps \cup {"loop", "announce", "backoff", "report", "up"}
           => failures < MaxAttempts
    /\ ~overlapped /\ pc[Run] \notin {"dead", "begin"} => attempt = failures

\* Every wstunnel process on the machine is one the Tunnel can still stop.
NoOrphan == ~overlapped => alive \subseteq {proc}

\* "Connected" on the screen means that a thread watches the connection, or that a
\* stop() is about to report the end of it.
ConnectedIsWatched ==
    state = "CONNECTED" /\ ~overlapped => Alive \/ \E c \in Callers : Stopping(c)

\* A reconnect that was the last command comes back: the manager does not stay down
\* because start() met the old thread and did nothing.
ReconnectComesBack ==
    AtRest /\ wanted = "again" /\ ~overlapped => state # "DISCONNECTED"

\* Every call of stop() or reconnect returns, whatever the thread is doing.
CallsReturn == \A c \in Callers : pc[c] # "idle" ~> pc[c] = "idle"

\* A thread that has been told to stop ends.
ThreadObeysStop == stopEvent /\ Alive ~> ~Alive

\* An attempt to connect or reconnect comes to an end.
AttemptsEnd ==
    state \in {"CONNECTING", "RECONNECTING"} ~> state \notin {"CONNECTING", "RECONNECTING"}

-----------------------------------------------------------------------------
(* What the code does not do (README, Deviations).                         *)

\* Reported down is down: a manager at rest has no interface that still holds the
\* routes (disconnect() forgets the interface also where its removal failed).
DownIsDown == AtRest /\ ~overlapped => ~wgUp

\* After a stop() that is not overtaken by a later start(), the state is DISCONNECTED
\* (tests/test_tunnel_manager.py, test_stop_disconnects_tunnel).
StopIsFinal == AtRest /\ wanted = "down" => state = "DISCONNECTED"

\* The last state the listeners hear after a stop() is DISCONNECTED
\* (tests/test_tunnel_manager.py, test_start_transitions_through_connecting_to_connected).
ListenersHearStopLast == AtRest /\ wanted = "down" /\ ~overlapped => heard = "DISCONNECTED"
=============================================================================

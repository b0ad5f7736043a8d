------------------------ MODULE TunnelManagerProofs ------------------------
(* Theorems about TunnelManager, for every set of callers and of processes, *)
(* every number of attempts, rungs, commands and faults.                    *)
EXTENDS TunnelManager, TLAPS

-----------------------------------------------------------------------------
(* The inductive invariant.  Each conjunct is the reason why one of the     *)
(* properties of TunnelManager is kept by the next step.                    *)

\* A failed attempt is counted only while the count is below the limit.
AttemptsLeft == pc[Run] \notin {"giveup", "exit"} => failures < MaxAttempts

\* A thread starts to count at 0.
FreshCount == pc[Run] \in {"dead", "begin"} => failures = 0

\* Unless stops and threads overlapped, a stop() that got past its join finds no
\* thread, and neither does one whose join is about to return.
PastJoin == {"kill", "clear", "wg", "wgflag", "settle", "down"}
JoinsAreReal ==
    ~overlapped => \A c \in Callers :
        pc[c] \in PastJoin \/ (pc[c] = "join" /\ c \notin waiting) => ~Alive

\* The count the status shows is the thread's own.
CountShown == ~overlapped /\ pc[Run] \notin {"dead", "begin"} => attempt = failures

\* A caller that has still to report DISCONNECTED.
StopPending == \E c \in Callers : pc[c] \in PastJoin \cup {"capture", "join"}

\* A caller whose stop() holds the thread in its join.
StopWaits == \E c \in Callers : pc[c] = "capture" \/ (pc[c] = "join" /\ c \in waiting)

Spinning == state \in {"CONNECTING", "RECONNECTING"}

\* Somebody will end a stepper that turns: the thread, or a pending stop().
SpinnerOwned ==
    /\ Spinning /\ ~stopEvent => Alive
    /\ Spinning /\ stopEvent => StopPending
    /\ pc[Run] = "announce" /\ stopEvent => StopWaits
    /\ pc[Run] = "exit" => ~Spinning

IInv == TypeOK /\ AttemptsLeft /\ FreshCount /\ JoinsAreReal /\ CountShown /\ SpinnerOwned

-----------------------------------------------------------------------------
(* Type correctness.                                                       *)

LEMMA RunIsThread == /\ Run \in Threads
                     /\ \A c \in Callers : c \in Threads /\ c # Run
                     /\ \A t \in Threads : t = Run \/ t \in Callers
  BY ManagerAssumption DEF Threads

LEMMA ConstantsNat == /\ MaxAttempts \in Nat /\ MaxAttempts >= 1
                      /\ MaxRungs \in Nat /\ MaxCommands \in Nat /\ MaxFaults \in Nat
  BY ManagerAssumption

LEMMA InitTyped == Init => TypeOK
<1> SUFFICES ASSUME Init PROVE TypeOK
  OBVIOUS
<1>1. TunnelTypeOK
  BY DEF Init, TunnelInit, TunnelTypeOK
<1>2. /\ pc \in [Threads -> RunSteps \cup CallerSteps]
      /\ pc[Run] \in RunSteps
      /\ \A c \in Callers : pc[c] \in CallerSteps
  BY RunIsThread DEF Init, RunSteps, CallerSteps
<1>3. note \in [Threads -> States \cup {NoNote}]
  BY DEF Init
<1>4. state \in States /\ heard \in States /\ phase \in Phases
  BY DEF Init, States, Phases
<1>5. /\ attempt \in 0..MaxAttempts /\ failures \in 0..MaxAttempts
      /\ todo \in 0..MaxRungs /\ commands \in 0..MaxCommands /\ faults \in 0..MaxFaults
  <2>1. attempt = 0 /\ failures = 0 /\ todo = 0 /\ commands = 0 /\ faults = 0
    BY DEF Init
  <2> QED BY <2>1, ConstantsNat
<1>6. /\ lastError \in BOOLEAN /\ stopEvent \in BOOLEAN /\ died \in BOOLEAN
      /\ overlapped \in BOOLEAN
  BY DEF Init
<1>7. waiting \subseteq Callers /\ again \subseteq Callers
      /\ wanted \in {"nothing", "up", "again", "down"}
  BY DEF Init
<1> QED
  BY <1>1, <1>2, <1>3, <1>4, <1>5, <1>6, <1>7 DEF TypeOK

\* A step from label to label keeps pc well typed.
LEMMA StepTyped ==
  ASSUME NEW t \in Threads, NEW from, NEW to, TypeOK, Step(t, from, to),
         t = Run => to \in RunSteps, t # Run => to \in CallerSteps
  PROVE  /\ pc' \in [Threads -> RunSteps \cup CallerSteps]
         /\ pc'[Run] \in RunSteps
         /\ \A c \in Callers : pc'[c] \in CallerSteps
  BY RunIsThread DEF Step, TypeOK

LEMMA SetStateTyped ==
  ASSUME NEW t \in Threads, NEW s \in States, TypeOK, SetState(t, s)
  PROVE  state' \in States /\ note' \in [Threads -> States \cup {NoNote}]
  BY DEF SetState, TypeOK

LEMMA SetPhaseTyped ==
  ASSUME NEW t \in Threads, NEW p \in Phases, TypeOK, SetPhase(t, p)
  PROVE  phase' \in Phases /\ note' \in [Threads -> States \cup {NoNote}]
  BY DEF SetPhase, TypeOK

\* Each operation of the Tunnel keeps its own variables well typed.
TunnelStep ==
    \/ ForgetStrategy \/ InstallWg \/ RecordInstalled \/ KeepStrategy
    \/ (\E p \in Procs : StartWstunnel(p)) \/ TerminateProc \/ ForgetAndTerminate
    \/ ClearProc \/ UninstallWg \/ UninstallFails \/ ClearInstalled
    \/ Handshake \/ (\E p \in Procs : ProcDies(p)) \/ WgVanishes
    \/ UNCHANGED tunnelVars

LEMMA TunnelTyped == TunnelTypeOK /\ TunnelStep => TunnelTypeOK'
  BY DEF TunnelTypeOK, TunnelStep, ForgetStrategy, InstallWg, RecordInstalled,
     KeepStrategy, StartWstunnel, TerminateProc, ForgetAndTerminate, ClearProc,
     UninstallWg, UninstallFails, ClearInstalled, Handshake, ProcDies, WgVanishes,
     tunnelVars

LEMMA LabelsOfRun ==
    /\ RunSteps = {"dead", "begin", "loop", "announce", "failed", "backoff", "giveup",
                   "exit", "report", "up", "monitor", "connect", "probe", "install",
                   "flag", "rung", "await", "ping", "drop", "dropclear", "won",
                   "kill", "clear", "wg", "wgflag"}
    /\ CallerSteps = {"idle", "capture", "join", "settle", "down", "start",
                      "kill", "clear", "wg", "wgflag"}
  BY DEF RunSteps, CallerSteps, ConnectSteps, DisconnectSteps

LEMMA ThreadEndsTyped ==
  ASSUME TypeOK, NEW from, ThreadEnds(from)
  PROVE  TypeOK'
<1> USE DEF tunnelVars, managerVars, threadVars, historyVars, boundVars
<1>1. "dead" \in RunSteps
  BY LabelsOfRun
<1>2. TunnelTypeOK'
  BY TunnelTyped DEF ThreadEnds, TypeOK, TunnelStep
<1>3. failures' \in 0..MaxAttempts /\ todo' \in 0..MaxRungs
  BY ConstantsNat DEF ThreadEnds
<1> QED
  BY <1>1, <1>2, <1>3, StepTyped, RunIsThread DEF ThreadEnds, TypeOK

LEMMA LoopTyped == TypeOK /\ AttemptsLeft /\ LoopStep => TypeOK'
<1> SUFFICES ASSUME TypeOK, AttemptsLeft, LoopStep PROVE TypeOK'
  OBVIOUS
<1> USE RunIsThread DEF tunnelVars, managerVars, threadVars, historyVars, boundVars
<1>t. UNCHANGED tunnelVars => TunnelTypeOK'
  BY TunnelTyped DEF TypeOK, TunnelStep
<1>s. "CONNECTING" \in States /\ "RECONNECTING" \in States /\ "CONNECTED" \in States
      /\ "FAILED" \in States /\ "" \in Phases /\ "done" \in Phases
  BY DEF States, Phases
<1>1. CASE RunBegins
  <2>1. "loop" \in RunSteps
    BY LabelsOfRun
  <2>2. attempt' \in 0..MaxAttempts
    BY <1>1, ConstantsNat DEF RunBegins
  <2> QED BY <1>1, <1>t, <2>1, <2>2, StepTyped DEF RunBegins, TypeOK
<1>2. CASE LoopGoesOn
  <2>1. "announce" \in RunSteps
    BY LabelsOfRun
  <2> QED BY <1>2, <1>t, <1>s, <2>1, StepTyped, SetPhaseTyped DEF LoopGoesOn, TypeOK
<1>3. CASE Announce
  <2>1. "connect" \in RunSteps
    BY LabelsOfRun
  <2> QED BY <1>3, <1>t, <1>s, <2>1, StepTyped, SetStateTyped DEF Announce, TypeOK
<1>4. CASE Report
  <2>1. "up" \in RunSteps
    BY LabelsOfRun
  <2>2. lastError' \in BOOLEAN
    BY <1>4 DEF Report
  <2> QED BY <1>4, <1>t, <1>s, <2>1, <2>2, StepTyped, SetPhaseTyped DEF Report, TypeOK
<1>5. CASE ComesUp
  <2>1. "monitor" \in RunSteps
    BY LabelsOfRun
  <2> QED BY <1>5, <1>t, <1>s, <2>1, StepTyped, SetStateTyped DEF ComesUp, TypeOK
<1>6. CASE Stabilises
  <2>1. "monitor" \in RunSteps
    BY LabelsOfRun
  <2>2. failures' \in 0..MaxAttempts /\ attempt' \in 0..MaxAttempts
    BY <1>6, ConstantsNat DEF Stabilises
  <2> QED BY <1>6, <1>t, <2>1, <2>2, StepTyped DEF Stabilises, TypeOK
<1>7. CASE MonitorSeesDrop
  <2>1. "kill" \in RunSteps
    BY LabelsOfRun
  <2>2. lastError' \in BOOLEAN /\ died' \in BOOLEAN
    BY <1>7 DEF MonitorSeesDrop
  <2> QED BY <1>7, <1>t, <2>1, <2>2, StepTyped DEF MonitorSeesDrop, TypeOK
<1>8. CASE NoRetryWanted
  <2>1. "giveup" \in RunSteps
    BY LabelsOfRun
  <2>2. died' \in BOOLEAN
    BY <1>8 DEF NoRetryWanted
  <2> QED BY <1>8, <1>t, <2>1, <2>2, StepTyped DEF NoRetryWanted, TypeOK
<1>9. CASE CountFailure
  <2>1. "giveup" \in RunSteps /\ "backoff" \in RunSteps
    BY LabelsOfRun
  <2>2. died' \in BOOLEAN /\ lastError' \in BOOLEAN
    BY <1>9 DEF CountFailure, TypeOK
  <2>3. failures < MaxAttempts
    BY <1>9 DEF CountFailure, AttemptsLeft, Step
  <2>4. failures' \in 0..MaxAttempts /\ attempt' \in 0..MaxAttempts
    BY <1>9, <2>3, ConstantsNat DEF CountFailure, TypeOK
  <2> QED BY <1>9, <1>t, <2>1, <2>2, <2>4, StepTyped DEF CountFailure, TypeOK
<1>10. CASE GiveUp
  <2>1. "exit" \in RunSteps
    BY LabelsOfRun
  <2> QED BY <1>10, <1>t, <1>s, <2>1, StepTyped, SetStateTyped DEF GiveUp, TypeOK
<1>11. CASE BackoffElapses
  <2>1. "loop" \in RunSteps
    BY LabelsOfRun
  <2> QED BY <1>11, <1>t, <2>1, StepTyped DEF BackoffElapses, TypeOK
<1>12. CASE LoopStops \/ MonitorStops \/ GaveUp \/ BackoffStops
  BY <1>12, ThreadEndsTyped DEF LoopStops, MonitorStops, GaveUp, BackoffStops
<1> QED
  BY <1>1, <1>2, <1>3, <1>4, <1>5, <1>6, <1>7, <1>8, <1>9, <1>10, <1>11, <1>12
     DEF LoopStep

LEMMA ConnectTyped == TypeOK /\ ConnectStep => TypeOK'
<1> SUFFICES ASSUME TypeOK, ConnectStep PROVE TypeOK'
  OBVIOUS
<1> USE RunIsThread, LabelsOfRun
    DEF tunnelVars, managerVars, threadVars, historyVars, boundVars, OnlyTunnel
<1>t. TunnelStep => TunnelTypeOK'
  BY TunnelTyped DEF TypeOK
<1>n. /\ 0 \in 0..MaxRungs
      /\ \A n \in 1..MaxRungs : n \in 0..MaxRungs
      /\ todo > 0 => todo - 1 \in 0..MaxRungs
  BY ConstantsNat DEF TypeOK
<1>s. "resolve" \in Phases /\ "wg" \in Phases /\ "ws" \in Phases
  BY DEF Phases
<1>1. CASE ConnectBegins
  BY <1>1, <1>t, <1>s, StepTyped, SetPhaseTyped DEF ConnectBegins, TunnelStep, TypeOK
<1>2. CASE LadderFound
  BY <1>2, <1>t, <1>s, <1>n, StepTyped, SetPhaseTyped DEF LadderFound, TunnelStep, TypeOK
<1>3. CASE NothingDialable
  BY <1>3, <1>t, StepTyped DEF NothingDialable, TunnelStep, TypeOK
<1>4. CASE WgInstalls
  BY <1>4, <1>t, StepTyped DEF WgInstalls, TunnelStep, TypeOK
<1>5. CASE WgInstallFails
  BY <1>5, <1>t, <1>n, StepTyped DEF WgInstallFails, TunnelStep, TypeOK
<1>6. CASE WgRecorded
  BY <1>6, <1>t, StepTyped DEF WgRecorded, TunnelStep, TypeOK
<1>7. CASE RungRefused
  BY <1>7, <1>t, <1>n, StepTyped DEF RungRefused, TunnelStep, TypeOK
<1>8. CASE RungStarts
  BY <1>8, <1>t, <1>n, StepTyped DEF RungStarts, TunnelStep, TypeOK
<1>9. CASE LadderExhausted
  BY <1>9, <1>t, StepTyped DEF LadderExhausted, TunnelStep, TypeOK
<1>10. CASE HandshakeArrives
  BY <1>10, <1>t, StepTyped DEF HandshakeArrives, TunnelStep, TypeOK
<1>11. CASE HandshakeMissing
  BY <1>11, <1>t, StepTyped DEF HandshakeMissing, TunnelStep, TypeOK
<1>12. CASE PingArrives
  BY <1>12, <1>t, StepTyped DEF PingArrives, TunnelStep, TypeOK
<1>13. CASE PingMissing
  BY <1>13, <1>t, StepTyped DEF PingMissing, TunnelStep, TypeOK
<1>14. CASE RungDropped
  BY <1>14, <1>t, StepTyped DEF RungDropped, TunnelStep, TypeOK
<1>15. CASE RungForgotten
  BY <1>15, <1>t, StepTyped DEF RungForgotten, TunnelStep, TypeOK
<1>16. CASE RungWins
  BY <1>16, <1>t, <1>n, <1>s, StepTyped, SetPhaseTyped DEF RungWins, TunnelStep, TypeOK
<1> QED
  BY <1>1, <1>2, <1>3, <1>4, <1>5, <1>6, <1>7, <1>8, <1>9, <1>10, <1>11, <1>12, <1>13,
     <1>14, <1>15, <1>16 DEF ConnectStep

LEMMA DisconnectTyped == ASSUME NEW t \in Threads, TypeOK, Disconnect(t) PROVE TypeOK'
<1> USE RunIsThread, LabelsOfRun
    DEF tunnelVars, managerVars, threadVars, historyVars, boundVars, OnlyTunnel
<1>t. TunnelStep => TunnelTypeOK'
  BY TunnelTyped DEF TypeOK
<1>a. /\ t = Run => AfterDisconnect(t) \in RunSteps
      /\ t # Run => AfterDisconnect(t) \in CallerSteps
  BY DEF AfterDisconnect
<1>1. CASE DisconnectKills(t)
  BY <1>1, <1>t, StepTyped DEF DisconnectKills, TunnelStep, TypeOK
<1>2. CASE DisconnectClears(t)
  BY <1>2, <1>t, StepTyped DEF DisconnectClears, TunnelStep, TypeOK
<1>3. CASE DisconnectUninstalls(t)
  BY <1>3, <1>t, StepTyped DEF DisconnectUninstalls, TunnelStep, TypeOK
<1>6. CASE DisconnectLeavesWg(t)
  <2>1. faults' \in 0..MaxFaults
    BY <1>6, ManagerAssumption DEF DisconnectLeavesWg, TypeOK
  <2> QED
    BY <1>6, <2>1, <1>t, StepTyped DEF DisconnectLeavesWg, TunnelStep, TypeOK
<1>4. CASE DisconnectSkipsWg(t)
  BY <1>4, <1>t, <1>a, StepTyped DEF DisconnectSkipsWg, TunnelStep, TypeOK
<1>5. CASE DisconnectEnds(t)
  BY <1>5, <1>t, <1>a, StepTyped DEF DisconnectEnds, TunnelStep, TypeOK
<1> QED
  BY <1>1, <1>2, <1>3, <1>4, <1>5, <1>6 DEF Disconnect

LEMMA StartThreadTyped ==
  ASSUME NEW c \in Callers, TypeOK, StartThread(c),
         commands' \in 0..MaxCommands, wanted' \in {"nothing", "up", "again", "down"}
  PROVE  TypeOK'
<1> USE RunIsThread, LabelsOfRun
    DEF tunnelVars, managerVars, threadVars, historyVars, boundVars
<1>1. TunnelTypeOK'
  BY TunnelTyped DEF StartThread, TunnelStep, TypeOK
<1>2. /\ pc' \in [Threads -> RunSteps \cup CallerSteps]
      /\ pc'[Run] \in RunSteps
      /\ \A d \in Callers : pc'[d] \in CallerSteps
  BY DEF StartThread, TypeOK
<1>3. stopEvent' \in BOOLEAN /\ overlapped' \in BOOLEAN
  BY DEF StartThread, TypeOK
<1> QED
  BY <1>1, <1>2, <1>3 DEF StartThread, TypeOK

LEMMA CallerTyped == ASSUME NEW c \in Callers, TypeOK, CallerStep(c) PROVE TypeOK'
<1> USE RunIsThread, LabelsOfRun
    DEF tunnelVars, managerVars, threadVars, historyVars, boundVars
<1>t. UNCHANGED tunnelVars => TunnelTypeOK'
  BY TunnelTyped DEF TypeOK, TunnelStep
<1>1. CASE StopCaptures(c)
  BY <1>1, <1>t, StepTyped DEF StopCaptures, TypeOK
<1>2. CASE Joined(c)
  BY <1>2, <1>t, StepTyped DEF Joined, TypeOK
<1>3. CASE JoinTimesOut(c)
  <2>1. overlapped' \in BOOLEAN
    BY <1>3 DEF JoinTimesOut
  <2> QED BY <1>3, <1>t, <2>1, StepTyped DEF JoinTimesOut, TypeOK
<1>4. CASE Disconnect(c)
  BY <1>4, DisconnectTyped
<1>5. CASE Settles(c)
  <2>1. lastError' \in BOOLEAN
    BY <1>5 DEF Settles
  <2>2. attempt' \in 0..MaxAttempts
    <3>1. attempt' = 0
      BY <1>5 DEF Settles
    <3> QED BY <3>1, ConstantsNat
  <2>3. "" \in Phases
    BY DEF Phases
  <2> QED BY <1>5, <1>t, <2>1, <2>2, <2>3, StepTyped, SetPhaseTyped DEF Settles, TypeOK
<1>6. CASE GoesDown(c)
  <2>1. "DISCONNECTED" \in States
    BY DEF States
  <2> QED BY <1>6, <1>t, <2>1, StepTyped, SetStateTyped DEF GoesDown, TypeOK
<1>7. CASE Restart(c)
  BY <1>7, StartThreadTyped DEF Restart, TypeOK
<1> QED
  BY <1>1, <1>2, <1>3, <1>4, <1>5, <1>6, <1>7 DEF CallerStep

LEMMA CommandTyped == TypeOK /\ Command => TypeOK'
<1> SUFFICES ASSUME TypeOK, NEW c \in Callers, Start(c) \/ Stop(c) \/ Reconnect(c)
             PROVE  TypeOK'
  BY DEF Command
<1> USE RunIsThread, LabelsOfRun
    DEF tunnelVars, managerVars, threadVars, historyVars, boundVars
<1>n. commands < MaxCommands => commands + 1 \in 0..MaxCommands
  BY ConstantsNat DEF TypeOK
<1>1. CASE Start(c)
  BY <1>1, <1>n, StartThreadTyped DEF Start
<1>2. ASSUME NEW goal \in {"again", "down"}, StopSignals(c, goal) PROVE TypeOK'
  <2>1. TunnelTypeOK'
    BY <1>2, TunnelTyped DEF StopSignals, TypeOK, TunnelStep
  <2>2. stopEvent' \in BOOLEAN
    BY <1>2 DEF StopSignals
  <2> QED BY <1>2, <1>n, <2>1, <2>2, StepTyped DEF StopSignals, TypeOK
<1> QED
  BY <1>1, <1>2 DEF Stop, Reconnect

LEMMA EnvironmentTyped == TypeOK /\ (PeersShakeHands \/ Fault) => TypeOK'
<1> SUFFICES ASSUME TypeOK, PeersShakeHands \/ Fault PROVE TypeOK'
  OBVIOUS
<1> USE DEF tunnelVars, managerVars, threadVars, historyVars, boundVars
<1>1. TunnelTypeOK'
  BY TunnelTyped DEF PeersShakeHands, Fault, TunnelStep, TypeOK
<1>2. faults' \in 0..MaxFaults
  BY ConstantsNat DEF PeersShakeHands, Fault, TypeOK
<1> QED
  BY <1>1, <1>2 DEF PeersShakeHands, Fault, TypeOK

LEMMA NotifyTyped == ASSUME NEW t \in Threads, TypeOK, Notify(t) PROVE TypeOK'
<1> USE DEF tunnelVars, managerVars, threadVars, historyVars, boundVars
<1>1. TunnelTypeOK'
  BY TunnelTyped DEF Notify, TunnelStep, TypeOK
<1>2. heard' \in States /\ note' \in [Threads -> States \cup {NoNote}]
  BY DEF Notify, TypeOK
<1> QED
  BY <1>1, <1>2 DEF Notify, TypeOK

LEMMA StutterTyped == TypeOK /\ UNCHANGED vars => TypeOK'
  BY DEF TypeOK, TunnelTypeOK, vars, tunnelVars, managerVars, threadVars, historyVars,
     boundVars

-----------------------------------------------------------------------------
(* The steps of the thread keep the rest of the invariant.                 *)

LEMMA StepMoves ==
  ASSUME TypeOK, NEW t \in Threads, NEW from, NEW to, Step(t, from, to)
  PROVE  /\ pc[t] = from /\ pc'[t] = to
         /\ \A u \in Threads : u # t => pc'[u] = pc[u]
  BY DEF Step, TypeOK

\* A step of a live thread leaves the callers where they are, and none of them is
\* past its join.
LEMMA RunMoves ==
  ASSUME TypeOK, JoinsAreReal, NEW from, NEW to, Step(Run, from, to), from # "dead",
         waiting' = waiting, overlapped' = overlapped
  PROVE  /\ JoinsAreReal'
         /\ StopPending' = StopPending
         /\ StopWaits' = StopWaits
<1>1. \A c \in Callers : pc'[c] = pc[c]
  BY StepMoves, RunIsThread
<1>2. Alive
  BY StepMoves, RunIsThread DEF Alive
<1>3. JoinsAreReal'
  BY <1>1, <1>2 DEF JoinsAreReal
<1>4. StopPending' = StopPending
  BY <1>1 DEF StopPending
<1>5. StopWaits' = StopWaits
  BY <1>1 DEF StopWaits
<1> QED
  BY <1>3, <1>4, <1>5

\* What is left of the invariant for a step of the thread.
Rest == AttemptsLeft /\ FreshCount /\ CountShown /\ SpinnerOwned

\* Most steps of the thread do not touch what the invariant speaks of.
LEMMA PlainStep ==
  ASSUME IInv, NEW from, NEW to, Step(Run, from, to),
         from \notin {"dead", "begin", "giveup", "exit"},
         to \notin {"dead", "begin", "announce", "exit"},
         UNCHANGED <<state, attempt, stopEvent, failures, waiting, overlapped>>
  PROVE  JoinsAreReal' /\ Rest'
<1>1. /\ pc[Run] = from /\ pc'[Run] = to
  BY StepMoves, RunIsThread DEF IInv
<1>2. JoinsAreReal' /\ StopPending' = StopPending /\ StopWaits' = StopWaits
  BY RunMoves DEF IInv
<1>3. AttemptsLeft' /\ FreshCount' /\ CountShown'
  BY <1>1 DEF IInv, AttemptsLeft, FreshCount, CountShown
<1>4. SpinnerOwned'
  BY <1>1, <1>2 DEF IInv, SpinnerOwned, Spinning, Alive
<1> QED
  BY <1>2, <1>3, <1>4 DEF Rest

LEMMA ConnectKeeps == IInv /\ ConnectStep => JoinsAreReal' /\ Rest'
<1> SUFFICES ASSUME IInv, ConnectStep PROVE JoinsAreReal' /\ Rest'
  OBVIOUS
<1> USE DEF OnlyTunnel, managerVars, historyVars
<1>1. CASE ConnectBegins
  BY <1>1, PlainStep DEF ConnectBegins
<1>2. CASE LadderFound
  BY <1>2, PlainStep DEF LadderFound
<1>3. CASE NothingDialable
  BY <1>3, PlainStep DEF NothingDialable
<1>4. CASE WgInstalls \/ WgInstallFails \/ WgRecorded
  BY <1>4, PlainStep DEF WgInstalls, WgInstallFails, WgRecorded
<1>5. CASE RungRefused \/ RungStarts \/ LadderExhausted
  BY <1>5, PlainStep DEF RungRefused, RungStarts, LadderExhausted
<1>6. CASE HandshakeArrives \/ HandshakeMissing \/ PingArrives \/ PingMissing
  BY <1>6, PlainStep DEF HandshakeArrives, HandshakeMissing, PingArrives, PingMissing
<1>7. CASE RungDropped
  BY <1>7, PlainStep DEF RungDropped
<1>8. CASE RungForgotten \/ RungWins
  BY <1>8, PlainStep DEF RungForgotten, RungWins
<1> QED
  BY <1>1, <1>2, <1>3, <1>4, <1>5, <1>6, <1>7, <1>8 DEF ConnectStep

LEMMA RunDisconnectKeeps == IInv /\ Disconnect(Run) => JoinsAreReal' /\ Rest'
<1> SUFFICES ASSUME IInv, Disconnect(Run) PROVE JoinsAreReal' /\ Rest'
  OBVIOUS
<1> USE DEF OnlyTunnel, managerVars, historyVars
<1>1. CASE DisconnectKills(Run)
  BY <1>1, PlainStep DEF DisconnectKills
<1>2. CASE DisconnectClears(Run) \/ DisconnectUninstalls(Run) \/ DisconnectLeavesWg(Run)
  BY <1>2, PlainStep DEF DisconnectClears, DisconnectUninstalls, DisconnectLeavesWg
<1>3. CASE DisconnectSkipsWg(Run) \/ DisconnectEnds(Run)
  BY <1>3, PlainStep DEF DisconnectSkipsWg, DisconnectEnds, AfterDisconnect
<1> QED
  BY <1>1, <1>2, <1>3 DEF Disconnect

\* When the thread ends, the joins on it are over; a stepper that still turns is
\* left to the stop() that ended the thread.
LEMMA ThreadEndsKeeps ==
  ASSUME IInv, NEW from, ThreadEnds(from), from # "dead", from # "announce",
         stopEvent \/ from = "exit"
  PROVE  JoinsAreReal' /\ Rest'
<1> USE DEF managerVars, historyVars
<1>1. pc[Run] = from /\ pc'[Run] = "dead" /\ \A c \in Callers : pc'[c] = pc[c]
  BY StepMoves, RunIsThread DEF IInv, ThreadEnds
<1>2. JoinsAreReal'
  BY <1>1 DEF JoinsAreReal, Alive
<1>3. StopPending' = StopPending
  BY <1>1 DEF StopPending
<1>4. AttemptsLeft' /\ FreshCount' /\ CountShown'
  BY <1>1, ConstantsNat DEF AttemptsLeft, FreshCount, CountShown, ThreadEnds
<1>5. SpinnerOwned'
  BY <1>1, <1>3 DEF IInv, SpinnerOwned, Spinning, Alive, ThreadEnds
<1> QED
  BY <1>2, <1>4, <1>5 DEF Rest

LEMMA LoopKeeps == IInv /\ LoopStep => JoinsAreReal' /\ Rest'
<1> SUFFICES ASSUME IInv, LoopStep PROVE JoinsAreReal' /\ Rest'
  OBVIOUS
<1> USE RunIsThread DEF managerVars, historyVars
<1>m. ASSUME NEW from, NEW to, Step(Run, from, to)
      PROVE  pc[Run] = from /\ pc'[Run] = to
  BY <1>m, StepMoves DEF IInv
<1>j. ASSUME NEW from, NEW to, Step(Run, from, to), from # "dead", UNCHANGED <<waiting, overlapped>>
      PROVE  JoinsAreReal' /\ StopPending' = StopPending /\ StopWaits' = StopWaits
  BY <1>j, RunMoves DEF IInv
<1>1. CASE RunBegins
  <2>1. /\ pc[Run] = "begin" /\ pc'[Run] = "loop" /\ attempt' = 0 /\ failures' = failures
        /\ JoinsAreReal' /\ StopPending' = StopPending /\ StopWaits' = StopWaits
        /\ UNCHANGED <<state, stopEvent>>
    BY <1>1, <1>m, <1>j DEF RunBegins
  <2>2. AttemptsLeft' /\ FreshCount' /\ CountShown'
    BY <2>1, ConstantsNat DEF IInv, AttemptsLeft, FreshCount, CountShown
  <2>3. SpinnerOwned'
    BY <2>1 DEF IInv, SpinnerOwned, Spinning, Alive
  <2> QED BY <2>1, <2>2, <2>3 DEF Rest
<1>2. CASE LoopGoesOn
  <2>1. /\ pc[Run] = "loop" /\ pc'[Run] = "announce" /\ ~stopEvent
        /\ JoinsAreReal' /\ StopPending' = StopPending /\ StopWaits' = StopWaits
        /\ UNCHANGED <<state, stopEvent, attempt, failures, overlapped>>
    BY <1>2, <1>m, <1>j DEF LoopGoesOn
  <2>2. AttemptsLeft' /\ FreshCount' /\ CountShown'
    BY <2>1 DEF IInv, AttemptsLeft, FreshCount, CountShown
  <2>3. SpinnerOwned'
    BY <2>1 DEF IInv, SpinnerOwned, Spinning, Alive
  <2> QED BY <2>1, <2>2, <2>3 DEF Rest
<1>3. CASE Announce
  <2>1. /\ pc[Run] = "announce" /\ pc'[Run] = "connect"
        /\ JoinsAreReal' /\ StopPending' = StopPending /\ StopWaits' = StopWaits
        /\ UNCHANGED <<stopEvent, attempt, failures, overlapped>>
    BY <1>3, <1>m, <1>j DEF Announce
  <2>2. AttemptsLeft' /\ FreshCount' /\ CountShown'
    BY <2>1 DEF IInv, AttemptsLeft, FreshCount, CountShown
  <2>3. StopWaits => StopPending
    BY DEF StopWaits, StopPending
  <2>4. SpinnerOwned'
    BY <2>1, <2>3 DEF IInv, SpinnerOwned, Spinning, Alive
  <2> QED BY <2>1, <2>2, <2>4 DEF Rest
<1>4. CASE Report
  BY <1>4, PlainStep DEF Report
<1>5. CASE ComesUp
  <2>1. /\ pc[Run] = "up" /\ pc'[Run] = "monitor" /\ state' = "CONNECTED"
        /\ JoinsAreReal' /\ StopPending' = StopPending /\ StopWaits' = StopWaits
        /\ UNCHANGED <<stopEvent, attempt, failures, overlapped>>
    BY <1>5, <1>m, <1>j DEF ComesUp, SetState
  <2>2. AttemptsLeft' /\ FreshCount' /\ CountShown'
    BY <2>1 DEF IInv, AttemptsLeft, FreshCount, CountShown
  <2>3. SpinnerOwned'
    BY <2>1 DEF SpinnerOwned, Spinning
  <2> QED BY <2>1, <2>2, <2>3 DEF Rest
<1>6. CASE Stabilises
  <2>1. /\ pc[Run] = "monitor" /\ pc'[Run] = "monitor" /\ failures' = 0 /\ attempt' = 0
        /\ JoinsAreReal' /\ StopPending' = StopPending /\ StopWaits' = StopWaits
        /\ UNCHANGED <<state, stopEvent, overlapped>>
    BY <1>6, <1>m, <1>j DEF Stabilises
  <2>2. AttemptsLeft' /\ FreshCount' /\ CountShown'
    BY <2>1, ConstantsNat DEF AttemptsLeft, FreshCount, CountShown
  <2>3. SpinnerOwned'
    BY <2>1 DEF IInv, SpinnerOwned, Spinning, Alive
  <2> QED BY <2>1, <2>2, <2>3 DEF Rest
<1>7. CASE MonitorSeesDrop
  BY <1>7, PlainStep DEF MonitorSeesDrop
<1>8. CASE NoRetryWanted
  BY <1>8, PlainStep DEF NoRetryWanted
<1>9. CASE CountFailure
  <2>1. /\ pc[Run] = "failed"
        /\ pc'[Run] = IF OutOfAttempts(failures + 1) THEN "giveup" ELSE "backoff"
        /\ failures' = failures + 1 /\ attempt' = failures + 1
        /\ JoinsAreReal' /\ StopPending' = StopPending /\ StopWaits' = StopWaits
        /\ UNCHANGED <<state, stopEvent, overlapped>>
    BY <1>9, <1>m, <1>j DEF CountFailure
  <2>2. AttemptsLeft' /\ FreshCount' /\ CountShown'
    BY <2>1, ConstantsNat DEF IInv, TypeOK, AttemptsLeft, FreshCount, CountShown, OutOfAttempts
  <2>3. SpinnerOwned'
    BY <2>1 DEF IInv, SpinnerOwned, Spinning, Alive
  <2> QED BY <2>1, <2>2, <2>3 DEF Rest
<1>10. CASE GiveUp
  <2>1. /\ pc[Run] = "giveup" /\ pc'[Run] = "exit" /\ state' = "FAILED"
        /\ JoinsAreReal' /\ StopPending' = StopPending /\ StopWaits' = StopWaits
        /\ UNCHANGED <<stopEvent, attempt, failures, overlapped>>
    BY <1>10, <1>m, <1>j DEF GiveUp, SetState
  <2>2. AttemptsLeft' /\ FreshCount' /\ CountShown'
    BY <2>1 DEF IInv, AttemptsLeft, FreshCount, CountShown
  <2>3. SpinnerOwned'
    BY <2>1 DEF SpinnerOwned, Spinning
  <2> QED BY <2>1, <2>2, <2>3 DEF Rest
<1>11. CASE BackoffElapses
  BY <1>11, PlainStep DEF BackoffElapses
<1>12. CASE LoopStops \/ MonitorStops \/ GaveUp \/ BackoffStops
  BY <1>12, ThreadEndsKeeps DEF LoopStops, MonitorStops, GaveUp, BackoffStops
<1> QED
  BY <1>1, <1>2, <1>3, <1>4, <1>5, <1>6, <1>7, <1>8, <1>9, <1>10, <1>11, <1>12
     DEF LoopStep

-----------------------------------------------------------------------------
(* The steps of the callers and of the rest of the world.                  *)

\* What the callers know of each other after a step of one of them.
LEMMA CallerMoves ==
  ASSUME TypeOK, NEW c \in Callers, NEW from, NEW to, Step(c, from, to)
  PROVE  /\ pc[c] = from /\ pc'[c] = to /\ pc'[Run] = pc[Run]
         /\ \A d \in Callers : d # c => pc'[d] = pc[d]
  BY StepMoves, RunIsThread

\* A step inside stop(), up to its last listener.
LEMMA InsideStop ==
  ASSUME IInv, NEW c \in Callers, NEW from \in PastJoin, NEW to \in PastJoin,
         Step(c, from, to), UNCHANGED <<state, stopEvent, failures, waiting, overlapped>>,
         UNCHANGED attempt \/ attempt' = 0
  PROVE  JoinsAreReal' /\ Rest'
<1>1. /\ pc[c] = from /\ pc'[c] = to /\ pc'[Run] = pc[Run]
      /\ \A d \in Callers : d # c => pc'[d] = pc[d]
  BY CallerMoves DEF IInv
<1>2. JoinsAreReal'
  BY <1>1 DEF IInv, JoinsAreReal, Alive
<1>3. AttemptsLeft' /\ FreshCount'
  BY <1>1 DEF IInv, AttemptsLeft, FreshCount
<1>4. ~overlapped => ~Alive
  BY <1>1 DEF IInv, JoinsAreReal
<1>5. CountShown'
  BY <1>1, <1>4 DEF CountShown, Alive
<1>6. StopPending' /\ StopWaits' = StopWaits
  <2>1. StopPending'
    BY <1>1 DEF StopPending
  <2>2. StopWaits' = StopWaits
    BY <1>1 DEF StopWaits, PastJoin
  <2> QED BY <2>1, <2>2
<1>7. SpinnerOwned'
  BY <1>1, <1>6 DEF IInv, SpinnerOwned, Spinning, Alive
<1> QED
  BY <1>2, <1>3, <1>5, <1>7 DEF Rest

\* start(), whether it finds the old thread or begins a new one.
LEMMA StartThreadKeeps ==
  ASSUME IInv, NEW c \in Callers, pc[c] \in {"idle", "start"}, StartThread(c)
  PROVE  JoinsAreReal' /\ Rest'
<1>1. CASE Alive
  <2>1. /\ pc'[c] = "idle" /\ pc'[Run] = pc[Run]
        /\ \A d \in Callers : d # c => pc'[d] = pc[d]
        /\ UNCHANGED <<state, stopEvent, attempt, failures, waiting, overlapped>>
    BY <1>1, RunIsThread DEF StartThread, IInv, TypeOK
  <2>2. JoinsAreReal'
    BY <2>1 DEF IInv, JoinsAreReal, Alive, PastJoin
  <2>3. AttemptsLeft' /\ FreshCount' /\ CountShown'
    BY <2>1 DEF IInv, AttemptsLeft, FreshCount, CountShown
  <2>4. StopPending' = StopPending /\ StopWaits' = StopWaits
    BY <2>1 DEF StopPending, StopWaits, PastJoin
  <2>5. SpinnerOwned'
    BY <2>1, <2>4 DEF IInv, SpinnerOwned, Spinning, Alive
  <2> QED BY <2>2, <2>3, <2>5 DEF Rest
<1>2. CASE ~Alive
  <2>1. /\ pc'[c] = "idle" /\ pc[Run] = "dead" /\ pc'[Run] = "begin"
        /\ \A d \in Callers : d # c => pc'[d] = pc[d]
        /\ ~stopEvent'
        /\ UNCHANGED <<state, attempt, failures, waiting>>
    BY <1>2, RunIsThread DEF StartThread, IInv, TypeOK, Alive
  <2>2. ~overlapped' => \A d \in Callers : d # c => pc[d] \in {"idle", "start"}
    BY <1>2 DEF StartThread, Stopping
  <2>3. JoinsAreReal'
    BY <2>1, <2>2 DEF JoinsAreReal, PastJoin
  <2>4. AttemptsLeft' /\ FreshCount' /\ CountShown'
    BY <2>1 DEF IInv, AttemptsLeft, FreshCount, CountShown
  <2>5. SpinnerOwned'
    BY <2>1 DEF SpinnerOwned, Alive
  <2> QED BY <2>3, <2>4, <2>5 DEF Rest
<1> QED
  BY <1>1, <1>2

LEMMA CallerKeeps ==
  ASSUME IInv, NEW c \in Callers, CallerStep(c)
  PROVE  JoinsAreReal' /\ Rest'
<1> USE DEF managerVars, historyVars
<1>1. CASE StopCaptures(c)
  <2>1. /\ pc[c] = "capture" /\ pc'[c] = "join" /\ pc'[Run] = pc[Run]
        /\ \A d \in Callers : d # c => pc'[d] = pc[d]
        /\ waiting' = IF Alive THEN waiting \cup {c} ELSE waiting
        /\ UNCHANGED <<state, stopEvent, attempt, failures, overlapped>>
    BY <1>1, CallerMoves DEF StopCaptures, IInv
  <2>2. JoinsAreReal'
    BY <2>1 DEF IInv, JoinsAreReal, Alive, PastJoin
  <2>3. AttemptsLeft' /\ FreshCount' /\ CountShown'
    BY <2>1 DEF IInv, AttemptsLeft, FreshCount, CountShown
  <2>4. StopPending' /\ (Alive /\ StopWaits => StopWaits')
    BY <2>1 DEF StopPending, StopWaits
  <2>5. SpinnerOwned'
    BY <2>1, <2>4 DEF IInv, SpinnerOwned, Spinning, Alive
  <2> QED BY <2>2, <2>3, <2>5 DEF Rest
<1>2. CASE Joined(c)
  <2>1. /\ pc[c] = "join" /\ c \notin waiting /\ pc'[c] = "kill" /\ pc'[Run] = pc[Run]
        /\ \A d \in Callers : d # c => pc'[d] = pc[d]
        /\ UNCHANGED <<state, stopEvent, attempt, failures, waiting, overlapped>>
    BY <1>2, CallerMoves DEF Joined, IInv
  <2>2. JoinsAreReal'
    BY <2>1 DEF IInv, JoinsAreReal, Alive
  <2>3. AttemptsLeft' /\ FreshCount' /\ CountShown'
    BY <2>1 DEF IInv, AttemptsLeft, FreshCount, CountShown
  <2>4. StopPending' /\ (StopWaits => StopWaits')
    BY <2>1 DEF StopPending, StopWaits, PastJoin
  <2>5. SpinnerOwned'
    BY <2>1, <2>4 DEF IInv, SpinnerOwned, Spinning, Alive
  <2> QED BY <2>2, <2>3, <2>5 DEF Rest
<1>3. CASE JoinTimesOut(c)
  <2>1. /\ pc'[c] = "kill" /\ pc'[Run] = pc[Run] /\ overlapped'
        /\ pc[Run] \in SlowSteps \/ ~stopEvent
        /\ UNCHANGED <<state, stopEvent, attempt, failures>>
    BY <1>3, CallerMoves DEF JoinTimesOut, IInv
  <2>2. JoinsAreReal' /\ CountShown'
    BY <2>1 DEF JoinsAreReal, CountShown
  <2>3. AttemptsLeft' /\ FreshCount'
    BY <2>1 DEF IInv, AttemptsLeft, FreshCount
  <2>4. StopPending'
    BY <2>1 DEF StopPending, PastJoin
  <2>5. SpinnerOwned'
    BY <2>1, <2>4 DEF IInv, SpinnerOwned, Spinning, Alive, SlowSteps
  <2> QED BY <2>2, <2>3, <2>5 DEF Rest
<1>4. CASE Disconnect(c)
  <2> USE RunIsThread DEF OnlyTunnel, AfterDisconnect, PastJoin
  <2>1. CASE DisconnectKills(c)
    BY <2>1, InsideStop DEF DisconnectKills
  <2>2. CASE DisconnectClears(c) \/ DisconnectUninstalls(c) \/ DisconnectLeavesWg(c)
    BY <2>2, InsideStop DEF DisconnectClears, DisconnectUninstalls, DisconnectLeavesWg
  <2>3. CASE DisconnectSkipsWg(c) \/ DisconnectEnds(c)
    BY <2>3, InsideStop DEF DisconnectSkipsWg, DisconnectEnds
  <2> QED BY <1>4, <2>1, <2>2, <2>3 DEF Disconnect
<1>5. CASE Settles(c)
  BY <1>5, InsideStop DEF Settles, PastJoin
<1>6. CASE GoesDown(c)
  <2>1. /\ pc[c] = "down" /\ pc'[c] \in {"start", "idle"} /\ pc'[Run] = pc[Run]
        /\ \A d \in Callers : d # c => pc'[d] = pc[d]
        /\ state' = "DISCONNECTED"
        /\ UNCHANGED <<stopEvent, attempt, failures, waiting, overlapped>>
    BY <1>6, CallerMoves DEF GoesDown, SetState, IInv
  <2>2. JoinsAreReal'
    BY <2>1 DEF IInv, JoinsAreReal, Alive, PastJoin
  <2>3. AttemptsLeft' /\ FreshCount' /\ CountShown'
    BY <2>1 DEF IInv, AttemptsLeft, FreshCount, CountShown
  <2>4. StopWaits => StopWaits'
    BY <2>1 DEF StopWaits
  <2>5. SpinnerOwned'
    BY <2>1, <2>4 DEF IInv, SpinnerOwned, Spinning
  <2> QED BY <2>2, <2>3, <2>5 DEF Rest
<1>7. CASE Restart(c)
  BY <1>7, StartThreadKeeps DEF Restart
<1> QED
  BY <1>1, <1>2, <1>3, <1>4, <1>5, <1>6, <1>7 DEF CallerStep

LEMMA CommandKeeps == IInv /\ Command => JoinsAreReal' /\ Rest'
<1> SUFFICES ASSUME IInv, NEW c \in Callers, Start(c) \/ Stop(c) \/ Reconnect(c)
             PROVE  JoinsAreReal' /\ Rest'
  BY DEF Command
<1>1. CASE Start(c)
  BY <1>1, StartThreadKeeps DEF Start
<1>2. ASSUME NEW goal, StopSignals(c, goal) PROVE JoinsAreReal' /\ Rest'
  <2>1. /\ pc[c] = "idle" /\ pc'[c] = "capture" /\ pc'[Run] = pc[Run]
        /\ \A d \in Callers : d # c => pc'[d] = pc[d]
        /\ stopEvent'
        /\ UNCHANGED <<state, attempt, failures, waiting, overlapped>>
    BY <1>2, CallerMoves DEF StopSignals, IInv
  <2>2. JoinsAreReal'
    BY <2>1 DEF IInv, JoinsAreReal, Alive, PastJoin
  <2>3. AttemptsLeft' /\ FreshCount' /\ CountShown'
    BY <2>1 DEF IInv, AttemptsLeft, FreshCount, CountShown
  <2>4. StopPending' /\ StopWaits'
    BY <2>1 DEF StopPending, StopWaits
  <2>5. SpinnerOwned'
    BY <2>1, <2>4 DEF IInv, SpinnerOwned, Spinning
  <2> QED BY <2>2, <2>3, <2>5 DEF Rest
<1> QED
  BY <1>1, <1>2 DEF Stop, Reconnect

\* Listeners, the machine and the network touch nothing the invariant speaks of.
LEMMA OtherKeeps ==
  ASSUME IInv, UNCHANGED <<pc, state, stopEvent, attempt, failures, waiting, overlapped>>
  PROVE  JoinsAreReal' /\ Rest'
  BY DEF IInv, Rest, AttemptsLeft, FreshCount, CountShown, SpinnerOwned, Spinning,
     JoinsAreReal, StopPending, StopWaits, Alive

-----------------------------------------------------------------------------
(* The invariant and what follows from it.                                 *)

LEMMA IInvInit == Init => IInv
<1> SUFFICES ASSUME Init PROVE IInv
  OBVIOUS
<1>1. TypeOK
  BY InitTyped
<1>2. pc[Run] = "dead" /\ \A c \in Callers : pc[c] = "idle"
  BY RunIsThread DEF Init
<1>3. failures = 0 /\ state = "DISCONNECTED"
  BY DEF Init
<1>4. AttemptsLeft /\ FreshCount /\ CountShown /\ SpinnerOwned
  BY <1>2, <1>3, ConstantsNat DEF AttemptsLeft, FreshCount, CountShown, SpinnerOwned, Spinning
<1>5. JoinsAreReal
  BY <1>2 DEF JoinsAreReal, PastJoin
<1> QED
  BY <1>1, <1>4, <1>5 DEF IInv

LEMMA IInvStep == IInv /\ [Next]_vars => IInv'
<1> SUFFICES ASSUME IInv, [Next]_vars PROVE IInv'
  OBVIOUS
<1> USE DEF managerVars, threadVars, historyVars
<1>1. CASE RunStep
  BY <1>1, ConnectTyped, LoopTyped, DisconnectTyped, RunIsThread, ConnectKeeps, LoopKeeps,
     RunDisconnectKeeps DEF RunStep, IInv, Rest
<1>2. CASE \E c \in Callers : CallerStep(c)
  BY <1>2, CallerTyped, CallerKeeps DEF IInv, Rest
<1>3. CASE Command
  BY <1>3, CommandTyped, CommandKeeps DEF IInv, Rest
<1>4. CASE PeersShakeHands \/ Fault
  BY <1>4, EnvironmentTyped, OtherKeeps DEF PeersShakeHands, Fault, IInv, Rest
<1>5. CASE \E t \in Threads : Notify(t)
  BY <1>5, NotifyTyped, OtherKeeps DEF Notify, IInv, Rest
<1>6. CASE UNCHANGED vars
  BY <1>6, StutterTyped, OtherKeeps DEF vars, IInv, Rest
<1> QED
  BY <1>1, <1>2, <1>3, <1>4, <1>5, <1>6 DEF Next, QuietNext

\* The inductive invariant holds in every state of the manager.
THEOREM Invariant == Spec => []IInv
  BY IInvInit, IInvStep, PTL DEF Spec

\* Every variable keeps its type: above all the attempt count never passes the
\* limit of the profile.
THEOREM TypeCorrect == Spec => []TypeOK
<1>1. IInv => TypeOK
  BY DEF IInv
<1> QED
  BY <1>1, Invariant, PTL

\* connect() is called only while attempts are left, and the status shows the count
\* the thread decides by, for any limit, ladder and number of callers.
THEOREM AttemptsAreCounted == Spec => []AttemptsCounted
<1>1. IInv => AttemptsCounted
  BY DEF IInv, AttemptsLeft, CountShown, AttemptsCounted, ConnectSteps
<1> QED
  BY <1>1, Invariant, PTL

\* However starts, stops and a slow thread interleave, a manager at rest does not
\* report that it is connecting.
THEOREM NoSpinner == Spec => []NoSpinnerAtRest
<1>1. ASSUME IInv, AtRest PROVE ~Spinning
  <2>1. ~Alive /\ ~StopPending
    BY <1>1 DEF AtRest, StopPending, PastJoin
  <2> QED BY <1>1, <2>1 DEF IInv, SpinnerOwned
<1>2. IInv => NoSpinnerAtRest
  BY <1>1 DEF NoSpinnerAtRest, Spinning
<1> QED
  BY <1>2, Invariant, PTL

-----------------------------------------------------------------------------
(* What a TunnelManager leaves behind, for every set of callers and of      *)
(* processes and every bound: as long as no stop() overlaps a live thread,  *)
(* each process, each interface and each state has somebody who will end    *)
(* it.                                                                      *)

-----------------------------------------------------------------------------
(* The inductive invariant: who owns what is there.                         *)

\* A stop() that has the cleaning up still before it, or is at one of the labels.
Owed(labels) == \E c \in Callers : pc[c] \in {"capture", "join"} \cup labels

\* A stop() holds the thread it has told to end, and outlives a connection that
\* nobody watches.
StopsHold ==
    /\ stopEvent /\ Alive => StopWaits
    /\ state = "CONNECTED" /\ ~Alive => StopPending

\* While the thread has no rung up, the object has no process.
NoRung == {"begin", "loop", "announce", "connect", "probe", "install", "flag", "rung",
           "wg", "wgflag", "failed", "giveup", "exit", "backoff"}
ProcIsOwned ==
    /\ alive \subseteq {proc}
    /\ pc[Run] \in NoRung => proc = NoProc
    /\ \A t \in Threads : pc[t] \in {"clear", "dropclear"} => alive = {}
    /\ ~Alive /\ proc # NoProc => Owed({"kill", "clear"})

\* The interface is known as long as it is there and no removal of it has failed, and
\* gone or left standing before a new attempt.
NoInterface == {"begin", "loop", "announce", "connect", "probe", "install", "flag",
                "failed", "giveup", "exit", "backoff"}
WgIsOwned ==
    /\ pc[Run] \in NoInterface => ~wgInstalled
    /\ wgUp => leftUp \/ wgInstalled \/ pc[Run] = "flag"
    /\ \A t \in Threads : pc[t] = "wgflag" => (wgUp => leftUp)
    /\ ~Alive /\ wgInstalled => Owed({"kill", "clear", "wg", "wgflag"})

StrategyIsOwned ==
    /\ active => pc[Run] \in {"dead", "report", "up", "monitor", "kill"}
    /\ ~Alive /\ active => Owed({"kill"})

\* The thread leaves an error behind only with FAILED, and a stop() takes it away.
Cleaning == {"kill", "clear", "wg", "wgflag", "failed"}
ErrorIsOwned ==
    /\ died => pc[Run] \in Cleaning
    /\ died \/ pc[Run] \in {"giveup", "exit"} => lastError
    /\ pc[Run] = "exit" => state = "FAILED"
    /\ \A c \in Callers : pc[c] = "down" => ~lastError /\ phase = ""
    /\ ~Alive /\ ~StopPending => /\ lastError = (state = "FAILED")
                                 /\ state = "DISCONNECTED" => phase = ""

Held == StopsHold /\ ProcIsOwned /\ WgIsOwned /\ StrategyIsOwned /\ ErrorIsOwned
CInv == ~overlapped => Held

-----------------------------------------------------------------------------
(* Facts about who is where.                                                *)

\* Beside a live thread no caller is past its join.
LEMMA NobodyPast ==
  ASSUME IInv, ~overlapped, Alive
  PROVE  \A c \in Callers : /\ pc[c] \notin PastJoin
                            /\ pc[c] = "join" => c \in waiting
  BY DEF IInv, JoinsAreReal

LEMMA WaitsOwe == ASSUME StopWaits PROVE StopPending /\ \A L : Owed(L)
  BY DEF StopWaits, StopPending, Owed

\* A step of the thread leaves the callers where they are; it ends when it is told
\* to, or has given up.
LEMMA RunEffects ==
  ASSUME TypeOK, RunStep
  PROVE  /\ Alive /\ \A c \in Callers : pc'[c] = pc[c]
         /\ UNCHANGED <<stopEvent, again, wanted, overlapped>>
         /\ \/ Alive' /\ pc[Run] # "exit" /\ waiting' = waiting
            \/ /\ ~Alive' /\ UNCHANGED <<tunnelVars, state, phase, lastError, died>>
               /\ pc[Run] = "exit" \/ (stopEvent /\ pc[Run] \in {"loop", "monitor", "backoff"})
<1>1. CASE ConnectStep
  BY <1>1, RunIsThread DEF ConnectStep, ConnectBegins, LadderFound, NothingDialable,
     WgInstalls, WgInstallFails, WgRecorded, RungRefused, RungStarts, LadderExhausted,
     HandshakeArrives, HandshakeMissing, PingArrives, PingMissing, RungDropped,
     RungForgotten, RungWins, OnlyTunnel, managerVars, historyVars, Step, Alive, TypeOK
<1>2. CASE LoopStep
  BY <1>2, RunIsThread DEF LoopStep, RunBegins, LoopStops, LoopGoesOn, Announce, Report,
     ComesUp, MonitorStops, Stabilises, MonitorSeesDrop, NoRetryWanted, CountFailure,
     GiveUp, GaveUp, BackoffStops, BackoffElapses, ThreadEnds, managerVars, historyVars,
     Step, Alive, TypeOK
<1>3. CASE Disconnect(Run)
  BY <1>3, RunIsThread DEF Disconnect, DisconnectKills, DisconnectClears,
     DisconnectUninstalls, DisconnectLeavesWg, DisconnectSkipsWg, DisconnectEnds,
     AfterDisconnect, OnlyTunnel,
     managerVars, historyVars, Step, Alive, TypeOK
<1> QED
  BY <1>1, <1>2, <1>3 DEF RunStep

-----------------------------------------------------------------------------
(* Steps of the thread.                                                     *)

\* What the thread's own labels say about the object.
RunKnows ==
    /\ alive \subseteq {proc}
    /\ pc[Run] \in NoRung => proc = NoProc
    /\ pc[Run] \in {"clear", "dropclear"} => alive = {}
    /\ pc[Run] \in NoInterface => ~wgInstalled
    /\ wgUp => leftUp \/ wgInstalled \/ pc[Run] = "flag"
    /\ pc[Run] = "wgflag" => (wgUp => leftUp)
    /\ active => pc[Run] \in {"dead", "report", "up", "monitor", "kill"}
    /\ died => pc[Run] \in Cleaning
    /\ died \/ pc[Run] \in {"giveup", "exit"} => lastError
    /\ pc[Run] = "exit" => state = "FAILED"

LEMMA RunKnowsMore == ASSUME TypeOK, RunKnows, RunStep PROVE RunKnows'
<1> USE DEF RunKnows, NoRung, NoInterface, Cleaning, tunnelVars, managerVars, Step
<1> USE RunIsThread
<1>1. CASE ConnectBegins \/ LadderFound \/ NothingDialable
  BY <1>1 DEF ConnectBegins, LadderFound, NothingDialable, ForgetStrategy, OnlyTunnel,
     TypeOK
<1>2. CASE WgInstalls \/ WgInstallFails \/ WgRecorded
  BY <1>2 DEF WgInstalls, WgInstallFails, WgRecorded, InstallWg, RecordInstalled,
     WgVanishes, OnlyTunnel, TypeOK
<1>3. CASE RungRefused \/ LadderExhausted \/ HandshakeArrives \/ HandshakeMissing
           \/ PingArrives \/ PingMissing
  BY <1>3 DEF RungRefused, LadderExhausted, HandshakeArrives, HandshakeMissing,
     PingArrives, PingMissing, OnlyTunnel, TypeOK
<1>4. CASE RungStarts
  BY <1>4, NoProcAssumption DEF RungStarts, StartWstunnel, OnlyTunnel, TypeOK,
     TunnelTypeOK
<1>5. CASE RungDropped \/ RungForgotten
  BY <1>5 DEF RungDropped, RungForgotten, TerminateProc, ClearProc, OnlyTunnel, TypeOK
<1>6. CASE RungWins
  BY <1>6 DEF RungWins, KeepStrategy, TypeOK
<1>7. CASE LoopStep
  <2>1. CASE RunBegins
    BY <2>1 DEF RunBegins, TypeOK
  <2>2. CASE LoopGoesOn
    BY <2>2 DEF LoopGoesOn, TypeOK
  <2>3. CASE Announce
    BY <2>3 DEF Announce, TypeOK
  <2>4. CASE BackoffElapses
    BY <2>4 DEF BackoffElapses, TypeOK
  <2>5. CASE Report \/ ComesUp \/ Stabilises
    BY <2>5 DEF Report, ComesUp, Stabilises, TypeOK
  <2>6. CASE LoopStops \/ MonitorStops \/ GaveUp \/ BackoffStops
    BY <2>6 DEF LoopStops, MonitorStops, GaveUp, BackoffStops, ThreadEnds, TypeOK
  <2>7. CASE MonitorSeesDrop \/ NoRetryWanted
    BY <2>7 DEF MonitorSeesDrop, NoRetryWanted, TypeOK
  <2>8. CASE CountFailure
    BY <2>8 DEF CountFailure, TypeOK
  <2>9. CASE GiveUp
    BY <2>9 DEF GiveUp, SetState, TypeOK
  <2> QED
    BY <1>7, <2>1, <2>2, <2>3, <2>4, <2>5, <2>6, <2>7, <2>8, <2>9 DEF LoopStep
<1>8. CASE Disconnect(Run)
  BY <1>8 DEF Disconnect, DisconnectKills, DisconnectClears, DisconnectUninstalls,
     DisconnectLeavesWg, DisconnectSkipsWg, DisconnectEnds, AfterDisconnect,
     ForgetAndTerminate, ClearProc,
     UninstallWg, UninstallFails, ClearInstalled, OnlyTunnel, TypeOK
<1> QED
  BY <1>1, <1>2, <1>3, <1>4, <1>5, <1>6, <1>7, <1>8 DEF RunStep, ConnectStep

LEMMA HeldKnows == ASSUME Held PROVE RunKnows
  BY RunIsThread DEF Held, ProcIsOwned, WgIsOwned, StrategyIsOwned, ErrorIsOwned, RunKnows

LEMMA RunHolds == ASSUME IInv, TypeOK', Held, RunStep, ~overlapped PROVE Held'
<1>1. RunKnows /\ RunKnows'
  BY HeldKnows, RunKnowsMore DEF IInv
<1>2. /\ Alive /\ \A c \in Callers : pc'[c] = pc[c] /\ pc[c] \notin PastJoin
      /\ stopEvent' = stopEvent
  BY RunEffects, NobodyPast DEF IInv
<1>3. CASE Alive' /\ waiting' = waiting
  <2>1. stopEvent' => StopWaits'
    BY <1>2, <1>3 DEF Held, StopsHold, StopWaits
  <2>2. \A c \in Callers : pc'[c] \notin {"clear", "dropclear", "wgflag", "down"}
    BY <1>2 DEF PastJoin, IInv, TypeOK, CallerSteps, DisconnectSteps
  <2> QED
    BY <1>1, <1>3, <2>1, <2>2, RunIsThread DEF RunKnows, Held, StopsHold, ProcIsOwned,
       WgIsOwned, StrategyIsOwned, ErrorIsOwned
<1>4. CASE /\ ~Alive' /\ UNCHANGED <<tunnelVars, state, phase, lastError, died>>
           /\ pc[Run] = "exit" \/ (stopEvent /\ pc[Run] \in {"loop", "monitor", "backoff"})
  <2>1. \A c \in Callers : pc'[c] \notin {"clear", "dropclear", "wgflag", "down"}
    BY <1>2 DEF PastJoin, IInv, TypeOK, CallerSteps, DisconnectSteps
  <2>2. pc'[Run] = "dead"
    BY <1>4 DEF Alive
  <2>3. CASE pc[Run] = "exit"
    <3>1. /\ proc' = NoProc /\ ~wgInstalled' /\ (wgUp' => leftUp') /\ ~active'
          /\ state' = "FAILED" /\ lastError'
      BY <1>1, <1>4, <2>3 DEF RunKnows, NoRung, NoInterface, tunnelVars
    <3> QED
      BY <1>1, <1>4, <2>1, <2>2, <3>1, RunIsThread DEF RunKnows, Held, StopsHold,
         ProcIsOwned, WgIsOwned, StrategyIsOwned, ErrorIsOwned, IInv, TypeOK
  <2>4. CASE stopEvent
    <3>1. StopWaits
      BY <1>2, <2>4 DEF Held, StopsHold
    <3>2. StopPending' /\ Owed({"kill", "clear"})'
          /\ Owed({"kill", "clear", "wg", "wgflag"})' /\ Owed({"kill"})'
      BY <1>2, <3>1 DEF StopWaits, StopPending, Owed
    <3> QED
      BY <1>1, <1>4, <2>1, <2>2, <3>2, RunIsThread DEF RunKnows, Held, StopsHold,
         ProcIsOwned, WgIsOwned, StrategyIsOwned, ErrorIsOwned
  <2> QED BY <1>4, <2>3, <2>4
<1> QED
  BY <1>3, <1>4, RunEffects DEF IInv

-----------------------------------------------------------------------------
(* Steps of the callers.                                                    *)

\* With nobody's cleaning up outstanding there is nothing to clean up.
LEMMA NothingOwed ==
  ASSUME TypeOK, Held, ~Alive, \A c \in Callers : pc[c] \in {"idle", "start"}
  PROVE  /\ proc = NoProc /\ alive = {} /\ ~wgInstalled /\ (wgUp => leftUp) /\ ~active
         /\ ~died
         /\ state # "CONNECTED" /\ lastError = (state = "FAILED")
         /\ state = "DISCONNECTED" => phase = ""
<1>1. ~StopPending /\ ~Owed({"kill", "clear"}) /\ ~Owed({"kill"})
      /\ ~Owed({"kill", "clear", "wg", "wgflag"})
  BY DEF StopPending, Owed, PastJoin
<1>2. proc = NoProc /\ ~wgInstalled /\ ~active
  BY <1>1 DEF Held, ProcIsOwned, WgIsOwned, StrategyIsOwned
<1>3. wgUp => leftUp
  BY <1>2 DEF Held, WgIsOwned, Alive
<1>4. alive = {}
  BY <1>2, NoProcAssumption DEF Held, ProcIsOwned, TypeOK, TunnelTypeOK
<1>5. ~died
  BY DEF Held, ErrorIsOwned, Cleaning, Alive
<1>6. state # "CONNECTED"
  BY <1>1 DEF Held, StopsHold
<1>7. lastError = (state = "FAILED") /\ (state = "DISCONNECTED" => phase = "")
  BY <1>1 DEF Held, ErrorIsOwned
<1> QED
  BY <1>2, <1>3, <1>4, <1>5, <1>6, <1>7

LEMMA StartHolds ==
  ASSUME IInv, Held, NEW c \in Callers, pc[c] \in {"idle", "start"}, StartThread(c),
         ~overlapped'
  PROVE  Held'
<1> USE RunIsThread
<1>1. CASE Alive
  <2>1. /\ pc' = [pc EXCEPT ![c] = "idle"]
        /\ UNCHANGED <<tunnelVars, state, phase, lastError, stopEvent, died, waiting>>
    BY <1>1 DEF StartThread
  <2>2. pc'[c] = "idle" /\ \A t \in Threads : t # c => pc'[t] = pc[t]
    BY <2>1 DEF IInv, TypeOK
  <2>3. Alive' /\ pc'[Run] = pc[Run]
    BY <1>1, <2>2 DEF Alive
  <2>4. StopWaits => StopWaits'
    BY <2>1, <2>2 DEF StopWaits
  <2> QED
    BY <1>1, <2>1, <2>2, <2>3, <2>4 DEF Held, StopsHold, ProcIsOwned, WgIsOwned,
       StrategyIsOwned, ErrorIsOwned, tunnelVars
<1>2. CASE ~Alive
  <2>1. /\ pc' = [pc EXCEPT ![c] = "idle", ![Run] = "begin"]
        /\ ~stopEvent'
        /\ UNCHANGED <<tunnelVars, state, phase, lastError, died>>
        /\ \A d \in Callers \ {c} : ~Stopping(d)
    BY <1>2 DEF StartThread
  <2>2. \A d \in Callers : pc[d] \in {"idle", "start"}
    BY <2>1 DEF Stopping
  <2>3. pc'[Run] = "begin" /\ \A d \in Callers : pc'[d] \in {"idle", "start"}
    BY <2>1, <2>2 DEF IInv, TypeOK
  <2>4. /\ proc = NoProc /\ alive = {} /\ ~wgInstalled /\ (wgUp => leftUp) /\ ~active
        /\ ~died
    BY <1>2, <2>2, NothingOwed DEF IInv
  <2> QED
    BY <2>1, <2>3, <2>4 DEF Held, StopsHold, ProcIsOwned, WgIsOwned, StrategyIsOwned,
       ErrorIsOwned, tunnelVars, Alive
<1> QED
  BY <1>1, <1>2

LEMMA WaitHolds ==
  ASSUME IInv, Held, NEW c \in Callers, ~overlapped,
         StopCaptures(c) \/ Joined(c) \/ Stop(c) \/ Reconnect(c)
  PROVE  Held'
<1> USE RunIsThread
<1>1. UNCHANGED <<tunnelVars, state, phase, lastError, died>>
  BY DEF StopCaptures, Joined, Stop, Reconnect, StopSignals, managerVars
<1>2. /\ pc'[c] \in {"capture", "join", "kill"}
      /\ \A t \in Threads : t # c => pc'[t] = pc[t]
      /\ pc'[Run] = pc[Run]
      /\ pc[c] \in {"idle", "capture", "join"}
  BY DEF StopCaptures, Joined, Stop, Reconnect, StopSignals, Step, IInv, TypeOK
<1>3. Alive => (stopEvent' => StopWaits')
  <2>1. CASE StopCaptures(c)
    BY <1>2, <2>1 DEF StopCaptures, StopWaits, Step, IInv, TypeOK
  <2>2. CASE Joined(c)
    BY <2>2, NobodyPast DEF Joined, Step
  <2>3. CASE Stop(c) \/ Reconnect(c)
    BY <2>3 DEF Stop, Reconnect, StopSignals, StopWaits, Step, IInv, TypeOK
  <2> QED BY <2>1, <2>2, <2>3
<1>4. /\ StopPending' /\ Owed({"kill", "clear"})' /\ Owed({"kill"})'
      /\ Owed({"kill", "clear", "wg", "wgflag"})'
  BY <1>2 DEF StopPending, Owed, PastJoin
<1> QED
  BY <1>1, <1>2, <1>3, <1>4, ZenonT(60) DEF Held, StopsHold, ProcIsOwned, WgIsOwned,
     StrategyIsOwned, ErrorIsOwned, tunnelVars, Alive

\* A caller that disconnects has the object to itself.
LEMMA CallerDisconnectHolds ==
  ASSUME IInv, Held, NEW c \in Callers, ~overlapped, Disconnect(c)
  PROVE  Held'
<1> USE RunIsThread
<1>1. /\ UNCHANGED <<state, phase, lastError, died, stopEvent>>
      /\ pc[c] \in {"kill", "clear", "wg", "wgflag"}
      /\ pc'[c] \in {"clear", "wg", "wgflag", "settle"}
      /\ \A t \in Threads : t # c => pc'[t] = pc[t]
      /\ pc'[Run] = pc[Run]
  BY DEF Disconnect, DisconnectKills, DisconnectClears, DisconnectUninstalls,
     DisconnectLeavesWg, DisconnectSkipsWg, DisconnectEnds, AfterDisconnect, OnlyTunnel,
     managerVars, Step,
     IInv, TypeOK
<1>2. pc[Run] = "dead" /\ ~Alive /\ ~Alive'
  BY <1>1, NobodyPast DEF PastJoin, Alive
<1>3. StopPending'
  BY <1>1 DEF StopPending, PastJoin
<1>4. StopsHold' /\ ErrorIsOwned'
  BY <1>1, <1>2, <1>3 DEF Held, StopsHold, ErrorIsOwned
<1>5. CASE DisconnectKills(c)
  <2>1. /\ proc' = proc /\ alive' = {} /\ ~active' /\ UNCHANGED <<wgUp, leftUp, wgInstalled>>
        /\ pc'[c] = IF proc = NoProc THEN "wg" ELSE "clear"
    BY <1>5 DEF DisconnectKills, ForgetAndTerminate, Step, Held, ProcIsOwned, IInv, TypeOK
  <2>2. ProcIsOwned'
    BY <1>1, <1>2, <2>1 DEF Held, ProcIsOwned, Owed, NoRung, Alive
  <2>3. WgIsOwned' /\ StrategyIsOwned'
    BY <1>1, <1>2, <2>1 DEF Held, WgIsOwned, StrategyIsOwned, Owed, NoInterface
  <2> QED BY <1>4, <2>2, <2>3 DEF Held
<1>6. CASE DisconnectClears(c)
  <2>1. /\ proc' = NoProc /\ alive' = {} /\ pc[c] = "clear" /\ pc'[c] = "wg"
        /\ UNCHANGED <<wgUp, leftUp, wgInstalled, active>>
    BY <1>6 DEF DisconnectClears, ClearProc, Step, Held, ProcIsOwned, IInv, TypeOK
  <2>2. ProcIsOwned'
    BY <1>1, <1>2, <2>1 DEF ProcIsOwned
  <2>3. WgIsOwned' /\ StrategyIsOwned'
    BY <1>1, <1>2, <2>1 DEF Held, WgIsOwned, StrategyIsOwned, Owed, NoInterface
  <2> QED BY <1>4, <2>2, <2>3 DEF Held
<1>7. CASE DisconnectUninstalls(c) \/ DisconnectLeavesWg(c) \/ DisconnectSkipsWg(c)
           \/ DisconnectEnds(c)
  <2>1. UNCHANGED <<proc, alive, active>> /\ pc[c] \in {"wg", "wgflag"}
        /\ pc'[c] \in {"wgflag", "settle"}
    BY <1>7 DEF DisconnectUninstalls, DisconnectLeavesWg, DisconnectSkipsWg,
       DisconnectEnds, UninstallWg,
       UninstallFails, ClearInstalled, AfterDisconnect, tunnelVars, Step, IInv, TypeOK
  <2>2. /\ wgUp' => leftUp'
        /\ wgInstalled' => wgInstalled /\ pc'[c] = "wgflag"
    BY <1>2, <1>7 DEF DisconnectUninstalls, DisconnectLeavesWg, DisconnectSkipsWg,
       DisconnectEnds, UninstallWg,
       UninstallFails, ClearInstalled, tunnelVars, Step, Held, WgIsOwned, IInv, TypeOK
  <2>3. ProcIsOwned' /\ StrategyIsOwned'
    BY <1>1, <1>2, <2>1 DEF Held, ProcIsOwned, StrategyIsOwned, Owed, NoRung
  <2>4. WgIsOwned'
    BY <1>1, <1>2, <2>2 DEF Held, WgIsOwned, Owed, NoInterface
  <2> QED BY <1>4, <2>3, <2>4 DEF Held
<1> QED
  BY <1>5, <1>6, <1>7 DEF Disconnect

LEMMA ReportHolds ==
  ASSUME IInv, Held, NEW c \in Callers, ~overlapped, Settles(c) \/ GoesDown(c)
  PROVE  Held'
<1> USE RunIsThread
<1>1. /\ UNCHANGED <<tunnelVars, died, stopEvent>>
      /\ pc[c] \in {"settle", "down"}
      /\ pc'[c] \in {"down", "start", "idle"}
      /\ \A t \in Threads : t # c => pc'[t] = pc[t]
      /\ pc'[Run] = pc[Run]
  BY DEF Settles, GoesDown, Step, IInv, TypeOK
<1>2. pc[Run] = "dead" /\ ~Alive /\ ~Alive'
  BY <1>1, NobodyPast DEF PastJoin, Alive
<1>3. ProcIsOwned' /\ WgIsOwned' /\ StrategyIsOwned'
  BY <1>1, <1>2 DEF Held, ProcIsOwned, WgIsOwned, StrategyIsOwned, Owed, tunnelVars
<1>4. StopsHold' /\ ErrorIsOwned'
  <2>1. CASE Settles(c)
    <3>1. pc'[c] = "down" /\ ~lastError' /\ phase' = "" /\ state' = state
      BY <2>1 DEF Settles, SetPhase, Step, IInv, TypeOK
    <3>2. StopPending'
      BY <3>1 DEF StopPending, PastJoin
    <3> QED BY <1>1, <1>2, <3>1, <3>2 DEF Held, StopsHold, ErrorIsOwned, Cleaning
  <2>2. CASE GoesDown(c)
    <3>1. pc[c] = "down" /\ pc'[c] # "down" /\ state' = "DISCONNECTED"
          /\ UNCHANGED <<phase, lastError>>
      BY <2>2 DEF GoesDown, SetState, Step, IInv, TypeOK
    <3>2. lastError = FALSE /\ phase = ""
      BY <3>1 DEF Held, ErrorIsOwned, IInv, TypeOK
    <3> QED BY <1>1, <1>2, <3>1, <3>2 DEF Held, StopsHold, ErrorIsOwned, Cleaning
  <2> QED BY <2>1, <2>2
<1> QED
  BY <1>3, <1>4 DEF Held

-----------------------------------------------------------------------------
(* The rest, and the invariant.                                             *)

LEMMA OtherHolds ==
  ASSUME Held, UNCHANGED <<state, phase, lastError, stopEvent, pc, waiting, died>>,
         UNCHANGED <<proc, wgInstalled, active>>, alive' \subseteq alive,
         wgUp' => wgUp /\ leftUp' = leftUp
  PROVE  Held'
<1>1. /\ StopPending' = StopPending /\ StopWaits' = StopWaits /\ Alive' = Alive
      /\ \A L : Owed(L)' = Owed(L)
  BY DEF StopPending, StopWaits, Alive, Owed
<1>2. StopsHold' /\ StrategyIsOwned' /\ ErrorIsOwned'
  BY <1>1, ZenonT(60) DEF Held, StopsHold, StrategyIsOwned, ErrorIsOwned
<1>3. ProcIsOwned'
  BY <1>1, ZenonT(60) DEF Held, ProcIsOwned
<1>4. WgIsOwned'
  BY <1>1 DEF Held, WgIsOwned
<1> QED
  BY <1>2, <1>3, <1>4 DEF Held

\* The history of overlaps is never forgotten.
LEMMA CallerKeepsApart ==
  ASSUME NEW c \in Callers, CallerStep(c), ~overlapped'
  PROVE  ~overlapped
  BY DEF CallerStep, StopCaptures, Joined, JoinTimesOut, Disconnect, DisconnectKills,
     DisconnectClears, DisconnectUninstalls, DisconnectLeavesWg, DisconnectSkipsWg,
     DisconnectEnds, OnlyTunnel,
     Settles, GoesDown, Restart, StartThread, historyVars

LEMMA CInvInit == Init => CInv
  BY RunIsThread DEF Init, TunnelInit, CInv, Held, StopsHold, ProcIsOwned, WgIsOwned,
     StrategyIsOwned, ErrorIsOwned, Alive, NoRung, NoInterface

LEMMA CInvStep == IInv /\ IInv' /\ CInv /\ [Next]_vars => CInv'
<1> SUFFICES ASSUME IInv, IInv', CInv, [Next]_vars, ~overlapped' PROVE Held'
  BY DEF CInv
<1>1. CASE RunStep
  BY <1>1, RunEffects, RunHolds DEF CInv, IInv
<1>2. ASSUME NEW c \in Callers, CallerStep(c) PROVE Held'
  <2>1. ~overlapped /\ Held
    BY <1>2, CallerKeepsApart DEF CInv
  <2>2. ~JoinTimesOut(c)
    BY DEF JoinTimesOut
  <2>3. CASE Restart(c)
    BY <2>1, <2>3, StartHolds DEF Restart
  <2> QED
    BY <1>2, <2>1, <2>2, <2>3, WaitHolds, CallerDisconnectHolds, ReportHolds DEF CallerStep
<1>3. CASE Command
  <2>1. PICK c \in Callers : Start(c) \/ Stop(c) \/ Reconnect(c)
    BY <1>3 DEF Command
  <2>2. ~overlapped /\ Held
    <3>1. CASE Start(c)
      BY <3>1 DEF Start, StartThread, CInv, IInv, TypeOK
    <3>2. CASE Stop(c) \/ Reconnect(c)
      BY <3>2 DEF Stop, Reconnect, StopSignals, CInv
    <3> QED BY <2>1, <3>1, <3>2
  <2>3. CASE Start(c)
    BY <2>2, <2>3, StartHolds DEF Start
  <2> QED BY <2>1, <2>2, <2>3, WaitHolds
<1>4. CASE PeersShakeHands \/ Fault
  BY <1>4, OtherHolds DEF PeersShakeHands, Fault, Handshake, WgVanishes, ProcDies, CInv,
     managerVars, threadVars, historyVars
<1>5. CASE \E t \in Threads : Notify(t)
  BY <1>5, OtherHolds DEF Notify, CInv, tunnelVars, managerVars
<1>6. CASE UNCHANGED vars
  BY <1>6, OtherHolds DEF vars, tunnelVars, managerVars, threadVars, historyVars, CInv
<1> QED
  BY <1>1, <1>2, <1>3, <1>4, <1>5, <1>6 DEF Next, QuietNext

THEOREM OwnersExist == Spec => []CInv
  BY Invariant, CInvInit, CInvStep, PTL DEF Spec

\* When every call and the thread have ended, no wstunnel process runs, the interface
\* stands only where the platform did not remove it, and the state shown is the one the
\* last connection ended in, whatever failed or was stopped where.
THEOREM RestIsClean == Spec => []CleanAtRest
<1>1. IInv /\ NoSpinnerAtRest /\ CInv => CleanAtRest
  <2> SUFFICES ASSUME IInv, NoSpinnerAtRest, CInv, AtRest, ~overlapped
      PROVE  /\ state \in {"DISCONNECTED", "FAILED"}
             /\ lastError = (state = "FAILED")
             /\ state = "DISCONNECTED" => phase = ""
             /\ proc = NoProc /\ alive = {}
             /\ ~wgInstalled /\ (wgUp => leftUp) /\ ~active
    BY DEF CleanAtRest
  <2>1. ~Alive /\ Held /\ \A c \in Callers : pc[c] \in {"idle", "start"}
    BY DEF AtRest, CInv
  <2>2. state \in {"DISCONNECTED", "FAILED"}
    BY <2>1, NothingOwed DEF NoSpinnerAtRest, IInv, TypeOK, States
  <2> QED BY <2>1, <2>2, NothingOwed DEF IInv
<1> QED
  BY <1>1, Invariant, NoSpinner, OwnersExist, PTL

\* The Tunnel never loses sight of a wstunnel process it has started.
THEOREM NoProcessIsLost == Spec => []NoOrphan
<1>1. CInv => NoOrphan
  BY DEF CInv, Held, ProcIsOwned, NoOrphan
<1> QED
  BY <1>1, OwnersExist, PTL

\* No connection is shown that nobody watches or is about to end.
THEOREM ConnectionIsWatched == Spec => []ConnectedIsWatched
<1>1. CInv => ConnectedIsWatched
  BY DEF CInv, Held, StopsHold, StopPending, PastJoin, ConnectedIsWatched, Stopping
<1> QED
  BY <1>1, OwnersExist, PTL

-----------------------------------------------------------------------------
(* A reconnect comes back.                                                  *)

InStop == PastJoin \cup {"capture", "join"}

\* A reconnect whose first half is still on its way, one about to start a thread, or
\* a thread that nobody has told to end and that can only give up.
ComesBack ==
    \/ \E c \in again : pc[c] \in InStop
    \/ ~Alive /\ \E c \in Callers : pc[c] = "start"
    \/ /\ IF Alive THEN ~stopEvent ELSE state = "FAILED"
       /\ \A c \in Callers : pc[c] \notin InStop

RInv == ~overlapped /\ wanted = "again" => ComesBack

LEMMA StopGoesOn ==
  ASSUME IInv, Held, ~overlapped, RInv, NEW c \in Callers,
         StopCaptures(c) \/ Joined(c) \/ Disconnect(c) \/ Settles(c) \/ GoesDown(c)
  PROVE  RInv'
<1> USE RunIsThread
<1> SUFFICES ASSUME wanted' = "again" PROVE ComesBack'
  BY DEF RInv
<1>1. UNCHANGED <<stopEvent, wanted>>
  BY DEF StopCaptures, Joined, Disconnect, DisconnectKills, DisconnectClears,
     DisconnectUninstalls, DisconnectLeavesWg, DisconnectSkipsWg, DisconnectEnds,
     OnlyTunnel, Settles, GoesDown,
     managerVars, historyVars
<1>2. /\ pc[c] \in InStop
      /\ \A t \in Threads : t # c => pc'[t] = pc[t]
      /\ pc'[Run] = pc[Run] /\ Alive' = Alive
  BY DEF StopCaptures, Joined, Disconnect, DisconnectKills, DisconnectClears,
     DisconnectUninstalls, DisconnectLeavesWg, DisconnectSkipsWg, DisconnectEnds, Settles,
     GoesDown, Step, IInv,
     TypeOK, InStop, PastJoin, Alive
<1>3. ComesBack /\ again \subseteq Callers
  BY <1>1 DEF RInv, IInv, TypeOK
<1>4. CASE GoesDown(c)
  <2>1. ~Alive
    BY <1>4, NobodyPast DEF GoesDown, Step, PastJoin
  <2>2. /\ again' = again \ {c}
        /\ c \in again => pc'[c] = "start"
    BY <1>4 DEF GoesDown, Step, IInv, TypeOK
  <2>3. \A d \in Callers : pc[d] = "start" => d # c
    BY <1>2 DEF InStop, PastJoin
  <2> QED BY <1>2, <1>3, <2>1, <2>2, <2>3 DEF ComesBack
<1>5. CASE StopCaptures(c) \/ Joined(c) \/ Disconnect(c) \/ Settles(c)
  <2>1. again' = again /\ pc'[c] \in InStop
    BY <1>5 DEF StopCaptures, Joined, Disconnect, DisconnectKills, DisconnectClears,
       DisconnectUninstalls, DisconnectLeavesWg, DisconnectSkipsWg, DisconnectEnds,
       AfterDisconnect, OnlyTunnel,
       Settles, Step, IInv, TypeOK, InStop, PastJoin
  <2>2. \A d \in Callers : pc[d] = "start" => d # c
    BY <1>2 DEF InStop, PastJoin
  <2> QED BY <1>2, <1>3, <2>1, <2>2 DEF ComesBack
<1> QED
  BY <1>4, <1>5

LEMMA StartComesBack ==
  ASSUME IInv, RInv, ~overlapped, ~overlapped', NEW c \in Callers, Restart(c)
  PROVE  RInv'
<1> USE RunIsThread
<1> SUFFICES ASSUME wanted' = "again" PROVE ComesBack'
  BY DEF RInv
<1>1. wanted = "again" /\ again' = again /\ again \subseteq Callers /\ pc[c] = "start"
  BY DEF Restart, StartThread, IInv, TypeOK
<1>2. ComesBack
  BY <1>1 DEF RInv
<1>3. CASE Alive
  <2>1. /\ pc' = [pc EXCEPT ![c] = "idle"] /\ UNCHANGED <<stopEvent, state>>
    BY <1>3 DEF Restart, StartThread
  <2>2. pc'[c] = "idle" /\ pc'[Run] = pc[Run] /\ \A t \in Threads : t # c => pc'[t] = pc[t]
    BY <2>1 DEF IInv, TypeOK
  <2> QED BY <1>1, <1>2, <1>3, <2>1, <2>2 DEF ComesBack, Alive, InStop, PastJoin
<1>4. CASE ~Alive
  <2>1. /\ pc' = [pc EXCEPT ![c] = "idle", ![Run] = "begin"] /\ ~stopEvent'
        /\ \A d \in Callers \ {c} : ~Stopping(d)
    BY <1>4 DEF Restart, StartThread
  <2>2. pc'[Run] = "begin" /\ \A d \in Callers : pc'[d] \in {"idle", "start"}
    BY <2>1 DEF Stopping, IInv, TypeOK
  <2> QED BY <2>1, <2>2 DEF ComesBack, Alive, InStop, PastJoin
<1> QED
  BY <1>3, <1>4

LEMMA CommandComesBack == ASSUME IInv, Command PROVE RInv'
<1>1. PICK c \in Callers : Start(c) \/ Stop(c) \/ Reconnect(c)
  BY DEF Command
<1>2. CASE Start(c) \/ Stop(c)
  BY <1>2 DEF Start, Stop, StopSignals, RInv
<1>3. CASE Reconnect(c)
  BY <1>3, RunIsThread DEF Reconnect, StopSignals, Step, IInv, TypeOK, RInv, ComesBack,
     InStop
<1> QED
  BY <1>1, <1>2, <1>3

LEMMA RunComesBack ==
  ASSUME IInv, Held, RInv, ~overlapped, RunStep
  PROVE  RInv'
<1>1. /\ Alive /\ \A c \in Callers : pc'[c] = pc[c]
      /\ UNCHANGED <<stopEvent, again, wanted>> /\ again \subseteq Callers
      /\ Alive' \/ stopEvent \/ (pc[Run] = "exit" /\ state' = state)
  BY RunEffects DEF IInv, TypeOK
<1>2. pc[Run] = "exit" => state = "FAILED"
  BY DEF Held, ErrorIsOwned
<1> QED
  BY <1>1, <1>2 DEF RInv, ComesBack

LEMMA OtherComesBack ==
  ASSUME RInv, UNCHANGED <<state, stopEvent, pc, again, wanted, overlapped>>
  PROVE  RInv'
  BY DEF RInv, ComesBack, Alive

LEMMA RInvInit == Init => RInv
  BY DEF Init, RInv

LEMMA RInvStep == IInv /\ CInv /\ RInv /\ [Next]_vars => RInv'
<1> SUFFICES ASSUME IInv, CInv, RInv, [Next]_vars, ~overlapped' PROVE RInv'
  BY DEF RInv
<1>1. CASE RunStep
  BY <1>1, RunEffects, RunComesBack DEF CInv, IInv
<1>2. ASSUME NEW c \in Callers, CallerStep(c) PROVE RInv'
  <2>1. ~overlapped /\ Held
    BY <1>2, CallerKeepsApart DEF CInv
  <2>2. ~JoinTimesOut(c)
    BY DEF JoinTimesOut
  <2> QED BY <1>2, <2>1, <2>2, StopGoesOn, StartComesBack DEF CallerStep
<1>3. CASE Command
  BY <1>3, CommandComesBack
<1>4. CASE PeersShakeHands \/ Fault
  BY <1>4, OtherComesBack DEF PeersShakeHands, Fault, managerVars, threadVars, historyVars
<1>5. CASE \E t \in Threads : Notify(t)
  BY <1>5, OtherComesBack DEF Notify, managerVars
<1>6. CASE UNCHANGED vars
  BY <1>6, OtherComesBack DEF vars, managerVars, threadVars, historyVars
<1> QED
  BY <1>1, <1>2, <1>3, <1>4, <1>5, <1>6 DEF Next, QuietNext

\* A manager that was last told to reconnect does not end up down without having tried
\* until the attempts were used up.
THEOREM ReconnectReturns == Spec => []ReconnectComesBack
<1>1. IInv /\ RInv => ReconnectComesBack
  BY DEF IInv, TypeOK, PastJoin, RInv, ComesBack, InStop, AtRest, ReconnectComesBack
<1>2. Spec => []RInv
  BY Invariant, OwnersExist, RInvInit, RInvStep, PTL DEF Spec
<1> QED
  BY <1>1, <1>2, Invariant, PTL
=============================================================================

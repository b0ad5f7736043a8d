-------------------------- MODULE KillSwitchProofs --------------------------
(* Theorems about KillSwitch, for every set of callers and of processes and *)
(* every bound: the client with its kill switch is still the TunnelManager  *)
(* the other theorems are about, and the firewall rules are never left in   *)
(* place for a user who has turned the feature off.                         *)
EXTENDS KillSwitch, TunnelManagerProofs

-----------------------------------------------------------------------------
(* The switch only listens: it implements the manager.                      *)

LEMMA HandlerIsQuietOrNotifies ==
  ASSUME NEW t \in Threads, Handler(t)
  PROVE  Notify(t) \/ UNCHANGED vars
  BY DEF Handler, Hears, Ignores, Engages, Releases

LEMMA SwitchStepIsManagerStep == [SwitchNext]_allVars => [Next]_vars
<1> SUFFICES ASSUME [SwitchNext]_allVars PROVE [Next]_vars
  OBVIOUS
<1>1. CASE Working
  BY <1>1 DEF Working, Next
<1>2. CASE \E t \in Threads : Handler(t)
  BY <1>2, HandlerIsQuietOrNotifies DEF Next
<1>3. CASE TurnsOn \/ TurnsOff \/ SetterStep \/ OtherLaunch
  BY <1>3 DEF TurnsOn, TurnsOff, SetterStep, Looks, SetterEngages, SetterRollsBack,
     SetterReleases, OtherLaunch
<1>4. CASE UNCHANGED allVars
  BY <1>4 DEF allVars
<1> QED
  BY <1>1, <1>2, <1>3, <1>4 DEF SwitchNext

\* What the kill switch adds never makes the manager do what it would not do by
\* itself: whatever holds of TunnelManager holds of the client with the switch.
THEOREM SwitchImplementsManager == SwitchSpec => Spec
<1>1. SwitchInit => Init
  BY DEF SwitchInit
<1> QED
  BY <1>1, SwitchStepIsManagerStep, PTL DEF SwitchSpec, Spec

-----------------------------------------------------------------------------
(* The inductive invariant of the switch.                                   *)

\* A handler that has decided has still its call of the listeners to finish.
DeedsAreCalls == \A t \in Threads : deed[t] # "none" => note[t] # NoNote

\* As long as no change of the setting crossed a listener call:
\* set_settings runs alone,
SetterIsAlone == setter # "idle" => \A t \in Threads : note[t] = NoNote
\* a handler that is about to engage has read the setting as it still is,
EngagersAreRight == \A t \in Threads : deed[t] = "engage" => enabled
\* set_settings finds no rules when it turns the feature on,
SetterStartsOpen == setter \in {"look", "engage"} => enabled /\ ~engaged
\* and rules that outlive the setting are those it is about to remove.
RulesAreOwned == engaged => enabled \/ setter = "release"

SwitchInv ==
    /\ engaged \in BOOLEAN
    /\ deed \in [Threads -> {"none", "engage", "release"}]
    /\ DeedsAreCalls
    /\ ~raced => SetterIsAlone /\ EngagersAreRight /\ SetterStartsOpen /\ RulesAreOwned

\* A thread that has a call of the listeners to make does nothing else before.
LEMMA StepKeepsCalls ==
  ASSUME TypeOK, NEW t \in Threads, note[t] = NoNote,
         \/ note' = note
         \/ \E n : note' = [note EXCEPT ![t] = n]
  PROVE  \A u \in Threads : note[u] # NoNote => note'[u] = note[u]
  BY DEF TypeOK

LEMMA DisconnectKeepsNotes == ASSUME NEW t \in Threads, Disconnect(t) PROVE note' = note
  BY DEF Disconnect, DisconnectKills, DisconnectClears, DisconnectUninstalls,
     DisconnectLeavesWg, DisconnectSkipsWg, DisconnectEnds, OnlyTunnel

LEMMA QuietKeepsCalls ==
  ASSUME TypeOK, QuietNext
  PROVE  \A u \in Threads : note[u] # NoNote => note'[u] = note[u]
<1>1. CASE ConnectStep
  <2>1. note[Run] = NoNote /\ (note' = note \/ \E n : note' = [note EXCEPT ![Run] = n])
    BY <1>1 DEF ConnectStep, ConnectBegins, LadderFound, NothingDialable, WgInstalls,
       WgInstallFails, WgRecorded, RungRefused, RungStarts, LadderExhausted,
       HandshakeArrives, HandshakeMissing, PingArrives, PingMissing, RungDropped,
       RungForgotten, RungWins, OnlyTunnel, SetPhase, Step
  <2> QED BY <2>1, RunIsThread, StepKeepsCalls
<1>2. CASE LoopStep
  <2>1. note[Run] = NoNote /\ (note' = note \/ \E n : note' = [note EXCEPT ![Run] = n])
    BY <1>2 DEF LoopStep, RunBegins, LoopStops, LoopGoesOn, Announce, Report, ComesUp,
       MonitorStops, Stabilises, MonitorSeesDrop, NoRetryWanted, CountFailure, GiveUp,
       GaveUp, BackoffStops, BackoffElapses, ThreadEnds, SetPhase, SetState, Step
  <2> QED BY <2>1, RunIsThread, StepKeepsCalls
<1>3. CASE Disconnect(Run)
  BY <1>3, RunIsThread, DisconnectKeepsNotes
<1>4. ASSUME NEW c \in Callers, CallerStep(c)
      PROVE  \A u \in Threads : note[u] # NoNote => note'[u] = note[u]
  <2>1. CASE Disconnect(c)
    BY <2>1, RunIsThread, DisconnectKeepsNotes
  <2>2. CASE StopCaptures(c) \/ Joined(c) \/ JoinTimesOut(c) \/ Restart(c)
    BY <2>2 DEF StopCaptures, Joined, JoinTimesOut, Restart, StartThread
  <2>3. CASE Settles(c) \/ GoesDown(c)
    <3>1. note[c] = NoNote /\ \E n : note' = [note EXCEPT ![c] = n]
      BY <2>3 DEF Settles, GoesDown, SetPhase, SetState, Step
    <3> QED BY <3>1, RunIsThread, StepKeepsCalls
  <2> QED BY <1>4, <2>1, <2>2, <2>3 DEF CallerStep
<1>5. CASE Command
  BY <1>5 DEF Command, Start, Stop, Reconnect, StopSignals, StartThread
<1>6. CASE PeersShakeHands \/ Fault
  BY <1>6 DEF PeersShakeHands, Fault, threadVars
<1> QED
  BY <1>1, <1>2, <1>3, <1>4, <1>5, <1>6 DEF QuietNext, RunStep

LEMMA NotifyMoves ==
  ASSUME TypeOK, NEW t \in Threads, Notify(t)
  PROVE  \A u \in Threads : u # t => note'[u] = note[u]
  BY DEF Notify, TypeOK

-----------------------------------------------------------------------------
(* The steps of the switch.                                                 *)

\* What set_settings has to itself, from the history of the race.
LEMMA RaceIsSeen ==
  ASSUME SwitchNext, ~raced'
  PROVE  ~raced /\ SetterIsAlone'
  BY DEF SwitchNext, SetterIsAlone

LEMMA WorkingKeeps == ASSUME TypeOK, SwitchInv, SwitchNext, Working PROVE SwitchInv'
<1>1. QuietNext /\ UNCHANGED <<enabled, engaged, deed, setter>>
  BY DEF Working
<1>2. DeedsAreCalls'
  BY <1>1, QuietKeepsCalls DEF SwitchInv, DeedsAreCalls
<1>3. ASSUME ~raced'
      PROVE  SetterIsAlone' /\ EngagersAreRight' /\ SetterStartsOpen' /\ RulesAreOwned'
  BY <1>1, <1>3, RaceIsSeen
     DEF SwitchInv, EngagersAreRight, SetterStartsOpen, RulesAreOwned
<1> QED
  BY <1>1, <1>2, <1>3 DEF SwitchInv

LEMMA HandlerKeeps ==
  ASSUME TypeOK, SwitchInv, SwitchNext, NEW t \in Threads, Handler(t)
  PROVE  SwitchInv'
<1> DEFINE Good == SetterIsAlone' /\ EngagersAreRight' /\ SetterStartsOpen' /\ RulesAreOwned'
<1>1. CASE Hears(t)
  <2>1. /\ note[t] # NoNote /\ Decision(note[t]) # "none"
        /\ deed' = [deed EXCEPT ![t] = Decision(note[t])]
        /\ UNCHANGED <<note, enabled, engaged, setter>>
    BY <1>1 DEF Hears, vars, threadVars
  <2>2. enabled /\ Decision(note[t]) \in {"engage", "release"}
    BY <2>1 DEF Decision
  <2>3. deed' \in [Threads -> {"none", "engage", "release"}] /\ DeedsAreCalls'
    BY <2>1, <2>2 DEF SwitchInv, DeedsAreCalls
  <2>4. ASSUME ~raced' PROVE Good
    BY <2>1, <2>2, <2>4, RaceIsSeen
       DEF SwitchInv, EngagersAreRight, SetterStartsOpen, RulesAreOwned
  <2> QED BY <2>1, <2>3, <2>4 DEF SwitchInv
<1>2. CASE Ignores(t)
  <2>1. deed[t] = "none" /\ Notify(t) /\ UNCHANGED <<enabled, engaged, deed, setter>>
    BY <1>2 DEF Ignores
  <2>2. DeedsAreCalls'
    BY <2>1, NotifyMoves DEF SwitchInv, DeedsAreCalls
  <2>3. ASSUME ~raced' PROVE Good
    BY <2>1, <2>3, RaceIsSeen
       DEF SwitchInv, EngagersAreRight, SetterStartsOpen, RulesAreOwned
  <2> QED BY <2>1, <2>2, <2>3 DEF SwitchInv
<1>3. CASE Engages(t) \/ Releases(t)
  <2>1. /\ deed[t] \in {"engage", "release"} /\ deed' = [deed EXCEPT ![t] = "none"]
        /\ Notify(t) /\ UNCHANGED <<enabled, setter>>
        /\ deed[t] = "engage" \/ engaged' = FALSE
    BY <1>3 DEF Engages, Releases
  <2>2. deed' \in [Threads -> {"none", "engage", "release"}] /\ DeedsAreCalls'
    BY <2>1, NotifyMoves DEF SwitchInv, DeedsAreCalls
  <2>3. engaged' \in BOOLEAN
    BY <1>3 DEF SwitchInv, Engages, Releases, Refused
  <2>4. ASSUME ~raced' PROVE Good
    <3>1. setter = "idle"
      BY <2>1, <2>4, RaceIsSeen DEF SwitchInv, DeedsAreCalls, SetterIsAlone
    <3>2. EngagersAreRight'
      BY <2>1, <2>4, RaceIsSeen DEF SwitchInv, EngagersAreRight
    <3>3. RulesAreOwned' /\ SetterStartsOpen'
      BY <2>1, <2>4, <3>1, RaceIsSeen
         DEF SwitchInv, EngagersAreRight, RulesAreOwned, SetterStartsOpen
    <3> QED BY <2>4, <3>2, <3>3, RaceIsSeen
  <2> QED BY <2>2, <2>3, <2>4 DEF SwitchInv
<1> QED
  BY <1>1, <1>2, <1>3 DEF Handler

\* A step of set_settings keeps the calls and the decisions of the handlers, and
\* without a race there are none.
LEMMA SetterKeeps ==
  ASSUME SwitchInv, SwitchNext, TurnsOn \/ TurnsOff \/ SetterStep
  PROVE  SwitchInv'
<1>1. UNCHANGED <<note, deed>>
  BY DEF TurnsOn, TurnsOff, SetterStep, Looks, SetterEngages, SetterRollsBack,
     SetterReleases, vars, threadVars
<1>2. deed' \in [Threads -> {"none", "engage", "release"}] /\ DeedsAreCalls'
  BY <1>1 DEF SwitchInv, DeedsAreCalls
<1>3. setter # "idle" \/ setter' # "idle"
  BY DEF TurnsOn, TurnsOff, SetterStep, Looks, SetterEngages, SetterRollsBack,
     SetterReleases
<1>4. engaged' \in BOOLEAN
  BY DEF SwitchInv, TurnsOn, TurnsOff, SetterStep, Looks, SetterEngages, SetterRollsBack,
     SetterReleases, Refused
<1>5. ASSUME ~raced'
      PROVE  SetterIsAlone' /\ EngagersAreRight' /\ SetterStartsOpen' /\ RulesAreOwned'
  <2>1. \A t \in Threads : note[t] = NoNote
    BY <1>1, <1>3, <1>5, RaceIsSeen DEF SwitchInv, SetterIsAlone
  <2>2. EngagersAreRight'
    BY <1>1, <2>1 DEF SwitchInv, DeedsAreCalls, EngagersAreRight
  <2>3. ~raced /\ SetterStartsOpen /\ RulesAreOwned
    BY <1>5, RaceIsSeen DEF SwitchInv
  <2>4. SetterStartsOpen' /\ RulesAreOwned'
    <3>1. CASE TurnsOn
      BY <2>3, <3>1 DEF SetterStartsOpen, RulesAreOwned, TurnsOn
    <3>2. CASE TurnsOff
      BY <2>3, <3>2 DEF SetterStartsOpen, RulesAreOwned, TurnsOff
    <3>3. CASE Looks
      BY <2>3, <3>3 DEF SetterStartsOpen, RulesAreOwned, Looks
    <3>4. CASE SetterEngages
      BY <2>3, <3>4 DEF SetterStartsOpen, RulesAreOwned, SetterEngages
    <3>5. CASE SetterRollsBack
      <4>1. engaged = FALSE
        BY <2>3, <3>5 DEF SwitchInv, SetterStartsOpen, SetterRollsBack
      <4>2. engaged' = FALSE /\ setter' = "idle"
        BY <3>5, <4>1 DEF SetterRollsBack, Refused
      <4> QED BY <4>2 DEF SetterStartsOpen, RulesAreOwned
    <3>6. CASE SetterReleases
      BY <3>6 DEF SetterStartsOpen, RulesAreOwned, SetterReleases
    <3> QED BY <3>1, <3>2, <3>3, <3>4, <3>5, <3>6 DEF SetterStep
  <2> QED BY <1>5, <2>2, <2>4, RaceIsSeen
<1> QED
  BY <1>2, <1>4, <1>5 DEF SwitchInv

LEMMA OtherLaunchKeeps == ASSUME SwitchInv, SwitchNext, OtherLaunch PROVE SwitchInv'
<1>1. engaged' = FALSE /\ UNCHANGED <<note, enabled, deed, setter>>
  BY DEF OtherLaunch, vars, threadVars
<1> QED
  BY <1>1, RaceIsSeen DEF SwitchInv, DeedsAreCalls, EngagersAreRight, SetterStartsOpen,
     RulesAreOwned

LEMMA SwitchInvInit == SwitchInit => SwitchInv
  BY DEF SwitchInit, SwitchInv, DeedsAreCalls, SetterIsAlone, EngagersAreRight,
     SetterStartsOpen, RulesAreOwned

LEMMA SwitchInvStep == TypeOK /\ SwitchInv /\ [SwitchNext]_allVars => SwitchInv'
<1> SUFFICES ASSUME TypeOK, SwitchInv, [SwitchNext]_allVars PROVE SwitchInv'
  OBVIOUS
<1>1. CASE SwitchNext
  BY <1>1, WorkingKeeps, HandlerKeeps, SetterKeeps, OtherLaunchKeeps DEF SwitchNext
<1>2. CASE UNCHANGED allVars
  BY <1>2 DEF allVars, vars, threadVars, switchVars, SwitchInv, DeedsAreCalls,
     SetterIsAlone, EngagersAreRight, SetterStartsOpen, RulesAreOwned
<1> QED
  BY <1>1, <1>2

\* A user who has turned the kill switch off is not cut off by rules that stayed
\* behind, however drops, listeners, settings, refusals and other launches
\* interleave, unless a change of the setting crossed a listener call.
THEOREM RulesAreWanted == SwitchSpec => []EngagedIsWanted
<1>1. SwitchSpec => []TypeOK
  BY SwitchImplementsManager, TypeCorrect, PTL
<1>2. SwitchInv => EngagedIsWanted
  BY DEF SwitchInv, RulesAreOwned, EngagedIsWanted, Settled
<1> QED
  BY <1>1, <1>2, SwitchInvInit, SwitchInvStep, PTL DEF SwitchSpec

-----------------------------------------------------------------------------
(* The rules follow a loss: the second inductive invariant.                 *)

\* A handler acts on the state it was called with.
DeedsFit ==
    \A t \in Threads :
        /\ deed[t] = "engage" => note[t] \in Down
        /\ deed[t] = "release" => note[t] \in {"CONNECTED", "DISCONNECTED"}

\* Unless a stop() overlapped a live thread: no caller has the listeners to call
\* beside the thread,
CallersAreQuiet == ~overlapped /\ Alive => \A c \in Callers : note[c] = NoNote
\* and while the tunnel is lost nobody has still to tell them that it is not.
LossIsAnnounced ==
    ~overlapped /\ state \in Down => \A t \in Threads : note[t] \in Down \cup {NoNote}

SetterKnows == setter = "release" => ~enabled

\* A loss without rules has still a listener to call.
BlockIsComing ==
    ~overlapped /\ ~raced /\ upsets = 0 /\ setter = "idle" /\ enabled /\ state \in Down =>
        engaged \/ \E t \in Threads : note[t] \in Down

LossInv ==
    /\ upsets \in Nat
    /\ DeedsFit /\ CallersAreQuiet /\ LossIsAnnounced /\ SetterKnows /\ BlockIsComing

\* The thread says what it changes the state to; nobody else changes it but to
\* DISCONNECTED.
LEMMA RunTells ==
  ASSUME IInv, CallersAreQuiet, RunStep
  PROVE  /\ overlapped' = overlapped /\ CallersAreQuiet'
         /\ \A c \in Callers : note'[c] = note[c]
         /\ state' = state => note'[Run] \in {note[Run], state}
         /\ state' # state => note'[Run] = state' /\ Alive
<1>1. /\ Alive /\ overlapped' = overlapped
      /\ note' = note \/ \E n : note' = [note EXCEPT ![Run] = n]
      /\ state' = state => note'[Run] \in {note[Run], state}
      /\ state' # state => note'[Run] = state'
  <2>1. CASE ConnectStep
    BY <2>1, RunIsThread
       DEF ConnectStep, ConnectBegins, LadderFound, NothingDialable, WgInstalls,
           WgInstallFails, WgRecorded, RungRefused, RungStarts, LadderExhausted,
           HandshakeArrives, HandshakeMissing, PingArrives, PingMissing, RungDropped,
           RungForgotten, RungWins, OnlyTunnel, managerVars, historyVars, SetPhase, Step,
           Alive, IInv, TypeOK
  <2>2. CASE LoopStep
    BY <2>2, RunIsThread
       DEF LoopStep, RunBegins, LoopStops, LoopGoesOn, Announce, Report, ComesUp,
           MonitorStops, Stabilises, MonitorSeesDrop, NoRetryWanted, CountFailure, GiveUp,
           GaveUp, BackoffStops, BackoffElapses, ThreadEnds, managerVars, historyVars,
           SetPhase, SetState, Step, Alive, IInv, TypeOK
  <2>3. CASE Disconnect(Run)
    BY <2>3 DEF Disconnect, DisconnectKills, DisconnectClears, DisconnectUninstalls,
       DisconnectLeavesWg, DisconnectSkipsWg, DisconnectEnds, OnlyTunnel, managerVars,
       historyVars, Step, Alive
  <2> QED
    BY <2>1, <2>2, <2>3 DEF RunStep
<1>2. \A c \in Callers : note'[c] = note[c]
  BY <1>1, RunIsThread DEF IInv, TypeOK
<1> QED
  BY <1>1, <1>2 DEF CallersAreQuiet

\* A new thread finds no stop() that has listeners to call.
LEMMA StartTells ==
  ASSUME IInv, CallersAreQuiet, NEW c \in Callers, note[c] = NoNote, StartThread(c)
  PROVE  /\ overlapped => overlapped'
         /\ CallersAreQuiet' /\ note' = note /\ state' = state
<1>1. /\ note' = note /\ state' = state
  BY DEF StartThread
<1>2. CASE Alive
  BY <1>1, <1>2, RunIsThread DEF StartThread, CallersAreQuiet
<1>3. CASE ~Alive
  <2>1. overlapped' = (overlapped \/ \E d \in Callers \ {c} : Stopping(d))
    BY <1>3 DEF StartThread
  <2>2. ~overlapped' => \A d \in Callers : note[d] = NoNote
    BY <2>1 DEF Stopping
  <2> QED
    BY <1>1, <2>1, <2>2 DEF CallersAreQuiet
<1> QED
  BY <1>2, <1>3

LEMMA CallerTells ==
  ASSUME IInv, CallersAreQuiet, NEW c \in Callers, CallerStep(c)
  PROVE  /\ overlapped => overlapped'
         /\ CallersAreQuiet'
         /\ state' = state => \A t \in Threads : note'[t] \in {note[t], state}
         /\ state' = state \/ state' = "DISCONNECTED"
<1>1. CASE Restart(c)
  BY <1>1, StartTells DEF Restart
<1>2. CASE Settles(c) \/ GoesDown(c)
  <2>1. /\ pc[c] \in PastJoin /\ overlapped' = overlapped /\ pc'[Run] = pc[Run]
        /\ note[c] = NoNote
    BY <1>2, RunIsThread DEF Settles, GoesDown, Step, historyVars, PastJoin, IInv, TypeOK
  <2>2. CallersAreQuiet'
    BY <2>1 DEF CallersAreQuiet, Alive, IInv, JoinsAreReal
  <2>3. state' = state \/ state' = "DISCONNECTED"
    BY <1>2 DEF Settles, GoesDown, SetState
  <2>4. \E n : note' = [note EXCEPT ![c] = n] /\ (state' = state => n \in {NoNote, state})
    BY <1>2 DEF Settles, GoesDown, SetState, SetPhase
  <2>5. state' = state => \A t \in Threads : note'[t] \in {note[t], state}
    BY <2>1, <2>4 DEF IInv, TypeOK
  <2> QED
    BY <2>1, <2>2, <2>3, <2>5
<1>3. CASE StopCaptures(c) \/ Joined(c) \/ JoinTimesOut(c) \/ Disconnect(c)
  <2>1. /\ overlapped => overlapped'
        /\ note' = note /\ state' = state /\ pc'[Run] = pc[Run]
    BY <1>3, RunIsThread
       DEF StopCaptures, Joined, JoinTimesOut, Disconnect, DisconnectKills,
           DisconnectClears, DisconnectUninstalls, DisconnectLeavesWg, DisconnectSkipsWg,
           DisconnectEnds,
           OnlyTunnel, managerVars, historyVars, Step, IInv, TypeOK
  <2> QED
    BY <2>1 DEF CallersAreQuiet, Alive
<1> QED
  BY <1>1, <1>2, <1>3 DEF CallerStep

LEMMA QuietTells ==
  ASSUME IInv, CallersAreQuiet, QuietNext
  PROVE  /\ overlapped => overlapped'
         /\ CallersAreQuiet'
         /\ state' = state => \A t \in Threads : note'[t] \in {note[t], state}
         /\ state' # state => \/ state' = "DISCONNECTED"
                              \/ /\ Alive /\ note'[Run] = state'
                                 /\ \A c \in Callers : note'[c] = note[c]
<1>1. CASE RunStep
  BY <1>1, RunTells, RunIsThread
<1>2. CASE \E c \in Callers : CallerStep(c)
  BY <1>2, CallerTells
<1>3. CASE Command
  <2>1. PICK c \in Callers : Start(c) \/ Stop(c) \/ Reconnect(c)
    BY <1>3 DEF Command
  <2>2. CASE Start(c)
    BY <2>2, StartTells DEF Start
  <2>3. CASE Stop(c) \/ Reconnect(c)
    <3>1. note' = note /\ state' = state /\ overlapped' = overlapped /\ pc'[Run] = pc[Run]
      BY <2>3, RunIsThread DEF Stop, Reconnect, StopSignals, Step, IInv, TypeOK
    <3> QED
      BY <3>1 DEF CallersAreQuiet, Alive
  <2> QED
    BY <2>1, <2>2, <2>3
<1>4. CASE PeersShakeHands \/ Fault
  BY <1>4 DEF PeersShakeHands, Fault, managerVars, threadVars, historyVars,
     CallersAreQuiet, Alive
<1> QED
  BY <1>1, <1>2, <1>3, <1>4 DEF QuietNext

LEMMA DownIsNoEnd == NoNote \notin Down /\ "CONNECTED" \notin Down /\ "DISCONNECTED" \notin Down
  BY DEF NoNote, Down

LEMMA WorkingBlocks ==
  ASSUME IInv, SwitchNext, LossInv, Working
  PROVE  LossInv'
<1>1. QuietNext /\ UNCHANGED <<enabled, engaged, deed, setter, upsets>>
  BY DEF Working
<1>2. \A t \in Threads : note[t] # NoNote => note'[t] = note[t]
  BY <1>1, QuietKeepsCalls DEF IInv
<1>3. DeedsFit' /\ SetterKnows' /\ upsets' \in Nat
  BY <1>1, <1>2, DownIsNoEnd DEF LossInv, DeedsFit, SetterKnows, NoNote, Down
<1>4. /\ overlapped => overlapped'
      /\ CallersAreQuiet'
      /\ state' = state => \A t \in Threads : note'[t] \in {note[t], state}
      /\ state' # state => \/ state' = "DISCONNECTED"
                           \/ /\ Alive /\ note'[Run] = state'
                              /\ \A c \in Callers : note'[c] = note[c]
  BY <1>1, QuietTells DEF LossInv
<1>5. ASSUME ~overlapped', state' \in Down
      PROVE  /\ \A t \in Threads : note'[t] \in Down \cup {NoNote}
             /\ state' # state => note'[Run] \in Down
  <2>1. CASE state' = state
    BY <1>4, <1>5, <2>1 DEF LossInv, LossIsAnnounced
  <2>2. CASE state' # state
    BY <1>4, <1>5, <2>2, DownIsNoEnd, RunIsThread DEF LossInv, CallersAreQuiet
  <2> QED
    BY <2>1, <2>2
<1>6. BlockIsComing'
  <2> SUFFICES ASSUME ~overlapped', ~raced', upsets' = 0, setter' = "idle", enabled',
                      state' \in Down
               PROVE  engaged' \/ \E t \in Threads : note'[t] \in Down
    BY DEF BlockIsComing
  <2>1. CASE state' = state
    BY <1>1, <1>2, <1>4, <2>1, RaceIsSeen, DownIsNoEnd DEF LossInv, BlockIsComing
  <2>2. CASE state' # state
    BY <1>5, <2>2, RunIsThread
  <2> QED
    BY <2>1, <2>2
<1> QED
  BY <1>3, <1>4, <1>5, <1>6 DEF LossInv, LossIsAnnounced

LEMMA HandlerBlocks ==
  ASSUME IInv, SwitchInv, SwitchNext, LossInv, NEW t \in Threads, Handler(t)
  PROVE  LossInv'
<1>1. CASE Hears(t)
  <2>1. /\ UNCHANGED <<note, state, overlapped, pc, enabled, engaged, setter, upsets>>
        /\ deed' = [deed EXCEPT ![t] = Decision(note[t])]
    BY <1>1 DEF Hears, vars, threadVars, managerVars, historyVars
  <2>2. /\ Decision(note[t]) = "engage" => note[t] \in Down
        /\ Decision(note[t]) = "release" => note[t] \in {"CONNECTED", "DISCONNECTED"}
    BY DEF Decision
  <2>3. \A u \in Threads : deed'[u] \in {deed[u]} \cup IF u = t THEN {Decision(note[t])} ELSE {}
    BY <2>1
  <2>4. DeedsFit'
    BY <2>1, <2>2, <2>3 DEF LossInv, DeedsFit
  <2>5. BlockIsComing'
    BY <2>1, RaceIsSeen DEF LossInv, BlockIsComing
  <2> QED
    BY <2>1, <2>4, <2>5
       DEF LossInv, CallersAreQuiet, LossIsAnnounced, SetterKnows, Alive
<1>2. CASE Ignores(t) \/ Engages(t) \/ Releases(t)
  <2>1. /\ UNCHANGED <<state, overlapped, pc, enabled, setter>>
        /\ note[t] # NoNote /\ note' = [note EXCEPT ![t] = NoNote]
    BY <1>2 DEF Ignores, Engages, Releases, Notify, managerVars
  <2>2. /\ note'[t] = NoNote
        /\ \A u \in Threads : u # t => note'[u] = note[u]
    BY <2>1 DEF IInv, TypeOK
  <2>3. /\ deed'[t] = "none"
        /\ \A u \in Threads : u # t => deed'[u] = deed[u]
    BY <1>2 DEF Ignores, Engages, Releases, SwitchInv
  <2>4. upsets' \in Nat /\ (upsets' = 0 => upsets = 0 /\ ~Refused)
    <3>1. upsets \in Nat
      BY DEF LossInv
    <3>2. upsets' = upsets \/ (Refused /\ upsets' = upsets + 1)
      BY <1>2 DEF Ignores, Engages, Releases, Refused
    <3>3. CASE Refused /\ upsets' = upsets + 1
      BY <3>1, <3>3
    <3>4. CASE upsets' = upsets
      <4>1. upsets + 1 # upsets
        BY <3>1
      <4> QED
        BY <3>1, <3>4, <4>1 DEF Refused
    <3> QED
      BY <3>2, <3>3, <3>4
  <2>5. DeedsFit'
    BY <2>2, <2>3 DEF LossInv, DeedsFit
  <2>6. CallersAreQuiet' /\ LossIsAnnounced' /\ SetterKnows'
    BY <2>1, <2>2
       DEF LossInv, CallersAreQuiet, LossIsAnnounced, SetterKnows, Alive
  <2>7. BlockIsComing'
    <3> SUFFICES ASSUME ~overlapped, ~raced', upsets' = 0, setter = "idle", enabled,
                        state \in Down
                 PROVE  engaged' \/ \E u \in Threads : note'[u] \in Down
      BY <2>1 DEF BlockIsComing
    <3>1. engaged \/ \E u \in Threads : note[u] \in Down
      BY <2>4, RaceIsSeen DEF LossInv, BlockIsComing
    <3>2. note[t] \in Down
      BY <2>1 DEF LossInv, LossIsAnnounced
    <3>3. CASE Engages(t)
      BY <2>4, <3>3 DEF Engages
    <3>4. ~Releases(t)
      BY <3>2, DownIsNoEnd DEF Releases, LossInv, DeedsFit
    <3>5. ~Ignores(t)
      BY <2>1, <3>2 DEF Ignores, Decision
    <3> QED
      BY <1>2, <3>3, <3>4, <3>5
  <2> QED
    BY <2>4, <2>5, <2>6, <2>7 DEF LossInv
<1> QED
  BY <1>1, <1>2 DEF Handler

\* set_settings turns the feature on before it looks at the state, so that a loss
\* is seen by it or by the handler.
LEMMA SetterBlocks ==
  ASSUME SwitchInv, SwitchNext, LossInv, TurnsOn \/ TurnsOff \/ SetterStep
  PROVE  LossInv'
<1>1. UNCHANGED <<note, deed, state, overlapped, pc>>
  BY DEF TurnsOn, TurnsOff, SetterStep, Looks, SetterEngages, SetterRollsBack,
     SetterReleases, vars, threadVars, managerVars, historyVars
<1>2. upsets' \in Nat /\ (upsets' = 0 => upsets = 0 /\ ~Refused)
  <2>1. upsets \in Nat
    BY DEF LossInv
  <2>2. upsets' = upsets \/ (Refused /\ upsets' = upsets + 1)
    BY DEF TurnsOn, TurnsOff, SetterStep, Looks, SetterEngages, SetterRollsBack,
       SetterReleases, Refused
  <2>3. CASE Refused /\ upsets' = upsets + 1
    BY <2>1, <2>3
  <2>4. CASE upsets' = upsets
    <3>1. upsets + 1 # upsets
      BY <2>1
    <3> QED
      BY <2>1, <2>4, <3>1 DEF Refused
  <2> QED
    BY <2>2, <2>3, <2>4
<1>3. SetterKnows'
  BY DEF TurnsOn, TurnsOff, SetterStep, Looks, SetterEngages, SetterRollsBack,
     SetterReleases, LossInv, SetterKnows
<1>4. BlockIsComing'
  <2> SUFFICES ASSUME upsets' = 0, setter' = "idle", enabled', state' \in Down
               PROVE  engaged'
    BY DEF BlockIsComing
  <2>1. ~TurnsOn /\ ~TurnsOff /\ ~Looks /\ ~SetterRollsBack
    BY <1>1, <1>2 DEF TurnsOn, TurnsOff, Looks, SetterRollsBack
  <2>2. ~SetterReleases
    BY DEF SetterReleases, LossInv, SetterKnows
  <2> QED
    BY <2>1, <2>2 DEF SetterStep, SetterEngages
<1> QED
  BY <1>1, <1>2, <1>3, <1>4
     DEF LossInv, DeedsFit, CallersAreQuiet, LossIsAnnounced, Alive

LEMMA OtherLaunchBlocks == ASSUME LossInv, OtherLaunch PROVE LossInv'
<1>1. UNCHANGED <<note, state, overlapped, pc, deed, enabled, setter>>
  BY DEF OtherLaunch, vars, threadVars, managerVars, historyVars
<1>2. upsets' \in Nat /\ upsets' # 0
  <2>1. upsets \in Nat /\ upsets' = upsets + 1
    BY DEF OtherLaunch, LossInv
  <2> QED
    BY <2>1
<1> QED
  BY <1>1, <1>2
     DEF LossInv, DeedsFit, CallersAreQuiet, LossIsAnnounced, SetterKnows, BlockIsComing,
         Alive

LEMMA LossInvInit == SwitchInit => LossInv
<1> SUFFICES ASSUME SwitchInit PROVE LossInv
  OBVIOUS
<1>1. /\ state = "DISCONNECTED" /\ note = [t \in Threads |-> NoNote]
      /\ deed = [t \in Threads |-> "none"] /\ setter = "idle" /\ upsets = 0
  BY DEF SwitchInit, Init
<1>2. DeedsFit /\ CallersAreQuiet /\ SetterKnows
  BY <1>1, RunIsThread DEF DeedsFit, CallersAreQuiet, SetterKnows
<1>3. LossIsAnnounced /\ BlockIsComing
  BY <1>1, DownIsNoEnd DEF LossIsAnnounced, BlockIsComing
<1> QED
  BY <1>1, <1>2, <1>3 DEF LossInv

LEMMA LossInvStep == IInv /\ SwitchInv /\ LossInv /\ [SwitchNext]_allVars => LossInv'
<1> SUFFICES ASSUME IInv, SwitchInv, LossInv, [SwitchNext]_allVars PROVE LossInv'
  OBVIOUS
<1>1. CASE SwitchNext
  BY <1>1, WorkingBlocks, HandlerBlocks, SetterBlocks, OtherLaunchBlocks DEF SwitchNext
<1>2. CASE UNCHANGED allVars
  BY <1>2
     DEF allVars, vars, threadVars, managerVars, historyVars, switchVars, LossInv,
         DeedsFit, CallersAreQuiet, LossIsAnnounced, SetterKnows, BlockIsComing, Alive
<1> QED
  BY <1>1, <1>2

\* A user with the kill switch on has nothing leave the machine while the tunnel is
\* lost, whichever of the drop, the retries, stop(), start() and the setting came
\* first, unless one of them crossed another (overlapped, raced) or the platform
\* or another launch took the rules away.
THEOREM LossIsBlocked == SwitchSpec => []LostIsBlocked
<1>1. SwitchSpec => []IInv
  BY SwitchImplementsManager, Invariant, PTL
<1>2. SwitchSpec => []SwitchInv
  <2>1. IInv => TypeOK
    BY DEF IInv
  <2> QED
    BY <1>1, <2>1, SwitchInvInit, SwitchInvStep, PTL DEF SwitchSpec
<1>3. LossInv => LostIsBlocked
  BY DownIsNoEnd DEF LossInv, BlockIsComing, LostIsBlocked, Settled
<1> QED
  BY <1>1, <1>2, <1>3, LossInvInit, LossInvStep, PTL DEF SwitchSpec
=============================================================================

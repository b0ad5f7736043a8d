---------------------------- MODULE ServerProofs ----------------------------
(***************************************************************************)
(* Proofs about the server: the lifecycle of ServerManager, for every set  *)
(* of callers and number of commands and faults; the doctors of the server *)
(* and of the client and the server's fixes (Doctor); and the rate limiter *)
(* of the web panel, for every set of requests and addresses and every     *)
(* limit, window and lockout (Panel).                                      *)
(***************************************************************************)
EXTENDS ServerManager, Doctor, Panel, FiniteSetTheorems, TLAPS

-----------------------------------------------------------------------------
(* The inductive invariant.                                                *)

CallSteps == {"idle", "join", "await", "sampler", "unsample", "listener", "unlisten",
              "proc", "term", "wg", "down", "clear", "start"}
Handles == Runs \cup {None}

TypeOK ==
    /\ state \in States /\ stopEvent \in BOOLEAN
    /\ proc \in Handles /\ monitor \in Handles /\ sampler \in Handles /\ listener \in Handles
    /\ step \in [Runs -> StartSteps \cup {"new", "over"}]
    /\ watch \in [Runs -> {"none", "loop", "report", "over"}]
    /\ alive \subseteq Runs /\ sampling \subseteq Runs /\ bound \in Handles
    /\ wgUp \in BOOLEAN
    /\ at \in [Callers -> CallSteps] /\ held \in [Callers -> Handles]
    /\ again \subseteq Callers
    /\ started \in Nat /\ commands \in 0..MaxCommands /\ faults \in 0..MaxFaults
    /\ overlapped \in BOOLEAN /\ retried \in BOOLEAN /\ refused \in BOOLEAN

\* The rest of the invariant speaks of a manager on which one call or one run at a
\* time was at work.

\* At most one actor works.
Exclusive ==
    /\ \A c, d \in Callers : at[c] # "idle" /\ at[d] # "idle" => c = d
    /\ \A r, s \in Runs : Starting(r) /\ Starting(s) => r = s
    /\ \A c \in Callers, r \in Runs : at[c] = "idle" \/ ~Starting(r)

Unwatched == \A r \in Runs : ~Watching(r)
\* No process and nobody who looks at one.
Cold == alive = {} /\ Unwatched
\* No sampler and no listener.
Silent == ~retried => sampling = {} /\ bound = None
\* The samplers and the listener are those the manager has a handle on.
InReach == ~retried => sampling \subseteq {sampler} /\ bound \in {None, listener}
GoneWg == wgUp => refused

\* A monitor that watches is the manager's, and what it saw die is dead.
MonitorsKnown ==
    \A r \in Runs : /\ Watching(r) => r = monitor
                    /\ watch[r] = "report" => alive = {}

\* A manager that runs, outside of a call.
Served ==
    /\ state = "RUNNING" => /\ proc # None /\ monitor = proc /\ Watching(monitor)
                            /\ alive \subseteq {proc} /\ ~stopEvent
    /\ state = "ERROR" => Cold

Ahead == {"wg", "verify", "spawn"}
Spawned == {"announce", "log", "clear", "watch"}

\* What run r finds at each of its steps.
RunOK(r) ==
    /\ step[r] \in Ahead => state = "STARTING" /\ Cold
    /\ step[r] \in Spawned => /\ proc = r /\ alive \subseteq {r} /\ Unwatched
                              /\ state = IF step[r] = "announce" THEN "STARTING" ELSE "RUNNING"
    /\ step[r] = "watch" => ~stopEvent
    /\ step[r] \in Ahead \cup Spawned \cup {"sample"} => Silent
    /\ step[r] = "listen" => (~retried => bound = None)
    /\ step[r] \in {"sample", "listen"} => Served /\ state \in {"RUNNING", "ERROR"}

\* What the call of c finds at each of its steps.
Joined == {"sampler", "unsample", "listener", "unlisten", "proc", "term", "wg", "down",
           "clear", "start"}
CallOK(c) ==
    /\ at[c] \notin {"idle", "start"} => stopEvent
    /\ at[c] = "join" => monitor # None
    /\ at[c] = "await" => held[c] = monitor
    /\ at[c] \in Joined => Unwatched
    /\ at[c] \in Joined \ {"sampler"} => (~retried => sampling = {})
    /\ at[c] \in Joined \ {"sampler", "unsample", "listener"} => Silent
    /\ at[c] = "term" => alive \subseteq {held[c]}
    /\ at[c] \in {"wg", "down", "clear", "start"} => alive = {}
    /\ at[c] \in {"down", "clear", "start"} => GoneWg
    /\ at[c] \in {"clear", "start"} => state = "STOPPED"

\* What a call that starts finds.
RestOK ==
    AtRest => /\ Served
              /\ state \in {"STOPPED", "STARTING"} => Cold /\ Silent
              /\ state = "STOPPED" => GoneWg

Owned ==
    ~overlapped =>
        /\ Exclusive /\ NoStrayProcess /\ MonitorsKnown /\ InReach /\ RestOK
        /\ \A r \in Runs : RunOK(r)
        /\ \A c \in Callers : CallOK(c)

IInv == TypeOK /\ Owned

-----------------------------------------------------------------------------
(* Every step keeps the invariant.                                         *)

LEMMA RunsAreNumbers == None \notin Runs /\ MaxCommands \in Nat /\ MaxFaults \in Nat
  BY ServerAssumption DEF Runs, None

LEMMA InitOwned == Init => IInv
<1> SUFFICES ASSUME Init PROVE IInv
  OBVIOUS
<1>1. TypeOK
  <2>1. commands \in 0..MaxCommands /\ faults \in 0..MaxFaults
    BY RunsAreNumbers DEF Init
  <2>2. at \in [Callers -> CallSteps] /\ held \in [Callers -> Handles]
    BY DEF Init, CallSteps, Handles
  <2> QED
    BY <2>1, <2>2 DEF Init, TypeOK, States, Handles
<1>2. Exclusive /\ NoStrayProcess /\ MonitorsKnown /\ InReach
  BY DEF Init, Exclusive, NoStrayProcess, MonitorsKnown, InReach, Starting, StartSteps, Watching
<1>3. RestOK
  BY DEF Init, RestOK, Served, Cold, Unwatched, Watching, Silent, GoneWg
<1>4. (\A r \in Runs : RunOK(r)) /\ \A c \in Callers : CallOK(c)
  BY DEF Init, RunOK, CallOK, Ahead, Spawned, Joined
<1> QED
  BY <1>1, <1>2, <1>3, <1>4 DEF IInv, Owned

LEMMA RunKeepsTypes ==
  ASSUME TypeOK, NEW r \in Runs, DoStart(r) \/ Fails(r)
  PROVE  TypeOK'
<1> USE RunsAreNumbers DEF TypeOK, Handles, States, StartSteps, CallSteps, Goes, RunOnly,
        manager, machine, threads, history, bounds
<1>1. CASE InstallsWg(r)
  <2>1. step' \in [Runs -> StartSteps \cup {"new", "over"}]
    BY <1>1 DEF InstallsWg
  <2>2. CASE wgUp' = TRUE /\ UNCHANGED faults
    BY <1>1, <2>1, <2>2 DEF InstallsWg
  <2>3. CASE wgUp' = wgUp /\ faults < MaxFaults /\ faults' = faults + 1
    <3>1. faults' \in 0..MaxFaults
      BY <2>3
    <3> QED
      BY <1>1, <2>1, <2>3, <3>1 DEF InstallsWg
  <2> QED
    BY <1>1, <2>2, <2>3 DEF InstallsWg
<1>2. CASE Verifies(r)
  BY <1>2 DEF Verifies
<1>3. CASE FindsNoWg(r)
  BY <1>3 DEF FindsNoWg
<1>4. CASE Spawns(r)
  BY <1>4 DEF Spawns
<1>5. CASE Announces(r)
  BY <1>5 DEF Announces
<1>6. CASE Logs(r)
  BY <1>6 DEF Logs
<1>7. CASE Clears(r)
  <2>1. stopEvent' \in BOOLEAN /\ step' \in [Runs -> StartSteps \cup {"new", "over"}]
    BY <1>7 DEF Clears
  <2> QED
    BY <1>7, <2>1 DEF Clears
<1>8. CASE Watches(r)
  BY <1>8 DEF Watches
<1>9. CASE Samples(r)
  BY <1>9 DEF Samples
<1>10. CASE Listens(r)
  BY <1>10 DEF Listens
<1>11. CASE Fails(r)
  BY <1>11 DEF Fails
<1> QED
  BY <1>1, <1>2, <1>3, <1>4, <1>5, <1>6, <1>7, <1>8, <1>9, <1>10, <1>11 DEF DoStart

LEMMA RunKeepsOwnership ==
  ASSUME TypeOK, Owned, NEW r \in Runs, DoStart(r) \/ Fails(r)
  PROVE  Owned'
<1> USE RunsAreNumbers DEF TypeOK, Handles, States, CallSteps, Owned, Exclusive, NoStrayProcess,
        MonitorsKnown, InReach, RestOK, AtRest, RunOK, CallOK, Served, Cold, Unwatched,
        Silent, GoneWg, Starting, Watching, StartSteps, Ahead, Spawned, Joined, Goes, RunOnly,
        manager, machine, threads, history, bounds
<1>1. CASE InstallsWg(r)
  BY <1>1 DEF InstallsWg
<1>2. CASE Verifies(r)
  BY <1>2 DEF Verifies
<1>3. CASE FindsNoWg(r)
  BY <1>3 DEF FindsNoWg
<1>4. CASE Spawns(r)
  BY <1>4 DEF Spawns
<1>5. CASE Announces(r)
  BY <1>5 DEF Announces
<1>6. CASE Logs(r)
  BY <1>6 DEF Logs
<1>7. CASE Clears(r)
  BY <1>7 DEF Clears
<1>8. CASE Watches(r)
  BY <1>8 DEF Watches
<1>9. CASE Samples(r)
  BY <1>9 DEF Samples
<1>10. CASE Listens(r)
  BY <1>10 DEF Listens
<1>11. CASE Fails(r)
  BY <1>11 DEF Fails
<1> QED
  BY <1>1, <1>2, <1>3, <1>4, <1>5, <1>6, <1>7, <1>8, <1>9, <1>10, <1>11 DEF DoStart

LEMMA MonitorKeepsTypes ==
  ASSUME TypeOK, NEW r \in Runs, Monitor(r)
  PROVE  TypeOK'
<1> USE RunsAreNumbers DEF TypeOK, Handles, States, StartSteps, CallSteps, MonitorOnly,
        manager, machine, threads, history, bounds
<1>1. CASE MonitorEnds(r)
  BY <1>1 DEF MonitorEnds
<1>2. CASE MonitorSeesDeath(r)
  BY <1>2 DEF MonitorSeesDeath
<1>3. CASE MonitorReports(r)
  BY <1>3 DEF MonitorReports
<1> QED
  BY <1>1, <1>2, <1>3 DEF Monitor

LEMMA MonitorKeepsOwnership ==
  ASSUME TypeOK, Owned, NEW r \in Runs, Monitor(r)
  PROVE  Owned'
<1> USE RunsAreNumbers DEF TypeOK, Handles, States, CallSteps, Owned, Exclusive, NoStrayProcess,
        MonitorsKnown, InReach, RestOK, AtRest, RunOK, CallOK, Served, Cold, Unwatched,
        Silent, GoneWg, Starting, Watching, StartSteps, Ahead, Spawned, Joined, MonitorOnly,
        manager, machine, threads, history, bounds
<1>1. CASE MonitorEnds(r)
  BY <1>1 DEF MonitorEnds
<1>2. CASE MonitorSeesDeath(r)
  BY <1>2 DEF MonitorSeesDeath
<1>3. CASE MonitorReports(r)
  BY <1>3 DEF MonitorReports
<1> QED
  BY <1>1, <1>2, <1>3 DEF Monitor

LEMMA CallKeepsTypes ==
  ASSUME TypeOK, NEW c \in Callers, CallerStep(c) /\ ~Restarts(c)
  PROVE  TypeOK'
<1> USE RunsAreNumbers DEF TypeOK, Handles, States, StartSteps, CallSteps, Moves, CallOnly,
        manager, machine, threads, history, bounds
<1>1. CASE Joins(c)
  BY <1>1 DEF Joins
<1>2. CASE Awaits(c)
  BY <1>2 DEF Awaits
<1>3. CASE StopsSampler(c)
  BY <1>3 DEF StopsSampler
<1>4. CASE ForgetsSampler(c)
  BY <1>4 DEF ForgetsSampler
<1>5. CASE StopsListener(c)
  BY <1>5 DEF StopsListener
<1>6. CASE ForgetsListener(c)
  BY <1>6 DEF ForgetsListener
<1>7. CASE TakesProc(c)
  BY <1>7 DEF TakesProc
<1>8. CASE Terminates(c)
  BY <1>8 DEF Terminates
<1>9. CASE UninstallsWg(c)
  BY <1>9, ZenonT(60) DEF UninstallsWg
<1>10. CASE UninstallFails(c)
  BY <1>10 DEF UninstallFails
<1>11. CASE GoesDown(c)
  BY <1>11 DEF GoesDown
<1>12. CASE RestartClears(c)
  <2>1. stopEvent' \in BOOLEAN /\ at' \in [Callers -> CallSteps]
    BY <1>12 DEF RestartClears
  <2> QED
    BY <1>12, <2>1 DEF RestartClears
<1> QED
  BY <1>1, <1>2, <1>3, <1>4, <1>5, <1>6, <1>7, <1>8, <1>9, <1>10, <1>11, <1>12 DEF CallerStep

LEMMA CallKeepsOwnership ==
  ASSUME TypeOK, Owned, NEW c \in Callers, CallerStep(c) /\ ~Restarts(c)
  PROVE  Owned'
<1> USE RunsAreNumbers DEF TypeOK, Handles, States, CallSteps, Owned, Exclusive, NoStrayProcess,
        MonitorsKnown, InReach, RestOK, AtRest, RunOK, CallOK, Served, Cold, Unwatched,
        Silent, GoneWg, Starting, Watching, StartSteps, Ahead, Spawned, Joined, Moves, CallOnly,
        manager, machine, threads, history, bounds
<1>1. CASE Joins(c)
  BY <1>1 DEF Joins
<1>2. CASE Awaits(c)
  BY <1>2 DEF Awaits
<1>3. CASE StopsSampler(c)
  BY <1>3 DEF StopsSampler
<1>4. CASE ForgetsSampler(c)
  BY <1>4 DEF ForgetsSampler
<1>5. CASE StopsListener(c)
  BY <1>5 DEF StopsListener
<1>6. CASE ForgetsListener(c)
  BY <1>6 DEF ForgetsListener
<1>7. CASE TakesProc(c)
  BY <1>7 DEF TakesProc
<1>8. CASE Terminates(c)
  BY <1>8 DEF Terminates
<1>9. CASE UninstallsWg(c)
  BY <1>9 DEF UninstallsWg
<1>10. CASE UninstallFails(c)
  BY <1>10 DEF UninstallFails
<1>11. CASE GoesDown(c)
  BY <1>11 DEF GoesDown
<1>12. CASE RestartClears(c)
  BY <1>12 DEF RestartClears
<1> QED
  BY <1>1, <1>2, <1>3, <1>4, <1>5, <1>6, <1>7, <1>8, <1>9, <1>10, <1>11, <1>12 DEF CallerStep

\* A start, from start() or at the end of restart(): the lock admits one run, from a
\* manager at rest.
LEMMA StartKeepsTypes ==
  ASSUME TypeOK, NEW c \in Callers, StartsRun(c), commands' \in 0..MaxCommands
  PROVE  TypeOK'
<1> USE DEF TypeOK, StartsRun, manager, machine, threads, history, bounds
<1>1. /\ at' \in [Callers -> CallSteps]
      /\ overlapped' \in BOOLEAN
  BY DEF CallSteps, Crosses
<1>2. CASE state \in {"STARTING", "RUNNING"}
  BY <1>1, <1>2
<1>3. CASE state \notin {"STARTING", "RUNNING"}
  <2>1. state' \in States /\ started' \in Nat /\ retried' \in BOOLEAN
    BY <1>3 DEF States
  <2>2. step' \in [Runs -> StartSteps \cup {"new", "over"}]
    BY <1>3 DEF StartSteps
  <2> QED
    BY <1>1, <1>3, <2>1, <2>2
<1> QED
  BY <1>2, <1>3

LEMMA StartKeepsOwnership ==
  ASSUME TypeOK, Owned, NEW c \in Callers, StartsRun(c), at[c] \in {"idle", "start"}
  PROVE  Owned'
<1> SUFFICES ASSUME ~overlapped, ~Crosses(c)
             PROVE  Owned'
  BY DEF StartsRun, Owned, TypeOK
<1> USE DEF StartsRun, manager, machine
<1>1. /\ \A d \in Callers : at'[d] = "idle"
      /\ \A r \in Runs : ~Starting(r)
      /\ \A d \in Callers : at[d] # "idle" => d = c
  BY DEF Crosses, TypeOK, Starting
<1>2. MonitorsKnown /\ InReach /\ NoStrayProcess /\ CallOK(c)
  BY DEF Owned
<1>3. alive \subseteq {proc}
  BY <1>1, <1>2 DEF NoStrayProcess
<1>4. CASE state \in {"STARTING", "RUNNING"}
  <2>1. at' = at /\ at[c] = "idle"
    BY <1>2, <1>4 DEF CallOK, TypeOK
  <2> QED
    BY <1>4, <2>1 DEF Owned, Exclusive, NoStrayProcess, MonitorsKnown, InReach, RestOK, AtRest,
       RunOK, CallOK, Served, Cold, Unwatched, Silent, GoneWg, Starting, Watching
<1>5. CASE state \notin {"STARTING", "RUNNING"}
  <2>1. Cold /\ (state = "STOPPED" => Silent)
    <3>1. CASE at[c] = "idle"
      BY <1>1, <1>5, <3>1 DEF Owned, RestOK, AtRest, Served, TypeOK, States
    <3>2. CASE at[c] = "start"
      BY <1>2, <3>2 DEF CallOK, Joined, Cold
    <3> QED
      BY <3>1, <3>2
  <2>2. /\ state' = "STARTING" /\ Cold' /\ Silent'
        /\ \A r \in Runs : step'[r] # step[r] => r = started + 1 /\ step'[r] = "wg"
    BY <1>5, <2>1 DEF Cold, Unwatched, Watching, Silent, TypeOK, States
  <2>3. \A r \in Runs : step'[r] \in StartSteps => step'[r] = "wg" /\ r = started + 1
    BY <1>1, <2>2 DEF Starting
  <2>4. Exclusive' /\ NoStrayProcess' /\ MonitorsKnown' /\ InReach'
    BY <1>1, <1>2, <2>2, <2>3 DEF Exclusive, Starting, NoStrayProcess, MonitorsKnown, Cold,
       Unwatched, Watching, InReach, Silent
  <2>5. RestOK' /\ \A d \in Callers : CallOK(d)'
    BY <1>1, <2>2 DEF RestOK, AtRest, Served, CallOK, Joined
  <2>6. ASSUME NEW r \in Runs PROVE RunOK(r)'
    BY <2>2, <2>3 DEF RunOK, Ahead, Spawned, StartSteps
  <2> QED
    BY <2>4, <2>5, <2>6 DEF Owned
<1> QED
  BY <1>4, <1>5

LEMMA StopKeeps ==
  ASSUME IInv, NEW c \in Callers, NEW restarts \in BOOLEAN, Stop(c, restarts)
  PROVE  IInv'
<1> USE RunsAreNumbers DEF IInv, Stop, Moves
<1>1. TypeOK'
  <2>1. overlapped' \in BOOLEAN
    BY DEF Crosses, TypeOK
  <2>2. commands' \in 0..MaxCommands /\ again' \subseteq Callers
    BY DEF TypeOK
  <2>3. at' \in [Callers -> CallSteps]
    BY DEF TypeOK, CallSteps
  <2> QED
    BY <2>1, <2>2, <2>3 DEF TypeOK, machine
<1>2. ASSUME ~overlapped, ~Crosses(c)
      PROVE  Owned'
  <2>1. /\ \A d \in Callers : at'[d] # "idle" => d = c
        /\ at'[c] \in {"join", "sampler"} /\ (at'[c] = "join" <=> monitor # None)
        /\ \A r \in Runs : ~Starting(r)
        /\ AtRest
    BY <1>2 DEF Crosses, TypeOK, AtRest
  <2>2. RestOK /\ MonitorsKnown /\ InReach /\ NoStrayProcess
    BY <1>2 DEF Owned
  <2>3. Exclusive' /\ NoStrayProcess' /\ MonitorsKnown' /\ InReach' /\ RestOK'
    BY <2>1, <2>2 DEF Exclusive, Starting, NoStrayProcess, AtRest, MonitorsKnown, Watching,
       InReach, RestOK, machine
  <2>4. ASSUME NEW d \in Callers PROVE CallOK(d)'
    BY <2>1, <2>2 DEF CallOK, Joined, MonitorsKnown, Unwatched, Watching
  <2>5. ASSUME NEW r \in Runs PROVE RunOK(r)'
    BY <2>1 DEF RunOK, Starting, StartSteps, Ahead, Spawned
  <2> QED
    BY <2>3, <2>4, <2>5 DEF Owned
<1> QED
  BY <1>1, <1>2 DEF Owned, TypeOK

-----------------------------------------------------------------------------
(* The theorems.                                                           *)

LEMMA NextKeeps == IInv /\ [Next]_vars => IInv'
<1> SUFFICES ASSUME IInv, [Next]_vars PROVE IInv'
  OBVIOUS
<1>1. ASSUME NEW r \in Runs, DoStart(r) \/ Fails(r) PROVE IInv'
  BY <1>1, RunKeepsTypes, RunKeepsOwnership DEF IInv
<1>2. ASSUME NEW r \in Runs, Monitor(r) PROVE IInv'
  BY <1>2, MonitorKeepsTypes, MonitorKeepsOwnership DEF IInv
<1>3. ASSUME NEW c \in Callers, Start(c) PROVE IInv'
  <2>1. commands' \in 0..MaxCommands
    BY <1>3, RunsAreNumbers DEF IInv, TypeOK, Start
  <2> QED
    BY <1>3, <2>1, StartKeepsTypes, StartKeepsOwnership DEF IInv, Start
<1>4. ASSUME NEW c \in Callers, NEW restarts \in BOOLEAN, Stop(c, restarts) PROVE IInv'
  BY <1>4, StopKeeps
<1>5. ASSUME NEW c \in Callers, Restarts(c) PROVE IInv'
  <2>1. commands' \in 0..MaxCommands
    BY <1>5 DEF IInv, TypeOK, Restarts
  <2> QED
    BY <1>5, <2>1, StartKeepsTypes, StartKeepsOwnership DEF IInv, Restarts
<1>6. ASSUME NEW c \in Callers, CallerStep(c), ~Restarts(c) PROVE IInv'
  BY <1>6, CallKeepsTypes, CallKeepsOwnership DEF IInv
<1>7. CASE ProcDies
  <2> USE <1>7 DEF ProcDies, IInv, manager, threads, history
  <2>1. TypeOK'
    BY RunsAreNumbers DEF TypeOK
  <2>2. alive' \subseteq alive
    OBVIOUS
  <2>3. Owned'
    BY <2>2 DEF Owned, Exclusive, NoStrayProcess, MonitorsKnown, InReach, RestOK, AtRest, RunOK,
       CallOK, Served, Cold, Unwatched, Silent, GoneWg, Starting, Watching
  <2> QED
    BY <2>1, <2>3
<1>8. CASE UNCHANGED vars
  BY <1>8 DEF IInv, TypeOK, Owned, Exclusive, NoStrayProcess, MonitorsKnown, InReach, RestOK,
     AtRest, RunOK, CallOK, Served, Cold, Unwatched, Silent, GoneWg, Starting, Watching,
     vars, manager, machine, threads, history, bounds
<1> QED
  BY <1>1, <1>2, <1>3, <1>4, <1>5, <1>6, <1>7, <1>8 DEF Next, Command

\* The invariant holds in every state of every behaviour, whichever threads call the manager.
THEOREM Invariant == Spec => []IInv
  BY InitOwned, NextKeeps, PTL DEF Spec

\* The state stays what ServerManager's fields, threads and processes can be.
THEOREM TypeCorrect == Spec => []TypeOK
  BY Invariant, PTL DEF IInv

\* A manager that was never called by two threads at once, nor during a start, has a handle
\* on every wstunnel process, or the stop() that took the handle is about to end it.
THEOREM ProcessesAreKnown == Spec => []NoStrayProcess
<1>1. IInv => NoStrayProcess
  BY DEF IInv, Owned, NoStrayProcess
<1> QED
  BY <1>1, Invariant, PTL

\* Such a manager reports STOPPED only when the process, its monitor and, but for a refusal
\* of the platform, the interface are gone, and the sampler and the listener too, unless
\* start() was retried from ERROR.
THEOREM StoppedServerIsDown == Spec => []StoppedIsDown
<1>1. IInv => StoppedIsDown
  BY DEF IInv, Owned, RestOK, Cold, Unwatched, Silent, GoneWg, StoppedIsDown
<1> QED
  BY <1>1, Invariant, PTL

\* And RUNNING only when its monitor looks at the process that it can end.
THEOREM RunningServerIsWatched == Spec => []RunningIsWatched
<1>1. IInv => RunningIsWatched
  BY DEF IInv, Owned, RestOK, Served, RunningIsWatched
<1> QED
  BY <1>1, Invariant, PTL

-----------------------------------------------------------------------------
(* What the doctors look at *)

Fields(h) == CASE h = "linux" -> DOMAIN HealthyLinux [] h = "windows" -> DOMAIN HealthyWindows
               [] h = "client" -> DOMAIN HealthyClient
SystemOK(h, m) ==
    m = [f \in Fields(h) |-> m[f]] /\ \A f \in Fields(h) : m[f] \in FieldValues(f)
DoctorInv ==
    /\ host \in {"linux", "windows", "client"} /\ SystemOK(host, system)
    /\ fixed # NoFix => host = "linux"
    /\ FixCures

\* Some check tells that the machine does not work.
Tells(r) == \E c \in DOMAIN r : r[c] = "fail" \/ (c \in Telling /\ r[c] = "warn")

LEMMA LinuxHidesNothing ==
    ASSUME NEW m, m.foreign \in FieldValues("foreign"), ~LinuxWorks(m), ~LinuxUnseen(m)
    PROVE  Tells(LinuxReport(m))
<1> DEFINE r == LinuxReport(m)
<1>1. /\ r.linux_systemd = Verdict(InactiveUnits(m) = {})
      /\ r.linux_ip_forward = LinuxIpForward(m)
      /\ r.linux_nat_masquerade = NatMasquerade(m)
      /\ r.egress = Egress(m)
      /\ r.caddy = CaddyFront(m)
      /\ r.public_cert = PublicCertificate(m)
      /\ r.linux_listen_443 = Verdict(PublicPortHeld(m))
      /\ r.linux_listen_internal_ws = ListenInternalWs(m)
      /\ r.linux_listen_wg = ListenWg(m)
  BY DEF LinuxReport
<1>2. {"linux_systemd", "linux_ip_forward", "linux_nat_masquerade", "egress", "caddy",
       "public_cert", "linux_listen_443", "linux_listen_internal_ws", "linux_listen_wg"}
        \subseteq DOMAIN r
  BY DEF LinuxReport
<1> HIDE DEF r
<1>3. CASE ~m.ws \/ ~m.wg
  <2>1. "ws" \in InactiveUnits(m) \/ "wg" \in InactiveUnits(m)
    BY <1>3 DEF InactiveUnits
  <2>2. r.linux_systemd = "fail"
    BY <1>1, <2>1 DEF Verdict
  <2>3. QED
    BY <1>2, <2>2 DEF r, Tells
<1>4. CASE ~m.forward \/ ~m.nat \/ ~m.egress
  <2>1. \/ r.linux_ip_forward = "fail" \/ r.linux_nat_masquerade = "fail"
        \/ r.egress = "fail"
    BY <1>1, <1>4 DEF LinuxIpForward, NatMasquerade, Egress, Verdict
  <2>2. QED
    BY <1>2, <2>1 DEF r, Tells
<1>5. CASE m.udp = "none"
  <2>1. r.linux_listen_wg = "warn"
    BY <1>1, <1>5 DEF ListenWg
  <2>2. QED
    BY <1>2, <2>1 DEF r, Tells, Telling
<1>6. CASE m.proxied /\ ~m.site
  <2>1. r.caddy = "fail"
    BY <1>1, <1>6 DEF CaddyFront, Verdict
  <2>2. QED
    BY <1>2, <2>1 DEF r, Tells
<1>7. CASE m.proxied /\ ~OnPort(m)
  <2>1. r.linux_listen_internal_ws = "fail"
    BY <1>1, <1>7 DEF ListenInternalWs
  <2>2. QED
    BY <1>2, <2>1 DEF r, Tells
\* A front that is down, or its port in other hands, or its chain not trusted.
<1>8. CASE m.proxied /\ (~m.caddy \/ m.reach = "untrusted")
  <2>1. \/ r.linux_listen_443 = "fail" \/ r.public_cert \in {"fail", "warn"}
    <3>1. CASE m.foreign = "none"
      <4>1. CASE ~m.caddy
        BY <1>1, <1>8, <3>1, <4>1 DEF PublicPortHeld, Verdict
      <4>2. CASE m.caddy
        <5>1. PublicCertificate(m) = "fail"
          BY <1>8, <3>1, <4>2 DEF PublicCertificate, Verdict
        <5>2. QED
          BY <1>1, <5>1
      <4>3. QED
        BY <4>1, <4>2
    <3>2. CASE m.foreign \in {"plain", "tls"}
      <4>1. PublicCertificate(m) \in {"fail", "warn"}
        BY <1>8, <3>2 DEF PublicCertificate
      <4>2. QED
        BY <1>1, <4>1
    <3>3. QED
      BY <3>1, <3>2 DEF FieldValues
  <2>2. QED
    BY <1>2, <2>1 DEF r, Tells, Telling
<1>9. CASE ~m.proxied /\ m.ws /\ ~OnPort(m)
  <2>1. m.foreign = "none"
    BY <1>9 DEF OnPort, LinuxUnseen
  <2>2. r.linux_listen_443 = "fail"
    BY <1>1, <1>9, <2>1 DEF PublicPortHeld, Verdict
  <2>3. QED
    BY <1>2, <2>2 DEF r, Tells
<1>10. \/ ~m.ws \/ ~m.wg \/ ~m.forward \/ ~m.nat \/ ~m.egress \/ m.udp = "none"
       \/ (m.proxied /\ ~m.site) \/ (m.proxied /\ ~OnPort(m))
       \/ (m.proxied /\ (~m.caddy \/ m.reach = "untrusted"))
       \/ (~m.proxied /\ ~OnPort(m))
  BY Zenon DEF LinuxWorks, LinuxServes, LinuxUnseen
<1>11. QED
  BY Zenon, <1>3, <1>4, <1>5, <1>6, <1>7, <1>8, <1>9, <1>10

LEMMA WindowsHidesNothing ==
    ASSUME NEW m, m.rule \in FieldValues("rule"), m.ours \in FieldValues("ours"),
           ~WindowsWorks(m), ~WindowsUnseen(m)
    PROVE  Tells(WindowsReport(m))
<1> DEFINE r == WindowsReport(m)
<1>1. /\ r.wstunnel_proc = WinWstunnel(m) /\ r.wg_svc = WinWgService(m)
      /\ r.listen = WinListeningPort(m)
      /\ r.ip_forwarding = WinIpForwarding(m) /\ r.iface_forwarding = IfaceForwarding(m)
      /\ r.egress = Egress(m) /\ r.netnat = WinNetNat(m) /\ r.winnat_svc = WinNatService(m)
      /\ r.firewall = WinFirewall(m)
  BY DEF WindowsReport
<1>2. {"wstunnel_proc", "listen", "wg_svc", "ip_forwarding", "iface_forwarding", "egress",
       "netnat", "winnat_svc", "firewall"} \subseteq DOMAIN r
  BY DEF WindowsReport
<1> HIDE DEF r
\* Only a client's wstunnel.exe and another listener together look like a server.
<1>3. CASE ~m.ws
  <2>1. ~m.clientWs \/ ~m.otherHolds
    BY DEF WindowsUnseen
  <2>2. r.wstunnel_proc = "fail" \/ r.listen = "fail"
    BY <1>1, <1>3, <2>1 DEF WinWstunnel, WinListeningPort, Verdict
  <2>3. QED
    BY <1>2, <2>2 DEF r, Tells
<1>4. CASE ~m.wg \/ ~m.router \/ m.iface # "forwarding" \/ ~m.egress
  <2>1. \/ r.wg_svc = "fail" \/ r.ip_forwarding = "fail"
        \/ r.iface_forwarding = "fail" \/ r.egress = "fail"
    BY <1>1, <1>4 DEF WinWgService, WinIpForwarding, IfaceForwarding, Egress, Verdict
  <2>2. QED
    BY <1>2, <2>1 DEF r, Tells
<1>5. CASE ~m.provider \/ m.ours # "active" \/ m.otherNat
  <2>1. m.ours \in {"none", "inactive", "active"}
    BY DEF FieldValues
  <2>2. r.netnat \in {"fail", "warn"}
    BY <1>1, <1>5, <2>1 DEF WinNetNat, OrWarn
  <2>3. QED
    BY <1>2, <2>2 DEF r, Tells, Telling
<1>6. CASE m.winnat # "RUNNING"
  <2>1. r.winnat_svc \in {"fail", "warn"}
    BY <1>1, <1>6 DEF WinNatService
  <2>2. QED
    BY <1>2, <2>1 DEF r, Tells, Telling
<1>7. CASE m.rule \notin {"enabled", "netsh"}
  <2>1. m.rule \in {"disabled", "none"}
    BY <1>7 DEF FieldValues, WindowsUnseen
  <2>2. r.firewall \in {"fail", "warn"}
    BY <1>1, <2>1 DEF WinFirewall
  <2>3. QED
    BY <1>2, <2>2 DEF r, Tells, Telling
<1>8. QED
  BY <1>3, <1>4, <1>5, <1>6, <1>7 DEF WindowsWorks

LEMMA ClientHidesNothing ==
    ASSUME NEW m, ~ClientWorks(m)
    PROVE  Tells(ClientReport(m))
<1> DEFINE r == ClientReport(m)
<1>1. /\ r.config = ConfigPresent(m) /\ r.wstunnel = WstunnelBinary(m)
      /\ r.wg_tools = WireguardTools(m) /\ r.helper = HelperInstalled(m)
      /\ r.sudoers = Sudoers(m) /\ r.kmod = WgKernelModule(m)
  BY DEF ClientReport
<1>2. {"config", "wstunnel", "wg_tools", "helper", "sudoers", "kmod"} \subseteq DOMAIN r
  BY DEF ClientReport
<1> HIDE DEF r
<1>3. \/ r.config = "fail" \/ r.wstunnel \in {"fail", "warn"} \/ r.wg_tools = "fail"
      \/ r.helper = "fail" \/ r.sudoers = "fail" \/ r.kmod = "fail"
  BY <1>1 DEF ClientWorks, ConfigPresent, WstunnelBinary, WireguardTools, HelperInstalled,
     Sudoers, WgKernelModule, Verdict, OrWarn
<1>4. QED
  BY <1>2, <1>3 DEF r, Tells, Telling

LEMMA SystemsHideNothing ==
    ASSUME DoctorInv PROVE NothingIsHidden
<1>1. SUFFICES ASSUME ~Works(system), ~Unseen(system) PROVE Tells(Report(system))
  BY DEF NothingIsHidden, Tells
<1>2. CASE host = "linux"
  <2>1. "foreign" \in Fields(host)
    BY <1>2 DEF Fields, HealthyLinux
  <2>2. system.foreign \in FieldValues("foreign")
    BY <2>1 DEF DoctorInv, SystemOK
  <2>3. QED
    BY <1>1, <1>2, <2>2, LinuxHidesNothing DEF Works, Unseen, Report
<1>3. CASE host = "windows"
  <2>1. "rule" \in Fields(host) /\ "ours" \in Fields(host)
    BY <1>3 DEF Fields, HealthyWindows
  <2>2. system.rule \in FieldValues("rule") /\ system.ours \in FieldValues("ours")
    BY <2>1 DEF DoctorInv, SystemOK
  <2>3. QED
    BY <1>1, <1>3, <2>2, WindowsHidesNothing DEF Works, Unseen, Report
<1>4. CASE host = "client"
  BY <1>1, <1>4, ClientHidesNothing DEF Works, Report
<1>5. QED
  BY <1>2, <1>3, <1>4 DEF DoctorInv

LEMMA StartEffects ==
    ASSUME NEW m, SystemOK("linux", m)
    PROVE  \A r \in {StartWs(m), RestartedWs(m)} :
              /\ r = [f \in Fields("linux") |-> r[f]]
              /\ r.ws = CanServe(m) \/ r.ws = (m.ws \/ CanServe(m))
              /\ \A f \in Fields("linux") : f # "ws" => r[f] = m[f]
<1>1. {"ws"} \subseteq Fields("linux")
  BY DEF Fields, HealthyLinux
<1>2. DOMAIN m = Fields("linux")
  BY DEF SystemOK
<1> HIDE DEF Fields
<1>3. QED
  BY <1>1, <1>2 DEF StartWs, RestartedWs

LEMMA CaddyEffects ==
    ASSUME NEW m, SystemOK("linux", m)
    PROVE  LET r == StartCaddy(m) IN
              /\ r = [f \in Fields("linux") |-> r[f]]
              /\ r.caddy = (m.caddy \/ CanFront(m))
              /\ \A f \in Fields("linux") : f # "caddy" => r[f] = m[f]
<1>1. {"caddy"} \subseteq Fields("linux")
  BY DEF Fields, HealthyLinux
<1>2. DOMAIN m = Fields("linux")
  BY DEF SystemOK
<1> HIDE DEF Fields
<1>3. QED
  BY <1>1, <1>2 DEF StartCaddy

LEMMA DownEffects ==
    ASSUME NEW m, SystemOK("linux", m)
    PROVE  LET r == WgDown(m) IN
              /\ r = [f \in Fields("linux") |-> r[f]]
              /\ r.wg = FALSE /\ r.nat = FALSE /\ r.chains = FALSE
              /\ \A f \in Fields("linux") : f \notin {"wg", "nat", "chains"} => r[f] = m[f]
<1>1. {"wg", "nat", "chains"} \subseteq Fields("linux")
  BY DEF Fields, HealthyLinux
<1>2. DOMAIN m = Fields("linux")
  BY DEF SystemOK
<1> HIDE DEF Fields
<1>3. QED
  BY <1>1, <1>2 DEF WgDown

LEMMA UpEffects ==
    ASSUME NEW m, SystemOK("linux", m)
    PROVE  LET r == WgUp(m) IN
              /\ r = [f \in Fields("linux") |-> r[f]]
              /\ r.wg = TRUE /\ r.nat = TRUE /\ r.chains = TRUE /\ r.forward = TRUE
              /\ \A f \in Fields("linux") :
                    f \notin {"wg", "nat", "chains", "forward"} => r[f] = m[f]
<1>1. {"wg", "nat", "chains", "forward"} \subseteq Fields("linux")
  BY DEF Fields, HealthyLinux
<1>2. DOMAIN m = Fields("linux")
  BY DEF SystemOK
<1> HIDE DEF Fields
<1>3. QED
  BY <1>1, <1>2 DEF WgUp

LEMMA StartedIsSystem ==
    ASSUME NEW m, SystemOK("linux", m)
    PROVE  /\ SystemOK("linux", StartWs(m)) /\ SystemOK("linux", RestartedWs(m))
           /\ SystemOK("linux", StartCaddy(m))
           /\ SystemOK("linux", WgDown(m)) /\ SystemOK("linux", WgUp(m))
           /\ SystemOK("linux", IpForwardFix(m).system)
<1>1. \A f \in {"ws", "loopback", "caddy", "wg", "nat", "chains", "forward", "persisted"} :
        f \in Fields("linux") /\ FieldValues(f) = BOOLEAN
  BY DEF FieldValues, Fields, HealthyLinux
<1>2. \A f \in Fields("linux") : m[f] \in FieldValues(f)
  BY DEF SystemOK
<1>3. ASSUME NEW r, r = [f \in Fields("linux") |-> r[f]],
             \A f \in Fields("linux") : r[f] = m[f] \/ (FieldValues(f) = BOOLEAN /\ r[f] \in BOOLEAN)
      PROVE  SystemOK("linux", r)
  BY <1>2, <1>3 DEF SystemOK
<1> HIDE DEF Fields, FieldValues
<1>4. SystemOK("linux", StartWs(m)) /\ SystemOK("linux", RestartedWs(m))
  <2>1. SUFFICES ASSUME NEW r \in {StartWs(m), RestartedWs(m)} PROVE SystemOK("linux", r)
    OBVIOUS
  <2>2. /\ r = [f \in Fields("linux") |-> r[f]]
        /\ r.ws = CanServe(m) \/ r.ws = (m.ws \/ CanServe(m))
        /\ \A f \in Fields("linux") : f # "ws" => r[f] = m[f]
    BY StartEffects
  <2>3. CanServe(m) \in BOOLEAN /\ (m.ws \/ CanServe(m)) \in BOOLEAN
    BY DEF CanServe
  <2>4. r.ws \in BOOLEAN
    BY <2>2, <2>3
  <2>5. \A f \in Fields("linux") : r[f] = m[f] \/ (FieldValues(f) = BOOLEAN /\ r[f] \in BOOLEAN)
    BY <1>1, <2>2, <2>4
  <2>6. QED
    BY <1>3, <2>2, <2>5
<1>5. SystemOK("linux", StartCaddy(m))
  <2> DEFINE r == StartCaddy(m)
             runs == m.caddy \/ CanFront(m)
  <2>1. /\ r = [f \in Fields("linux") |-> r[f]]
        /\ r.caddy = runs
        /\ \A f \in Fields("linux") : f # "caddy" => r[f] = m[f]
    BY CaddyEffects
  <2>2. runs \in BOOLEAN
    OBVIOUS
  <2> HIDE DEF r, runs
  <2>3. \A f \in Fields("linux") : r[f] = m[f] \/ (FieldValues(f) = BOOLEAN /\ r[f] \in BOOLEAN)
    BY <1>1, <2>1, <2>2
  <2>4. QED
    BY <1>3, <2>1, <2>3 DEF r
<1>6. SystemOK("linux", WgDown(m))
  <2> DEFINE r == WgDown(m)
  <2>1. /\ r = [f \in Fields("linux") |-> r[f]]
        /\ r.wg = FALSE /\ r.nat = FALSE /\ r.chains = FALSE
        /\ \A f \in Fields("linux") : f \notin {"wg", "nat", "chains"} => r[f] = m[f]
    BY DownEffects
  <2> HIDE DEF r
  <2>2. \A f \in Fields("linux") : r[f] = m[f] \/ (FieldValues(f) = BOOLEAN /\ r[f] \in BOOLEAN)
    BY <1>1, <2>1
  <2>3. QED
    BY <1>3, <2>1, <2>2 DEF r
<1>7. SystemOK("linux", WgUp(m))
  <2> DEFINE r == WgUp(m)
  <2>1. /\ r = [f \in Fields("linux") |-> r[f]]
        /\ r.wg = TRUE /\ r.nat = TRUE /\ r.chains = TRUE /\ r.forward = TRUE
        /\ \A f \in Fields("linux") : f \notin {"wg", "nat", "chains", "forward"} => r[f] = m[f]
    BY UpEffects
  <2> HIDE DEF r
  <2>2. \A f \in Fields("linux") : r[f] = m[f] \/ (FieldValues(f) = BOOLEAN /\ r[f] \in BOOLEAN)
    BY <1>1, <2>1
  <2>3. QED
    BY <1>3, <2>1, <2>2 DEF r
<1>8. SystemOK("linux", IpForwardFix(m).system)
  <2> DEFINE r == [m EXCEPT !.forward = TRUE, !.persisted = TRUE]
  <2>1. IpForwardFix(m).system = r
    BY DEF IpForwardFix, Outcome
  <2>2. DOMAIN m = Fields("linux")
    BY DEF SystemOK
  <2>3. /\ r = [f \in Fields("linux") |-> r[f]]
        /\ \A f \in Fields("linux") : r[f] = m[f] \/ (FieldValues(f) = BOOLEAN /\ r[f] \in BOOLEAN)
    BY <1>1, <2>2
  <2> HIDE DEF r
  <2>4. QED
    BY <1>3, <2>1, <2>3
<1>9. QED
  BY <1>4, <1>5, <1>6, <1>7, <1>8

Fixable == {"linux_systemd", "linux_listen_443", "linux_listen_internal_ws",
            "linux_nat_masquerade", "linux_ip_forward"}

\* What a fix leaves is a system, whatever it was found on and applied to.
LEMMA FixKeepsSystem ==
    ASSUME NEW c \in Fixable, NEW found, NEW m, SystemOK("linux", m)
    PROVE  SystemOK("linux", Fix(c, found, m).system)
<1>0. \A x, y : Outcome(x, y).system = y
  BY DEF Outcome
<1>1. CASE c = "linux_systemd"
  <2> DEFINE units == InactiveUnits(found)
             m1 == IF "ws" \in units THEN RestartedWs(m) ELSE m
  <2>1. SystemOK("linux", m1)
    BY StartedIsSystem
  <2> HIDE DEF units
  <2>2. RestartUnits(m, units).system \in {m1, WgDown(m1), WgUp(WgDown(m1))}
    BY <1>0 DEF RestartUnits
  <2> HIDE DEF m1
  <2>3. SystemOK("linux", WgDown(m1))
    BY <2>1, StartedIsSystem
  <2>4. SystemOK("linux", WgUp(WgDown(m1)))
    BY <2>3, StartedIsSystem
  <2>5. Fix(c, found, m) = RestartUnits(m, units)
    BY <1>1 DEF Fix, units
  <2>6. QED
    BY <2>1, <2>2, <2>3, <2>4, <2>5
<1>2. CASE c = "linux_listen_443"
  <2>1. Fix(c, found, m) = ListenFix(m)
    BY <1>2 DEF Fix
  <2>2. ListenFix(m).system \in {StartWs(m), StartCaddy(m)}
    BY <1>0 DEF ListenFix
  <2>3. QED
    BY <2>1, <2>2, StartedIsSystem
<1>3. CASE c = "linux_listen_internal_ws"
  <2>1. Fix(c, found, m).system = StartWs(m)
    BY <1>0, <1>3 DEF Fix
  <2>2. QED
    BY <2>1, StartedIsSystem
<1>4. CASE c = "linux_nat_masquerade"
  <2>1. Fix(c, found, m) = MasqueradeFix(m)
    BY <1>4 DEF Fix
  <2>2. MasqueradeFix(m).system \in {m, WgUp(m)}
    BY <1>0 DEF MasqueradeFix
  <2>3. QED
    BY <2>1, <2>2, StartedIsSystem
<1>5. CASE c = "linux_ip_forward"
  <2>1. Fix(c, found, m) = IpForwardFix(m)
    BY <1>5 DEF Fix
  <2>2. QED
    BY <2>1, StartedIsSystem
<1>6. QED
  BY <1>1, <1>2, <1>3, <1>4, <1>5 DEF Fixable

Cured(c, m) ==
    \/ LinuxReport(m)[c] # "fail"
    \/ \E d \in Causes : LinuxReport(m)[d] = "fail"

\* A fix that did not raise, on the system it was found on, cures it or leaves
\* the cause in sight.
LEMMA FixCuresWhatWasFound ==
    ASSUME NEW c \in Fixable \ {"linux_nat_masquerade"}, NEW m, SystemOK("linux", m),
           Fix(c, m, m).ok, Fix(c, m, m).system.foreign = "none",
           Fix(c, m, m).system.unitFor # "old_port"
    PROVE  Cured(c, Fix(c, m, m).system)
<1> DEFINE s == Fix(c, m, m).system
           Same(x, y) == /\ x.wstunnelBin = y.wstunnelBin /\ x.wgBin = y.wgBin
                         /\ x.certs = y.certs /\ x.foreign = y.foreign
                         /\ x.proxied = y.proxied /\ x.caddyBin = y.caddyBin
                         /\ x.site = y.site /\ x.valid = y.valid
                         /\ x.unitFor = y.unitFor
<1>0. \A x, y : Outcome(x, y).system = y /\ Outcome(x, y).ok = x
  BY DEF Outcome
<1>1. {"wstunnelBin", "wgBin", "certs", "foreign", "proxied", "caddyBin", "site", "valid",
       "unitFor", "ws", "wg"} \subseteq Fields("linux")
  BY DEF Fields, HealthyLinux
<1>2. ASSUME NEW x, SystemOK("linux", x)
      PROVE  \A r \in {StartWs(x), RestartedWs(x)} :
                Same(r, x) /\ (r.ws \/ ~CanServe(x)) /\ r.wg = x.wg
  <2>1. SUFFICES ASSUME NEW r \in {StartWs(x), RestartedWs(x)}
                 PROVE  Same(r, x) /\ (r.ws \/ ~CanServe(x)) /\ r.wg = x.wg
    OBVIOUS
  <2>2. /\ \A f \in Fields("linux") : f # "ws" => r[f] = x[f]
        /\ r.ws = CanServe(x) \/ r.ws = (x.ws \/ CanServe(x))
    BY <1>2, StartEffects
  <2>3. Same(r, x) /\ r.wg = x.wg
    BY <1>1, <2>2
  <2>4. QED
    BY <2>2, <2>3
<1>3. ASSUME NEW x, SystemOK("linux", x)
      PROVE  Same(WgDown(x), x) /\ WgDown(x).ws = x.ws
  BY <1>1, <1>3, DownEffects, ZenonT(60)
<1>4. ASSUME NEW x, SystemOK("linux", x)
      PROVE  Same(WgUp(x), x) /\ WgUp(x).ws = x.ws /\ WgUp(x).wg = TRUE
  BY <1>1, <1>4, UpEffects, ZenonT(60)
<1>5. /\ Same(StartCaddy(m), m)
      /\ StartCaddy(m).caddy = (m.caddy \/ CanFront(m))
  BY <1>1, CaddyEffects
<1>6. ASSUME NEW x
      PROVE  LET r == LinuxReport(x) IN
             /\ r.linux_systemd = Verdict(InactiveUnits(x) = {})
             /\ r.linux_listen_443 = Verdict(PublicPortHeld(x))
             /\ r.linux_listen_internal_ws = ListenInternalWs(x)
             /\ r.linux_ip_forward = LinuxIpForward(x)
             /\ r.linux_binaries = Verdict(x.wstunnelBin /\ x.wgBin)
             /\ r.tls = Verdict(x.certs) /\ r.caddy = CaddyFront(x)
  BY DEF LinuxReport, LinuxBinaries, TlsCertFiles
\* wstunnel that does not start names the cause.
<1>7. ASSUME NEW x, Same(x, m), ~CanServe(m), x.foreign = "none", NEW d
      PROVE  Cured(d, x)
  <2>1. ~x.wstunnelBin \/ ~x.certs
    BY <1>7 DEF CanServe
  <2>2. LinuxReport(x).linux_binaries = "fail" \/ LinuxReport(x).tls = "fail"
    BY <1>6, <2>1 DEF Verdict
  <2>3. QED
    BY <2>2 DEF Cured, Causes
<1> HIDE DEF Same
<1>8. CASE c = "linux_systemd"
  <2> DEFINE units == InactiveUnits(m)
             m1 == IF "ws" \in units THEN RestartedWs(m) ELSE m
  <2>1. Fix(c, m, m) = RestartUnits(m, units)
    BY <1>8 DEF Fix
  <2>2. ("ws" \in units) = (~m.ws) /\ ("wg" \in units) = (~m.wg)
    BY DEF InactiveUnits
  <2> HIDE DEF units
  <2>3. SystemOK("linux", m1) /\ Same(m1, m) /\ m1.wg = m.wg
        /\ (m1.ws \/ ~CanServe(m))
    <3>1. Same(m, m)
      BY DEF Same
    <3>2. QED
      BY <1>2, <2>2, <3>1, StartedIsSystem
  <2> HIDE DEF m1
  <2>4. Same(s, m) /\ s.wg /\ (s.ws \/ ~CanServe(m))
    <3>1. CASE "wg" \notin units
      <4>1. s = m1
        <5>1. RestartUnits(m, units).system = m1
          BY <3>1 DEF RestartUnits, Outcome, m1
        <5>2. QED
          BY <2>1, <5>1
      <4>2. QED
        BY <2>2, <2>3, <3>1, <4>1
    <3>2. CASE "wg" \in units
      <4>1. Fix(c, m, m).ok => CanWg(m)
        BY <1>0, <2>1, <3>2 DEF RestartUnits
      <4>2. s = WgUp(WgDown(m1))
        <5>1. CanWg(m)
          BY <4>1
        <5>2. RestartUnits(m, units).system = WgUp(WgDown(m1))
          BY <3>2, <5>1 DEF RestartUnits, Outcome, m1
        <5>3. QED
          BY <2>1, <5>2
      <4>3. SystemOK("linux", WgDown(m1)) /\ Same(WgDown(m1), m1) /\ WgDown(m1).ws = m1.ws
        BY <1>3, <2>3, StartedIsSystem
      <4>4. Same(s, WgDown(m1)) /\ s.ws = m1.ws /\ s.wg = TRUE
        BY <1>4, <4>2, <4>3
      <4>5. QED
        BY <2>3, <4>3, <4>4 DEF Same
    <3>3. QED
      BY <3>1, <3>2
  <2>5. CASE ~CanServe(m)
    BY <1>7, <2>4, <2>5
  <2>6. CASE s.ws
    <3>1. InactiveUnits(s) = {}
      BY <2>4, <2>6 DEF InactiveUnits
    <3>2. LinuxReport(s).linux_systemd = "pass"
      BY <1>6, <3>1 DEF Verdict
    <3>3. QED
      BY <1>8, <3>2 DEF Cured
  <2>7. QED
    BY <2>4, <2>5, <2>6
<1>9. CASE c = "linux_listen_443"
  <2>1. Fix(c, m, m) = ListenFix(m)
    BY <1>9 DEF Fix
  <2>2. CASE ~m.proxied
    <3>1. s = StartWs(m)
      <4>1. ListenFix(m).system = StartWs(m)
        BY <2>2 DEF ListenFix, Outcome
      <4>2. QED
        BY <2>1, <4>1
    <3>2. Same(s, m) /\ (s.ws \/ ~CanServe(m))
      BY <1>2, <3>1
    <3>3. CASE ~CanServe(m)
      BY <1>7, <3>2, <3>3
    <3>4. CASE CanServe(m)
      <4>1. PublicPortHeld(s)
        BY <2>2, <3>2, <3>4 DEF PublicPortHeld, OnPort, Same
      <4>2. LinuxReport(s).linux_listen_443 = "pass"
        BY <1>6, <4>1 DEF Verdict
      <4>3. QED
        BY <1>9, <4>2 DEF Cured
    <3>5. QED
      BY <3>3, <3>4
  <2>3. CASE m.proxied
    <3>1. s = StartCaddy(m)
      BY <1>0, <2>1, <2>3 DEF ListenFix
    <3>2. Same(s, m) /\ s.caddy = (m.caddy \/ CanFront(m))
      BY <1>5, <3>1
    <3>3. CASE ~(m.caddyBin /\ m.site /\ m.valid)
      <4>1. CaddyFront(s) = "fail"
        BY <2>3, <3>2, <3>3 DEF CaddyFront, Verdict, Same
      <4>2. LinuxReport(s).caddy = "fail"
        BY <1>6, <4>1
      <4>3. QED
        BY <4>2 DEF Cured, Causes
    <3>4. CASE m.caddyBin /\ m.site /\ m.valid
      <4>1. PublicPortHeld(s)
        BY <2>3, <3>2, <3>4 DEF PublicPortHeld, CanFront, Same
      <4>2. LinuxReport(s).linux_listen_443 = "pass"
        BY <1>6, <4>1 DEF Verdict
      <4>3. QED
        BY <1>9, <4>2 DEF Cured
    <3>5. QED
      BY <3>3, <3>4
  <2>4. QED
    BY <2>2, <2>3
<1>10. CASE c = "linux_listen_internal_ws"
  <2>1. s = StartWs(m)
    BY <1>0, <1>10 DEF Fix
  <2>2. Same(s, m) /\ (s.ws \/ ~CanServe(m))
    BY <1>2, <2>1
  <2>3. CASE ~CanServe(m)
    BY <1>7, <2>2, <2>3
  <2>4. CASE CanServe(m)
    <3>1. ListenInternalWs(s) # "fail"
      BY <2>2, <2>4 DEF ListenInternalWs, OnPort, OrWarn
    <3>2. QED
      BY <1>6, <1>10, <3>1 DEF Cured
  <2>5. QED
    BY <2>3, <2>4
<1>11. CASE c = "linux_ip_forward"
  <2> DEFINE r == [m EXCEPT !.forward = TRUE, !.persisted = TRUE]
  <2>1. s = r
    BY <1>0, <1>11 DEF Fix, IpForwardFix
  <2>2. "forward" \in DOMAIN m
    BY DEF SystemOK, Fields, HealthyLinux
  <2>3. r.forward = TRUE
    BY <2>2
  <2> HIDE DEF r
  <2>4. LinuxIpForward(s) # "fail"
    BY <2>1, <2>3 DEF LinuxIpForward, OrWarn
  <2>5. QED
    BY <1>6, <1>11, <2>4 DEF Cured
<1>12. QED
  BY <1>8, <1>9, <1>10, <1>11 DEF Fixable

LEMMA ApplyingKeeps ==
    ASSUME DoctorInv, NEW c, NEW found, Applies(c, found)
    PROVE  DoctorInv'
<1> DEFINE out == Fix(c, found, system)
<1>1. /\ host = "linux" /\ host' = host /\ c \in AutoFixes(found)
      /\ system' = out.system /\ fixed' = IF out.ok /\ found = system THEN c ELSE NoFix
  BY DEF Applies
<1>2. c \in Fixable
  BY <1>1 DEF AutoFixes, Fixable
<1>3. SystemOK("linux", system)
  BY <1>1 DEF DoctorInv
<1>4. SystemOK("linux", out.system)
  BY <1>2, <1>3, FixKeepsSystem
<1>5. fixed' \in {c, NoFix} /\ (fixed' = c /\ c # NoFix => out.ok /\ found = system)
  BY <1>1
<1> HIDE DEF out
<1>6. FixCures'
  <2>1. SUFFICES ASSUME fixed' \notin {NoFix, "linux_nat_masquerade"},
                        system'.foreign = "none", system'.unitFor # "old_port"
                 PROVE  Cured(fixed', system')
    BY DEF FixCures, Cured
  <2>2. fixed' = c /\ out.ok /\ found = system /\ c \in Fixable \ {"linux_nat_masquerade"}
    BY <1>2, <1>5, <2>1
  <2>3. out = Fix(c, system, system)
    BY <2>2 DEF out
  <2>4. QED
    BY <1>1, <1>3, <2>1, <2>2, <2>3, FixCuresWhatWasFound
<1>7. QED
  BY <1>1, <1>4, <1>6 DEF DoctorInv

LEMMA BreakKeeps ==
    ASSUME DoctorInv, NEW f \in DOMAIN system \ {"proxied"}, NEW v, Break(f, v)
    PROVE  DoctorInv'
<1>1. /\ v \in FieldValues(f) /\ fixed' = NoFix /\ host' = host
      /\ system' = IF f = "wg" /\ host = "linux" THEN WgDown(system)
                   ELSE [system EXCEPT ![f] = v]
  BY DEF Break
<1>2. SystemOK(host, system) /\ host \in {"linux", "windows", "client"}
  BY DEF DoctorInv
<1>3. SystemOK(host, system')
  <2>1. CASE f = "wg" /\ host = "linux"
    BY <1>1, <1>2, <2>1, StartedIsSystem
  <2>2. CASE ~(f = "wg" /\ host = "linux")
    BY <1>1, <1>2, <2>2 DEF SystemOK
  <2>3. QED
    BY <2>1, <2>2
<1>4. FixCures'
  BY <1>1 DEF FixCures
<1>5. QED
  BY <1>1, <1>2, <1>3, <1>4 DEF DoctorInv

LEMMA HealthyIsSystem ==
    /\ SystemOK("linux", HealthyLinux) /\ SystemOK("windows", HealthyWindows)
    /\ SystemOK("client", HealthyClient)
    /\ SystemOK("linux", [HealthyLinux EXCEPT !.proxied = TRUE])
    /\ SystemOK("windows", [HealthyWindows EXCEPT !.clientWs = TRUE])
<1>1. SystemOK("linux", HealthyLinux)
  <2>1. HealthyLinux = [f \in DOMAIN HealthyLinux |-> HealthyLinux[f]]
    BY DEF HealthyLinux
  <2>2. \A f \in DOMAIN HealthyLinux : HealthyLinux[f] \in FieldValues(f)
    <3> DEFINE Flags == {"caddyBin", "site", "valid", "caddy", "wstunnelBin", "wgBin",
                       "kmod", "iptables", "certs", "ws", "loopback", "wg", "forward", "persisted", "nat", "chains", "egress",
                       "clients", "fail2ban", "proxied"}
    <3>1. DOMAIN HealthyLinux = Flags \cup {"reach", "udp", "dns", "foreign", "unitFor"}
      BY DEF HealthyLinux
    <3>2. \A f \in Flags : FieldValues(f) = BOOLEAN
      BY DEF FieldValues
    <3>3. \A f \in Flags : HealthyLinux[f] \in BOOLEAN
      <4>1. /\ HealthyLinux.caddyBin = TRUE /\ HealthyLinux.site = TRUE
            /\ HealthyLinux.valid = TRUE /\ HealthyLinux.caddy = TRUE
            /\ HealthyLinux.wstunnelBin = TRUE /\ HealthyLinux.wgBin = TRUE
            /\ HealthyLinux.kmod = TRUE /\ HealthyLinux.iptables = TRUE
            /\ HealthyLinux.certs = TRUE /\ HealthyLinux.ws = TRUE
            /\ HealthyLinux.loopback = TRUE /\ HealthyLinux.wg = TRUE
            /\ HealthyLinux.forward = TRUE
            /\ HealthyLinux.persisted = TRUE /\ HealthyLinux.nat = TRUE
            /\ HealthyLinux.chains = TRUE /\ HealthyLinux.egress = TRUE
            /\ HealthyLinux.clients = TRUE /\ HealthyLinux.fail2ban = TRUE
            /\ HealthyLinux.proxied = FALSE
        BY DEF HealthyLinux
      <4>2. QED
        BY <4>1
    <3>4. /\ HealthyLinux.reach \in FieldValues("reach")
          /\ HealthyLinux.udp \in FieldValues("udp")
          /\ HealthyLinux.dns \in FieldValues("dns")
          /\ HealthyLinux.foreign \in FieldValues("foreign")
          /\ HealthyLinux.unitFor \in FieldValues("unitFor")
      BY DEF HealthyLinux, FieldValues
    <3> HIDE DEF Flags
    <3>5. QED
      BY <3>1, <3>2, <3>3, <3>4
  <2>3. Fields("linux") = DOMAIN HealthyLinux
    BY DEF Fields
  <2>4. QED
    BY <2>1, <2>2, <2>3 DEF SystemOK
<1>2. SystemOK("windows", HealthyWindows)
  <2>1. HealthyWindows = [f \in DOMAIN HealthyWindows |-> HealthyWindows[f]]
    BY DEF HealthyWindows
  <2>2. \A f \in DOMAIN HealthyWindows : HealthyWindows[f] \in FieldValues(f)
    <3> DEFINE Flags == {"clients", "certs", "egress", "admin", "router", "provider",
                       "otherNat", "wg", "ws", "clientWs", "otherHolds"}
    <3>1. DOMAIN HealthyWindows = Flags \cup {"iface", "ours", "winnat", "rule"}
      BY DEF HealthyWindows
    <3>2. \A f \in Flags : FieldValues(f) = BOOLEAN
      BY DEF FieldValues
    <3>3. \A f \in Flags : HealthyWindows[f] \in BOOLEAN
      <4>1. /\ HealthyWindows.clients = TRUE /\ HealthyWindows.certs = TRUE
            /\ HealthyWindows.egress = TRUE /\ HealthyWindows.admin = TRUE
            /\ HealthyWindows.router = TRUE /\ HealthyWindows.provider = TRUE
            /\ HealthyWindows.otherNat = FALSE /\ HealthyWindows.wg = TRUE
            /\ HealthyWindows.ws = TRUE /\ HealthyWindows.clientWs = FALSE
            /\ HealthyWindows.otherHolds = FALSE
        BY DEF HealthyWindows
      <4>2. QED
        BY <4>1
    <3>4. /\ HealthyWindows.iface \in FieldValues("iface")
          /\ HealthyWindows.ours \in FieldValues("ours")
          /\ HealthyWindows.winnat \in FieldValues("winnat")
          /\ HealthyWindows.rule \in FieldValues("rule")
      BY DEF HealthyWindows, FieldValues
    <3> HIDE DEF Flags
    <3>5. QED
      BY <3>1, <3>2, <3>3, <3>4
  <2>3. Fields("windows") = DOMAIN HealthyWindows
    BY DEF Fields
  <2>4. QED
    BY <2>1, <2>2, <2>3 DEF SystemOK
<1>3. SystemOK("client", HealthyClient)
  <2>1. HealthyClient = [f \in DOMAIN HealthyClient |-> HealthyClient[f]]
    BY DEF HealthyClient
  <2>2. \A f \in DOMAIN HealthyClient : HealthyClient[f] \in FieldValues(f)
    <3> DEFINE Flags == {"profile", "runs", "pinFile", "pinned", "wgTools", "helper",
                       "sudo", "kmod", "notify"}
    <3>1. DOMAIN HealthyClient = Flags \cup {"wstunnel", "unit"}
      BY DEF HealthyClient
    <3>2. \A f \in Flags : FieldValues(f) = BOOLEAN
      BY DEF FieldValues
    <3>3. \A f \in Flags : HealthyClient[f] \in BOOLEAN
      <4>1. /\ HealthyClient.profile = TRUE /\ HealthyClient.runs = TRUE
            /\ HealthyClient.pinFile = TRUE /\ HealthyClient.pinned = TRUE
            /\ HealthyClient.wgTools = TRUE /\ HealthyClient.helper = TRUE
            /\ HealthyClient.sudo = TRUE /\ HealthyClient.kmod = TRUE
            /\ HealthyClient.notify = TRUE
        BY DEF HealthyClient
      <4>2. QED
        BY <4>1
    <3>4. /\ HealthyClient.wstunnel \in FieldValues("wstunnel")
          /\ HealthyClient.unit \in FieldValues("unit")
      BY DEF HealthyClient, FieldValues
    <3> HIDE DEF Flags
    <3>5. QED
      BY <3>1, <3>2, <3>3, <3>4
  <2>3. Fields("client") = DOMAIN HealthyClient
    BY DEF Fields
  <2>4. QED
    BY <2>1, <2>2, <2>3 DEF SystemOK
<1>4. SystemOK("linux", [HealthyLinux EXCEPT !.proxied = TRUE])
  <2> DEFINE r == [HealthyLinux EXCEPT !.proxied = TRUE]
  <2>1. "proxied" \in Fields("linux") /\ FieldValues("proxied") = BOOLEAN
    BY DEF Fields, HealthyLinux, FieldValues
  <2>2. DOMAIN HealthyLinux = Fields("linux")
        /\ \A f \in Fields("linux") : HealthyLinux[f] \in FieldValues(f)
    BY <1>1 DEF SystemOK
  <2>3. /\ r = [f \in Fields("linux") |-> r[f]] /\ r.proxied = TRUE
        /\ \A f \in Fields("linux") : f # "proxied" => r[f] = HealthyLinux[f]
    BY <2>1, <2>2
  <2> HIDE DEF r
  <2>4. QED
    BY <2>1, <2>2, <2>3 DEF SystemOK, r
<1>5. SystemOK("windows", [HealthyWindows EXCEPT !.clientWs = TRUE])
  <2> DEFINE r == [HealthyWindows EXCEPT !.clientWs = TRUE]
  <2>1. "clientWs" \in Fields("windows") /\ FieldValues("clientWs") = BOOLEAN
    BY DEF Fields, HealthyWindows, FieldValues
  <2>2. DOMAIN HealthyWindows = Fields("windows")
        /\ \A f \in Fields("windows") : HealthyWindows[f] \in FieldValues(f)
    BY <1>2 DEF SystemOK
  <2>3. /\ r = [f \in Fields("windows") |-> r[f]] /\ r.clientWs = TRUE
        /\ \A f \in Fields("windows") : f # "clientWs" => r[f] = HealthyWindows[f]
    BY <2>1, <2>2
  <2> HIDE DEF r
  <2>4. QED
    BY <2>1, <2>2, <2>3 DEF SystemOK, r
<1>6. QED
  BY <1>1, <1>2, <1>3, <1>4, <1>5

LEMMA DoctorInductive ==
    /\ DoctorInit => DoctorInv
    /\ DoctorInv /\ [DoctorNext]_doctorVars => DoctorInv'
<1>1. ASSUME DoctorInit PROVE DoctorInv
  BY <1>1, HealthyIsSystem DEF DoctorInit, DoctorInv, FixCures
<1>2. ASSUME DoctorInv, [DoctorNext]_doctorVars PROVE DoctorInv'
  <2>1. CASE Look
    <3>1. system' = system /\ host' = host /\ fixed' = NoFix
      BY <2>1 DEF Look
    <3>2. QED
      BY <1>2, <3>1 DEF DoctorInv, FixCures
  <2>2. ASSUME NEW c \in DOMAIN LinuxReport(HealthyLinux), ApplyShownFix(c) \/ ApplyRemediation(c)
        PROVE  DoctorInv'
    BY <1>2, <2>2, ApplyingKeeps DEF ApplyShownFix, ApplyRemediation
  <2>3. ASSUME NEW f \in DOMAIN system \ {"proxied"}, NEW v \in FieldValues(f), Break(f, v)
        PROVE  DoctorInv'
    BY <1>2, <2>3, BreakKeeps
  <2>4. CASE UNCHANGED doctorVars
    BY <1>2, <2>4 DEF doctorVars, DoctorInv, FixCures
  <2>5. QED
    BY <1>2, <2>1, <2>2, <2>3, <2>4 DEF DoctorNext
<1>3. QED
  BY <1>1, <1>2

\* Whatever has broken, a server on Linux or Windows that does not carry traffic, and
\* a client that cannot connect, has a failed check on the doctor's screen, or a warning
\* of those that tell of it (gather_checks and run_all); but for the causes of Unseen,
\* which no check looks at or tells apart.
THEOREM DoctorsHideNothing == DoctorSpec => []NothingIsHidden
<1>1. DoctorInv => NothingIsHidden
  BY SystemsHideNothing
<1>2. QED
  BY <1>1, DoctorInductive, PTL DEF DoctorSpec

\* A remediation that did not raise, applied to the system the check had found,
\* cures the check or leaves one that fails and names the cause; but for MASQUERADE,
\* another program on the public port and a unit written for another port.
THEOREM FixesCure == DoctorSpec => []FixCures
<1>1. DoctorInv => FixCures
  BY DEF DoctorInv
<1>2. QED
  BY <1>1, DoctorInductive, PTL DEF DoctorSpec

-----------------------------------------------------------------------------
(* The inductive invariant of the limiter *)

\* MaxFailures failures of an address within the window that ends at a time.
After(failures, time) == {f \in failures : f.at > time}
Enough(failures) == Cardinality(failures) >= MaxFailures
Earned(a, since) == Enough(After(failedAt[a], since - Window))

Failure == [number : Nat, at : Nat]
RequestOK(q) ==
    /\ "at" \in DOMAIN q
    /\ q.at # "waiting" =>
        /\ q = [at |-> q.at, from |-> q.from, token |-> q.token, now |-> q.now]
        /\ q.from \in Addresses /\ q.now \in Nat
PanelTypeOK ==
    /\ clock \in Nat
    /\ hits \in [Addresses -> SUBSET Failure] /\ failedAt \in [Addresses -> SUBSET Failure]
    /\ lockedUntil \in [Addresses -> Nat]
    /\ request = [r \in Requests |-> request[r]]
    /\ \A r \in Requests : RequestOK(request[r])
\* What the limiter counts did fail, since the address succeeded last.
Counted(a) ==
    /\ hits[a] \subseteq failedAt[a] /\ IsFiniteSet(failedAt[a])
    /\ lockedUntil[a] = 0 \/ Earned(a, lockedUntil[a] - Lockout)
LimiterInv == PanelTypeOK /\ \A a \in Addresses : Counted(a)

\* A failure more does not take away from what was earned.
LEMMA EarnedStays ==
    ASSUME NEW old, IsFiniteSet(old), NEW f, NEW time, Enough(After(old, time))
    PROVE  Enough(After(old \cup {f}, time))
<1> DEFINE new == old \cup {f}
<1>1. IsFiniteSet(new)
  BY FS_Union, FS_Singleton
<1>2. After(old, time) \in SUBSET After(new, time) /\ After(new, time) \in SUBSET new
  BY DEF After
<1> HIDE DEF new
<1>3. IsFiniteSet(After(new, time))
  BY <1>1, <1>2, FS_Subset
<1>4. Cardinality(After(old, time)) <= Cardinality(After(new, time))
  BY <1>2, <1>3, FS_Subset
<1>5. IsFiniteSet(After(old, time))
  BY <1>2, <1>3, FS_Subset
<1>6. /\ Cardinality(After(old, time)) \in Nat /\ Cardinality(After(new, time)) \in Nat
      /\ MaxFailures \in Nat
  BY <1>3, <1>5, FS_CardinalityType, PanelAssumption
<1>7. Enough(After(new, time))
  BY <1>4, <1>6 DEF Enough
<1>8. QED
  BY <1>7 DEF new

\* The failures that lock an address out are all in the window that ends with the last.
LEMMA LockoutEarned ==
    ASSUME NEW new, IsFiniteSet(new), NEW all \in SUBSET new, NEW time,
           \A f \in all : f.at > time, Enough(all)
    PROVE  Enough(After(new, time))
<1> DEFINE F == After(new, time)
<1>1. all \in SUBSET F /\ F \in SUBSET new
  BY DEF After
<1> HIDE DEF F
<1>2. IsFiniteSet(F)
  BY <1>1, FS_Subset
<1>3. IsFiniteSet(all) /\ Cardinality(all) <= Cardinality(F)
  BY <1>1, <1>2, FS_Subset
<1>4. Cardinality(all) \in Nat /\ Cardinality(F) \in Nat /\ MaxFailures \in Nat
  BY <1>2, <1>3, FS_CardinalityType, PanelAssumption
<1>5. QED
  BY <1>3, <1>4 DEF F, Enough

LEMMA AuthFailsInv ==
    ASSUME LimiterInv, NEW r \in Requests, AuthFails(r)
    PROVE  LimiterInv'
<1>1. request[r].from \in Addresses /\ request[r].now \in Nat
  BY DEF LimiterInv, PanelTypeOK, RequestOK, AuthFails
<1>2. PICK a \in Addresses, now \in Nat : a = request[r].from /\ now = request[r].now
  BY <1>1
<1> DEFINE old == failedAt[a]
           failure == [number |-> Cardinality(old) + 1, at |-> now]
           all == Recent(a, now) \cup {failure}
           new == old \cup {failure}
           enough == Enough(all)
<1>3. /\ hits' = [hits EXCEPT ![a] = IF enough THEN {} ELSE all]
      /\ lockedUntil' = IF enough THEN [lockedUntil EXCEPT ![a] = now + Lockout] ELSE lockedUntil
      /\ failedAt' = [failedAt EXCEPT ![a] = new]
      /\ request' = [request EXCEPT ![r] = Waiting]
      /\ clock' = clock
  BY <1>2 DEF AuthFails, RegisterFailure, Enough
<1>4. /\ hits \in [Addresses -> SUBSET Failure] /\ failedAt \in [Addresses -> SUBSET Failure]
      /\ lockedUntil \in [Addresses -> Nat] /\ clock \in Nat
      /\ hits[a] \subseteq old /\ old \in SUBSET Failure /\ IsFiniteSet(old)
      /\ lockedUntil[a] = 0 \/ Earned(a, lockedUntil[a] - Lockout)
  BY DEF LimiterInv, PanelTypeOK, Counted
<1>5. Lockout \in Nat /\ Window \in Nat \ {0}
  BY PanelAssumption
<1>6. failure \in Failure /\ failure.at = now
  <2>1. Cardinality(old) \in Nat
    BY <1>4, FS_CardinalityType
  <2>2. QED
    BY <1>2, <2>1 DEF Failure
<1>7. Recent(a, now) \subseteq hits[a] /\ \A f \in Recent(a, now) : f.at > now - Window
  BY DEF Recent
<1>8. failure.at > now - Window
  BY <1>2, <1>5, <1>6
<1> HIDE DEF failure
<1>9. /\ all \in SUBSET new /\ new \in SUBSET Failure
      /\ \A f \in all : f.at > now - Window
  BY <1>4, <1>6, <1>7, <1>8
<1>10. IsFiniteSet(new)
  BY <1>4, FS_Union, FS_Singleton
<1> HIDE DEF all
<1>11. enough => Enough(After(new, now - Window))
  <2> HIDE DEF new
  <2>1. QED
    BY <1>9, <1>10, LockoutEarned
<1>12. ASSUME NEW time, Enough(After(old, time)) PROVE Enough(After(new, time))
  <2>1. IsFiniteSet(old)
    BY <1>4
  <2> HIDE DEF old
  <2>2. QED
    BY <1>12, <2>1, EarnedStays
<1> HIDE DEF enough, old, new
<1>13. /\ hits'[a] = IF enough THEN {} ELSE all
       /\ failedAt'[a] = new
       /\ lockedUntil'[a] = IF enough THEN now + Lockout ELSE lockedUntil[a]
       /\ \A b \in Addresses : b # a => /\ hits'[b] = hits[b] /\ failedAt'[b] = failedAt[b]
                                        /\ lockedUntil'[b] = lockedUntil[b]
       /\ hits' \in [Addresses -> SUBSET Failure]
       /\ failedAt' \in [Addresses -> SUBSET Failure]
       /\ lockedUntil' \in [Addresses -> Nat]
  <2>1. now + Lockout \in Nat /\ all \in SUBSET Failure
    BY <1>2, <1>5, <1>9
  <2>2. QED
    BY <1>3, <1>4, <1>9, <2>1
<1>14. PanelTypeOK'
  <2>1. /\ request' = [q \in Requests |-> request'[q]]
        /\ \A q \in Requests : request'[q] = IF q = r THEN Waiting ELSE request[q]
    BY <1>3 DEF LimiterInv, PanelTypeOK
  <2>2. \A q \in Requests : RequestOK(request[q])
    BY DEF LimiterInv, PanelTypeOK
  <2>3. RequestOK(Waiting)
    BY DEF Waiting, RequestOK
  <2>4. QED
    BY <1>3, <1>4, <1>13, <2>1, <2>2, <2>3 DEF PanelTypeOK
<1>15. ASSUME NEW b \in Addresses, b # a PROVE Counted(b)'
  <2>1. Counted(b)
    BY DEF LimiterInv
  <2>2. hits'[b] = hits[b] /\ failedAt'[b] = failedAt[b] /\ lockedUntil'[b] = lockedUntil[b]
    BY <1>13, <1>15
  <2>3. QED
    BY <2>1, <2>2 DEF Counted, Earned
<1>16. Counted(a)'
  <2>1. hits'[a] \subseteq failedAt'[a] /\ IsFiniteSet(failedAt'[a])
    BY <1>9, <1>10, <1>13
  <2>2. CASE enough
    <3>1. lockedUntil'[a] - Lockout = now
      BY <1>2, <1>5, <1>13, <2>2
    <3>2. Enough(After(failedAt'[a], (lockedUntil'[a] - Lockout) - Window))
      BY <1>11, <1>13, <2>2, <3>1
    <3>3. QED
      BY <2>1, <3>2 DEF Counted, Earned
  <2>3. CASE ~enough
    <3>1. lockedUntil'[a] = lockedUntil[a] /\ failedAt'[a] = new
      BY <1>13, <2>3
    <3>2. CASE lockedUntil[a] = 0
      BY <2>1, <3>1, <3>2 DEF Counted
    <3>3. CASE lockedUntil[a] # 0
      <4> DEFINE time == lockedUntil[a] - Lockout - Window
      <4>1. Enough(After(old, time))
        BY <1>4, <3>3 DEF Earned, old
      <4>2. Enough(After(new, time))
        <5> HIDE DEF time
        <5>1. QED
          BY <1>12, <4>1
      <4>3. QED
        BY <2>1, <3>1, <4>2 DEF Counted, Earned
    <3>4. QED
      BY <3>2, <3>3
  <2>4. QED
    BY <2>2, <2>3
<1>17. QED
  BY <1>14, <1>15, <1>16 DEF LimiterInv

LEMMA RestIsCounted ==
    ASSUME NEW a \in Addresses, hits[a] = {}, failedAt[a] = {}, lockedUntil[a] = 0
    PROVE  Counted(a)
  BY FS_EmptySet DEF Counted

\* A success forgets the failures and the lockout together.
LEMMA AuthSucceedsInv ==
    ASSUME LimiterInv, NEW r \in Requests, AuthSucceeds(r)
    PROVE  LimiterInv'
<1>1. request[r].from \in Addresses
  BY DEF LimiterInv, PanelTypeOK, RequestOK, AuthSucceeds
<1>2. PICK a \in Addresses : a = request[r].from
  BY <1>1
<1>3. /\ hits' = [hits EXCEPT ![a] = {}] /\ lockedUntil' = [lockedUntil EXCEPT ![a] = 0]
      /\ failedAt' = [failedAt EXCEPT ![a] = {}]
      /\ request' = [request EXCEPT ![r] = Waiting] /\ clock' = clock
  BY <1>2 DEF AuthSucceeds, ResetLimiter
<1>4. /\ hits \in [Addresses -> SUBSET Failure] /\ failedAt \in [Addresses -> SUBSET Failure]
      /\ lockedUntil \in [Addresses -> Nat] /\ clock \in Nat
      /\ request = [q \in Requests |-> request[q]]
      /\ \A q \in Requests : RequestOK(request[q])
  BY DEF LimiterInv, PanelTypeOK
<1>5. /\ hits'[a] = {} /\ failedAt'[a] = {} /\ lockedUntil'[a] = 0
      /\ \A b \in Addresses : b # a => /\ hits'[b] = hits[b] /\ failedAt'[b] = failedAt[b]
                                       /\ lockedUntil'[b] = lockedUntil[b]
      /\ hits' \in [Addresses -> SUBSET Failure] /\ failedAt' \in [Addresses -> SUBSET Failure]
      /\ lockedUntil' \in [Addresses -> Nat]
  BY <1>3, <1>4
<1>6. PanelTypeOK'
  <2>1. /\ request' = [q \in Requests |-> request'[q]]
        /\ \A q \in Requests : request'[q] = IF q = r THEN Waiting ELSE request[q]
    BY <1>3, <1>4
  <2>2. RequestOK(Waiting)
    BY DEF Waiting, RequestOK
  <2>3. QED
    BY <1>3, <1>4, <1>5, <2>1, <2>2 DEF PanelTypeOK
<1>7. ASSUME NEW b \in Addresses PROVE Counted(b)'
  <2>1. CASE b = a
    BY <1>5, <2>1, FS_EmptySet DEF Counted
  <2>2. CASE b # a
    <3>1. Counted(b)
      BY DEF LimiterInv
    <3>2. hits'[b] = hits[b] /\ failedAt'[b] = failedAt[b] /\ lockedUntil'[b] = lockedUntil[b]
      BY <1>5, <2>2
    <3>3. QED
      BY <3>1, <3>2 DEF Counted, Earned
  <2>3. QED
    BY <2>1, <2>2
<1>8. QED
  BY <1>6, <1>7 DEF LimiterInv

\* What does not touch the limiter: requests on their way, sessions, the token, time.
LEMMA LimiterUntouched ==
    ASSUME LimiterInv, UNCHANGED <<hits, failedAt, lockedUntil>>,
           clock' = clock \/ clock' = clock + 1,
           request' = [r \in Requests |-> request'[r]],
           \A r \in Requests : RequestOK(request'[r])
    PROVE  LimiterInv'
<1>1. PanelTypeOK'
  BY DEF LimiterInv, PanelTypeOK
<1>2. \A a \in Addresses : Counted(a)'
  BY DEF LimiterInv, Counted, Earned
<1>3. QED
  BY <1>1, <1>2 DEF LimiterInv

\* A request that moves on, with its address and token.
LEMMA MovesOn ==
    ASSUME LimiterInv, NEW r \in Requests, request[r].at # "waiting", NEW stage, NEW now \in Nat,
           \/ request' = [request EXCEPT ![r].at = stage] /\ now = request[r].now
           \/ request' = [request EXCEPT ![r].at = stage, ![r].now = now]
    PROVE  request' = [q \in Requests |-> request'[q]] /\ \A q \in Requests : RequestOK(request'[q])
<1> DEFINE q == request[r]
<1>1. /\ q = [at |-> q.at, from |-> q.from, token |-> q.token, now |-> q.now]
      /\ q.from \in Addresses /\ q.now \in Nat
  BY DEF LimiterInv, PanelTypeOK, RequestOK
<1>2. /\ request = [s \in Requests |-> request[s]]
      /\ \A s \in Requests : RequestOK(request[s])
  BY DEF LimiterInv, PanelTypeOK
<1>3. /\ request' = [s \in Requests |-> request'[s]]
      /\ \A s \in Requests : s # r => request'[s] = request[s]
      /\ \/ request'[r] = [q EXCEPT !.at = stage] /\ now = q.now
         \/ request'[r] = [q EXCEPT !.at = stage, !.now = now]
  BY <1>2
<1> HIDE DEF q
<1>4. DOMAIN q = {"at", "from", "token", "now"}
  BY <1>1
<1> DEFINE w == request'[r]
<1>5. /\ DOMAIN w = {"at", "from", "token", "now"} /\ w = [k \in DOMAIN w |-> w[k]]
       /\ w.at = stage /\ w.from = q.from /\ w.token = q.token /\ w.now = now
  BY <1>3, <1>4
<1> HIDE DEF w
<1>6. w = [at |-> stage, from |-> q.from, token |-> q.token, now |-> now]
  BY <1>5
<1>7. RequestOK(w)
  BY <1>1, <1>6 DEF RequestOK
<1>8. QED
  BY <1>2, <1>3, <1>7 DEF w

LEMMA LimiterInductive ==
    /\ PanelInit => LimiterInv
    /\ LimiterInv /\ [PanelNext]_panelVars => LimiterInv'
<1>0. RequestOK(Waiting)
  BY DEF Waiting, RequestOK
<1>1. ASSUME PanelInit PROVE LimiterInv
  <2>1. PanelTypeOK
    BY <1>0, <1>1 DEF PanelInit, PanelTypeOK
  <2>2. \A a \in Addresses : hits[a] = {} /\ failedAt[a] = {} /\ lockedUntil[a] = 0
    BY <1>1 DEF PanelInit
  <2>3. QED
    BY <2>1, <2>2, RestIsCounted DEF LimiterInv
<1>2. ASSUME LimiterInv, [PanelNext]_panelVars PROVE LimiterInv'
  <2>1. /\ clock \in Nat /\ request = [r \in Requests |-> request[r]]
        /\ \A r \in Requests : RequestOK(request[r])
    BY <1>2 DEF LimiterInv, PanelTypeOK
  <2>2. ASSUME UNCHANGED <<hits, failedAt, lockedUntil, request>>,
               clock' = clock \/ clock' = clock + 1
        PROVE  LimiterInv'
    BY <1>2, <2>1, <2>2, LimiterUntouched
  <2>3. CASE PassTime
    BY <2>2, <2>3 DEF PassTime
  <2>4. CASE NewToken
    BY <2>2, <2>4 DEF NewToken
  <2>5. CASE Purge
    BY <2>2, <2>5 DEF Purge
  <2>6. CASE PanelRestart
    <3>1. /\ clock' \in Nat /\ hits' = [a \in Addresses |-> {}]
          /\ failedAt' = [a \in Addresses |-> {}] /\ lockedUntil' = [a \in Addresses |-> 0]
          /\ request' = [r \in Requests |-> Waiting]
      BY <2>1, <2>6 DEF PanelRestart
    <3>2. PanelTypeOK'
      BY <1>0, <3>1 DEF PanelTypeOK
    <3>3. \A a \in Addresses : Counted(a)'
      BY <3>1, FS_EmptySet DEF Counted
    <3>4. QED
      BY <3>2, <3>3 DEF LimiterInv
  <2>7. ASSUME NEW r \in Requests, AuthBegins(r) PROVE LimiterInv'
    <3>1. PICK a \in Addresses, t \in 0..token :
            request' = [request EXCEPT ![r] =
                            [at |-> "checking", from |-> a, token |-> t, now |-> 0]]
      BY <2>7 DEF AuthBegins
    <3>2. RequestOK([at |-> "checking", from |-> a, token |-> t, now |-> 0])
      BY DEF RequestOK
    <3>3. /\ request' = [q \in Requests |-> request'[q]]
          /\ \A q \in Requests : RequestOK(request'[q])
      BY <2>1, <3>1, <3>2
    <3>4. UNCHANGED <<hits, failedAt, lockedUntil, clock>>
      BY <2>7 DEF AuthBegins
    <3>5. QED
      BY <1>2, <3>3, <3>4, LimiterUntouched
  <2>8. ASSUME NEW r \in Requests, TokenChecked(r) \/ FailureIsTimed(r) PROVE LimiterInv'
    <3>1. request[r].at # "waiting" /\ request[r].now \in Nat
      BY <2>1, <2>8 DEF TokenChecked, FailureIsTimed, RequestOK
    <3>2. UNCHANGED <<hits, failedAt, lockedUntil, clock>>
      BY <2>8 DEF TokenChecked, FailureIsTimed
    <3>3. \/ \E stage : request' = [request EXCEPT ![r].at = stage]
          \/ \E stage : request' = [request EXCEPT ![r].at = stage, ![r].now = clock]
      BY <2>8 DEF TokenChecked, FailureIsTimed
    <3>4. request' = [q \in Requests |-> request'[q]] /\ \A q \in Requests : RequestOK(request'[q])
      BY <1>2, <2>1, <3>1, <3>3, MovesOn
    <3>5. QED
      BY <1>2, <3>2, <3>4, LimiterUntouched
  <2>9. ASSUME NEW r \in Requests, AuthFails(r) PROVE LimiterInv'
    BY <1>2, <2>9, AuthFailsInv
  <2>10. ASSUME NEW r \in Requests, AuthSucceeds(r) PROVE LimiterInv'
    BY <1>2, <2>10, AuthSucceedsInv
  <2>11. ASSUME NEW s \in 1..logins, UseExpired(s) PROVE LimiterInv'
    BY <2>2, <2>11 DEF UseExpired
  <2>12. ASSUME NEW s \in 1..logins, LogOut(s) PROVE LimiterInv'
    BY <2>2, <2>12 DEF LogOut
  <2>13. CASE UNCHANGED panelVars
    BY <2>2, <2>13 DEF panelVars
  <2>14. QED
    BY <1>2, <2>3, <2>4, <2>5, <2>6, <2>7, <2>8, <2>9, <2>10, <2>11, <2>12, <2>13 DEF PanelNext
<1>3. QED
  BY <1>1, <1>2

\* A client of the panel is told to wait only for MaxFailures failures of its own
\* address within the window that ended with the last of them, none counted before a
\* success (RateLimiter.register_failure, retry_after and reset), however many requests
\* overlap while their tokens are checked and before the lock, for any limits and times.
THEOREM LockoutsAreEarned == PanelSpec => []LockoutIsEarned
<1>1. LimiterInv => LockoutIsEarned
  <2>1. SUFFICES ASSUME LimiterInv, NEW a \in Addresses, RetryAfter(a) > 0
                 PROVE  Earned(a, lockedUntil[a] - Lockout)
    BY DEF LockoutIsEarned, Earned, Enough, After
  <2>2. lockedUntil[a] # 0
    BY <2>1 DEF LimiterInv, PanelTypeOK, RetryAfter
  <2>3. QED
    BY <2>1, <2>2 DEF LimiterInv, Counted
<1>2. QED
  BY <1>1, LimiterInductive, PTL DEF PanelSpec
=============================================================================

-------------------------- MODULE TransportProofs --------------------------
(* Theorems about Transport: what a profile that was handed out may rely    *)
(* on.  For every set of ports, any number of operations and any number of  *)
(* failures, crashes and reboots.                                           *)
EXTENDS Transport, TLAPS

-----------------------------------------------------------------------------
(* The inductive invariant.                                                *)

OpSteps == {"key", "cert", "save", "wg", "ws", "caddy", "install wg", "restart wg",
            "restart ws", "remove ws", "remove wg", "remove caddy", "remove files",
            "bounce ws", "bounce sub", "bounce wg"}
Setups == {"setup", "init", "run_setup"}
Operations == Setups \cup {"renew", "rotate", "restart", "uninstall", "update"}
Jobs == [op: Operations, at: OpSteps,
         conf: Configs, was: Configs \cup {Absent}, whole: BOOLEAN]

Disks == [key: Nat \cup {Absent}, cert: Nat \cup {Absent, Cut},
          unit: CommandLines \cup {Absent}, enabled: BOOLEAN,
          wgconf: WgConfs \cup {Absent}, site: Nat \cup {Absent}]
Servers == [run: CommandLines, key: Nat \cup {Absent}]
Lives == [ws: Servers \cup {Absent}, wg: WgConfs \cup {Absent}, caddy: Nat \cup {Absent},
          sub: Servers \cup {Absent}, held: BOOLEAN]

TransportTypeOK ==
    /\ conf \in Configs \cup {Absent} /\ cached \in Configs \cup {Absent}
    /\ disk \in Disks /\ live \in Lives
    /\ job \in Jobs \cup {Idle}
    /\ issued \subseteq Configs
    /\ whole \in BOOLEAN /\ behind \in BOOLEAN
    /\ settled \in {"no", "cut", "restart", "setup", "update"}
    /\ ops \in Nat /\ breakdowns \in Nat

\* What ended stays settled until the next operation.
OverAtRest == settled \notin {"no", "cut"} => job = Idle

\* A setup draws everything anew, and nobody has a profile of it yet.
SetupOK ==
    job.op \in Setups =>
        /\ \/ job.at \in {"key", "cert", "save"}
           \/ job.op = "setup" /\ job.at \in {"wg", "ws", "caddy"}
        /\ ~whole /\ ~job.whole /\ issued = {}
        /\ job.op # "setup" => conf = Absent
        /\ job.at \in {"wg", "ws", "caddy"} =>
            conf = job.conf /\ disk.key = conf.key /\ disk.cert = conf.key
        /\ job.at = "caddy" => disk.unit = CommandLine(conf)

\* A renewal, of the configuration as it is, changes the key or nothing.
Renewals == {"renew", "rotate"}
RenewOK ==
    job.op \in Renewals =>
        /\ \/ job.at \in {"key", "cert", "save"}
           \/ job.op = "rotate" /\ job.at \in {"bounce ws", "bounce sub"}
        /\ job.op = "rotate" => Panel
        /\ job.at \in {"key", "cert", "save"} =>
            /\ job.whole => conf # Absent /\ CommandLine(job.conf) = CommandLine(conf)
            /\ whole => job.at # "key" /\ job.whole /\ job.conf = conf
            /\ ~whole /\ job.whole => issued = {}

\* Both write the key first, then the certificate, then the configuration.
FilesOK ==
    job.op \in Setups \cup Renewals =>
        /\ job.at \in {"cert", "save"} => disk.key = job.conf.key
        /\ job.at = "save" => disk.cert = job.conf.key

RestartOK ==
    job.op = "restart" =>
        /\ job.at \in {"install wg", "restart wg", "restart ws"}
        /\ conf # Absent
        /\ job.at # "install wg" => disk.wgconf = WgConf(conf) /\ live.wg = WgConf(conf)

UninstallOK ==
    job.op = "uninstall" =>
        /\ job.at \in {"remove ws", "remove wg", "remove caddy", "remove files"}
        /\ ~whole /\ issued = {} /\ conf # Absent
        /\ job.at # "remove ws" /\ ~behind => disk.unit = Absent

UpdateOK ==
    job.op = "update" =>
        job.at \in {"bounce ws", "bounce sub", "bounce wg"} /\ Panel /\ conf = job.conf

\* The key and the certificate on disk are those of the configuration, and so are the
\* profiles.
Matching ==
    whole =>
        /\ conf # Absent => disk.key = conf.key /\ disk.cert \in {conf.key, Cut}
        /\ issued \subseteq {conf}

\* The unit on disk is the configuration's, also while a renewal is at work.
Sound == whole \/ (job.op \in Renewals /\ job.at \in {"key", "cert", "save"} /\ job.whole)
UnitFits ==
    ~behind =>
        /\ conf = Absent => disk.unit = Absent
        /\ conf # Absent /\ Sound => disk.unit \in {Absent, CommandLine(conf)}

\* What a restart leaves behind, over what the panel, systemd and reboots do next.
Restarted ==
    settled = "restart" /\ whole /\ ~behind =>
        /\ conf # Absent
        /\ disk.wgconf = WgConf(conf) /\ live.wg = WgConf(conf)
        /\ disk.unit = CommandLine(conf)
        /\ live.ws # Absent => live.ws.run = disk.unit
                               /\ (conf.mode = "self-signed" => live.ws.key = disk.key)

JobOK == SetupOK /\ RenewOK /\ FilesOK /\ RestartOK /\ UninstallOK /\ UpdateOK
TransportInv == TransportTypeOK /\ OverAtRest /\ JobOK /\ Matching /\ UnitFits /\ Restarted

-----------------------------------------------------------------------------
(* What the steps do to the operation at work.                             *)

LEMMA IdleIsNoJob == Idle \notin Jobs /\ Idle.op = "none"
<1>1. \A j \in Jobs : j.op # "none"
  BY DEF Jobs, Operations, Setups
<1> QED
  BY <1>1 DEF Idle

LEMMA Begins ==
  ASSUME TransportTypeOK, NEW op \in Operations, NEW step \in OpSteps, NEW c \in Configs,
         NEW still \in BOOLEAN, Begin(op, step, c, still)
  PROVE  /\ job = Idle /\ job' \in Jobs /\ job' # Idle
         /\ job'.op = op /\ job'.at = step /\ job'.conf = c /\ job'.whole = still
         /\ settled' = "no" /\ ops' \in Nat /\ UNCHANGED breakdowns
<1>1. job' = [op |-> op, at |-> step, conf |-> c, was |-> cached, whole |-> still]
  BY DEF Begin
<1>2. job' \in Jobs
  BY <1>1 DEF TransportTypeOK, Jobs
<1>3. ops \in Nat
  BY DEF TransportTypeOK
<1>4. job = Idle /\ settled' = "no" /\ ops' = ops + 1 /\ UNCHANGED breakdowns
  BY DEF Begin
<1>5. ops' \in Nat
  BY <1>3, <1>4
<1>6. /\ job'.op = op /\ job'.at = step /\ job'.conf = c /\ job'.whole = still
  BY <1>1
<1>7. job' # Idle
  BY <1>2, IdleIsNoJob
<1> QED
  BY <1>2, <1>4, <1>5, <1>6, <1>7

LEMMA GoesOn ==
  ASSUME TransportTypeOK, NEW from, At(from), NEW step \in OpSteps, GoOn(step)
  PROVE  /\ job \in Jobs /\ job.at = from /\ job' \in Jobs /\ job' # Idle
         /\ job'.op = job.op /\ job'.at = step /\ job'.conf = job.conf /\ job'.whole = job.whole
<1>1. job \in Jobs /\ job.at = from
  BY DEF At, TransportTypeOK
<1>2. job' \in Jobs /\ job'.op = job.op /\ job'.at = step /\ job'.conf = job.conf
      /\ job'.whole = job.whole
  BY <1>1 DEF GoOn, Jobs
<1> QED
  BY <1>1, <1>2, IdleIsNoJob

LEMMA Works ==
  ASSUME TransportTypeOK, NEW step, At(step)
  PROVE  job \in Jobs /\ job # Idle /\ job.at = step
  BY DEF At, TransportTypeOK

\* Nothing is at work any more: nothing is to be said of it.
LEMMA NothingAtWork == ASSUME job' = Idle PROVE JobOK'
  BY IdleIsNoJob
     DEF JobOK, SetupOK, RenewOK, FilesOK, RestartOK, UninstallOK, UpdateOK, Setups, Renewals

\* What starts is what its command line says.
LEMMA ProcessIs ==
  ASSUME NEW line \in CommandLines, NEW d, NEW l, d.key \in Nat \cup {Absent}
  PROVE  /\ Process(line, d, l) \in Servers \cup {Absent}
         /\ Process(line, d, l) # Absent =>
                /\ Process(line, d, l).run = line
                /\ line.mode # "acme" => Process(line, d, l).key = d.key
  BY TransportAssumption DEF Process, Servers

LEMMA Starts ==
  ASSUME NEW d, NEW l, d.unit \in CommandLines \cup {Absent}, d.key \in Nat \cup {Absent}
  PROVE  /\ UnitStart(d, l) \in Servers \cup {Absent}
         /\ UnitStart(d, l) # Absent =>
                /\ UnitStart(d, l).run = d.unit /\ d.unit # Absent
                /\ d.unit.mode # "acme" => UnitStart(d, l).key = d.key
<1>1. CASE d.unit = Absent
  BY <1>1 DEF UnitStart
<1>2. CASE d.unit # Absent
  <2>1. d.unit \in CommandLines
    BY <1>2
  <2> DEFINE m == [l EXCEPT !.ws = Absent]
  <2>2. UnitStart(d, l) = Process(d.unit, d, m)
    BY <1>2 DEF UnitStart
  <2> HIDE DEF m
  <2> QED
    BY <1>2, <2>1, <2>2, ProcessIs
<1> QED
  BY <1>1, <1>2

\* The manager's start brings the interface to its configuration and leaves the rest.
LEMMA ManagerStarts ==
  ASSUME TransportTypeOK, NEW c \in Configs, Started(c)
  PROVE  /\ disk' \in Disks /\ live' \in Lives
         /\ disk'.key = disk.key /\ disk'.cert = disk.cert /\ disk'.unit = disk.unit
         /\ disk'.wgconf = WgConf(c) /\ live'.wg = WgConf(c) /\ live'.ws = live.ws
<1>1. /\ disk \in Disks /\ live \in Lives
      /\ CommandLine(c) \in CommandLines /\ WgConf(c) \in WgConfs
  BY DEF TransportTypeOK, CommandLine, WgConf, Configs, CommandLines, WgConfs
<1> DEFINE m == [live EXCEPT !.sub = Absent]
           new == SubStart(c, disk, live)
<1>2. new = Process(CommandLine(c), disk, m)
  BY DEF SubStart
<1>3. new \in Servers \cup {Absent}
  <2> HIDE DEF new, m
  <2> QED
    BY <1>1, <1>2, ProcessIs DEF Disks
<1>4. /\ disk' = [disk EXCEPT !.wgconf = WgConf(c)]
      /\ live' = [live EXCEPT !.wg = WgConf(c), !.sub = new, !.held = TRUE]
  BY DEF Started
<1> HIDE DEF new
<1>5. live' \in Lives /\ live'.wg = WgConf(c) /\ live'.ws = live.ws
  BY <1>1, <1>3, <1>4 DEF Lives
<1> QED
  BY <1>1, <1>4, <1>5 DEF Disks

LEMMA Derived ==
  ASSUME NEW c \in Configs
  PROVE  /\ CommandLine(c) \in CommandLines /\ WgConf(c) \in WgConfs
         /\ c # Absent /\ CommandLine(c) # Absent /\ WgConf(c) # Absent
         /\ CommandLine(c).mode = c.mode
  BY TransportAssumption DEF CommandLine, WgConf, Configs, CommandLines, WgConfs

\* The step an operation is at tells which operation it is.
LEMMA StepTells ==
  ASSUME TransportInv, job \in Jobs
  PROVE  /\ job.at \in {"key", "cert", "save"} => job.op \in Setups \cup Renewals
         /\ job.at \in {"wg", "ws", "caddy"} => job.op = "setup" /\ conf \in Configs
         /\ job.at \in {"install wg", "restart wg", "restart ws"} =>
                job.op = "restart" /\ conf \in Configs
         /\ job.at \in {"remove ws", "remove wg", "remove caddy", "remove files"} =>
                job.op = "uninstall"
         /\ job.at \in {"bounce ws", "bounce sub"} => job.op \in {"rotate", "update"}
         /\ job.at = "bounce wg" => job.op = "update"
         /\ job.conf \in Configs
         /\ job.op \in Operations
<1>1. job.op \in Setups \/ job.op \in Renewals \/ job.op \in {"restart", "uninstall", "update"}
  BY DEF Jobs, Operations, Renewals
<1>2. job.conf \in Configs /\ conf \in Configs \cup {Absent}
  BY DEF Jobs, TransportInv, TransportTypeOK
<1>3. SetupOK /\ RenewOK /\ RestartOK /\ UninstallOK /\ UpdateOK
  BY DEF TransportInv, JobOK
<1> QED
  BY <1>1, <1>2, <1>3
     DEF SetupOK, RenewOK, RestartOK, UninstallOK, UpdateOK, Jobs, Renewals

-----------------------------------------------------------------------------
(* The steps.                                                              *)

LEMMA WriteKeyKeeps == ASSUME TransportInv, WriteKey PROVE TransportInv'
<1>1. /\ job \in Jobs /\ job.at = "key" /\ job # Idle /\ job' \in Jobs
      /\ job'.op = job.op /\ job'.at = "cert"
      /\ job'.conf = job.conf /\ job'.whole = job.whole
  BY GoesOn, IdleIsNoJob DEF WriteKey, TransportInv, OpSteps
<1>2. TransportTypeOK'
  <2>1. disk' \in Disks /\ live' \in Lives
    BY <1>1, StepTells DEF WriteKey, TransportInv, TransportTypeOK, Disks, Configs
  <2> QED
    BY <1>1, <2>1 DEF WriteKey, Fault, TransportInv, TransportTypeOK
<1>3. OverAtRest' /\ JobOK'
  BY <1>1
     DEF WriteKey, TransportInv, OverAtRest, Panel, JobOK, SetupOK, RenewOK, Renewals, FilesOK,
         RestartOK,
         UninstallOK, UpdateOK
<1>4. Matching' /\ UnitFits' /\ Restarted'
  BY <1>1, StepTells
     DEF WriteKey, TransportInv, Matching, UnitFits, Sound, Renewals, Restarted, Panel, JobOK,
         SetupOK,
         RenewOK
<1> QED
  BY <1>2, <1>3, <1>4 DEF TransportInv

LEMMA WriteCertKeeps == ASSUME TransportInv, WriteCert PROVE TransportInv'
<1>1. /\ job \in Jobs /\ job.at = "cert" /\ job # Idle /\ job' \in Jobs
      /\ job'.op = job.op /\ job'.at = "save"
      /\ job'.conf = job.conf /\ job'.whole = job.whole
  BY GoesOn, IdleIsNoJob DEF WriteCert, TransportInv, OpSteps
<1>2. TransportTypeOK'
  <2>1. disk' \in Disks /\ live' \in Lives
    BY DEF WriteCert, TransportInv, TransportTypeOK, Disks
  <2> QED
    BY <1>1, <2>1 DEF WriteCert, Fault, TransportInv, TransportTypeOK
<1>3. OverAtRest' /\ JobOK'
  BY <1>1
     DEF WriteCert, TransportInv, OverAtRest, Panel, JobOK, SetupOK, RenewOK, Renewals,
         FilesOK, RestartOK,
         UninstallOK, UpdateOK
<1>4. Matching' /\ UnitFits' /\ Restarted'
  BY <1>1 DEF WriteCert, TransportInv, Matching, UnitFits, Sound, Renewals, Restarted, Panel
<1> QED
  BY <1>2, <1>3, <1>4 DEF TransportInv

LEMMA SetupWgKeeps == ASSUME TransportInv, SetupWg PROVE TransportInv'
<1>1. /\ job \in Jobs /\ job.at = "wg" /\ job # Idle /\ job' \in Jobs
      /\ job'.op = job.op /\ job'.at = "ws"
      /\ job'.conf = job.conf /\ job'.whole = job.whole
  BY GoesOn, IdleIsNoJob DEF SetupWg, TransportInv, OpSteps
<1>2. TransportTypeOK'
  <2>1. disk' \in Disks /\ live' \in Lives
    BY <1>1, StepTells, Derived DEF SetupWg, TransportInv, TransportTypeOK, Disks, Lives
  <2> QED
    BY <1>1, <2>1 DEF SetupWg, Fault, TransportInv, TransportTypeOK
<1>3. OverAtRest' /\ JobOK'
  BY <1>1
     DEF SetupWg, TransportInv, OverAtRest, Panel, JobOK, SetupOK, RenewOK, Renewals, FilesOK,
         RestartOK,
         UninstallOK, UpdateOK
<1>4. Matching' /\ UnitFits' /\ Restarted'
  BY <1>1, StepTells
     DEF SetupWg, TransportInv, Matching, UnitFits, Sound, Renewals, Restarted, JobOK, SetupOK
<1> QED
  BY <1>2, <1>3, <1>4 DEF TransportInv

LEMMA InstallWgKeeps == ASSUME TransportInv, InstallWg PROVE TransportInv'
<1>1. /\ job \in Jobs /\ job.at = "install wg" /\ job # Idle /\ job' \in Jobs
      /\ job'.op = job.op /\ job'.at = "restart wg"
      /\ job'.conf = job.conf /\ job'.whole = job.whole
  BY GoesOn, IdleIsNoJob DEF InstallWg, TransportInv, OpSteps
<1>2. TransportTypeOK'
  <2>1. disk' \in Disks /\ live' \in Lives
    BY <1>1, StepTells, Derived DEF InstallWg, TransportInv, TransportTypeOK, Disks, Lives
  <2> QED
    BY <1>1, <2>1 DEF InstallWg, Fault, TransportInv, TransportTypeOK
<1>3. OverAtRest' /\ JobOK'
  BY <1>1
     DEF InstallWg, TransportInv, OverAtRest, Panel, JobOK, SetupOK, RenewOK, Renewals,
         FilesOK, RestartOK,
         UninstallOK, UpdateOK, TransportTypeOK, Disks, Lives
<1>4. Matching' /\ UnitFits' /\ Restarted'
  BY <1>1, StepTells
     DEF InstallWg, TransportInv, TransportTypeOK, Disks, Matching, UnitFits, Sound, Renewals,
         Restarted, OverAtRest, JobOK, RestartOK
<1> QED
  BY <1>2, <1>3, <1>4 DEF TransportInv

LEMMA RestartWgKeeps == ASSUME TransportInv, RestartWg PROVE TransportInv'
<1>1. /\ job \in Jobs /\ job.at = "restart wg" /\ job # Idle /\ job' \in Jobs
      /\ job'.op = job.op /\ job'.at = "restart ws"
      /\ job'.conf = job.conf /\ job'.whole = job.whole
  BY GoesOn, IdleIsNoJob DEF RestartWg, TransportInv, OpSteps
<1>2. TransportTypeOK'
  <2>1. disk' \in Disks /\ live' \in Lives
    BY DEF RestartWg, TransportInv, TransportTypeOK, Disks, Lives
  <2> QED
    BY <1>1, <2>1 DEF RestartWg, Fault, TransportInv, TransportTypeOK
<1>3. OverAtRest' /\ JobOK'
  BY <1>1
     DEF RestartWg, TransportInv, OverAtRest, Panel, JobOK, SetupOK, RenewOK, Renewals,
         FilesOK, RestartOK,
         UninstallOK, UpdateOK, TransportTypeOK, Lives
<1>4. Matching' /\ UnitFits' /\ Restarted'
  BY <1>1, StepTells
     DEF RestartWg, TransportInv, Matching, UnitFits, Sound, Renewals, Restarted, OverAtRest,
         JobOK,
         RestartOK
<1> QED
  BY <1>2, <1>3, <1>4 DEF TransportInv

LEMMA RemoveWsKeeps == ASSUME TransportInv, RemoveWs PROVE TransportInv'
<1>1. /\ job \in Jobs /\ job.at = "remove ws" /\ job # Idle /\ job' \in Jobs
      /\ job'.op = job.op /\ job'.at = "remove wg"
      /\ job'.conf = job.conf /\ job'.whole = job.whole
  BY GoesOn, IdleIsNoJob DEF RemoveWs, TransportInv, OpSteps
<1>2. TransportTypeOK'
  <2>1. disk' \in Disks /\ live' \in Lives
    BY DEF RemoveWs, TransportInv, TransportTypeOK, Disks, Lives
  <2>2. breakdowns' \in Nat
    <3>1. breakdowns \in Nat /\ breakdowns' \in {breakdowns, breakdowns + 1}
      BY DEF RemoveWs, Fault, TransportInv, TransportTypeOK
    <3> QED
      BY <3>1
  <2>3. behind' \in BOOLEAN
    BY DEF RemoveWs, TransportInv, TransportTypeOK
  <2>4. conf' \in Configs \cup {Absent}
    BY DEF RemoveWs, TransportInv, TransportTypeOK
  <2> QED
    BY <1>1, <2>1, <2>2 DEF RemoveWs, TransportInv, TransportTypeOK
<1>3. OverAtRest' /\ JobOK'
  BY <1>1
     DEF RemoveWs, TransportInv, OverAtRest, Panel, JobOK, SetupOK, RenewOK, Renewals, FilesOK,
         RestartOK,
         UninstallOK, UpdateOK, TransportTypeOK, Disks
<1>4. Matching' /\ UnitFits' /\ Restarted'
  BY <1>1, StepTells
     DEF RemoveWs, TransportInv, Matching, UnitFits, Sound, Renewals, Restarted, JobOK,
         UninstallOK
<1> QED
  BY <1>2, <1>3, <1>4 DEF TransportInv

LEMMA RemoveWgKeeps == ASSUME TransportInv, RemoveWg PROVE TransportInv'
<1>1. /\ job \in Jobs /\ job.at = "remove wg" /\ job # Idle /\ job' \in Jobs
      /\ job'.op = job.op /\ job'.at = "remove caddy"
      /\ job'.conf = job.conf /\ job'.whole = job.whole
  BY GoesOn, IdleIsNoJob DEF RemoveWg, TransportInv, OpSteps
<1>2. TransportTypeOK'
  <2>1. disk' \in Disks /\ live' \in Lives
    BY DEF RemoveWg, TransportInv, TransportTypeOK, Disks, Lives
  <2>2. breakdowns' \in Nat
    <3>1. breakdowns \in Nat /\ breakdowns' \in {breakdowns, breakdowns + 1}
      BY DEF RemoveWg, Fault, TransportInv, TransportTypeOK
    <3> QED
      BY <3>1
  <2>3. behind' \in BOOLEAN
    BY DEF RemoveWg, TransportInv, TransportTypeOK
  <2>4. conf' \in Configs \cup {Absent}
    BY DEF RemoveWg, TransportInv, TransportTypeOK
  <2> QED
    BY <1>1, <2>1, <2>2 DEF RemoveWg, TransportInv, TransportTypeOK
<1>3. OverAtRest' /\ JobOK'
  BY <1>1
     DEF RemoveWg, TransportInv, OverAtRest, Panel, JobOK, SetupOK, RenewOK, Renewals, FilesOK,
         RestartOK,
         UninstallOK, UpdateOK, TransportTypeOK, Disks
<1>4. Matching' /\ UnitFits' /\ Restarted'
  BY <1>1, StepTells
     DEF RemoveWg, TransportInv, Matching, UnitFits, Sound, Renewals, Restarted, JobOK,
         UninstallOK
<1> QED
  BY <1>2, <1>3, <1>4 DEF TransportInv

LEMMA RemoveCaddyKeeps == ASSUME TransportInv, RemoveCaddy PROVE TransportInv'
<1>1. /\ job \in Jobs /\ job.at = "remove caddy" /\ job # Idle /\ job' \in Jobs
      /\ job'.op = job.op /\ job'.at = "remove files"
      /\ job'.conf = job.conf /\ job'.whole = job.whole
  BY GoesOn, IdleIsNoJob DEF RemoveCaddy, TransportInv, OpSteps
<1>2. TransportTypeOK'
  <2>1. disk' \in Disks /\ live' \in Lives
    BY DEF RemoveCaddy, TransportInv, TransportTypeOK, Disks, Lives
  <2> QED
    BY <1>1, <2>1 DEF RemoveCaddy, Fault, TransportInv, TransportTypeOK
<1>3. OverAtRest' /\ JobOK'
  BY <1>1
     DEF RemoveCaddy, TransportInv, OverAtRest, Panel, JobOK, SetupOK, RenewOK, Renewals,
         FilesOK,
         RestartOK, UninstallOK, UpdateOK, TransportTypeOK, Disks
<1>4. Matching' /\ UnitFits' /\ Restarted'
  BY <1>1, StepTells
     DEF RemoveCaddy, TransportInv, Matching, UnitFits, Sound, Renewals, Restarted, JobOK,
         UninstallOK
<1> QED
  BY <1>2, <1>3, <1>4 DEF TransportInv

LEMMA SetupCaddyKeeps == ASSUME TransportInv, SetupCaddy PROVE TransportInv'
<1>1. job \in Jobs /\ job.at = "caddy" /\ job' = Idle /\ job # Idle
  BY Works DEF SetupCaddy, TransportInv
<1>2. TransportTypeOK'
  <2>1. disk' \in Disks /\ live' \in Lives
    BY <1>1, StepTells DEF SetupCaddy, TransportInv, TransportTypeOK, Disks, Lives, Configs
  <2> QED
    BY <1>1, <2>1 DEF SetupCaddy, Fault, TransportInv, TransportTypeOK
<1>3. OverAtRest' /\ JobOK'
  BY NothingAtWork DEF SetupCaddy, TransportInv, OverAtRest, Panel
<1>4. /\ conf # Absent /\ disk.key = conf.key /\ disk.cert = conf.key /\ issued = {}
      /\ disk.unit = CommandLine(conf)
  BY <1>1, StepTells, Derived DEF TransportInv, JobOK, SetupOK, Setups
<1>5. disk'.key = disk.key /\ disk'.cert = disk.cert /\ disk'.unit = disk.unit
  BY DEF SetupCaddy, TransportInv, TransportTypeOK, Disks
<1>6. settled' = "setup" /\ UNCHANGED <<conf, issued>>
  BY DEF SetupCaddy
<1>7. Matching' /\ UnitFits' /\ Restarted'
  BY <1>4, <1>5, <1>6 DEF Matching, UnitFits, Restarted
<1> QED
  BY <1>2, <1>3, <1>7 DEF TransportInv

LEMMA RestartWsKeeps == ASSUME TransportInv, RestartWs PROVE TransportInv'
<1>1. job \in Jobs /\ job.at = "restart ws" /\ job' = Idle /\ job # Idle
  BY Works DEF RestartWs, TransportInv
<1>2. TransportTypeOK'
  <2>1. disk' \in Disks /\ live' \in Lives
    BY Starts DEF RestartWs, TransportInv, TransportTypeOK, Disks, Lives
  <2> QED
    BY <1>1, <2>1 DEF RestartWs, Fault, TransportInv, TransportTypeOK
<1>3. OverAtRest' /\ JobOK'
  BY NothingAtWork DEF RestartWs, TransportInv, OverAtRest, Panel
<1>4. Matching' /\ UnitFits'
  BY IdleIsNoJob DEF RestartWs, TransportInv, Matching, UnitFits, Sound, Renewals, Panel
<1>5. Restarted'
  <2>1. /\ conf \in Configs /\ conf # Absent /\ disk.unit # Absent
        /\ disk \in Disks /\ live \in Lives
    BY <1>1, StepTells, Derived DEF RestartWs, TransportInv, TransportTypeOK
  <2>2. whole /\ ~behind => disk.unit = CommandLine(conf)
    BY <2>1 DEF TransportInv, UnitFits, Sound, Renewals
  <2>3. disk.wgconf = WgConf(conf) /\ live.wg = WgConf(conf)
    BY <1>1, StepTells DEF TransportInv, JobOK, RestartOK
  <2>4. disk.unit \in CommandLines /\ disk.key \in Nat \cup {Absent}
    BY <2>1 DEF Disks
  <2>5. live'.ws = UnitStart(disk, live) /\ live'.wg = live.wg
        /\ UNCHANGED <<conf, cached, disk, whole, behind>>
    BY <2>1 DEF RestartWs, Lives
  <2>6. live'.ws # Absent => live'.ws.run = disk.unit
                             /\ (disk.unit.mode # "acme" => live'.ws.key = disk.key)
    BY <2>4, <2>5, Starts
  <2>7. CommandLine(conf).mode = conf.mode
    BY <2>1, Derived
  <2> QED
    BY <2>1, <2>2, <2>3, <2>5, <2>6, <2>7 DEF Restarted
<1> QED
  BY <1>2, <1>3, <1>4, <1>5 DEF TransportInv

LEMMA NoUnitKeeps == ASSUME TransportInv, NoUnit PROVE TransportInv'
<1>1. job \in Jobs /\ job.at = "restart ws" /\ job' = Idle /\ job # Idle
  BY Works DEF NoUnit, TransportInv
<1>2. TransportTypeOK'
  <2>1. disk' \in Disks /\ live' \in Lives
    BY DEF NoUnit, TransportInv, TransportTypeOK
  <2> QED
    BY <1>1, <2>1 DEF NoUnit, Fault, TransportInv, TransportTypeOK
<1>3. OverAtRest' /\ JobOK'
  BY NothingAtWork DEF NoUnit, TransportInv, OverAtRest, Panel
<1>4. Matching' /\ UnitFits' /\ Restarted'
  BY <1>1, StepTells DEF NoUnit, TransportInv, Matching, UnitFits, Restarted, JobOK, RestartOK
<1> QED
  BY <1>2, <1>3, <1>4 DEF TransportInv

LEMMA RemoveFilesKeeps == ASSUME TransportInv, RemoveFiles PROVE TransportInv'
<1>1. job \in Jobs /\ job.at = "remove files" /\ job' = Idle /\ job # Idle
  BY Works DEF RemoveFiles, TransportInv
<1>2. TransportTypeOK'
  <2>1. disk' \in Disks /\ live' \in Lives
    BY DEF RemoveFiles, TransportInv, TransportTypeOK, Disks
  <2>2. breakdowns' \in Nat
    <3>1. breakdowns \in Nat /\ breakdowns' \in {breakdowns, breakdowns + 1}
      BY DEF RemoveFiles, Fault, TransportInv, TransportTypeOK
    <3> QED
      BY <3>1
  <2>3. behind' \in BOOLEAN
    BY DEF RemoveFiles, TransportInv, TransportTypeOK
  <2>4. conf' \in Configs \cup {Absent}
    BY DEF RemoveFiles, TransportInv, TransportTypeOK
  <2> QED
    BY <2>1, <2>2 DEF RemoveFiles, TransportInv, TransportTypeOK
<1>3. OverAtRest' /\ JobOK'
  BY <1>1, StepTells, NothingAtWork
     DEF RemoveFiles, TransportInv, OverAtRest, Panel, JobOK, UninstallOK
<1>4. Matching' /\ UnitFits' /\ Restarted'
  BY <1>1, StepTells
     DEF RemoveFiles, TransportInv, TransportTypeOK, Disks, Matching, UnitFits, Restarted,
         JobOK, UninstallOK
<1> QED
  BY <1>2, <1>3, <1>4 DEF TransportInv

LEMMA BounceWgKeeps == ASSUME TransportInv, BounceWg PROVE TransportInv'
<1>1. job \in Jobs /\ job.at = "bounce wg" /\ job' = Idle /\ job # Idle
  BY Works DEF BounceWg, TransportInv
<1>2. TransportTypeOK'
  <2>1. disk' \in Disks /\ live' \in Lives
    <3>1. job.conf \in Configs /\ disk \in Disks /\ live \in Lives
      BY <1>1, StepTells DEF TransportInv, TransportTypeOK
    <3>2. CASE WgPortChanged /\ live.wg # Absent
      BY <3>1, <3>2 DEF BounceWg, Disks, Lives
    <3>3. CASE ~(WgPortChanged /\ live.wg # Absent)
      BY <3>1, <3>3, Derived DEF BounceWg, Disks, Lives
    <3> QED
      BY <3>2, <3>3
  <2> QED
    BY <1>1, <2>1 DEF BounceWg, Fault, TransportInv, TransportTypeOK
<1>3. OverAtRest' /\ JobOK'
  BY <1>1, StepTells, NothingAtWork DEF BounceWg, TransportInv, OverAtRest, JobOK, UpdateOK
<1>4. disk'.key = disk.key /\ disk'.cert = disk.cert /\ disk'.unit = disk.unit
  BY DEF BounceWg, TransportInv, TransportTypeOK, Disks
<1>5. settled' # "restart" /\ UNCHANGED <<conf, issued, whole, behind>>
  BY DEF BounceWg
<1>6. Matching' /\ UnitFits' /\ Restarted'
  BY <1>1, <1>4, <1>5, IdleIsNoJob
     DEF TransportInv, Matching, UnitFits, Sound, Renewals, Restarted
<1> QED
  BY <1>2, <1>3, <1>6 DEF TransportInv

\* A setup that begins: nothing of an earlier server is promised any more.
LEMMA SetupBegins ==
  ASSUME TransportInv, NEW op \in Setups, NEW c \in Configs, 
         Begin(op, "key", c, FALSE),
         op # "setup" => conf = Absent, issued' = {}, whole' = FALSE,
         UNCHANGED <<conf, cached, disk, live, behind>>
  PROVE  TransportInv'
<1>1. /\ job = Idle /\ job' \in Jobs /\ job' # Idle
      /\ job'.op = op /\ job'.at = "key" /\ job'.conf = c /\ job'.whole = FALSE
      /\ settled' = "no" /\ ops' \in Nat /\ UNCHANGED breakdowns
  <2>1. FALSE \in BOOLEAN /\ "key" \in OpSteps /\ op \in Operations /\ TransportTypeOK
    BY DEF Operations, OpSteps, TransportInv
  <2> QED
    BY <2>1, Begins
<1>2. TransportTypeOK'
  BY <1>1 DEF TransportInv, TransportTypeOK
<1>3. OverAtRest' /\ JobOK'
  BY <1>1
     DEF OverAtRest, Panel, JobOK, SetupOK, RenewOK, Renewals, FilesOK, RestartOK, UninstallOK,
         UpdateOK,
         Setups
<1>4. Matching' /\ UnitFits' /\ Restarted'
  BY <1>1 DEF TransportInv, Matching, UnitFits, Sound, Renewals, Restarted
<1> QED
  BY <1>2, <1>3, <1>4 DEF TransportInv

LEMMA FreshIsConfig ==
  ASSUME TransportInv, NEW mode \in {"self-signed", "acme"}, NEW port \in Ports,
         NEW wgPort \in WgPorts
  PROVE  Fresh(mode, port, wgPort) \in Configs
  BY DEF Fresh, Configs, TransportInv, TransportTypeOK

LEMMA WizardKeeps == ASSUME TransportInv, Wizard PROVE TransportInv'
<1>1. PICK mode \in {"self-signed", "acme"}, port \in Ports, wgPort \in WgPorts :
        Begin("setup", "key", Fresh(mode, port, wgPort), FALSE)
  BY DEF Wizard
<1> QED
  BY <1>1, FreshIsConfig, SetupBegins DEF Wizard, Setups

LEMMA PodInitKeeps == ASSUME TransportInv, PodInit PROVE TransportInv'
<1>1. PICK port \in Ports, wgPort \in WgPorts :
        Begin("init", "key", Fresh("self-signed", port, wgPort), FALSE)
  BY DEF PodInit
<1> QED
  BY <1>1, FreshIsConfig, SetupBegins DEF PodInit, Setups

LEMMA RunSetupKeeps == ASSUME TransportInv, RunSetup PROVE TransportInv'
<1>1. PICK port \in Ports, wgPort \in WgPorts :
        Begin("run_setup", "key", Fresh("self-signed", port, wgPort), FALSE)
  BY DEF RunSetup
<1> QED
  BY <1>1, FreshIsConfig, SetupBegins DEF RunSetup, Setups

LEMMA PanelOpensKeeps == ASSUME TransportInv, PanelOpens PROVE TransportInv'
<1>1. TransportTypeOK' /\ OverAtRest'
  BY DEF PanelOpens, TransportInv, TransportTypeOK, OverAtRest, Panel
<1>2. JobOK'
  BY NothingAtWork DEF PanelOpens
<1>3. Matching' /\ UnitFits' /\ Restarted'
  BY DEF PanelOpens, TransportInv, Matching, UnitFits, Sound, Restarted
<1> QED
  BY <1>1, <1>2, <1>3 DEF TransportInv

\* The manager's start and stop.
LEMMA PanelStartsKeeps == ASSUME TransportInv, PanelStarts PROVE TransportInv'
<1>1. cached \in Configs /\ Started(cached) /\ job = Idle
      /\ UNCHANGED <<conf, cached, job, issued, behind, settled, ops, breakdowns>>
  BY DEF PanelStarts, Panel, TransportInv, TransportTypeOK
<1>2. /\ disk' \in Disks /\ live' \in Lives
      /\ disk'.key = disk.key /\ disk'.cert = disk.cert /\ disk'.unit = disk.unit
      /\ disk'.wgconf = WgConf(cached) /\ live'.wg = WgConf(cached) /\ live'.ws = live.ws
  BY <1>1, ManagerStarts DEF TransportInv
<1>3. whole' \in BOOLEAN /\ (whole' => whole /\ cached = conf)
  BY DEF PanelStarts, StillWhole, TransportInv, TransportTypeOK
<1>4. TransportTypeOK' /\ OverAtRest'
  BY <1>1, <1>2, <1>3 DEF TransportInv, TransportTypeOK, OverAtRest
<1>5. JobOK'
  BY <1>1, NothingAtWork
<1>6. Matching' /\ UnitFits' /\ Restarted'
  BY <1>1, <1>2, <1>3, IdleIsNoJob
     DEF TransportInv, Matching, UnitFits, Sound, Renewals, Restarted
<1> QED
  BY <1>4, <1>5, <1>6 DEF TransportInv

LEMMA PanelStopsKeeps == ASSUME TransportInv, PanelStops PROVE TransportInv'
<1>1. /\ cached' \in {cached, Absent} /\ settled' = "no" /\ job' = Idle
      /\ disk' = [disk EXCEPT !.wgconf = Absent]
      /\ live' = [live EXCEPT !.wg = Absent, !.sub = Absent, !.held = FALSE]
      /\ UNCHANGED <<conf, job, issued, whole, behind, ops, breakdowns>>
  BY DEF PanelStops
<1>2. /\ disk' \in Disks /\ disk'.key = disk.key /\ disk'.cert = disk.cert
      /\ disk'.unit = disk.unit
  BY <1>1 DEF TransportInv, TransportTypeOK, Disks
<1>3. live' \in Lives
  BY <1>1 DEF TransportInv, TransportTypeOK, Lives
<1>4. TransportTypeOK' /\ OverAtRest'
  BY <1>1, <1>2, <1>3 DEF TransportInv, TransportTypeOK, OverAtRest
<1>5. JobOK'
  BY <1>1, NothingAtWork
<1>6. Matching' /\ UnitFits' /\ Restarted'
  BY <1>1, <1>2, IdleIsNoJob
     DEF TransportInv, Matching, UnitFits, Sound, Renewals, Restarted
<1> QED
  BY <1>4, <1>5, <1>6 DEF TransportInv

\* A renewal begins from the file, or from the panel's copy.
LEMMA RenewKeeps ==
  ASSUME TransportInv, NEW op \in Renewals, NEW newKey \in BOOLEAN, NEW from \in Configs,
         op = "rotate" => Panel, Renew(op, newKey, from)
  PROVE  TransportInv'
<1> DEFINE drawn == IF newKey THEN ops + 1 ELSE disk.key
           c == [from EXCEPT !.key = drawn]
           still == StillWhole(from)
<1>1. disk \in Disks /\ ops \in Nat /\ still \in BOOLEAN /\ (still => whole /\ from = conf)
  BY DEF TransportInv, TransportTypeOK, StillWhole
<1>2. drawn \in Nat
  <2>1. CASE newKey
    BY <2>1, <1>1
  <2>2. CASE ~newKey
    BY <2>2, <1>1 DEF Renew, Disks
  <2> QED
    BY <2>1, <2>2
<1>3. /\ c \in Configs /\ c.key = drawn /\ CommandLine(c) = CommandLine(from)
      /\ drawn = from.key => c = from
  BY <1>2 DEF Configs, CommandLine
<1>4. Begin(op, IF newKey THEN "key" ELSE "cert", c, still)
  BY DEF Renew
<1>5. /\ job = Idle /\ job' \in Jobs /\ job' # Idle
      /\ job'.op = op /\ job'.at = (IF newKey THEN "key" ELSE "cert") /\ job'.conf = c
      /\ job'.whole = still
      /\ settled' = "no" /\ ops' \in Nat /\ UNCHANGED breakdowns
  <2> "key" \in OpSteps /\ "cert" \in OpSteps /\ op \in Operations /\ TransportTypeOK
    BY DEF Operations, Renewals, OpSteps, TransportInv
  <2> HIDE DEF c, drawn, still
  <2>1. CASE newKey
    BY <2>1, <1>1, <1>3, <1>4, Begins
  <2>2. CASE ~newKey
    BY <2>2, <1>1, <1>3, <1>4, Begins
  <2> QED
    BY <2>1, <2>2
<1>6. /\ UNCHANGED <<conf, cached, disk, live, behind>>
      /\ issued' = (IF newKey THEN {} ELSE issued) /\ whole' = (still /\ ~newKey)
  BY DEF Renew
<1>7. ~newKey => drawn = disk.key
  BY DEF drawn
<1> HIDE DEF c, drawn, still
<1>8. TransportTypeOK'
  BY <1>1, <1>5, <1>6 DEF TransportInv, TransportTypeOK
<1>9. from # Absent
  BY TransportAssumption
<1>10. still => disk.key = from.key
  BY <1>1, <1>9 DEF TransportInv, Matching
<1>11. RenewOK'
  <2>1. job'.at \in {"key", "cert"} /\ (job'.op = "rotate" => Panel')
    BY <1>5, <1>6 DEF Panel
  <2>2. job'.whole => conf' # Absent /\ CommandLine(job'.conf) = CommandLine(conf')
    BY <1>1, <1>3, <1>5, <1>6, <1>9
  <2>3. whole' => job'.at # "key" /\ job'.whole /\ job'.conf = conf'
    BY <1>1, <1>3, <1>5, <1>6, <1>7, <1>10
  <2>4. ~whole' /\ job'.whole => issued' = {}
    BY <1>5, <1>6
  <2> QED
    BY <2>1, <2>2, <2>3, <2>4 DEF RenewOK, Renewals
<1>12. OverAtRest' /\ JobOK'
  BY <1>5, <1>6, <1>7, <1>3, <1>11
     DEF TransportInv, OverAtRest, JobOK, SetupOK, FilesOK, RestartOK, UninstallOK,
         UpdateOK, Setups, Renewals
<1>13. Matching' /\ UnitFits' /\ Restarted'
  BY <1>1, <1>5, <1>6 DEF TransportInv, Matching, UnitFits, Sound, Renewals, Restarted
<1> QED
  BY <1>8, <1>12, <1>13 DEF TransportInv

LEMMA RenewCertKeeps ==
  ASSUME TransportInv, NEW newKey \in BOOLEAN, RenewCert(newKey) \/ RotateTlsCert(newKey)
  PROVE  TransportInv'
<1>1. CASE RenewCert(newKey)
  BY <1>1, RenewKeeps DEF RenewCert, Renewals, TransportInv, TransportTypeOK
<1>2. CASE RotateTlsCert(newKey)
  BY <1>2, RenewKeeps DEF RotateTlsCert, Renewals, Panel, TransportInv, TransportTypeOK
<1> QED
  BY <1>1, <1>2

LEMMA RestartKeeps == ASSUME TransportInv, Restart PROVE TransportInv'
<1>1. /\ job = Idle /\ job' \in Jobs /\ job' # Idle /\ conf \in Configs
      /\ job'.op = "restart" /\ job'.at = "install wg" /\ job'.conf = conf
      /\ settled' = "no" /\ ops' \in Nat /\ UNCHANGED breakdowns
  <2> DEFINE step == "install wg"
  <2>1. conf \in Configs /\ Begin("restart", step, conf, whole)
    BY DEF Restart, TransportInv, TransportTypeOK
  <2>2. whole \in BOOLEAN /\ "restart" \in Operations /\ step \in OpSteps /\ TransportTypeOK
    BY DEF Operations, OpSteps, TransportInv, TransportTypeOK
  <2> HIDE DEF step
  <2>3. /\ job = Idle /\ job' \in Jobs /\ job' # Idle /\ conf \in Configs
        /\ job'.op = "restart" /\ job'.at = step /\ job'.conf = conf
        /\ settled' = "no" /\ ops' \in Nat /\ UNCHANGED breakdowns
    BY <2>1, <2>2, Begins
  <2> QED
    BY <2>3 DEF step
<1>2. TransportTypeOK'
  BY <1>1 DEF Restart, TransportInv, TransportTypeOK
<1>3. OverAtRest' /\ JobOK'
  BY <1>1
     DEF Restart, OverAtRest, Panel, JobOK, SetupOK, RenewOK, Renewals, FilesOK, RestartOK,
         UninstallOK,
         UpdateOK, Setups
<1>4. Matching' /\ UnitFits' /\ Restarted'
  BY <1>1 DEF Restart, TransportInv, Matching, UnitFits, Sound, Renewals, Restarted
<1> QED
  BY <1>2, <1>3, <1>4 DEF TransportInv

LEMMA UninstallKeeps == ASSUME TransportInv, Uninstall PROVE TransportInv'
<1>1. /\ job = Idle /\ job' \in Jobs /\ job' # Idle /\ conf \in Configs
      /\ job'.op = "uninstall" /\ job'.at = "remove ws" /\ job'.conf = conf
      /\ settled' = "no" /\ ops' \in Nat /\ UNCHANGED breakdowns
  <2>1. conf \in Configs /\ Begin("uninstall", "remove ws", conf, FALSE)
    BY DEF Uninstall, TransportInv, TransportTypeOK
  <2>2. FALSE \in BOOLEAN /\ "uninstall" \in Operations /\ "remove ws" \in OpSteps /\ TransportTypeOK
    BY DEF Operations, OpSteps, TransportInv, TransportTypeOK
  <2> QED
    BY <2>1, <2>2, Begins, ZenonT(60)
<1>2. TransportTypeOK'
  BY <1>1 DEF Uninstall, TransportInv, TransportTypeOK
<1>3. OverAtRest' /\ JobOK'
  BY <1>1
     DEF Uninstall, OverAtRest, Panel, JobOK, SetupOK, RenewOK, Renewals, FilesOK, RestartOK,
         UninstallOK,
         UpdateOK, Setups
<1>4. Matching' /\ UnitFits' /\ Restarted'
  BY <1>1 DEF Uninstall, Matching, UnitFits, Sound, Renewals, Restarted
<1> QED
  BY <1>2, <1>3, <1>4 DEF TransportInv

LEMMA UpdateConfigKeeps == ASSUME TransportInv, UpdateConfig PROVE TransportInv'
<1>1. PICK port \in Ports, wgPort \in WgPorts :
        LET c == [cached EXCEPT !.port = port, !.wgPort = wgPort] IN
        /\ Begin("update", "bounce ws", c, StillWhole(cached)) /\ conf' = c /\ cached' = c
        /\ behind' = (behind \/ CommandLine(c) # CommandLine(cached))
  BY DEF UpdateConfig
<1> DEFINE c == [cached EXCEPT !.port = port, !.wgPort = wgPort]
           still == StillWhole(cached)
<1>2. cached \in Configs
  BY DEF UpdateConfig, Panel, TransportInv, TransportTypeOK
<1>3. c \in Configs /\ c.key = cached.key /\ c # Absent
  BY <1>2, TransportAssumption DEF Configs
<1>4. /\ Begin("update", "bounce ws", c, still) /\ conf' = c /\ cached' = c
      /\ behind' = (behind \/ CommandLine(c) # CommandLine(cached))
  BY <1>1
<1>5. still \in BOOLEAN /\ (still => whole /\ cached = conf) /\ behind' \in BOOLEAN
  BY <1>4 DEF TransportInv, TransportTypeOK, StillWhole
<1>6. issued' = {} /\ whole' = still /\ UNCHANGED <<disk, live>>
  BY DEF UpdateConfig
<1> HIDE DEF c, still
<1>7. /\ job = Idle /\ job' \in Jobs /\ job' # Idle
      /\ job'.op = "update" /\ job'.at = "bounce ws" /\ job'.conf = c
      /\ settled' = "no" /\ ops' \in Nat /\ UNCHANGED breakdowns
  <2> DEFINE step == "bounce ws"
  <2>1. /\ "update" \in Operations /\ step \in OpSteps /\ TransportTypeOK
        /\ Begin("update", step, c, still)
    BY <1>4 DEF Operations, OpSteps, TransportInv
  <2> HIDE DEF step
  <2>2. /\ job = Idle /\ job' \in Jobs /\ job' # Idle
        /\ job'.op = "update" /\ job'.at = step /\ job'.conf = c
        /\ settled' = "no" /\ ops' \in Nat /\ UNCHANGED breakdowns
    BY <2>1, <1>3, <1>5, Begins
  <2> QED
    BY <2>2 DEF step
<1>8. TransportTypeOK'
  BY <1>3, <1>4, <1>5, <1>6, <1>7 DEF TransportInv, TransportTypeOK
<1>9. OverAtRest' /\ JobOK'
  BY <1>3, <1>4, <1>7
     DEF OverAtRest, Panel, JobOK, SetupOK, RenewOK, FilesOK, RestartOK, UninstallOK, UpdateOK,
         Setups, Renewals
<1>10. cached # Absent
  BY <1>2, TransportAssumption
<1>11. UnitFits'
  BY <1>3, <1>4, <1>5, <1>6, <1>7, <1>10 DEF TransportInv, UnitFits, Sound, Renewals
<1>12. Matching' /\ Restarted'
  BY <1>3, <1>4, <1>5, <1>6, <1>7, <1>10 DEF TransportInv, Matching, Restarted
<1> QED
  BY <1>8, <1>9, <1>11, <1>12 DEF TransportInv

LEMMA IssueKeeps == ASSUME TransportInv, Issue PROVE TransportInv'
<1>1. PICK c \in {conf, cached} \ {Absent} :
        /\ conf' = c /\ whole' = StillWhole(c)
        /\ issued' = issued \cup {Profile(c)}
        /\ \/ disk' = [disk EXCEPT !.wgconf = WgConf(c)]
              /\ live' = [live EXCEPT !.wg = WgConf(c)] /\ UNCHANGED breakdowns
           \/ UNCHANGED <<disk, live>> /\ Fault
  BY DEF Issue
<1>2. c \in Configs /\ c # Absent /\ WgConf(c) \in WgConfs /\ disk \in Disks /\ live \in Lives
  BY Derived DEF TransportInv, TransportTypeOK
<1>3. issued' = issued \cup {c} /\ whole' \in BOOLEAN /\ (whole' => whole /\ c = conf)
  BY <1>1 DEF Profile, StillWhole, TransportInv, TransportTypeOK
<1>4. /\ disk' \in Disks /\ live' \in Lives /\ breakdowns' \in Nat
      /\ disk'.key = disk.key /\ disk'.cert = disk.cert /\ disk'.unit = disk.unit
      /\ live'.ws = live.ws
      /\ disk'.wgconf \in {disk.wgconf, WgConf(c)} /\ live'.wg \in {live.wg, WgConf(c)}
  <2>1. breakdowns \in Nat
    BY DEF TransportInv, TransportTypeOK
  <2>2. CASE /\ disk' = [disk EXCEPT !.wgconf = WgConf(c)]
             /\ live' = [live EXCEPT !.wg = WgConf(c)] /\ UNCHANGED breakdowns
    BY <2>1, <2>2, <1>2 DEF Disks, Lives
  <2>3. CASE UNCHANGED <<disk, live>> /\ Fault
    BY <2>1, <2>3, <1>2 DEF Fault
  <2> QED
    BY <1>1, <2>2, <2>3
<1>5. job = Idle /\ UNCHANGED <<cached, job, behind, settled, ops>>
  BY DEF Issue
<1>6. TransportTypeOK' /\ OverAtRest'
  BY <1>1, <1>2, <1>3, <1>4, <1>5 DEF TransportInv, TransportTypeOK, OverAtRest
<1>7. JobOK'
  BY <1>5, NothingAtWork
<1>8. Matching' /\ UnitFits' /\ Restarted'
  BY <1>1, <1>2, <1>3, <1>4, <1>5, IdleIsNoJob
     DEF TransportInv, Matching, UnitFits, Sound, Renewals, Restarted
<1> QED
  BY <1>6, <1>7, <1>8 DEF TransportInv

LEMMA InterruptedKeeps == ASSUME TransportInv, Interrupted PROVE TransportInv'
<1>1. /\ job' = Idle /\ job # Idle /\ settled' = "no"
      /\ UNCHANGED <<conf, issued, whole, behind, ops>>
  BY DEF Interrupted
<1>2. disk \in Disks /\ disk' \in Disks /\ disk' \in {disk, [disk EXCEPT !.cert = Cut]}
  BY DEF Interrupted, TransportInv, TransportTypeOK, Disks
<1>3. breakdowns' \in Nat
  <2>1. breakdowns \in Nat /\ breakdowns' = breakdowns + 1
    BY DEF Interrupted, Fault, TransportInv, TransportTypeOK
  <2> QED
    BY <2>1
<1>4. live' \in Lives /\ cached' \in Configs \cup {Absent}
  <2>1. CASE UNCHANGED <<cached, live>>
    BY <2>1 DEF TransportInv, TransportTypeOK
  <2>2. CASE PanelGone
    BY <2>2 DEF PanelGone, TransportInv, TransportTypeOK, Lives
  <2> QED
    BY <2>1, <2>2 DEF Interrupted
<1>5. TransportTypeOK' /\ OverAtRest'
  BY <1>1, <1>2, <1>3, <1>4 DEF TransportInv, TransportTypeOK, OverAtRest
<1>6. JobOK'
  BY <1>1, NothingAtWork
<1>7. disk'.key = disk.key /\ disk'.unit = disk.unit /\ disk'.cert \in {disk.cert, Cut}
  BY <1>2 DEF Disks
<1>8. Matching' /\ UnitFits' /\ Restarted'
  BY <1>1, <1>7, IdleIsNoJob
     DEF TransportInv, Matching, UnitFits, Sound, Renewals, Restarted
<1> QED
  BY <1>5, <1>6, <1>8 DEF TransportInv

\* systemd or a boot starts the unit.
LEMMA UnitKeepsRestarted ==
  ASSUME TransportInv, UNCHANGED <<conf, disk, whole, behind, settled>>,
         live'.ws # Absent => \E l : live'.ws = UnitStart(disk, l),
         live'.wg \in {live.wg, disk.wgconf}
  PROVE  Restarted'
<1>1. disk.unit \in CommandLines \cup {Absent} /\ disk.key \in Nat \cup {Absent}
  BY DEF TransportInv, TransportTypeOK, Disks
<1>2. live'.ws # Absent => /\ live'.ws.run = disk.unit
                           /\ disk.unit.mode # "acme" => live'.ws.key = disk.key
  BY <1>1, Starts
<1>3. conf # Absent => conf \in Configs /\ CommandLine(conf).mode = conf.mode
  BY Derived DEF TransportInv, TransportTypeOK
<1> QED
  BY <1>2, <1>3 DEF TransportInv, Restarted, Panel

LEMMA UnitRetriesKeeps == ASSUME TransportInv, UnitRetries PROVE TransportInv'
<1>1. disk \in Disks /\ live \in Lives
  BY DEF TransportInv, TransportTypeOK
<1>2. UnitStart(disk, live) \in Servers
  BY <1>1, Starts DEF UnitRetries, Disks
<1>3. /\ live' \in Lives /\ live'.ws = UnitStart(disk, live) /\ live'.wg = live.wg
      /\ UNCHANGED <<conf, cached, disk, job, issued, whole, behind, settled, ops,
                     breakdowns>>
  BY <1>1, <1>2 DEF UnitRetries, Lives
<1>4. TransportTypeOK' /\ OverAtRest' /\ Matching' /\ UnitFits'
  BY <1>3 DEF TransportInv, TransportTypeOK, OverAtRest, Panel, Matching, UnitFits, Sound,
              Renewals
<1>5. JobOK'
  BY <1>3
     DEF TransportInv, JobOK, SetupOK, RenewOK, Renewals, FilesOK, RestartOK, UninstallOK,
         UpdateOK,
         Panel
<1>6. Restarted'
  BY <1>3, UnitKeepsRestarted
<1> QED
  BY <1>4, <1>5, <1>6 DEF TransportInv

LEMMA RebootKeeps == ASSUME TransportInv, Reboot PROVE TransportInv'
<1> DEFINE l == [ws |-> Absent, wg |-> disk.wgconf, caddy |-> disk.site,
                 sub |-> Absent, held |-> FALSE]
<1>1. disk \in Disks /\ live \in Lives
  BY DEF TransportInv, TransportTypeOK
<1>2. l \in Lives /\ l.wg = disk.wgconf /\ l.ws = Absent
  BY <1>1 DEF Disks, Lives
<1>3. UnitStart(disk, l) \in Servers \cup {Absent}
  BY <1>1, Starts DEF Disks
<1>4. live' = IF disk.enabled THEN [l EXCEPT !.ws = UnitStart(disk, l)] ELSE l
  BY DEF Reboot
<1> HIDE DEF l
<1>5. live' \in Lives /\ live'.ws \in {Absent, UnitStart(disk, l)} /\ live'.wg = disk.wgconf
  BY <1>2, <1>3, <1>4 DEF Lives
<1>6. /\ job = Idle /\ cached' = Absent
      /\ UNCHANGED <<conf, disk, job, issued, whole, behind, settled, ops>>
  BY DEF Reboot
<1>7. breakdowns' \in Nat
  BY DEF Reboot, Fault, TransportInv, TransportTypeOK
<1>8. TransportTypeOK' /\ OverAtRest' /\ Matching' /\ UnitFits'
  BY <1>5, <1>6, <1>7
     DEF TransportInv, TransportTypeOK, OverAtRest, Panel, Matching, UnitFits, Sound, Renewals
<1>9. JobOK'
  BY <1>6, NothingAtWork
<1>10. Restarted'
  BY <1>5, <1>6, UnitKeepsRestarted
<1> QED
  BY <1>8, <1>9, <1>10 DEF TransportInv

LEMMA SaveConfKeeps == ASSUME TransportInv, SaveConf PROVE TransportInv'
<1>1. job \in Jobs /\ job # Idle /\ job.at = "save"
  BY Works DEF SaveConf, TransportInv
<1>2. /\ job.conf \in Configs /\ job.whole \in BOOLEAN
      /\ job.op \in Setups \/ job.op \in Renewals
  BY <1>1, StepTells DEF Jobs
<1>3. /\ conf' = job.conf /\ conf' # Absent /\ conf' \in Configs
      /\ cached' \in {cached, job.conf}
      /\ UNCHANGED <<disk, live, issued, behind, settled, ops, breakdowns>>
  BY <1>2, TransportAssumption DEF SaveConf
<1>4. settled \in {"no", "cut"} /\ disk.key = job.conf.key /\ disk.cert = job.conf.key
  BY <1>1, <1>2 DEF TransportInv, OverAtRest, JobOK, FilesOK
<1>5. cached' \in Configs \cup {Absent} /\ (job.op = "rotate" => Panel')
  BY <1>2, <1>3, TransportAssumption DEF SaveConf, Panel, TransportInv, TransportTypeOK
<1>6. /\ whole' \in BOOLEAN
      /\ job.op \notin {"init", "run_setup"} => whole' = job.whole
      /\ job.op = "setup" => ~whole'
  <2>1. whole' = (job.whole \/ job.op \in {"init", "run_setup"})
    BY DEF SaveConf
  <2>2. job.op = "setup" => ~job.whole
    BY DEF TransportInv, JobOK, SetupOK, Setups
  <2> QED
    BY <1>2, <2>1, <2>2
<1>7. \/ job.op = "setup" /\ GoOn("wg")
      \/ job.op = "rotate" /\ GoOn("bounce ws")
      \/ job.op # "setup" /\ job.op # "rotate" /\ job' = Idle
  BY DEF SaveConf
<1>8. job' \in Jobs \cup {Idle}
  BY <1>1, <1>7, GoesOn DEF OpSteps, SaveConf, TransportInv
<1>9. TransportTypeOK'
  BY <1>3, <1>5, <1>6, <1>8 DEF TransportInv, TransportTypeOK
<1>10. JobOK'
  <2>1. CASE job' = Idle
    BY <2>1, NothingAtWork
  <2>2. CASE job.op = "setup" /\ GoOn("wg")
    <3>1. job'.op = "setup" /\ job'.at = "wg" /\ job'.conf = job.conf /\ job'.whole = job.whole
      BY <2>2, GoesOn DEF SaveConf, TransportInv, OpSteps
    <3>2. issued = {} /\ ~whole' /\ ~job.whole
      BY <2>2, <1>6 DEF TransportInv, JobOK, SetupOK, Setups
    <3> QED
      BY <3>1, <3>2, <1>3, <1>4
         DEF JobOK, SetupOK, RenewOK, Renewals, FilesOK, RestartOK, UninstallOK, UpdateOK
  <2>3. CASE job.op = "rotate" /\ GoOn("bounce ws")
    <3>1. job'.op = "rotate" /\ job'.at = "bounce ws"
      BY <2>3, GoesOn DEF SaveConf, TransportInv, OpSteps
    <3> QED
      BY <2>3, <3>1, <1>5
         DEF JobOK, SetupOK, RenewOK, Renewals, FilesOK, RestartOK, UninstallOK, UpdateOK,
             Setups
  <2> QED
    BY <1>7, <2>1, <2>2, <2>3
<1>11. Matching'
  <2>1. CASE job.op \in Setups
    BY <2>1, <1>3, <1>4 DEF Matching, TransportInv, JobOK, SetupOK
  <2>2. CASE job.op \in Renewals
    <3>1. whole' => job.whole
      BY <2>2, <1>6 DEF Renewals
    <3>2. job.whole => issued \subseteq {job.conf}
      BY <2>2, <1>1 DEF TransportInv, JobOK, RenewOK, Renewals, Matching
    <3> QED
      BY <3>1, <3>2, <1>3, <1>4 DEF Matching
  <2> QED
    BY <1>2, <2>1, <2>2
<1>12. UnitFits'
  <2>1. CASE job.op = "setup"
    <3>1. ~whole' /\ job'.op = "setup"
      BY <2>1, <1>6, <1>7, GoesOn DEF SaveConf, TransportInv, OpSteps
    <3> QED
      BY <3>1, <1>3 DEF UnitFits, Sound, Renewals
  <2>2. CASE job.op \in {"init", "run_setup"}
    <3>1. conf = Absent
      BY <2>2 DEF TransportInv, JobOK, SetupOK, Setups
    <3> QED
      BY <3>1, <1>3 DEF UnitFits, TransportInv
  <2>3. CASE job.op \in Renewals
    <3>1. Sound' => job.whole
      <4>1. job' = Idle \/ job'.at = "bounce ws"
        BY <2>3, <1>7, GoesOn DEF SaveConf, TransportInv, OpSteps, Renewals
      <4>2. Sound' => whole'
        BY <4>1, IdleIsNoJob DEF Sound, Renewals
      <4> QED
        BY <4>2, <2>3, <1>6 DEF Renewals
    <3>2. job.whole => /\ Sound /\ conf # Absent
                       /\ CommandLine(job.conf) = CommandLine(conf)
      BY <2>3, <1>1 DEF Sound, Renewals, TransportInv, JobOK, RenewOK
    <3> QED
      BY <3>1, <3>2, <1>3 DEF UnitFits, TransportInv
  <2> QED
    BY <1>2, <2>1, <2>2, <2>3 DEF Setups
<1>13. OverAtRest' /\ Restarted'
  BY <1>3, <1>4 DEF OverAtRest, Restarted
<1> QED
  BY <1>9, <1>10, <1>11, <1>12, <1>13 DEF TransportInv

LEMMA SetupWsKeeps == ASSUME TransportInv, SetupWs PROVE TransportInv'
<1>1. /\ job \in Jobs /\ job # Idle /\ job.at = "ws" /\ job.op = "setup"
      /\ conf \in Configs
  BY Works, StepTells DEF SetupWs, TransportInv
<1>2. /\ conf = job.conf /\ disk.key = conf.key /\ disk.cert = conf.key
      /\ ~whole /\ ~job.whole /\ issued = {} /\ settled \in {"no", "cut"}
  BY <1>1 DEF TransportInv, OverAtRest, JobOK, SetupOK, Setups
<1>3. /\ disk' = [disk EXCEPT !.unit = CommandLine(conf), !.enabled = TRUE]
      /\ live' = (IF live.ws = Absent THEN [live EXCEPT !.ws = UnitStart(disk', live)]
                  ELSE live)
      /\ behind' = FALSE /\ UNCHANGED <<conf, cached, issued, ops, breakdowns>>
  BY DEF SetupWs
<1>4. disk \in Disks /\ live \in Lives
  BY DEF TransportInv, TransportTypeOK
<1>5. /\ disk' \in Disks /\ disk'.key = disk.key /\ disk'.cert = disk.cert
      /\ disk'.unit = CommandLine(conf)
  BY <1>1, <1>3, <1>4, Derived DEF Disks
<1>6. UnitStart(disk', live) \in Servers \cup {Absent}
  BY <1>5, Starts DEF Disks
<1>7. live' \in Lives
  BY <1>3, <1>4, <1>6 DEF Lives
<1>8. CASE conf.mode = "acme"
  <2>1. /\ job' \in Jobs /\ job'.op = "setup" /\ job'.at = "caddy" /\ job'.conf = job.conf
        /\ job'.whole = job.whole /\ whole' = whole /\ settled' = settled
    BY <1>8, <1>1, GoesOn DEF SetupWs, TransportInv, OpSteps
  <2>2. TransportTypeOK'
    BY <2>1, <1>3, <1>5, <1>7 DEF TransportInv, TransportTypeOK
  <2>3. JobOK'
    BY <2>1, <1>2, <1>3
       DEF JobOK, SetupOK, RenewOK, Renewals, FilesOK, RestartOK, UninstallOK, UpdateOK, Panel
  <2>4. OverAtRest' /\ Matching' /\ UnitFits' /\ Restarted'
    BY <2>1, <1>1, <1>2, <1>3, TransportAssumption
       DEF OverAtRest, Matching, UnitFits, Restarted, Panel
  <2> QED
    BY <2>2, <2>3, <2>4 DEF TransportInv
<1>9. CASE conf.mode # "acme"
  <2>1. job' = Idle /\ whole' = TRUE /\ settled' = "setup"
    BY <1>9 DEF SetupWs
  <2>2. TransportTypeOK'
    BY <2>1, <1>3, <1>5, <1>7 DEF TransportInv, TransportTypeOK
  <2>3. OverAtRest' /\ Matching' /\ UnitFits' /\ Restarted'
    BY <2>1, <1>1, <1>2, <1>3, TransportAssumption
       DEF OverAtRest, Matching, UnitFits, Restarted, Panel
  <2> QED
    BY <2>1, <2>2, <2>3, NothingAtWork DEF TransportInv
<1> QED
  BY <1>8, <1>9

LEMMA BounceWsKeeps == ASSUME TransportInv, BounceWs PROVE TransportInv'
<1>1. /\ job \in Jobs /\ job # Idle /\ job.at = "bounce ws"
      /\ job.op \in {"rotate", "update"} /\ job.conf \in Configs
  BY Works, StepTells DEF BounceWs, TransportInv
<1>2. Panel /\ settled \in {"no", "cut"} /\ (job.op = "update" => conf = job.conf)
  BY <1>1 DEF TransportInv, OverAtRest, JobOK, RenewOK, UpdateOK, Renewals
<1>3. UNCHANGED <<conf, cached, issued, whole, ops>>
  BY DEF BounceWs
<1>4. disk \in Disks /\ live \in Lives /\ behind \in BOOLEAN /\ breakdowns \in Nat
  BY DEF TransportInv, TransportTypeOK
<1> DEFINE d == IF PortChanged
                THEN [disk EXCEPT !.unit = CommandLine(job.conf), !.enabled = TRUE]
                ELSE disk
<1>5. /\ d \in Disks /\ d.key = disk.key /\ d.cert = disk.cert
      /\ PortChanged => d.unit = CommandLine(job.conf)
      /\ ~PortChanged => d = disk
  BY <1>1, <1>4, Derived DEF Disks
<1>6. \/ disk' = disk /\ live' = live /\ UNCHANGED <<behind, settled, breakdowns>>
      \/ /\ disk' = d /\ behind' = (behind /\ ~PortChanged)
         /\ \/ live' = [live EXCEPT !.ws = UnitStart(d, live)] /\ UNCHANGED <<settled, breakdowns>>
            \/ Fault /\ settled' = "cut" /\ UNCHANGED live
  BY DEF BounceWs
<1> HIDE DEF d
<1>7. UnitStart(d, live) \in Servers \cup {Absent}
  BY <1>5, Starts DEF Disks
<1>8. /\ disk' \in Disks /\ disk'.key = disk.key /\ disk'.cert = disk.cert
      /\ live' \in Lives /\ behind' \in BOOLEAN /\ settled' \in {"no", "cut"}
      /\ breakdowns' \in Nat
  <2>1. CASE disk' = disk /\ live' = live /\ UNCHANGED <<behind, settled, breakdowns>>
    BY <2>1, <1>2, <1>4
  <2>2. CASE /\ disk' = d /\ behind' = (behind /\ ~PortChanged)
             /\ live' = [live EXCEPT !.ws = UnitStart(d, live)]
             /\ UNCHANGED <<settled, breakdowns>>
    <3>1. live' \in Lives
      BY <2>2, <1>4, <1>7 DEF Lives
    <3> QED
      BY <3>1, <2>2, <1>2, <1>4, <1>5
  <2>3. CASE /\ disk' = d /\ behind' = (behind /\ ~PortChanged)
             /\ Fault /\ settled' = "cut" /\ UNCHANGED live
    <3>1. breakdowns' \in Nat
      BY <2>3, <1>4 DEF Fault
    <3> QED
      BY <3>1, <2>3, <1>4, <1>5
  <2> QED
    BY <2>1, <2>2, <2>3, <1>6
<1>9. job' \in Jobs /\ job'.op = job.op /\ job'.at = "bounce sub" /\ job'.conf = job.conf
  BY GoesOn DEF BounceWs, TransportInv, OpSteps
<1>10. TransportTypeOK'
  BY <1>3, <1>8, <1>9 DEF TransportInv, TransportTypeOK
<1>11. JobOK'
  BY <1>1, <1>2, <1>3, <1>9
     DEF JobOK, SetupOK, RenewOK, FilesOK, RestartOK, UninstallOK, UpdateOK, Setups, Renewals,
         Panel
<1>12. UnitFits'
  <2>1. Sound' => Sound
    BY <1>3, <1>9 DEF Sound, Renewals
  <2>2. CASE disk' = disk /\ behind' = behind
    BY <2>1, <2>2, <1>3 DEF UnitFits, TransportInv
  <2>3. CASE PortChanged /\ disk' = d
    <3>1. disk'.unit = CommandLine(conf') /\ conf' # Absent
      BY <2>3, <1>1, <1>2, <1>3, <1>5, TransportAssumption DEF PortChanged
    <3> QED
      BY <3>1 DEF UnitFits
  <2> QED
    BY <2>2, <2>3, <1>4, <1>5, <1>6
<1>13. OverAtRest' /\ Matching' /\ Restarted'
  BY <1>2, <1>3, <1>8 DEF TransportInv, OverAtRest, Matching, Restarted
<1> QED
  BY <1>10, <1>11, <1>12, <1>13 DEF TransportInv

LEMMA BounceSubKeeps == ASSUME TransportInv, BounceSub PROVE TransportInv'
<1>1. /\ job \in Jobs /\ job # Idle /\ job.at = "bounce sub"
      /\ job.op \in {"rotate", "update"} /\ job.conf \in Configs
  BY Works, StepTells DEF BounceSub, TransportInv
<1>2. Panel /\ settled \in {"no", "cut"} /\ (job.op = "update" => conf = job.conf)
  BY <1>1 DEF TransportInv, OverAtRest, JobOK, RenewOK, UpdateOK, Renewals
<1>3. UNCHANGED <<conf, cached, issued, whole, behind, ops, breakdowns>>
  BY DEF BounceSub
<1>4. /\ disk' \in Disks /\ live' \in Lives
      /\ disk'.key = disk.key /\ disk'.cert = disk.cert /\ disk'.unit = disk.unit
  <2>1. cached \in Configs /\ TransportTypeOK
    BY <1>2 DEF Panel, TransportInv, TransportTypeOK
  <2>2. CASE Started(cached)
    BY <2>1, <2>2, ManagerStarts
  <2>3. CASE UNCHANGED <<disk, live>>
    BY <2>1, <2>3 DEF TransportTypeOK
  <2> QED
    BY <2>2, <2>3 DEF BounceSub
<1>5. \/ /\ job.op = "update" /\ job' \in Jobs /\ job'.op = "update" /\ job'.at = "bounce wg"
         /\ job'.conf = job.conf /\ settled' = settled
      \/ job' = Idle /\ settled' = "no"
  BY GoesOn DEF BounceSub, TransportInv, OpSteps
<1>6. TransportTypeOK' /\ OverAtRest'
  BY <1>2, <1>3, <1>4, <1>5 DEF TransportInv, TransportTypeOK, OverAtRest
<1>7. JobOK'
  BY <1>2, <1>3, <1>5, NothingAtWork
     DEF JobOK, SetupOK, RenewOK, FilesOK, RestartOK, UninstallOK, UpdateOK, Setups, Renewals,
         Panel
<1>8. Sound' => Sound
  BY <1>3, <1>5, IdleIsNoJob DEF Sound, Renewals
<1>9. Matching' /\ UnitFits' /\ Restarted'
  BY <1>2, <1>3, <1>4, <1>5, <1>8 DEF TransportInv, Matching, UnitFits, Restarted
<1> QED
  BY <1>6, <1>7, <1>9 DEF TransportInv

-----------------------------------------------------------------------------
(* The theorems.                                                           *)

LEMMA Begun == TransportInit => TransportInv
<1> SUFFICES ASSUME TransportInit PROVE TransportInv
  OBVIOUS
<1>1. job = Idle /\ conf = Absent /\ cached = Absent /\ settled = "no" /\ issued = {}
      /\ disk.unit = Absent
  BY DEF TransportInit
<1>2. disk \in Disks /\ live \in Lives
  BY DEF TransportInit, Disks, Lives
<1>3. TransportTypeOK
  BY <1>1, <1>2 DEF TransportInit, TransportTypeOK
<1>4. JobOK
  BY <1>1, IdleIsNoJob
     DEF JobOK, SetupOK, RenewOK, Renewals, FilesOK, RestartOK, UninstallOK, UpdateOK, Setups
<1>5. OverAtRest /\ Matching /\ UnitFits /\ Restarted
  BY <1>1 DEF OverAtRest, Matching, UnitFits, Restarted, Panel
<1> QED
  BY <1>3, <1>4, <1>5 DEF TransportInv

LEMMA Stays == ASSUME TransportInv, UNCHANGED transportVars PROVE TransportInv'
<1>1. UNCHANGED <<conf, cached, disk, live, job, issued, whole, behind, settled, ops,
                  breakdowns>>
  BY DEF transportVars
<1>2. TransportTypeOK' /\ OverAtRest' /\ Matching' /\ UnitFits' /\ Restarted'
  BY <1>1
     DEF TransportInv, TransportTypeOK, OverAtRest, Matching, UnitFits, Sound, Renewals,
         Restarted, Panel
<1>3. JobOK'
  BY <1>1
     DEF TransportInv, JobOK, SetupOK, RenewOK, Renewals, FilesOK, RestartOK, UninstallOK,
         UpdateOK,
         Panel
<1> QED
  BY <1>2, <1>3 DEF TransportInv

LEMMA Continues == ASSUME TransportInv, [TransportNext]_transportVars PROVE TransportInv'
<1>1. CASE Wizard \/ PodInit \/ RunSetup \/ PanelOpens \/ PanelStarts \/ PanelStops
  BY <1>1, WizardKeeps, PodInitKeeps, RunSetupKeeps, PanelOpensKeeps, PanelStartsKeeps,
     PanelStopsKeeps
<1>2. CASE \E newKey \in BOOLEAN : RenewCert(newKey) \/ RotateTlsCert(newKey)
  BY <1>2, RenewCertKeeps
<1>3. CASE WriteKey \/ WriteCert \/ SaveConf \/ SetupWg \/ SetupWs \/ SetupCaddy
  BY <1>3, WriteKeyKeeps, WriteCertKeeps, SaveConfKeeps, SetupWgKeeps, SetupWsKeeps,
     SetupCaddyKeeps
<1>4. CASE Restart \/ InstallWg \/ RestartWg \/ RestartWs \/ NoUnit
  BY <1>4, RestartKeeps, InstallWgKeeps, RestartWgKeeps, RestartWsKeeps, NoUnitKeeps
<1>5. CASE Uninstall \/ RemoveWs \/ RemoveWg \/ RemoveCaddy \/ RemoveFiles
  BY <1>5, UninstallKeeps, RemoveWsKeeps, RemoveWgKeeps, RemoveCaddyKeeps, RemoveFilesKeeps
<1>6. CASE UpdateConfig \/ BounceWs \/ BounceSub \/ BounceWg
  BY <1>6, UpdateConfigKeeps, BounceWsKeeps, BounceSubKeeps, BounceWgKeeps
<1>7. CASE Issue \/ Interrupted \/ UnitRetries \/ Reboot
  BY <1>7, IssueKeeps, InterruptedKeeps, UnitRetriesKeeps, RebootKeeps
<1>8. CASE UNCHANGED transportVars
  BY <1>8, Stays
<1> QED
  BY <1>1, <1>2, <1>3, <1>4, <1>5, <1>6, <1>7, <1>8 DEF TransportNext

\* The invariant: what every operation relies on at each of its steps, and what the
\* files, the panel's copy and the profiles have in common in between.
THEOREM TransportInvariant == TransportSpec => []TransportInv
<1>1. TransportInv /\ [TransportNext]_transportVars => TransportInv'
  BY Continues
<1> QED
  BY Begun, <1>1, PTL DEF TransportSpec

\* A profile that pins the key keeps matching the key and the certificate on disk over
\* renewals, also those cut short (renew_tls_cert of crypto.py).
THEOREM PinsStayValid == TransportSpec => []PinMatchesKey
<1>1. TransportInv => PinMatchesKey
  <2> SUFFICES ASSUME TransportInv, whole, NEW p \in issued, p.mode = "self-signed"
               PROVE  disk.key = p.key /\ disk.cert \in {p.key, Cut}
    BY DEF PinMatchesKey
  <2>1. p = conf /\ p \in Configs
    BY DEF TransportInv, Matching, TransportTypeOK
  <2>2. conf # Absent
    BY <2>1, TransportAssumption
  <2> QED
    BY <2>1, <2>2 DEF TransportInv, Matching
<1> QED
  BY <1>1, TransportInvariant, PTL

\* After a restart that reported success every profile handed out reaches the server, over
\* the retries of systemd, the reboots and what the panel does that follow, unless a
\* setup, a change of key or an overtaken panel came before, or the unit on disk is not
\* the configuration's, which a restart does not mend (restart_services).
THEOREM RestartReaches == TransportSpec => []RestartServes
<1>1. TransportInv => RestartServes
  <2> SUFFICES ASSUME TransportInv, settled = "restart", whole, ~behind,
                      live.ws # Absent, NEW p \in issued
               PROVE  Reached(p, live)
    BY DEF RestartServes
  <2>1. p = conf /\ p \in Configs
    BY DEF TransportInv, Matching, TransportTypeOK
  <2>2. live.wg = WgConf(p) /\ live.ws.run = CommandLine(p)
        /\ (p.mode = "self-signed" => live.ws.key = disk.key)
    BY <2>1 DEF TransportInv, Restarted
  <2>3. disk.key = p.key
    BY <2>1, TransportAssumption DEF TransportInv, Matching
  <2> QED
    BY <2>2, <2>3 DEF Reached, Serves
<1> QED
  BY <1>1, TransportInvariant, PTL

=============================================================================

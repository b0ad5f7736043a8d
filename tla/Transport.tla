----------------------------- MODULE Transport ------------------------------
(***************************************************************************)
(* What the server serves and what its profiles expect: the setup wizard   *)
(* (setup_wizard.py), init in a pod (k8s_init.py), the commands renew-cert,*)
(* restart and uninstall (cli.py), the panel's run_setup, rotate_tls_cert, *)
(* update_server_config and the wstunnel its manager starts (api.py,       *)
(* server_manager.py), with the units of platforms/linux.py, the           *)
(* certificate of crypto.py and the front of caddy.py.  Commands run       *)
(* beside an open panel, whose copy of the configuration they overtake;    *)
(* one operation is at work at a time.  A secret (path prefix, TLS key,    *)
(* WireGuard key) is the number of the operation that drew it.  A          *)
(* command's early returns that change nothing are left out, and so are    *)
(* the subnet and the peers (Enrollment).                                  *)
(***************************************************************************)
EXTENDS Integers

CONSTANTS
    Absent, Cut,        \* nothing there; a certificate file cut short
    Ports, WgPorts,     \* ports on offer
    CaddyPort,          \* the port Caddy listens on
    MaxOps,             \* operations
    MaxBreakdowns           \* failures, crashes and reboots

Configs == [mode: {"self-signed", "acme"}, port: Ports, wgPort: WgPorts,
            path: Nat, key: Nat, wgKey: Nat]
CommandLines == [mode: {"self-signed", "acme"}, path: Nat, wgPort: WgPorts, port: Ports \cup {0}]
WgConfs == [key: Nat, port: WgPorts]

\* A file that is not there is none of those that may be.
ASSUME TransportAssumption ==
    /\ Absent \notin {Cut} \cup Nat \cup WgConfs
    /\ Absent \notin Configs /\ Absent \notin CommandLines
    /\ Absent \notin [run: CommandLines, key: Nat \cup {Absent}]
    /\ CaddyPort \in Ports /\ 0 \notin Ports /\ MaxOps \in Nat /\ MaxBreakdowns \in Nat

VARIABLES
    conf,       \* server_config.json
    cached,     \* the panel's copy of it, Absent before the panel runs
    disk,       \* the other files
    live,       \* what runs: the unit's wstunnel, the interface, Caddy, the wstunnel of
                \* the panel's manager, and whether the manager holds one, dead or alive
    job,        \* the operation at work and how far it is
    issued,     \* profiles handed out since a setup, a new key or a new port
    whole,      \* history: no setup and no change of key was cut short, and no panel
                \* acted on a copy a command had overtaken
    behind,     \* history: an uninstall left its unit, or the panel changed a port
                \* the unit names and did not write it again
    settled,    \* history: what ended last without a fault and nothing came after:
                \* "restart", "setup", "update", or "no"; "cut" when a step failed
    ops, breakdowns
transportVars == <<conf, cached, disk, live, job, issued, whole, behind, settled, ops,
                   breakdowns>>

Idle == [op |-> "none"]

TransportInit ==
    /\ conf = Absent /\ cached = Absent
    /\ disk = [key |-> Absent, cert |-> Absent, unit |-> Absent, enabled |-> FALSE,
               wgconf |-> Absent, site |-> Absent]
    /\ live = [ws |-> Absent, wg |-> Absent, caddy |-> Absent, sub |-> Absent, held |-> FALSE]
    /\ job = Idle /\ issued = {} /\ whole = TRUE /\ behind = FALSE /\ settled = "no"
    /\ ops = 0 /\ breakdowns = 0

Panel == cached # Absent
At(step) == job # Idle /\ job.at = step
GoOn(step) == job' = [job EXCEPT !.at = step]
\* The panel works on its copy: once a command overtook it, the whole is lost.
StillWhole(c) == whole /\ c = conf
Begin(op, step, c, still) ==
    /\ job = Idle /\ ops < MaxOps
    /\ ops' = ops + 1
    /\ job' = [op |-> op, at |-> step, conf |-> c, was |-> cached, whole |-> still]
    /\ settled' = "no" /\ UNCHANGED breakdowns
Fault == breakdowns < MaxBreakdowns /\ breakdowns' = breakdowns + 1

-----------------------------------------------------------------------------
(* What is derived from a configuration *)

\* build_wstunnel_command
CommandLine(c) ==
    [mode |-> c.mode, path |-> c.path, wgPort |-> c.wgPort,
     port |-> IF c.mode = "acme" THEN 0 ELSE c.port]
WgConf(c) == [key |-> c.wgKey, port |-> c.wgPort]
\* build_owcfg: a profile carries what the configuration says.
Profile(c) == c

Holds(process, port) == process # Absent /\ process.run.port = port
Free(l, port) ==
    /\ ~Holds(l.ws, port) /\ ~Holds(l.sub, port)
    /\ port = CaddyPort => l.caddy = Absent
\* A start needs its port and, unless Caddy stands in front, a certificate made for the
\* key.
Process(line, d, l) ==
    IF ~Free(l, line.port) THEN Absent
    ELSE IF line.mode = "acme" THEN [run |-> line, key |-> Absent]
    ELSE IF d.cert = d.key THEN [run |-> line, key |-> d.key] ELSE Absent
\* Of the unit, and of the process the panel's manager runs: the old one ended.
UnitStart(d, l) ==
    IF d.unit = Absent THEN Absent ELSE Process(d.unit, d, [l EXCEPT !.ws = Absent])
SubStart(c, d, l) == Process(CommandLine(c), d, [l EXCEPT !.sub = Absent])

\* The profile's handshake: a process takes its path, forwards to its port and shows
\* its key, and the interface has the key and the port.
Serves(process, p) ==
    /\ process # Absent /\ process.run = CommandLine(p)
    /\ p.mode = "self-signed" => process.key = p.key
Reached(p, l) == (Serves(l.ws, p) \/ Serves(l.sub, p)) /\ l.wg = WgConf(p)

-----------------------------------------------------------------------------
(* Setup: key, certificate, configuration, then the services *)

Fresh(mode, port, wgPort) ==
    [mode |-> mode, port |-> port, wgPort |-> wgPort,
     path |-> ops + 1, key |-> ops + 1, wgKey |-> ops + 1]

\* run_setup of the wizard; an existing configuration was confirmed to go.
Wizard ==
    /\ \E mode \in {"self-signed", "acme"}, port \in Ports, wgPort \in WgPorts :
            Begin("setup", "key", Fresh(mode, port, wgPort), FALSE)
    /\ issued' = {} /\ whole' = FALSE
    /\ UNCHANGED <<conf, cached, disk, live, behind>>
\* run_init of k8s_init.py, which keeps an existing configuration, and the panel's
\* run_setup, which becomes its manager's: the files only, ServerManager starts what
\* they describe.
PodInit ==
    /\ ~Panel /\ conf = Absent
    /\ \E port \in Ports, wgPort \in WgPorts :
            Begin("init", "key", Fresh("self-signed", port, wgPort), FALSE)
    /\ issued' = {} /\ whole' = FALSE
    /\ UNCHANGED <<conf, cached, disk, live, behind>>
RunSetup ==
    /\ ~Panel /\ conf = Absent
    /\ \E port \in Ports, wgPort \in WgPorts :
            Begin("run_setup", "key", Fresh("self-signed", port, wgPort), FALSE)
    /\ issued' = {} /\ whole' = FALSE
    /\ UNCHANGED <<conf, cached, disk, live, behind>>
\* With the key kept or a new one.
Renew(op, newKey, c) ==
    /\ IF newKey THEN Begin(op, "key", [c EXCEPT !.key = ops + 1], StillWhole(c))
       ELSE disk.key # Absent /\ Begin(op, "cert", [c EXCEPT !.key = disk.key], StillWhole(c))
    /\ issued' = IF newKey THEN {} ELSE issued
    /\ whole' = (StillWhole(c) /\ ~newKey)
    /\ UNCHANGED <<conf, cached, disk, live, behind>>

\* The command reads the file, the panel has its copy.
RenewCert(newKey) == conf # Absent /\ Renew("renew", newKey, conf)
RotateTlsCert(newKey) == Panel /\ Renew("rotate", newKey, cached)

WriteKey ==
    /\ At("key") /\ GoOn("cert")
    /\ disk' = [disk EXCEPT !.key = job.conf.key]
    /\ UNCHANGED <<conf, cached, live, issued, whole, behind, settled, ops, breakdowns>>
\* A defect: renewing a certificate draws a new key as well.
WriteCertForNewKey ==
    /\ At("cert") /\ GoOn("save")
    /\ disk' = [disk EXCEPT !.cert = ops + 10, !.key = ops + 10]
    /\ UNCHANGED <<conf, cached, live, issued, whole, behind, settled, ops, breakdowns>>
WriteCert ==
    /\ At("cert") /\ GoOn("save")
    /\ disk' = [disk EXCEPT !.cert = disk.key]
    /\ UNCHANGED <<conf, cached, live, issued, whole, behind, settled, ops, breakdowns>>
SaveConf ==
    /\ At("save")
    /\ conf' = job.conf
    /\ cached' = IF job.op \in {"rotate", "run_setup"} THEN job.conf ELSE cached
    /\ CASE job.op = "setup" -> GoOn("wg")
         [] job.op = "rotate" -> GoOn("bounce ws")
         [] OTHER -> job' = Idle
    /\ whole' = (job.whole \/ job.op \in {"init", "run_setup"})
    /\ UNCHANGED <<disk, live, issued, behind, settled, ops, breakdowns>>

\* install_wg_config, then restart_wg when the interface was up before.
SetupWg ==
    /\ At("wg") /\ GoOn("ws")
    /\ disk' = [disk EXCEPT !.wgconf = WgConf(conf)]
    /\ live' = [live EXCEPT !.wg = WgConf(conf)]
    /\ UNCHANGED <<conf, cached, issued, whole, behind, settled, ops, breakdowns>>
\* install_wstunnel_service: the unit is written, enable --now leaves a running
\* process as it is.
SetupWs ==
    /\ At("ws")
    /\ disk' = [disk EXCEPT !.unit = CommandLine(conf), !.enabled = TRUE]
    /\ live' = IF live.ws = Absent THEN [live EXCEPT !.ws = UnitStart(disk', live)] ELSE live
    /\ IF conf.mode = "acme" THEN GoOn("caddy") /\ UNCHANGED <<whole, settled>>
       ELSE job' = Idle /\ whole' = TRUE /\ settled' = "setup"
    /\ behind' = FALSE
    /\ UNCHANGED <<conf, cached, issued, ops, breakdowns>>
\* caddy.apply: the site is written; Caddy takes it when it is installed, the
\* configuration is valid and the port is free.  A CaddyError is printed.
SetupCaddy ==
    /\ At("caddy")
    /\ \/ UNCHANGED <<disk, live>>
       \/ disk' = [disk EXCEPT !.site = conf.path] /\ UNCHANGED live
       \/ /\ ~Holds(live.ws, CaddyPort) /\ ~Holds(live.sub, CaddyPort)
          /\ disk' = [disk EXCEPT !.site = conf.path]
          /\ live' = [live EXCEPT !.caddy = conf.path]
    /\ job' = Idle /\ whole' = TRUE /\ settled' = "setup"
    /\ UNCHANGED <<conf, cached, issued, behind, ops, breakdowns>>

-----------------------------------------------------------------------------
(* restart *)

Restart ==
    /\ conf # Absent
    /\ Begin("restart", "install wg", conf, whole)
    /\ UNCHANGED <<conf, cached, disk, live, issued, whole, behind>>
InstallWg ==
    /\ At("install wg") /\ GoOn("restart wg")
    /\ disk' = [disk EXCEPT !.wgconf = WgConf(conf)]
    /\ live' = [live EXCEPT !.wg = WgConf(conf)]
    /\ UNCHANGED <<conf, cached, issued, whole, behind, settled, ops, breakdowns>>
RestartWg ==
    /\ At("restart wg") /\ GoOn("restart ws")
    /\ live' = [live EXCEPT !.wg = disk.wgconf]
    /\ UNCHANGED <<conf, cached, disk, issued, whole, behind, settled, ops, breakdowns>>
\* A defect: a process that runs is left alone.
RestartWsIfDown ==
    /\ At("restart ws") /\ disk.unit # Absent
    /\ live' = IF live.ws = Absent THEN [live EXCEPT !.ws = UnitStart(disk, live)] ELSE live
    /\ job' = Idle /\ settled' = "restart"
    /\ UNCHANGED <<conf, cached, disk, issued, whole, behind, ops, breakdowns>>
RestartWs ==
    /\ At("restart ws") /\ disk.unit # Absent
    /\ live' = [live EXCEPT !.ws = UnitStart(disk, live)]
    /\ job' = Idle /\ settled' = "restart"
    /\ UNCHANGED <<conf, cached, disk, issued, whole, behind, ops, breakdowns>>
\* systemctl knows no such unit.
NoUnit ==
    /\ At("restart ws") /\ disk.unit = Absent
    /\ job' = Idle
    /\ UNCHANGED <<conf, cached, disk, live, issued, whole, behind, settled, ops,
                  breakdowns>>

-----------------------------------------------------------------------------
(* uninstall: every step is tried, whatever happened to the others *)

Uninstall ==
    /\ conf # Absent
    /\ Begin("uninstall", "remove ws", conf, FALSE)
    /\ issued' = {} /\ whole' = FALSE
    /\ UNCHANGED <<conf, cached, disk, live, behind>>
RemoveWs ==
    /\ At("remove ws") /\ GoOn("remove wg")
    /\ \/ disk' = [disk EXCEPT !.unit = Absent, !.enabled = FALSE]
          /\ behind' = FALSE /\ UNCHANGED breakdowns
       \/ disk' = [disk EXCEPT !.enabled = FALSE] /\ behind' = TRUE /\ Fault
    /\ live' = [live EXCEPT !.ws = Absent]
    /\ UNCHANGED <<conf, cached, issued, whole, settled, ops>>
RemoveWg ==
    /\ At("remove wg") /\ GoOn("remove caddy")
    /\ \/ disk' = [disk EXCEPT !.wgconf = Absent] /\ UNCHANGED breakdowns
       \/ UNCHANGED disk /\ Fault
    /\ live' = [live EXCEPT !.wg = Absent]
    /\ UNCHANGED <<conf, cached, issued, whole, behind, settled, ops>>
\* The outcome of the reload is not looked at.
RemoveCaddy ==
    /\ At("remove caddy") /\ GoOn("remove files")
    /\ disk' = [disk EXCEPT !.site = Absent]
    /\ live' \in {live, [live EXCEPT !.caddy = Absent]}
    /\ UNCHANGED <<conf, cached, issued, whole, behind, settled, ops, breakdowns>>
RemoveFiles ==
    /\ At("remove files") /\ job' = Idle
    /\ \/ conf' = Absent /\ disk' = [disk EXCEPT !.key = Absent, !.cert = Absent]
          /\ UNCHANGED breakdowns
       \/ UNCHANGED <<conf, disk>> /\ Fault
    /\ UNCHANGED <<cached, live, issued, whole, behind, settled, ops>>

-----------------------------------------------------------------------------
(* The panel: its manager, and update_server_config, whose end runs in a background  *)
(* thread                                                                            *)

\* The panel starts with the configuration it finds.
PanelOpens ==
    /\ ~Panel /\ job = Idle /\ conf # Absent
    /\ cached' = conf
    /\ UNCHANGED <<conf, disk, live, job, issued, whole, behind, settled, ops, breakdowns>>

\* The manager's start installs the interface and runs a wstunnel of its own.
Started(c) ==
    /\ disk' = [disk EXCEPT !.wgconf = WgConf(c)]
    /\ live' = [live EXCEPT !.wg = WgConf(c), !.sub = SubStart(c, disk, live), !.held = TRUE]
PanelStarts ==
    /\ Panel /\ job = Idle /\ ~(live.held /\ live.sub # Absent)
    /\ Started(cached)
    /\ whole' = StillWhole(cached)
    /\ UNCHANGED <<conf, cached, job, issued, behind, settled, ops, breakdowns>>
\* Its stop takes the interface down, whoever brought it up; a panel that closes stops
\* its manager.
PanelStops ==
    /\ Panel /\ job = Idle
    /\ cached' \in {cached, Absent}
    /\ disk' = [disk EXCEPT !.wgconf = Absent]
    /\ live' = [live EXCEPT !.wg = Absent, !.sub = Absent, !.held = FALSE]
    /\ settled' = "no"
    /\ UNCHANGED <<conf, job, issued, whole, behind, ops, breakdowns>>

UpdateConfig ==
    /\ Panel
    /\ \E port \in Ports, wgPort \in WgPorts :
        LET c == [cached EXCEPT !.port = port, !.wgPort = wgPort] IN
        /\ c # cached
        /\ Begin("update", "bounce ws", c, StillWhole(cached))
        /\ conf' = c /\ cached' = c
        /\ behind' = (behind \/ CommandLine(c) # CommandLine(cached))
    /\ issued' = {} /\ whole' = StillWhole(cached)
    /\ UNCHANGED <<disk, live>>
PortChanged == job.op = "update" /\ job.conf.port # job.was.port
WgPortChanged == job.op = "update" /\ job.conf.wgPort # job.was.wgPort
\* _bounce_wstunnel, its first half: a unit that runs is started again, written anew
\* when the public port changed.  A systemctl that fails is logged, and on it goes.
BounceWs ==
    /\ At("bounce ws") /\ GoOn("bounce sub")
    /\ LET d == IF PortChanged THEN [disk EXCEPT !.unit = CommandLine(job.conf), !.enabled = TRUE]
                ELSE disk IN
        IF live.ws = Absent THEN UNCHANGED <<disk, live, behind, settled, breakdowns>>
        ELSE /\ disk' = d /\ behind' = (behind /\ ~PortChanged)
             /\ \/ live' = [live EXCEPT !.ws = UnitStart(d, live)]
                   /\ UNCHANGED <<settled, breakdowns>>
                \/ Fault /\ settled' = "cut" /\ UNCHANGED live
    /\ UNCHANGED <<conf, cached, issued, whole, ops>>
\* Its second half: a manager that holds a process, be it dead, stops and starts.
BounceSub ==
    /\ At("bounce sub")
    /\ IF live.held THEN Started(cached) ELSE UNCHANGED <<disk, live>>
    /\ IF job.op = "update" THEN GoOn("bounce wg") /\ UNCHANGED settled
       ELSE job' = Idle /\ settled' = "no"
    /\ UNCHANGED <<conf, cached, issued, whole, behind, ops, breakdowns>>
\* A new WireGuard port restarts the interface, with the file as it is.
BounceWg ==
    /\ At("bounce wg")
    /\ IF WgPortChanged /\ live.wg # Absent
       THEN live' = [live EXCEPT !.wg = disk.wgconf] /\ UNCHANGED disk
       ELSE /\ disk' = [disk EXCEPT !.wgconf = WgConf(job.conf)]
            /\ live' = [live EXCEPT !.wg = WgConf(job.conf)]
    /\ job' = Idle /\ settled' = IF settled = "cut" THEN "no" ELSE "update"
    /\ UNCHANGED <<conf, cached, issued, whole, behind, ops, breakdowns>>

-----------------------------------------------------------------------------
(* Profiles; faults; systemd *)

\* add_client, by a command or by the panel, which saves its copy; the interface that
\* cannot be brought up to it is a warning.
Issue ==
    /\ job = Idle
    /\ \E c \in {conf, cached} \ {Absent} :
        /\ conf' = c /\ whole' = StillWhole(c)
        /\ issued' = issued \cup {Profile(c)}
        /\ \/ disk' = [disk EXCEPT !.wgconf = WgConf(c)]
              /\ live' = [live EXCEPT !.wg = WgConf(c)] /\ UNCHANGED breakdowns
           \/ UNCHANGED <<disk, live>> /\ Fault
    /\ UNCHANGED <<cached, job, behind, settled, ops>>

\* The panel's process ends, and its manager's process with it.
PanelGone == cached' = Absent /\ live' = [live EXCEPT !.sub = Absent, !.held = FALSE]
\* A step fails or the process is killed; a certificate that was being written may
\* be cut short.  What the bounce's steps raise is caught.
Interrupted ==
    /\ job # Idle /\ job.op # "uninstall" /\ Fault
    /\ job' = Idle /\ settled' = "no"
    /\ \/ UNCHANGED disk
       \/ At("cert") /\ disk' = [disk EXCEPT !.cert = Cut]
    /\ \/ UNCHANGED <<cached, live>> /\ job.at \notin {"bounce ws", "bounce sub", "bounce wg"}
       \/ PanelGone /\ job.op \in {"rotate", "update"}
    /\ UNCHANGED <<conf, issued, whole, behind, ops>>
UnitRetries ==
    /\ disk.enabled /\ live.ws = Absent /\ UnitStart(disk, live) # Absent
    /\ live' = [live EXCEPT !.ws = UnitStart(disk, live)]
    /\ UNCHANGED <<conf, cached, disk, job, issued, whole, behind, settled, ops,
                  breakdowns>>
Reboot ==
    /\ job = Idle /\ Fault
    /\ LET l == [ws |-> Absent, wg |-> disk.wgconf, caddy |-> disk.site,
                 sub |-> Absent, held |-> FALSE] IN
        live' = IF disk.enabled THEN [l EXCEPT !.ws = UnitStart(disk, l)] ELSE l
    /\ cached' = Absent
    /\ UNCHANGED <<conf, disk, job, issued, whole, behind, settled, ops>>

TransportNext ==
    \/ Wizard \/ PodInit \/ RunSetup \/ PanelOpens \/ PanelStarts \/ PanelStops
    \/ (\E newKey \in BOOLEAN : RenewCert(newKey) \/ RotateTlsCert(newKey))
    \/ WriteKey \/ WriteCert \/ SaveConf \/ SetupWg \/ SetupWs \/ SetupCaddy
    \/ Restart \/ InstallWg \/ RestartWg \/ RestartWs \/ NoUnit
    \/ Uninstall \/ RemoveWs \/ RemoveWg \/ RemoveCaddy \/ RemoveFiles
    \/ UpdateConfig \/ BounceWs \/ BounceSub \/ BounceWg
    \/ Issue \/ Interrupted \/ UnitRetries \/ Reboot
TransportSpec == TransportInit /\ [][TransportNext]_transportVars

-----------------------------------------------------------------------------
(* Properties *)

\* A profile that pins the key keeps matching the files, whatever renewals of the
\* certificate came since and wherever they were cut short: nothing but a setup, a
\* new key or an uninstall invalidates it (renew_tls_cert reuses the key), unless a
\* setup or a change of key was cut short or a panel acted on a copy that a command
\* had overtaken.
PinMatchesKey ==
    whole => \A p \in issued : p.mode = "self-signed" =>
        disk.key = p.key /\ disk.cert \in {p.key, Cut}

\* After a restart that reported success every profile handed out reaches the server
\* (restart_services), over what the panel, systemd and reboots do next.  The
\* exceptions are histories: a setup or a change of key was cut short, or a panel
\* acted on a copy that a command had overtaken (~whole); an uninstall left its unit,
\* or the panel changed a port without writing the unit anew, which a restart does not
\* do either (behind).  And wstunnel must run: its port was not taken.
RestartServes ==
    settled = "restart" /\ whole /\ ~behind /\ live.ws # Absent =>
        \A p \in issued : Reached(p, live)

-----------------------------------------------------------------------------
(* What the repository says and the code does not do (README, Deviations). *)

\* After a setup that ran to its end a profile reaches the server, if wstunnel runs
\* at all.  The wizard does not restart a wstunnel that runs already.
SetupServes ==
    settled = "setup" /\ live.ws # Absent => Reached(Profile(conf), live)

\* The doctor's remedy for a unit that names another port is a restart, "to rewrite the
\* unit" (diagnostics.py:816, 870).  A restart starts the unit as it is: after the panel
\* changed the WireGuard port it reports success and no profile reaches the server.
RestartRewrites ==
    settled = "restart" /\ whole /\ live.ws # Absent =>
        \A p \in issued : Reached(p, live)

\* After the panel changed a port, a profile reaches the server.  The interface is
\* restarted with the file of the old port, and the unit keeps it too.
PortChangeServes ==
    settled = "update" /\ whole /\ live.ws # Absent /\ live.wg # Absent =>
        Reached(Profile(conf), live)
=============================================================================

------------------------------- MODULE Doctor -------------------------------
(***************************************************************************)
(* The doctors: the checks of src/server/outwarp_server/diagnostics.py on  *)
(* Linux and on Windows, those of src/client/outwarp/diagnostics.py, and   *)
(* the fixes the panel and the terminal interface apply.  A system is a    *)
(* record of what the checks look at and what carries traffic; what the    *)
(* checks print is left out.                                               *)
(***************************************************************************)
EXTENDS Integers

CONSTANTS MaxBreaks    \* things that break

ASSUME DoctorAssumption == MaxBreaks \in Nat

VARIABLES
    host,       \* "linux", "windows" or "client"
    system,
    looked,     \* the system the results on the screen were taken from
    fixed,      \* history: the check whose fix came last, did not raise and met the
                \* system the check had found, or NoFix
    breaks
doctorVars == <<host, system, looked, fixed, breaks>>

NoFix == "none"

Verdict(good) == IF good THEN "pass" ELSE "fail"
OrWarn(good) == IF good THEN "pass" ELSE "warn"

-----------------------------------------------------------------------------
(* The server's checks on Linux *)

ClientsRegistered(m) == OrWarn(m.clients)
TlsCertFiles(m) == Verdict(m.certs)
Egress(m) == Verdict(m.egress)
KernelModule(m) == Verdict(m.kmod)
Fail2ban(m) == OrWarn(m.fail2ban)

CaddyFront(m) == IF ~m.proxied THEN "skip" ELSE Verdict(m.caddyBin /\ m.site /\ m.valid)
\* A refused connection and an answer without TLS are OSErrors; another
\* program's certificate is of another name.
PublicCertificate(m) ==
    IF ~m.proxied THEN "skip"
    ELSE CASE m.reach = "hairpin" \/ m.foreign = "plain" -> "warn"
           [] m.reach # "hairpin" /\ m.foreign = "tls" -> "fail"
           [] m.reach # "hairpin" /\ m.foreign = "none" ->
                IF ~m.caddy THEN "warn" ELSE Verdict(m.reach = "trusted")
LinuxBinaries(m) == Verdict(m.wstunnelBin /\ m.wgBin)
\* The units that the systemd check finds inactive, and its fix restarts.
InactiveUnits(m) == {u \in {"ws", "wg"} : ~m[u]}
\* wstunnel on the port of the configuration.
OnPort(m) == m.ws /\ m.unitFor # "old_port"
\* Whatever program holds the public port.
PublicPortHeld(m) == m.foreign # "none" \/ (IF m.proxied THEN m.caddy ELSE OnPort(m))
ListenInternalWs(m) ==
    IF ~m.proxied THEN "skip" ELSE IF ~OnPort(m) THEN "fail" ELSE OrWarn(m.loopback)
ListenWg(m) == CASE m.udp = "none" -> "warn" [] m.udp = "public" -> "fail"
                 [] m.udp = "local" -> "pass"
LinuxIpForward(m) == IF m.forward THEN OrWarn(m.persisted) ELSE "fail"
NatMasquerade(m) == Verdict(m.iptables /\ m.nat)

\* Forward lookup, reverse lookup and whether the names agree.
ReverseDns(m) == CASE m.dns = "address" -> "skip" [] m.dns = "unknown" -> "fail"
                   [] m.dns = "no_ptr" -> "warn" [] m.dns = "other_ptr" -> "warn"
                   [] m.dns = "same" -> "pass"

LinuxReport(m) ==
    [config |-> "pass", clients |-> ClientsRegistered(m), tls |-> TlsCertFiles(m),
     caddy |-> CaddyFront(m), public_cert |-> PublicCertificate(m), egress |-> Egress(m),
     linux_binaries |-> LinuxBinaries(m), linux_kmod |-> KernelModule(m),
     linux_systemd |-> Verdict(InactiveUnits(m) = {}),
     linux_listen_443 |-> Verdict(PublicPortHeld(m)),
     linux_listen_internal_ws |-> ListenInternalWs(m), linux_listen_wg |-> ListenWg(m),
     linux_ip_forward |-> LinuxIpForward(m), linux_nat_masquerade |-> NatMasquerade(m),
     linux_fail2ban |-> Fail2ban(m), linux_reverse_dns |-> ReverseDns(m)]

-----------------------------------------------------------------------------
(* The server's checks on Windows *)

WinAdmin(m) == Verdict(m.admin)
WinIpForwarding(m) == Verdict(m.router)
WinNetNatProvider(m) == Verdict(m.provider)
WinWgService(m) == Verdict(m.wg)
\* A client's wstunnel.exe has the same name, and any program may hold the port.
WinWstunnel(m) == Verdict(m.ws \/ m.clientWs)
WinListeningPort(m) == Verdict(m.ws \/ m.otherHolds)

IfaceForwarding(m) == Verdict(m.iface = "forwarding")       \* absent, or forwarding off
\* A defect: a second NAT is not reported.
WinNetNatAny(m) == Verdict(m.provider /\ m.ours = "active")
WinNetNat(m) ==
    IF ~m.provider \/ m.ours \in {"none", "inactive"} THEN "fail" ELSE OrWarn(~m.otherNat)
WinNatService(m) == CASE m.winnat = "RUNNING" -> "pass"
                      [] m.winnat \in {"STOPPED", "FAILED"} -> "fail"
                      [] OTHER -> "warn"
\* The rule that PowerShell shows, whatever its action, else the one of netsh,
\* enabled or not.
WinFirewall(m) ==
    CASE m.rule \in {"enabled", "blocks", "netsh", "netsh_off"} -> "pass"
      [] m.rule = "disabled" -> "fail"
      [] m.rule = "none" -> "warn"

WindowsReport(m) ==
    [config |-> "pass", clients |-> ClientsRegistered(m), tls |-> TlsCertFiles(m),
     caddy |-> "skip", public_cert |-> "skip", egress |-> Egress(m),
     admin |-> WinAdmin(m), ip_forwarding |-> WinIpForwarding(m),
     iface_forwarding |-> IfaceForwarding(m), netnat_provider |-> WinNetNatProvider(m),
     netnat |-> WinNetNat(m), winnat_svc |-> WinNatService(m), wg_svc |-> WinWgService(m),
     wstunnel_proc |-> WinWstunnel(m), listen |-> WinListeningPort(m),
     firewall |-> WinFirewall(m)]

-----------------------------------------------------------------------------
(* The client's checks *)

WstunnelBinary(m) == IF m.wstunnel = "none" THEN "fail" ELSE OrWarn(m.runs)
VersionPin(m) == IF ~m.pinFile THEN "skip"
                 ELSE IF m.wstunnel # "path" THEN "fail" ELSE OrWarn(m.runs /\ m.pinned)
Sudoers(m) == IF ~m.helper THEN "skip" ELSE Verdict(m.sudo)
SystemdUnit(m) == OrWarn(m.unit = "active")

WireguardTools(m) == Verdict(m.wgTools)
HelperInstalled(m) == Verdict(m.helper)
WgKernelModule(m) == Verdict(m.kmod)
NotifySend(m) == OrWarn(m.notify)
ConfigPresent(m) == Verdict(m.profile)

ClientReport(m) ==
    [config |-> ConfigPresent(m), wstunnel |-> WstunnelBinary(m),
     wstunnel_pin |-> VersionPin(m), wg_tools |-> WireguardTools(m),
     helper |-> HelperInstalled(m), sudoers |-> Sudoers(m), kmod |-> WgKernelModule(m),
     systemd |-> SystemdUnit(m), notify |-> NotifySend(m)]

\* gather_checks and run_all; a check that raises counts as a failure.
Report(m) == CASE host = "linux" -> LinuxReport(m) [] host = "windows" -> WindowsReport(m)
               [] host = "client" -> ClientReport(m)

-----------------------------------------------------------------------------
(* What systemd does with the units (external) *)

CanServe(m) ==
    m.wstunnelBin /\ (~m.proxied => m.certs /\ (m.foreign = "none" \/ m.unitFor = "old_port"))
CanFront(m) == m.caddyBin /\ m.site /\ m.valid /\ m.foreign = "none"
\* A start leaves a unit that runs alone, and neither writes it again.
StartWs(m) == [m EXCEPT !.ws = m.ws \/ CanServe(m)]
RestartedWs(m) == [m EXCEPT !.ws = CanServe(m)]
StartCaddy(m) == [m EXCEPT !.caddy = m.caddy \/ CanFront(m)]
CanWg(m) == m.wgBin /\ m.kmod /\ m.iptables
\* PostUp adds the rules, PostDown takes them away.
WgDown(m) == [m EXCEPT !.wg = FALSE, !.nat = FALSE, !.chains = FALSE]
WgUp(m) == [m EXCEPT !.wg = TRUE, !.nat = TRUE, !.chains = TRUE, !.forward = TRUE]

\* A fix's outcome: whether it raised, and the system it leaves.
Outcome(ok, m) == [ok |-> ok, system |-> m]
RestartUnits(m, units) ==
    LET m1 == IF "ws" \in units THEN RestartedWs(m) ELSE m
        m2 == IF "wg" \in units THEN WgDown(m1) ELSE m1
    IN  IF "wg" \notin units THEN Outcome(TRUE, m1)
        ELSE IF CanWg(m) THEN Outcome(TRUE, WgUp(m2)) ELSE Outcome(FALSE, m2)

\* install_wg_config: an interface that is up gets its peers synchronised, one
\* that is down is started.
MasqueradeFix(m) ==
    IF m.wg THEN Outcome(m.wgBin, m)
    ELSE IF CanWg(m) THEN Outcome(TRUE, WgUp(m)) ELSE Outcome(FALSE, m)
IpForwardFix(m) == Outcome(TRUE, [m EXCEPT !.forward = TRUE, !.persisted = TRUE])
\* A defect: the service of the other branch.
ListenFixWs(m) == Outcome(TRUE, StartWs(m))
ListenFix(m) == IF ~m.proxied THEN Outcome(TRUE, StartWs(m))
                ELSE Outcome(m.caddyBin, StartCaddy(m))

\* The checks with an automatic fix, as they were found; the fix of systemd
\* restarts the units that were inactive then.
AutoFixes(found) ==
    {c \in {"linux_systemd", "linux_listen_443", "linux_listen_internal_ws",
            "linux_nat_masquerade"} :
        /\ LinuxReport(found)[c] = "fail"
        /\ c = "linux_nat_masquerade" => found.iptables}
    \cup {c \in {"linux_ip_forward"} : LinuxReport(found)[c] # "pass"}
Fix(c, found, m) ==
    CASE c = "linux_systemd" -> RestartUnits(m, InactiveUnits(found))
      [] c = "linux_listen_443" -> ListenFix(m)
      [] c = "linux_listen_internal_ws" -> Outcome(TRUE, StartWs(m))
      [] c = "linux_ip_forward" -> IpForwardFix(m)
      [] c = "linux_nat_masquerade" -> MasqueradeFix(m)

-----------------------------------------------------------------------------
(* Actions *)

\* run_all for a screen, the panel or the command.
Look ==
    /\ looked # system
    /\ looked' = system /\ fixed' = NoFix
    /\ UNCHANGED <<host, system, breaks>>

Applies(c, found) ==
    /\ host = "linux" /\ c \in AutoFixes(found)
    /\ LET out == Fix(c, found, system)
       IN  /\ system' = out.system
           /\ fixed' = IF out.ok /\ found = system THEN c ELSE NoFix
    /\ UNCHANGED <<host, breaks>>

\* The terminal interface applies the fix of a result on the screen, and looks
\* again; apply_remediation looks first.
ApplyShownFix(c) == Applies(c, looked) /\ looked' = system'
ApplyRemediation(c) == Applies(c, system) /\ UNCHANGED looked

\* One thing breaks, or is repaired by hand (external).
FieldValues(f) ==
    CASE f = "reach" -> {"trusted", "untrusted", "hairpin"}
      [] f = "foreign" -> {"none", "plain", "tls"}
      [] f = "unitFor" -> {"config", "old_port", "old_wg_port"}
      [] f = "udp" -> {"none", "local", "public"}
      [] f = "dns" -> {"address", "unknown", "no_ptr", "other_ptr", "same"}
      [] f = "iface" -> {"absent", "still", "forwarding"}
      [] f = "ours" -> {"none", "inactive", "active"}
      [] f = "winnat" -> {"RUNNING", "STOPPED", "FAILED", "PAUSED"}
      [] f = "rule" -> {"enabled", "blocks", "disabled", "netsh", "netsh_off", "none"}
      [] f = "wstunnel" -> {"none", "local", "path"}
      [] f = "unit" -> {"active", "enabled", "disabled", "none"}
      [] OTHER -> BOOLEAN
Break(f, v) ==
    /\ breaks < MaxBreaks /\ breaks' = breaks + 1
    /\ v \in FieldValues(f) /\ v # system[f]
    /\ f \in {"ws", "wg", "caddy"} => ~v          \* a unit stops; it starts by a fix
    \* One program holds the port.
    /\ f = "foreign" => v = "none" \/ ~PublicPortHeld(system)
    /\ f = "unitFor" => system.foreign = "none"
    /\ f = "otherHolds" => ~system.ws
    /\ system' = IF f = "wg" /\ host = "linux" THEN WgDown(system)
                  ELSE [system EXCEPT ![f] = v]
    /\ fixed' = NoFix /\ UNCHANGED <<host, looked>>

HealthyLinux ==
    [caddyBin |-> TRUE, site |-> TRUE, valid |-> TRUE, caddy |-> TRUE, reach |-> "trusted",
     wstunnelBin |-> TRUE, wgBin |-> TRUE, kmod |-> TRUE, iptables |-> TRUE, certs |-> TRUE,
     ws |-> TRUE, loopback |-> TRUE, unitFor |-> "config", wg |-> TRUE, foreign |-> "none",
     udp |-> "local", forward |-> TRUE, persisted |-> TRUE, nat |-> TRUE, chains |-> TRUE,
     egress |-> TRUE, clients |-> TRUE, fail2ban |-> TRUE, dns |-> "same", proxied |-> FALSE]
HealthyWindows ==
    [clients |-> TRUE, certs |-> TRUE, egress |-> TRUE, admin |-> TRUE, router |-> TRUE,
     iface |-> "forwarding", provider |-> TRUE, ours |-> "active", otherNat |-> FALSE,
     winnat |-> "RUNNING", wg |-> TRUE, ws |-> TRUE, clientWs |-> FALSE, otherHolds |-> FALSE,
     rule |-> "enabled"]
HealthyClient ==
    [profile |-> TRUE, wstunnel |-> "path", runs |-> TRUE, pinFile |-> TRUE, pinned |-> TRUE,
     wgTools |-> TRUE, helper |-> TRUE, sudo |-> TRUE, kmod |-> TRUE, unit |-> "active",
     notify |-> TRUE]

DoctorInit ==
    /\ \/ host = "linux" /\ system \in {HealthyLinux, [HealthyLinux EXCEPT !.proxied = TRUE]}
       \/ host = "windows" /\ system \in {HealthyWindows, [HealthyWindows EXCEPT !.clientWs = TRUE]}
       \/ host = "client" /\ system = HealthyClient
    /\ looked = system /\ fixed = NoFix /\ breaks = 0
DoctorNext ==
    \/ Look
    \/ \E c \in DOMAIN LinuxReport(HealthyLinux) : ApplyShownFix(c) \/ ApplyRemediation(c)
    \/ \E f \in DOMAIN system \ {"proxied"} : \E v \in FieldValues(f) : Break(f, v)
DoctorSpec == DoctorInit /\ [][DoctorNext]_doctorVars

-----------------------------------------------------------------------------
(* Properties *)

\* What it takes to carry the traffic of a client of this configuration, or to
\* connect; the router and the names before it are not the machine's.
LinuxServes(m) ==
    IF m.proxied THEN m.caddy /\ m.site /\ OnPort(m) /\ m.reach # "untrusted"
    ELSE OnPort(m)
LinuxWorks(m) ==
    /\ LinuxServes(m) /\ m.unitFor # "old_wg_port" /\ m.wg /\ m.udp # "none"
    /\ m.forward /\ m.nat /\ m.chains /\ m.egress
WindowsWorks(m) ==
    /\ m.ws /\ m.rule \in {"enabled", "netsh"}
    /\ m.wg /\ m.router /\ m.iface = "forwarding" /\ m.egress
    /\ m.provider /\ m.ours = "active" /\ ~m.otherNat /\ m.winnat = "RUNNING"
ClientWorks(m) ==
    m.profile /\ m.wstunnel # "none" /\ m.runs /\ m.wgTools /\ m.helper /\ m.sudo /\ m.kmod
Works(m) == CASE host = "linux" -> LinuxWorks(m) [] host = "windows" -> WindowsWorks(m)
              [] host = "client" -> ClientWorks(m)

\* What no check sees: the FORWARD rules of PostUp, a unit written for another
\* WireGuard port, another program on the public port while wstunnel listens on
\* an old one; on Windows a rule that blocks, one of netsh that is off, and
\* another program on the port while only a client's wstunnel.exe runs.
LinuxUnseen(m) == \/ m.wg /\ ~m.chains
                  \/ m.unitFor = "old_wg_port"
                  \/ ~m.proxied /\ m.foreign # "none" /\ m.unitFor = "old_port"
WindowsUnseen(m) == m.rule \in {"blocks", "netsh_off"} \/ (m.clientWs /\ m.otherHolds)
Unseen(m) == CASE host = "linux" -> LinuxUnseen(m) [] host = "windows" -> WindowsUnseen(m)
               [] host = "client" -> FALSE

\* A system that does not carry traffic shows, but for what no check sees: a
\* check fails, or one of those that may mean it warns.
Telling == {"public_cert", "linux_listen_wg", "netnat", "winnat_svc", "firewall", "wstunnel"}
NothingIsHidden ==
    LET r == Report(system)
    IN  ~Works(system) /\ ~Unseen(system) =>
            \E c \in DOMAIN r : r[c] = "fail" \/ (c \in Telling /\ r[c] = "warn")

\* A fix that did not raise, applied to the system its check had found, cured the
\* check, or the check that names the cause fails as well.  MASQUERADE is left out
\* (FixFixes), and so are a program that holds the public port and a unit written
\* for another one, which no start can mend.
Causes == {"tls", "caddy", "linux_binaries", "linux_kmod"}
FixCures ==
    (/\ fixed \notin {NoFix, "linux_nat_masquerade"}
     /\ system.foreign = "none" /\ system.unitFor # "old_port") =>
        \/ LinuxReport(system)[fixed] # "fail"
        \/ \E c \in Causes : LinuxReport(system)[c] = "fail"

-----------------------------------------------------------------------------
(* What the repository says and the code does not do (README, Deviations). *)

\* diagnostics.py:985: "Re-apply the WG config (its PostUp adds the rule)".
FixFixes == fixed = "linux_nat_masquerade" => LinuxReport(system)[fixed] = "pass"
=============================================================================

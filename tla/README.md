# OutWarp / WarpSocket: a verification project

OutWarp carries WireGuard inside a wstunnel WebSocket.  The client program keeps a
wstunnel process and a WireGuard interface alive, tries several ways to reach the server,
retries when they go, and can block traffic while they are down; the server program keeps
the list of clients, lets new ones in with one-time tokens, and looks after the daemons
and the files they serve.  This directory holds TLA+ models of that logic, the TLC
instances that check them, and proofs that TLAPS checks.  Paths below are relative to
`src/`; `client/` stands for `client/outwarp/` and `server/` for
`server/outwarp_server/`.

## Inventory

| Component | State | Operations | Hard part | Correct when | Module |
|---|---|---|---|---|---|
| `Tunnel` (`client/tunnel.py`) | `_proc`, `_wg_installed`, `_active_strategy`; the process and the interface | `connect`, `disconnect`, `is_active` | called by the manager's thread and by that of `stop()` without a lock | nothing is left running, every process can be stopped | `Tunnel` |
| `TunnelManager` (`client/tunnel.py`) | state, phase, last error, attempt, stop event, thread | `start`, `stop`, `_run` | join time-out, retries, listeners called outside the lock | the reported state is the real one, attempts end | `TunnelManager` |
| Kill switch (`client/api.py`, `platforms/linux.py`) | setting, rules | listener, `set_settings` | three threads, no lock | the rules follow the tunnel and the setting | `KillSwitch` |
| Profile document (`client/config.py`) | none | parse, write, edit | defaults left out of the file | what was written loads again as it was | `Profile` |
| Profile on disk (`client/api.py`, `config.py`, `enroll.py`, `app.py`) | `config.json`, the snapshot of the import, the manager's copy, the token at the server | import and enrol, edit, reset, remove | calls in threads of their own, failures and crashes between the steps, a lost answer | the next start finds what this one runs with | `ProfileStore` |
| Ladder and sticky store (`client/fallback.py`, `tunnel.py`) | remembered rung per network, preference of the session | `build_ladder`, `reorder_for_sticky`, pin checks | networks change between probe, routes, check and dial, and under the memory; resolvers disagree | a way that works is found, under the check it asks for | `Ladder` |
| Routes (`client/wireguard.py`) | none | `_allowed_ips_excluding` | overlapping networks in any order | everything but the bypass list goes through the tunnel | `Routes` |
| Updates (`client/api.py`, `updater.py`, `minisign.py`, both command lines) | downloads, helper | check, download, verify, install | release and file change in between | only signed bytes of a newer version are installed | `Update`, `Ed25519` |
| Logs (`client/logs.py`, `api.py`) | bounded buffers, rotating file | log, watch, clear, follow | length against count, rotation between awaits | lines once and in order | `LogFeed` |
| Saved files (both `config.py`, `settings.py`, `crypto.py`) | inodes in cache and on disk | `_atomic_write_secret`, load | power loss, overlapping writers | one whole content, always | `AtomicFile`, `Register` |
| Token store (`server/enrollment.py`) | `enrollment_tokens.json` | `issue`, `redeem`, `revoke` | several processes load and save | a token admits one client, and none after a revocation | `Enrollment` |
| Operations, listener, address pool (`server/operations.py`, `enroll_server.py`, `ip_pool.py`) | configuration, WireGuard file, interface | add, revoke, rotate, complete enrolment, restart | four stores changed one after the other | the interface admits the clients of the configuration | `Enrollment` |
| `ServerManager` (`server/server_manager.py`) | state, process, threads, listener | start, stop, restart, monitor | hardly any lock | stopped means stopped, running means watched | `ServerManager` |
| Setup and what is served (`server/setup_wizard.py`, `k8s_init.py`, `crypto.py`, `cli.py`, `api.py`, `caddy.py`) | configuration, key, certificate, unit, WireGuard file, site, the panel's copy; what runs | setup, renew, restart, uninstall, port change, start and stop in the panel | daemons do not follow files; steps cut short; commands overtake the panel | a profile handed out connects | `Transport` |
| Doctors (`server/diagnostics.py`, `client/diagnostics.py`) | results on the screen | checks, automatic fixes | results older than the system, two branches | nothing broken is hidden, a fix cures | `Doctor` |
| Panel's door (`server/web_auth.py`, `web_server.py`) | token, sessions, limiter | login, logout, purge | overlapping requests, boundaries in time | a lockout was earned | `Panel` |
| Presentation, traffic history, services, installers | | | I/O | | |

The window, tray, terminal interface and command line of the client all call `Api` or the
functions under it; those of the server call `operations.py`, the setup and the doctors,
or `ServerManager`.  The client meets the server in an enrolment and through wstunnel.
`PROJECT.json` lists the components with what is left out of each, and the hazards of the
code, each at its line and with the properties that cover it.

## Modules

```
Tunnel <- TunnelManager <- KillSwitch <- MCKillSwitch
          TunnelManager <- MCTunnelManager
          TunnelManager <- TunnelManagerProofs
                           TunnelManagerProofs, KillSwitch <- KillSwitchProofs
Profile <- ProfileStore <- MCProfileStore
Profile <- Ladder
ProfileStore, Ladder <- ProfileProofs
Register <- (INSTANCE) AtomicFile
AtomicFile, LogFeed, Update <- ClientProofs
MCProfileStore, Ladder, Routes, Update, Ed25519, LogFeed, AtomicFile <- MCClient
Enrollment <- MCEnrollment
Enrollment <- EnrollmentProofs <- AdmissionProofs
Transport <- TransportProofs
ServerManager, Doctor, Panel <- ServerProofs
ServerManager, Doctor, Transport, Panel <- MCServer
```

Two modules only put others together for checking.  `MCClient` extends the client's small
modules, `MCServer` those of the server: a variable `focus`, chosen at the start, names
the module that moves, and the others stay in their initial state.  They do not interact
in the code either, but through what one hands to the next, so nothing is lost by not
interleaving them, and one run checks them all.  Where modules do interact they are
composed: `KillSwitch` extends `TunnelManager`, `Ladder` and `ProfileStore` work on the
configurations that `Profile` parses, `AtomicFile` implements `Register`.

An operator whose comment begins with *Variant* or *A defect* is not part of any
specification: it is a plausible bug in the definition below it, which `PROJECT.json`
pairs with the property that finds it.

### Tunnel and TunnelManager

`Tunnel` has one operator per access that `client/tunnel.py`'s class `Tunnel` makes to its
fields or to the machine: set `_active_strategy`, install, record, start a process, end
the process that `_proc` names, set `_proc` to None, and so on.  `TunnelManager` puts
them in the order of the code and gives each step to a thread: `Run` (the thread of
`_run`) or one of the `Callers` (whatever thread calls `start`, `stop` or the reconnect
of `Api`).  A thread is at a label `pc[t]`; between two labels any other thread may run.
`note[t]` holds the state that `_set_state` or `_set_phase` read under the lock and has
still to hand to the listeners (`Notify`), because they are called after the lock is
released.

* `state`, `phase`, `lastError`, `attempt`, `stopEvent` are the manager's fields;
  `failures` is the local variable `attempt` of `_run`; `died` tells the clean-up after
  a drop from the one after a failed `connect`.
* `waiting` is the set of callers whose `join` waits for the thread; `JoinTimesOut` is
  allowed only where the thread can be slow for 10 seconds (`SlowSteps`, each with its
  duration in a comment) or has been started anew.
* A refused certificate pin, a process that cannot be started, a missing handshake, a
  missing ping, a failed installation are separate actions.  Which rungs exist is left
  open here: a ladder has one to `MaxRungs` of them; `Ladder` says which.
* An uninstall that raises is logged and `_wg_installed` cleared all the same
  (`tunnel.py` 447-452; `platforms/linux.py` 83 does not look at the outcome of `wg-quick
  down` in the first place): `DisconnectLeavesWg`, with `UninstallFails` of `Tunnel`.
  `leftUp` remembers that the interface is one that a removal has left standing.
* The peers' handshake, the death of a process and the loss of the interface come from
  outside; together with the refused removals they are the faults of `MaxFaults`;
  `PingAnswers` reads them as `_await_ping` would, including the answer over the machine's
  own route when the interface has gone.
* History variables: `heard` (what the listeners heard last), `wanted` (the last
  command), `overlapped` (a `stop()` went on beside a live thread, or a start overtook
  an unfinished stop).  Most safety properties assume `~overlapped`; what goes wrong
  beyond it is a finding (`StopIsFinal`).
* Not modelled: the first check of `connect` for a profile without a private key
  (a failed attempt as any other), the expired profile that `Api.connect` refuses before
  it starts anything, wording and statistics.

### KillSwitch

Extends `TunnelManager`: the call of a listener is the handler `Api._sync_kill_switch`.
It reads the setting first (`Hears`, `Ignores`) and calls the platform in a later step
(`Engages`, `Releases`), in the thread that changed the state; `set_settings` is a third
thread (`TurnsOn`, `Looks`, `SetterEngages`, `SetterRollsBack`, `TurnsOff`,
`SetterReleases`).  The firewall is one bit; while it is set the echo request that
verifies a rung gets no answer (`HoldsBack`).  A refusal by the platform and another
launch of the program, which releases the rules before it finds the lock taken, are
*upsets*, bounded by `MaxUpsets`.  `raced` records that a change of the setting crossed
a listener call.  `release_kill_switch` raises on no platform and is taken to work; a
profile without an address to let out never engages, and the one here has one.

### Profile and ProfileStore

`Profile` is `client/config.py` as functions on documents.  A JSON object is a function
from its keys, so that `d.get(k, v)` is `Get(d, k, v)` and a key that is missing is one
outside the domain; `Bad` is a value of a type the field does not take, `TextNumber` a
string that `int()` reads, for the fields the code converts (`ToInt`, `Ints`: the MTU, the
attempts and the delays).  `Accepts` is the conjunction of all the refusals of `_parse`,
`Parse` the configuration it builds, `ToDict` what `_to_dict` writes, with its omissions of
defaults, `PatchOk` and `ApplyPatch` the profile editor.  A string is one of the words the validators tell apart; whether a string
is an address, a CIDR or a fingerprint is decided by the class it stands for.  `Brief` is
the habit of the writer to leave out what has its default, `Keep` the loop of the reader
over a list from which it drops entries (`Alternatives`: the fallback ports but for the
first port and repetitions).

`ProfileStore` is the life of that document: the bridge runs every call in a thread of its
own (`client/api.py` 435-437), and `call[c]` is the call that thread `c` of `Callers` makes,
with its step, the configuration it carries, the one it started from and the key pair it
would draw; `file` and `original` are the two files, `manager` the configuration in force,
`server` the token at the server and the key it was spent for.  An import is
(enrol,) save, snapshot, swap; an edit is snapshot if there is none, save, swap; a removal
forgets the manager and then deletes; every save and the deletion may fail (`Fails`), an
answer may be lost after the token was spent (`AnswerLost`), the client may end anywhere
(`Crash`) and starts again with what the file holds (`Launch`).  Between two steps of a call
any other call may make its own.  `torn` records that a step failed, `crossed` that two calls
that change something were under way at once.  `StoredLoadsAgain` and `OwnKeyIsKnown` hold
over both; the properties about agreement hold without them and are about every order of
calls, and what crossing calls leave is `ActiveIsPersisted` under Deviations.  A save is one
step here because `AtomicFile` shows that it is.

### Ladder

A profile is what `Parse` returns.  `BuildLadder` keeps the first rung of every `DedupKey`,
`ReorderForSticky` puts the remembered rung first.  A `connect()` (`walk`) asks the network
at several moments, each a step: the pre-flight looks for a rung whose port answers
(`Preflight`), the routes are made once from what the names of all rungs stand for
(`InstallRoutes`), then each rung has its certificate checked on a connection of its own
(`CheckRung`) and is dialled (`DialFails`, `DialSucceeds`).  The machine may move to another
network between any two (`Move`), the thread may be told to stop (`EndSession`).  The network
is recognised when the thread starts (`StartSession`); the store of remembered rungs survives
another profile (`ImportOther`) and may be lost (`StoreLost`).

A network is a record: what its own resolver and the public one answer (`names`,
`public`), whether the machine still remembers a name once its lookups go into the tunnel
(`remembers`), the ports that answer, the certificate each address shows, the addresses
behind which the server answers and under which Host header, the proxy, and what the user has
agreed to there.  A name leads to an address by the resolver that the code asks, and at the
moment it asks: `System` for the pre-flight and the routes, where a name without an answer
is skipped (`LeftOutside`, `wireguard.py` 85-86, 107-111), `SystemInside` for the check and
the dial once the `DNS` lines of the configuration are in force, and `Dialled` for a hostile
rung, whose `--dns-resolver 1.1.1.1` gets an answer only if 1.1.1.1 is itself left outside.
A dial works if the address is outside the tunnel, and if the server answers there under the
rung's Host header (`Serves`).  What wstunnel and the resolvers do is the external part; so
is `LeadsTo`, the address a rung is meant to reach.

`Works` says what a rung is worth by itself: the address it is meant to reach serves it and
shows the certificate it asks for.  It knows nothing of routes, pre-flight, duplicates or
memory, all of which can cost a way that works; `WorkingRungIsFound` says that they do not,
with the two exceptions that are the code's: a rung that is taken for a duplicate of one with
another Host header (`Shadowed`), and one whose name means something else to a resolver that
the pre-flight, the routes, the check or the dial ask (`Misled`).

### Routes

Addresses of `Width` bits; a network is its first address and its length, an entry of the
bypass list the sequence of networks it resolves to.  `AddressExclude` is the library's
function, `AllowedExcluding` the loop of the code with the `ValueError` where the library
raises it.  The list grows entry by entry, so every order of every list is visited.

### Update and Ed25519

A call of `Update` is the window's thread, the client's or the server's command; it checks
(`Checks`), opens the file, downloads, verifies and installs, each a step.  The release
may change in between (`Publish`), a download may be cut short without an error, every
fetch may fail.  `saved` maps a path to what it holds: a command has a directory of its
own, two calls of the window share one.  A hash is the content that has it; a signature
file is its lines with what they decode to, so that the order of the checks of
`minisign.verify` is kept.  `Ed25519` is the arithmetic under it, over a prime with the
same congruences as the real one, so that the branch for a square root that needs the
factor, a point without an x, and both signs all occur.

### LogFeed

`memory` is the handler's bounded buffer, `entries` the window's with its sequence
numbers, `logFiles` every file that had the name.  `bind_window` first backfills and then
starts the watcher with the count of that moment; `tail_follow` opens, asks for the inode
and reads in steps, with its awaits in between, beside a handler that renames the file.

### AtomicFile and Register

A save is `Mkstemp`, `Write`, `Fsync`, `Replace`, any of which may fail; a load is `Open`
and `Read`.  An inode has a content in the page cache and one on the disk, and so has the
name; the kernel writes back when it likes and a power cut loses the rest.  `Register` is
the promise: a save takes effect at once, a reader gets one whole content, a power cut
brings back an earlier one.  The refinement maps the value to what the name's inode holds
in the cache, what is left after a cut to the disk, and lets a reader take the value when
it opens the file.

### Enrollment

Processes (the listener and the administrators' commands) load a file, compute, and save
it.  `view[p]` and `seen[p]` are what process `p` has loaded of the configuration and of
the token store; every save is computed from them.  The steps of an operation are those
of the code: token store, `wg set` on the interface (`HotChange`), configuration
(`SavesConfig`), WireGuard file (`Persists`), `wg syncconf` from that file (`Syncs`),
hand-over (`Finishes`).  The listener loads the configuration after it has spent the
token; the administrator's commands work on what was loaded before.  A sync can hand to
the interface the file that another process has written since.

* `Crash` ends an operation anywhere, `HotChangeFails` and `PersistFails` are the
  failures that the code logs and survives, a half-done rotation included, and `Reboot`
  brings the interface up from its file.
* History: `admitted`, `dropped`, `stale` (the processes whose copy another save of the
  configuration has overtaken), `crossed` (a save overwrote what its process had not
  seen, or a restart ran beside another operation), `torn` (an operation ended before
  its last step), `astray` (a step failed since the interface last took an up-to-date
  file).  For the configuration `crossed` asks who saved since, not whether the contents
  differ: an addition and a revocation bring an earlier configuration back, and a process
  that loaded it before both would pass for up to date although the token it works with
  has been revoked meanwhile.
* Left out: pruning of old tokens (they are refused with or without an entry), the
  listener's rate limiter (it only delays), expiry dates of clients, the second
  implementation of revoke and rotate in `ServerManager`.  A key posted by a client is
  fresh, as `keygen.py` makes it.

### ServerManager

`start()` tests the state under its lock and leaves the rest to a thread of its own; run
`r` is the `r`-th of these threads, and the wstunnel process, the monitor, the traffic
sampler and the enrolment listener it creates carry its number.  `proc`, `monitor`,
`sampler` and `listener` are the manager's handles, which may lag behind what exists
(`alive`, `watch`, `sampling`, `bound`).  `step[r]` is where run `r` is in `_do_start`
(`DoStart`), `watch[r]` where its monitor is (`Monitor`), `at[c]` where a caller is in
`stop()` or `restart()` (`CallerStep`); each step is one access to a handle or to the
machine, because nothing but the head of `start()` is locked.

* `Fails`, `FindsNoWg`, `UninstallFails` are the platform's failures; a failing
  `install_wg_config` leaves what was there.  Two handles that are read a second time
  can be None by then (`Joins`, `Logs`): the exception ends the call or the run.
* The join of `stop()` has a time limit of 2 s.  The monitor wakes up on the event and
  ends at once, so the limit is reached only when another step has cleared the event
  again (`Awaits`).
* History: `overlapped` (two calls, or a call and a run, went on at once), `retried` (a
  run was started from ERROR), `refused` (the interface could not be taken down).  The
  properties speak of behaviours without an overlap, beside the monitor and the faults;
  the code makes no attempt at more: a `stop()` during a start is followed by RUNNING.
* Left out: the clients (`add_client`, `rotate_client`, `revoke_client` on the cached
  configuration), the state's listeners, the thread that reads wstunnel's output.

### Transport

What is on disk (`conf`, `disk`), what runs (`live`: the unit's wstunnel, the interface,
Caddy, the wstunnel of the panel's own manager and whether that manager holds one), what was
handed out (`issued`).  A secret is the number of the operation that drew it, so that "the
certificate is the key's" and "the profile has this path" are equalities.  An operation is a
`job` that goes from step to step: setup is key, certificate, configuration, WireGuard, unit
(and Caddy); a renewal starts at the key or at the certificate; `restart` rewrites the
WireGuard file and restarts both; a change in the panel ends in a background thread
(`BounceWs`, `BounceSub`, `BounceWg`).  The panel works on `cached`, its copy of the
configuration, and commands run beside it and overtake that copy; its manager starts and
stops what it runs (`PanelStarts`, `PanelStops`: closing the panel is a stop, which takes
the interface down whoever brought it up).  A pod's `serve` is a panel that nobody uses.
`Interrupted` cuts an operation anywhere, a certificate in the middle included (it is not
written atomically); the death of the panel takes the wstunnel of its manager with it
(`PanelGone`); `UnitRetries` and `Reboot` are systemd.  `Reached(p, l)` says whether profile
`p` connects to what runs.  One operation is at work at a time.

History: `whole` (no setup and no change of key was cut short, and no panel acted on a copy
that a command had overtaken), `behind` (an uninstall could not remove its unit, or the panel
changed a port that the unit names and did not write it again), `settled` (what ended last,
until the next operation; `"cut"` after a restart of the unit that failed).

### Doctor

A system is a record of what the checks look at and of what carries traffic; `Report` gives
every check its verdict, as written, for a Linux server, a Windows server and a client.
Things break one by one (`Break`), `Look` takes the results, and a fix is applied as it was
found (`ApplyShownFix`) or after another look (`ApplyRemediation`).  `Works` says what it
takes to carry the traffic of a client of this configuration, whatever the checks ask: that
it is this wstunnel, on the port of the configuration and for its WireGuard port, that
listens; that the rules of PostUp are there, FORWARD as well as MASQUERADE; that a rule of
the firewall lets through; that the client's wstunnel runs when it is called.

The checks do not see all of that, and the model keeps the states in which they do not
(`Unseen`): FORWARD rules that are missing, a unit for another WireGuard port, another
program on the public port while wstunnel listens on an old one; on Windows a rule whose
action is Block or one of netsh that is off, which both pass, and a client's `wstunnel.exe`
in place of the server's beside another program on the port.  Some faults show as a warning
only (`Telling`): a public port that answers without TLS, no WireGuard socket in the table,
a second NAT, a WinNAT service in another state, a missing firewall rule, a client whose
wstunnel does not run.  `NothingIsHidden` says that there are no others.  The router, an
outer firewall and the names before the machine are not its own and are left out.

### Panel

Each request to `/auth` is a thread: gate, check of the token, the time of a failure,
outcome.  `register_failure` reads the clock before it takes the lock (`FailureIsTimed`),
so that a later failure can be counted first; nothing reads the order of the limiter's
list, which is therefore a set of numbered times.  Time is in whole seconds and does not go
back; the limiter of the code reads `time.time`, which an administrator can set back.
`failedAt` remembers all failures of an address since it succeeded last, against which the
limiter's own list is judged.

## Runs

| Run | Instance | Shows |
|---|---|---|
| `tunnel_manager` | 2 callers, 3 processes, 2 attempts, 2 rungs, 3 commands, 1 fault | the safety properties of the manager |
| `tunnel_live` | 1 caller, 2 processes, 1 rung, 3 commands, 1 fault, weak fairness | stops return, a stopped thread ends, attempts end |
| `kill_switch` | 1 caller, 2 attempts, 1 rung, 2 commands, 1 fault, 1 upset | the rules follow the tunnel and the setting |
| `enrollment` | 1 administrator, 2 names, 2 keys, 2 tokens, 2 addresses, 3 commands, no fault | addresses apart, one client per token, enrolled clients stay |
| `enrollment_faults` | 2 administrators, 2 commands, 1 fault | files and interface in step at rest, tokens and slots agree, old keys are off |
| `client` | `MCClient`: see below | what the client stores, dials, routes, installs, shows and saves |
| `server` | `MCServer`: see below | the server's lifecycle, its doctors, what it serves, its door |
| `stop_is_final`, `ks_drop`, `enrollment_lost`, `allowed_ips`, `port_change` | as the run of the same module | the findings below |

`client` is seven instances: the store with 2 callers, 2 calls and 1 fault over one complete
document and those that differ from it in one section (7 more that are accepted, 38 that are
refused, 16 patches), the callers being alike;
the ladder with 4 profiles on 6 networks and 2 moves; the routes of all lists of 3 entries
over the 15 networks of 3-bit addresses, a name that resolves to none and one that
resolves to several; 2 updates over 9 releases, one good and eight with one thing wrong or
another form, 1 publication; all signatures over the curve of 13 with a group of order 5;
6 log lines through buffers and files of 2; 2 writers and 1 reader on 3 inodes.

`server` is four: 2 callers, 3 commands and 1 fault of the manager; 2 things that break in
each of the three hosts; 3 operations of setup, renewal, restart, uninstall and the panel,
over 2 public and 2 WireGuard ports, with 1 breakdown; 2 requests at the door within 5
seconds, with limits of 2.  The callers are alike, and so are the WireGuard ports; of the
public ones the first is also Caddy's.

Why the bounds suffice.  Two callers let a stop meet a stop, a start and a reconnect; three
commands let a stop overlap both a start and another stop, and a reconnect come back; two
attempts distinguish the first attempt, a retry and the last one; two rungs let one fail
after another has left a process behind, and the third process shows one that nobody can
stop.  One fault is a drop at any moment, or an interface that stays.  In `Enrollment` two
names compete for two addresses, two keys and tokens let a revoked client come back, and
three commands are an addition, a revocation and an addition again, beside an enrolment.
In `ServerManager` three commands are a start, a start from ERROR after the fault, and a
stop, or two stops that meet in a running server.  In `ProfileStore` two calls are any of
import, edit, reset and removal that follow one another or cross at any of their steps, on
a disk that is empty or holds what an earlier session has left, so that neither has to
build up the state the other meets; one fault tears any of their steps.  The ladder's four
profiles hold every kind of rung, duplicates that differ in their Host header, an id that
means another rung in another profile, and one that leaves 1.1.1.1 outside; its six
networks each defeat all rungs but a few, by ports, certificates, a poisoned name, lookups
that end in the tunnel, or a proxy.  Two moves change the network between two steps of a
`connect()` and back, or before and within it.  Three entries give every relation of two
networks before and after a third.  Two things that break show a cause behind another
failure.  In `Transport` three operations are a setup, a renewal, an uninstall or a change
in the panel, and a restart or another of them; opening, starting and closing the panel,
handing out profiles and the retries of systemd are not counted.  The limiter's window ends
within the 5 seconds, and two requests overlap in the check of their tokens.  The three
inodes of `AtomicFile` are the file, and one temporary of each writer; the proof needs no
bound.  `CHECK_DEADLOCK` is off because the programs may rest for ever: nobody has to issue
a command, and the bounds on commands and faults end the behaviours.

Properties worth naming:

* `CleanAtRest`, `NoOrphan`: when everything has ended, no process is left, nor an
  interface but one that the platform refused to remove; a process that runs can be
  stopped.  This is what the interleaving of two `disconnect`s and a failing `connect`
  could break.
* `ReconnectComesBack`: a reconnect is not lost because `start()` met the old thread.
* `AttemptsCounted`, `NoSpinnerAtRest`, `ConnectedIsWatched`: what the user sees agrees
  with what the thread does.
* `LostIsBlocked`, `EngagedIsWanted`: the rules, the state of the manager and the setting
  agree, in every order of the three threads.  The first speaks of `state`: two stops can
  make `heard` stale, as `ListenersHearStopLast` shows.
* `OneClientPerToken`, `TokensHaveSlots`, `PendingCanEnroll`: tokens and slots belong
  together through revocations, re-issues and crashes.
* `InStep`, `GoneIsOff`: the interface admits exactly the configured clients when
  nothing is under way, and a key that was taken out opens nothing, also after a reboot.
* `StoredLoadsAgain`, `RunningIsStored`, `SnapshotIsImport`, `OwnKeyIsKnown`: the writer
  and the reader of the profile agree on every document, the files agree with the manager
  after every call that ended well and crossed no other, and no key is stored that the server
  does not know, whatever crosses.
* `WorkingRungIsFound`, `TrustIsTheRungs`: a `connect()` gives up only where no way works,
  so that neither the routes, the pre-flight, the removal of duplicates nor the memory
  costs one (but for the duplicates and the resolvers named above); and what is connected
  to shows the certificate that its rung asks for, or the profile exempts the rung.  A pin
  is checked on a connection before the one that is used (`fallback.py` 119-124):
  `TrustIsTheRungs` says so for a network that did not change in between and a name that
  leads the dial where it led the check, and without these exceptions for a chain.  On a
  network where the user has agreed to intercepted TLS any certificate passes a pin.
* `AllowedIsComplement`: the routes are the complement of the bypass list, disjointly.
* `InstalledIsRelease`, `VerifyIsEquation`: what is installed is what a signed manifest of
  a newer version lists, and the signature check is the equation of the scheme.
* `LinesOnceInOrder`: no line twice, none out of order, through rotation and backfill.
* `StoppedIsDown`, `RunningIsWatched`, `NoStrayProcess`: the manager's handles and the
  machine agree, also after a start from ERROR.
* `PinMatchesKey`, `RestartServes`: profiles that pin the key survive renewals that are
  cut short, also beside an open panel, and a restart brings what runs in line with every
  profile handed out, unless the unit on disk is not the configuration's (`behind`): a
  restart does not write it.
* `NothingIsHidden`, `FixCures`: a system that carries no traffic shows, but for the blind
  spots listed under Doctor; a fix cures its check or another check names the cause, unless
  another program holds the port or the unit is for another one.
* `LockoutIsEarned`: a lockout has its failures within the window, by the same address,
  after its last success, whatever requests overlap.

### Fairness

`FairSpec` asks for weak fairness of each thread's own next step: an operating system
runs every thread that can run, and every wait in the code has a time limit (the
handshake 12 s, the ping 6 s, `Popen.wait` followed by `kill`, the backoff on the stop
event).  No command, fault or handshake ever has to happen.

## Findings

* `StopIsFinal` fails (`tunnel.py` 617-629): the join of `stop()` times out after 10 s,
  the thread inside `connect` goes on and sets CONNECTED or FAILED after DISCONNECTED.
* `DropIsBlocked` fails (`tunnel.py` 711-731): after a drop the state stays CONNECTED
  through the backoff, so the kill switch is not engaged while the interface is gone.
* `NoPeerIsLost` fails (`operations.py` 183): a command saves the configuration it loaded
  before an enrolment.
* `EveryListHasRoutes` fails (`wireguard.py` 129): a network of the bypass list that is
  wider than one before it (10.1.2.3, then 10.0.0.0/8) makes `address_exclude` raise, and
  no connect succeeds; the profile editor accepts the list.
* `PortChangeServes` fails (`server/api.py` 1067-1071): a new WireGuard port restarts the
  interface with the file of the old one, and the unit's command line, which names the
  port too, is rewritten only when the other port changes.

### Deviations

The properties below stand in the last section of their module, under the words of the
repository they state (`DownIsDown` says what a reported state means).  The code does not keep them; they have no run of their own, and
adding one of them as an `INVARIANT` to the configuration named here, where it is not there
yet, shows its counterexample.

* `DownIsDown` (`TunnelManager`, `MCTunnelManager.cfg`; `tunnel.py` 447-452,
  `platforms/linux.py` 83): `disconnect` forgets the interface whether or not its removal
  worked, so that a manager reported DISCONNECTED can leave it up with its routes, and no
  later `stop()` tries again.
* `ListenersHearStopLast` (`TunnelManager`, `MCTunnelManager.cfg`; `tunnel.py` 631-641):
  two stops call the listeners outside the lock, and the older notification can come last.
* `StopReleases` (`KillSwitch`, `MCSwitchStops.cfg`: 2 callers, 1 attempt, 3 commands;
  `client/api.py` 511, `tunnel.py` 637): two stops in FAILED.  The first clears the phase
  and its handler, told FAILED, decides to engage; the second sets DISCONNECTED and its
  handler releases; then the first handler engages.  The first stop finds DISCONNECTED set
  and tells nobody: a client at rest keeps the machine cut off.
* `ReconnectGetsOut` (`KillSwitch`, `MCKillSwitch.cfg`; `tunnel.py` 393, `platforms/linux.py`
  177): the ping that verifies a rung is held back by the rules, so a reconnect cannot
  succeed while they are in place, although they are meant to let it out.
* `SamplerEndsWithRun` (`ServerManager`, `MCServer.cfg`; `server_manager.py` 131, 425):
  `start()` from ERROR puts the handle of a new sampler over that of the old one, which
  samples on in a stopped server.  The enrolment listener of the failed run is lost in
  the same way: its port is still bound, so the new one cannot start.
* `SetupServes` (`Transport`, `MCServer.cfg`; `server/api.py` 981 says why): a setup over a
  running server leaves wstunnel with the command line, path and key of before, because
  `enable --now` does not restart it.
* `RestartRewrites` (`Transport`, `MCServer.cfg`; `operations.py` 405-440): the doctor
  advises a restart "to rewrite the unit" (`diagnostics.py` 816, 870), and `restart` does
  not write it.  After a new WireGuard port in the panel it reports success,
  `--restrict-to` still names the old port and no client gets through.
* `FixFixes` (`Doctor`, `MCServer.cfg`; `diagnostics.py` 985-990): the fix of a missing
  MASQUERADE rule only synchronises the peers of an interface that is up, and PostUp does
  not run.
* `StickyWorkedHere` (`Ladder`, `MCClient.cfg`; `tunnel.py` 657): the network is recognised
  once per thread; a rung found after the machine moved is remembered for the old network.
* `NoFrontIsDropped` (`Ladder`, `MCClient.cfg`; `fallback.py` 91-102): two provisioned rungs
  that differ in their Host header only are taken for duplicates, and the one that is dropped
  may be the one that works.
* `PublicDnsHelps` (`Ladder`, `MCClient.cfg`; `fallback.py` 17, 127-128): a hostile rung
  dials by 1.1.1.1 to escape a poisoned name, but its port is probed and its certificate
  checked by the machine's resolver, the routes leave out what that one answers, and
  1.1.1.1 itself is asked through a tunnel that is not up yet.
* `PinIsTheGate` (`Ladder`, `MCClient.cfg`; `fallback.py` 119-124): the check of a pin is
  called "the only gate on a "pin" rung" and is made on another connection than the one that
  is used; a network that changes between the two presents what nobody has checked.
* `ProxyDialEscapes` (`Ladder`, `MCClient.cfg`; `wireguard.py` 223): a proxy is named as an
  address to leave outside the tunnel, but only the endpoints of the rungs are.
* `ActiveIsPersisted` (`ProfileStore`, `MCClient.cfg`; `client/api.py` 606, `ui/app.jsx`
  1233-1235): calls of the window run in threads of their own, and when two of them
  cross, two imports for instance, the file can keep the profile of one and the manager run
  the other's.
* `ResetRestoresImport` (`ProfileStore`, `MCClient.cfg`; `api.py` 645): after an import
  that saved the profile and not the snapshot, a reset brings back the profile before.
* `InstalledIsVerified` (`Update`, `MCClient.cfg`; `updater.py` 30): `apply_update` accepts
  a second call, which truncates the file that the first has verified.

Seen while modelling, without a property:

* The watcher of the log compares lengths, so that once the buffer of 2000 lines is full
  no line is emitted any more (`client/api.py` 770); the follower loses the lines that
  were written between its last read and the rotation.
* The site of Caddy never uses the port that was chosen; a change from a domain to a
  self-signed setup leaves Caddy on 443, where wstunnel then cannot listen.
* What the command line changes while the panel runs is overwritten by the panel's copy
  of the configuration the next time the panel saves it, with a client added there for
  instance (`whole` in `Transport`).
* Closing `outwarp-server web` stops the manager, which takes the interface down and removes
  its file also when the manager has never started anything (`server/api.py` 1329-1335,
  `server_manager.py` 190-195).
* A setup or a new key that is cut short between key and certificate or configuration
  leaves files that do not belong together (`whole` in `Transport`).
* Two provisioned rungs that differ in their bypass list only are taken for duplicates, and
  the routes leave out the list of the first alone.
* In a profile of mode `ca` without a fingerprint, a provisioned rung with the default
  pin mode can never pass its check.
* `enrollment.py` 138-140 says that re-running `add-client --enroll` replaces the
  outstanding token, but `add_client` refuses a name that exists (`operations.py` 130-132).

## Proofs

`TunnelManagerProofs` proves, for every set of callers and processes and all bounds:
`TypeCorrect` (`TypeOK`), `AttemptsAreCounted` (`AttemptsCounted`) and `NoSpinner`
(`NoSpinnerAtRest`).  Its inductive invariant `IInv` adds to `TypeOK`: `AttemptsLeft` (as
long as the thread neither gives up nor leaves, `failures` is below the maximum),
`FreshCount` (a thread starts to count at 0), `JoinsAreReal` (unless a stop overlapped, a
`stop()` past its join finds no live thread), `CountShown` (without an overlap the attempt
shown equals `failures`) and `SpinnerOwned` (a state in which the spinner turns belongs to
a live thread or, once the stop event is set, to a `stop()` that has still to report).
`TypeOK` alone is not inductive: `attempt` stays within the maximum only because the
thread gives up in time, which is a statement about `failures` at each label.

Its second part proves the manager's other four invariants: `RestIsClean` (`CleanAtRest`),
`NoProcessIsLost` (`NoOrphan`), `ConnectionIsWatched` (`ConnectedIsWatched`) and
`ReconnectReturns` (`ReconnectComesBack`).  They rest on a second inductive invariant,
`CInv`: as long as nothing overlapped, whatever is there has an owner.  A process, an
interface, a strategy, an error or a connection that the thread does not hold at its label
is *owed* (`Owed`) by a `stop()` that is still before the label that removes it; a label of
the thread says what cannot be there (`NoRung`, `NoInterface`); and a thread that was told
to stop has a caller waiting for it (`StopsHold`).  It needs `JoinsAreReal`: a caller that
disconnects is alone with the object.  An interface that nobody owes is one whose removal
was refused (`leftUp`).  `CleanAtRest` alone says nothing of a step that does not end at
rest.  For a reconnect, `ComesBack` says where it can be: on its way down, about to start,
or a thread nobody has told to end, which ends only in FAILED.  `CInv` and `RInv` were
checked on the instance of `MCTunnelManager` before they were proved.

`KillSwitchProofs` proves that the client with its kill switch implements the manager
(`SwitchImplementsManager`, `SwitchSpec => Spec`), so that every theorem above holds of it,
and `RulesAreWanted` (`EngagedIsWanted`) for any number of callers.  Its invariant
`SwitchInv` is about the time between a decision and its effect: a handler that has
decided still has its note (`DeedsAreCalls`), `set_settings` and the handlers exclude each
other as long as `raced` is false, and rules that outlive the setting are those
`set_settings` is about to remove (`RulesAreOwned`).  `LossIsBlocked` (`LostIsBlocked`) is
the other direction, that a loss is followed by rules, and needs a second invariant,
`LossInv`: while the tunnel is lost nobody has still to tell the listeners otherwise
(`LossIsAnnounced`), because beside a live thread no caller has anything to tell
(`CallersAreQuiet`), a handler does what fits the state it was told (`DeedsFit`), and a loss
without rules has a listener that was or will be told of it (`BlockIsComing`).

`EnrollmentProofs` proves `TypeCorrect` (`TypeOK`) and `ClientsStayApart`
(`ClientsApart`) for any number of administrators, clients, keys, tokens, addresses and
faults.  A saved configuration is sound because the loaded one was and because the new
entry's address was free in it, so the inductive invariant is that *every* set of
clients in the system, the file and each process's copy, is free of clashes, together
with what each operation has established about its client by the label it is at
(`JobOK`): an addition has found its name absent and the pool not full, a rotation and
an enrolment have found their slot.  `next_available_ip` is proved to return a free
address (`AvailableIsFree`, by well-foundedness of the natural numbers).

`AdmissionProofs` proves the other six properties of `Enrollment`, for the same
constants: `TokenAdmitsOne` (`OneClientPerToken`), `EnrolledStays` (`EnrolledIsKept`),
`GoneStaysOff` (`GoneIsOff`), `RestIsInStep` (`InStep`), `OpenTokensHaveSlots`
(`TokensHaveSlots`) and `WaitingCanEnroll` (`PendingCanEnroll`).  Most of them speak of
rest, so the inductive invariant `AInv` (`Admission`) says what may be missing at each step
and who will supply it:
* `Knows`: a process that nobody overtook works on the configuration as it is, and what it
  saved still is the configuration while it writes the WireGuard file;
* `KeysOnce`, `TokensOnce`: keys and tokens are drawn once, a spent token is marked spent
  in the store, and the listener that has spent one has not yet admitted anybody for it;
* `FileFollows`, `LiveFollows`, `GoneFollows`: where the WireGuard file or the interface
  differs from the configuration, some process is at the step that repairs it, for a
  client that was taken out the process that took it out;
* `SlotsOK`: an open token without a slot belongs to an addition that has still to save
  (`TokensNamed`), a slot without an open token to a revocation or an enrolment under
  way (`PendingKept`), and a revocation that nobody overtook has seen every token of its
  client, but for that of an addition (`RevocationsThorough`).

`ServerProofs` has three parts.  The first proves `ProcessesAreKnown` (`NoStrayProcess`),
`StoppedServerIsDown` (`StoppedIsDown`) and `RunningServerIsWatched` (`RunningIsWatched`)
for any callers, commands and faults.  The invariant speaks of a manager that is not
`overlapped`, in which at most one call or run is at work (`Exclusive`), and says at each
of its steps what is there: `RunOK` for `_do_start` (nothing before `Popen`, only the new
process after it, the stop event clear when the monitor is made), `CallOK` for `stop()`
(the event set, then no monitor, no sampler, no listener, no process, no interface, one
after the other) and `RestOK` for what the next call finds.  The monitor is the exception,
it works beside all of them: `MonitorsKnown` says that it is the one the handle names and
that what it reports dead is dead.

The second proves `DoctorsHideNothing` (`NothingIsHidden`) and `FixesCure` (`FixCures`) for
any number of breakages and fixes in any order.  `DoctorInv` says that every field of the
system keeps one of its values (`SystemOK`).  The first theorem then needs nothing of how
the system came about: one lemma per host takes the ways in which it can fail to carry
traffic, but for the blind spots (`Unseen`), and names the check that tells.  The second is
inductive as it stands, since only a fix sets `fixed` and everything else clears it; its
lemma (`FixCuresWhatWasFound`) goes through the fixes, each with the effects of starting
the services that it ends with (`StartEffects`, `CaddyEffects`, `UpEffects`,
`DownEffects`).

The third proves `LockoutsAreEarned` (`LockoutIsEarned`) for any requests and addresses,
limit, window and lockout.  `LimiterInv` says that what the limiter counts of an address did
fail since its last success, each failure once (`Counted`), and that a lockout, run out or
not, has its failures within the window before it began (`Earned`).  The times of the
failures may be in any order, since the clock is read before the lock is taken.  The failures
that `register_failure` counts are failures of the address within the window
(`LockoutEarned`), and failures that follow take none of them away (`EarnedStays`).

`TransportProofs` proves `PinsStayValid` (`PinMatchesKey`) and `RestartReaches`
(`RestartServes`) for any ports, operations, failures, crashes and reboots, with or without
an open panel.  `Matching` is the first without `job`: key, certificate and profiles belong
to one configuration as long as `whole` holds.  It is kept because a renewal with the old
key changes nothing a profile names, because a job that changes more (`SetupOK`, `RenewOK`,
`UninstallOK`) has withdrawn the profiles and `whole` before its first write, and a setup
or a renewal gives `whole` back only after its last one, and because a panel whose copy was
overtaken gives it up as soon as it acts (`RenewOK`, and the lemmas on the panel's own
steps).  For the second, `UnitFits` says that the unit is the configuration's, or none,
unless `behind`; it is followed through all operations, because `restart` starts the unit
that is on disk and does not write it.  `Restarted` says what a restart leaves behind and
neither systemd's retries, a reboot nor what the panel starts undo, and `OverAtRest` that
nothing is at work while something is settled.

`ClientProofs` has three parts.  The first proves a refinement: `FileImplementsRegister`
(`FileSpec => FileIsRegister`) for any number of writers, readers, contents and inodes.
The inductive invariant `FileInv` says that the inode that has the name, in the cache and
on the disk, holds a whole content, the same in both; that what a reader has opened or read
is whole; that a writer's temporary file is nobody else's; and that a synced one is whole
on the disk.  It is what makes a rename safe: at `Replace` the content is on the disk
already, whichever of name and content the kernel writes first.  `StepRefines` then maps
`Replace` to `Save`, `Journal` to `Settle`, `Open` to `Load`, `PowerLoss` to `PowerCut` and
every other step to a stutter (`QuietSteps`).

The second proves `LinesInOrder` (`LinesOnceInOrder`) for buffers and files of any size.
`LogInv` says that the handler's buffer and the files, one after the other, are in the order
of the lines and that the window has nothing that is as young as a line the watcher has
not counted (`MemoryInOrder`, `FilesInOrder`); and that everything a follower has given
out is older than what is left of the file it has open and than all younger files, while
the inode it took for that file is its own or a younger one's (`TailInOrder`).

The third proves `InstalledIsReleased` (`InstalledIsRelease`) for any calls, releases and
lengths of versions.  `UpdateInv` follows a download from the release a call has read to
the file it has verified: one call of the window at a time has a path to itself as long as
`overlapped` is false (`OneOfTheWindow`), a command always (`CallsHold`), and the
helper that outlives the window was handed what that call had verified (`HelperHolds`).

`ProfileProofs` has two parts.  The first is about the profile and its files.  `RoundTrip`:
for every document that `_parse` accepts, `_to_dict` writes one that it accepts again and
reads as the same configuration.  `Good` says what a configuration out of `_parse` is like,
section by section; one lemma per section shows that `Parse` establishes it, that the patch
of the editor and the answer of the server keep it, and that a good section, written
without its defaults, is read back.  `StoreInv` is then about the steps of a call:
both files were written from a good configuration (`FilesInv`), every call under way carries
one whose key, if it is the client's own, the server knows (`CallInv`), as long
as no two calls crossed the manager runs what is in the file but between save and swap
(`RunningInv`), and what was imported is in the snapshot, or still in the file when there is
none (`ImportedInv`).  Without a crossing at most one call is under way (`TheOnlyCall`); what
the others may do to a call that crosses them is kept small by `OthersStaySound`.  It gives
`SavedLoadsAgain` (`StoredLoadsAgain`), `RunsWhatIsStored` (`RunningIsStored`),
`SnapshotStaysImport` (`SnapshotIsImport`) and `OwnKeysAreKnown` (`OwnKeyIsKnown`) for any
documents, patches, keys, calls and faults.  These theorems have a hypothesis of their own,
`NoObject(Bad)` and `NoObject(None)`: the two special values are not JSON objects, that is,
no functions.  It is a hypothesis and not an `ASSUME` because it quantifies over all
functions, which TLC cannot enumerate; the model values of the runs satisfy it.

The second part proves `NoWayIsLost` (`WorkingRungIsFound`) and `TrustIsNotCarriedOver`
(`TrustIsTheRungs`) for any profiles, networks and moves.  The lemmas about `Keep` carry the
first: it keeps the chosen positions in their order and loses none, so that the ladder has a
rung for every dedup key of the profile and the reordering has the same rungs as the ladder.
`CoverInv` then follows a walk on a network that stays the same: every rung on the ladder is
left to be tried or is of no use, because its port does not answer, its check fails or its
dial would carry nothing with the routes that were made (`IsLost`); and a rung with the key
and the Host header of one that works and is not misled is of use (`SameWay`).  `HandInv` is
for the second: the rung in hand has passed its check on the network as it is since, and one
that is up carries.  That the certificate of the check is that of the connection follows
where both look the name up alike, and for a chain from the dial itself.

The assumptions are those of the modules: special values lie outside the sets they complete
(in `Transport`, `Absent` is no file, command line or number; in `Profile`, `Bad` is no
string and no number, and `TextNumber` is no number itself), the
manager's thread is no caller, the listener no administrator, there is at least one
attempt, rung and address, Caddy's port is a port and 0 is none, a torn content is no
content; buffers, log files, the limiter and its window have room for one; the profiles of
`Ladder` have lists of ports and of strategies; the documents on a disk (`Stored`) were
written by the program, and the keys the client will draw (`OwnKeys`) are in no document,
as many as there are calls.

Only model-checked: `AllowedIsComplement` and `VerifyIsEquation`, which say what the
recursive exclusion of `Routes` and the scalar multiplication of `Ed25519` compute and need
induction over data; and liveness (`CallsReturn`, `ThreadObeysStop`, `AttemptsEnd`),
because fairness and `ENABLED` are beyond the prover.  Every other invariant that a run
checks is a theorem.  That a property assumes `~overlapped`, `~crossed`, `~torn`,
`~astray`, `whole` or `~behind` is part of the theorem: the findings and deviations show
what happens beyond it.

## Not modelled

* The profile swap's two managers on one interface (`app.py` 210): `ProfileStore` has the
  configuration that is swapped in, not the old manager's `stop()` beside the new one's
  `start()`; two copies of `TunnelManager` are beyond what a run can explore.
* The lock file of two launches (`app.py` 91), an operating-system convention of unlink
  and flock; only its effect on the rules is in `KillSwitch`.
* `ServerManager`'s own `add_client`, `rotate_client` and `revoke_client`.
* User agent and SNI: they go into a command line and are the same for every rung of a
  profile; nothing chooses by them.
* Windows and Kubernetes commands, text generation (unit, Caddy site, WireGuard file),
  HTTP routing, statistics, traffic history, tray, terminal and window: presentation and
  I/O, in which no property could be stated that does not restate the code.
* Services, uninstall scripts of the client, integrity checks, downloads of binaries,
  installers: sequences of system commands without state of their own.

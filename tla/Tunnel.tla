------------------------------- MODULE Tunnel -------------------------------
(***************************************************************************)
(* class Tunnel of client/outwarp/tunnel.py: one wstunnel process and one  *)
(* WireGuard interface, and the handles the object keeps on them.          *)
(*                                                                         *)
(* The operations of the object are called without a lock by two kinds of  *)
(* threads (the manager's thread walks the ladder, the thread of a stop()  *)
(* call disconnects), so each operator below is one access to the shared   *)
(* fields or to the machine, small enough that another thread can run      *)
(* between two of them.  TunnelManager puts them in the order of the code. *)
(*                                                                         *)
(* A process of wstunnel is a member of Procs; a number may be used again  *)
(* once its process is gone and no handle names it.                        *)
(***************************************************************************)

CONSTANTS Procs,    \* wstunnel processes that can exist at once
          NoProc    \* the None of Tunnel._proc

ASSUME NoProcAssumption == NoProc \notin Procs

VARIABLES
    proc,         \* Tunnel._proc: the process the object has a handle on
    alive,        \* wstunnel processes that run on the machine
    wgUp,         \* the WireGuard interface exists
    wgInstalled,  \* Tunnel._wg_installed
    handshake,    \* the interface shows a handshake newer than the baseline
    active,       \* Tunnel._active_strategy is not None
    leftUp        \* history: the interface is one that a removal has left standing

tunnelVars == <<proc, alive, wgUp, wgInstalled, handshake, active, leftUp>>

TunnelTypeOK ==
    /\ proc \in Procs \cup {NoProc}
    /\ alive \subseteq Procs
    /\ wgUp \in BOOLEAN
    /\ wgInstalled \in BOOLEAN
    /\ handshake \in BOOLEAN
    /\ active \in BOOLEAN
    /\ leftUp \in BOOLEAN

TunnelInit ==
    /\ proc = NoProc
    /\ alive = {}
    /\ wgUp = FALSE
    /\ wgInstalled = FALSE
    /\ handshake = FALSE
    /\ active = FALSE
    /\ leftUp = FALSE

-----------------------------------------------------------------------------
(* Accesses made by connect(), once per ladder.                            *)

ForgetStrategy ==
    /\ active' = FALSE
    /\ UNCHANGED <<proc, alive, wgUp, wgInstalled, handshake, leftUp>>

\* platform.install_wg_tunnel removes a stale interface of the same name first, and
\* raises where that one is still in the way: the new one has seen no handshake.
InstallWg ==
    /\ wgUp' = TRUE
    /\ handshake' = FALSE
    /\ leftUp' = FALSE
    /\ UNCHANGED <<proc, alive, wgInstalled, active>>

RecordInstalled ==
    /\ wgInstalled' = TRUE
    /\ UNCHANGED <<proc, alive, wgUp, handshake, active, leftUp>>

KeepStrategy ==
    /\ active' = TRUE
    /\ UNCHANGED <<proc, alive, wgUp, wgInstalled, handshake, leftUp>>

-----------------------------------------------------------------------------
(* Accesses made for one rung.                                             *)

\* The baseline is read just before the process starts: what the interface
\* showed until then no longer counts.
StartWstunnel(p) ==
    /\ p \in Procs \ (alive \cup {proc})
    /\ proc' = p
    /\ alive' = alive \cup {p}
    /\ handshake' = FALSE
    /\ UNCHANGED <<wgUp, wgInstalled, active, leftUp>>

\* _await_handshake looks at the process only while it has a handle on one.
HandshakeSeen ==
    /\ proc = NoProc \/ proc \in alive
    /\ wgUp
    /\ handshake

\* _await_ping asks for an answer from a public address.  The packets go through
\* the tunnel only while the interface exists: without it the machine's own
\* route answers.
PingAnswers == wgUp => alive # {}

\* terminate() and wait() of whatever process the object names now.
TerminateProc ==
    /\ alive' = alive \ {proc}
    /\ UNCHANGED <<proc, wgUp, wgInstalled, handshake, active, leftUp>>

\* The same at the head of disconnect(), which forgets the strategy first.
ForgetAndTerminate ==
    /\ active' = FALSE
    /\ alive' = alive \ {proc}
    /\ UNCHANGED <<proc, wgUp, wgInstalled, handshake, leftUp>>

ClearProc ==
    /\ proc' = NoProc
    /\ UNCHANGED <<alive, wgUp, wgInstalled, handshake, active, leftUp>>

-----------------------------------------------------------------------------
(* The rest of disconnect(), and what the monitor reads.                   *)

UninstallWg ==
    /\ wgUp' = FALSE
    /\ handshake' = FALSE
    /\ leftUp' = FALSE
    /\ UNCHANGED <<proc, alive, wgInstalled, active>>

\* The platform raises or ignores the failure of its tool: either way disconnect()
\* goes on as if the interface had gone.
UninstallFails ==
    /\ wgUp
    /\ leftUp' = TRUE
    /\ UNCHANGED <<proc, alive, wgUp, wgInstalled, handshake, active>>

ClearInstalled ==
    /\ wgInstalled' = FALSE
    /\ UNCHANGED <<proc, alive, wgUp, handshake, active, leftUp>>

IsActive == proc \in alive /\ wgUp

-----------------------------------------------------------------------------
(* The machine and the network.                                            *)

\* The peers complete a handshake: it needs the interface and a transport.
Handshake ==
    /\ wgUp /\ alive # {}
    /\ ~handshake
    /\ handshake' = TRUE
    /\ UNCHANGED <<proc, alive, wgUp, wgInstalled, active, leftUp>>

\* A wstunnel process dies by itself.
ProcDies(p) ==
    /\ p \in alive
    /\ alive' = alive \ {p}
    /\ UNCHANGED <<proc, wgUp, wgInstalled, handshake, active, leftUp>>

\* Somebody else removes the interface.
WgVanishes ==
    /\ wgUp
    /\ wgUp' = FALSE
    /\ handshake' = FALSE
    /\ leftUp' = FALSE
    /\ UNCHANGED <<proc, alive, wgInstalled, active>>

=============================================================================

----------------------------- MODULE KillSwitch -----------------------------
(***************************************************************************)
(* The kill switch of the client: Api._sync_kill_switch listens to the     *)
(* TunnelManager and adds or removes firewall rules; Api.set_settings      *)
(* turns the feature on and off while a tunnel runs.  The module extends   *)
(* TunnelManager: its listener calls (Notify) become the handler below,    *)
(* which reads the setting first and calls the platform later, outside any *)
(* lock, in whatever thread changed the state.                             *)
(*                                                                         *)
(* The rules let out loopback, established connections and the addresses   *)
(* of the server, so the echo request with which connect() verifies a rung *)
(* does not get out while they are in place.  A profile without an address *)
(* to let out never engages them; the profile here has one.                *)
(***************************************************************************)
EXTENDS TunnelManager

CONSTANT MaxUpsets  \* bound: refusals of the platform and other launches

VARIABLES
    enabled,  \* settings["kill_switch"]
    engaged,  \* the firewall rules are in place
    deed,     \* deed[t]: what the handler running in thread t has decided to do
    setter,   \* where set_settings is, past the change of the setting
    raced,    \* history: a change of the setting crossed a listener call
    upsets    \* history: times the rules were lost for a reason from outside

switchVars == <<enabled, engaged, deed, setter, raced, upsets>>
allVars == <<vars, switchVars>>

Down == {"RECONNECTING", "FAILED"}

\* The setting is loaded from disk; app.py removes what an earlier session left.
SwitchInit ==
    /\ Init
    /\ enabled \in BOOLEAN
    /\ engaged = FALSE
    /\ deed = [t \in Threads |-> "none"]
    /\ setter = "idle"
    /\ raced = FALSE
    /\ upsets = 0

-----------------------------------------------------------------------------
(* The rules, as the firewall applies them and the platform sets them.     *)

\* The packets of connect() that the rules hold back.
HoldsBack == engaged => ~(pc[Run] = "ping" /\ pc'[Run] = "won")

\* engage_kill_switch raised: the old rules may have been wiped before.
Refused ==
    /\ upsets < MaxUpsets
    /\ upsets' = upsets + 1
    /\ engaged' \in {engaged, FALSE}

\* Another launch of the program releases the rules before it finds out that an
\* instance is running.
OtherLaunch ==
    /\ upsets < MaxUpsets
    /\ engaged
    /\ upsets' = upsets + 1
    /\ engaged' = FALSE
    /\ UNCHANGED <<vars, enabled, deed, setter>>

-----------------------------------------------------------------------------
(* _sync_kill_switch, in the thread that calls the listeners.              *)

\* Variant: the setting is not looked at.
DecisionAlways(s) ==
    CASE s \in Down -> "engage"
      [] s \in {"CONNECTED", "DISCONNECTED"} -> "release"
      [] OTHER -> "none"

Decision(s) ==
    CASE ~enabled -> "none"
      [] enabled /\ s \in Down -> "engage"
      [] enabled /\ s \in {"CONNECTED", "DISCONNECTED"} -> "release"
      [] OTHER -> "none"

\* The handler has read the setting; the platform is called in a later step.
Hears(t) ==
    /\ note[t] # NoNote /\ deed[t] = "none"
    /\ Decision(note[t]) # "none"
    /\ deed' = [deed EXCEPT ![t] = Decision(note[t])]
    /\ UNCHANGED <<vars, enabled, engaged, setter, upsets>>

\* A handler that has nothing to do returns.
Ignores(t) ==
    /\ deed[t] = "none"
    /\ note[t] # NoNote => Decision(note[t]) = "none"
    /\ Notify(t)
    /\ UNCHANGED <<enabled, engaged, deed, setter, upsets>>

Engages(t) ==
    /\ deed[t] = "engage"
    /\ deed' = [deed EXCEPT ![t] = "none"]
    /\ Refused \/ (engaged' = TRUE /\ UNCHANGED upsets)
    /\ Notify(t)
    /\ UNCHANGED <<enabled, setter>>

Releases(t) ==
    /\ deed[t] = "release"
    /\ deed' = [deed EXCEPT ![t] = "none"]
    /\ engaged' = FALSE
    /\ Notify(t)
    /\ UNCHANGED <<enabled, setter, upsets>>

Handler(t) == Hears(t) \/ Ignores(t) \/ Engages(t) \/ Releases(t)

-----------------------------------------------------------------------------
(* set_settings({"kill_switch": ...}).                                     *)

TurnsOn ==
    /\ setter = "idle" /\ ~enabled
    /\ enabled' = TRUE
    /\ setter' = "look"
    /\ UNCHANGED <<vars, engaged, deed, upsets>>

\* Variant: only a drop in progress counts, not the end of the attempts.
LooksOnlyAtRetries ==
    /\ setter = "look"
    /\ setter' = IF state = "RECONNECTING" THEN "engage" ELSE "idle"
    /\ UNCHANGED <<vars, enabled, engaged, deed, upsets>>

\* Turned on while the tunnel is down: engage at once.
Looks ==
    /\ setter = "look"
    /\ setter' = IF state \in Down THEN "engage" ELSE "idle"
    /\ UNCHANGED <<vars, enabled, engaged, deed, upsets>>

SetterEngages ==
    /\ setter = "engage"
    /\ engaged' = TRUE
    /\ setter' = "idle"
    /\ UNCHANGED <<vars, enabled, deed, upsets>>

\* The setting is rolled back, so that it does not lie about the rules.
SetterRollsBack ==
    /\ setter = "engage"
    /\ Refused
    /\ enabled' = FALSE
    /\ setter' = "idle"
    /\ UNCHANGED <<vars, deed>>

TurnsOff ==
    /\ setter = "idle" /\ enabled
    /\ enabled' = FALSE
    /\ setter' = "release"
    /\ UNCHANGED <<vars, engaged, deed, upsets>>

SetterReleases ==
    /\ setter = "release"
    /\ engaged' = FALSE
    /\ setter' = "idle"
    /\ UNCHANGED <<vars, enabled, deed, upsets>>

SetterStep == Looks \/ SetterEngages \/ SetterRollsBack \/ SetterReleases

-----------------------------------------------------------------------------
Working == QuietNext /\ HoldsBack /\ UNCHANGED <<enabled, engaged, deed, setter, upsets>>

SwitchNext ==
    /\ \/ Working
       \/ \E t \in Threads : Handler(t)
       \/ TurnsOn \/ TurnsOff \/ SetterStep
       \/ OtherLaunch
    /\ raced' = (raced \/ (setter' # "idle" /\ \E t \in Threads : note'[t] # NoNote))

SwitchSpec == SwitchInit /\ [][SwitchNext]_allVars

-----------------------------------------------------------------------------
(* Properties.                                                             *)

\* No handler and no change of the setting is under way.
Settled == setter = "idle" /\ \A t \in Threads : note[t] = NoNote

\* The rules exist only while the user wants them, unless a change of the setting
\* crossed a listener call that had read the old value.
EngagedIsWanted == engaged /\ Settled /\ ~raced => enabled

\* While the manager says that the tunnel is lost and the listeners have heard it, nothing
\* leaves the machine beside it, however and whenever the feature was turned on.
LostIsBlocked ==
    Settled /\ enabled /\ state \in Down /\ ~raced /\ ~overlapped /\ upsets = 0 => engaged

-----------------------------------------------------------------------------
(* What the repository says and the code does not do (README, Deviations). *)

\* "Block all internet traffic if the tunnel drops." (the setting's text in
\* ui/shared.jsx): a connection that is down and waits to be dialled again.
DropIsBlocked ==
    /\ Settled /\ enabled
    /\ pc[Run] = "backoff" /\ state = "CONNECTED"
    /\ ~raced /\ ~overlapped /\ upsets = 0
    => engaged

\* "Released on [...] a clean DISCONNECTED (user pressed stop)" (_sync_kill_switch): the
\* handler of one stop() may engage after the handler of another has released.
StopReleases ==
    Settled /\ AtRest /\ state = "DISCONNECTED" /\ ~raced /\ ~overlapped => ~engaged

\* The rules let the reconnect finish (platforms/linux.py): with the process and the
\* interface up, the verification of the rung is answered.
ReconnectGetsOut == pc[Run] = "ping" /\ IsActive => PingAnswers /\ ~engaged
=============================================================================

---------------------------- MODULE ProfileStore ----------------------------
(***************************************************************************)
(* The profile on disk and in the manager: import (with the redemption of  *)
(* an enrolment token), edit, reset and removal as the window calls them   *)
(* (src/client/outwarp/api.py, config.py, enroll.py), access by access,    *)
(* with saves that fail, an answer that is lost and a crash between two    *)
(* steps.  The bridge runs every call in a thread of its own, and nothing  *)
(* keeps one call out of the steps of another: Callers are those threads.  *)
(* _atomic_write_secret replaces a file whole or not at all (AtomicFile),  *)
(* so that a save is one step here.                                        *)
(***************************************************************************)
EXTENDS Profile

CONSTANTS Callers, Documents, Patches, Stored, None, Today, OwnKeys, MaxCalls, MaxFaults

ASSUME ProfileStoreAssumption ==
    /\ Today \in Nat /\ MaxCalls \in Nat /\ MaxFaults \in Nat
    /\ \A d \in Stored : Accepts(d) /\ d = ToDict(Parse(d))
    /\ \A d \in Documents \cup Stored :
        Accepts(d) => Parse(d).wireguard.client_private_key \notin ToSet(OwnKeys)
    /\ Empty \notin ToSet(OwnKeys)
    /\ Len(OwnKeys) >= MaxCalls

VARIABLES
    file,       \* config.json: a document or None
    original,   \* config.original.json: a document or None
    manager,    \* the configuration of the TunnelManager, or None
    up,         \* the client runs
    call,       \* caller -> the bridge call it makes: its step, the configuration it
                \* carries, the one it started from, the key pair it would draw
    server,     \* the token at the server: spent, and the key it was spent for
    calls, faults,
    imported,   \* history: the configuration in force as it was imported
    torn,       \* history: a step of a call failed or was cut off
    crossed     \* history: two calls that change something were under way at once

storeVars == <<file, original, manager, up, call, server, calls, faults, imported, torn, crossed>>

Idle == [step |-> "idle"]
At(c, s) == call[c].step = s
GoesTo(c, s) == call' = [call EXCEPT ![c].step = s]
GoesOn(c, s, cfg) == call' = [call EXCEPT ![c].step = s, ![c].cfg = cfg]
Ends(c) == call' = [call EXCEPT ![c] = Idle]
Fails == faults < MaxFaults /\ faults' = faults + 1
Asked(c) == up /\ At(c, "idle") /\ calls < MaxCalls /\ calls' = calls + 1
\* generate_keypair: every call draws its own.
CallBegins(c, s, cfg) ==
    /\ call' = [call EXCEPT ![c] = [step |-> s, cfg |-> cfg, old |-> manager,
                                    key |-> OwnKeys[calls + 1]]]
    /\ crossed' = (crossed \/ \E d \in Callers \ {c} : ~At(d, "idle"))

\* What the steps of a call leave alone.
Elsewhere == UNCHANGED <<up, calls, crossed>>
Disk == <<file, original>>

\* A first start, or the start of a client that stored, edited or removed a
\* profile before.
StoreInit ==
    /\ file \in Stored \cup {None} /\ original \in Stored \cup {None}
    /\ manager = None /\ up = FALSE
    /\ imported = IF file = None THEN None
                  ELSE IF original = None THEN Parse(file) ELSE Parse(original)
    /\ call = [c \in Callers |-> Idle] /\ server = [spent |-> FALSE, key |-> Empty]
    /\ calls = 0 /\ faults = 0 /\ torn = FALSE /\ crossed = FALSE

\* _try_load_config: a file that does not parse is an import screen.
Launch ==
    /\ ~up
    /\ up' = TRUE
    /\ manager' = IF file # None /\ Accepts(file) THEN Parse(file) ELSE None
    /\ UNCHANGED <<file, original, call, server, calls, faults, imported, torn, crossed>>

Crash ==
    /\ up /\ Fails
    /\ up' = FALSE /\ manager' = None /\ call' = [c \in Callers |-> Idle]
    /\ torn' = (torn \/ \E c \in Callers : ~At(c, "idle"))
    /\ UNCHANGED <<file, original, server, calls, imported, crossed>>

-----------------------------------------------------------------------------
(* import_profile, _finish_import and enroll *)

NeedsEnrollment(cfg) == cfg.enrollment.token # Empty /\ cfg.wireguard.client_private_key = Empty

\* A call that is refused asks and changes nothing.
Refused(c) ==
    /\ Asked(c)
    /\ UNCHANGED <<Disk, manager, up, call, server, faults, imported, torn, crossed>>

\* A document that parses and has not expired.
Importable == {raw \in Documents : Accepts(raw) /\ ~IsExpired(Parse(raw), Today)}

ImportBegins(c, raw) ==
    /\ CallBegins(c, IF NeedsEnrollment(Parse(raw)) THEN "enroll" ELSE "save_import", Parse(raw))
    /\ UNCHANGED <<Disk, manager, up, server, faults, imported, torn>>

\* wg is missing, the endpoint does not answer or is not the pinned one: the
\* token was not presented.
EnrollNotReached(c) ==
    /\ At(c, "enroll") /\ Fails
    /\ Ends(c)
    /\ Elsewhere /\ UNCHANGED <<Disk, manager, server, imported, torn>>

\* Variant: a refusal is taken for an answer.
EnrollRefusedSaves(c) ==
    /\ At(c, "enroll") /\ server.spent
    /\ GoesOn(c, "save_import",
               [call[c].cfg EXCEPT !.wireguard.client_private_key = call[c].key])
    /\ Elsewhere /\ UNCHANGED <<Disk, manager, server, faults, imported, torn>>

\* HTTPError: a spent token is refused.
EnrollRefused(c) ==
    /\ At(c, "enroll") /\ server.spent
    /\ Ends(c)
    /\ Elsewhere /\ UNCHANGED <<Disk, manager, server, faults, imported, torn>>

\* The server spends the token for the key of this call.
ServerRedeems(c) ==
    /\ At(c, "enroll") /\ ~server.spent
    /\ server' = [spent |-> TRUE, key |-> call[c].key]
    /\ GoesTo(c, "answer")
    /\ Elsewhere /\ UNCHANGED <<Disk, manager, faults, imported, torn>>

AnswerArrives(c) ==
    /\ At(c, "answer")
    /\ GoesOn(c, "save_import",
               [call[c].cfg EXCEPT !.wireguard.client_private_key = call[c].key,
                                   !.enrollment = [token |-> Empty, url |-> Empty]])
    /\ Elsewhere /\ UNCHANGED <<Disk, manager, server, faults, imported, torn>>

\* A timeout or a malformed body after the token was spent.
AnswerLost(c) ==
    /\ At(c, "answer") /\ Fails
    /\ Ends(c) /\ torn' = TRUE
    /\ Elsewhere /\ UNCHANGED <<Disk, manager, server, imported>>

SaveImport(c) ==
    /\ At(c, "save_import")
    /\ file' = ToDict(call[c].cfg)
    /\ GoesTo(c, "snapshot_import")
    /\ Elsewhere /\ UNCHANGED <<original, manager, server, faults, imported, torn>>

SnapshotImport(c) ==
    /\ At(c, "snapshot_import")
    /\ original' = ToDict(call[c].cfg) /\ imported' = call[c].cfg
    /\ GoesTo(c, "swap")
    /\ Elsewhere /\ UNCHANGED <<file, manager, server, faults, torn>>

\* An OSError of either save ends the import with an error.
ImportSaveFails(c) ==
    /\ At(c, "save_import") \/ At(c, "snapshot_import")
    /\ Fails
    /\ Ends(c) /\ torn' = TRUE
    /\ Elsewhere /\ UNCHANGED <<Disk, manager, server, imported>>

\* The end of import_profile, and _replace_manager for the other calls.
SwapManager(c) ==
    /\ At(c, "swap")
    /\ manager' = call[c].cfg /\ Ends(c)
    /\ Elsewhere /\ UNCHANGED <<Disk, server, faults, imported, torn>>

-----------------------------------------------------------------------------
(* update_profile, reset_profile, remove_profile *)

UpdateRefused(c, patch) ==
    /\ manager = None \/ ~PatchOk(patch)
    /\ Refused(c)

UpdateBegins(c, patch) ==
    /\ Asked(c)
    /\ manager # None /\ PatchOk(patch)
    /\ CallBegins(c, "snapshot_edit", ApplyPatch(manager, patch))
    /\ UNCHANGED <<Disk, manager, up, server, faults, imported, torn>>

\* Variant: every edit takes a new snapshot.
SnapshotEditAlways(c) ==
    /\ At(c, "snapshot_edit")
    /\ original' = ToDict(call[c].old)
    /\ GoesTo(c, "save_edit")
    /\ Elsewhere /\ UNCHANGED <<file, manager, server, faults, imported, torn>>

\* A profile older than the editor is snapshot before its first edit; a
\* snapshot that fails is a warning.
SnapshotEdit(c) ==
    /\ At(c, "snapshot_edit")
    /\ \/ original' = (IF original = None THEN ToDict(call[c].old) ELSE original)
          /\ UNCHANGED <<faults, torn>>
       \/ original = None /\ Fails /\ torn' = TRUE /\ UNCHANGED original
    /\ GoesTo(c, "save_edit")
    /\ Elsewhere /\ UNCHANGED <<file, manager, server, imported>>

\* "no hay una configuración original": nothing to restore.
ResetRefused(c) ==
    /\ manager = None \/ original = None
    /\ Refused(c)

ResetBegins(c) ==
    /\ Asked(c)
    /\ manager # None /\ original # None
    /\ CallBegins(c, "save_edit", Parse(original))
    /\ UNCHANGED <<Disk, manager, up, server, faults, imported, torn>>

SaveEdit(c) ==
    /\ At(c, "save_edit")
    /\ \/ file' = ToDict(call[c].cfg) /\ GoesTo(c, "swap") /\ UNCHANGED <<faults, torn>>
       \/ Fails /\ Ends(c) /\ torn' = TRUE /\ UNCHANGED file
    /\ Elsewhere /\ UNCHANGED <<original, manager, server, imported>>

\* The tunnel is stopped, the manager forgotten and the file deleted.
RemoveBegins(c) ==
    /\ Asked(c)
    /\ manager # None
    /\ CallBegins(c, "forget", manager)
    /\ UNCHANGED <<Disk, manager, up, server, faults, imported, torn>>

ForgetManager(c) ==
    /\ At(c, "forget")
    /\ manager' = None /\ imported' = None
    /\ GoesTo(c, "delete")
    /\ Elsewhere /\ UNCHANGED <<Disk, server, faults, torn>>

\* Variant: the file of a removed profile stays.
DeleteFileNever(c) ==
    /\ At(c, "delete")
    /\ Ends(c)
    /\ Elsewhere /\ UNCHANGED <<Disk, manager, server, faults, imported, torn>>

\* A deletion that fails is a warning.  The snapshot stays.
DeleteFile(c) ==
    /\ At(c, "delete")
    /\ \/ file' = None /\ UNCHANGED <<faults, torn>>
       \/ Fails /\ torn' = TRUE /\ UNCHANGED file
    /\ Ends(c)
    /\ Elsewhere /\ UNCHANGED <<original, manager, server, imported>>

Import(c) ==
    /\ Asked(c)
    /\ \E importable \in {Importable} :
        \/ Documents # importable /\ Refused(c)
        \/ \E raw \in importable : ImportBegins(c, raw)
Enroll(c) == \/ EnrollNotReached(c) \/ EnrollRefused(c) \/ ServerRedeems(c)
             \/ AnswerArrives(c) \/ AnswerLost(c)
Save(c) == \/ SaveImport(c) \/ SnapshotImport(c) \/ ImportSaveFails(c)
           \/ SnapshotEdit(c) \/ SaveEdit(c)
Update(c) == \E patch \in Patches : UpdateRefused(c, patch) \/ UpdateBegins(c, patch)
Reset(c) == ResetRefused(c) \/ ResetBegins(c)
RemoveProfile(c) == RemoveBegins(c) \/ ForgetManager(c) \/ DeleteFile(c)

StoreNext ==
    \/ Launch \/ Crash
    \/ \E c \in Callers : \/ Import(c) \/ Enroll(c) \/ Save(c) \/ SwapManager(c)
                          \/ Update(c) \/ Reset(c) \/ RemoveProfile(c)
StoreSpec == StoreInit /\ [][StoreNext]_storeVars

-----------------------------------------------------------------------------
(* Properties *)

AllIdle == \A c \in Callers : At(c, "idle")

\* What _to_dict wrote is accepted by _parse and means the configuration that
\* was saved, whatever was left out of the file as a default and however often
\* it went through an edit that other code validated: the next start finds a
\* profile, whichever calls crossed, and the very one that was just saved if
\* none did.
StoredLoadsAgain ==
    /\ \A d \in {file, original} \ {None} : Accepts(d)
    /\ \A c \in Callers :
        (At(c, "snapshot_import") \/ At(c, "swap")) /\ ~crossed =>
            file # None /\ Parse(file) = call[c].cfg

\* The file a start would load is the profile the manager runs with, unless a
\* save failed, the client was cut off in the middle of a call, or two calls
\* crossed.
RunningIsStored ==
    up /\ AllIdle /\ ~torn /\ ~crossed =>
        IF manager = None THEN file = None ELSE file # None /\ manager = Parse(file)

\* reset_profile restores the import: whenever a profile is in force, the
\* snapshot is the document it came from, however it was edited since, with the
\* same three exceptions.
SnapshotIsImport ==
    AllIdle /\ ~torn /\ ~crossed /\ imported # None /\ original # None
    => Parse(original) = imported

\* A key the client made itself is in a file only if the server spent the
\* token for that very key: no failure, no retry and no second import of the
\* same document beside the first stores a profile that the server does not know.
OwnKeyIsKnown ==
    \A d \in {file, original} \ {None} :
        d.wireguard.client_private_key \in ToSet(OwnKeys) =>
            server.spent /\ server.key = d.wireguard.client_private_key

-----------------------------------------------------------------------------
(* What the repository says and the code does not do (README, Deviations). *)

\* api.py:645: reset_profile restores "the exact state it had when the .owcfg
\* was imported" - also after a crash or a failed save.
ResetRestoresImport ==
    AllIdle /\ up /\ manager # None /\ imported # None /\ original # None
    => Parse(original) = imported

\* api.py:606: update_profile edits "the active profile" and "persists
\* config.json" - also beside an import, a reset or a removal under way.
ActiveIsPersisted ==
    up /\ AllIdle /\ ~torn =>
        IF manager = None THEN file = None ELSE file # None /\ manager = Parse(file)
=============================================================================

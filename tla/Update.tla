------------------------------- MODULE Update -------------------------------
(***************************************************************************)
(* How the programs replace themselves by a newer release: the window's    *)
(* update on Windows (src/client/outwarp/api.py), the two command lines    *)
(* that install a wheel (src/client/outwarp/cli.py,                        *)
(* src/server/outwarp_server/cli.py) and the updaters and the signature    *)
(* they share (updater.py, minisign.py).  A file is what it holds: content *)
(* <<name, who made it>>, or <<"part">> of one.  Versions are sequences of     *)
(* numbers.                                                                *)
(***************************************************************************)
EXTENDS Integers, SequencesExt

CONSTANTS
    Updates,     \* calls of apply_update or of a command
    Releases,    \* what may be the latest release
    Current,     \* the version that runs
    MaxPublished

NoName == ""     \* no asset; nobody

ASSUME UpdateAssumption ==
    /\ MaxPublished \in Nat /\ NoName \notin Updates
    /\ Current \in Seq(Nat) /\ \A rel \in Releases :
          rel.version \in Seq(Nat) /\ DOMAIN rel.signature \subseteq Nat

VARIABLES
    release,     \* the latest release
    published,   \* how often it changed
    phase,       \* of each call: the event it emitted last, or how it ended
    how,         \* of each call: "gui", "client" or "server"
    info,        \* of each call: the release it read
    saved,        \* of each path a download was written to: what it holds
    window,      \* the window's process runs
    tunnel,      \* its tunnel is up
    helper,      \* the detached child that waits for the process: its installer, or ""
    installed,   \* what was installed last
    overlapped   \* history: two calls of the window ran at once
updateVars == <<release, published, phase, how, info, saved, window, tunnel, helper,
                installed, overlapped>>

-----------------------------------------------------------------------------
(* Versions and assets *)

At0(v, i) == IF i \in DOMAIN v THEN v[i] ELSE 0

\* _is_newer: the shorter version is padded with zeros.
IsNewer(latest, current) ==
    /\ latest # <<>>
    /\ \E i \in 1..Len(latest) :
         /\ At0(latest, i) > At0(current, i)
         /\ \A j \in 1 .. i - 1 : At0(latest, j) = At0(current, j)

\* _select_installer_asset, and the wheel of check_for_linux_update: the
\* assets in the order they are preferred.
Preferred(kind) == CASE kind = "gui" -> <<"client.exe", "full.exe">>
                     [] kind = "gui_with_server" -> <<"full.exe", "client.exe">>
                     [] kind = "client" -> <<"client.whl">>
                     [] kind = "server" -> <<"server.whl">>
AssetOf(rel, kind) ==
    LET found == {i \in DOMAIN Preferred(kind) : Preferred(kind)[i] \in DOMAIN rel.assets}
    IN  IF found = {} THEN NoName ELSE Preferred(kind)[Min(found)]
Window(kind) == kind \in {"gui", "gui_with_server"}

\* What each check makes of a release: _run_update takes one without an
\* installer for an error, the commands one without a wheel for nothing to do.
CheckForUpdate(rel, kind) ==
    IF ~IsNewer(rel.version, Current) THEN "current"
    ELSE IF AssetOf(rel, kind) = NoName THEN "error" ELSE "open"
CheckForLinuxUpdate(rel) ==
    IF IsNewer(rel.version, Current) /\ AssetOf(rel, "client") # NoName THEN "open" ELSE "current"
CheckForServerUpdate(rel) ==
    IF IsNewer(rel.version, Current) /\ AssetOf(rel, "server") # NoName THEN "open" ELSE "current"

\* mkdtemp for a command; the temporary directory and the asset's name, with
\* its version, for the window.
Path(u) == IF Window(how[u]) THEN <<info[u].version, AssetOf(info[u], how[u])>> ELSE <<u>>

-----------------------------------------------------------------------------
(* Signatures and checksums.  A signature file is its lines, each with what  *)
(* it decodes to; a signature says who made it and over what.                *)

Signs(sig, text) == sig = [by |-> "release key", over |-> text]

\* minisign.verify: the first line that is no comment is the signature of the
\* manifest, or of its digest ("ED"), under the number of the key that is
\* compiled in; the trusted comment is signed with it.
SignatureHolds(lines, manifest) ==
    LET body == {i \in DOMAIN lines : lines[i].is \notin {"blank", "untrusted"}}
        first == lines[Min(body)]
        trusted == {i \in body \ {Min(body)} : lines[i].is = "trusted"}
        global == {i \in body \ {Min(body)} : lines[i].is # "trusted"}
    IN  /\ body # {} /\ first.is = "signature"
        /\ first.alg \in {"Ed", "ED"} /\ first.key = "release key"
        /\ Signs(first.sig, <<first.alg, manifest>>)
        /\ trusted # {} /\ global # {}
        /\ lines[Min(global)].is = "global"
        /\ Signs(lines[Min(global)].sig, <<first.sig, lines[Min(trusted)].text>>)

\* A defect: a name the manifest does not list passes.
VerifyDownloadUnlisted(rel, asset, content) ==
    /\ rel.manifest # <<>> /\ SignatureHolds(rel.signature, rel.manifest)
    /\ asset \in DOMAIN rel.manifest => content = rel.manifest[asset]

\* verify_download.  A manifest maps names to digests, here
\* to the content that has them; a key is compiled in, so that a release
\* without a manifest or without its signature is refused.
VerifyDownload(rel, asset, content) ==
    /\ rel.manifest # <<>>
    /\ SignatureHolds(rel.signature, rel.manifest)
    /\ asset \in DOMAIN rel.manifest
    /\ content = rel.manifest[asset]
\* The server's copy of it reads the manifest first and decides alike.
VerifyWheel(rel, content) == VerifyDownload(rel, AssetOf(rel, "server"), content)

-----------------------------------------------------------------------------
(* A call *)

OnlyPhase == UNCHANGED <<release, published, how, info, saved, window, tunnel, helper,
                         installed, overlapped>>
To(u, p) == phase' = [phase EXCEPT ![u] = p]
Ended == {"idle", "error", "current", "done"}
Running(u) == phase[u] \notin Ended
WindowCalls == {u \in Updates : Window(how[u])}

\* apply_update starts a thread for every call; the commands are processes.
Begins(u, kind) ==
    /\ phase[u] = "idle"
    /\ Window(kind) => window
    /\ To(u, "checking")
    /\ how' = [how EXCEPT ![u] = kind]
    /\ overlapped' = (overlapped \/ (Window(kind) /\ \E o \in WindowCalls : Running(o)))
    /\ UNCHANGED <<release, published, info, saved, window, tunnel, helper, installed>>

\* check_for_update never raises: what cannot be read is an error.
CheckFails(u) ==
    /\ phase[u] = "checking"
    /\ To(u, "error")
    /\ OnlyPhase

Checks(u) ==
    /\ phase[u] = "checking"
    /\ info' = [info EXCEPT ![u] = release]
    /\ To(u, CASE how[u] = "client" -> CheckForLinuxUpdate(release)
               [] how[u] = "server" -> CheckForServerUpdate(release)
               [] OTHER -> CheckForUpdate(release, how[u]))
    /\ UNCHANGED <<release, published, how, saved, window, tunnel, helper, installed, overlapped>>

Put(files, path, content) ==
    [p \in DOMAIN files \cup {path} |-> IF p = path THEN content ELSE files[p]]

\* download_installer truncates the file before the first chunk.
Opens(u) ==
    /\ phase[u] = "open"
    /\ saved' = Put(saved, Path(u), <<"part">>)
    /\ To(u, "downloading")
    /\ UNCHANGED <<release, published, how, info, window, tunnel, helper, installed, overlapped>>

DownloadFails(u) ==
    /\ phase[u] = "downloading"
    /\ To(u, "error")
    /\ OnlyPhase

\* A connection that ends early reads like the end of the file.
Downloads(u) ==
    /\ phase[u] = "downloading"
    /\ \E content \in {info[u].assets[AssetOf(info[u], how[u])], <<"part">>} :
          saved' = Put(saved, Path(u), content)
    /\ To(u, "verifying")
    /\ UNCHANGED <<release, published, how, info, window, tunnel, helper, installed, overlapped>>

\* The manifest or its signature cannot be fetched: as fatal as a bad one.
Refuses(u) ==
    /\ phase[u] = "verifying"
    /\ To(u, "error")
    /\ OnlyPhase

Verifies(u) ==
    /\ phase[u] = "verifying"
    /\ IF how[u] = "server" THEN VerifyWheel(info[u], saved[Path(u)])
       ELSE VerifyDownload(info[u], AssetOf(info[u], how[u]), saved[Path(u)])
    /\ To(u, "applying")
    /\ OnlyPhase

\* The commands: pip installs the wheel into the environment, or fails.
PipInstalls(u) ==
    /\ phase[u] = "applying" /\ ~Window(how[u])
    /\ \/ installed' = [content |-> saved[Path(u)], by |-> u] /\ To(u, "done")
       \/ To(u, "error") /\ UNCHANGED installed
    /\ UNCHANGED <<release, published, how, info, saved, window, tunnel, helper, overlapped>>

\* The window: the tunnel goes down first (a stop that raises is logged).
StopsTunnel(u) ==
    /\ phase[u] = "applying" /\ Window(how[u])
    /\ tunnel' \in {FALSE, tunnel}
    /\ To(u, "launching")
    /\ UNCHANGED <<release, published, how, info, saved, window, helper, installed, overlapped>>

\* _launch_installer: a helper that waits for this process, or an error.
LaunchesHelper(u) ==
    /\ phase[u] = "launching"
    /\ \/ helper' = [path |-> Path(u), by |-> u] /\ To(u, "quitting")
       \/ To(u, "error") /\ UNCHANGED helper
    /\ UNCHANGED <<release, published, how, info, saved, window, tunnel, installed, overlapped>>

\* _quit_for_update: the process ends, and its other threads with it.
Quits(u) ==
    /\ phase[u] = "quitting"
    /\ window' = FALSE /\ tunnel' = FALSE
    /\ phase' = [o \in Updates |-> IF Window(how[o]) /\ Running(o) THEN "done" ELSE phase[o]]
    /\ UNCHANGED <<release, published, how, info, saved, helper, installed, overlapped>>

\* Wait-Process, then the installer; it starts the client again.
HelperInstalls ==
    /\ helper.by # NoName /\ ~window
    /\ installed' = [content |-> saved[helper.path], by |-> helper.by]
    /\ helper' = [path |-> <<>>, by |-> NoName]
    /\ UNCHANGED <<release, published, phase, how, info, saved, window, tunnel, overlapped>>

\* A release appears between two steps of a call.
Publish(rel) ==
    /\ published < MaxPublished /\ published' = published + 1
    /\ release' = rel
    /\ UNCHANGED <<phase, how, info, saved, window, tunnel, helper, installed, overlapped>>

Obtains(u) == CheckFails(u) \/ Checks(u) \/ Opens(u) \/ DownloadFails(u) \/ Downloads(u)
                \/ Refuses(u) \/ Verifies(u)
\* _run_update of the window, and _cmd_update of each command line.
RunUpdate(u) == Window(how[u]) /\ (Obtains(u) \/ StopsTunnel(u) \/ LaunchesHelper(u) \/ Quits(u))
ClientUpdate(u) == how[u] = "client" /\ (Obtains(u) \/ PipInstalls(u))
ServerUpdate(u) == how[u] = "server" /\ (Obtains(u) \/ PipInstalls(u))
Call(u) ==
    \/ \E kind \in {"gui", "gui_with_server", "client", "server"} : Begins(u, kind)
    \/ RunUpdate(u) \/ ClientUpdate(u) \/ ServerUpdate(u)

UpdateInit ==
    /\ release \in Releases /\ published = 0
    /\ phase = [u \in Updates |-> "idle"] /\ how = [u \in Updates |-> NoName]
    /\ info = [u \in Updates |-> release]
    /\ saved = <<>> /\ window = TRUE /\ tunnel = TRUE
    /\ helper = [path |-> <<>>, by |-> NoName]
    /\ installed = [content |-> <<>>, by |-> NoName] /\ overlapped = FALSE
UpdateNext ==
    \/ \E u \in Updates : Call(u)
    \/ HelperInstalls
    \/ \E rel \in Releases : Publish(rel)
UpdateSpec == UpdateInit /\ [][UpdateNext]_updateVars

-----------------------------------------------------------------------------
(* Properties *)

\* Where the two first differ, v has the greater number.
Newer(v, current) ==
    LET differ == {i \in DOMAIN v \cup DOMAIN current : At0(v, i) # At0(current, i)}
    IN  /\ differ # {}
        /\ \A i \in differ : (\A j \in differ : i <= j) => At0(v, i) > At0(current, i)

\* Only bytes that a manifest signed with the release key lists are installed,
\* of a newer version and of the right package, whatever was published or cut
\* short between the check, the download and the installation.  Two calls of
\* the window at once share the file: InstalledIsVerified.
InstalledIsRelease ==
    installed.by # NoName /\ (Window(how[installed.by]) => ~overlapped) =>
        LET rel == info[installed.by]
        IN  /\ \E l \in Range(rel.signature), alg \in {"Ed", "ED"} :
                  l.is = "signature" /\ Signs(l.sig, <<alg, rel.manifest>>)
            /\ \E a \in (CASE how[installed.by] = "client" -> {"client.whl"}
                          [] how[installed.by] = "server" -> {"server.whl"}
                          [] OTHER -> {"client.exe", "full.exe"}) :
                  a \in DOMAIN rel.manifest /\ installed.content = rel.manifest[a]
            /\ Newer(rel.version, Current)

-----------------------------------------------------------------------------
(* What the repository says and the code does not do (README, Deviations). *)

\* updater.py:30: "a tampered or truncated download is rejected instead of
\* run", also with two calls.
InstalledIsVerified == installed.content # <<"part">>
=============================================================================

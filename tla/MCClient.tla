------------------------------ MODULE MCClient ------------------------------
(***************************************************************************)
(* The client's pure decisions, its files and its updates in one run:      *)
(* focus is chosen at the start, and the module it names is the one that   *)
(* moves.                                                                  *)
(***************************************************************************)
EXTENDS MCProfileStore, Ladder, Routes, Update, Ed25519, LogFeed, AtomicFile

Numbered == With(Whole, "server", [endpoint |-> "ip"])
CdnBy(more) == Rung([host_header |-> "h"] @@ more)
MCProfiles ==
    {Parse(d) : d \in
        {\* Two strategies that differ in the Host header alone.
         [fallback |-> [strategies |->
            <<CdnBy([pin_mode |-> "none"]),
              Rung([id |-> "other host", pin_mode |-> "none", host_header |-> "k"]),
              Rung([id |-> "relay", endpoint |-> "", proxy |-> "px"])>>]]
            @@ With(Whole, "server", [fallback_ports |-> <<8443, 2083>>]),
         \* One rung, that of the profile that is tried first.
         [network |-> [hostile_mode |-> "on"], fallback |-> [enabled |-> FALSE,
            strategies |-> <<Rung([id |-> "direct", pin_mode |-> "tolerate"])>>]] @@ Whole,
         \* Ids that are also those of other rungs, and the public resolver left outside.
         [fallback |-> [strategies |-> <<CdnBy([id |-> "direct", pin_mode |-> "tolerate"]),
                                         CdnBy([force_hostile |-> TRUE, pin_mode |-> "none"]),
                                         Rung([id |-> "plain", endpoint |-> "", scheme |-> "ws"])>>],
          routing |-> [bypass_ips |-> <<"ip2">>]]
            @@ With(With(With(Whole, "tls", [verify |-> "ca", cert_fingerprint_sha256 |-> ""]),
                         "wireguard", [dns |-> <<>>]), "server", [fallback_ports |-> <<8443>>]),
         \* An address in place of a name.
         Numbered}}

Home == [signature |-> "home", names |-> [front |-> "f", cdn |-> "c"],
         public |-> [front |-> "f", cdn |-> "c"], remembers |-> TRUE,
         open |-> {"f", "ip"} \X {443},
         shows |-> [f |-> "pinned", ip |-> "pinned", c |-> "foreign", x |-> "foreign"],
         serves |-> {<<"f", "">>, <<"ip", "">>, <<"c", "h">>}, proxy |-> "", near |-> {},
         allow_tls_intercept |-> FALSE]
MCNetworks ==
    {Home,
     \* Only the alternate port and the front, whose lookups the tunnel swallows.
     [Home EXCEPT !.signature = "", !.remembers = FALSE, !.open = {<<"f", 8443>>, <<"c", 443>>},
                  !.shows = [@ EXCEPT !["f"] = "trusted", !["c"] = "trusted"]],
     \* A poisoned name; the front is left, under one Host header of two.
     [Home EXCEPT !.signature = "cafe", !.names = [front |-> "x", cdn |-> "c"],
                  !.open = {"f", "x", "c"} \X {80, 443}, !.shows = [@ EXCEPT !["f"] = "trusted"],
                  !.serves = {<<"f", "">>, <<"c", "k">>}],
     \* Only by a proxy.
     [Home EXCEPT !.signature = "corp", !.proxy = "px2", !.near = {"px", "px2"}, !.open = {}],
     \* Certificates are replaced: at home, and where the user has agreed to it.
     [Home EXCEPT !.shows = [@ EXCEPT !["f"] = "foreign"], !.open = {"f"} \X {80, 443}],
     [Home EXCEPT !.signature = "school", !.shows = [a \in {"f", "ip", "c", "x"} |-> "foreign"],
                  !.allow_tls_intercept = TRUE, !.open = {"f", "ip", "c"} \X {443, 2083}]}

At3(addr) == [addr |-> addr, len |-> 3]
MCEntries == {<<[addr |-> a * 2 ^ (3 - l), len |-> l]>> : <<a, l>> \in
                {<<a, l>> \in (0..7) \X (0..3) : a < 2 ^ l}}
             \cup {<<>>, <<At3(1), At3(6), At3(1)>>}

-----------------------------------------------------------------------------
(* Releases: one good, and those that differ from it in one respect. *)

Manifest(names) == [n \in names |-> <<n, "maintainer">>]
Signed(alg, by, manifest) ==
    LET sig == [by |-> by, over |-> <<alg, manifest>>]
    IN <<[is |-> "untrusted"],
         [is |-> "signature", alg |-> alg, key |-> "release key", sig |-> sig],
         [is |-> "trusted", text |-> "t"],
         [is |-> "global", sig |-> [by |-> by, over |-> <<sig, "t">>]]>>
Release(version, names, alg) ==
    [version |-> version, assets |-> Manifest(names), manifest |-> Manifest(names),
     signature |-> Signed(alg, "release key", Manifest(names))]

Good == Release(<<1, 3>>, {"client.exe", "client.whl", "server.whl"}, "ED")
MCReleases ==
    {Good, Release(<<2>>, {"full.exe"}, "Ed"),
     [Good EXCEPT !.version = <<1, 2, 0>>],
     [Good EXCEPT !.manifest = <<>>],
     [Good EXCEPT !.signature = <<>>],
     [Good EXCEPT !.signature = Signed("ED", "another key", Good.manifest)],
     [Good EXCEPT !.signature = SubSeq(Good.signature, 1, 2)],
     [Good EXCEPT !.assets["client.exe"] = <<"client.exe", "another">>],
     [Good EXCEPT !.manifest = Manifest({"client.whl"}),
                  !.signature = Signed("ED", "release key", Manifest({"client.whl"}))]}
MCCurrent == <<1, 2>>

-----------------------------------------------------------------------------
VARIABLE focus
clientVars == <<focus, storeVars, ladderVars, routesVars, updateVars, edVars, logVars, fileVars>>

OnlyStore == UNCHANGED <<focus, ladderVars, routesVars, updateVars, edVars, logVars, fileVars>>
OnlyLadder == UNCHANGED <<focus, storeVars, routesVars, updateVars, edVars, logVars, fileVars>>
OnlyRoutes == UNCHANGED <<focus, storeVars, ladderVars, updateVars, edVars, logVars, fileVars>>
OnlyUpdate == UNCHANGED <<focus, storeVars, ladderVars, routesVars, edVars, logVars, fileVars>>
OnlyEd == UNCHANGED <<focus, storeVars, ladderVars, routesVars, updateVars, logVars, fileVars>>
OnlyLog == UNCHANGED <<focus, storeVars, ladderVars, routesVars, updateVars, edVars, fileVars>>
OnlyFile == UNCHANGED <<focus, storeVars, ladderVars, routesVars, updateVars, edVars, logVars>>

ClientInit ==
    /\ focus \in {"store", "ladder", "routes", "update", "signature", "log", "file"}
    /\ StoreInit /\ LadderInit /\ RoutesInit /\ UpdateInit /\ EdInit /\ LogInit /\ FileInit
    /\ focus # "store" => file = None /\ original = None
    /\ focus # "ladder" => profile = Parse(Numbered) /\ network = Home
    /\ focus # "update" => release = Good
ClientNext ==
    \/ focus = "store" /\ StoreNext /\ OnlyStore
    \/ focus = "ladder" /\ LadderNext /\ OnlyLadder
    \/ focus = "routes" /\ RoutesNext /\ OnlyRoutes
    \/ focus = "update" /\ UpdateNext /\ OnlyUpdate
    \/ focus = "signature" /\ EdNext /\ OnlyEd
    \/ focus = "log" /\ LogNext /\ OnlyLog
    \/ focus = "file" /\ FileNext /\ OnlyFile
ClientSpec == ClientInit /\ [][ClientNext]_clientVars
=============================================================================

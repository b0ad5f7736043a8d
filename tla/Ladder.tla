------------------------------- MODULE Ladder -------------------------------
(***************************************************************************)
(* Which way the client tries to reach the server: the fallback ladder,    *)
(* its probes and pin checks and the rung remembered per network           *)
(* (src/client/outwarp/fallback.py, tunnel.py).  TunnelManager models the  *)
(* walk access by access with the rungs only counted; here the rungs are   *)
(* what is looked at, and a connect() is as many steps as it asks the      *)
(* network: the pre-flight, the routes, the check of a rung's certificate  *)
(* and the dial of that rung.  The machine may change networks between     *)
(* any two.  A profile is what Profile's Parse returns.                    *)
(*                                                                         *)
(* A network is a record: its signature, the names its resolver and the    *)
(* public resolver answer (names, public), whether the machine still       *)
(* remembers those names once its lookups are sent into the tunnel         *)
(* (remembers), the ports that answer (open), the certificate an address   *)
(* presents (shows: "pinned", "trusted" by a CA, or "foreign"), the        *)
(* addresses behind which the server answers, with the Host header it      *)
(* takes (serves), the proxy it configures (proxy), those in reach beside  *)
(* any tunnel (near), and allow_tls_intercept as the user sets it there.   *)
(***************************************************************************)
EXTENDS Profile

CONSTANTS
    Profiles,    \* profiles that may be imported
    Networks,    \* the networks a client moves between
    MaxMoves

ASSUME LadderAssumption ==
    /\ MaxMoves \in Nat
    /\ \A p \in Profiles : /\ p.server.fallback_ports \in Seq(Ports)
                           /\ p.fallback.strategies \in Seq(Range(p.fallback.strategies))

VARIABLES
    profile, network,
    sticky,      \* network_strategies.json: signature -> rung id
    session,     \* the manager's thread: the network it recognised, the rung it prefers
    walk,        \* connect(): where it is, its ladder, the rungs left, the addresses
                 \* outside the tunnel; history: moved networks since it began (moved),
                 \* since the last check (gap)
    worked,      \* history: the rungs that carried a connection, with the network
    moves
ladderVars == <<profile, network, sticky, session, walk, worked, moves>>

NoSession == [open |-> FALSE, signature |-> Empty, preferred |-> Empty]
NoWalk == [at |-> "none", ladder |-> <<>>, left |-> <<>>, outside |-> {},
           moved |-> FALSE, gap |-> FALSE]

-----------------------------------------------------------------------------
(* build_ladder *)

\* Variant: a profile without a pin is dialled without a check.
DefaultPinOff(p) == IF p.tls.verify = "ca" THEN "none" ELSE "pin"
DefaultPin(p) == IF p.tls.verify = "ca" THEN "ca" ELSE "pin"

\* A rung the client makes itself dials the profile's own endpoint.
OwnRung(p, id, port, hostile, proxy) ==
    [id |-> id, endpoint |-> p.server.endpoint, port |-> port,
     path_prefix |-> p.server.http_upgrade_path_prefix, scheme |-> "wss",
     force_hostile |-> hostile, host_header |-> Empty, proxy |-> proxy,
     pin_mode |-> DefaultPin(p), bypass_ips |-> <<>>]

\* _resolve_provisioned: what a strategy of the server leaves blank is inherited.
ProvisionedRung(p, s) ==
    [id |-> s.id, endpoint |-> OrElse(s.endpoint, p.server.endpoint),
     port |-> IF s.port # 0 THEN s.port ELSE IF s.scheme = "wss" THEN p.server.port ELSE 80,
     path_prefix |-> OrElse(s.path_prefix, p.server.http_upgrade_path_prefix),
     scheme |-> s.scheme, force_hostile |-> s.force_hostile, host_header |-> s.host_header,
     proxy |-> s.proxy, pin_mode |-> s.pin_mode, bypass_ips |-> s.bypass_ips]

AltId(port) == CASE port = 8443 -> "port-8443" [] port = 2083 -> "port-2083"
                 [] OTHER -> "port-other"

AllRungs(p, proxy) ==
    LET alts == p.server.fallback_ports
        given == p.fallback.strategies
    IN  (IF p.network.hostile_mode = "on" THEN <<>>
         ELSE <<OwnRung(p, "direct", p.server.port, FALSE, Empty)>>)
        \o <<OwnRung(p, "direct-hostile", p.server.port, TRUE, Empty)>>
        \o (IF proxy = Empty THEN <<>>
            ELSE <<OwnRung(p, "direct-proxy", p.server.port, TRUE, proxy)>>)
        \o [i \in DOMAIN alts |-> OwnRung(p, AltId(alts[i]), alts[i], TRUE, Empty)]
        \o [i \in DOMAIN given |-> ProvisionedRung(p, given[i])]

\* ConnectionStrategy.dedup_key: not the Host header, not the bypass list.
DedupKey(r) == <<r.endpoint, r.port, r.scheme, r.force_hostile, r.proxy, r.pin_mode,
                 r.path_prefix>>
\* Of the rungs with one key, the first.
BuildLadder(p, proxy) ==
    LET all == AllRungs(p, proxy)
    IN  Keep(all, {i \in DOMAIN all :
                    \A j \in 1..(i - 1) : DedupKey(all[j]) # DedupKey(all[i])})

ReorderForSticky(ladder, id) ==
    Keep(ladder, {i \in DOMAIN ladder : ladder[i].id = id})
      \o Keep(ladder, {i \in DOMAIN ladder : ladder[i].id # id})

\* Variant: only the profile's own endpoint stays outside.
AllBypassIpsOwn(p, ladder) == ToSet(p.routing.bypass_ips) \cup {p.server.endpoint}
\* all_bypass_ips and build_wg_conf: what is to be left outside the tunnel, once for
\* all rungs.
AllBypassIps(p, ladder) ==
    ToSet(p.routing.bypass_ips) \cup {p.server.endpoint}
        \cup {ladder[i].endpoint : i \in DOMAIN ladder}
        \cup UNION {ToSet(ladder[i].bypass_ips) : i \in DOMAIN ladder}

-----------------------------------------------------------------------------
(* Names and addresses.  1.1.1.1 is one of the addresses of a profile.     *)

PublicResolver == "ip2"
Nowhere == "nowhere"
LookUp(h, answers) == IF h \in Addresses \cup Cidrs THEN h ELSE Get(answers, h, Nowhere)

\* The machine's resolver, before the interface is installed and after.  The DNS lines
\* of the configuration send every lookup into a tunnel that nothing carries yet.
System(h, net) == LookUp(h, net.names)
SystemInside(p, h, net) ==
    LookUp(h, IF p.wireguard.dns = <<>> \/ net.remembers THEN net.names ELSE <<>>)

\* Where a rung is meant to lead, by the resolver it asks (--dns-resolver on a hostile
\* rung) or its proxy does; and where wstunnel dials with the interface up.
LeadsTo(r, net) ==
    LookUp(r.endpoint, IF r.force_hostile \/ r.proxy # Empty THEN net.public ELSE net.names)
Dialled(p, r, net, outside) ==
    IF r.force_hostile
    THEN LookUp(r.endpoint, IF PublicResolver \in outside THEN net.public ELSE <<>>)
    ELSE SystemInside(p, r.endpoint, net)

\* _resolve_bypass_networks: a name without an answer is skipped.
LeftOutside(p, ladder, net) == {System(h, net) : h \in AllBypassIps(p, ladder)} \ {Nowhere}

-----------------------------------------------------------------------------
(* What connect() asks of the network.                                     *)

Direct(r) == r.scheme = "wss" /\ r.proxy = Empty
Answers(a, port, net) == a # Nowhere /\ <<a, port>> \in net.open

\* _is_attemptable: only a direct TLS port can be probed.
IsAttemptable(r, net) == Direct(r) => Answers(System(r.endpoint, net), r.port, net)

\* _check_pin, on a connection of its own.  A certificate is not tolerated in place of
\* a trusted chain, nor any rung whose endpoint presents none.
CertificateFits(p, r, a, net) ==
    IF r.pin_mode = "ca" THEN net.shows[a] = "trusted"
    ELSE \/ net.shows[a] = "pinned" /\ PinValue(p.tls) # Empty
         \/ r.pin_mode = "tolerate" \/ net.allow_tls_intercept
CheckPin(p, r, net) ==
    LET a == SystemInside(p, r.endpoint, net)
    IN  Answers(a, r.port, net) /\ CertificateFits(p, r, a, net)
PinPasses(p, r, net) == Direct(r) /\ r.pin_mode # "none" => CheckPin(p, r, net)

\* The server answers at a, under the rung's Host header, and wstunnel accepts the
\* certificate (--tls-verify-certificate on a "ca" rung, any other elsewhere).
Serves(r, a, net) ==
    /\ IF r.proxy = Empty THEN Answers(a, r.port, net) ELSE r.proxy \in net.near
    /\ <<a, r.host_header>> \in net.serves
    /\ r.scheme = "wss" /\ r.pin_mode = "ca" => net.shows[a] = "trusted"

\* The dial brings a handshake and a ping: what is dialled inside the tunnel would loop.
Carries(p, r, net, outside) ==
    LET a == IF r.proxy = Empty THEN Dialled(p, r, net, outside) ELSE LeadsTo(r, net)
    IN  Serves(r, a, net) /\ (r.proxy = Empty => a \in outside)

Tried(p, net, preferred) ==
    LET ladder == BuildLadder(p, net.proxy)
    IN  ReorderForSticky(IF p.fallback.enabled THEN ladder ELSE SubSeq(ladder, 1, 1), preferred)
Attemptable(ladder, net) == Keep(ladder, {i \in DOMAIN ladder : IsAttemptable(ladder[i], net)})

-----------------------------------------------------------------------------
(* The manager's thread and connect().                                     *)

\* StickyStore: get and set.
Preference(signature) == IF signature = Empty THEN Empty ELSE sticky[signature]
Remember(signature, id) ==
    sticky' = IF signature = Empty THEN sticky ELSE [sticky EXCEPT ![signature] = id]

\* TunnelManager._run: the network is recognised once, when the thread starts.
StartSession ==
    /\ ~session.open
    /\ session' = [open |-> TRUE, signature |-> network.signature,
                   preferred |-> Preference(network.signature)]
    /\ UNCHANGED <<profile, network, sticky, walk, worked, moves>>

OnlyWalk == UNCHANGED <<profile, network, sticky, session, worked, moves>>

\* The first connect() of a session, the next attempt, or the one after a drop.
ConnectBegins ==
    /\ session.open
    /\ walk.at \in {"none", "failed", "up"}
    /\ walk' = [NoWalk EXCEPT !.at = "probe",
                              !.ladder = Tried(profile, network, session.preferred)]
    /\ OnlyWalk

\* Fails fast, before WireGuard is touched, where nothing can be dialled.
Preflight ==
    /\ walk.at = "probe"
    /\ \E left \in {Attemptable(walk.ladder, network)} :
          walk' = [walk EXCEPT !.at = IF left = <<>> THEN "failed" ELSE "install", !.left = left]
    /\ OnlyWalk

\* The routes are made once, from the ladder and what its names stand for now.
InstallRoutes ==
    /\ walk.at = "install"
    /\ walk' = [walk EXCEPT !.at = "rung", !.outside = LeftOutside(profile, walk.ladder, network)]
    /\ OnlyWalk

NextRung ==
    /\ walk' = [walk EXCEPT !.at = IF Tail(walk.left) = <<>> THEN "failed" ELSE "rung",
                            !.left = Tail(walk.left)]
    /\ OnlyWalk

CheckRung ==
    /\ walk.at = "rung"
    /\ IF PinPasses(profile, Head(walk.left), network)
       THEN walk' = [walk EXCEPT !.at = "dial", !.gap = FALSE] /\ OnlyWalk
       ELSE NextRung

DialFails ==
    /\ walk.at = "dial"
    /\ ~Carries(profile, Head(walk.left), network, walk.outside)
    /\ NextRung

\* The rung is preferred for the rest of the session and remembered for the network
\* on which the session began.
DialSucceeds ==
    /\ walk.at = "dial"
    /\ Carries(profile, Head(walk.left), network, walk.outside)
    /\ walk' = [walk EXCEPT !.at = "up"]
    /\ session' = [session EXCEPT !.preferred = Head(walk.left).id]
    /\ Remember(session.signature, Head(walk.left).id)
    /\ worked' = worked \cup {<<network.signature, Head(walk.left).id>>}
    /\ UNCHANGED <<profile, network, moves>>

\* stop(), in the middle of connect() or not.
EndSession ==
    /\ session.open
    /\ session' = NoSession /\ walk' = NoWalk
    /\ UNCHANGED <<profile, network, sticky, worked, moves>>

-----------------------------------------------------------------------------
(* What happens around it.                                                 *)

\* The machine changes networks, or the network its answers, in the middle of a
\* connect() or not; a connection that was up is gone.
Move(net) ==
    /\ moves < MaxMoves /\ moves' = moves + 1
    /\ network' = net
    /\ walk' = IF walk.at \in {"none", "failed", "up"} THEN NoWalk
               ELSE [walk EXCEPT !.moved = TRUE, !.gap = TRUE]
    /\ UNCHANGED <<profile, session, sticky, worked>>

\* The store outlives the profile: its ids may name rungs of another one.
ImportOther(p) ==
    /\ moves < MaxMoves /\ moves' = moves + 1
    /\ ~session.open
    /\ profile' = p
    /\ UNCHANGED <<network, session, sticky, walk, worked>>

\* StickyStore._load after a restart: a torn or missing file is an empty store.
StoreLost ==
    /\ moves < MaxMoves /\ moves' = moves + 1
    /\ ~session.open
    /\ sticky' = [s \in DOMAIN sticky |-> Empty]
    /\ UNCHANGED <<profile, network, session, walk, worked>>

LadderInit ==
    /\ profile \in Profiles /\ network \in Networks
    /\ sticky = [s \in {n.signature : n \in Networks} \ {Empty} |-> Empty]
    /\ session = NoSession /\ walk = NoWalk
    /\ worked = {} /\ moves = 0
ConnectStep ==
    ConnectBegins \/ Preflight \/ InstallRoutes \/ CheckRung \/ DialFails \/ DialSucceeds
LadderNext ==
    \/ StartSession \/ ConnectStep \/ EndSession \/ StoreLost
    \/ \E net \in Networks : Move(net)
    \/ \E p \in Profiles : ImportOther(p)
LadderSpec == LadderInit /\ [][LadderNext]_ladderVars

-----------------------------------------------------------------------------
(* Properties *)

\* The rungs a profile and the environment stand for, duplicates and all.
Reference == ToSet(AllRungs(profile, network.proxy))

\* The rung leads to the server, and what it leads to is what the rung asks for: said of
\* the network and the rung alone, whatever connect() looks at on its way.
Works(p, r, net) ==
    /\ Serves(r, LeadsTo(r, net), net)
    /\ Direct(r) /\ r.pin_mode # "none" => CertificateFits(p, r, LeadsTo(r, net), net)

\* build_ladder took it for a duplicate of a rung that sends another Host header.
Shadowed(r) ==
    \E q \in Reference : DedupKey(q) = DedupKey(r) /\ q.host_header # r.host_header

\* The port, the routes, the certificate or the dial are looked up elsewhere than the
\* rung leads to: a resolver that answers differently, or not once the interface is up.
Misled(p, r, net) ==
    /\ r.proxy = Empty
    /\ {System(r.endpoint, net), SystemInside(p, r.endpoint, net),
        Dialled(p, r, net, LeftOutside(p, walk.ladder, net))} # {LeadsTo(r, net)}

GivesUp == walk.at = "failed" /\ ~walk.moved /\ profile.fallback.enabled

\* connect() gives up, on a network that stayed the same, only where no way the profile
\* offers works: neither the routes made for all rungs at once, nor the collapse of
\* duplicates, nor the pre-flight, nor a remembered rung, of this profile or of one that
\* is gone, costs one that does.  Two exceptions are the code's: Shadowed and Misled.
WorkingRungIsFound ==
    GivesUp => \A r \in Reference :
        Works(profile, r, network) => Shadowed(r) \/ Misled(profile, r, network)

\* The rung of a connection, and the certificate of the server at its other end.
RungUp == Head(walk.left)
Presented == network.shows[Dialled(profile, RungUp, network, walk.outside)]
\* The rungs that the profile's own strategies exempt from the check.
Exempt ==
    LET lax == {s \in Range(profile.fallback.strategies) : s.pin_mode # "pin"}
    IN  {ProvisionedRung(profile, s) : s \in lax}

\* The connection that was made is to a server whose certificate the rung asks for, or
\* on a rung that this profile exempts, whatever is remembered of other profiles and
\* networks.  A pin is checked on a connection before the one that is used, so that it
\* says nothing where the network changed in between or the dial went elsewhere; a chain
\* is checked on the connection itself and has no such gap.
TrustIsTheRungs ==
    walk.at = "up" /\ Direct(RungUp) =>
        CASE RungUp.pin_mode = "ca" -> Presented = "trusted"
          [] RungUp.pin_mode = "pin" ->
                \/ Presented = "pinned" \/ network.allow_tls_intercept
                \/ walk.gap
                \/ SystemInside(profile, RungUp.endpoint, network)
                        # Dialled(profile, RungUp, network, walk.outside)
          [] OTHER -> RungUp \in Exempt

-----------------------------------------------------------------------------
(* What the repository says and the code does not do (README, Deviations). *)

\* fallback.py:17: the rung "direct-hostile" is there for "poisoned DNS".  Its port is
\* probed and its certificate checked where the poisoned answer leads, and 1.1.1.1 is
\* asked through the tunnel.
PublicDnsHelps == GivesUp => \A r \in Reference : r.force_hostile => ~Works(profile, r, network)

\* Rungs that differ in the Host header alone are different ways through a front.
NoFrontIsDropped == GivesUp => \A r \in Reference :
    Works(profile, r, network) /\ Shadowed(r) => Misled(profile, r, network)

\* fallback.py:119: the pin check is "the only gate on a "pin" rung".
PinIsTheGate ==
    walk.at = "up" /\ Direct(RungUp) /\ RungUp.pin_mode = "pin" =>
        Presented = "pinned" \/ network.allow_tls_intercept

\* tunnel.py:657: the session is seeded with "whatever rung last worked on this
\* network", so that a remembered rung is one that worked on its network.
StickyWorkedHere ==
    \A s \in DOMAIN sticky : sticky[s] # Empty => <<s, sticky[s]>> \in worked

\* wireguard.py:223: the routes leave out "every alternate front the fallback
\* ladder might dial (CDN anycast, a proxy, alt-port hosts)".
ProxyDialEscapes ==
    walk.at = "up" /\ RungUp.proxy # Empty => RungUp.proxy \in walk.outside
=============================================================================

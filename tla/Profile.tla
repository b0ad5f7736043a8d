------------------------------ MODULE Profile -------------------------------
(***************************************************************************)
(* The client's profile document: what _parse accepts and makes of it,     *)
(* what _to_dict writes, what the profile editor may change                *)
(* (src/client/outwarp/config.py).                                         *)
(*                                                                         *)
(* A JSON object is a function from the keys it has to their values, so    *)
(* that d.get(k, v) is Get(d, k, v) and a missing key is a key outside     *)
(* the domain.  Bad is a value of a type the field does not take.  Words   *)
(* stand for strings, Empty for the empty one; addresses are the classes   *)
(* the validators tell apart.                                              *)
(***************************************************************************)
EXTENDS Integers, SequencesExt

CONSTANTS Bad, TextNumber      \* TextNumber: a string that int() reads as 1400

Empty == ""
Get(d, k, v) == IF k \in DOMAIN d THEN d[k] ELSE v
\* What is written of a section: the keys that would only repeat a default
\* are left out.
Brief(d, defaults) ==
    Restrict(d, {k \in DOMAIN d : k \in DOMAIN defaults => d[k] # defaults[k]})

\* A list comprehension: the items of s at the positions K, in their order.
Keep(s, K) ==
    [n \in 1..Cardinality(K) |->
        s[CHOOSE i \in K : Cardinality({j \in K : j <= i}) = n]]

Ports == 1..65535
Positive(v) == v # Bad /\ v >= 1
SchemaVersion == 3

\* str(...).strip().lower() on the words the validators know.
Cased == [Pin |-> "pin", CA |-> "ca", On |-> "on", Auto |-> "auto",
          WS |-> "ws", None |-> "none", blank |-> Empty]
Lower(w) == Get(Cased, w, w)
OrElse(w, default) == IF w = Empty THEN default ELSE w

Fingerprints == {"fp", "spki"}             \* well-formed SHA-256 strings
Addresses == {"ip", "ip2"}
Cidrs == {"cidr"}
Hostnames == {"host"}

ASSUME TextAssumption == TextNumber \notin Int
ASSUME BadAssumption ==
    Bad \notin STRING \cup Int \cup Addresses \cup Cidrs \cup Hostnames

-----------------------------------------------------------------------------
(* The sections: when each is accepted, and what is kept of it. *)

EnrollmentOk(d) ==
    /\ d # Bad
    /\ Get(d, "token", Empty) # Empty => Get(d, "url", Empty) # Empty
    /\ Get(d, "url", Empty) \in {Empty, "https", "http"}
ParseEnrollment(d) == [token |-> Get(d, "token", Empty), url |-> Get(d, "url", Empty)]

ServerOk(d) ==
    /\ d # Bad
    /\ {"endpoint", "port", "http_upgrade_path_prefix"} \subseteq DOMAIN d
    /\ d.port \in Ports
    /\ LET more == Get(d, "fallback_ports", <<>>)
       IN  more # Bad /\ more \in Seq(Ports)
\* The alternatives to the main port, each once, in the order given.
Alternatives(port, more) ==
    Keep(more, {i \in DOMAIN more : more[i] \notin {port} \cup {more[j] : j \in 1..(i - 1)}})
ParseServer(d) ==
    [endpoint |-> d.endpoint, port |-> d.port,
     http_upgrade_path_prefix |-> d.http_upgrade_path_prefix,
     fallback_ports |-> Alternatives(d.port, Get(d, "fallback_ports", <<>>))]

TlsMode(d) == Lower(Get(d, "verify", "pin"))
TlsOk(d) ==
    LET fp == Get(d, "cert_fingerprint_sha256", Empty)
        spki == Get(d, "spki_sha256", Empty)
    IN  /\ d # Bad
        /\ TlsMode(d) \in {"pin", "ca"}
        /\ {fp, spki} \subseteq Fingerprints \cup {Empty}
        /\ TlsMode(d) = "pin" => fp # Empty \/ spki # Empty
ParseTls(d) ==
    [cert_fingerprint_sha256 |-> Get(d, "cert_fingerprint_sha256", Empty),
     verify |-> TlsMode(d), spki_sha256 |-> Get(d, "spki_sha256", Empty)]
\* TlsConfig.pin_value: the pin that is checked.
PinValue(tls) == OrElse(tls.spki_sha256, tls.cert_fingerprint_sha256)

TunnelOk(d) ==
    /\ d # Bad
    /\ {"local_port", "remote_host", "remote_port"} \subseteq DOMAIN d
    /\ {d.local_port, d.remote_port} \subseteq Ports
ParseTunnel(d) == [local_port |-> d.local_port, remote_host |-> d.remote_host,
                   remote_port |-> d.remote_port]

\* int(value): the text of a number is a number.
ToInt(v) == IF v = TextNumber THEN 1400 ELSE v
Ints(s) == [i \in DOMAIN s |-> ToInt(s[i])]
Mtus == 576..1500

WireguardOk(d, enrolling) ==
    /\ d # Bad
    /\ ToInt(Get(d, "mtu", 1380)) \in Mtus
    /\ enrolling \/ "client_private_key" \in DOMAIN d
    /\ {"tunnel_name", "client_address", "server_public_key"} \subseteq DOMAIN d
ParseWireguard(d) ==
    [tunnel_name |-> d.tunnel_name, client_address |-> d.client_address,
     client_private_key |-> Get(d, "client_private_key", Empty),
     server_public_key |-> d.server_public_key,
     dns |-> Get(d, "dns", <<"ip">>), mtu |-> ToInt(Get(d, "mtu", 1380)),
     preshared_key |-> Get(d, "preshared_key", Empty)]

RoutingOk(d) ==
    /\ d # Bad
    /\ "bypass_ips" \in DOMAIN d
    /\ d.bypass_ips # Bad /\ ~Contains(d.bypass_ips, Bad)

HostileModes == {"auto", "on", "off"}
NetworkOk(d) == d # Bad => Lower(Get(d, "hostile_mode", "auto")) \in HostileModes
ParseNetwork(d) ==
    [hostile_mode |-> IF d = Bad THEN "auto" ELSE Lower(Get(d, "hostile_mode", "auto"))]

DefaultDelays == <<5, 10, 20, 30, 60>>
ReconnectOk(d) ==
    d # Bad => LET delays == Get(d, "delays_seconds", DefaultDelays)
               IN  /\ Positive(ToInt(Get(d, "max_attempts", 5)))
                   /\ delays # Bad
                   /\ \A i \in DOMAIN delays : Positive(ToInt(delays[i]))
ParseReconnect(d) ==
    IF d = Bad THEN [max_attempts |-> 5, delays_seconds |-> DefaultDelays]
    ELSE [max_attempts |-> ToInt(Get(d, "max_attempts", 5)),
          delays_seconds |-> Ints(Get(d, "delays_seconds", DefaultDelays))]

\* One entry of fallback.strategies.
StrategyId(e) == Get([blank |-> Empty], Get(e, "id", Empty), Get(e, "id", Empty))   \* stripped
StrategyOk(e) ==
    /\ e # Bad
    /\ StrategyId(e) # Empty
    /\ Get(e, "port", 0) \in {0} \cup Ports
    /\ OrElse(Lower(Get(e, "scheme", "wss")), "wss") \in {"wss", "ws"}
    /\ OrElse(Lower(Get(e, "pin_mode", "pin")), "pin") \in {"pin", "tolerate", "none"}
    /\ Get(e, "bypass_ips", <<>>) # Bad
ParseStrategy(e) ==
    [id |-> StrategyId(e), endpoint |-> Get(e, "endpoint", Empty), port |-> Get(e, "port", 0),
     scheme |-> OrElse(Lower(Get(e, "scheme", "wss")), "wss"),
     host_header |-> Get(e, "host_header", Empty), path_prefix |-> Get(e, "path_prefix", Empty),
     proxy |-> Get(e, "proxy", Empty),
     pin_mode |-> OrElse(Lower(Get(e, "pin_mode", "pin")), "pin"),
     force_hostile |-> Get(e, "force_hostile", FALSE),
     bypass_ips |-> Get(e, "bypass_ips", <<>>)]
\* What an entry leaves out is inherited from the profile.
StrategyDefaults ==
    [endpoint |-> Empty, port |-> 0, scheme |-> "wss", host_header |-> Empty,
     path_prefix |-> Empty, proxy |-> Empty, pin_mode |-> "pin", force_hostile |-> FALSE,
     bypass_ips |-> <<>>]
FallbackOk(d) ==
    d # Bad => LET entries == Get(d, "strategies", <<>>)
               IN  /\ entries # Bad
                   /\ \A i \in DOMAIN entries : StrategyOk(entries[i])
                   /\ \A i, j \in DOMAIN entries :
                        StrategyId(entries[i]) = StrategyId(entries[j]) => i = j
ParseFallback(d) ==
    IF d = Bad THEN [enabled |-> TRUE, strategies |-> <<>>]
    ELSE LET entries == Get(d, "strategies", <<>>)
         IN  [enabled |-> Get(d, "enabled", TRUE),
              strategies |-> [i \in DOMAIN entries |-> ParseStrategy(entries[i])]]

-----------------------------------------------------------------------------
(* The document. *)

Required == {"server", "tls", "tunnel", "wireguard", "routing"}
Section(raw, k) == Get(raw, k, <<>>)

\* _parse refuses with a ConfigError unless this holds.
Accepts(raw) ==
    /\ raw # Bad
    /\ Get(raw, "schema_version", 1) \in 1..SchemaVersion
    /\ EnrollmentOk(Section(raw, "enrollment"))
    /\ Required \subseteq DOMAIN raw
    /\ ServerOk(raw.server) /\ TlsOk(raw.tls) /\ TunnelOk(raw.tunnel)
    /\ WireguardOk(raw.wireguard, Get(Section(raw, "enrollment"), "token", Empty) # Empty)
    /\ RoutingOk(raw.routing)
    /\ ReconnectOk(Section(raw, "reconnect"))
    /\ NetworkOk(Section(raw, "network"))
    /\ FallbackOk(Section(raw, "fallback"))

Parse(raw) ==
    [schema_version |-> Get(raw, "schema_version", 1),
     server |-> ParseServer(raw.server), tls |-> ParseTls(raw.tls),
     tunnel |-> ParseTunnel(raw.tunnel), wireguard |-> ParseWireguard(raw.wireguard),
     routing |-> [bypass_ips |-> raw.routing.bypass_ips],
     reconnect |-> ParseReconnect(Section(raw, "reconnect")),
     network |-> ParseNetwork(Section(raw, "network")),
     fallback |-> ParseFallback(Section(raw, "fallback")),
     enrollment |-> ParseEnrollment(Section(raw, "enrollment")),
     name |-> Get(raw, "name", Empty),
     expires_at |-> IF Section(raw, "meta") = Bad THEN 0
                    ELSE Get(Section(raw, "meta"), "expires_at", 0)]

\* Days are numbers, 0 is no expiry.
IsExpired(cfg, today) == cfg.expires_at # 0 /\ cfg.expires_at < today

\* Variant: the writer has not learnt the newer fields.
StrategyToDictBrief(s) == Brief(Restrict(s, {"id", "endpoint", "port"}), StrategyDefaults)
StrategyToDict(s) == Brief(s, StrategyDefaults)
FallbackToDict(fb) ==
    Brief([enabled |-> fb.enabled,
           strategies |-> [i \in DOMAIN fb.strategies |-> StrategyToDict(fb.strategies[i])]],
          [strategies |-> <<>>])

ToDict(cfg) ==
    Brief([schema_version |-> cfg.schema_version, name |-> cfg.name,
           server |-> Brief(cfg.server, [fallback_ports |-> <<>>]),
           tls |-> Brief(cfg.tls, [verify |-> "pin", spki_sha256 |-> Empty]),
           tunnel |-> cfg.tunnel,
           wireguard |-> Brief(cfg.wireguard, [preshared_key |-> Empty]),
           routing |-> cfg.routing, reconnect |-> cfg.reconnect, network |-> cfg.network,
           fallback |-> FallbackToDict(cfg.fallback), enrollment |-> cfg.enrollment,
           meta |-> [expires_at |-> cfg.expires_at]],
          [fallback |-> [enabled |-> TRUE],
           enrollment |-> [token |-> Empty, url |-> Empty], meta |-> [expires_at |-> 0]])

-----------------------------------------------------------------------------
(* The editor: a patch is an object with some of the editable fields. *)

\* _parse_ip_list and _parse_endpoint_list: what may stand in each list.
ListOk(items, allowed) == items # Bad /\ items \in Seq(allowed)
DelaysOk(items) ==
    items # Bad /\ items # <<>> /\ \A i \in DOMAIN items : Positive(ToInt(items[i]))

PatchOk(patch) ==
    /\ Get(patch, "name", "n") \notin {Empty, "blank"}
    /\ ToInt(Get(patch, "mtu", 1380)) \in Mtus
    /\ ListOk(Get(patch, "dns", <<>>), Addresses)
    /\ Get(patch, "client_address", "ip") \in Addresses \cup Cidrs
    /\ ListOk(Get(patch, "bypass_ips", <<>>), Addresses \cup Cidrs \cup Hostnames)
    /\ ToInt(Get(patch, "reconnect_max_attempts", 1)) \in 1..100
    /\ DelaysOk(Get(patch, "reconnect_delays", <<1>>))
    /\ OrElse(Lower(Get(patch, "hostile_mode", "auto")), "auto") \in HostileModes

ApplyPatch(cfg, patch) ==
    LET Edited(k, old) == Get(patch, k, old)
    IN  [cfg EXCEPT
          !.name = Edited("name", @),
          !.wireguard = [cfg.wireguard EXCEPT
              !.mtu = ToInt(Edited("mtu", @)), !.dns = Edited("dns", @),
              !.client_address = Edited("client_address", @)],
          !.routing = [cfg.routing EXCEPT !.bypass_ips = Edited("bypass_ips", @)],
          !.reconnect = [cfg.reconnect EXCEPT
              !.max_attempts = ToInt(Edited("reconnect_max_attempts", @)),
              !.delays_seconds = Ints(Edited("reconnect_delays", @))],
          !.network = [cfg.network EXCEPT
              !.hostile_mode = OrElse(Lower(Edited("hostile_mode", @)), "auto")]]
=============================================================================

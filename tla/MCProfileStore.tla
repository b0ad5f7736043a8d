--------------------------- MODULE MCProfileStore ---------------------------
(* One complete document, and those that differ from it in one section. *)
EXTENDS ProfileStore

Whole ==
    [server |-> [endpoint |-> "front", port |-> 443, http_upgrade_path_prefix |-> "p"],
     tls |-> [cert_fingerprint_sha256 |-> "fp"],
     tunnel |-> [local_port |-> 51820, remote_host |-> "wg", remote_port |-> 65535],
     wireguard |-> [tunnel_name |-> "t", client_address |-> "cidr",
                    client_private_key |-> "issued", server_public_key |-> "spk"],
     routing |-> [bypass_ips |-> <<"ip">>]]

Without(d, k) == [x \in DOMAIN d \ {k} |-> d[x]]
With(d, section, more) == section :> (more @@ Get(d, section, <<>>)) @@ d
In(section, changes) == {With(Whole, section, c) : c \in changes}
Also(section, values) == {section :> v @@ Whole : v \in values}

Keyless == [Whole EXCEPT !.wireguard = Without(Whole.wireguard, "client_private_key")]
Rung(more) == more @@ [id |-> "cdn", endpoint |-> "cdn"]

\* Accepted: every field once at a boundary, written in another case, empty or
\* of a type that falls back to the default.
MCAccepted ==
    {Whole,
     [network |-> [hostile_mode |-> "On"],
      reconnect |-> [max_attempts |-> TextNumber, delays_seconds |-> <<1, TextNumber>>]]
        @@ With(With(With(Whole, "server", [fallback_ports |-> <<8443, 443, 1, 8443>>]),
                     "tls", [verify |-> "CA", cert_fingerprint_sha256 |-> ""]),
                "wireguard", [mtu |-> TextNumber]),
     [fallback |-> [enabled |-> FALSE, strategies |-> <<Rung(<<>>)>>],
      reconnect |-> [max_attempts |-> 1, delays_seconds |-> <<>>], schema_version |-> 3]
        @@ With(With(Whole, "tls", [spki_sha256 |-> "spki", verify |-> "Pin"]),
                "wireguard", [dns |-> <<>>, preshared_key |-> "psk", mtu |-> 576]),
     [network |-> Bad, meta |-> [expires_at |-> 11],
      fallback |-> [strategies |->
        <<Rung([scheme |-> "WS", pin_mode |-> "None", port |-> 65535]), Rung([id |-> "b"])>>]]
        @@ With(Whole, "wireguard", [client_private_key |-> "", mtu |-> 1500]),
     [reconnect |-> Bad, meta |-> Bad,
      fallback |-> [strategies |->
        <<Rung([port |-> 80, proxy |-> "x", force_hostile |-> TRUE, host_header |-> "h",
                path_prefix |-> "q", scheme |-> "", bypass_ips |-> <<"host">>])>>]] @@ Whole,
     [fallback |-> Bad, enrollment |-> [url |-> "https"], meta |-> [expires_at |-> 10]] @@ Whole,
     [enrollment |-> [token |-> "tok", url |-> "https"]] @@ Keyless,
     [enrollment |-> [token |-> "tok", url |-> "https"]] @@ Whole}

\* Refused: one thing wrong in each.
MCRefused ==
    {Bad, Without(Whole, "tls"), Keyless}
    \cup In("server", {[port |-> p] : p \in {0, 65536, Bad}})
    \cup In("server", {[fallback_ports |-> s] : s \in {<<2083, 0>>, <<Bad>>, Bad}})
    \cup In("tls", {[verify |-> "none"], [cert_fingerprint_sha256 |-> ""],
                    [cert_fingerprint_sha256 |-> "junk"]})
    \cup In("tunnel", {[local_port |-> 0], [remote_port |-> 65536]})
    \cup In("wireguard", {[mtu |-> m] : m \in {575, 1501, Bad}})
    \cup In("routing", {[bypass_ips |-> <<"ip", Bad>>], [bypass_ips |-> Bad]})
    \cup Also("network", {[hostile_mode |-> m] : m \in {"", "x"}})
    \cup Also("reconnect", {[max_attempts |-> n] : n \in {0, Bad}})
    \cup Also("reconnect", {[delays_seconds |-> s] : s \in {<<1, 0>>, Bad}})
    \cup Also("fallback", {[strategies |-> s] :
            s \in {Bad, <<Bad>>, <<Rung(<<>>), Rung([port |-> 1])>>, <<Rung([id |-> "blank"])>>,
                   <<Rung([pin_mode |-> "ca"])>>, <<Rung([port |-> 65536])>>}})
    \cup Also("meta", {[expires_at |-> 9]})
    \cup Also("schema_version", {0, 4, Bad})
    \cup {"enrollment" :> e @@ Keyless :
            e \in {[token |-> "tok"], [token |-> "tok", url |-> "ftp"], Bad}}
MCDocuments == MCAccepted \cup MCRefused

MCPatches ==
    {[name |-> "other"], [name |-> "blank"], [mtu |-> 575], [mtu |-> TextNumber],
     [dns |-> <<"cidr">>],
     [dns |-> <<>>, client_address |-> "ip"], [client_address |-> "host"],
     [bypass_ips |-> <<"host", "cidr">>], [bypass_ips |-> <<"junk">>],
     [reconnect_max_attempts |-> 101], [reconnect_max_attempts |-> 100, hostile_mode |-> ""],
     [reconnect_max_attempts |-> TextNumber], [reconnect_delays |-> <<>>],
     [reconnect_delays |-> <<TextNumber, 4>>, hostile_mode |-> "On"],
     [hostile_mode |-> "x"], [mtu |-> 576, name |-> "n"]}

MCStored == {ToDict(Parse(Whole)), ToDict(ApplyPatch(Parse(Whole), [mtu |-> 576, name |-> "n"]))}
\* Callers are interchangeable.
MCSymmetry == Permutations(Callers)
MCOwnKeys == <<"own1", "own2", "own3">>
=============================================================================

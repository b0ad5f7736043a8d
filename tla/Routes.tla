------------------------------- MODULE Routes -------------------------------
(***************************************************************************)
(* The AllowedIPs of the tunnel: everything but the addresses that have to *)
(* stay outside it (src/client/outwarp/wireguard.py), on addresses of      *)
(* Width bits.  A network is its first address and its prefix length.  An  *)
(* entry of the bypass list is the sequence of networks it stands for: one *)
(* for an address or a CIDR, several or none for a host name.              *)
(***************************************************************************)
EXTENDS Integers, SequencesExt

CONSTANTS Width, Entries, MaxEntries

ASSUME RoutesAssumption == Width \in Nat /\ MaxEntries \in Nat

VARIABLES bypass,    \* the entries, in the order the code walks them
          allowed    \* what _allowed_ips_excluding returned: [ok, nets]
routesVars == <<bypass, allowed>>

Size(n) == 2 ^ (Width - n.len)
Block(n) == n.addr .. n.addr + Size(n) - 1
All == [addr |-> 0, len |-> 0]
Overlaps(a, b) == Block(a) \cap Block(b) # {}

\* The network of this length around an address, and its other half.
Around(addr, len) == [addr |-> addr - (addr % (2 ^ (Width - len))), len |-> len]
OtherHalf(n) == [n EXCEPT !.addr = IF (@ \div Size(n)) % 2 = 0 THEN @ + Size(n) ELSE @ - Size(n)]

\* ipaddress.address_exclude: what is left of net without a network inside it;
\* ValueError when the network is not inside.
Excludable(net, excl) == Block(excl) \subseteq Block(net)
AddressExclude(net, excl) ==
    {OtherHalf(Around(excl.addr, len)) : len \in net.len + 1 .. excl.len}

\* _resolve_bypass_networks: each network once; a name that does not resolve
\* is skipped.
Resolve(entries) ==
    FoldLeft(LAMBDA nets, n : IF Contains(nets, n) THEN nets ELSE Append(nets, n),
             <<>>, FlattenSeq(entries))

\* Variant: a network that was cut is kept beside its pieces.
ExcludeOneKeeps(found, excl) ==
    LET hit == {net \in found.nets : Overlaps(excl, net)}
    IN  IF ~found.ok \/ \E net \in hit : ~Excludable(net, excl)
        THEN [ok |-> FALSE, nets |-> {}]
        ELSE [ok |-> TRUE, nets |-> found.nets \cup UNION {AddressExclude(net, excl) : net \in hit}]
ExcludeOne(found, excl) ==
    LET hit == {net \in found.nets : Overlaps(excl, net)}
    IN  IF ~found.ok \/ \E net \in hit : ~Excludable(net, excl)
        THEN [ok |-> FALSE, nets |-> {}]
        ELSE [ok |-> TRUE, nets |-> (found.nets \ hit)
                                     \cup UNION {AddressExclude(net, excl) : net \in hit}]
AllowedExcluding(entries) == FoldLeft(ExcludeOne, [ok |-> TRUE, nets |-> {All}], Resolve(entries))

\* build_wg_conf: the profile's list, the endpoint, then the fronts of the
\* ladder; the list grows entry by entry.
RoutesInit == bypass = <<>> /\ allowed = [ok |-> TRUE, nets |-> {All}]
BuildWgConf(entry) ==
    /\ Len(bypass) < MaxEntries
    /\ bypass' = Append(bypass, entry)
    /\ allowed' = AllowedExcluding(bypass')
RoutesNext == \E entry \in Entries : BuildWgConf(entry)

-----------------------------------------------------------------------------
(* Properties *)

Outside == UNION {Block(n) : n \in ToSet(FlattenSeq(bypass))}
\* A network that is wider than one named before it.
Widens == \E i, j \in DOMAIN Resolve(bypass) :
            i < j /\ Block(Resolve(bypass)[i]) \subseteq Block(Resolve(bypass)[j])

\* Whatever the order, the overlaps and the repetitions of the list, the tunnel
\* takes exactly the addresses outside it, each by one network.  Lists with a
\* network wider than one before it are EveryListHasRoutes.
AllowedIsComplement ==
    ~Widens =>
        /\ allowed.ok
        /\ UNION {Block(n) : n \in allowed.nets} = Block(All) \ Outside
        /\ \A a, b \in allowed.nets : Overlaps(a, b) => a = b

-----------------------------------------------------------------------------
(* What the repository says and the code does not do (README, Deviations). *)

\* wireguard.py:118: "0.0.0.0/0 minus bypass_ips", for every list the profile
\* editor accepts.
EveryListHasRoutes == allowed.ok
=============================================================================

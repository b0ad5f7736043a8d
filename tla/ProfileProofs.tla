--------------------------- MODULE ProfileProofs ---------------------------
(***************************************************************************)
(* Proofs about the profile: what config.py writes it reads again, what    *)
(* Api keeps on the disk through imports, edits, enrolments and crashes    *)
(* (ProfileStore), and which way of the profile the client finds (Ladder). *)
(***************************************************************************)
EXTENDS ProfileStore, Ladder, FiniteSetTheorems, NaturalsInduction, SequenceTheorems, TLAPS

LEMMA SmallestExists ==
    ASSUME NEW S \in SUBSET Nat, S # {}
    PROVE  Min(S) \in S /\ \A b \in S : Min(S) <= b
<1>1. PICK a \in S : \A b \in S : <<b, a>> \notin OpToRel(<, Nat)
  BY NatLessThanWellFounded, WFMin
<1>2. ASSUME NEW b \in S PROVE a <= b
  <2>1. ~(b < a)
    BY <1>1 DEF OpToRel
  <2>2. QED
    BY <2>1
<1>3. QED
  BY <1>2 DEF Min

-----------------------------------------------------------------------------
(* Keep: the positions it reads *)

Rank(K, i) == Cardinality({j \in K : j <= i})
Position(K, n) == CHOOSE i \in K : Rank(K, i) = n

LEMMA PositionsFinite ==
    ASSUME NEW N \in Nat, NEW K \in SUBSET (1..N), NEW i
    PROVE  /\ IsFiniteSet(K) /\ Cardinality(K) \in Nat
           /\ IsFiniteSet({j \in K : j <= i})
           /\ Rank(K, i) \in Nat /\ Rank(K, i) <= Cardinality(K)
           /\ \A j \in K : j \in Nat /\ 1 <= j /\ j <= N
<1>1. IsFiniteSet(1..N)
  BY FS_Interval
<1>2. IsFiniteSet(K)
  BY <1>1, FS_Subset
<1>3. {j \in K : j <= i} \in SUBSET K
  OBVIOUS
<1>4. IsFiniteSet({j \in K : j <= i}) /\ Cardinality({j \in K : j <= i}) <= Cardinality(K)
  BY <1>2, <1>3, FS_Subset
<1>5. Cardinality(K) \in Nat /\ Cardinality({j \in K : j <= i}) \in Nat
  BY <1>2, <1>4, FS_CardinalityType
<1>6. \A j \in K : j \in 1..N
  OBVIOUS
<1>7. QED
  BY <1>2, <1>4, <1>5, <1>6 DEF Rank

LEMMA RankStep ==
    ASSUME NEW N \in Nat, NEW K \in SUBSET (1..N), NEW i \in Nat
    PROVE  /\ Rank(K, i) \in Nat
           /\ i + 1 \in K => Rank(K, i + 1) = Rank(K, i) + 1
           /\ i + 1 \notin K => Rank(K, i + 1) = Rank(K, i)
           /\ Rank(K, 0) = 0
           /\ Rank(K, N) = Cardinality(K)
<1> DEFINE upto == {j \in K : j <= i}
<1>1. \A j \in K : j \in Nat /\ 1 <= j /\ j <= N
  BY PositionsFinite
<1>2. IsFiniteSet(upto) /\ Rank(K, i) \in Nat
  BY PositionsFinite
<1>3. ASSUME i + 1 \in K PROVE Rank(K, i + 1) = Rank(K, i) + 1
  <2>1. {j \in K : j <= i + 1} = upto \cup {i + 1}
    <3>1. \A j \in K : j <= i + 1 <=> (j <= i \/ j = i + 1)
      BY <1>1
    <3>2. QED
      BY <1>3, <3>1
  <2>2. i + 1 \notin upto
    OBVIOUS
  <2>3. QED
    BY <2>1, <2>2, <1>2, FS_AddElement DEF Rank
<1>4. ASSUME i + 1 \notin K PROVE Rank(K, i + 1) = Rank(K, i)
  <2>1. {j \in K : j <= i + 1} = upto
    <3>1. \A j \in K : j <= i + 1 <=> j <= i
      BY <1>1, <1>4
    <3>2. QED
      BY <3>1
  <2>2. QED
    BY <2>1 DEF Rank
<1>5. {j \in K : j <= 0} = {} /\ {j \in K : j <= N} = K
  <2>1. \A j \in K : ~(j <= 0) /\ j <= N
    BY <1>1
  <2>2. QED
    BY <2>1
<1>6. QED
  BY <1>2, <1>3, <1>4, <1>5, FS_EmptySet DEF Rank

LEMMA RankGrows ==
    ASSUME NEW N \in Nat, NEW K \in SUBSET (1..N), NEW i \in K, NEW k \in K, i < k
    PROVE  Rank(K, i) < Rank(K, k)
<1> DEFINE low == {j \in K : j <= i}  high == {j \in K : j <= k}
<1> \A j \in K : j \in Nat
  BY PositionsFinite
<1>1. IsFiniteSet(high)
  BY PositionsFinite
<1>2. low \in SUBSET high /\ k \in high /\ k \notin low
  <2>1. (\A j \in K : j <= i => j <= k) /\ k <= k /\ ~(k <= i)
    OBVIOUS
  <2>2. QED
    BY <2>1
<1>3. Cardinality(low) <= Cardinality(high) /\ Cardinality(low) # Cardinality(high)
  BY <1>1, <1>2, FS_Subset
<1>4. Cardinality(low) \in Nat /\ Cardinality(high) \in Nat
  BY <1>1, <1>2, FS_Subset, FS_CardinalityType
<1>5. QED
  BY <1>3, <1>4 DEF Rank

LEMMA RankReached ==
    ASSUME NEW N \in Nat, NEW K \in SUBSET (1..N), NEW n \in 1..Cardinality(K)
    PROVE  \E i \in K : Rank(K, i) = n
<1> DEFINE reach == {i \in Nat : Rank(K, i) >= n}
<1>1. Cardinality(K) \in Nat
  BY RankStep
<1>2. N \in reach
  BY <1>1, RankStep
<1>3. Min(reach) \in reach /\ \A i \in reach : Min(reach) <= i
  BY <1>2, SmallestExists
<1> DEFINE m == Min(reach)
<1>4. m \in Nat /\ Rank(K, m) >= n /\ \A i \in Nat : i < m => ~(Rank(K, i) >= n)
  BY <1>3
<1> HIDE DEF m, reach
<1>5. m # 0
  BY <1>1, <1>4, RankStep
<1>6. PICK i \in Nat : m = i + 1
  BY <1>4, <1>5
<1>7. Rank(K, i) < n /\ Rank(K, i) \in Nat
  BY <1>1, <1>4, <1>6, RankStep
<1>8. m \in K /\ Rank(K, m) = n
  <2>1. m \in K => Rank(K, m) = Rank(K, i) + 1
    BY <1>6, RankStep
  <2>2. m \notin K => Rank(K, m) = Rank(K, i)
    BY <1>6, RankStep
  <2>3. QED
    BY <1>1, <1>4, <1>7, <2>1, <2>2
<1>9. QED
  BY <1>8

\* A comprehension lists the items at the positions it keeps, each once.
LEMMA KeepProperties ==
    ASSUME NEW N \in Nat, NEW K \in SUBSET (1..N)
    PROVE  /\ Cardinality(K) \in Nat
           /\ \A n \in 1..Cardinality(K) : Position(K, n) \in K
           /\ \A k \in K : \E n \in 1..Cardinality(K) : Position(K, n) = k
           /\ \A m, n \in 1..Cardinality(K) : Position(K, m) = Position(K, n) => m = n
<1>1. Cardinality(K) \in Nat
  BY RankStep
<1>3. ASSUME NEW n \in 1..Cardinality(K)
      PROVE  Position(K, n) \in K /\ Rank(K, Position(K, n)) = n
  BY RankReached DEF Position
<1>4. ASSUME NEW k \in K PROVE \E n \in 1..Cardinality(K) : Position(K, n) = k
  <2>1. Rank(K, k) \in Nat /\ Rank(K, k) >= 1 /\ Rank(K, k) <= Cardinality(K)
    <3>1. Rank(K, k) \in Nat /\ Rank(K, k) <= Cardinality(K)
      BY PositionsFinite
    <3>2. IsFiniteSet({j \in K : j <= k}) /\ k \in Nat
      BY PositionsFinite
    <3>3. {j \in K : j <= k} # {}
      BY <3>2
    <3>4. Rank(K, k) # 0
      BY <3>2, <3>3, FS_EmptySet DEF Rank
    <3>5. QED
      BY <3>1, <3>4
  <2>2. Rank(K, k) \in 1..Cardinality(K)
    BY <2>1, <1>1
  <2>3. Position(K, Rank(K, k)) \in K /\ Rank(K, Position(K, Rank(K, k))) = Rank(K, k)
    BY <1>3, <2>2
  <2>4. Position(K, Rank(K, k)) = k
    <3> DEFINE p == Position(K, Rank(K, k))
    <3> HIDE DEF p
    <3>1. p \in K /\ Rank(K, p) = Rank(K, k) /\ p \in Nat /\ k \in Nat
      BY <2>3, PositionsFinite DEF p
    <3>2. ~(p < k) /\ ~(k < p)
      <4>1. p < k => Rank(K, p) < Rank(K, k)
        BY <3>1, RankGrows
      <4>2. k < p => Rank(K, k) < Rank(K, p)
        BY <3>1, RankGrows
      <4>3. QED
        BY <4>1, <4>2, <3>1, <2>1
    <3>3. QED
      BY <3>1, <3>2 DEF p
  <2>5. QED
    BY <2>2, <2>4
<1>5. QED
  BY <1>1, <1>3, <1>4

LEMMA KeepAt ==
    ASSUME NEW s, NEW K
    PROVE  Keep(s, K) = [n \in 1..Cardinality(K) |-> s[Position(K, n)]]
BY DEF Keep, Position, Rank

\* A comprehension that keeps everything copies the list.
LEMMA KeepAll ==
    ASSUME NEW s, NEW N \in Nat, DOMAIN s = 1..N, s = [n \in DOMAIN s |-> s[n]]
    PROVE  Keep(s, 1..N) = s
<1> DEFINE K == 1..N
<1>1. Cardinality(K) = N
  BY FS_Interval
<1>2. ASSUME NEW n \in 1..N PROVE Rank(K, n) = n
  <2>1. {j \in K : j <= n} = 1..n
    OBVIOUS
  <2>2. QED
    <3>1. Cardinality(1..n) = n
      BY FS_Interval
    <3>2. QED
      BY <2>1, <3>1 DEF Rank
<1>3. ASSUME NEW n \in 1..N PROVE Position(K, n) = n
  BY <1>2, RankReached, <1>1 DEF Position
<1>4. Keep(s, K) = [n \in 1..N |-> s[Position(K, n)]]
  BY <1>1, KeepAt
<1>5. Keep(s, K) = [n \in 1..N |-> s[n]]
  BY <1>3, <1>4
<1>6. QED
  BY <1>5

LEMMA KeepType ==
    ASSUME NEW S, NEW s \in Seq(S), NEW K \in SUBSET (DOMAIN s)
    PROVE  /\ Keep(s, K) \in Seq(S)
           /\ Len(Keep(s, K)) = Cardinality(K)
           /\ DOMAIN Keep(s, K) = 1..Cardinality(K)
           /\ \A n \in DOMAIN Keep(s, K) : \E k \in K : Keep(s, K)[n] = s[k]
           /\ \A k \in K : \E n \in DOMAIN Keep(s, K) : Keep(s, K)[n] = s[k]
<1>1. DOMAIN s = 1..Len(s) /\ Len(s) \in Nat /\ K \in SUBSET (1..Len(s))
  OBVIOUS
<1>2. Cardinality(K) \in Nat /\ \A n \in 1..Cardinality(K) : Position(K, n) \in K
  BY <1>1, KeepProperties
<1>3. \A k \in K : \E n \in 1..Cardinality(K) : Position(K, n) = k
  BY <1>1, KeepProperties
<1> Keep(s, K) = [n \in 1..Cardinality(K) |-> s[Position(K, n)]]
  BY KeepAt
<1>4. Keep(s, K) \in [1..Cardinality(K) -> S]
  BY <1>1, <1>2
<1>5. Keep(s, K) \in Seq(S) /\ DOMAIN Keep(s, K) = 1..Cardinality(K)
      /\ Len(Keep(s, K)) = Cardinality(K)
  BY <1>2, <1>4
<1>6. \A n \in 1..Cardinality(K) : \E k \in K : Keep(s, K)[n] = s[k]
  BY <1>2
<1>7. \A k \in K : \E n \in 1..Cardinality(K) : Keep(s, K)[n] = s[k]
  BY <1>3
<1>8. QED
  BY <1>5, <1>6, <1>7

\* A list of alternatives is its own list of alternatives.
LEMMA AlternativesOnce ==
    ASSUME NEW port, NEW more \in Seq(Ports)
    PROVE  /\ Alternatives(port, more) \in Seq(Ports)
           /\ Alternatives(port, Alternatives(port, more)) = Alternatives(port, more)
<1> DEFINE K(s) == {i \in DOMAIN s : s[i] \notin {port} \cup {s[j] : j \in 1..(i - 1)}}
           kept == Keep(more, K(more))
           c == Cardinality(K(more))
           pos(n) == Position(K(more), n)
<1>1. Alternatives(port, more) = kept
  BY DEF Alternatives
<1>2. DOMAIN more = 1..Len(more) /\ Len(more) \in Nat
  OBVIOUS
<1>3. K(more) \in SUBSET (DOMAIN more) /\ K(more) \in SUBSET (1..Len(more))
  BY <1>2
<1>4. kept \in Seq(Ports) /\ DOMAIN kept = 1..c
  BY <1>3, KeepType
<1>5. /\ c \in Nat
      /\ kept = [n \in 1..c |-> more[pos(n)]]
      /\ \A n \in 1..c : pos(n) \in K(more)
      /\ \A m, n \in 1..c : pos(m) = pos(n) => m = n
  <2>1. kept = [n \in 1..c |-> more[pos(n)]]
    BY KeepAt
  <2> HIDE DEF K
  <2>2. QED
    BY <1>2, <1>3, <2>1, KeepProperties
<1> HIDE DEF pos, c, kept
<1>6. ASSUME NEW n \in 1..c PROVE kept[n] # port
  <2>1. pos(n) \in K(more)
    BY <1>5
  <2>2. QED
    BY <2>1, <1>5
<1>7. ASSUME NEW m \in 1..c, NEW n \in 1..c, kept[m] = kept[n] PROVE m = n
  <2>1. pos(m) \in K(more) /\ pos(n) \in K(more) /\ more[pos(m)] = more[pos(n)]
    BY <1>5, <1>7
  <2>2. pos(m) \in Nat /\ pos(n) \in Nat
    BY <2>1, <1>2
  <2>3. ~(pos(m) < pos(n)) /\ ~(pos(n) < pos(m))
    <3>1. pos(m) \in 1..Len(more) /\ pos(n) \in 1..Len(more)
      BY <2>1, <1>2
    <3>2. QED
      BY <2>1, <3>1
  <2>4. pos(m) = pos(n)
    BY <2>2, <2>3
  <2>5. QED
    BY <2>4, <1>5
<1>8. K(kept) = 1..c
  <2>1. K(kept) \in SUBSET (1..c)
    BY <1>4
  <2>2. ASSUME NEW n \in 1..c PROVE n \in K(kept)
    <3>1. ASSUME NEW j \in 1..(n - 1) PROVE kept[j] # kept[n]
      BY <1>5, <1>7
    <3>2. QED
      BY <1>4, <1>6, <3>1
  <2>3. QED
    BY <2>1, <2>2
<1>9. Alternatives(port, kept) = Keep(kept, 1..c)
  BY <1>8 DEF Alternatives
<1>10. Keep(kept, 1..c) = kept
  <2>1. kept = [n \in DOMAIN kept |-> kept[n]]
    BY <1>4
  <2>2. QED
    BY <1>4, <1>5, <2>1, KeepAll
<1>11. QED
  BY <1>1, <1>4, <1>9, <1>10

\* A value that is not a JSON object.
NoObject(x) == \A f : x # [k \in DOMAIN f |-> f[k]]

-----------------------------------------------------------------------------
(* What is written of a section is read again *)

LEMMA GetDefault ==
    ASSUME NEW d, NEW k, NEW v
    PROVE  /\ k \in DOMAIN d => Get(d, k, v) = d[k]
           /\ k \notin DOMAIN d => Get(d, k, v) = v
BY DEF Get

LEMMA BriefKeys ==
    ASSUME NEW d, NEW df
    PROVE  /\ NoObject(Bad) => Brief(d, df) # Bad
           /\ DOMAIN Brief(d, df) \subseteq DOMAIN d
           /\ \A k \in DOMAIN d : k \notin DOMAIN df =>
                k \in DOMAIN Brief(d, df) /\ Brief(d, df)[k] = d[k]
           /\ \A k \in DOMAIN d : k \in DOMAIN df => Get(Brief(d, df), k, df[k]) = d[k]
           /\ \A k \in DOMAIN d : \A v : k \notin DOMAIN df => Get(Brief(d, df), k, v) = d[k]
<1> DEFINE S == {k \in DOMAIN d : k \in DOMAIN df => d[k] # df[k]}
           w == Brief(d, df)
<1>1. w = [k \in S |-> d[k]]
  BY DEF Brief, Restrict
<1>2. DOMAIN w = S /\ \A k \in S : w[k] = d[k]
  BY <1>1
<1>3. w = [k \in DOMAIN w |-> w[k]]
  BY <1>1
<1>4. NoObject(Bad) => w # Bad
  BY <1>3 DEF NoObject
<1>5. QED
  BY <1>2, <1>4 DEF Get

LEMMA ObjectsAreNotBad ==
    ASSUME NoObject(Bad)
    PROVE  /\ \A S : \A s \in Seq(S) : s # Bad
           /\ <<>> # Bad
           /\ \A k, v : Get(<<>>, k, v) = v
<1>1. ASSUME NEW S, NEW s \in Seq(S) PROVE s # Bad
  <2>1. s = [k \in DOMAIN s |-> s[k]]
    OBVIOUS
  <2>2. QED
    BY <2>1 DEF NoObject
<1>2. <<>> \in Seq({}) /\ DOMAIN <<>> = {}
  OBVIOUS
<1>3. QED
  BY <1>1, <1>2 DEF Get

ServerAsWritten(s) == Brief(s, [fallback_ports |-> <<>>])
TlsAsWritten(t) == Brief(t, [verify |-> "pin", spki_sha256 |-> Empty])
WireguardAsWritten(w) == Brief(w, [preshared_key |-> Empty])

LEMMA ServerAgain ==
    ASSUME NoObject(Bad), NEW d, ServerOk(d)
    PROVE  /\ ServerOk(ServerAsWritten(ParseServer(d)))
           /\ ParseServer(ServerAsWritten(ParseServer(d))) = ParseServer(d)
<1> DEFINE df == [fallback_ports |-> <<>>]
           s == ParseServer(d)
           w == ServerAsWritten(s)
           alts == Alternatives(d.port, Get(d, "fallback_ports", <<>>))
<1>1. d.port \in Ports /\ Get(d, "fallback_ports", <<>>) \in Seq(Ports)
  BY DEF ServerOk
<1>2. alts \in Seq(Ports) /\ Alternatives(d.port, alts) = alts
  BY <1>1, AlternativesOnce
<1> HIDE DEF alts
<1>3. s = [endpoint |-> d.endpoint, port |-> d.port,
           http_upgrade_path_prefix |-> d.http_upgrade_path_prefix, fallback_ports |-> alts]
  BY DEF ParseServer, alts
<1>4. /\ w # Bad
      /\ "endpoint" \in DOMAIN w /\ w.endpoint = d.endpoint
      /\ "port" \in DOMAIN w /\ w.port = d.port
      /\ "http_upgrade_path_prefix" \in DOMAIN w
      /\ w.http_upgrade_path_prefix = d.http_upgrade_path_prefix
      /\ Get(w, "fallback_ports", <<>>) = alts
  <2>1. /\ DOMAIN s = {"endpoint", "port", "http_upgrade_path_prefix", "fallback_ports"}
        /\ DOMAIN df = {"fallback_ports"} /\ df["fallback_ports"] = <<>>
    BY <1>3
  <2> HIDE DEF df, s
  <2>2. w = Brief(s, df)
    BY DEF ServerAsWritten, df
  <2> HIDE DEF w
  <2>3. w # Bad /\ Get(w, "fallback_ports", <<>>) = s["fallback_ports"]
    BY <2>1, <2>2, BriefKeys
  <2>4. \A k \in {"endpoint", "port", "http_upgrade_path_prefix"} :
            k \in DOMAIN w /\ w[k] = s[k]
    BY <2>1, <2>2, BriefKeys
  <2>5. QED
    BY <2>3, <2>4, <1>3
<1> HIDE DEF w
<1>5. alts # Bad
  BY <1>2, ObjectsAreNotBad
<1>6. ServerOk(w)
  BY <1>1, <1>2, <1>4, <1>5 DEF ServerOk
<1>7. ParseServer(w) = s
  BY <1>2, <1>3, <1>4 DEF ParseServer
<1>8. QED
  BY <1>6, <1>7 DEF w

LEMMA LowerOfLowered ==
    ASSUME NEW w \in {"pin", "ca", "on", "auto", "off", "ws", "wss", "tolerate", "none", Empty}
    PROVE  Lower(w) = w
<1>1. DOMAIN Cased = {"Pin", "CA", "On", "Auto", "WS", "None", "blank"}
  BY DEF Cased
<1>2. Empty \notin {"Pin", "CA", "On", "Auto", "WS", "None", "blank"}
  BY Zenon DEF Empty
<1>3. w \notin DOMAIN Cased
  BY <1>1, <1>2
<1>4. QED
  BY <1>3 DEF Lower, Get

LEMMA TlsAgain ==
    ASSUME NoObject(Bad), NEW d, TlsOk(d)
    PROVE  /\ TlsOk(TlsAsWritten(ParseTls(d)))
           /\ ParseTls(TlsAsWritten(ParseTls(d))) = ParseTls(d)
<1> DEFINE df == [verify |-> "pin", spki_sha256 |-> Empty]
           s == ParseTls(d)
           w == TlsAsWritten(s)
           fp == Get(d, "cert_fingerprint_sha256", Empty)
           spki == Get(d, "spki_sha256", Empty)
<1>1. /\ TlsMode(d) \in {"pin", "ca"}
      /\ fp \in Fingerprints \cup {Empty} /\ spki \in Fingerprints \cup {Empty}
      /\ TlsMode(d) = "pin" => fp # Empty \/ spki # Empty
  BY DEF TlsOk
<1> HIDE DEF fp, spki
<1>2. s = [cert_fingerprint_sha256 |-> fp, verify |-> TlsMode(d), spki_sha256 |-> spki]
  BY DEF ParseTls, fp, spki
<1>3. /\ w # Bad
      /\ Get(w, "cert_fingerprint_sha256", Empty) = fp
      /\ Get(w, "verify", "pin") = TlsMode(d)
      /\ Get(w, "spki_sha256", Empty) = spki
  <2>1. /\ DOMAIN s = {"cert_fingerprint_sha256", "verify", "spki_sha256"}
        /\ DOMAIN df = {"verify", "spki_sha256"}
        /\ df["verify"] = "pin" /\ df["spki_sha256"] = Empty
    BY <1>2
  <2> HIDE DEF df, s
  <2>2. w = Brief(s, df)
    BY DEF TlsAsWritten, df
  <2> HIDE DEF w
  <2>3. w # Bad /\ Get(w, "verify", "pin") = s["verify"]
        /\ Get(w, "spki_sha256", Empty) = s["spki_sha256"]
    BY <2>1, <2>2, BriefKeys
  <2>4. Get(w, "cert_fingerprint_sha256", Empty) = s["cert_fingerprint_sha256"]
    BY <2>1, <2>2, BriefKeys
  <2>5. QED
    BY <2>3, <2>4, <1>2
<1> HIDE DEF w
<1>4. TlsMode(w) = TlsMode(d)
  BY <1>1, <1>3, LowerOfLowered DEF TlsMode
<1>5. TlsOk(w)
  BY <1>1, <1>3, <1>4 DEF TlsOk
<1>6. ParseTls(w) = s
  BY <1>2, <1>3, <1>4 DEF ParseTls
<1>7. QED
  BY <1>5, <1>6 DEF w

LEMMA TunnelAgain ==
    ASSUME NoObject(Bad), NEW d, TunnelOk(d)
    PROVE  TunnelOk(ParseTunnel(d)) /\ ParseTunnel(ParseTunnel(d)) = ParseTunnel(d)
<1> DEFINE s == ParseTunnel(d)
<1>1. s = [local_port |-> d.local_port, remote_host |-> d.remote_host,
           remote_port |-> d.remote_port]
  BY DEF ParseTunnel
<1>2. s = [k \in DOMAIN s |-> s[k]]
  BY <1>1
<1>3. s # Bad
  BY <1>2 DEF NoObject
<1> HIDE DEF s
<1>4. /\ DOMAIN s = {"local_port", "remote_host", "remote_port"}
      /\ s.local_port = d.local_port /\ s.remote_host = d.remote_host
      /\ s.remote_port = d.remote_port
  BY <1>1
<1>5. TunnelOk(s)
  BY <1>3, <1>4 DEF TunnelOk
<1>6. ParseTunnel(s) = s
  BY <1>1, <1>4 DEF ParseTunnel
<1>7. QED
  BY <1>5, <1>6 DEF s

\* What the sections of a configuration are, once parsed, edited or enrolled.
WireguardGood(w) ==
    /\ w = [tunnel_name |-> w.tunnel_name, client_address |-> w.client_address,
            client_private_key |-> w.client_private_key,
            server_public_key |-> w.server_public_key,
            dns |-> w.dns, mtu |-> w.mtu, preshared_key |-> w.preshared_key]
    /\ w.mtu \in Mtus /\ (w.mtu # TextNumber \/ w.mtu = 1400)
RoutingGood(r) == r = [bypass_ips |-> r.bypass_ips] /\ RoutingOk(r)
ReconnectGood(r) ==
    /\ r = [max_attempts |-> r.max_attempts, delays_seconds |-> r.delays_seconds]
    /\ Positive(r.max_attempts) /\ ToInt(r.max_attempts) = r.max_attempts
    /\ r.delays_seconds # Bad /\ Ints(r.delays_seconds) = r.delays_seconds
    /\ \A i \in DOMAIN r.delays_seconds : Positive(r.delays_seconds[i])
NetworkGood(n) == n = [hostile_mode |-> n.hostile_mode] /\ n.hostile_mode \in HostileModes
StrategyGood(s) ==
    /\ s = [id |-> s.id, endpoint |-> s.endpoint, port |-> s.port, scheme |-> s.scheme,
            host_header |-> s.host_header, path_prefix |-> s.path_prefix, proxy |-> s.proxy,
            pin_mode |-> s.pin_mode, force_hostile |-> s.force_hostile,
            bypass_ips |-> s.bypass_ips]
    /\ s.id # Empty /\ s.id # "blank"
    /\ s.port \in {0} \cup Ports /\ s.scheme \in {"wss", "ws"}
    /\ s.pin_mode \in {"pin", "tolerate", "none"} /\ s.bypass_ips # Bad
FallbackGood(fb) ==
    /\ fb = [enabled |-> fb.enabled, strategies |-> fb.strategies]
    /\ fb.strategies = [i \in DOMAIN fb.strategies |-> fb.strategies[i]]
    /\ \A i \in DOMAIN fb.strategies : StrategyGood(fb.strategies[i])
    /\ \A i, j \in DOMAIN fb.strategies : fb.strategies[i].id = fb.strategies[j].id => i = j
EnrollmentGood(e) ==
    /\ e = [token |-> e.token, url |-> e.url]
    /\ e.token # Empty => e.url # Empty
    /\ e.url \in {Empty, "https", "http"}

LEMMA WireguardParsed ==
    ASSUME NEW d, NEW enrolling, WireguardOk(d, enrolling)
    PROVE  WireguardGood(ParseWireguard(d))
<1> DEFINE w == ParseWireguard(d)
<1>1. w.mtu = ToInt(Get(d, "mtu", 1380)) /\ w.mtu \in Mtus
  BY DEF ParseWireguard, WireguardOk
<1>2. w.mtu # TextNumber \/ w.mtu = 1400
  BY <1>1 DEF ToInt
<1>3. QED
  BY <1>1, <1>2 DEF ParseWireguard, WireguardGood

LEMMA WireguardAgain ==
    ASSUME NoObject(Bad), NEW s, WireguardGood(s)
    PROVE  /\ WireguardOk(WireguardAsWritten(s), FALSE)
           /\ ParseWireguard(WireguardAsWritten(s)) = s
           /\ WireguardAsWritten(s).client_private_key = s.client_private_key
<1> DEFINE df == [preshared_key |-> Empty]
           w == WireguardAsWritten(s)
           kept == {"tunnel_name", "client_address", "client_private_key", "server_public_key",
                    "dns", "mtu"}
<1>1. /\ DOMAIN s = kept \cup {"preshared_key"}
      /\ DOMAIN df = {"preshared_key"} /\ df["preshared_key"] = Empty
  BY DEF WireguardGood
<1> HIDE DEF df
<1>2. w = Brief(s, df)
  BY DEF WireguardAsWritten, df
<1> HIDE DEF w
<1>3. w # Bad /\ Get(w, "preshared_key", Empty) = s["preshared_key"]
  BY <1>1, <1>2, BriefKeys
<1>4. \A k \in kept : k \in DOMAIN w /\ w[k] = s[k]
  BY <1>1, <1>2, BriefKeys
<1>5. \A k \in kept : \A v : Get(w, k, v) = s[k]
  BY <1>4, GetDefault
<1>6. ToInt(s.mtu) = s.mtu /\ s.mtu \in Mtus
  BY DEF WireguardGood, ToInt, Mtus
<1>7. Get(w, "mtu", 1380) = s.mtu
  BY <1>5
<1>8. WireguardOk(w, FALSE)
  BY <1>3, <1>4, <1>6, <1>7 DEF WireguardOk
<1>9. ParseWireguard(w) =
        [tunnel_name |-> s.tunnel_name, client_address |-> s.client_address,
         client_private_key |-> s.client_private_key,
         server_public_key |-> s.server_public_key,
         dns |-> s.dns, mtu |-> s.mtu, preshared_key |-> s.preshared_key]
  BY <1>3, <1>4, <1>5, <1>6 DEF ParseWireguard
<1>10. ParseWireguard(w) = s
  BY <1>9 DEF WireguardGood
<1>11. QED
  BY <1>4, <1>8, <1>10 DEF w

LEMMA RecordIsNotBad ==
    ASSUME NoObject(Bad), NEW r, r = [k \in DOMAIN r |-> r[k]] PROVE r # Bad
BY DEF NoObject

LEMMA RoutingAgain ==
    ASSUME NoObject(Bad), NEW d, RoutingOk(d)
    PROVE  RoutingGood([bypass_ips |-> d.bypass_ips])
<1> DEFINE r == [bypass_ips |-> d.bypass_ips]
<1>1. r # Bad
  BY RecordIsNotBad
<1>2. QED
  BY <1>1 DEF RoutingGood, RoutingOk

LEMMA NetworkAgain ==
    ASSUME NoObject(Bad)
    PROVE  /\ \A d : NetworkOk(d) => NetworkGood(ParseNetwork(d))
           /\ \A n : NetworkGood(n) => NetworkOk(n) /\ ParseNetwork(n) = n
<1>1. ASSUME NEW d, NetworkOk(d) PROVE NetworkGood(ParseNetwork(d))
  BY <1>1 DEF NetworkOk, ParseNetwork, NetworkGood, HostileModes
<1>2. ASSUME NEW n, NetworkGood(n) PROVE NetworkOk(n) /\ ParseNetwork(n) = n
  <2>1. n = [hostile_mode |-> n.hostile_mode] /\ n.hostile_mode \in HostileModes
    BY <1>2 DEF NetworkGood
  <2>2. n = [k \in DOMAIN n |-> n[k]] /\ "hostile_mode" \in DOMAIN n
    BY <2>1
  <2>3. n # Bad
    BY <2>2, RecordIsNotBad
  <2>4. Get(n, "hostile_mode", "auto") = n.hostile_mode
    BY <2>2, GetDefault
  <2>5. Lower(n.hostile_mode) = n.hostile_mode
    BY <2>1, LowerOfLowered DEF HostileModes
  <2>6. QED
    BY <2>1, <2>3, <2>4, <2>5 DEF NetworkOk, ParseNetwork
<1>3. QED
  BY <1>1, <1>2

\* What int() made a number of is a number to it.
LEMMA IntsAgain ==
    ASSUME NEW s
    PROVE  /\ \A v : ToInt(ToInt(v)) = ToInt(v)
           /\ Ints(Ints(s)) = Ints(s)
           /\ DOMAIN Ints(s) = DOMAIN s
           /\ \A i \in DOMAIN s : Ints(s)[i] = ToInt(s[i])
           /\ NoObject(Bad) => Ints(s) # Bad
<1>1. ASSUME NEW v PROVE ToInt(ToInt(v)) = ToInt(v)
  <2>1. CASE v = TextNumber
    <3>1. ToInt(v) = 1400
      BY <2>1, Zenon DEF ToInt
    <3>2. ToInt(1400) = 1400
      BY TextAssumption DEF ToInt
    <3>3. QED
      BY <3>1, <3>2
  <2>2. CASE v # TextNumber
    <3>1. ToInt(v) = v
      BY <2>2, Zenon DEF ToInt
    <3>2. QED
      BY <3>1, Zenon
  <2>3. QED
    BY <2>1, <2>2
<1>2. DOMAIN Ints(s) = DOMAIN s /\ \A i \in DOMAIN s : Ints(s)[i] = ToInt(s[i])
  BY DEF Ints
<1>3. Ints(Ints(s)) = Ints(s)
  BY <1>1, <1>2, Zenon DEF Ints
<1>4. Ints(s) = [i \in DOMAIN Ints(s) |-> Ints(s)[i]]
  BY <1>2, Zenon DEF Ints
<1>5. NoObject(Bad) => Ints(s) # Bad
  BY <1>4, Zenon DEF NoObject
<1>6. QED
  BY <1>1, <1>2, <1>3, <1>5

LEMMA ReconnectAgain ==
    ASSUME NoObject(Bad)
    PROVE  /\ \A d : ReconnectOk(d) => ReconnectGood(ParseReconnect(d))
           /\ \A r : ReconnectGood(r) => ReconnectOk(r) /\ ParseReconnect(r) = r
<1>1. ASSUME NEW d, ReconnectOk(d) PROVE ReconnectGood(ParseReconnect(d))
  <2>1. CASE d = Bad
    <3>1. DefaultDelays \in Seq(Nat) /\ \A i \in DOMAIN DefaultDelays : DefaultDelays[i] >= 1
      BY DEF DefaultDelays
    <3>2. DefaultDelays # Bad
      BY <3>1, ObjectsAreNotBad
    <3>3. \A v \in Nat : v >= 1 => Positive(v)
      BY BadAssumption DEF Positive
    <3>4. \A i \in DOMAIN DefaultDelays : Positive(DefaultDelays[i])
      BY <3>1, <3>3
    <3>5. ParseReconnect(d) = [max_attempts |-> 5, delays_seconds |-> DefaultDelays]
      BY <2>1 DEF ParseReconnect
    <3>6. \A v \in Nat : ToInt(v) = v
      BY TextAssumption DEF ToInt
    <3>7. Ints(DefaultDelays) = DefaultDelays
      <4>1. \A i \in DOMAIN DefaultDelays : ToInt(DefaultDelays[i]) = DefaultDelays[i]
        BY <3>1, <3>6
      <4>2. DefaultDelays = [i \in DOMAIN DefaultDelays |-> DefaultDelays[i]]
        BY <3>1
      <4> HIDE DEF DefaultDelays
      <4>3. QED
        BY <4>1, <4>2, Zenon DEF Ints
    <3> HIDE DEF DefaultDelays
    <3>8. QED
      BY <3>2, <3>3, <3>4, <3>5, <3>6, <3>7 DEF ReconnectGood
  <2>2. CASE d # Bad
    <3> DEFINE max == Get(d, "max_attempts", 5)
               delays == Get(d, "delays_seconds", DefaultDelays)
    <3>1. ParseReconnect(d) = [max_attempts |-> ToInt(max), delays_seconds |-> Ints(delays)]
      BY <2>2 DEF ParseReconnect
    <3>2. Positive(ToInt(max)) /\ \A i \in DOMAIN delays : Positive(ToInt(delays[i]))
      BY <1>1, <2>2 DEF ReconnectOk
    <3> HIDE DEF max, delays
    <3>3. /\ Ints(delays) # Bad /\ Ints(Ints(delays)) = Ints(delays)
          /\ ToInt(ToInt(max)) = ToInt(max)
          /\ \A i \in DOMAIN Ints(delays) : Positive(Ints(delays)[i])
      BY <3>2, IntsAgain
    <3>4. QED
      BY <3>1, <3>2, <3>3 DEF ReconnectGood
  <2>3. QED
    BY <2>1, <2>2
<1>2. ASSUME NEW r, ReconnectGood(r) PROVE ReconnectOk(r) /\ ParseReconnect(r) = r
  <2>1. r = [max_attempts |-> r.max_attempts, delays_seconds |-> r.delays_seconds]
    BY <1>2 DEF ReconnectGood
  <2>2. r = [k \in DOMAIN r |-> r[k]] /\ "max_attempts" \in DOMAIN r
        /\ "delays_seconds" \in DOMAIN r
    BY <2>1
  <2>3. r # Bad
    BY <2>2, RecordIsNotBad
  <2>4. Get(r, "max_attempts", 5) = r.max_attempts
        /\ Get(r, "delays_seconds", DefaultDelays) = r.delays_seconds
    BY <2>2, GetDefault
  <2>5. /\ ToInt(r.max_attempts) = r.max_attempts /\ Ints(r.delays_seconds) = r.delays_seconds
        /\ Positive(r.max_attempts) /\ r.delays_seconds # Bad
        /\ \A i \in DOMAIN r.delays_seconds : Positive(r.delays_seconds[i])
    BY <1>2 DEF ReconnectGood
  <2>6. \A i \in DOMAIN r.delays_seconds : Positive(ToInt(r.delays_seconds[i]))
    BY <2>5, IntsAgain
  <2>7. ReconnectOk(r)
    BY <2>3, <2>4, <2>5, <2>6, Zenon DEF ReconnectOk
  <2>8. ParseReconnect(r) = r
    BY <2>1, <2>3, <2>4, <2>5, Zenon DEF ParseReconnect
  <2>9. QED
    BY <2>7, <2>8
<1>3. QED
  BY <1>1, <1>2

LEMMA StrategyParsed ==
    ASSUME NEW e, StrategyOk(e)
    PROVE  StrategyGood(ParseStrategy(e)) /\ ParseStrategy(e).id = StrategyId(e)
<1>1. StrategyId(e) # "blank" /\ StrategyId(e) # Empty
  <2>1. DOMAIN [blank |-> Empty] = {"blank"} /\ [blank |-> Empty]["blank"] = Empty
    OBVIOUS
  <2>2. Empty # "blank"
    BY Zenon DEF Empty
  <2>3. QED
    BY <2>1, <2>2 DEF StrategyId, StrategyOk, Get
<1>2. QED
  BY <1>1 DEF StrategyOk, ParseStrategy, StrategyGood

LEMMA StrategyAgain ==
    ASSUME NoObject(Bad), NEW s, StrategyGood(s)
    PROVE  /\ StrategyOk(StrategyToDict(s)) /\ StrategyId(StrategyToDict(s)) = s.id
           /\ ParseStrategy(StrategyToDict(s)) = s
<1> DEFINE w == StrategyToDict(s)
           df == StrategyDefaults
           keys == {"endpoint", "port", "scheme", "host_header", "path_prefix", "proxy",
                    "pin_mode", "force_hostile", "bypass_ips"}
<1>1. DOMAIN s = keys \cup {"id"}
  BY DEF StrategyGood
<1>2. /\ DOMAIN df = keys
      /\ df.endpoint = Empty /\ df.port = 0 /\ df.scheme = "wss" /\ df.host_header = Empty
      /\ df.path_prefix = Empty /\ df.proxy = Empty /\ df.pin_mode = "pin"
      /\ df.force_hostile = FALSE /\ df.bypass_ips = <<>>
  BY DEF StrategyDefaults
<1> HIDE DEF df
<1>3. w = Brief(s, df)
  BY DEF StrategyToDict, df
<1> HIDE DEF w
<1>4. w # Bad /\ Get(w, "id", Empty) = s["id"]
  BY <1>1, <1>2, <1>3, BriefKeys
<1>5. \A k \in keys : Get(w, k, df[k]) = s[k]
  BY <1>1, <1>2, <1>3, BriefKeys
<1> HIDE DEF keys
<1>6. /\ Get(w, "endpoint", Empty) = s.endpoint /\ Get(w, "port", 0) = s.port
      /\ Get(w, "scheme", "wss") = s.scheme /\ Get(w, "host_header", Empty) = s.host_header
      /\ Get(w, "path_prefix", Empty) = s.path_prefix /\ Get(w, "proxy", Empty) = s.proxy
      /\ Get(w, "pin_mode", "pin") = s.pin_mode
      /\ Get(w, "force_hostile", FALSE) = s.force_hostile
      /\ Get(w, "bypass_ips", <<>>) = s.bypass_ips
  BY <1>2, <1>5 DEF keys
<1>7. StrategyId(w) = s.id
  <2>1. DOMAIN [blank |-> Empty] = {"blank"}
    OBVIOUS
  <2>2. s.id # "blank"
    BY DEF StrategyGood
  <2>3. QED
    BY <1>4, <2>1, <2>2 DEF StrategyId, Get
<1>8. /\ s.scheme \in {"wss", "ws"} /\ s.pin_mode \in {"pin", "tolerate", "none"}
      /\ s.id # Empty /\ s.port \in {0} \cup Ports /\ s.bypass_ips # Bad
  BY DEF StrategyGood
<1>9. OrElse(Lower(s.scheme), "wss") = s.scheme /\ OrElse(Lower(s.pin_mode), "pin") = s.pin_mode
  <2>1. Lower(s.scheme) = s.scheme /\ Lower(s.pin_mode) = s.pin_mode
    BY <1>8, LowerOfLowered
  <2>2. "wss" # Empty /\ "ws" # Empty /\ "pin" # Empty /\ "tolerate" # Empty /\ "none" # Empty
    BY Zenon DEF Empty
  <2>3. QED
    BY <1>8, <2>1, <2>2 DEF OrElse
<1>10. StrategyOk(w)
  BY <1>4, <1>6, <1>7, <1>8, <1>9 DEF StrategyOk
<1>11. ParseStrategy(w) =
        [id |-> s.id, endpoint |-> s.endpoint, port |-> s.port, scheme |-> s.scheme,
         host_header |-> s.host_header, path_prefix |-> s.path_prefix, proxy |-> s.proxy,
         pin_mode |-> s.pin_mode, force_hostile |-> s.force_hostile,
         bypass_ips |-> s.bypass_ips]
  BY <1>6, <1>7, <1>9 DEF ParseStrategy
<1>12. ParseStrategy(w) = s
  BY <1>11 DEF StrategyGood
<1>13. QED
  BY <1>7, <1>10, <1>12 DEF w

LEMMA FallbackParsed ==
    ASSUME NoObject(Bad), NEW d, FallbackOk(d)
    PROVE  FallbackGood(ParseFallback(d))
<1>1. CASE d = Bad
  <2>1. ParseFallback(d) = [enabled |-> TRUE, strategies |-> <<>>]
    BY <1>1 DEF ParseFallback
  <2>2. <<>> = [i \in DOMAIN <<>> |-> <<>>[i]] /\ DOMAIN <<>> = {}
    OBVIOUS
  <2>3. QED
    BY <2>1, <2>2 DEF FallbackGood
<1>2. CASE d # Bad
  <2> DEFINE entries == Get(d, "strategies", <<>>)
             parsed == [i \in DOMAIN entries |-> ParseStrategy(entries[i])]
  <2>1. /\ \A i \in DOMAIN entries : StrategyOk(entries[i])
        /\ \A i, j \in DOMAIN entries : StrategyId(entries[i]) = StrategyId(entries[j]) => i = j
    BY <1>2, FallbackOk(d) DEF FallbackOk
  <2>2. ParseFallback(d) = [enabled |-> Get(d, "enabled", TRUE), strategies |-> parsed]
    BY <1>2 DEF ParseFallback
  <2> HIDE DEF entries
  <2>3. DOMAIN parsed = DOMAIN entries /\ parsed = [i \in DOMAIN parsed |-> parsed[i]]
    OBVIOUS
  <2>4. \A i \in DOMAIN parsed : /\ parsed[i] = ParseStrategy(entries[i])
                                 /\ StrategyOk(entries[i])
    BY <2>1
  <2> HIDE DEF parsed
  <2>5. \A i \in DOMAIN parsed : StrategyGood(parsed[i])
                                 /\ parsed[i].id = StrategyId(entries[i])
    BY <2>4, StrategyParsed
  <2>6. \A i, j \in DOMAIN parsed : parsed[i].id = parsed[j].id => i = j
    BY <2>1, <2>3, <2>5
  <2>7. QED
    BY <2>2, <2>3, <2>5, <2>6 DEF FallbackGood
<1>3. QED
  BY <1>1, <1>2

LEMMA FallbackAgain ==
    ASSUME NoObject(Bad), NEW fb, FallbackGood(fb)
    PROVE  /\ FallbackOk(FallbackToDict(fb)) /\ ParseFallback(FallbackToDict(fb)) = fb
           /\ FallbackToDict(fb) = [enabled |-> TRUE] =>
                FallbackOk(<<>>) /\ ParseFallback(<<>>) = fb
<1> DEFINE written == [i \in DOMAIN fb.strategies |-> StrategyToDict(fb.strategies[i])]
           whole == [enabled |-> fb.enabled, strategies |-> written]
           df == [strategies |-> <<>>]
           w == FallbackToDict(fb)
<1>1. DOMAIN written = DOMAIN fb.strategies
      /\ written = [i \in DOMAIN written |-> written[i]]
  OBVIOUS
<1>2. \A i \in DOMAIN written : /\ StrategyOk(written[i])
                                /\ StrategyId(written[i]) = fb.strategies[i].id
                                /\ ParseStrategy(written[i]) = fb.strategies[i]
  BY StrategyAgain DEF FallbackGood
<1>3. w = Brief(whole, df)
  BY DEF FallbackToDict
<1> HIDE DEF written
<1>4. /\ DOMAIN whole = {"enabled", "strategies"} /\ whole["enabled"] = fb.enabled
      /\ whole["strategies"] = written
      /\ DOMAIN df = {"strategies"} /\ df["strategies"] = <<>>
  OBVIOUS
<1> HIDE DEF whole, df, w
<1>5. w # Bad /\ Get(w, "strategies", <<>>) = written
  BY <1>3, <1>4, BriefKeys
<1>6. Get(w, "enabled", TRUE) = fb.enabled
  <2>1. "enabled" \in DOMAIN w /\ w["enabled"] = fb.enabled
    BY <1>3, <1>4, BriefKeys
  <2>2. QED
    BY <2>1 DEF Get
<1>7. written # Bad
  BY <1>1, RecordIsNotBad
<1>8. \A i, j \in DOMAIN written : StrategyId(written[i]) = StrategyId(written[j]) => i = j
  BY <1>1, <1>2 DEF FallbackGood
<1>9. FallbackOk(w)
  BY <1>2, <1>5, <1>7, <1>8 DEF FallbackOk
<1>10. [i \in DOMAIN written |-> ParseStrategy(written[i])] = fb.strategies
  <2>1. fb.strategies = [i \in DOMAIN fb.strategies |-> fb.strategies[i]]
    BY DEF FallbackGood
  <2>2. QED
    BY <1>1, <1>2, <2>1
<1>11. ParseFallback(w) = fb
  <2>1. ParseFallback(w) = [enabled |-> fb.enabled, strategies |-> fb.strategies]
    BY <1>5, <1>6, <1>10 DEF ParseFallback
  <2>2. QED
    BY <2>1 DEF FallbackGood
<1>12. ASSUME w = [enabled |-> TRUE] PROVE FallbackOk(<<>>) /\ ParseFallback(<<>>) = fb
  <2>1. DOMAIN w = {"enabled"} /\ w.enabled = TRUE
    BY <1>12
  <2>2. Get(w, "strategies", <<>>) = <<>> /\ Get(w, "enabled", TRUE) = TRUE
    BY <2>1 DEF Get
  <2>3. Get(<<>>, "strategies", <<>>) = <<>> /\ Get(<<>>, "enabled", TRUE) = TRUE
        /\ <<>> # Bad
    BY ObjectsAreNotBad
  <2>4. ParseFallback(<<>>) = ParseFallback(w)
    BY <1>5, <2>2, <2>3 DEF ParseFallback
  <2>5. FallbackOk(<<>>)
    BY <1>5, <1>9, <2>2, <2>3 DEF FallbackOk
  <2>6. QED
    BY <1>11, <2>4, <2>5
<1>13. QED
  BY <1>9, <1>11, <1>12 DEF w

LEMMA EnrollmentAgain ==
    ASSUME NoObject(Bad)
    PROVE  /\ \A d : EnrollmentOk(d) => EnrollmentGood(ParseEnrollment(d))
           /\ \A e : EnrollmentGood(e) =>
                /\ EnrollmentOk(e) /\ ParseEnrollment(e) = e
                /\ e = [token |-> Empty, url |-> Empty] =>
                    EnrollmentOk(<<>>) /\ ParseEnrollment(<<>>) = e
<1>1. ASSUME NEW d, EnrollmentOk(d) PROVE EnrollmentGood(ParseEnrollment(d))
  BY <1>1 DEF EnrollmentOk, ParseEnrollment, EnrollmentGood
<1>2. ASSUME NEW e, EnrollmentGood(e)
      PROVE  /\ EnrollmentOk(e) /\ ParseEnrollment(e) = e
             /\ e = [token |-> Empty, url |-> Empty] =>
                    EnrollmentOk(<<>>) /\ ParseEnrollment(<<>>) = e
  <2>1. e = [token |-> e.token, url |-> e.url]
    BY <1>2 DEF EnrollmentGood
  <2>2. e = [k \in DOMAIN e |-> e[k]] /\ "token" \in DOMAIN e /\ "url" \in DOMAIN e
    BY <2>1
  <2>3. e # Bad /\ Get(e, "token", Empty) = e.token /\ Get(e, "url", Empty) = e.url
    BY <2>2, RecordIsNotBad, GetDefault
  <2>4. EnrollmentOk(e) /\ ParseEnrollment(e) = e
    BY <1>2, <2>1, <2>3 DEF EnrollmentOk, ParseEnrollment, EnrollmentGood
  <2>5. /\ <<>> # Bad /\ Get(<<>>, "token", Empty) = Empty /\ Get(<<>>, "url", Empty) = Empty
    BY ObjectsAreNotBad
  <2>6. EnrollmentOk(<<>>) /\ ParseEnrollment(<<>>) = [token |-> Empty, url |-> Empty]
    BY <2>5 DEF EnrollmentOk, ParseEnrollment
  <2>7. QED
    BY <2>4, <2>6
<1>3. QED
  BY <1>1, <1>2

-----------------------------------------------------------------------------
(* The document *)

\* A configuration the client may hold: of a profile it parsed, edited or enrolled.
Good(cfg) ==
    /\ cfg = [schema_version |-> cfg.schema_version, server |-> cfg.server, tls |-> cfg.tls,
              tunnel |-> cfg.tunnel, wireguard |-> cfg.wireguard, routing |-> cfg.routing,
              reconnect |-> cfg.reconnect, network |-> cfg.network,
              fallback |-> cfg.fallback, enrollment |-> cfg.enrollment,
              name |-> cfg.name, expires_at |-> cfg.expires_at]
    /\ cfg.schema_version \in 1..SchemaVersion
    /\ ServerOk(ServerAsWritten(cfg.server))
    /\ ParseServer(ServerAsWritten(cfg.server)) = cfg.server
    /\ TlsOk(TlsAsWritten(cfg.tls)) /\ ParseTls(TlsAsWritten(cfg.tls)) = cfg.tls
    /\ TunnelOk(cfg.tunnel) /\ ParseTunnel(cfg.tunnel) = cfg.tunnel
    /\ WireguardGood(cfg.wireguard) /\ RoutingGood(cfg.routing)
    /\ ReconnectGood(cfg.reconnect) /\ NetworkGood(cfg.network)
    /\ FallbackGood(cfg.fallback) /\ EnrollmentGood(cfg.enrollment)

\* What _parse accepts it makes into a good configuration.
LEMMA ParsedIsGood ==
    ASSUME NoObject(Bad), NEW raw, Accepts(raw)
    PROVE  Good(Parse(raw))
<1> DEFINE cfg == Parse(raw)
<1>1. /\ ServerOk(raw.server) /\ TlsOk(raw.tls) /\ TunnelOk(raw.tunnel) /\ RoutingOk(raw.routing)
      /\ \E enrolling \in BOOLEAN : WireguardOk(raw.wireguard, enrolling)
      /\ ReconnectOk(Section(raw, "reconnect")) /\ NetworkOk(Section(raw, "network"))
      /\ FallbackOk(Section(raw, "fallback")) /\ EnrollmentOk(Section(raw, "enrollment"))
      /\ Get(raw, "schema_version", 1) \in 1..SchemaVersion
  BY DEF Accepts
<1>2. /\ cfg.server = ParseServer(raw.server) /\ cfg.tls = ParseTls(raw.tls)
      /\ cfg.tunnel = ParseTunnel(raw.tunnel) /\ cfg.wireguard = ParseWireguard(raw.wireguard)
      /\ cfg.routing = [bypass_ips |-> raw.routing.bypass_ips]
      /\ cfg.reconnect = ParseReconnect(Section(raw, "reconnect"))
      /\ cfg.network = ParseNetwork(Section(raw, "network"))
      /\ cfg.fallback = ParseFallback(Section(raw, "fallback"))
      /\ cfg.enrollment = ParseEnrollment(Section(raw, "enrollment"))
      /\ cfg.schema_version = Get(raw, "schema_version", 1)
  BY DEF Parse
<1>3. cfg = [schema_version |-> cfg.schema_version, server |-> cfg.server, tls |-> cfg.tls,
             tunnel |-> cfg.tunnel, wireguard |-> cfg.wireguard, routing |-> cfg.routing,
             reconnect |-> cfg.reconnect, network |-> cfg.network,
             fallback |-> cfg.fallback, enrollment |-> cfg.enrollment,
             name |-> cfg.name, expires_at |-> cfg.expires_at]
  BY DEF Parse
<1> HIDE DEF cfg
<1>4. /\ ServerOk(ServerAsWritten(cfg.server))
      /\ ParseServer(ServerAsWritten(cfg.server)) = cfg.server
  BY <1>1, <1>2, ServerAgain
<1>5. TlsOk(TlsAsWritten(cfg.tls)) /\ ParseTls(TlsAsWritten(cfg.tls)) = cfg.tls
  BY <1>1, <1>2, TlsAgain
<1>6. TunnelOk(cfg.tunnel) /\ ParseTunnel(cfg.tunnel) = cfg.tunnel
  BY <1>1, <1>2, TunnelAgain
<1>7. WireguardGood(cfg.wireguard) /\ RoutingGood(cfg.routing)
  BY <1>1, <1>2, WireguardParsed, RoutingAgain
<1>8. ReconnectGood(cfg.reconnect) /\ NetworkGood(cfg.network)
  BY <1>1, <1>2, ReconnectAgain, NetworkAgain
<1>9. FallbackGood(cfg.fallback) /\ EnrollmentGood(cfg.enrollment)
  BY <1>1, <1>2, FallbackParsed, EnrollmentAgain
<1>10. Good(cfg)
  BY <1>1, <1>2, <1>3, <1>4, <1>5, <1>6, <1>7, <1>8, <1>9 DEF Good
<1>11. QED
  BY <1>10 DEF cfg

\* What _to_dict writes of a good configuration, _parse accepts and reads as
\* that configuration.
LEMMA WrittenIsRead ==
    ASSUME NoObject(Bad), NEW cfg, Good(cfg)
    PROVE  /\ Accepts(ToDict(cfg)) /\ Parse(ToDict(cfg)) = cfg
           /\ "wireguard" \in DOMAIN ToDict(cfg)
           /\ ToDict(cfg).wireguard.client_private_key = cfg.wireguard.client_private_key
<1> DEFINE whole ==
               [schema_version |-> cfg.schema_version, name |-> cfg.name,
                server |-> ServerAsWritten(cfg.server), tls |-> TlsAsWritten(cfg.tls),
                tunnel |-> cfg.tunnel, wireguard |-> WireguardAsWritten(cfg.wireguard),
                routing |-> cfg.routing, reconnect |-> cfg.reconnect,
                network |-> cfg.network, fallback |-> FallbackToDict(cfg.fallback),
                enrollment |-> cfg.enrollment, meta |-> [expires_at |-> cfg.expires_at]]
           nothing == [token |-> Empty, url |-> Empty]
           df == [fallback |-> [enabled |-> TRUE], enrollment |-> nothing,
                  meta |-> [expires_at |-> 0]]
           always == {"schema_version", "name", "server", "tls", "tunnel", "wireguard",
                      "routing", "reconnect", "network"}
           w == ToDict(cfg)
<1>1. w = Brief(whole, df)
  BY DEF ToDict, ServerAsWritten, TlsAsWritten, WireguardAsWritten
<1>2. /\ DOMAIN whole = always \cup {"fallback", "enrollment", "meta"}
      /\ whole["schema_version"] = cfg.schema_version /\ whole["name"] = cfg.name
      /\ whole["server"] = ServerAsWritten(cfg.server)
      /\ whole["tls"] = TlsAsWritten(cfg.tls) /\ whole["tunnel"] = cfg.tunnel
      /\ whole["wireguard"] = WireguardAsWritten(cfg.wireguard)
      /\ whole["routing"] = cfg.routing /\ whole["reconnect"] = cfg.reconnect
      /\ whole["network"] = cfg.network
      /\ whole["fallback"] = FallbackToDict(cfg.fallback)
      /\ whole["enrollment"] = cfg.enrollment
      /\ whole["meta"] = [expires_at |-> cfg.expires_at]
  OBVIOUS
<1>3. /\ DOMAIN df = {"fallback", "enrollment", "meta"}
      /\ df["fallback"] = [enabled |-> TRUE] /\ df["enrollment"] = nothing
      /\ df["meta"] = [expires_at |-> 0]
  OBVIOUS
<1> HIDE DEF whole, df, w, nothing
<1>4. w # Bad
  BY <1>1, BriefKeys
<1>5. \A k \in always : k \in DOMAIN w /\ w[k] = whole[k]
  BY <1>1, <1>2, <1>3, BriefKeys
<1>6. \A k \in {"fallback", "enrollment", "meta"} : Get(w, k, df[k]) = whole[k]
  BY <1>1, <1>2, <1>3, BriefKeys
<1>7. \A k \in {"fallback", "enrollment", "meta"} :
        Section(w, k) = whole[k] \/ (Section(w, k) = <<>> /\ whole[k] = df[k])
  BY <1>6 DEF Section, Get
<1>8. /\ Get(w, "schema_version", 1) = cfg.schema_version /\ Get(w, "name", Empty) = cfg.name
      /\ w.server = ServerAsWritten(cfg.server) /\ w.tls = TlsAsWritten(cfg.tls)
      /\ w.tunnel = cfg.tunnel /\ w.wireguard = WireguardAsWritten(cfg.wireguard)
      /\ w.routing = cfg.routing
      /\ Section(w, "reconnect") = cfg.reconnect /\ Section(w, "network") = cfg.network
  BY <1>2, <1>5 DEF Get, Section
<1>9. FallbackOk(Section(w, "fallback")) /\ ParseFallback(Section(w, "fallback")) = cfg.fallback
  <2>1. FallbackGood(cfg.fallback)
    BY DEF Good
  <2>2. \/ Section(w, "fallback") = FallbackToDict(cfg.fallback)
        \/ /\ Section(w, "fallback") = <<>>
           /\ FallbackToDict(cfg.fallback) = [enabled |-> TRUE]
    BY <1>2, <1>3, <1>7
  <2>3. QED
    BY <2>1, <2>2, FallbackAgain
<1>10. /\ EnrollmentOk(Section(w, "enrollment"))
       /\ ParseEnrollment(Section(w, "enrollment")) = cfg.enrollment
  <2>1. EnrollmentGood(cfg.enrollment)
    BY DEF Good
  <2>2. \/ Section(w, "enrollment") = cfg.enrollment
        \/ Section(w, "enrollment") = <<>> /\ cfg.enrollment = [token |-> Empty, url |-> Empty]
    BY <1>2, <1>3, <1>7 DEF nothing
  <2>3. QED
    BY <2>1, <2>2, EnrollmentAgain
<1>11. (IF Section(w, "meta") = Bad THEN 0 ELSE Get(Section(w, "meta"), "expires_at", 0))
          = cfg.expires_at
  <2>1. [expires_at |-> cfg.expires_at] # Bad
    BY RecordIsNotBad
  <2>2. Get([expires_at |-> cfg.expires_at], "expires_at", 0) = cfg.expires_at
    BY GetDefault
  <2>3. CASE Section(w, "meta") = [expires_at |-> cfg.expires_at]
    BY <2>1, <2>2, <2>3
  <2>4. CASE Section(w, "meta") = <<>> /\ [expires_at |-> cfg.expires_at] = [expires_at |-> 0]
    <3>1. cfg.expires_at = 0
      <4>1. [expires_at |-> cfg.expires_at].expires_at = [expires_at |-> 0].expires_at
        BY <2>4
      <4>2. QED
        BY <4>1
    <3>2. <<>> # Bad /\ Get(<<>>, "expires_at", 0) = 0
      BY ObjectsAreNotBad
    <3>3. QED
      BY <2>4, <3>1, <3>2
  <2>5. QED
    BY <1>2, <1>3, <1>7, <2>3, <2>4
<1>12. /\ \A enrolling \in BOOLEAN : WireguardOk(w.wireguard, enrolling)
       /\ ParseWireguard(w.wireguard) = cfg.wireguard
       /\ w.wireguard.client_private_key = cfg.wireguard.client_private_key
  BY <1>8, WireguardAgain DEF Good, WireguardOk
<1>13. /\ RoutingOk(w.routing) /\ [bypass_ips |-> w.routing.bypass_ips] = cfg.routing
  BY <1>8 DEF Good, RoutingGood
<1>14. /\ ReconnectOk(cfg.reconnect) /\ ParseReconnect(cfg.reconnect) = cfg.reconnect
       /\ NetworkOk(cfg.network) /\ ParseNetwork(cfg.network) = cfg.network
  BY ReconnectAgain, NetworkAgain DEF Good
<1>15. Accepts(w)
  <2>1. Required \subseteq DOMAIN w
    BY <1>5 DEF Required
  <2>2. Get(w, "schema_version", 1) \in 1..SchemaVersion
    BY <1>8 DEF Good
  <2>3. ServerOk(w.server) /\ TlsOk(w.tls) /\ TunnelOk(w.tunnel)
    BY <1>8 DEF Good
  <2>4. WireguardOk(w.wireguard, Get(Section(w, "enrollment"), "token", Empty) # Empty)
    BY <1>12
  <2>5. QED
    BY <1>4, <1>8, <1>9, <1>10, <1>13, <1>14, <2>1, <2>2, <2>3, <2>4 DEF Accepts
<1>16. Parse(w) = cfg
  <2>1. /\ ParseServer(w.server) = cfg.server /\ ParseTls(w.tls) = cfg.tls
        /\ ParseTunnel(w.tunnel) = cfg.tunnel
    BY <1>8 DEF Good
  <2>2. Parse(w) = [schema_version |-> cfg.schema_version, server |-> cfg.server,
                    tls |-> cfg.tls, tunnel |-> cfg.tunnel, wireguard |-> cfg.wireguard,
                    routing |-> cfg.routing, reconnect |-> cfg.reconnect,
                    network |-> cfg.network, fallback |-> cfg.fallback,
                    enrollment |-> cfg.enrollment, name |-> cfg.name,
                    expires_at |-> cfg.expires_at]
    BY <1>8, <1>9, <1>10, <1>11, <1>12, <1>13, <1>14, <2>1 DEF Parse
  <2>3. QED
    BY <2>2 DEF Good
<1>17. QED
  BY <1>5, <1>12, <1>15, <1>16 DEF w

\* config.py writes what it can read: what _parse made of an accepted document,
\* _to_dict writes as a document that _parse accepts and reads as the same
\* profile, for every document, the defaults that are left out and the
\* clamping and lowering of _parse included.
THEOREM RoundTrip ==
    ASSUME NoObject(Bad), NEW raw, Accepts(raw)
    PROVE  Accepts(ToDict(Parse(raw))) /\ Parse(ToDict(Parse(raw))) = Parse(raw)
BY ParsedIsGood, WrittenIsRead

-----------------------------------------------------------------------------
(* The inductive invariant of the store *)

\* Written by the client: _parse reads it as what _to_dict was given.
Written(d) == Accepts(d) /\ Good(Parse(d)) /\ d = ToDict(Parse(d))

Own(key) == key \in ToSet(OwnKeys)
Known(key) == Own(key) => server.spent /\ server.key = key
KeyOf(cfg) == cfg.wireguard.client_private_key
StoreSteps == {"enroll", "answer", "save_import", "snapshot_import", "snapshot_edit", "save_edit",
               "swap", "forget", "delete"}

FilesInv ==
    /\ file # None => Written(file) /\ Known(KeyOf(Parse(file)))
    /\ original # None => Written(original) /\ Known(KeyOf(Parse(original)))
    /\ manager # None => Good(manager) /\ Known(KeyOf(manager))

\* What a call carries is good, whichever calls crossed.
Sound(r) ==
    r = Idle \/
      /\ r = [step |-> r.step, cfg |-> r.cfg, old |-> r.old, key |-> r.key]
      /\ r.step \in StoreSteps /\ up
      /\ Good(r.cfg) /\ Known(KeyOf(r.cfg))
      /\ r.old # None => Good(r.old) /\ Known(KeyOf(r.old))
      /\ r.step = "snapshot_edit" => r.old # None
      /\ r.step = "answer" => server.spent /\ server.key = r.key
      /\ r.step = "save_edit" /\ ~torn => original # None
CallInv == call = [c \in Callers |-> call[c]] /\ \A c \in Callers : Sound(call[c])

\* While none crossed, the call under way, if there is one, finds what it left.
SoleInv ==
    ~crossed =>
        /\ \A c, d \in Callers : c = d \/ call[c].step = "idle" \/ call[d].step = "idle"
        /\ \A c \in Callers :
            /\ call[c].step \in {"snapshot_import", "swap"} =>
                file # None /\ Parse(file) = call[c].cfg
            /\ call[c].step = "snapshot_edit" => call[c].old = manager
            /\ call[c].step = "delete" => manager = None /\ imported = None
RunningInv ==
    /\ up /\ ~torn /\ ~crossed
    /\ \A c \in Callers : call[c].step \notin {"snapshot_import", "swap", "delete"}
    => IF manager = None THEN file = None ELSE file # None /\ manager = Parse(file)
ImportedInv ==
    ~torn /\ ~crossed /\ imported # None =>
        /\ original # None => Parse(original) = imported
        /\ original = None /\ (\A c \in Callers : call[c].step # "snapshot_import")
           => file # None /\ Parse(file) = imported
StoreInv == FilesInv /\ CallInv /\ SoleInv /\ RunningInv /\ ImportedInv

LEMMA WrittenIsStored ==
    ASSUME NoObject(Bad), NoObject(None), NEW cfg, Good(cfg)
    PROVE  /\ Written(ToDict(cfg)) /\ Parse(ToDict(cfg)) = cfg
           /\ ToDict(cfg) # None /\ cfg # None
<1>1. Accepts(ToDict(cfg)) /\ Parse(ToDict(cfg)) = cfg
  BY WrittenIsRead
<1>2. ToDict(cfg) = [k \in DOMAIN ToDict(cfg) |-> ToDict(cfg)[k]]
  BY DEF ToDict, Brief, Restrict
<1>3. cfg = [k \in DOMAIN cfg |-> cfg[k]]
  BY DEF Good
<1>4. QED
  BY <1>1, <1>2, <1>3 DEF Written, NoObject

LEMMA WireguardKeyed ==
    ASSUME NEW s, WireguardGood(s), NEW key, NEW r, r = [s EXCEPT !.client_private_key = key]
    PROVE  r = [tunnel_name |-> s.tunnel_name, client_address |-> s.client_address,
            client_private_key |-> key, server_public_key |-> s.server_public_key,
            dns |-> s.dns, mtu |-> s.mtu, preshared_key |-> s.preshared_key]
<1> DEFINE keys == {"tunnel_name", "client_address", "client_private_key",
                    "server_public_key", "dns", "mtu", "preshared_key"}
<1>1. DOMAIN s = keys
  BY DEF WireguardGood
<1>2. DOMAIN r = keys /\ r = [k \in DOMAIN r |-> r[k]]
  BY <1>1
<1>3. /\ r.mtu = s.mtu /\ r.dns = s.dns /\ r.client_address = s.client_address
      /\ r.tunnel_name = s.tunnel_name /\ r.client_private_key = key
      /\ r.server_public_key = s.server_public_key /\ r.preshared_key = s.preshared_key
  BY <1>1
<1>4. QED
  BY <1>2, <1>3, Zenon

LEMMA ReconnectEdited ==
    ASSUME NEW s, ReconnectGood(s), NEW a, NEW b
    PROVE  [s EXCEPT !.max_attempts = a, !.delays_seconds = b] =
                [max_attempts |-> a, delays_seconds |-> b]
<1> DEFINE r == [s EXCEPT !.max_attempts = a, !.delays_seconds = b]
<1>1. DOMAIN s = {"max_attempts", "delays_seconds"}
  BY DEF ReconnectGood
<1>2. /\ DOMAIN r = {"max_attempts", "delays_seconds"} /\ r = [k \in DOMAIN r |-> r[k]]
      /\ r.max_attempts = a /\ r.delays_seconds = b
  BY <1>1
<1> HIDE DEF r
<1>3. r = [max_attempts |-> a, delays_seconds |-> b]
  BY <1>2
<1>4. QED
  BY <1>3 DEF r

\* An edit the editor let through leaves a good configuration, and the key alone.
LEMMA PatchedIsGood ==
    ASSUME NoObject(Bad), NEW cfg, Good(cfg), NEW patch, PatchOk(patch)
    PROVE  Good(ApplyPatch(cfg, patch)) /\ KeyOf(ApplyPatch(cfg, patch)) = KeyOf(cfg)
<1> DEFINE E(k, old) == Get(patch, k, old)
           w == [cfg.wireguard EXCEPT !.mtu = ToInt(E("mtu", @)), !.dns = E("dns", @),
                                      !.client_address = E("client_address", @)]
           r == [cfg.routing EXCEPT !.bypass_ips = E("bypass_ips", @)]
           c == [cfg.reconnect EXCEPT !.max_attempts = ToInt(E("reconnect_max_attempts", @)),
                                      !.delays_seconds = Ints(E("reconnect_delays", @))]
           n == [cfg.network EXCEPT
                    !.hostile_mode = OrElse(Lower(E("hostile_mode", @)), "auto")]
           new == ApplyPatch(cfg, patch)
<1>1. new = [cfg EXCEPT !.name = E("name", @), !.wireguard = w, !.routing = r,
                        !.reconnect = c, !.network = n]
  BY DEF ApplyPatch
<1>2. new = [schema_version |-> cfg.schema_version, server |-> cfg.server, tls |-> cfg.tls,
             tunnel |-> cfg.tunnel, wireguard |-> w, routing |-> r, reconnect |-> c,
             network |-> n, fallback |-> cfg.fallback, enrollment |-> cfg.enrollment,
             name |-> E("name", cfg.name), expires_at |-> cfg.expires_at]
  BY <1>1, ZenonT(60) DEF Good
<1>3. WireguardGood(w) /\ w.client_private_key = cfg.wireguard.client_private_key
  <2>1. WireguardGood(cfg.wireguard)
    BY DEF Good
  <2>2. w = [tunnel_name |-> cfg.wireguard.tunnel_name,
             client_address |-> E("client_address", cfg.wireguard.client_address),
             client_private_key |-> cfg.wireguard.client_private_key,
             server_public_key |-> cfg.wireguard.server_public_key,
             dns |-> E("dns", cfg.wireguard.dns), mtu |-> ToInt(E("mtu", cfg.wireguard.mtu)),
             preshared_key |-> cfg.wireguard.preshared_key]
    <3> DEFINE keys == {"tunnel_name", "client_address", "client_private_key",
                        "server_public_key", "dns", "mtu", "preshared_key"}
               s == cfg.wireguard
    <3>1. DOMAIN s = keys
      BY <2>1 DEF WireguardGood
    <3>2. DOMAIN w = keys /\ w = [k \in DOMAIN w |-> w[k]]
      BY <3>1
    <3>3. /\ w.mtu = ToInt(E("mtu", s.mtu)) /\ w.dns = E("dns", s.dns)
          /\ w.client_address = E("client_address", s.client_address)
          /\ \A k \in {"tunnel_name", "client_private_key", "server_public_key",
                       "preshared_key"} : w[k] = s[k]
      BY <3>1
    <3> HIDE DEF w
    <3>4. QED
      BY <3>2, <3>3
  <2>3. ToInt(E("mtu", cfg.wireguard.mtu)) \in Mtus
    BY <2>1, SMTT(30) DEF PatchOk, Get, WireguardGood, ToInt, Mtus
  <2>4. ToInt(E("mtu", cfg.wireguard.mtu)) # TextNumber \/ ToInt(E("mtu", cfg.wireguard.mtu)) = 1400
    BY DEF ToInt
  <2>5. QED
    BY <2>2, <2>3, <2>4 DEF WireguardGood
<1>4. RoutingGood(r)
  <2>1. RoutingGood(cfg.routing)
    BY DEF Good
  <2>2. r = [bypass_ips |-> E("bypass_ips", cfg.routing.bypass_ips)]
    BY <2>1 DEF RoutingGood
  <2>3. r # Bad
    BY <2>2, RecordIsNotBad
  <2>4. CASE "bypass_ips" \in DOMAIN patch
    <3> DEFINE allowed == Addresses \cup Cidrs \cup Hostnames
               items == patch.bypass_ips
    <3>1. items # Bad /\ items \in Seq(allowed)
      BY <2>4 DEF PatchOk, ListOk, Get
    <3>2. Bad \notin allowed
      BY BadAssumption
    <3> HIDE DEF allowed, items
    <3>3. ~Contains(items, Bad)
      BY <3>1, <3>2 DEF Contains
    <3>4. r.bypass_ips = items
      BY <2>2, <2>4 DEF Get, items
    <3>5. QED
      BY <2>2, <2>3, <3>1, <3>3, <3>4 DEF RoutingGood, RoutingOk
  <2>5. CASE "bypass_ips" \notin DOMAIN patch
    BY <2>1, <2>2, <2>5 DEF Get, RoutingGood
  <2>6. QED
    BY <2>4, <2>5
<1>5. ReconnectGood(c)
  <2> DEFINE max == E("reconnect_max_attempts", cfg.reconnect.max_attempts)
             delays == E("reconnect_delays", cfg.reconnect.delays_seconds)
  <2>1. ReconnectGood(cfg.reconnect)
    BY DEF Good
  <2>2. c = [max_attempts |-> ToInt(max), delays_seconds |-> Ints(delays)]
    BY <2>1, ReconnectEdited
  <2>3. Positive(ToInt(max))
    <3>1. CASE "reconnect_max_attempts" \in DOMAIN patch
      <4>1. ToInt(max) \in 1..100
        BY <3>1 DEF PatchOk, Get
      <4>2. QED
        BY <4>1, BadAssumption DEF Positive
    <3>2. CASE "reconnect_max_attempts" \notin DOMAIN patch
      BY <3>2, <2>1 DEF Get, ReconnectGood
    <3>3. QED
      BY <3>1, <3>2
  <2>4. \A i \in DOMAIN delays : Positive(ToInt(delays[i]))
    <3>1. CASE "reconnect_delays" \in DOMAIN patch
      BY <3>1 DEF PatchOk, DelaysOk, Get
    <3>2. CASE "reconnect_delays" \notin DOMAIN patch
      <4>1. delays = cfg.reconnect.delays_seconds
        BY <3>2 DEF Get
      <4> HIDE DEF delays
      <4>2. Ints(delays) = delays /\ \A i \in DOMAIN delays : Positive(delays[i])
        BY <2>1, <4>1 DEF ReconnectGood
      <4>3. QED
        BY <4>2, IntsAgain
    <3>3. QED
      BY <3>1, <3>2
  <2> HIDE DEF max, delays, c
  <2>5. /\ Ints(delays) # Bad /\ Ints(Ints(delays)) = Ints(delays)
        /\ ToInt(ToInt(max)) = ToInt(max)
        /\ \A i \in DOMAIN Ints(delays) : Positive(Ints(delays)[i])
    BY <2>4, IntsAgain
  <2>6. QED
    BY <2>2, <2>3, <2>5 DEF ReconnectGood
<1>6. NetworkGood(n)
  <2>1. NetworkGood(cfg.network)
    BY DEF Good
  <2> DEFINE mode == OrElse(Lower(E("hostile_mode", cfg.network.hostile_mode)), "auto")
  <2>2. n = [hostile_mode |-> mode]
    BY <2>1 DEF NetworkGood
  <2>3. ASSUME "hostile_mode" \in DOMAIN patch PROVE mode \in HostileModes
    BY <2>3 DEF PatchOk, Get
  <2>4. ASSUME "hostile_mode" \notin DOMAIN patch PROVE mode \in HostileModes
    <3>1. mode = OrElse(Lower(cfg.network.hostile_mode), "auto")
      BY <2>4 DEF Get
    <3>2. cfg.network.hostile_mode \in HostileModes
      BY <2>1 DEF NetworkGood
    <3>3. Lower(cfg.network.hostile_mode) = cfg.network.hostile_mode
      BY <3>2, LowerOfLowered DEF HostileModes
    <3>4. QED
      BY <3>1, <3>2, <3>3 DEF OrElse, HostileModes
  <2>5. mode \in HostileModes
    BY <2>3, <2>4
  <2> HIDE DEF mode
  <2>6. QED
    BY <2>2, <2>5 DEF NetworkGood
<1> HIDE DEF w, r, c, n, new
<1>7. Good(new)
  BY <1>2, <1>3, <1>4, <1>5, <1>6 DEF Good
<1>8. KeyOf(new) = KeyOf(cfg)
  BY <1>2, <1>3 DEF KeyOf
<1>9. QED
  BY <1>7, <1>8 DEF new

\* The answer of the server makes a good configuration, with the key of the call.
LEMMA EnrolledIsGood ==
    ASSUME NoObject(Bad), NEW cfg, Good(cfg), NEW key
    PROVE  LET new == [cfg EXCEPT !.wireguard.client_private_key = key,
                                  !.enrollment = [token |-> Empty, url |-> Empty]]
           IN  Good(new) /\ KeyOf(new) = key
<1> DEFINE new == [cfg EXCEPT !.wireguard.client_private_key = key,
                              !.enrollment = [token |-> Empty, url |-> Empty]]
           w == [cfg.wireguard EXCEPT !.client_private_key = key]
           e == [token |-> Empty, url |-> Empty]
<1>0. new = [cfg EXCEPT !.wireguard = w, !.enrollment = e]
  OBVIOUS
<1>1. new = [schema_version |-> cfg.schema_version, server |-> cfg.server, tls |-> cfg.tls,
             tunnel |-> cfg.tunnel, wireguard |-> w, routing |-> cfg.routing,
             reconnect |-> cfg.reconnect, network |-> cfg.network,
             fallback |-> cfg.fallback, enrollment |-> e,
             name |-> cfg.name, expires_at |-> cfg.expires_at]
  <2> DEFINE keys == {"schema_version", "server", "tls", "tunnel", "wireguard", "routing",
                      "reconnect", "network", "fallback", "enrollment", "name", "expires_at"}
  <2> HIDE DEF w, e, new
  <2>1. DOMAIN cfg = keys
    BY DEF Good
  <2>2. DOMAIN new = keys /\ new = [k \in DOMAIN new |-> new[k]]
    BY <1>0, <2>1
  <2>3. /\ new.wireguard = w /\ new.enrollment = e
        /\ \A k \in keys : k # "wireguard" /\ k # "enrollment" => new[k] = cfg[k]
    BY <1>0, <2>1
  <2>4. QED
    BY <2>2, <2>3
<1>2. WireguardGood(w) /\ w.client_private_key = key
  <2>1. WireguardGood(cfg.wireguard)
    BY DEF Good
  <2>2. w = [tunnel_name |-> cfg.wireguard.tunnel_name,
             client_address |-> cfg.wireguard.client_address,
             client_private_key |-> key,
             server_public_key |-> cfg.wireguard.server_public_key,
             dns |-> cfg.wireguard.dns, mtu |-> cfg.wireguard.mtu,
             preshared_key |-> cfg.wireguard.preshared_key]
    BY <2>1, WireguardKeyed
  <2>3. QED
    BY <2>1, <2>2 DEF WireguardGood
<1>3. EnrollmentGood(e)
  BY DEF EnrollmentGood
<1> HIDE DEF w, e, new
<1>4. Good(new) /\ KeyOf(new) = key
  BY <1>1, <1>2, <1>3 DEF Good, KeyOf
<1>5. QED
  BY <1>4 DEF new

-----------------------------------------------------------------------------
(* The steps of a call *)

LEMMA OneCallMoves ==
    ASSUME CallInv, NEW c \in Callers, NEW r, call' = [call EXCEPT ![c] = r]
    PROVE  /\ call'[c] = r /\ \A d \in Callers : d # c => call'[d] = call[d]
           /\ call' = [d \in Callers |-> call'[d]]
<1>1. DOMAIN call = Callers
  BY DEF CallInv
<1>2. QED
  BY <1>1

\* A call that goes on, with its configuration or with another.
LEMMA CallGoesOn ==
    ASSUME CallInv, NEW c \in Callers, call[c].step # "idle", NEW s, NEW cfg,
           \/ GoesTo(c, s) /\ cfg = call[c].cfg
           \/ GoesOn(c, s, cfg)
    PROVE  /\ call'[c] = [step |-> s, cfg |-> cfg, old |-> call[c].old, key |-> call[c].key]
           /\ \A d \in Callers : d # c => call'[d] = call[d]
           /\ call' = [d \in Callers |-> call'[d]]
<1>1. DOMAIN call = Callers
  BY DEF CallInv
<1>2. call[c] = [step |-> call[c].step, cfg |-> call[c].cfg, old |-> call[c].old,
                 key |-> call[c].key]
  BY DEF CallInv, Sound, Idle
<1>3. CASE GoesTo(c, s) /\ cfg = call[c].cfg
  <2>1. call' = [call EXCEPT ![c] = [call[c] EXCEPT !.step = s]]
    BY <1>3 DEF GoesTo
  <2>2. [call[c] EXCEPT !.step = s] = [step |-> s, cfg |-> cfg, old |-> call[c].old,
                                       key |-> call[c].key]
    BY <1>2, <1>3
  <2>3. QED
    BY <1>1, <2>1, <2>2
<1>4. CASE GoesOn(c, s, cfg)
  <2> DEFINE w == [call[c] EXCEPT !.step = s, !.cfg = cfg]
  <2>1. call' = [call EXCEPT ![c] = w]
    BY <1>1, <1>4 DEF GoesOn
  <2>2. DOMAIN call[c] = {"step", "cfg", "old", "key"}
    BY <1>2
  <2>3. DOMAIN w = {"step", "cfg", "old", "key"} /\ w = [k \in DOMAIN w |-> w[k]]
    BY <2>2
  <2>4. w.step = s /\ w.cfg = cfg /\ w.old = call[c].old /\ w.key = call[c].key
    BY <2>2
  <2> HIDE DEF w
  <2>5. w = [step |-> s, cfg |-> cfg, old |-> call[c].old, key |-> call[c].key]
    BY <2>3, <2>4
  <2>6. QED
    BY <1>1, <2>1, <2>5
<1>5. QED
  BY <1>3, <1>4

\* The other calls stay sound.
LEMMA OthersStaySound ==
    ASSUME CallInv, NEW c \in Callers, call' = [d \in Callers |-> call'[d]],
           \A d \in Callers : d # c => call'[d] = call[d],
           up' = up, server' = server \/ ~server.spent, torn' = torn \/ torn' = TRUE,
           original # None => original' # None,
           Sound(call[c])'
    PROVE  CallInv'
<1>1. ASSUME NEW d \in Callers, d # c PROVE Sound(call[d])'
  <2>1. Sound(call[d]) /\ call'[d] = call[d]
    BY <1>1 DEF CallInv
  <2>2. \A key : Known(key) => Known(key)'
    BY DEF Known
  <2>3. QED
    BY <2>1, <2>2 DEF Sound, Idle
<1>2. QED
  BY <1>1 DEF CallInv

\* A call that is the only one, while none crossed.
LEMMA TheOnlyCall ==
    ASSUME SoleInv, NEW c \in Callers, call[c].step # "idle", ~crossed
    PROVE  \A d \in Callers : d # c => call[d].step = "idle"
BY DEF SoleInv

\* A call that changes nothing.
LEMMA NothingChanges ==
    ASSUME StoreInv,
           UNCHANGED <<file, original, manager, up, call, server, imported, torn, crossed>>
    PROVE  StoreInv'
<1>1. FilesInv'
  BY DEF StoreInv, FilesInv, Known
<1>2. CallInv'
  BY DEF StoreInv, CallInv, Sound, Known, Idle
<1>3. SoleInv' /\ RunningInv' /\ ImportedInv'
  BY DEF StoreInv, SoleInv, RunningInv, ImportedInv
<1>4. QED
  BY <1>1, <1>2, <1>3 DEF StoreInv

\* A call that ends and leaves the files as they are.
LEMMA CallEnds ==
    ASSUME StoreInv, NEW c \in Callers, call[c].step # "idle", Ends(c),
           UNCHANGED <<file, original, manager, up, server, imported, crossed>>,
           \/ torn' = TRUE
           \/ torn' = torn /\ call[c].step \notin {"snapshot_import", "swap", "delete"}
    PROVE  StoreInv'
<1>1. /\ call'[c] = Idle /\ \A d \in Callers : d # c => call'[d] = call[d]
      /\ call' = [d \in Callers |-> call'[d]]
  BY OneCallMoves DEF StoreInv, Ends
<1>2. call'[c].step = "idle"
  BY <1>1 DEF Idle
<1>3. FilesInv'
  BY DEF StoreInv, FilesInv, Known
<1>4. CallInv'
  BY <1>1, OthersStaySound DEF StoreInv, Sound, Idle
<1>5. SoleInv'
  BY <1>1, <1>2 DEF StoreInv, SoleInv
<1>6. RunningInv' /\ ImportedInv'
  <2>1. ~crossed => \A d \in Callers : d # c => call[d].step = "idle"
    BY TheOnlyCall DEF StoreInv
  <2>2. QED
    BY <1>1, <1>2, <2>1 DEF StoreInv, RunningInv, ImportedInv
<1>7. QED
  BY <1>3, <1>4, <1>5, <1>6 DEF StoreInv

\* A call that begins, with a good configuration.
LEMMA CallBeginsInv ==
    ASSUME NoObject(None), StoreInv, NEW c \in Callers, Asked(c), NEW s, NEW cfg,
           CallBegins(c, s, cfg),
           UNCHANGED <<file, original, manager, up, server, imported, torn>>,
           s \in {"enroll", "save_import", "snapshot_edit", "save_edit", "forget"},
           Good(cfg), Known(KeyOf(cfg)),
           s = "snapshot_edit" => manager # None,
           s = "save_edit" => original # None
    PROVE  StoreInv'
<1>1. /\ call'[c] = [step |-> s, cfg |-> cfg, old |-> manager, key |-> OwnKeys[calls + 1]]
      /\ \A d \in Callers : d # c => call'[d] = call[d]
      /\ call' = [d \in Callers |-> call'[d]]
  BY OneCallMoves DEF StoreInv, CallBegins
<1>2. /\ call'[c].step = s /\ call'[c].cfg = cfg /\ call'[c].old = manager
      /\ call[c].step = "idle" /\ up
  BY <1>1 DEF Asked, At
<1>3. FilesInv'
  BY DEF StoreInv, FilesInv, Known
<1>4. Sound(call[c])'
  <2>1. manager # None => Good(manager) /\ Known(KeyOf(manager))
    BY DEF StoreInv, FilesInv
  <2>2. QED
    BY <1>1, <1>2, <2>1 DEF Sound, Known, StoreSteps
<1>5. CallInv'
  BY <1>1, <1>4, OthersStaySound DEF StoreInv
<1>6. SoleInv'
  <2>1. ~crossed' => ~crossed /\ \A d \in Callers : d # c => call[d].step = "idle"
    BY DEF CallBegins, At
  <2>2. QED
    BY <1>1, <1>2, <2>1 DEF StoreInv, SoleInv
<1>7. RunningInv' /\ ImportedInv'
  <2>1. ~crossed' => ~crossed
    BY DEF CallBegins
  <2>2. ~crossed' => \A d \in Callers : call[d].step = "idle"
    BY <1>2 DEF CallBegins, At
  <2>3. QED
    BY <1>1, <1>2, <2>1, <2>2 DEF StoreInv, RunningInv, ImportedInv
<1>8. QED
  BY <1>3, <1>5, <1>6, <1>7 DEF StoreInv

-----------------------------------------------------------------------------
(* The actions *)

LEMMA CrashInv ==
    ASSUME StoreInv, Crash PROVE StoreInv'
<1>1. /\ up' = FALSE /\ manager' = None
      /\ call' = [c \in Callers |-> Idle] /\ \A c \in Callers : call'[c] = Idle
      /\ ~torn' => ~torn /\ \A c \in Callers : call[c].step = "idle"
      /\ UNCHANGED <<file, original, server, imported, crossed>>
  BY DEF Crash, At
<1>2. FilesInv'
  BY <1>1 DEF StoreInv, FilesInv, Known
<1>3. CallInv'
  BY <1>1 DEF CallInv, Sound, Idle
<1>4. SoleInv' /\ RunningInv'
  BY <1>1 DEF SoleInv, RunningInv, Idle
<1>5. ImportedInv'
  BY <1>1 DEF StoreInv, ImportedInv
<1>6. QED
  BY <1>2, <1>3, <1>4, <1>5 DEF StoreInv

LEMMA LaunchInv ==
    ASSUME NoObject(Bad), NoObject(None), StoreInv, Launch PROVE StoreInv'
<1>1. file # None => Accepts(file) /\ Good(Parse(file)) /\ Parse(file) # None
  BY WrittenIsStored DEF StoreInv, FilesInv, Written
<1>2. /\ ~up /\ UNCHANGED <<file, original, call, server, imported, torn, crossed>>
      /\ manager' = IF file # None THEN Parse(file) ELSE None
  BY <1>1 DEF Launch
<1>3. \A c \in Callers : call[c] = Idle
  BY <1>2 DEF StoreInv, CallInv, Sound
<1>4. FilesInv'
  BY <1>1, <1>2 DEF StoreInv, FilesInv, Known
<1>5. CallInv'
  BY <1>2, <1>3 DEF StoreInv, CallInv, Sound, Idle
<1>6. SoleInv'
  BY <1>2, <1>3 DEF SoleInv, Idle
<1>7. RunningInv' /\ ImportedInv'
  BY <1>1, <1>2 DEF StoreInv, RunningInv, ImportedInv
<1>8. QED
  BY <1>4, <1>5, <1>6, <1>7 DEF StoreInv

LEMMA ImportInv ==
    ASSUME NoObject(Bad), NoObject(None), StoreInv, NEW c \in Callers, Import(c) PROVE StoreInv'
<1>1. CASE Refused(c)
  BY <1>1, NothingChanges DEF Refused, Disk
<1>2. ASSUME NEW raw \in Importable, Asked(c), ImportBegins(c, raw) PROVE StoreInv'
  <2>1. Good(Parse(raw)) /\ ~Own(KeyOf(Parse(raw)))
    BY ParsedIsGood, ProfileStoreAssumption DEF Importable, Own, KeyOf
  <2>2. PICK s \in {"enroll", "save_import"} : CallBegins(c, s, Parse(raw))
    BY <1>2 DEF ImportBegins
  <2>3. UNCHANGED <<file, original, manager, up, server, imported, torn>>
    BY <1>2 DEF ImportBegins, Disk
  <2>4. QED
    BY <1>2, <2>1, <2>2, <2>3, CallBeginsInv DEF Known
<1>3. QED
  BY <1>1, <1>2 DEF Import

LEMMA ServerRedeemsInv ==
    ASSUME StoreInv, NEW c \in Callers, ServerRedeems(c) PROVE StoreInv'
<1>1. /\ call[c].step = "enroll" /\ ~server.spent
      /\ server'.spent /\ server'.key = call[c].key
      /\ GoesTo(c, "answer")
      /\ UNCHANGED <<file, original, manager, up, imported, torn, crossed>>
  BY DEF ServerRedeems, At, Elsewhere, Disk
<1>2. /\ call'[c] = [step |-> "answer", cfg |-> call[c].cfg, old |-> call[c].old,
                     key |-> call[c].key]
      /\ \A d \in Callers : d # c => call'[d] = call[d]
      /\ call' = [d \in Callers |-> call'[d]]
  BY <1>1, CallGoesOn DEF StoreInv
<1>3. call'[c].step = "answer"
  BY <1>2
<1>4. \A key : Known(key) => Known(key)'
  BY <1>1 DEF Known
<1>5. FilesInv'
  BY <1>1, <1>4 DEF StoreInv, FilesInv
<1>6. Sound(call[c])'
  <2>1. Sound(call[c])
    BY DEF StoreInv, CallInv
  <2>2. QED
    BY <1>1, <1>2, <1>4, <2>1 DEF Sound, StoreSteps, Idle
<1>7. CallInv'
  BY <1>1, <1>2, <1>6, OthersStaySound DEF StoreInv
<1>8. SoleInv' /\ RunningInv' /\ ImportedInv'
  BY <1>1, <1>2, <1>3 DEF StoreInv, SoleInv, RunningInv, ImportedInv
<1>9. QED
  BY <1>5, <1>7, <1>8 DEF StoreInv

LEMMA AnswerArrivesInv ==
    ASSUME NoObject(Bad), StoreInv, NEW c \in Callers, AnswerArrives(c) PROVE StoreInv'
<1> DEFINE new == [call[c].cfg EXCEPT !.wireguard.client_private_key = call[c].key,
                                      !.enrollment = [token |-> Empty, url |-> Empty]]
<1>1. /\ call[c].step = "answer" /\ GoesOn(c, "save_import", new)
      /\ UNCHANGED <<file, original, manager, up, server, imported, torn, crossed>>
  BY DEF AnswerArrives, At, Elsewhere, Disk
<1>2. /\ Good(call[c].cfg) /\ server.spent /\ server.key = call[c].key /\ up
      /\ call[c].old # None => Good(call[c].old) /\ Known(KeyOf(call[c].old))
  BY <1>1 DEF StoreInv, CallInv, Sound, Idle
<1>3. Good(new) /\ KeyOf(new) = call[c].key
  BY <1>2, EnrolledIsGood
<1> HIDE DEF new
<1>4. /\ call'[c] = [step |-> "save_import", cfg |-> new, old |-> call[c].old,
                     key |-> call[c].key]
      /\ \A d \in Callers : d # c => call'[d] = call[d]
      /\ call' = [d \in Callers |-> call'[d]]
  BY <1>1, CallGoesOn DEF StoreInv
<1>5. call'[c].step = "save_import" /\ call'[c].cfg = new /\ call'[c].old = call[c].old
  BY <1>4
<1>6. Sound(call[c])'
  BY <1>1, <1>2, <1>3, <1>4, <1>5 DEF Sound, Known, StoreSteps
<1>7. CallInv'
  BY <1>1, <1>4, <1>6, OthersStaySound DEF StoreInv
<1>8. FilesInv' /\ SoleInv' /\ RunningInv' /\ ImportedInv'
  BY <1>1, <1>4, <1>5 DEF StoreInv, FilesInv, Known, SoleInv, RunningInv, ImportedInv
<1>9. QED
  BY <1>7, <1>8 DEF StoreInv

\* A save of what the call carries.
LEMMA SaveImportInv ==
    ASSUME NoObject(Bad), NoObject(None), StoreInv, NEW c \in Callers, SaveImport(c)
    PROVE  StoreInv'
<1>1. /\ call[c].step = "save_import" /\ file' = ToDict(call[c].cfg)
      /\ GoesTo(c, "snapshot_import")
      /\ UNCHANGED <<original, manager, up, server, imported, torn, crossed>>
  BY DEF SaveImport, At, Elsewhere
<1>2. /\ call'[c] = [step |-> "snapshot_import", cfg |-> call[c].cfg, old |-> call[c].old,
                     key |-> call[c].key]
      /\ \A d \in Callers : d # c => call'[d] = call[d]
      /\ call' = [d \in Callers |-> call'[d]]
  BY <1>1, CallGoesOn DEF StoreInv
<1>3. call'[c].step = "snapshot_import" /\ call'[c].cfg = call[c].cfg
  BY <1>2
<1>4. Sound(call[c]) /\ Good(call[c].cfg) /\ Known(KeyOf(call[c].cfg))
  BY <1>1 DEF StoreInv, CallInv, Sound, Idle
<1>5. Written(file') /\ Parse(file') = call[c].cfg /\ file' # None
  BY <1>1, <1>4, WrittenIsStored
<1>6. FilesInv'
  BY <1>1, <1>4, <1>5 DEF StoreInv, FilesInv, Known
<1>7. Sound(call[c])'
  BY <1>1, <1>2, <1>4 DEF Sound, Known, StoreSteps, Idle
<1>8. CallInv'
  BY <1>1, <1>2, <1>7, OthersStaySound DEF StoreInv
<1>9. SoleInv' /\ RunningInv' /\ ImportedInv'
  <2>1. ~crossed => \A d \in Callers : d # c => call[d].step = "idle"
    BY <1>1, TheOnlyCall DEF StoreInv
  <2>2. SoleInv'
    BY <1>1, <1>2, <1>3, <1>5, <2>1 DEF SoleInv
  <2>3. QED
    BY <1>1, <1>2, <1>3, <2>2 DEF StoreInv, RunningInv, ImportedInv
<1>10. QED
  BY <1>6, <1>8, <1>9 DEF StoreInv

LEMMA SnapshotImportInv ==
    ASSUME NoObject(Bad), NoObject(None), StoreInv, NEW c \in Callers, SnapshotImport(c)
    PROVE  StoreInv'
<1>1. /\ call[c].step = "snapshot_import" /\ original' = ToDict(call[c].cfg)
      /\ imported' = call[c].cfg /\ GoesTo(c, "swap")
      /\ UNCHANGED <<file, manager, up, server, torn, crossed>>
  BY DEF SnapshotImport, At, Elsewhere
<1>2. /\ call'[c] = [step |-> "swap", cfg |-> call[c].cfg, old |-> call[c].old,
                     key |-> call[c].key]
      /\ \A d \in Callers : d # c => call'[d] = call[d]
      /\ call' = [d \in Callers |-> call'[d]]
  BY <1>1, CallGoesOn DEF StoreInv
<1>3. call'[c].step = "swap" /\ call'[c].cfg = call[c].cfg
  BY <1>2
<1>4. Sound(call[c]) /\ Good(call[c].cfg) /\ Known(KeyOf(call[c].cfg))
  BY <1>1 DEF StoreInv, CallInv, Sound, Idle
<1>5. Written(original') /\ Parse(original') = call[c].cfg /\ original' # None
  BY <1>1, <1>4, WrittenIsStored
<1>6. FilesInv'
  BY <1>1, <1>4, <1>5 DEF StoreInv, FilesInv, Known
<1>7. Sound(call[c])'
  BY <1>1, <1>2, <1>4 DEF Sound, Known, StoreSteps, Idle
<1>8. CallInv'
  BY <1>1, <1>2, <1>5, <1>7, OthersStaySound DEF StoreInv
<1>9. SoleInv' /\ RunningInv' /\ ImportedInv'
  BY <1>1, <1>2, <1>3, <1>5 DEF StoreInv, SoleInv, RunningInv, ImportedInv
<1>10. QED
  BY <1>6, <1>8, <1>9 DEF StoreInv

LEMMA SwapManagerInv ==
    ASSUME NoObject(Bad), NoObject(None), StoreInv, NEW c \in Callers, SwapManager(c)
    PROVE  StoreInv'
<1>1. /\ call[c].step = "swap" /\ Ends(c) /\ manager' = call[c].cfg
      /\ UNCHANGED <<file, original, up, server, imported, torn, crossed>>
  BY DEF SwapManager, At, Elsewhere, Disk
<1>2. /\ call'[c] = Idle /\ \A d \in Callers : d # c => call'[d] = call[d]
      /\ call' = [d \in Callers |-> call'[d]]
  BY <1>1, OneCallMoves DEF StoreInv, Ends
<1>3. call'[c].step = "idle"
  BY <1>2 DEF Idle
<1>4. Good(call[c].cfg) /\ Known(KeyOf(call[c].cfg))
  BY <1>1 DEF StoreInv, CallInv, Sound, Idle
<1>5. call[c].cfg # None
  BY <1>4, WrittenIsStored
<1>6. ~crossed => /\ \A d \in Callers : d # c => call[d].step = "idle"
                  /\ file # None /\ Parse(file) = call[c].cfg
  BY <1>1, TheOnlyCall DEF StoreInv, SoleInv
<1>7. FilesInv'
  BY <1>1, <1>4 DEF StoreInv, FilesInv, Known
<1>8. CallInv'
  BY <1>1, <1>2, OthersStaySound DEF StoreInv, Sound, Idle
<1>9. SoleInv' /\ RunningInv' /\ ImportedInv'
  BY <1>1, <1>2, <1>3, <1>5, <1>6 DEF StoreInv, SoleInv, RunningInv, ImportedInv
<1>10. QED
  BY <1>7, <1>8, <1>9 DEF StoreInv

LEMMA UpdateInv ==
    ASSUME NoObject(Bad), NoObject(None), StoreInv, NEW c \in Callers, Update(c) PROVE StoreInv'
<1>1. CASE Refused(c)
  BY <1>1, NothingChanges DEF Refused, Disk
<1>2. ASSUME NEW patch \in Patches, UpdateBegins(c, patch) PROVE StoreInv'
  <2>1. /\ Asked(c) /\ manager # None /\ PatchOk(patch)
        /\ CallBegins(c, "snapshot_edit", ApplyPatch(manager, patch))
        /\ UNCHANGED <<file, original, manager, up, server, imported, torn>>
    BY <1>2 DEF UpdateBegins, Disk
  <2>2. Good(manager) /\ Known(KeyOf(manager))
    BY <2>1 DEF StoreInv, FilesInv
  <2>3. Good(ApplyPatch(manager, patch)) /\ KeyOf(ApplyPatch(manager, patch)) = KeyOf(manager)
    BY <2>1, <2>2, PatchedIsGood
  <2>4. Known(KeyOf(ApplyPatch(manager, patch)))
    BY <2>2, <2>3 DEF Known
  <2>5. QED
    BY <2>1, <2>3, <2>4, CallBeginsInv
<1>3. QED
  BY <1>1, <1>2 DEF Update, UpdateRefused

LEMMA SnapshotEditInv ==
    ASSUME NoObject(Bad), NoObject(None), StoreInv, NEW c \in Callers, SnapshotEdit(c)
    PROVE  StoreInv'
<1>1. /\ call[c].step = "snapshot_edit" /\ GoesTo(c, "save_edit")
      /\ UNCHANGED <<file, manager, up, server, imported, crossed>>
      /\ \/ /\ original' = (IF original = None THEN ToDict(call[c].old) ELSE original)
            /\ torn' = torn
         \/ original = None /\ torn' = TRUE /\ original' = original
  BY DEF SnapshotEdit, At, Elsewhere
<1>2. /\ call'[c] = [step |-> "save_edit", cfg |-> call[c].cfg, old |-> call[c].old,
                     key |-> call[c].key]
      /\ \A d \in Callers : d # c => call'[d] = call[d]
      /\ call' = [d \in Callers |-> call'[d]]
  BY <1>1, CallGoesOn DEF StoreInv
<1>3. call'[c].step = "save_edit"
  BY <1>2
<1>4. /\ Sound(call[c]) /\ up /\ call[c].old # None
      /\ Good(call[c].old) /\ Known(KeyOf(call[c].old))
  BY <1>1 DEF StoreInv, CallInv, Sound, Idle
<1>5. /\ Written(ToDict(call[c].old)) /\ Parse(ToDict(call[c].old)) = call[c].old
      /\ ToDict(call[c].old) # None
  BY <1>4, WrittenIsStored
<1>6. FilesInv'
  BY <1>1, <1>4, <1>5 DEF StoreInv, FilesInv, Known
<1>7. Sound(call[c])'
  BY <1>1, <1>2, <1>4, <1>5 DEF Sound, Known, StoreSteps, Idle
<1>8. CallInv'
  BY <1>1, <1>2, <1>5, <1>7, OthersStaySound DEF StoreInv
<1>9. SoleInv'
  BY <1>1, <1>2, <1>3 DEF StoreInv, SoleInv
<1>10. ~crossed => /\ \A d \in Callers : d # c => call[d].step = "idle"
                   /\ call[c].old = manager
  BY <1>1, TheOnlyCall DEF StoreInv, SoleInv
<1>11. ~crossed /\ ~torn => file # None /\ manager = Parse(file)
  BY <1>1, <1>4, <1>10 DEF StoreInv, RunningInv
<1>12. RunningInv'
  BY <1>1, <1>4, <1>10, <1>11 DEF RunningInv
<1>13. ImportedInv'
  BY <1>1, <1>2, <1>3, <1>5, <1>10, <1>11 DEF StoreInv, ImportedInv
<1>14. QED
  BY <1>6, <1>8, <1>9, <1>12, <1>13 DEF StoreInv

LEMMA ResetInv ==
    ASSUME NoObject(None), StoreInv, NEW c \in Callers, Reset(c) PROVE StoreInv'
<1>1. CASE Refused(c)
  BY <1>1, NothingChanges DEF Refused, Disk
<1>2. CASE ResetBegins(c)
  <2>1. /\ Asked(c) /\ original # None /\ CallBegins(c, "save_edit", Parse(original))
        /\ UNCHANGED <<file, original, manager, up, server, imported, torn>>
    BY <1>2 DEF ResetBegins, Disk
  <2>2. Good(Parse(original)) /\ Known(KeyOf(Parse(original)))
    BY <2>1 DEF StoreInv, FilesInv, Written
  <2>3. QED
    BY <2>1, <2>2, CallBeginsInv
<1>3. QED
  BY <1>1, <1>2 DEF Reset, ResetRefused

LEMMA SaveEditInv ==
    ASSUME NoObject(Bad), NoObject(None), StoreInv, NEW c \in Callers, SaveEdit(c) PROVE StoreInv'
<1>1. CASE Ends(c) /\ torn' = TRUE /\ file' = file
  <2>1. /\ call[c].step # "idle"
        /\ UNCHANGED <<file, original, manager, up, server, imported, crossed>>
    BY <1>1 DEF SaveEdit, At, Elsewhere
  <2>2. QED
    BY <1>1, <2>1, CallEnds
<1>2. CASE file' = ToDict(call[c].cfg) /\ GoesTo(c, "swap") /\ torn' = torn
  <2>1. /\ call[c].step = "save_edit"
        /\ UNCHANGED <<original, manager, up, server, imported, crossed>>
    BY DEF SaveEdit, At, Elsewhere
  <2>2. /\ call'[c] = [step |-> "swap", cfg |-> call[c].cfg, old |-> call[c].old,
                       key |-> call[c].key]
        /\ \A d \in Callers : d # c => call'[d] = call[d]
        /\ call' = [d \in Callers |-> call'[d]]
    BY <1>2, <2>1, CallGoesOn DEF StoreInv
  <2>3. call'[c].step = "swap" /\ call'[c].cfg = call[c].cfg
    BY <2>2
  <2>4. /\ Sound(call[c]) /\ Good(call[c].cfg) /\ Known(KeyOf(call[c].cfg))
        /\ ~torn => original # None
    BY <2>1 DEF StoreInv, CallInv, Sound, Idle
  <2>5. Written(file') /\ Parse(file') = call[c].cfg /\ file' # None
    BY <1>2, <2>4, WrittenIsStored
  <2>6. FilesInv'
    BY <1>2, <2>1, <2>4, <2>5 DEF StoreInv, FilesInv, Known
  <2>7. Sound(call[c])'
    BY <1>2, <2>1, <2>2, <2>4 DEF Sound, Known, StoreSteps, Idle
  <2>8. CallInv'
    BY <1>2, <2>1, <2>2, <2>7, OthersStaySound DEF StoreInv
  <2>9. ~crossed => \A d \in Callers : d # c => call[d].step = "idle"
    BY <2>1, TheOnlyCall DEF StoreInv
  <2>10. SoleInv'
    BY <2>1, <2>2, <2>3, <2>5, <2>9 DEF SoleInv
  <2>11. RunningInv'
    BY <2>3 DEF RunningInv
  <2>12. ImportedInv'
    BY <1>2, <2>1, <2>4 DEF StoreInv, ImportedInv
  <2>13. QED
    BY <2>6, <2>8, <2>10, <2>11, <2>12 DEF StoreInv
<1>3. QED
  BY <1>1, <1>2 DEF SaveEdit

LEMMA RemoveProfileInv ==
    ASSUME NoObject(None), StoreInv, NEW c \in Callers, RemoveProfile(c) PROVE StoreInv'
<1>1. CASE RemoveBegins(c)
  <2>1. /\ Asked(c) /\ manager # None /\ CallBegins(c, "forget", manager)
        /\ UNCHANGED <<file, original, manager, up, server, imported, torn>>
    BY <1>1 DEF RemoveBegins, Disk
  <2>2. Good(manager) /\ Known(KeyOf(manager))
    BY <2>1 DEF StoreInv, FilesInv
  <2>3. QED
    BY <2>1, <2>2, CallBeginsInv
<1>2. CASE ForgetManager(c)
  <2>1. /\ call[c].step = "forget" /\ GoesTo(c, "delete") /\ manager' = None /\ imported' = None
        /\ UNCHANGED <<file, original, up, server, torn, crossed>>
    BY <1>2 DEF ForgetManager, At, Elsewhere, Disk
  <2>2. /\ call'[c] = [step |-> "delete", cfg |-> call[c].cfg, old |-> call[c].old,
                       key |-> call[c].key]
        /\ \A d \in Callers : d # c => call'[d] = call[d]
        /\ call' = [d \in Callers |-> call'[d]]
    BY <2>1, CallGoesOn DEF StoreInv
  <2>3. call'[c].step = "delete"
    BY <2>2
  <2>4. Sound(call[c])
    BY DEF StoreInv, CallInv
  <2>5. Sound(call[c])'
    BY <2>1, <2>2, <2>4 DEF Sound, Known, StoreSteps, Idle
  <2>6. CallInv'
    BY <2>1, <2>2, <2>5, OthersStaySound DEF StoreInv
  <2>7. ~crossed => \A d \in Callers : d # c => call[d].step = "idle"
    BY <2>1, TheOnlyCall DEF StoreInv
  <2>8. FilesInv'
    BY <2>1 DEF StoreInv, FilesInv, Known
  <2>9. SoleInv'
    BY <2>1, <2>2, <2>3, <2>7 DEF SoleInv
  <2>10. RunningInv' /\ ImportedInv'
    BY <2>1, <2>3 DEF RunningInv, ImportedInv
  <2>11. QED
    BY <2>6, <2>8, <2>9, <2>10 DEF StoreInv
<1>3. CASE DeleteFile(c)
  <2>1. CASE torn' = TRUE /\ file' = file
    <3>1. /\ call[c].step # "idle" /\ Ends(c)
          /\ UNCHANGED <<file, original, manager, up, server, imported, crossed>>
      BY <1>3, <2>1 DEF DeleteFile, At, Elsewhere
    <3>2. QED
      BY <2>1, <3>1, CallEnds
  <2>2. CASE file' = None /\ torn' = torn
    <3>1. /\ call[c].step = "delete" /\ Ends(c)
          /\ UNCHANGED <<original, manager, up, server, imported, crossed>>
      BY <1>3 DEF DeleteFile, At, Elsewhere
    <3>2. /\ call'[c] = Idle /\ \A d \in Callers : d # c => call'[d] = call[d]
          /\ call' = [d \in Callers |-> call'[d]]
      BY <3>1, OneCallMoves DEF StoreInv, Ends
    <3>3. call'[c].step = "idle"
      BY <3>2 DEF Idle
    <3>4. FilesInv'
      BY <2>2, <3>1 DEF StoreInv, FilesInv, Known
    <3>5. CallInv'
      BY <2>2, <3>1, <3>2, OthersStaySound DEF StoreInv, Sound, Idle
    <3>6. ~crossed => /\ \A d \in Callers : d # c => call[d].step = "idle"
                      /\ manager = None /\ imported = None
      BY <3>1, TheOnlyCall DEF StoreInv, SoleInv
    <3>7. SoleInv' /\ RunningInv' /\ ImportedInv'
      BY <2>2, <3>1, <3>2, <3>3, <3>6 DEF SoleInv, RunningInv, ImportedInv
    <3>8. QED
      BY <3>4, <3>5, <3>7 DEF StoreInv
  <2>3. QED
    BY <1>3, <2>1, <2>2 DEF DeleteFile
<1>4. QED
  BY <1>1, <1>2, <1>3 DEF RemoveProfile

LEMMA StoreInitInv ==
    ASSUME NoObject(Bad), NoObject(None), StoreInit PROVE StoreInv
<1>1. ASSUME NEW d \in Stored
      PROVE  Written(d) /\ ~Own(KeyOf(Parse(d)))
  BY ParsedIsGood, ProfileStoreAssumption DEF Written, Own, KeyOf
<1>2. FilesInv
  BY <1>1 DEF StoreInit, FilesInv, Known
<1>3. CallInv /\ SoleInv /\ RunningInv /\ ImportedInv
  BY DEF StoreInit, CallInv, Sound, SoleInv, RunningInv, ImportedInv, Idle
<1>4. QED
  BY <1>2, <1>3 DEF StoreInv

LEMMA StoreInductive ==
    ASSUME NoObject(Bad), NoObject(None), StoreInv, [StoreNext]_storeVars PROVE StoreInv'
<1>1. CASE UNCHANGED storeVars
  BY <1>1, NothingChanges DEF storeVars
<1>2. CASE Launch \/ Crash
  BY <1>2, LaunchInv, CrashInv
<1>3. ASSUME NEW c \in Callers, Enroll(c) PROVE StoreInv'
  <2>1. CASE EnrollNotReached(c) \/ EnrollRefused(c) \/ AnswerLost(c)
    BY <2>1, CallEnds DEF EnrollNotReached, EnrollRefused, AnswerLost, At, Elsewhere, Disk
  <2>2. QED
    BY <1>3, <2>1, ServerRedeemsInv, AnswerArrivesInv DEF Enroll
<1>4. ASSUME NEW c \in Callers, Save(c) PROVE StoreInv'
  <2>1. CASE ImportSaveFails(c)
    BY <2>1, CallEnds DEF ImportSaveFails, At, Elsewhere, Disk
  <2>2. QED
    BY <1>4, <2>1, SaveImportInv, SnapshotImportInv, SnapshotEditInv, SaveEditInv DEF Save
<1>5. QED
  BY <1>1, <1>2, <1>3, <1>4, ImportInv, SwapManagerInv, UpdateInv, ResetInv, RemoveProfileInv
     DEF StoreNext

LEMMA StoreInvariant ==
    ASSUME NoObject(Bad), NoObject(None) PROVE StoreSpec => []StoreInv
<1>1. StoreInit => StoreInv
  BY StoreInitInv
<1>2. StoreInv /\ [StoreNext]_storeVars => StoreInv'
  BY StoreInductive
<1>3. QED
  BY <1>1, <1>2, PTL DEF StoreSpec

-----------------------------------------------------------------------------
(* What the store promises *)

\* ConfigStore.load at the next start reads every file that save or the import's
\* snapshot left, whatever was imported, edited, reset, enrolled, or cut short
\* by a crash, in as many calls at once, and reads it as the profile that was
\* saved if no two calls crossed.
THEOREM SavedLoadsAgain ==
    ASSUME NoObject(Bad), NoObject(None) PROVE StoreSpec => []StoredLoadsAgain
<1>1. StoreInv => StoredLoadsAgain
  BY DEF StoreInv, FilesInv, SoleInv, StoredLoadsAgain, Written, At
<1>2. QED
  BY <1>1, StoreInvariant, PTL

\* Between two calls the manager runs the profile that is stored, or none if
\* none is, unless a save failed, a crash cut a call of Api short, or two calls
\* crossed: an import, an edit or a reset that is refused changes neither.
THEOREM RunsWhatIsStored ==
    ASSUME NoObject(Bad), NoObject(None) PROVE StoreSpec => []RunningIsStored
<1>1. StoreInv => RunningIsStored
  BY DEF StoreInv, RunningInv, RunningIsStored, AllIdle, At
<1>2. QED
  BY <1>1, StoreInvariant, PTL

\* The original that Api.reset_profile goes back to is the profile as it was
\* imported, whatever was edited since, with the same exceptions.
THEOREM SnapshotStaysImport ==
    ASSUME NoObject(Bad), NoObject(None) PROVE StoreSpec => []SnapshotIsImport
<1>1. StoreInv => SnapshotIsImport
  BY DEF StoreInv, ImportedInv, SnapshotIsImport
<1>2. QED
  BY <1>1, StoreInvariant, PTL

\* A private key the client made itself, to enrol, is in a file only if the
\* server spent the token for that very key: no failure, no retry and no other
\* call at the same time stores another.
THEOREM OwnKeysAreKnown ==
    ASSUME NoObject(Bad), NoObject(None) PROVE StoreSpec => []OwnKeyIsKnown
<1>1. ASSUME NEW d, Written(d) PROVE d.wireguard.client_private_key = KeyOf(Parse(d))
  <2>1. d = ToDict(Parse(d)) /\ Good(Parse(d))
    BY <1>1 DEF Written
  <2>2. ToDict(Parse(d)).wireguard.client_private_key = KeyOf(Parse(d))
    BY <2>1, WrittenIsRead DEF KeyOf
  <2>3. QED
    BY <2>1, <2>2
<1>2. StoreInv => OwnKeyIsKnown
  BY <1>1 DEF StoreInv, FilesInv, OwnKeyIsKnown, Known, Own
<1>3. QED
  BY <1>2, StoreInvariant, PTL

-----------------------------------------------------------------------------
(* The rungs of a ladder *)

\* The rungs that a profile and a proxy stand for.
Rungs(p, proxy) ==
    {OwnRung(p, "direct", p.server.port, FALSE, Empty),
     OwnRung(p, "direct-hostile", p.server.port, TRUE, Empty),
     OwnRung(p, "direct-proxy", p.server.port, TRUE, proxy)}
    \cup {OwnRung(p, AltId(q), q, TRUE, Empty) : q \in Ports}
    \cup {ProvisionedRung(p, s) : s \in Range(p.fallback.strategies)}

LEMMA AllRungsType ==
    ASSUME NEW p \in Profiles, NEW proxy
    PROVE  AllRungs(p, proxy) \in Seq(Rungs(p, proxy)) /\ Len(AllRungs(p, proxy)) >= 1
<1> DEFINE alts == p.server.fallback_ports
           given == p.fallback.strategies
           S == Rungs(p, proxy)
           direct == OwnRung(p, "direct", p.server.port, FALSE, Empty)
           hostile == OwnRung(p, "direct-hostile", p.server.port, TRUE, Empty)
           proxied == OwnRung(p, "direct-proxy", p.server.port, TRUE, proxy)
           A == IF p.network.hostile_mode = "on" THEN <<>> ELSE <<direct>>
           C == IF proxy = Empty THEN <<>> ELSE <<proxied>>
           other(i) == OwnRung(p, AltId(alts[i]), alts[i], TRUE, Empty)
           D == [i \in DOMAIN alts |-> other(i)]
           F == [i \in DOMAIN given |-> ProvisionedRung(p, given[i])]
<1>1. alts \in Seq(Ports) /\ given \in Seq(Range(given))
  BY LadderAssumption
<1>2. direct \in S /\ hostile \in S /\ proxied \in S
  BY DEF Rungs
<1>3. D \in Seq(S)
  <2>1. DOMAIN alts = 1..Len(alts) /\ Len(alts) \in Nat /\ \A i \in DOMAIN alts : alts[i] \in Ports
    BY <1>1
  <2>2. \A i \in DOMAIN alts : other(i) \in S
    BY <2>1 DEF Rungs
  <2> HIDE DEF S, alts, other
  <2>3. QED
    BY <2>1, <2>2
<1>4. F \in Seq(S)
  <2>1. DOMAIN given = 1..Len(given) /\ Len(given) \in Nat
        /\ \A i \in DOMAIN given : given[i] \in Range(given)
    BY <1>1
  <2>2. \A i \in DOMAIN given : ProvisionedRung(p, given[i]) \in S
    BY <2>1 DEF Rungs
  <2> HIDE DEF S, given
  <2>3. QED
    BY <2>1, <2>2
<1>5. AllRungs(p, proxy) = A \o <<hostile>> \o C \o D \o F
  BY DEF AllRungs
<1> HIDE DEF S, direct, hostile, proxied, D, F
<1>6. A \in Seq(S) /\ <<hostile>> \in Seq(S) /\ C \in Seq(S)
  BY <1>2
<1> HIDE DEF A, C
<1>7. A \o <<hostile>> \in Seq(S) /\ Len(A \o <<hostile>>) >= 1
  BY <1>6
<1>8. A \o <<hostile>> \o C \in Seq(S) /\ Len(A \o <<hostile>> \o C) >= 1
  BY <1>6, <1>7
<1>9. A \o <<hostile>> \o C \o D \in Seq(S) /\ Len(A \o <<hostile>> \o C \o D) >= 1
  BY <1>3, <1>8
<1>10. /\ A \o <<hostile>> \o C \o D \o F \in Seq(S)
       /\ Len(A \o <<hostile>> \o C \o D \o F) >= 1
  BY <1>4, <1>9
<1>11. QED
  BY <1>5, <1>10 DEF S

\* Of every rung, one that dials the same way is on the ladder.
LEMMA LadderKeepsEveryWay ==
    ASSUME NEW p \in Profiles, NEW proxy
    PROVE  /\ BuildLadder(p, proxy) \in Seq(ToSet(AllRungs(p, proxy)))
           /\ \A r \in ToSet(AllRungs(p, proxy)) : \E n \in DOMAIN BuildLadder(p, proxy) :
                DedupKey(BuildLadder(p, proxy)[n]) = DedupKey(r)
<1> DEFINE all == AllRungs(p, proxy)
           K == {i \in DOMAIN all : \A j \in 1..(i - 1) : DedupKey(all[j]) # DedupKey(all[i])}
           ladder == Keep(all, K)
           S == ToSet(all)
<1>1. BuildLadder(p, proxy) = ladder
  BY DEF BuildLadder
<1>2. all \in Seq(S)
  <2>1. all \in Seq(Rungs(p, proxy))
    BY AllRungsType
  <2> HIDE DEF all
  <2>2. DOMAIN all = 1..Len(all) /\ Len(all) \in Nat
    BY <2>1
  <2>3. \A i \in DOMAIN all : all[i] \in S
    BY DEF ToSet
  <2> HIDE DEF S
  <2>4. all \in [1..Len(all) -> S]
    BY <2>1, <2>2, <2>3
  <2>5. QED
    BY <2>2, <2>4
<1> HIDE DEF all, S
<1>3. DOMAIN all = 1..Len(all) /\ Len(all) \in Nat
  BY <1>2
<1>4. K \in SUBSET (DOMAIN all)
  OBVIOUS
<1>5. ladder \in Seq(S)
      /\ \A k \in K : \E n \in DOMAIN ladder : ladder[n] = all[k]
  <2> HIDE DEF K
  <2>1. QED
    BY <1>2, <1>4, KeepType
<1>6. ASSUME NEW i \in DOMAIN all
      PROVE  \E n \in DOMAIN ladder : DedupKey(ladder[n]) = DedupKey(all[i])
  <2> DEFINE same == {j \in DOMAIN all : DedupKey(all[j]) = DedupKey(all[i])}
             m == Min(same)
  <2>1. same \in SUBSET Nat /\ i \in same
    BY <1>3
  <2>2. m \in same /\ \A j \in same : m <= j
    BY <2>1, SmallestExists
  <2> HIDE DEF m
  <2>3. m \in DOMAIN all /\ DedupKey(all[m]) = DedupKey(all[i])
    BY <2>2
  <2>4. m \in K
    <3>1. ASSUME NEW j \in 1..(m - 1) PROVE DedupKey(all[j]) # DedupKey(all[m])
      <4>1. j \in DOMAIN all /\ ~(m <= j)
        BY <1>3, <2>3
      <4>2. QED
        BY <2>2, <2>3, <4>1
    <3>2. QED
      BY <2>3, <3>1
  <2> HIDE DEF K, same
  <2>5. QED
    BY <1>5, <2>3, <2>4
<1>7. QED
  BY <1>1, <1>5, <1>6, ZenonT(60) DEF ToSet, all, S

\* The remembered rung goes first, and none is lost.
LEMMA ReorderKeepsTheRungs ==
    ASSUME NEW S, NEW ladder \in Seq(S), NEW id
    PROVE  /\ ReorderForSticky(ladder, id) \in Seq(S)
           /\ \A n \in DOMAIN ladder : \E m \in DOMAIN ReorderForSticky(ladder, id) :
                ReorderForSticky(ladder, id)[m] = ladder[n]
<1> DEFINE K == {i \in DOMAIN ladder : ladder[i].id = id}
           L == {i \in DOMAIN ladder : ladder[i].id # id}
           A == Keep(ladder, K)
           B == Keep(ladder, L)
<1>1. ReorderForSticky(ladder, id) = A \o B
  BY DEF ReorderForSticky
<1>2. K \in SUBSET (DOMAIN ladder) /\ L \in SUBSET (DOMAIN ladder) /\ K \cup L = DOMAIN ladder
  OBVIOUS
<1> HIDE DEF K, L
<1>3. A \in Seq(S) /\ \A k \in K : \E n \in DOMAIN A : A[n] = ladder[k]
  BY <1>2, KeepType
<1>4. B \in Seq(S) /\ \A k \in L : \E n \in DOMAIN B : B[n] = ladder[k]
  BY <1>2, KeepType
<1> HIDE DEF A, B
<1>5. A \o B \in Seq(S) /\ DOMAIN (A \o B) = 1..(Len(A) + Len(B))
  BY <1>3, <1>4
<1>6. \A n \in DOMAIN A : n \in DOMAIN (A \o B) /\ (A \o B)[n] = A[n]
  BY <1>3, <1>4, <1>5
<1>7. \A n \in DOMAIN B : Len(A) + n \in DOMAIN (A \o B) /\ (A \o B)[Len(A) + n] = B[n]
  BY <1>3, <1>4, <1>5
<1>8. ASSUME NEW n \in DOMAIN ladder
      PROVE  \E m \in DOMAIN (A \o B) : (A \o B)[m] = ladder[n]
  <2>1. CASE n \in K
    BY <2>1, <1>3, <1>6
  <2>2. CASE n \in L
    BY <2>2, <1>4, <1>7
  <2>3. QED
    BY <1>2, <2>1, <2>2
<1>9. QED
  BY <1>1, <1>5, <1>8

\* What decides whether a rung is dialled and carries is in its key.
\* Every rung that is tried is one of the profile's, and with the ladder enabled there
\* is one for each key.
LEMMA TriedType ==
    ASSUME NEW p \in Profiles, NEW net, NEW preferred
    PROVE  /\ Tried(p, net, preferred) \in Seq(ToSet(AllRungs(p, net.proxy)))
           /\ p.fallback.enabled =>
                \A r \in ToSet(AllRungs(p, net.proxy)) :
                    \E n \in DOMAIN Tried(p, net, preferred) :
                        DedupKey(Tried(p, net, preferred)[n]) = DedupKey(r)
<1> DEFINE ladder == BuildLadder(p, net.proxy)
           S == ToSet(AllRungs(p, net.proxy))
           chosen == IF p.fallback.enabled THEN ladder ELSE SubSeq(ladder, 1, 1)
<1>1. Tried(p, net, preferred) = ReorderForSticky(chosen, preferred)
  BY DEF Tried
<1>0. DOMAIN ladder # {}
  <2>1. AllRungs(p, net.proxy)[1] \in ToSet(AllRungs(p, net.proxy))
    BY AllRungsType DEF ToSet
  <2>2. QED
    BY <2>1, LadderKeepsEveryWay
<1>2. ladder \in Seq(S)
  BY LadderKeepsEveryWay
<1>3. p.fallback.enabled => \A r \in ToSet(AllRungs(p, net.proxy)) :
            \E n \in DOMAIN chosen : DedupKey(chosen[n]) = DedupKey(r)
  BY LadderKeepsEveryWay
<1> HIDE DEF ladder, S
<1>4. chosen \in Seq(S)
  <2>1. SubSeq(ladder, 1, 1) \in Seq(S)
    <3>1. Len(ladder) >= 1
      BY <1>0, <1>2
    <3>2. QED
      BY <1>2, <3>1
  <2>2. QED
    BY <1>2, <2>1
<1> HIDE DEF chosen
<1>5. /\ ReorderForSticky(chosen, preferred) \in Seq(S)
      /\ \A n \in DOMAIN chosen : \E m \in DOMAIN ReorderForSticky(chosen, preferred) :
            ReorderForSticky(chosen, preferred)[m] = chosen[n]
  BY <1>4, ReorderKeepsTheRungs, SMTT(30)
<1>6. QED
  BY <1>1, <1>3, <1>5 DEF S

-----------------------------------------------------------------------------
(* The inductive invariant of the ladder *)

AnyRungs(p) == UNION {ToSet(AllRungs(p, net.proxy)) : net \in Networks}

\* Why a rung that was on the ladder is no longer to be tried.
IsLost(r) ==
    \/ ~IsAttemptable(r, network)
    \/ ~PinPasses(profile, r, network)
    \/ ~Carries(profile, r, network, LeftOutside(profile, walk.ladder, network))

ShapeInv ==
    /\ walk = [at |-> walk.at, ladder |-> walk.ladder, left |-> walk.left,
               outside |-> walk.outside, moved |-> walk.moved, gap |-> walk.gap]
    /\ walk.at \in {"none", "probe", "install", "rung", "dial", "up", "failed"}
    /\ walk.ladder \in Seq(AnyRungs(profile)) /\ walk.left \in Seq(AnyRungs(profile))
    /\ walk.at \in {"install", "rung", "dial", "up"} => walk.left # <<>>
    /\ walk.at \in {"none", "failed"} => walk.left = <<>>
    /\ walk.at = "none" => walk = NoWalk
    /\ walk.at # "none" => session.open

\* While the network stays the same, every rung of the profile is on the ladder by its
\* key, and each that is on the ladder is left to be tried or no use.
CoverInv ==
    walk.at # "none" /\ ~walk.moved =>
        /\ walk.ladder \in Seq(Reference)
        /\ profile.fallback.enabled =>
              \A r \in Reference : \E n \in DOMAIN walk.ladder :
                    DedupKey(walk.ladder[n]) = DedupKey(r)
        /\ walk.at \in {"rung", "dial"} =>
              walk.outside = LeftOutside(profile, walk.ladder, network)
        /\ walk.at \in {"install", "rung", "dial", "failed"} =>
              \A n \in DOMAIN walk.ladder :
                    \/ IsLost(walk.ladder[n])
                    \/ \E i \in DOMAIN walk.left : walk.left[i] = walk.ladder[n]

\* What is known of the rung in hand: its certificate since the check, and that it
\* carries once it is up.
HandInv ==
    /\ walk.at \in {"dial", "up"} /\ ~walk.gap => PinPasses(profile, RungUp, network)
    /\ walk.at = "up" => Carries(profile, RungUp, network, walk.outside)

WalkInv == profile \in Profiles /\ network \in Networks /\ ShapeInv /\ CoverInv /\ HandInv

\* A rung with the key and the Host header of one that works and is not misled works too.
LEMMA SameWay ==
    ASSUME NEW r, NEW q, DedupKey(q) = DedupKey(r), q.host_header = r.host_header,
           q.endpoint \in AllBypassIps(profile, walk.ladder),
           Works(profile, r, network), ~Misled(profile, r, network)
    PROVE  ~IsLost(q)
<1> DEFINE O == LeftOutside(profile, walk.ladder, network)
           a == LeadsTo(r, network)
<1>1. /\ r.endpoint = q.endpoint /\ r.port = q.port /\ r.scheme = q.scheme
      /\ r.force_hostile = q.force_hostile /\ r.proxy = q.proxy /\ r.pin_mode = q.pin_mode
      /\ r.host_header = q.host_header
  BY DEF DedupKey
<1>2. LeadsTo(q, network) = a /\ Direct(q) = Direct(r)
  BY <1>1 DEF LeadsTo, Direct
<1>3. Serves(r, a, network)
      /\ (Direct(r) /\ r.pin_mode # "none" => CertificateFits(profile, r, a, network))
  BY DEF Works
<1>4. Serves(q, a, network)
  BY <1>1, <1>3 DEF Serves
<1>5. Direct(r) /\ r.pin_mode # "none" => CertificateFits(profile, q, a, network)
  BY <1>1, <1>3 DEF CertificateFits
<1>6. CASE r.proxy # Empty
  <2>1. ~Direct(q)
    BY <1>1, <1>6 DEF Direct
  <2>2. IsAttemptable(q, network) /\ PinPasses(profile, q, network)
    BY <2>1 DEF IsAttemptable, PinPasses
  <2>3. Carries(profile, q, network, O)
    BY <1>1, <1>2, <1>4, <1>6 DEF Carries
  <2>4. QED
    BY <2>2, <2>3 DEF IsLost
<1>7. CASE r.proxy = Empty
  <2>1. /\ System(q.endpoint, network) = a
        /\ SystemInside(profile, q.endpoint, network) = a
        /\ Dialled(profile, r, network, O) = a
    BY <1>1, <1>7 DEF Misled
  <2>2. Dialled(profile, q, network, O) = a
    BY <1>1, <2>1 DEF Dialled
  <2>3. Answers(a, q.port, network)
    BY <1>1, <1>4, <1>7 DEF Serves
  <2>4. IsAttemptable(q, network)
    BY <2>1, <2>3 DEF IsAttemptable
  <2>5. PinPasses(profile, q, network)
    BY <1>1, <1>2, <1>5, <2>1, <2>3 DEF PinPasses, CheckPin
  <2>6. a \in O
    BY <2>1, <2>3 DEF LeftOutside, Answers
  <2>7. Carries(profile, q, network, O)
    BY <1>1, <1>4, <1>7, <2>2, <2>6 DEF Carries
  <2>8. QED
    BY <2>4, <2>5, <2>7 DEF IsLost
<1>8. QED
  BY <1>6, <1>7

LEMMA FoundIfItWorks ==
    ASSUME WalkInv PROVE WorkingRungIsFound
<1>1. SUFFICES ASSUME GivesUp, NEW r \in Reference, Works(profile, r, network),
                      ~Shadowed(r), ~Misled(profile, r, network)
               PROVE  FALSE
  BY DEF WorkingRungIsFound
<1>2. /\ walk.left = <<>>
      /\ walk.ladder \in Seq(Reference)
      /\ \E n \in DOMAIN walk.ladder : DedupKey(walk.ladder[n]) = DedupKey(r)
      /\ \A n \in DOMAIN walk.ladder :
            \/ IsLost(walk.ladder[n])
            \/ \E i \in DOMAIN walk.left : walk.left[i] = walk.ladder[n]
  BY <1>1 DEF WalkInv, ShapeInv, CoverInv, GivesUp
<1>3. PICK n \in DOMAIN walk.ladder : DedupKey(walk.ladder[n]) = DedupKey(r)
  BY <1>2
<1>4. walk.ladder[n] \in Reference
  BY <1>2, <1>3
<1>5. IsLost(walk.ladder[n])
  BY <1>2
<1>6. walk.ladder[n].host_header = r.host_header
  BY <1>1, <1>3, <1>4 DEF Shadowed
<1>7. walk.ladder[n].endpoint \in AllBypassIps(profile, walk.ladder)
  BY DEF AllBypassIps
<1>8. QED
  BY <1>1, <1>3, <1>5, <1>6, <1>7, SameWay

\* The rung in hand is the profile's own or one of its strategies.
LEMMA PinModes ==
    ASSUME profile \in Profiles, NEW r \in AnyRungs(profile), r.pin_mode \notin {"ca", "pin"}
    PROVE  r \in Exempt
<1>1. PICK net \in Networks : r \in ToSet(AllRungs(profile, net.proxy))
  BY DEF AnyRungs
<1>2. r \in Rungs(profile, net.proxy)
  BY <1>1, AllRungsType DEF ToSet
<1>3. DefaultPin(profile) \in {"ca", "pin"}
  BY DEF DefaultPin
<1>4. PICK s \in Range(profile.fallback.strategies) : r = ProvisionedRung(profile, s)
  BY <1>2, <1>3 DEF Rungs, OwnRung
<1>5. s.pin_mode = r.pin_mode
  BY <1>4 DEF ProvisionedRung
<1>6. QED
  BY <1>4, <1>5 DEF Exempt

LEMMA TrustOfTheRung ==
    ASSUME WalkInv PROVE TrustIsTheRungs
<1> DEFINE inside == SystemInside(profile, RungUp.endpoint, network)
           dialled == Dialled(profile, RungUp, network, walk.outside)
<1>1. SUFFICES ASSUME walk.at = "up", Direct(RungUp) PROVE TrustIsTheRungs
  BY DEF TrustIsTheRungs
<1>2. /\ RungUp \in AnyRungs(profile) /\ profile \in Profiles
      /\ Carries(profile, RungUp, network, walk.outside)
      /\ walk.gap \/ PinPasses(profile, RungUp, network)
  <2>1. walk.left \in Seq(AnyRungs(profile)) /\ walk.left # <<>>
    BY <1>1 DEF WalkInv, ShapeInv
  <2>2. RungUp \in AnyRungs(profile)
    BY <2>1 DEF RungUp
  <2>3. QED
    BY <1>1, <2>2 DEF WalkInv, HandInv
<1> HIDE DEF inside, dialled
<1>3. CASE RungUp.pin_mode = "ca"
  <2>1. Presented = "trusted"
    BY <1>1, <1>2, <1>3 DEF Carries, Serves, Direct, Presented
  <2>2. QED
    BY <1>3, <2>1 DEF TrustIsTheRungs
<1>4. CASE RungUp.pin_mode = "pin"
  <2>1. walk.gap \/ network.shows[inside] = "pinned" \/ network.allow_tls_intercept
    BY <1>1, <1>2, <1>4 DEF PinPasses, CheckPin, CertificateFits, inside
  <2>2. inside = dialled => network.shows[inside] = Presented
    BY DEF Presented, dialled
  <2>3. QED
    BY <1>4, <2>1, <2>2 DEF TrustIsTheRungs, inside, dialled
<1>5. CASE RungUp.pin_mode \notin {"ca", "pin"}
  BY <1>2, <1>5, PinModes DEF TrustIsTheRungs
<1>6. QED
  BY <1>3, <1>4, <1>5

-----------------------------------------------------------------------------
(* The steps of connect() *)

LEMMA WalkRecord ==
    ASSUME NEW w, w = [at |-> w.at, ladder |-> w.ladder, left |-> w.left,
                       outside |-> w.outside, moved |-> w.moved, gap |-> w.gap],
           NEW a, NEW b
    PROVE  /\ [w EXCEPT !.at = a] = [at |-> a, ladder |-> w.ladder, left |-> w.left,
                    outside |-> w.outside, moved |-> w.moved, gap |-> w.gap]
           /\ [w EXCEPT !.at = a, !.left = b] = [at |-> a, ladder |-> w.ladder, left |-> b,
                    outside |-> w.outside, moved |-> w.moved, gap |-> w.gap]
           /\ [w EXCEPT !.at = a, !.outside = b] = [at |-> a, ladder |-> w.ladder,
                    left |-> w.left, outside |-> b, moved |-> w.moved, gap |-> w.gap]
           /\ [w EXCEPT !.at = a, !.gap = b] = [at |-> a, ladder |-> w.ladder,
                    left |-> w.left, outside |-> w.outside, moved |-> w.moved, gap |-> b]
           /\ [w EXCEPT !.moved = a, !.gap = b] = [at |-> w.at, ladder |-> w.ladder,
                    left |-> w.left, outside |-> w.outside, moved |-> a, gap |-> b]
           /\ [w EXCEPT !.at = a, !.ladder = b] = [at |-> a, ladder |-> b,
                    left |-> w.left, outside |-> w.outside, moved |-> w.moved, gap |-> w.gap]
<1> DEFINE F == {"at", "ladder", "left", "outside", "moved", "gap"}
<1>1. DOMAIN w = F
  OBVIOUS
<1>2. [w EXCEPT !.at = a] = [at |-> a, ladder |-> w.ladder, left |-> w.left,
            outside |-> w.outside, moved |-> w.moved, gap |-> w.gap]
  <2>1. [w EXCEPT !.at = a] = [k \in F |-> IF k = "at" THEN a ELSE w[k]]
    BY <1>1
  <2>2. QED
    BY <2>1
<1>3. [w EXCEPT !.at = a, !.left = b] = [at |-> a, ladder |-> w.ladder, left |-> b,
            outside |-> w.outside, moved |-> w.moved, gap |-> w.gap]
  <2>1. [w EXCEPT !.at = a, !.left = b] = [k \in F |-> IF k = "at" THEN a ELSE IF k = "left" THEN b ELSE w[k]]
    BY <1>1
  <2>2. QED
    BY <2>1
<1>4. [w EXCEPT !.at = a, !.outside = b] = [at |-> a, ladder |-> w.ladder, left |-> w.left,
            outside |-> b, moved |-> w.moved, gap |-> w.gap]
  <2>1. [w EXCEPT !.at = a, !.outside = b] = [k \in F |-> IF k = "at" THEN a ELSE IF k = "outside" THEN b ELSE w[k]]
    BY <1>1
  <2>2. QED
    BY <2>1
<1>5. [w EXCEPT !.at = a, !.gap = b] = [at |-> a, ladder |-> w.ladder, left |-> w.left,
            outside |-> w.outside, moved |-> w.moved, gap |-> b]
  <2>1. [w EXCEPT !.at = a, !.gap = b] = [k \in F |-> IF k = "at" THEN a ELSE IF k = "gap" THEN b ELSE w[k]]
    BY <1>1
  <2>2. QED
    BY <2>1
<1>6. [w EXCEPT !.moved = a, !.gap = b] = [at |-> w.at, ladder |-> w.ladder, left |-> w.left,
            outside |-> w.outside, moved |-> a, gap |-> b]
  <2>1. [w EXCEPT !.moved = a, !.gap = b] = [k \in F |-> IF k = "moved" THEN a ELSE IF k = "gap" THEN b ELSE w[k]]
    BY <1>1
  <2>2. QED
    BY <2>1
<1>7. [w EXCEPT !.at = a, !.ladder = b] = [at |-> a, ladder |-> b, left |-> w.left,
            outside |-> w.outside, moved |-> w.moved, gap |-> w.gap]
  <2>1. [w EXCEPT !.at = a, !.ladder = b] = [k \in F |-> IF k = "at" THEN a ELSE IF k = "ladder" THEN b ELSE w[k]]
    BY <1>1
  <2>2. QED
    BY <2>1
<1>8. QED
  BY <1>2, <1>3, <1>4, <1>5, <1>6, <1>7

\* The definitions of a walk look at these variables alone.
LEMMA SameView ==
    ASSUME profile' = profile, network' = network
    PROVE  /\ Reference' = Reference
           /\ AnyRungs(profile)' = AnyRungs(profile)
           /\ walk'.ladder = walk.ladder => \A r : IsLost(r)' = IsLost(r)
BY DEF Reference, AnyRungs, IsLost

LEMMA NoWalkInv ==
    ASSUME profile' \in Profiles, network' \in Networks, walk' = NoWalk
    PROVE  WalkInv'
<1>1. walk'.at = "none" /\ walk'.ladder = <<>> /\ walk'.left = <<>>
  BY DEF NoWalk
<1>2. ShapeInv'
  BY <1>1 DEF ShapeInv, NoWalk
<1>3. CoverInv' /\ HandInv'
  BY <1>1 DEF CoverInv, HandInv
<1>4. QED
  BY <1>2, <1>3 DEF WalkInv

LEMMA ConnectBeginsInv ==
    ASSUME WalkInv, ConnectBegins PROVE WalkInv'
<1> DEFINE ladder == Tried(profile, network, session.preferred)
<1>1. /\ walk' = [NoWalk EXCEPT !.at = "probe", !.ladder = ladder]
      /\ profile' = profile /\ network' = network /\ session' = session /\ session.open
  BY DEF ConnectBegins, OnlyWalk
<1>2. profile \in Profiles /\ network \in Networks
  BY DEF WalkInv
<1>3. /\ ladder \in Seq(Reference)
      /\ profile.fallback.enabled =>
            \A r \in Reference : \E n \in DOMAIN ladder : DedupKey(ladder[n]) = DedupKey(r)
  BY <1>2, TriedType DEF Reference
<1> HIDE DEF ladder
<1>4. walk' = [at |-> "probe", ladder |-> ladder, left |-> <<>>, outside |-> {},
               moved |-> FALSE, gap |-> FALSE]
  BY <1>1 DEF NoWalk
<1>5. walk'.at = "probe" /\ walk'.ladder = ladder /\ walk'.left = <<>> /\ ~walk'.moved
  BY <1>4
<1>6. Reference' = Reference /\ AnyRungs(profile)' = AnyRungs(profile)
  BY <1>1, SameView
<1>7. Reference \in SUBSET AnyRungs(profile)
  BY <1>2 DEF Reference, AnyRungs
<1>8. ladder \in Seq(AnyRungs(profile))
  BY <1>3, <1>7
<1>9. ShapeInv'
  <2>1. walk' = [at |-> walk'.at, ladder |-> walk'.ladder, left |-> walk'.left,
                 outside |-> walk'.outside, moved |-> walk'.moved, gap |-> walk'.gap]
    BY <1>4
  <2>2. <<>> \in Seq(AnyRungs(profile))
    OBVIOUS
  <2> HIDE DEF ladder
  <2>3. QED
    BY <1>1, <1>5, <1>6, <1>8, <2>1, <2>2 DEF ShapeInv
<1>10. CoverInv' /\ HandInv'
  BY <1>1, <1>3, <1>5, <1>6 DEF CoverInv, HandInv
<1>11. QED
  BY <1>1, <1>2, <1>9, <1>10 DEF WalkInv

LEMMA PreflightInv ==
    ASSUME WalkInv, Preflight PROVE WalkInv'
<1> DEFINE left == Attemptable(walk.ladder, network)
           at == IF left = <<>> THEN "failed" ELSE "install"
           K == {i \in DOMAIN walk.ladder : IsAttemptable(walk.ladder[i], network)}
           S == AnyRungs(profile)
<1>1. /\ walk' = [walk EXCEPT !.at = at, !.left = left] /\ walk.at = "probe"
      /\ profile' = profile /\ network' = network /\ session' = session
  BY DEF Preflight, OnlyWalk
<1>2. left = Keep(walk.ladder, K)
  BY DEF Attemptable
<1>3. walk.ladder \in Seq(S) /\ K \in SUBSET (DOMAIN walk.ladder)
  BY DEF WalkInv, ShapeInv
<1> HIDE DEF S, K, left
<1>4. left \in Seq(S) /\ \A k \in K : \E i \in DOMAIN left : left[i] = walk.ladder[k]
  BY <1>2, <1>3, KeepType
<1>5. \A n \in DOMAIN walk.ladder : \/ ~IsAttemptable(walk.ladder[n], network)
                                    \/ \E i \in DOMAIN left : left[i] = walk.ladder[n]
  BY <1>4 DEF K
<1> HIDE DEF at
<1>6. walk' = [at |-> at, ladder |-> walk.ladder, left |-> left,
               outside |-> walk.outside, moved |-> walk.moved, gap |-> walk.gap]
  BY <1>1, WalkRecord DEF WalkInv, ShapeInv
<1>7. /\ walk'.at = at /\ walk'.ladder = walk.ladder /\ walk'.left = left
      /\ walk'.moved = walk.moved
  BY <1>6
<1>8. Reference' = Reference /\ S' = S /\ \A r : IsLost(r)' = IsLost(r)
  BY <1>1, <1>7, SameView DEF S
<1>9. at \in {"failed", "install"} /\ (at = "failed" <=> left = <<>>)
  BY DEF at
<1>10. ShapeInv'
  BY <1>1, <1>3, <1>4, <1>6, <1>7, <1>8, <1>9 DEF WalkInv, ShapeInv, S
<1>11. \A n \in DOMAIN walk.ladder : \/ IsLost(walk.ladder[n])
                                     \/ \E i \in DOMAIN left : left[i] = walk.ladder[n]
  BY <1>5 DEF IsLost
<1>12. CoverInv'
  BY <1>1, <1>7, <1>8, <1>9, <1>11 DEF WalkInv, CoverInv
<1>13. HandInv'
  BY <1>7, <1>9 DEF HandInv
<1>14. QED
  BY <1>1, <1>10, <1>12, <1>13 DEF WalkInv

LEMMA InstallRoutesInv ==
    ASSUME WalkInv, InstallRoutes PROVE WalkInv'
<1> DEFINE outside == LeftOutside(profile, walk.ladder, network)
<1>1. /\ walk' = [walk EXCEPT !.at = "rung", !.outside = outside] /\ walk.at = "install"
      /\ profile' = profile /\ network' = network /\ session' = session
  BY DEF InstallRoutes, OnlyWalk
<1>2. outside' = LeftOutside(profile, walk'.ladder, network)
  BY <1>1
<1>3. walk' = [at |-> "rung", ladder |-> walk.ladder, left |-> walk.left,
               outside |-> outside, moved |-> walk.moved, gap |-> walk.gap]
  BY <1>1, WalkRecord DEF WalkInv, ShapeInv
<1>4. /\ walk'.at = "rung" /\ walk'.ladder = walk.ladder /\ walk'.left = walk.left
      /\ walk'.moved = walk.moved /\ walk'.outside = outside
  BY <1>3
<1>5. /\ Reference' = Reference /\ AnyRungs(profile)' = AnyRungs(profile)
      /\ \A r : IsLost(r)' = IsLost(r)
  BY <1>1, <1>4, SameView
<1>6. ShapeInv'
  BY <1>1, <1>3, <1>4, <1>5 DEF WalkInv, ShapeInv
<1>7. CoverInv'
  BY <1>1, <1>2, <1>4, <1>5 DEF WalkInv, CoverInv
<1>8. HandInv'
  BY <1>4 DEF HandInv
<1>9. QED
  BY <1>1, <1>6, <1>7, <1>8 DEF WalkInv

\* A rung that was no use is left behind.
LEMMA NextRungInv ==
    ASSUME WalkInv, NextRung, walk.at \in {"rung", "dial"},
           ~walk.moved => IsLost(Head(walk.left))
    PROVE  WalkInv'
<1> DEFINE rest == Tail(walk.left)
           at == IF rest = <<>> THEN "failed" ELSE "rung"
           S == AnyRungs(profile)
<1>1. /\ walk' = [walk EXCEPT !.at = at, !.left = rest]
      /\ profile' = profile /\ network' = network /\ session' = session
  BY DEF NextRung, OnlyWalk
<1>2. walk.left \in Seq(S) /\ walk.left # <<>>
  BY DEF WalkInv, ShapeInv
<1> HIDE DEF S
<1>3. /\ rest \in Seq(S)
      /\ \A i \in DOMAIN walk.left : \/ walk.left[i] = Head(walk.left)
                                     \/ \E j \in DOMAIN rest : rest[j] = walk.left[i]
  <2>1. /\ rest \in Seq(S) /\ Len(walk.left) \in Nat /\ Len(walk.left) >= 1
        /\ DOMAIN walk.left = 1..Len(walk.left)
        /\ DOMAIN rest = 1..(Len(walk.left) - 1)
        /\ \A j \in DOMAIN rest : rest[j] = walk.left[j + 1]
    BY <1>2
  <2>2. ASSUME NEW i \in DOMAIN walk.left, i # 1
        PROVE  \E j \in DOMAIN rest : rest[j] = walk.left[i]
    <3>1. i - 1 \in DOMAIN rest /\ (i - 1) + 1 = i
      BY <2>1, <2>2
    <3>2. rest[i - 1] = walk.left[i]
      BY <2>1, <3>1
    <3>3. QED
      BY <3>1, <3>2
  <2>3. Head(walk.left) = walk.left[1]
    BY <1>2
  <2>4. QED
    BY <2>1, <2>2, <2>3
<1> HIDE DEF rest, at
<1>4. walk' = [at |-> at, ladder |-> walk.ladder, left |-> rest,
               outside |-> walk.outside, moved |-> walk.moved, gap |-> walk.gap]
  BY <1>1, WalkRecord DEF WalkInv, ShapeInv
<1>5. /\ walk'.at = at /\ walk'.ladder = walk.ladder /\ walk'.left = rest
      /\ walk'.moved = walk.moved /\ walk'.outside = walk.outside
  BY <1>4
<1>6. /\ Reference' = Reference /\ AnyRungs(profile)' = AnyRungs(profile)
      /\ \A r : IsLost(r)' = IsLost(r)
  BY <1>1, <1>5, SameView
<1>7. at \in {"failed", "rung"} /\ (at = "failed" <=> rest = <<>>)
  BY DEF at
<1>8. ShapeInv'
  BY <1>1, <1>3, <1>4, <1>5, <1>6, <1>7 DEF WalkInv, ShapeInv, S
<1>9. ASSUME ~walk.moved, NEW n \in DOMAIN walk.ladder
      PROVE  \/ IsLost(walk.ladder[n])
             \/ \E j \in DOMAIN rest : rest[j] = walk.ladder[n]
  <2>1. CASE IsLost(walk.ladder[n])
    BY <2>1
  <2>2. CASE \E i \in DOMAIN walk.left : walk.left[i] = walk.ladder[n]
    <3>1. PICK i \in DOMAIN walk.left : walk.left[i] = walk.ladder[n]
      BY <2>2
    <3>2. \/ walk.ladder[n] = Head(walk.left)
          \/ \E j \in DOMAIN rest : rest[j] = walk.ladder[n]
      BY <1>3, <3>1
    <3>3. QED
      BY <1>9, <3>2
  <2>3. QED
    BY <1>9, <2>1, <2>2 DEF WalkInv, CoverInv
<1>10. CoverInv'
  <2>1. LeftOutside(profile, walk.ladder, network)'
            = LeftOutside(profile, walk.ladder, network)
    BY <1>1, <1>5
  <2>2. CASE walk.moved
    BY <1>5, <2>2 DEF CoverInv
  <2>3. CASE ~walk.moved
    BY <1>1, <1>5, <1>6, <1>7, <1>9, <2>1, <2>3 DEF WalkInv, CoverInv
  <2>4. QED
    BY <2>2, <2>3
<1>11. HandInv'
  BY <1>5, <1>7 DEF HandInv
<1>12. QED
  BY <1>1, <1>8, <1>10, <1>11 DEF WalkInv

LEMMA CheckRungInv ==
    ASSUME WalkInv, CheckRung PROVE WalkInv'
<1>1. walk.at = "rung"
  BY DEF CheckRung
<1>2. CASE ~PinPasses(profile, Head(walk.left), network)
  <2>1. NextRung /\ IsLost(Head(walk.left))
    BY <1>2 DEF CheckRung, IsLost
  <2>2. QED
    BY <1>1, <2>1, NextRungInv
<1>3. CASE PinPasses(profile, Head(walk.left), network)
  <2>1. /\ walk' = [walk EXCEPT !.at = "dial", !.gap = FALSE]
        /\ profile' = profile /\ network' = network /\ session' = session
    BY <1>3 DEF CheckRung, OnlyWalk
  <2>2. walk' = [at |-> "dial", ladder |-> walk.ladder, left |-> walk.left,
                 outside |-> walk.outside, moved |-> walk.moved, gap |-> FALSE]
    BY <2>1, WalkRecord DEF WalkInv, ShapeInv
  <2>3. /\ walk'.at = "dial" /\ walk'.ladder = walk.ladder /\ walk'.left = walk.left
        /\ walk'.moved = walk.moved /\ walk'.outside = walk.outside /\ ~walk'.gap
    BY <2>2
  <2>4. /\ Reference' = Reference /\ AnyRungs(profile)' = AnyRungs(profile)
        /\ \A r : IsLost(r)' = IsLost(r)
    BY <2>1, <2>3, SameView
  <2>5. ShapeInv'
    BY <1>1, <2>1, <2>2, <2>3, <2>4 DEF WalkInv, ShapeInv
  <2>6. CoverInv'
    <3>1. LeftOutside(profile, walk.ladder, network)'
              = LeftOutside(profile, walk.ladder, network)
      BY <2>1, <2>3
    <3>2. QED
      BY <1>1, <2>1, <2>3, <2>4, <3>1 DEF WalkInv, CoverInv
  <2>7. HandInv'
    BY <1>3, <2>1, <2>3 DEF HandInv, RungUp
  <2>8. QED
    BY <2>1, <2>5, <2>6, <2>7 DEF WalkInv
<1>4. QED
  BY <1>2, <1>3

LEMMA DialFailsInv ==
    ASSUME WalkInv, DialFails PROVE WalkInv'
<1>1. walk.at = "dial" /\ NextRung
      /\ ~Carries(profile, Head(walk.left), network, walk.outside)
  BY DEF DialFails
<1>2. ~walk.moved => IsLost(Head(walk.left))
  BY <1>1 DEF WalkInv, CoverInv, IsLost
<1>3. QED
  BY <1>1, <1>2, NextRungInv

LEMMA DialSucceedsInv ==
    ASSUME WalkInv, DialSucceeds PROVE WalkInv'
<1>1. /\ walk' = [walk EXCEPT !.at = "up"] /\ walk.at = "dial"
      /\ Carries(profile, Head(walk.left), network, walk.outside)
      /\ profile' = profile /\ network' = network
      /\ session' = [session EXCEPT !.preferred = Head(walk.left).id]
  BY DEF DialSucceeds
<1>2. walk' = [at |-> "up", ladder |-> walk.ladder, left |-> walk.left,
               outside |-> walk.outside, moved |-> walk.moved, gap |-> walk.gap]
  BY <1>1, WalkRecord DEF WalkInv, ShapeInv
<1>3. /\ walk'.at = "up" /\ walk'.ladder = walk.ladder /\ walk'.left = walk.left
      /\ walk'.moved = walk.moved /\ walk'.outside = walk.outside /\ walk'.gap = walk.gap
  BY <1>2
<1>4. Reference' = Reference /\ AnyRungs(profile)' = AnyRungs(profile)
  BY <1>1, SameView
<1>5. session'.open = session.open
  BY <1>1
<1>6. ShapeInv'
  BY <1>1, <1>2, <1>3, <1>4, <1>5 DEF WalkInv, ShapeInv
<1>7. CoverInv'
  BY <1>1, <1>3, <1>4 DEF WalkInv, CoverInv
<1>8. HandInv'
  <2>1. RungUp' = RungUp /\ RungUp = Head(walk.left)
    BY <1>3 DEF RungUp
  <2>2. QED
    BY <1>1, <1>3, <2>1 DEF WalkInv, HandInv
<1>9. QED
  BY <1>1, <1>6, <1>7, <1>8 DEF WalkInv

LEMMA MoveInv ==
    ASSUME WalkInv, NEW net \in Networks, Move(net) PROVE WalkInv'
<1>1. network' = net /\ profile' = profile /\ session' = session /\ profile \in Profiles
  BY DEF Move, WalkInv
<1>2. CASE walk' = NoWalk
  BY <1>1, <1>2, NoWalkInv
<1>3. CASE /\ walk' = [walk EXCEPT !.moved = TRUE, !.gap = TRUE]
           /\ walk.at \notin {"none", "failed", "up"}
  <2>1. walk' = [at |-> walk.at, ladder |-> walk.ladder, left |-> walk.left,
                 outside |-> walk.outside, moved |-> TRUE, gap |-> TRUE]
    BY <1>3, WalkRecord DEF WalkInv, ShapeInv
  <2>2. /\ walk'.at = walk.at /\ walk'.ladder = walk.ladder /\ walk'.left = walk.left
        /\ walk'.moved /\ walk'.gap
    BY <2>1
  <2>3. AnyRungs(profile)' = AnyRungs(profile)
    BY <1>1 DEF AnyRungs
  <2>4. ShapeInv'
    <3>1. walk' = [at |-> walk'.at, ladder |-> walk'.ladder, left |-> walk'.left,
                   outside |-> walk'.outside, moved |-> walk'.moved, gap |-> walk'.gap]
      BY <2>1
    <3>2. QED
      BY <1>1, <1>3, <2>2, <2>3, <3>1 DEF WalkInv, ShapeInv
  <2>5. CoverInv' /\ HandInv'
    BY <1>3, <2>2 DEF CoverInv, HandInv
  <2>6. QED
    BY <1>1, <2>4, <2>5 DEF WalkInv
<1>4. QED
  BY <1>2, <1>3 DEF Move

LEMMA LadderInductive ==
    /\ LadderInit => WalkInv
    /\ WalkInv /\ [LadderNext]_ladderVars => WalkInv'
<1>1. ASSUME LadderInit PROVE WalkInv
  <2>1. /\ walk = NoWalk /\ walk.at = "none" /\ walk.ladder = <<>> /\ walk.left = <<>>
        /\ profile \in Profiles /\ network \in Networks
    BY <1>1 DEF LadderInit, NoWalk
  <2>2. ShapeInv
    BY <2>1 DEF ShapeInv, NoWalk
  <2>3. CoverInv /\ HandInv
    BY <2>1 DEF CoverInv, HandInv
  <2>4. QED
    BY <2>1, <2>2, <2>3 DEF WalkInv
<1>2. ASSUME WalkInv, [LadderNext]_ladderVars PROVE WalkInv'
  <2>1. profile \in Profiles /\ network \in Networks
    BY <1>2 DEF WalkInv
  <2>2. ASSUME walk' = walk, profile' = profile, network' = network,
               session'.open \/ session' = session
        PROVE  WalkInv'
    <3>1. /\ Reference' = Reference /\ AnyRungs(profile)' = AnyRungs(profile)
          /\ \A r : IsLost(r)' = IsLost(r)
      BY <2>2, SameView
    <3>2. ShapeInv'
      BY <1>2, <2>2, <3>1 DEF WalkInv, ShapeInv
    <3>3. CoverInv'
      BY <1>2, <2>2, <3>1 DEF WalkInv, CoverInv
    <3>4. HandInv'
      BY <1>2, <2>2 DEF WalkInv, HandInv, RungUp
    <3>5. QED
      BY <2>1, <2>2, <3>2, <3>3, <3>4 DEF WalkInv
  <2>3. CASE StartSession
    BY <2>2, <2>3 DEF StartSession
  <2>4. CASE ConnectStep
    BY <1>2, <2>4, ConnectBeginsInv, PreflightInv, InstallRoutesInv, CheckRungInv,
       DialFailsInv, DialSucceedsInv DEF ConnectStep
  <2>5. CASE EndSession
    BY <2>1, <2>5, NoWalkInv DEF EndSession
  <2>6. CASE StoreLost
    BY <2>2, <2>6 DEF StoreLost
  <2>7. ASSUME NEW net \in Networks, Move(net) PROVE WalkInv'
    BY <1>2, <2>7, MoveInv
  <2>8. ASSUME NEW p \in Profiles, ImportOther(p) PROVE WalkInv'
    <3>1. /\ walk.at = "none" /\ walk' = walk /\ walk.ladder \in Seq(AnyRungs(profile))
          /\ profile' = p /\ network' = network
      BY <1>2, <2>8 DEF ImportOther, WalkInv, ShapeInv
    <3>2. walk' = NoWalk
      BY <1>2, <3>1 DEF WalkInv, ShapeInv
    <3>3. QED
      BY <2>1, <2>8, <3>1, <3>2, NoWalkInv
  <2>9. CASE UNCHANGED ladderVars
    BY <2>2, <2>9 DEF ladderVars
  <2>10. QED
    BY <1>2, <2>3, <2>4, <2>5, <2>6, <2>7, <2>8, <2>9 DEF LadderNext
<1>3. QED
  BY <1>1, <1>2

LEMMA LadderInvariant == LadderSpec => []WalkInv
BY LadderInductive, PTL DEF LadderSpec

\* connect() gives up, on a network that stayed the same, only where each rung that works
\* is the duplicate of one with another Host header or is looked up in the wrong place:
\* whatever the profile, the networks and what is remembered of them.
THEOREM NoWayIsLost == LadderSpec => []WorkingRungIsFound
<1>1. WalkInv => WorkingRungIsFound
  BY FoundIfItWorks
<1>2. QED
  BY <1>1, LadderInvariant, PTL

\* A connection is made on the certificate its rung asks for, or on a rung that a strategy
\* of this very profile exempts; a pin alone has the gap between the probe and the dial.
THEOREM TrustIsNotCarriedOver == LadderSpec => []TrustIsTheRungs
<1>1. WalkInv => TrustIsTheRungs
  BY TrustOfTheRung
<1>2. QED
  BY <1>1, LadderInvariant, PTL
=============================================================================

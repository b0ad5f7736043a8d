------------------------------ MODULE Ed25519 -------------------------------
(***************************************************************************)
(* The signature check the client carries itself                           *)
(* (src/client/outwarp/minisign.py), over a small prime with the same      *)
(* congruences: P = 5 (mod 8), D no square, G of prime order Q.  A point   *)
(* is extended: <<x, y, z, t>> with x = X/Z, y = Y/Z, t = XY/Z.  A byte    *)
(* string of a point is its y and the sign of its x; the hash is any       *)
(* number.                                                                 *)
(***************************************************************************)
EXTENDS Integers, SequencesExt

CONSTANTS P, Q, D, GY, Hashes, Bits

Field == 0 .. P - 1
OnCurve(x, y) == (y * y - x * x - 1 - D * x * x * y * y) % P = 0

ASSUME CurveAssumption ==
    /\ P \in Nat /\ P % 8 = 5 /\ \A n \in 2 .. P - 1 : P % n # 0
    /\ \A x \in Field : (x * x - D) % P # 0
    /\ \E x \in Field : OnCurve(x, GY)

VARIABLE checked      \* the signature that is checked: the key, R, s and the hash
edVars == <<checked>>

-----------------------------------------------------------------------------
(* The code *)

Pow(x, e) == LET power[n \in 0..e] == IF n = 0 THEN 1 ELSE power[n - 1] * x % P IN power[e]
Inverted(x) == Pow(x, P - 2)
SqrtMinus1 == Pow(2, (P - 1) \div 4)

PointAdd(p, q) ==
    LET a == (p[2] - p[1]) * (q[2] - q[1]) % P
        b == (p[2] + p[1]) * (q[2] + q[1]) % P
        c == 2 * p[4] * q[4] * D % P
        d == 2 * p[3] * q[3] % P
    IN  <<(b - a) * (d - c) % P, (d + c) * (b + a) % P, (d - c) * (d + c) % P,
          (b - a) * (b + a) % P>>

Neutral == <<0, 1, 1, 0>>
\* Double and add, from the lowest bit.
PointMul(s, p) ==
    LET doubled[k \in 0..Bits] == IF k = 0 THEN p ELSE PointAdd(doubled[k - 1], doubled[k - 1])
        sum[k \in 0..Bits] == IF k = 0 THEN Neutral
                              ELSE IF (s \div 2 ^ (k - 1)) % 2 = 1
                                   THEN PointAdd(sum[k - 1], doubled[k - 1])
                                   ELSE sum[k - 1]
    IN  sum[Bits]

PointEqual(p, q) == (p[1] * q[3] - q[1] * p[3]) % P = 0 /\ (p[2] * q[3] - q[2] * p[3]) % P = 0

NoX == -1
\* A defect: the sign of the byte string is ignored.
RecoverXEven(y, sign) ==
    LET x2 == (y * y - 1) * Inverted(D * y * y + 1) % P
        roots == {x \in Field : (x * x - x2) % P = 0 /\ x % 2 = 0}
    IN  IF y >= P \/ roots = {} THEN NoX ELSE CHOOSE x \in roots : TRUE
RecoverX(y, sign) ==
    LET x2 == (y * y - 1) * Inverted(D * y * y + 1) % P
        root == Pow(x2, (P + 3) \div 8)
        x == IF (root * root - x2) % P = 0 THEN root ELSE root * SqrtMinus1 % P
    IN  IF y >= P THEN NoX
        ELSE IF x2 = 0 THEN IF sign = 1 THEN NoX ELSE 0
        ELSE IF (x * x - x2) % P # 0 THEN NoX
        ELSE IF x % 2 # sign THEN P - x ELSE x

PointDecompress(key) ==
    LET x == RecoverX(key.y, key.sign)
    IN  IF x = NoX THEN <<>> ELSE <<x, key.y, 1, x * key.y % P>>

GX == RecoverX(GY, 0)
G == <<GX, GY, 1, GX * GY % P>>

\* ed25519_verify: h is the hash of R, the key and the message.
Verify(key, r, s, h) ==
    LET a == PointDecompress(key)
        rr == PointDecompress(r)
    IN  /\ a # <<>> /\ rr # <<>> /\ s < Q
        /\ PointEqual(PointMul(s, G), PointAdd(rr, PointMul(h % Q, a)))

\* minisign.verify hands it a key, a signature and a text.
Strings == [y : 0..2 ^ Bits - 1, sign : {0, 1}]
EdInit == checked = <<>>
EdNext == /\ checked = <<>>
          /\ checked' \in [key : Strings, r : Strings, s : 0..Q, h : Hashes]

-----------------------------------------------------------------------------
(* The reference: the curve in plain coordinates, and addition repeated *)

Div(a, b) == CHOOSE c \in Field : (c * b - a) % P = 0
AddRef(p, q) ==
    LET t == (((D * p[1] * q[1]) % P) * ((p[2] * q[2]) % P)) % P
    IN  <<Div(p[1] * q[2] + q[1] * p[2], 1 + t), Div(p[2] * q[2] + p[1] * q[1], 1 - t)>>
TimesRef(n, p) ==
    LET sum[k \in 0..n] == IF k = 0 THEN <<0, 1>> ELSE AddRef(sum[k - 1], p) IN sum[n]
Denotes(key) == {p \in Field \X (Field \cap {key.y}) : OnCurve(p[1], p[2]) /\ p[1] % 2 = key.sign}

\* A signature is accepted exactly if both byte strings denote points of the
\* curve, s is reduced and s G = R + h A: the extended coordinates, the
\* square root and the double-and-add leave nothing out.
VerifyIsEquation ==
    checked # <<>> =>
    (Verify(checked.key, checked.r, checked.s, checked.h) <=>
        /\ checked.s < Q
        /\ \E a \in Denotes(checked.key), r \in Denotes(checked.r) :
              TimesRef(checked.s, <<GX, GY>>) = AddRef(r, TimesRef(checked.h % Q, a)))
=============================================================================

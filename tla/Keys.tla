-------------------------------- MODULE Keys --------------------------------
(***************************************************************************)
(* is_acceptable_key of muhuri/keys.py: decoding a public key to a point   *)
(* of the curve -x^2 + y^2 = 1 + d x^2 y^2, doubling it three times in     *)
(* extended coordinates and refusing it when the result is the identity.   *)
(* The arithmetic is the code's, over a prime P of the same class modulo 8 *)
(* as 2^255 - 19, on a curve of 8 * L points, L prime, as the code's; a    *)
(* key is the number its bytes spell, of one sign bit above Bits bits.     *)
(* The cache in front of it, which repeats verdicts, is left out.          *)
(***************************************************************************)
EXTENDS Integers, Sequences, FiniteSets

CONSTANTS
    P, D,       \* _P and _D
    Bits,       \* 255 in the code
    L,          \* the order of the prime subgroup
    Short       \* a key that is not of 32 bytes, or no bytes

Field == 0..(P - 1)

ASSUME PrimeAssumption ==
    P \in Nat /\ P % 8 = 5 /\ P < 2^Bits /\ 2^Bits \in Nat
    /\ \A m \in 2..(P - 1) : P % m # 0
ASSUME CurveAssumption == D \in Field /\ \A x \in Field : (x * x) % P # D
ASSUME ShortAssumption == Short \notin Nat

VARIABLES
    pub,        \* the key asked about
    pc,         \* "idle", "decode", "double", "torsion", "accept", "refuse"
    point,      \* <<X, Y, Z, T>>, the decoded point and its doubles
    doubled     \* how many times it was doubled

vars == <<pub, pc, point, doubled>>

NoPoint == <<>>
Encodings == 0..(2 * 2^Bits - 1)

-----------------------------------------------------------------------------
(* _decode_point. *)

\* pow(b, e, _P)
Pow(b, e) == LET f[n \in 0..e] == IF n = 0 THEN 1 ELSE (b * f[n - 1]) % P IN f[e]

\* Modulo such a prime 2 has no root, so that this is a root of -1.
RootOfMinusOne == Pow(2, (P - 1) \div 4)

Sign(n) == n \div 2^Bits
YOf(n) == n % 2^Bits
Canonical(n) == YOf(n) < P

\* x^2 = (y^2 - 1) / (d y^2 + 1), and the candidate for its root.
XX(y) == ((y * y - 1) * Pow((D * y * y + 1) % P, P - 2)) % P
IsRoot(x, y) == (x * x - XX(y)) % P = 0
Candidate(y) == Pow(XX(y), (P + 3) \div 8)
Root(y) ==
    IF IsRoot(Candidate(y), y) THEN Candidate(y)
    ELSE (Candidate(y) * RootOfMinusOne) % P

\* The point, or nothing: no root, or a sign on x = 0.
Decode(n) ==
    LET y == YOf(n)
        x == IF Root(y) % 2 = Sign(n) THEN Root(y) ELSE (P - Root(y)) % P
    IN  IF ~Canonical(n) \/ ~IsRoot(Root(y), y) \/ (Root(y) = 0 /\ Sign(n) = 1) THEN NoPoint
        ELSE <<x, y, 1, (x * y) % P>>

-----------------------------------------------------------------------------
(* _double and _is_torsion. *)

DoubleCurveSign(q) ==                               \* faulty variant: the formula of a = 1
    LET A == (q[1] * q[1]) % P
        B == (q[2] * q[2]) % P
        E == ((q[1] + q[2]) * (q[1] + q[2]) - A - B) % P
        G == (B + A) % P
        F == (G - 2 * q[3] * q[3]) % P
        H == (A - B) % P
    IN  <<(E * F) % P, (G * H) % P, (F * G) % P, (E * H) % P>>
DoubleUnreduced(q) ==                               \* faulty variant: not reduced
    LET A == (q[1] * q[1]) % P
        B == (q[2] * q[2]) % P
        E == (q[1] + q[2]) * (q[1] + q[2]) - A - B
        F == B - A - 2 * q[3] * q[3]
    IN  <<E * F, (B - A) * (-A - B), F * (B - A), E * (-A - B)>>
Double(q) ==
    LET A == (q[1] * q[1]) % P
        B == (q[2] * q[2]) % P
        C == (2 * q[3] * q[3]) % P
        E == ((q[1] + q[2]) * (q[1] + q[2]) - A - B) % P
        G == (B - A) % P
        F == (G - C) % P
        H == (-A - B) % P
    IN  <<(E * F) % P, (G * H) % P, (F * G) % P, (E * H) % P>>

\* The identity is (0 : 1 : 1 : 0).
IsIdentity(q) == q[1] = 0 /\ (q[2] - q[3]) % P = 0

DoublingsFour == 2                                  \* faulty variant: [4]P for [8]P
Doublings == 3

-----------------------------------------------------------------------------

Init == pub = Short /\ pc = "idle" /\ point = NoPoint /\ doubled = 0

\* is_acceptable_key: other lengths and types are refused at once.
Begin(n) ==
    /\ pc = "idle"
    /\ pub' = n
    /\ pc' = IF n = Short THEN "refuse" ELSE "decode"
    /\ UNCHANGED <<point, doubled>>

DecodePoint ==
    /\ pc = "decode"
    /\ point' = Decode(pub)
    /\ pc' = IF Decode(pub) = NoPoint THEN "refuse" ELSE "double"
    /\ UNCHANGED <<pub, doubled>>

DoublePoint ==
    /\ pc = "double" /\ doubled < Doublings
    /\ point' = Double(point)
    /\ doubled' = doubled + 1
    /\ UNCHANGED <<pub, pc>>

Judge ==
    /\ pc = "double" /\ doubled = Doublings
    /\ pc' = IF IsIdentity(point) THEN "refuse" ELSE "accept"
    /\ UNCHANGED <<pub, point, doubled>>

Return ==
    /\ pc \in {"accept", "refuse"}
    /\ pub' = Short /\ pc' = "idle" /\ point' = NoPoint /\ doubled' = 0

Next ==
    \/ \E n \in Encodings \cup {Short} : Begin(n)
    \/ DecodePoint \/ DoublePoint \/ Judge \/ Return

Spec == Init /\ [][Next]_vars

-----------------------------------------------------------------------------
(* The curve and its group, point by point. *)

Curve == {q \in Field \X Field :
            (q[2] * q[2] - q[1] * q[1] - 1 - D * q[1] * q[1] * q[2] * q[2]) % P = 0}
Identity == <<0, 1>>
Div(a, b) == CHOOSE c \in Field : (b * c - a) % P = 0
Plus(q, r) ==
    LET dxy == D * ((q[1] * r[1] * q[2] * r[2]) % P)
    IN  <<Div(q[1] * r[2] + q[2] * r[1], 1 + dxy), Div(q[2] * r[2] + q[1] * r[1], 1 - dxy)>>
Times(n, q) == LET f[m \in 0..n] == IF m = 0 THEN Identity ELSE Plus(q, f[m - 1]) IN f[n]
Encode(q) == q[2] + (q[1] % 2) * 2^Bits

ASSUME OrderAssumption == Cardinality(Curve) = 8 * L

TypeOK ==
    /\ pub \in Encodings \cup {Short}
    /\ pc \in {"idle", "decode", "double", "accept", "refuse"}
    /\ point = NoPoint \/ point \in Field \X Field \X Field \X Field
    /\ doubled \in 0..Doublings

\* The four coordinates always are those of the multiple they stand for: after
\* k doublings the quotients by Z are 2^k times the decoded point, by the
\* group's own addition, and T keeps X Y / Z; Z is never 0, so the last
\* comparison with the identity says what it means.
DoublesArePoints ==
    point # NoPoint =>
        LET q == <<Div(point[1], point[3]), Div(point[2], point[3])>>
        IN  /\ point[3] # 0
            /\ q \in Curve
            /\ (point[1] * point[2] - point[3] * point[4]) % P = 0
            /\ \E base \in Curve : Encode(base) = pub /\ q = Times(2^doubled, base)

\* Exactly the right keys (CRYPTO-1, FRESH-1): a key is accepted when it is the
\* encoding of a point of the curve whose eightfold is not the identity; any
\* other number, one that means such a point with y or the sign written in
\* another way included, is refused.
AcceptsExactly ==
    /\ pc = "accept" => \E q \in Curve : pub = Encode(q) /\ Times(8, q) # Identity
    /\ pc = "refuse" => \A q \in Curve : pub = Encode(q) => Times(8, q) = Identity
=============================================================================

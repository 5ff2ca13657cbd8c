----------------------------- MODULE KeysProofs -----------------------------
(***************************************************************************)
(* Proofs about Keys.tla, for every prime P and every D that its           *)
(* assumptions admit, 2^255 - 19 among them: the key check accepts exactly *)
(* the encodings of points whose eightfold is not the identity.            *)
(*                                                                         *)
(* The arithmetic is that of integers congruent modulo P.  A prime has     *)
(* inverses, and Fermat's theorem says that pow(b, P - 2, P) is one, so    *)
(* the code's quotient and its candidate for a root are what they are      *)
(* taken for.  The denominators of the group's addition are never 0,       *)
(* because D and -D have no root; so a sum is a point, doubling keeps the  *)
(* four coordinates those of a point, and q + (q + r) is (q + q) + r,      *)
(* which makes three doublings of a point its eightfold.                   *)
(***************************************************************************)
EXTENDS Keys, FiniteSetTheorems, FunctionTheorems, WellFoundedInduction, TLAPS

-----------------------------------------------------------------------------
(* Congruence modulo P. *)

a \cong b == \E k \in Int : a - b = k * P

LEMMA Prime == P \in Nat /\ P > 4 /\ P % 2 = 1
<1>1. P \in Nat /\ P % 8 = 5
    BY PrimeAssumption
<1>2. P = 8 * (P \div 8) + 5 /\ P \div 8 \in Nat
    BY <1>1
<1> QED
    BY <1>1, <1>2

LEMMA Reduced ==
    ASSUME NEW a \in Int
    PROVE  a % P \in Field /\ a % P \in Int /\ a % P \cong a
<1>1. P \in Nat \ {0}
    BY Prime
<1>2. a = P * (a \div P) + (a % P) /\ a % P \in 0..(P - 1) /\ a \div P \in Int
    BY <1>1
<1>3. (a % P) - a = (-(a \div P)) * P
    BY <1>1, <1>2
<1> QED
    BY <1>2, <1>3 DEF Field, \cong

LEMMA Multiple ==
    ASSUME NEW a \in Int
    PROVE  a % P = 0 <=> a \cong 0
<1>1. P \in Nat \ {0}
    BY Prime
<1>2. a = P * (a \div P) + (a % P) /\ a \div P \in Int
    BY <1>1
<1>3. \A k \in Int : (k * P) % P = 0
    BY <1>1
<1>4. a - 0 = a
    OBVIOUS
<1>5. a % P = 0 => a = (a \div P) * P
    BY <1>1, <1>2
<1> QED
    BY <1>2, <1>3, <1>4, <1>5 DEF \cong

LEMMA Difference ==
    ASSUME NEW a \in Int, NEW b \in Int
    PROVE  (a - b) % P = 0 <=> a \cong b
<1>1. a - b \in Int /\ (a - b) - 0 = a - b
    OBVIOUS
<1> QED
    BY <1>1, Multiple DEF \cong

LEMMA Same ==
    ASSUME NEW a \in Int
    PROVE  a \cong a
<1>1. a - a = 0 * P
    BY Prime
<1> QED
    BY <1>1 DEF \cong

LEMMA Swap ==
    ASSUME NEW a \in Int, NEW b \in Int, a \cong b
    PROVE  b \cong a
<1>1. PICK k \in Int : a - b = k * P
    BY DEF \cong
<1>2. b - a = (-k) * P
    BY <1>1, Prime
<1> QED
    BY <1>2 DEF \cong

LEMMA Chain ==
    ASSUME NEW a \in Int, NEW b \in Int, NEW c \in Int, a \cong b, b \cong c
    PROVE  a \cong c
<1>1. PICK k \in Int : a - b = k * P
    BY DEF \cong
<1>2. PICK m \in Int : b - c = m * P
    BY DEF \cong
<1>3. a - c = (k + m) * P /\ k + m \in Int
    BY <1>1, <1>2, Prime
<1> QED
    BY <1>3 DEF \cong

LEMMA Sum ==
    ASSUME NEW a \in Int, NEW b \in Int, NEW c \in Int, NEW d \in Int, a \cong b, c \cong d
    PROVE  a + c \cong b + d /\ a - c \cong b - d
<1>1. PICK k \in Int : a - b = k * P
    BY DEF \cong
<1>2. PICK m \in Int : c - d = m * P
    BY DEF \cong
<1>3. (a + c) - (b + d) = (k + m) * P /\ k + m \in Int
    BY <1>1, <1>2, Prime
<1>4. (a - c) - (b - d) = (k - m) * P /\ k - m \in Int
    BY <1>1, <1>2, Prime
<1> QED
    BY <1>3, <1>4 DEF \cong

LEMMA Product ==
    ASSUME NEW a \in Int, NEW b \in Int, NEW c \in Int, NEW d \in Int, a \cong b, c \cong d
    PROVE  a * c \cong b * d
<1>1. PICK k \in Int : a - b = k * P
    BY DEF \cong
<1>2. PICK m \in Int : c - d = m * P
    BY DEF \cong
<1>3. a * c - b * d = (a - b) * c + b * (c - d)
    OBVIOUS
<1>4. (k * P) * c + b * (m * P) = (k * c + b * m) * P
    BY Prime
<1>5. a * c - b * d = (k * c + b * m) * P /\ k * c + b * m \in Int
    BY <1>1, <1>2, <1>3, <1>4
<1> QED
    BY <1>5 DEF \cong

LEMMA Scale ==
    ASSUME NEW a \in Int, NEW b \in Int, NEW c \in Int, b \cong c
    PROVE  a * b \cong a * c /\ b * a \cong c * a
BY Same, Product

LEMMA FieldIsNat == Field \subseteq Nat /\ Field \subseteq Int /\ 0 \in Field /\ 1 \in Field
BY Prime DEF Field

\* Members of the field are congruent only to themselves.
LEMMA Unique ==
    ASSUME NEW a \in Field, NEW b \in Field, a \cong b
    PROVE  a = b
<1>1. PICK k \in Int : a - b = k * P
    BY DEF \cong
<1>2. a - b < P /\ a - b > -P /\ P > 0 /\ a \in Int /\ b \in Int /\ P \in Int
    BY Prime DEF Field
<1>3. CASE k >= 1
  <2>1. k * P >= P
    BY <1>2, <1>3
  <2> QED
    BY <1>1, <1>2, <2>1
<1>4. CASE k <= -1
  <2>1. k * P <= -P
    BY <1>2, <1>4
  <2> QED
    BY <1>1, <1>2, <2>1
<1>5. CASE k = 0
  <2>1. a - b = 0
    BY <1>1, <1>2, <1>5
  <2> QED
    BY <1>2, <2>1
<1> QED
    BY <1>3, <1>4, <1>5

LEMMA SameRemainder ==
    ASSUME NEW a \in Int, NEW b \in Int
    PROVE  a % P = b % P <=> a \cong b
<1>1. a % P \in Field /\ b % P \in Field /\ a % P \in Int /\ b % P \in Int
      /\ a % P \cong a /\ b % P \cong b
    BY Reduced
<1>2. a \cong a % P /\ b \cong b % P
    BY <1>1, Swap
<1>3. a % P = b % P => a \cong b
    BY <1>1, <1>2, Chain
<1>4. a \cong b => a % P = b % P
  <2> SUFFICES ASSUME a \cong b PROVE a % P = b % P
    OBVIOUS
  <2>1. a % P \cong b
    BY <1>1, Chain
  <2>2. a % P \cong b % P
    BY <1>1, <1>2, <2>1, Chain
  <2> QED
    BY <1>1, <2>2, Unique
<1> QED
    BY <1>3, <1>4

-----------------------------------------------------------------------------
(* Induction, for sets of naturals. *)

LEMMA LeastIsIn ==
    ASSUME NEW S, S \subseteq Nat, S # {}
    PROVE  \E k \in S : \A m \in S : k <= m
<1> DEFINE Less == OpToRel(<, Nat)
<1>1. \A k, m \in Nat : m < k => <<m, k>> \in Less
  BY DEF OpToRel
<1>2. IsWellFoundedOn(Less, Nat)
  BY NatLessThanWellFounded
<1> HIDE DEF Less
<1>3. \E k \in S : \A m \in S : ~(<<m, k>> \in Less)
  BY <1>2, WFMin
<1>4. PICK k \in S : \A m \in S : ~(<<m, k>> \in Less)
  BY <1>3
<1>5. ASSUME NEW m \in S PROVE k <= m
  <2>1. k \in Nat /\ m \in Nat /\ ~(m < k)
    BY <1>1, <1>4, Zenon
  <2> QED BY <2>1
<1> QED BY <1>5

LEMMA Induction ==
    ASSUME NEW S, 0 \in S, \A n \in Nat : n \in S => n + 1 \in S
    PROVE  \A n \in Nat : n \in S
<1> DEFINE Bad == Nat \ S
<1>1. SUFFICES ASSUME Bad # {} PROVE FALSE
    OBVIOUS
<1>2. PICK n \in Bad : \A m \in Bad : n <= m
    BY <1>1, LeastIsIn
<1>3. n # 0
    BY <1>2
<1>4. n - 1 \in Nat /\ (n - 1) + 1 = n /\ n - 1 \in S
    BY <1>2, <1>3
<1> QED
    BY <1>2, <1>4

-----------------------------------------------------------------------------
(* pow(b, e, P). *)

Powers(f, b, e) ==
    /\ f \in [0..e -> Field] /\ f[0] = 1
    /\ \A n \in 1..e : f[n] = (b * f[n - 1]) % P

LEMMA PowersExist ==
    ASSUME NEW b \in Int
    PROVE  \A e \in Nat : \E f : Powers(f, b, e)
<1> DEFINE S == {e \in Nat : \E f : Powers(f, b, e)}
<1>1. 0 \in S
  <2> DEFINE f == [n \in 0..0 |-> 1]
  <2>1. 1 \in Field
    BY Prime DEF Field
  <2>2. Powers(f, b, 0)
    BY <2>1 DEF Powers
  <2> QED
    BY <2>2
<1>2. ASSUME NEW e \in Nat, e \in S PROVE e + 1 \in S
  <2>1. PICK f : Powers(f, b, e)
    BY <1>2
  <2> DEFINE g == [n \in 0..(e + 1) |-> IF n = e + 1 THEN (b * f[e]) % P ELSE f[n]]
  <2>2. \A n \in 0..e : f[n] \in Field /\ g[n] = f[n]
    BY <2>1 DEF Powers
  <2>3. (b * f[e]) % P \in Field
    <3> HIDE DEF g
    <3>1. e \in 0..e /\ f[e] \in Field
      BY <2>2
    <3>2. f[e] \in Int
      BY <3>1, FieldIsNat
    <3>3. b * f[e] \in Int
      BY <3>2
    <3> QED
      BY <3>3, Reduced
  <2>4. g \in [0..(e + 1) -> Field] /\ g[0] = 1
    BY <2>1, <2>2, <2>3 DEF Powers
  <2>5. ASSUME NEW n \in 1..(e + 1) PROVE g[n] = (b * g[n - 1]) % P
    <3>1. n - 1 \in 0..e /\ g[n - 1] = f[n - 1]
      BY <2>2
    <3>2. CASE n = e + 1
      BY <3>1, <3>2
    <3>3. CASE n # e + 1
      <4>1. n \in 1..e /\ n \in 0..e
        BY <3>3
      <4> QED
        BY <4>1, <3>1, <2>1, <2>2 DEF Powers
    <3> QED
      BY <3>2, <3>3
  <2>6. Powers(g, b, e + 1)
    <3> HIDE DEF g
    <3> QED
      BY <2>4, <2>5 DEF Powers
  <2> QED
    BY <2>6
<1> HIDE DEF S
<1>3. \A e \in Nat : e \in S
    BY <1>1, <1>2, Induction
<1> QED
    BY <1>3 DEF S

\* Whatever function satisfies the definition of pow has these values.
LEMMA PowIsPower ==
    ASSUME NEW b \in Int, NEW e \in Nat, NEW f, Powers(f, b, e)
    PROVE  Pow(b, e) = f[e]
<1> DEFINE Fits(g) == g = [n \in 0..e |-> IF n = 0 THEN 1 ELSE (b * g[n - 1]) % P]
           h == CHOOSE g : Fits(g)
<1>1. Pow(b, e) = h[e]
    BY DEF Pow
<1>2. Fits(f)
  <2>1. \A n \in 0..e : f[n] = IF n = 0 THEN 1 ELSE (b * f[n - 1]) % P
    BY DEF Powers
  <2>2. f = [n \in 0..e |-> f[n]]
    BY DEF Powers
  <2> QED
    BY <2>1, <2>2
<1>3. Fits(h)
  <2> HIDE DEF Fits
  <2> QED
    BY <1>2
<1> HIDE DEF h
<1> DEFINE S == {n \in Nat : n \in 0..e => h[n] = f[n]}
<1>4. h[0] = 1 /\ \A n \in 0..e : n # 0 => h[n] = (b * h[n - 1]) % P
    BY <1>3
<1>5. 0 \in S
    BY <1>4 DEF Powers
<1>6. ASSUME NEW n \in Nat, n \in S PROVE n + 1 \in S
  <2> SUFFICES ASSUME n + 1 \in 0..e PROVE h[n + 1] = f[n + 1]
    OBVIOUS
  <2>1. n \in 0..e /\ n + 1 \in 1..e /\ n + 1 # 0 /\ (n + 1) - 1 = n
    OBVIOUS
  <2>2. h[n] = f[n]
    BY <1>6, <2>1
  <2>3. h[n + 1] = (b * h[n]) % P
    BY <1>4, <2>1
  <2>4. f[n + 1] = (b * f[n]) % P
    BY <2>1 DEF Powers
  <2> QED
    BY <2>2, <2>3, <2>4
<1> HIDE DEF S
<1>7. \A n \in Nat : n \in S
    BY <1>5, <1>6, Induction
<1> QED
    BY <1>1, <1>7 DEF S

LEMMA PowStep ==
    ASSUME NEW b \in Int, NEW e \in Nat
    PROVE  /\ Pow(b, 0) = 1 /\ Pow(b, e) \in Field /\ Pow(b, e) \in Int
           /\ Pow(b, e + 1) \in Int /\ Pow(b, e + 1) \cong b * Pow(b, e)
<1>1. PICK f : Powers(f, b, e + 1)
    BY PowersExist
<1> DEFINE g == [n \in 0..e |-> f[n]]
<1>2. Powers(g, b, e)
  <2>1. \A n \in 0..e : n \in 0..(e + 1)
    OBVIOUS
  <2>2. \A n \in 1..e : n - 1 \in 0..e /\ n \in 0..e /\ n \in 1..(e + 1)
    OBVIOUS
  <2> QED
    BY <1>1, <2>1, <2>2 DEF Powers
<1>3. g[e] = f[e] /\ Pow(b, e) = g[e] /\ Pow(b, e + 1) = f[e + 1]
    BY <1>1, <1>2, PowIsPower
<1>4. Pow(b, 0) = 1
  <2>1. PICK z : Powers(z, b, 0)
    BY PowersExist
  <2> QED
    BY <2>1, PowIsPower DEF Powers
<1>5. f[e] \in Field /\ f[e + 1] = (b * f[e]) % P /\ f[e] \in Int
  <2>1. e + 1 \in 1..(e + 1) /\ (e + 1) - 1 = e /\ e \in 0..(e + 1)
    OBVIOUS
  <2> QED
    BY <1>1, <2>1 DEF Powers, Field
<1>6. b * f[e] \in Int
    BY <1>5
<1> QED
    BY <1>3, <1>4, <1>5, <1>6, Reduced

LEMMA PowSum ==
    ASSUME NEW b \in Int, NEW m \in Nat
    PROVE  \A n \in Nat : Pow(b, m + n) \cong Pow(b, m) * Pow(b, n)
<1> DEFINE S == {n \in Nat : Pow(b, m + n) \cong Pow(b, m) * Pow(b, n)}
<1>1. \A e \in Nat : Pow(b, e) \in Int /\ Pow(b, e + 1) \cong b * Pow(b, e)
    BY PowStep
<1>2. 0 \in S
  <2>1. Pow(b, m + 0) = Pow(b, m) * Pow(b, 0) /\ Pow(b, m + 0) \in Int
    BY <1>1, PowStep
  <2> QED
    BY <2>1, Same
<1>3. ASSUME NEW n \in Nat, n \in S PROVE n + 1 \in S
  <2> DEFINE p == Pow(b, m)
             q == Pow(b, n)
             r == Pow(b, m + n)
             s == Pow(b, n + 1)
  <2>1. p \in Int /\ q \in Int /\ r \in Int /\ s \in Int /\ Pow(b, m + (n + 1)) \in Int
      /\ m + n \in Nat /\ m + (n + 1) = (m + n) + 1
    BY <1>1
  <2>2. s \cong b * q /\ Pow(b, m + (n + 1)) \cong b * r /\ r \cong p * q
    BY <1>1, <1>3, <2>1
  <2> HIDE DEF p, q, r, s
  <2>3. b * r \cong b * (p * q)
    <3>1. p * q \in Int
      BY <2>1
    <3> QED
      BY <2>1, <2>2, <3>1, Scale
  <2>4. p * s \cong p * (b * q)
    <3>1. b * q \in Int
      BY <2>1
    <3> QED
      BY <2>1, <2>2, <3>1, Scale
  <2>5. b * (p * q) = p * (b * q)
    BY <2>1
  <2>6. b * (p * q) \cong p * s
    <3>1. p * s \in Int /\ p * (b * q) \in Int
      BY <2>1
    <3> QED
      BY <2>4, <2>5, <3>1, Swap
  <2>7. b * r \in Int /\ b * (p * q) \in Int /\ p * s \in Int
    BY <2>1
  <2>8. Pow(b, m + (n + 1)) \cong b * (p * q)
    BY <2>1, <2>2, <2>3, <2>7, Chain
  <2>9. Pow(b, m + (n + 1)) \cong p * s
    BY <2>1, <2>6, <2>7, <2>8, Chain
  <2> QED
    BY <2>9 DEF p, s
<1> HIDE DEF S
<1>4. \A n \in Nat : n \in S
    BY <1>2, <1>3, Induction
<1> QED
    BY <1>4 DEF S

LEMMA PowOfCongruent ==
    ASSUME NEW a \in Int, NEW b \in Int, a \cong b
    PROVE  \A n \in Nat : Pow(a, n) = Pow(b, n)
<1> DEFINE S == {n \in Nat : Pow(a, n) = Pow(b, n)}
<1>1. 0 \in S
    BY PowStep
<1>2. ASSUME NEW n \in Nat, n \in S PROVE n + 1 \in S
  <2> DEFINE p == Pow(a, n)
             q == Pow(a, n + 1)
             r == Pow(b, n + 1)
  <2>1. p \in Int /\ q \in Field /\ q \in Int /\ r \in Field /\ r \in Int
      /\ q \cong a * p /\ r \cong b * p
    BY <1>2, PowStep
  <2> HIDE DEF p, q, r
  <2>2. a * p \cong b * p /\ a * p \in Int /\ b * p \in Int
    <3>1. a * p \in Int /\ b * p \in Int
      BY <2>1
    <3>2. p * a \cong p * b /\ a * p \cong b * p
      BY <2>1, Scale
    <3> QED
      BY <3>1, <3>2
  <2>3. b * p \cong r
    BY <2>1, <2>2, Swap
  <2>4. q \cong b * p
    BY <2>1, <2>2, Chain
  <2>5. q \cong r
    BY <2>1, <2>2, <2>3, <2>4, Chain
  <2> QED
    BY <2>1, <2>5, Unique DEF q, r
<1> HIDE DEF S
<1>3. \A n \in Nat : n \in S
    BY <1>1, <1>2, Induction
<1> QED
    BY <1>3 DEF S

LEMMA PowOfPow ==
    ASSUME NEW b \in Int, NEW m \in Nat
    PROVE  \A n \in Nat : Pow(b, m * n) = Pow(Pow(b, m), n)
<1> DEFINE p == Pow(b, m)
           S == {n \in Nat : Pow(b, m * n) = Pow(p, n)}
<1>1. p \in Int
    BY PowStep
<1>2. 0 \in S
  <2>1. m * 0 = 0
    OBVIOUS
  <2> QED
    BY <1>1, <2>1, PowStep
<1>3. ASSUME NEW n \in Nat, n \in S PROVE n + 1 \in S
  <2>1. m * n \in Nat /\ m * (n + 1) = m * n + m /\ m * (n + 1) \in Nat
    OBVIOUS
  <2> DEFINE q == Pow(b, m * n)
             r == Pow(b, m * (n + 1))
             s == Pow(p, n + 1)
  <2>2. q \in Int /\ r \in Int /\ r \in Field /\ s \in Int /\ s \in Field
    <3> HIDE DEF p
    <3>1. n + 1 \in Nat
      OBVIOUS
    <3>2. \A e \in Nat : Pow(b, e) \in Field /\ Pow(b, e) \in Int
      BY PowStep
    <3>3. \A e \in Nat : Pow(p, e) \in Field /\ Pow(p, e) \in Int
      BY <1>1, PowStep
    <3> QED
      BY <2>1, <3>1, <3>2, <3>3
  <2>3. r \cong q * p
    BY <2>1, PowSum
  <2>4. s \cong p * q
    BY <1>1, <1>3, PowStep
  <2> HIDE DEF p, q, r, s
  <2>5. p * q = q * p /\ p * q \in Int
    BY <1>1, <2>2
  <2>6. q * p \cong s
    BY <2>2, <2>4, <2>5, Swap
  <2>7. r \cong s
    BY <2>2, <2>3, <2>5, <2>6, Chain
  <2> QED
    BY <2>2, <2>7, Unique DEF r, s
<1> HIDE DEF S
<1>4. \A n \in Nat : n \in S
    BY <1>2, <1>3, Induction
<1> QED
    BY <1>4 DEF S

LEMMA PowOfOne == \A n \in Nat : Pow(1, n) = 1
<1> DEFINE S == {n \in Nat : Pow(1, n) = 1}
<1>1. 0 \in S
    BY PowStep
<1>2. ASSUME NEW n \in Nat, n \in S PROVE n + 1 \in S
  <2>1. n + 1 \in Nat /\ 1 * 1 = 1
    OBVIOUS
  <2>2. Pow(1, n + 1) \in Field /\ Pow(1, n + 1) \cong 1 * Pow(1, n)
    BY <2>1, PowStep
  <2> QED
    BY <1>2, <2>1, <2>2, FieldIsNat, Unique
<1> HIDE DEF S
<1>3. \A n \in Nat : n \in S
    BY <1>1, <1>2, Induction
<1> QED
    BY <1>3 DEF S

LEMMA PowTwo ==
    ASSUME NEW x \in Int
    PROVE  Pow(x, 2) \in Int /\ Pow(x, 2) \cong x * x
<1> DEFINE t == Pow(x, 1)
           s == Pow(x, 2)
<1>1. t \in Int /\ t \cong x
  <2>1. Pow(x, 0 + 1) \in Int /\ Pow(x, 0 + 1) \cong x * Pow(x, 0) /\ Pow(x, 0) = 1
    BY PowStep
  <2>2. 0 + 1 = 1 /\ x * 1 = x
    OBVIOUS
  <2> QED
    BY <2>1, <2>2
<1>2. s \in Int /\ s \cong x * t
  <2>1. 1 \in Nat /\ 1 + 1 = 2
    OBVIOUS
  <2>2. Pow(x, 1 + 1) \in Int /\ Pow(x, 1 + 1) \cong x * Pow(x, 1)
    BY <2>1, PowStep
  <2> QED
    BY <2>1, <2>2
<1> HIDE DEF s, t
<1>3. x * t \in Int /\ x * x \in Int
    BY <1>1
<1>4. x * t \cong x * x
    BY <1>1, Scale
<1> QED
    BY <1>2, <1>3, <1>4, Chain DEF s

LEMMA PowOfProduct ==
    ASSUME NEW a \in Int, NEW b \in Int
    PROVE  \A n \in Nat : Pow(a * b, n) \cong Pow(a, n) * Pow(b, n)
<1> DEFINE S == {n \in Nat : Pow(a * b, n) \cong Pow(a, n) * Pow(b, n)}
<1>1. 0 \in S
  <2>1. a * b \in Int /\ 1 * 1 = 1
    OBVIOUS
  <2> QED
    BY <2>1, PowStep, Same
<1>2. ASSUME NEW n \in Nat, n \in S PROVE n + 1 \in S
  <2> DEFINE c == a * b
             p == Pow(a, n)
             q == Pow(b, n)
             r == Pow(c, n)
             p1 == Pow(a, n + 1)
             q1 == Pow(b, n + 1)
             r1 == Pow(c, n + 1)
  <2>1. c \in Int
    OBVIOUS
  <2> HIDE DEF c
  <2>2. p \in Int /\ p1 \in Int /\ p1 \cong a * p
    BY PowStep
  <2>3. q \in Int /\ q1 \in Int /\ q1 \cong b * q
    BY PowStep
  <2>4. r \in Int /\ r1 \in Int /\ r1 \cong c * r
    BY <2>1, PowStep
  <2>5. r \cong p * q
    BY <1>2 DEF c
  <2> HIDE DEF p, q, r, p1, q1, r1
  <2>6. p * q \in Int /\ a * p \in Int /\ b * q \in Int /\ p1 * q1 \in Int /\ c * r \in Int
    BY <2>1, <2>2, <2>3, <2>4
  <2>7. c * r \cong c * (p * q) /\ c * (p * q) \in Int
    <3>1. c * (p * q) \in Int
      BY <2>1, <2>6
    <3> QED
      BY <2>1, <2>4, <2>5, <2>6, <3>1, Scale
  <2>8. p1 * q1 \cong (a * p) * (b * q)
    BY <2>2, <2>3, <2>6, Product
  <2>9. (a * p) * (b * q) = c * (p * q)
    <3>1. \A w, x, y, z \in Int : (w * x) * (y * z) = (w * y) * (x * z)
      OBVIOUS
    <3> QED
      BY <2>2, <2>3, <3>1 DEF c
  <2>10. c * (p * q) \cong p1 * q1
    BY <2>6, <2>7, <2>8, <2>9, Swap
  <2>11. r1 \cong c * (p * q)
    BY <2>4, <2>6, <2>7, Chain
  <2>12. r1 \cong p1 * q1
    BY <2>4, <2>6, <2>7, <2>10, <2>11, Chain
  <2> QED
    BY <2>12 DEF r1, p1, q1, c
<1> HIDE DEF S
<1>3. \A n \in Nat : n \in S
    BY <1>1, <1>2, Induction
<1> QED
    BY <1>3 DEF S

-----------------------------------------------------------------------------
(* A prime divides no product of what it does not divide. *)

LEMMA NoZeroDivisors ==
    ASSUME NEW z \in 1..(P - 1)
    PROVE  \A a \in 1..(P - 1) : ~(a * z \cong 0)
<1> DEFINE S == {a \in Nat : a \in 1..(P - 1) /\ a * z \cong 0}
<1>1. SUFFICES ASSUME S # {} PROVE FALSE
  <2>1. \A a \in 1..(P - 1) : a \in Nat
    OBVIOUS
  <2> QED
    BY <2>1
<1>2. S \subseteq Nat
    OBVIOUS
<1>3. PICK a \in S : \A m \in S : a <= m
  <2> HIDE DEF S
  <2> QED
    BY <1>1, <1>2, LeastIsIn
<1>4. a \in 1..(P - 1) /\ a * z \cong 0 /\ z \in Int /\ P \in Nat
    BY <1>3, Prime
<1>5. CASE a = 1
  <2>1. z \in Field /\ 0 \in Field /\ z \cong 0 /\ z # 0
    BY <1>4, <1>5 DEF Field
  <2> QED
    BY <2>1, Unique
<1>6. CASE a # 1
  <2> DEFINE q == P \div a
             r == P % a
  <2>1. a \in 2..(P - 1) /\ a \in Nat \ {0}
    BY <1>4, <1>6
  <2>2. r # 0
    BY <2>1, PrimeAssumption
  <2>3. P = a * q + r /\ r \in 0..(a - 1) /\ q \in Int
    BY <1>4, <2>1
  <2> HIDE DEF q, r
  <2>4. r \in 1..(P - 1) /\ r < a /\ r \in Nat
    BY <1>4, <2>2, <2>3
  <2>5. r * z = z * P - q * (a * z)
    <3>1. r = P - a * q /\ a \in Int
      BY <2>1, <2>3, <2>4, <1>4
    <3>2. (P - a * q) * z = z * P - q * (a * z)
      BY <1>4, <2>3, <3>1
    <3> QED
      BY <3>1, <3>2
  <2>6. r * z \cong 0
    <3>1. PICK k \in Int : a * z - 0 = k * P
      BY <1>4 DEF \cong
    <3>2. a * z = k * P
      BY <1>4, <3>1
    <3>3. z * P - q * (k * P) = (z - q * k) * P /\ z - q * k \in Int
      BY <1>4, <2>3
    <3>4. r * z - 0 = (z - q * k) * P
      BY <1>4, <2>4, <2>5, <3>2, <3>3
    <3> QED
      BY <3>3, <3>4 DEF \cong
  <2> QED
    BY <1>3, <2>4, <2>6
<1> QED
    BY <1>5, <1>6

LEMMA PrimeDivides ==
    ASSUME NEW a \in Int, NEW b \in Int, a * b \cong 0
    PROVE  a \cong 0 \/ b \cong 0
<1> DEFINE r == a % P
           s == b % P
<1>1. /\ r \in Field /\ s \in Field /\ r \in Int /\ s \in Int
      /\ r \cong a /\ s \cong b /\ (r = 0 <=> a \cong 0) /\ (s = 0 <=> b \cong 0)
    BY Reduced, Multiple
<1> HIDE DEF r, s
<1>2. r * s \cong a * b
    BY <1>1, Product
<1>3. r * s \cong 0
  <2>1. r * s \in Int /\ a * b \in Int
    BY <1>1
  <2> QED
    BY <1>2, <2>1, Chain
<1>4. CASE r # 0 /\ s # 0
  <2>1. r \in 1..(P - 1) /\ s \in 1..(P - 1)
    BY <1>1, <1>4, Prime DEF Field
  <2> QED
    BY <1>3, <2>1, NoZeroDivisors
<1> QED
    BY <1>1, <1>4

LEMMA Cancel ==
    ASSUME NEW a \in Int, NEW b \in Int, NEW c \in Int, ~(c \cong 0), c * a \cong c * b
    PROVE  a \cong b
<1>1. a - b \in Int /\ c * (a - b) = c * a - c * b /\ c * a - c * b \in Int
    OBVIOUS
<1>2. c * a - c * b \cong 0
    BY <1>1 DEF \cong
<1>3. a - b \cong 0
    BY <1>1, <1>2, PrimeDivides
<1> QED
    BY <1>1, <1>3 DEF \cong

-----------------------------------------------------------------------------
(* Fermat's theorem.  The powers of a run through `order` values and start *)
(* again; a set closed under multiplication by a falls into classes of     *)
(* that many, and 1..(P - 1) is such a set.                                *)

LEMMA PowNotZero ==
    ASSUME NEW a \in Int, ~(a \cong 0)
    PROVE  \A n \in Nat : ~(Pow(a, n) \cong 0)
<1> DEFINE S == {n \in Nat : ~(Pow(a, n) \cong 0)}
<1>1. 0 \in S
  <2>1. Pow(a, 0) = 1 /\ 1 \in Field /\ 0 \in Field
    BY PowStep, FieldIsNat
  <2> QED
    BY <2>1, Unique
<1>2. ASSUME NEW n \in Nat, n \in S PROVE n + 1 \in S
  <2> DEFINE p == Pow(a, n)
             q == Pow(a, n + 1)
  <2>1. p \in Int /\ q \in Int /\ q \cong a * p /\ ~(p \cong 0)
    BY <1>2, PowStep
  <2> HIDE DEF p, q
  <2>2. SUFFICES ASSUME q \cong 0 PROVE FALSE
    BY DEF q
  <2>3. a * p \cong q /\ a * p \in Int
    BY <2>1, Swap
  <2>4. a * p \cong 0
    BY <2>1, <2>2, <2>3, Chain
  <2> QED
    BY <2>1, <2>4, PrimeDivides
<1> HIDE DEF S
<1>3. \A n \in Nat : n \in S
    BY <1>1, <1>2, Induction
<1> QED
    BY <1>3 DEF S

\* Where two powers meet, their quotient is 1.
LEMMA PowersMeet ==
    ASSUME NEW a \in Int, ~(a \cong 0), NEW m \in Nat, NEW n \in Nat, m < n,
           NEW x \in Int, ~(x \cong 0), x * Pow(a, m) \cong x * Pow(a, n)
    PROVE  n - m \in Nat \ {0} /\ Pow(a, n - m) = 1
<1> DEFINE p == Pow(a, m)
           q == Pow(a, n)
           r == Pow(a, n - m)
<1>1. n - m \in Nat \ {0} /\ m + (n - m) = n
    OBVIOUS
<1>2. p \in Int /\ q \in Int /\ r \in Int /\ r \in Field /\ ~(p \cong 0)
    BY <1>1, PowStep, PowNotZero
<1>3. q \cong p * r
    BY <1>1, PowSum
<1>4. p \cong q
    BY <1>2, Cancel
<1> HIDE DEF p, q, r
<1>5. p * r \in Int /\ p * 1 = p /\ p \cong p * r
  <2>1. p * r \in Int
    BY <1>2
  <2> QED
    BY <1>2, <1>3, <1>4, <2>1, Chain
<1>6. p * 1 \cong p * r
    BY <1>5
<1>7. 1 \cong r
    BY <1>2, <1>6, Cancel
<1> QED
    BY <1>1, <1>2, <1>7, FieldIsNat, Unique DEF r

\* The order of a: its powers below it are distinct, also multiplied by x.
IsOrder(t, a) ==
    /\ t \in Nat \ {0} /\ Pow(a, t) = 1
    /\ \A k \in Nat \ {0} : k < t => Pow(a, k) # 1

LEMMA OrderExists ==
    ASSUME NEW a \in Int, ~(a \cong 0)
    PROVE  \E t : IsOrder(t, a)
<1> DEFINE f == [n \in 0..P |-> Pow(a, n)]
           S == {k \in Nat \ {0} : Pow(a, k) = 1}
<1>1. P \in Nat /\ IsFiniteSet(0..P) /\ Cardinality(0..P) = P + 1
      /\ IsFiniteSet(Field) /\ Cardinality(Field) = P
  <2>1. P \in Nat /\ P > 4
    BY Prime
  <2>2. IsFiniteSet(0..P) /\ Cardinality(0..P) = P + 1
    BY <2>1, FS_Interval
  <2>3. IsFiniteSet(0..(P - 1)) /\ Cardinality(0..(P - 1)) = P
    BY <2>1, FS_Interval
  <2> QED
    BY <2>1, <2>2, <2>3 DEF Field
<1>2. f \in [0..P -> Field]
  <2>1. \A n \in 0..P : n \in Nat
    BY <1>1
  <2> QED
    BY <2>1, PowStep
<1>3. \E m, n \in 0..P : m # n /\ f[m] = f[n]
  <2> HIDE DEF f
  <2>1. Cardinality(Field) < Cardinality(0..P)
    BY <1>1
  <2> QED
    BY <1>1, <1>2, <2>1, FS_PigeonHole
<1>4. \E m, n \in 0..P : m < n /\ f[m] = f[n]
  <2>1. PICK m, n \in 0..P : m # n /\ f[m] = f[n]
    BY <1>3
  <2>2. m < n \/ n < m
    BY <2>1
  <2> QED
    BY <2>1, <2>2
<1>5. PICK m, n \in 0..P : m < n /\ f[m] = f[n]
    BY <1>4
<1>6. m \in Nat /\ n \in Nat /\ Pow(a, m) = Pow(a, n) /\ Pow(a, m) \in Int
    BY <1>1, <1>5, PowStep
<1>7. 1 * Pow(a, m) \cong 1 * Pow(a, n) /\ 1 \in Int /\ ~(1 \cong 0)
  <2>1. 1 * Pow(a, m) \in Int /\ 1 * Pow(a, m) = 1 * Pow(a, n)
    BY <1>6
  <2>2. ~(1 \cong 0)
    BY FieldIsNat, Unique
  <2> QED
    BY <2>1, <2>2, Same
<1>8. n - m \in S
    BY <1>5, <1>6, <1>7, PowersMeet
<1> HIDE DEF f
<1>9. PICK t \in S : \A k \in S : t <= k
  <2>1. S \subseteq Nat /\ S # {}
    BY <1>8
  <2> HIDE DEF S
  <2> QED
    BY <2>1, LeastIsIn
<1> QED
    BY <1>9 DEF IsOrder

Closed(S, a) == S \subseteq 1..(P - 1) /\ \A x \in S : (a * x) % P \in S

\* The class of x.
Orbit(x, t, a) == {(x * Pow(a, k)) % P : k \in 0..(t - 1)}

LEMMA OrbitSize ==
    ASSUME NEW a \in Int, ~(a \cong 0), NEW t, IsOrder(t, a), NEW x \in 1..(P - 1)
    PROVE  IsFiniteSet(Orbit(x, t, a)) /\ Cardinality(Orbit(x, t, a)) = t
<1> DEFINE f == [k \in 0..(t - 1) |-> (x * Pow(a, k)) % P]
           O == Orbit(x, t, a)
<1>1. t \in Nat \ {0} /\ x \in Int /\ ~(x \cong 0)
  <2>1. x \in Field /\ 0 \in Field /\ x # 0 /\ x \in Int
    BY Prime DEF Field
  <2> QED
    BY <2>1, Unique DEF IsOrder
<1>2. ASSUME NEW m \in 0..(t - 1), NEW n \in 0..(t - 1), f[m] = f[n], m < n
      PROVE  FALSE
  <2>1. m \in Nat /\ n \in Nat /\ Pow(a, m) \in Int /\ Pow(a, n) \in Int
    <3>1. m \in Nat /\ n \in Nat
      BY <1>1
    <3> QED
      BY <3>1, PowStep
  <2>2. x * Pow(a, m) \in Int /\ x * Pow(a, n) \in Int
    BY <1>1, <2>1
  <2>3. x * Pow(a, m) \cong x * Pow(a, n)
    BY <1>2, <2>2, SameRemainder
  <2>4. n - m \in Nat \ {0} /\ Pow(a, n - m) = 1
    BY <1>1, <1>2, <2>1, <2>3, PowersMeet
  <2>5. n - m < t
    BY <1>1, <1>2, <2>1
  <2> QED
    BY <2>4, <2>5 DEF IsOrder
<1>3. f \in [0..(t - 1) -> O] /\ \A y \in O : \E k \in 0..(t - 1) : f[k] = y
    BY DEF Orbit
<1>4. \A m, n \in 0..(t - 1) : f[m] = f[n] => m = n
  <2> SUFFICES ASSUME NEW m \in 0..(t - 1), NEW n \in 0..(t - 1), f[m] = f[n], m # n
               PROVE  FALSE
    OBVIOUS
  <2>1. m < n \/ n < m
    BY <1>1
  <2> HIDE DEF f
  <2> QED
    BY <1>2, <2>1
<1> HIDE DEF f, O
<1>5. f \in Bijection(0..(t - 1), O)
  <2>1. f \in Injection(0..(t - 1), O)
    BY <1>3, <1>4, Fun_IsInj
  <2>2. f \in Surjection(0..(t - 1), O)
    BY <1>3, Fun_IsSurj
  <2> QED
    BY <2>1, <2>2 DEF Bijection
<1>6. IsFiniteSet(0..(t - 1)) /\ Cardinality(0..(t - 1)) = t
  <2>1. 0 \in Int /\ t - 1 \in Int /\ ~(0 > t - 1) /\ (t - 1) - 0 + 1 = t
    BY <1>1
  <2>2. IsFiniteSet(0..(t - 1))
    BY <2>1, FS_Interval
  <2>3. Cardinality(0..(t - 1)) = IF 0 > t - 1 THEN 0 ELSE (t - 1) - 0 + 1
    BY <2>1, FS_Interval
  <2> QED
    BY <2>1, <2>2, <2>3
<1>7. ExistsBijection(0..(t - 1), O)
    BY <1>5 DEF ExistsBijection
<1> QED
    BY <1>6, <1>7, FS_Bijection DEF O

LEMMA OrbitIsClass ==
    ASSUME NEW a \in Int, ~(a \cong 0), NEW t, IsOrder(t, a), NEW S, Closed(S, a), NEW x \in S
    PROVE  Orbit(x, t, a) \subseteq S /\ Closed(S \ Orbit(x, t, a), a)
<1> DEFINE O == Orbit(x, t, a)
           y(k) == (x * Pow(a, k)) % P
<1>1. t \in Nat \ {0} /\ x \in Int /\ \A z \in S : z \in Int /\ z \in Field /\ (a * z) % P \in S
    BY Prime DEF IsOrder, Closed, Field
<1>2. ASSUME NEW k \in Nat
      PROVE  /\ y(k) \in Int /\ y(k) \in Field /\ y(k) \cong x * Pow(a, k)
             /\ x * Pow(a, k) \in Int
             /\ y(k + 1) = (a * y(k)) % P
  <2> DEFINE p == Pow(a, k)
             q == Pow(a, k + 1)
  <2>1. p \in Int /\ q \in Int /\ q \cong a * p
    BY PowStep
  <2> HIDE DEF p, q
  <2>2. x * p \in Int /\ x * q \in Int /\ a * p \in Int /\ a * (x * p) = x * (a * p)
    BY <1>1, <2>1
  <2> DEFINE z == (x * p) % P
  <2>3. z \in Int /\ z \in Field /\ z \cong x * p
    BY <2>2, Reduced
  <2> HIDE DEF z
  <2>4. a * z \cong a * (x * p) /\ x * (a * p) \cong x * q /\ a * z \in Int
    <3>1. a * p \cong q
      BY <2>1, <2>2, Swap
    <3>2. a * z \cong a * (x * p)
      BY <2>2, <2>3, Scale
    <3>3. x * (a * p) \cong x * q
      BY <1>1, <2>1, <2>2, <3>1, Scale
    <3>4. a * z \in Int
      BY <2>3
    <3> QED
      BY <3>2, <3>3, <3>4
  <2>5. a * z \cong x * q
    <3>1. a * (x * p) \in Int /\ a * (x * p) \cong x * q
      BY <2>2, <2>4
    <3> QED
      BY <2>2, <2>4, <3>1, Chain
  <2>6. (a * z) % P = (x * q) % P
    BY <2>2, <2>4, <2>5, SameRemainder
  <2> QED
    BY <2>2, <2>3, <2>6 DEF p, q, z
<1>3. y(0) = x
  <2>1. Pow(a, 0) = 1 /\ x * 1 = x
    BY <1>1, PowStep
  <2>2. x % P \in Field /\ x % P \cong x
    BY <1>1, Reduced
  <2>3. x % P = x
    BY <1>1, <2>2, Unique
  <2> QED
    BY <2>1, <2>3
<1>4. y(t) = x
  <2>1. Pow(a, t) = 1 /\ Pow(a, 0) = 1
    BY PowStep DEF IsOrder
  <2> QED
    BY <1>3, <2>1
<1>5. O = {y(k) : k \in 0..(t - 1)}
    BY DEF Orbit
<1> DEFINE K == {k \in Nat : y(k) \in S}
<1> HIDE DEF y, O
<1>6. \A k \in Nat : k \in K
  <2>1. 0 \in K
    BY <1>3
  <2>2. ASSUME NEW k \in Nat, k \in K PROVE k + 1 \in K
    BY <1>1, <1>2, <2>2
  <2> HIDE DEF K
  <2> QED
    BY <2>1, <2>2, Induction
<1>7. O \subseteq S
  <2>1. \A k \in 0..(t - 1) : k \in Nat
    BY <1>1
  <2> QED
    BY <1>5, <1>6, <2>1
\* What a takes into the class was in it.
<1>8. ASSUME NEW z \in S, (a * z) % P \in O PROVE z \in O
  <2>1. PICK k \in 0..(t - 1) : (a * z) % P = y(k)
    BY <1>5, <1>8
  <2>2. \E m \in 0..(t - 1) : y(m + 1) = y(k)
    <3>1. CASE k = 0
      <4>1. t - 1 \in 0..(t - 1) /\ (t - 1) + 1 = t
        BY <1>1
      <4> QED
        BY <1>3, <1>4, <3>1, <4>1
    <3>2. CASE k # 0
      <4>1. k - 1 \in 0..(t - 1) /\ (k - 1) + 1 = k
        BY <1>1, <3>2
      <4> QED
        BY <4>1
    <3> QED
      BY <3>1, <3>2
  <2>3. PICK m \in 0..(t - 1) : y(m + 1) = y(k)
    BY <2>2
  <2>4. m \in Nat
    BY <1>1
  <2>5. (a * z) % P = (a * y(m)) % P /\ y(m) \in Int /\ y(m) \in Field
    BY <1>2, <2>1, <2>3, <2>4
  <2>6. a * z \cong a * y(m)
    <3>1. a * z \in Int /\ a * y(m) \in Int
      BY <1>1, <2>5
    <3> QED
      BY <2>5, <3>1, SameRemainder
  <2>7. z \cong y(m)
    BY <1>1, <2>5, <2>6, Cancel
  <2> QED
    BY <1>1, <1>5, <2>5, <2>7, Unique
<1>9. Closed(S \ O, a)
    BY <1>1, <1>8 DEF Closed
<1> QED
    BY <1>7, <1>9 DEF O

\* A closed set is made of whole classes.
LEMMA OrderDivides ==
    ASSUME NEW a \in Int, ~(a \cong 0), NEW t, IsOrder(t, a)
    PROVE  \A S : Closed(S, a) => \E k \in Nat : Cardinality(S) = k * t
<1> DEFINE Whole(S) == \E k \in Nat : Cardinality(S) = k * t
           Bad == {n \in Nat : \E S : Closed(S, a) /\ Cardinality(S) = n /\ ~Whole(S)}
<1>1. t \in Nat \ {0}
    BY DEF IsOrder
<1>2. ASSUME NEW S, Closed(S, a) PROVE IsFiniteSet(S) /\ Cardinality(S) \in Nat
  <2>1. IsFiniteSet(1..(P - 1))
    BY Prime, FS_Interval
  <2>2. S \in SUBSET (1..(P - 1))
    BY <1>2 DEF Closed
  <2>3. IsFiniteSet(S)
    BY <2>1, <2>2, FS_Subset
  <2> QED
    BY <2>3, FS_CardinalityType
<1>3. SUFFICES ASSUME Bad # {} PROVE FALSE
  <2>1. \A S : Closed(S, a) /\ ~Whole(S) => Cardinality(S) \in Bad
    BY <1>2
  <2> QED
    BY <2>1
<1>4. PICK n \in Bad : \A m \in Bad : n <= m
  <2>1. Bad \subseteq Nat
    OBVIOUS
  <2> HIDE DEF Bad
  <2> QED
    BY <1>3, <2>1, LeastIsIn
<1>5. PICK S : Closed(S, a) /\ Cardinality(S) = n /\ ~Whole(S)
    BY <1>4
<1>6. S # {}
  <2>1. Cardinality({}) = 0 * t
    BY <1>1, FS_EmptySet
  <2> QED
    BY <1>5, <2>1
<1>7. PICK x \in S : TRUE
    BY <1>6
<1> DEFINE O == Orbit(x, t, a)
           R == S \ O
<1>8. O \subseteq S /\ Closed(R, a)
    BY <1>5, OrbitIsClass
<1>9. Cardinality(O) = t
  <2>1. x \in 1..(P - 1)
    BY <1>5 DEF Closed
  <2> QED
    BY <2>1, OrbitSize
<1>10. Cardinality(R) = Cardinality(S) - t
  <2>1. S \cap O = O
    BY <1>8
  <2>2. Cardinality(S \ O) = Cardinality(S) - Cardinality(S \cap O)
    BY <1>2, <1>5, FS_Difference
  <2> HIDE DEF O
  <2> QED
    BY <1>9, <2>1, <2>2
<1> HIDE DEF O, R
<1>11. n \in Nat /\ Cardinality(R) \in Nat /\ Cardinality(R) = n - t
    BY <1>2, <1>4, <1>5, <1>8, <1>10
<1>12. Cardinality(R) \notin Bad
  <2> HIDE DEF Bad
  <2>1. n - t < n
    BY <1>1, <1>11
  <2> QED
    BY <1>4, <1>11, <2>1
<1>13. PICK k \in Nat : Cardinality(R) = k * t
    BY <1>8, <1>11, <1>12
<1>14. n = (k + 1) * t /\ k + 1 \in Nat
    BY <1>1, <1>11, <1>13
<1> QED
    BY <1>5, <1>14

\* pow(a, P - 1, P) is 1.
LEMMA Fermat ==
    ASSUME NEW a \in Int, ~(a \cong 0)
    PROVE  P - 1 \in Nat /\ Pow(a, P - 1) = 1
<1>1. PICK t : IsOrder(t, a)
    BY OrderExists
<1>2. t \in Nat \ {0} /\ Pow(a, t) = 1 /\ P - 1 \in Nat
    BY <1>1, Prime DEF IsOrder
<1>3. Closed(1..(P - 1), a)
  <2>1. ASSUME NEW x \in 1..(P - 1) PROVE (a * x) % P \in 1..(P - 1)
    <3>1. x \in Int /\ x \in Field /\ x # 0 /\ 0 \in Field
      BY Prime DEF Field
    <3>2. ~(x \cong 0)
      BY <3>1, Unique
    <3>3. a * x \in Int /\ ~(a * x \cong 0)
      <4>1. a * x \in Int
        BY <3>1
      <4> QED
        BY <3>1, <3>2, <4>1, PrimeDivides
    <3>4. (a * x) % P \in Field /\ (a * x) % P # 0
      BY <3>3, Reduced, Multiple
    <3> QED
      BY <3>4, Prime DEF Field
  <2> QED
    BY <2>1 DEF Closed
<1>4. PICK k \in Nat : Cardinality(1..(P - 1)) = k * t
    BY <1>1, <1>3, OrderDivides
<1>5. Cardinality(1..(P - 1)) = P - 1
    BY Prime, FS_Interval
<1>6. P - 1 = t * k
    BY <1>2, <1>4, <1>5
<1>7. Pow(a, t * k) = Pow(1, k)
    BY <1>2, PowOfPow
<1> QED
    BY <1>2, <1>6, <1>7, PowOfOne

-----------------------------------------------------------------------------
(* What follows from congruences by an identity of polynomials. *)

Part(c, x, y) == c * (x - y)

LEMMA From1 ==
    ASSUME NEW a \in Int, NEW b \in Int, NEW x \in Int, NEW y \in Int, NEW c \in Int,
           x \cong y, a - b = Part(c, x, y)
    PROVE  a \cong b
<1>1. PICK k \in Int : x - y = k * P
    BY DEF \cong
<1>2. c * (k * P) = (c * k) * P /\ c * k \in Int
    BY Prime
<1>3. a - b = (c * k) * P
    BY <1>1, <1>2 DEF Part
<1> QED
    BY <1>2, <1>3 DEF \cong

LEMMA From2 ==
    ASSUME NEW a \in Int, NEW b \in Int, NEW x \in Int, NEW y \in Int, NEW c \in Int,
           NEW u \in Int, NEW v \in Int, NEW d \in Int,
           x \cong y, u \cong v, a - b = Part(c, x, y) + Part(d, u, v)
    PROVE  a \cong b
<1>1. c * x \in Int /\ c * y \in Int /\ d * u \in Int /\ d * v \in Int
    OBVIOUS
<1>2. c * x \cong c * y /\ d * u \cong d * v
    BY Scale
<1>3. c * x + d * u \cong c * y + d * v
    BY <1>1, <1>2, Sum
<1>4. /\ c * x + d * u \in Int /\ c * y + d * v \in Int
      /\ a - b = Part(1, c * x + d * u, c * y + d * v)
  <2>1. Part(c, x, y) = c * x - c * y /\ Part(d, u, v) = d * u - d * v
    BY DEF Part
  <2>2. a - b = 1 * ((c * x + d * u) - (c * y + d * v))
    BY <1>1, <2>1
  <2> QED
    BY <1>1, <2>2 DEF Part
<1> QED
    BY <1>3, <1>4, From1

LEMMA From3 ==
    ASSUME NEW a \in Int, NEW b \in Int, NEW x \in Int, NEW y \in Int, NEW c \in Int,
           NEW u \in Int, NEW v \in Int, NEW d \in Int,
           NEW p \in Int, NEW q \in Int, NEW e \in Int,
           x \cong y, u \cong v, p \cong q, a - b = Part(c, x, y) + Part(d, u, v) + Part(e, p, q)
    PROVE  a \cong b
<1>1. e * p \in Int /\ e * q \in Int /\ e * p \cong e * q
  <2>1. e * p \cong e * q
    BY Scale
  <2> QED
    BY <2>1
<1>2. a - e * p \in Int /\ b - e * q \in Int
    BY <1>1
<1>3. (a - e * p) - (b - e * q) = Part(c, x, y) + Part(d, u, v)
  <2>1. Part(e, p, q) = e * p - e * q /\ Part(c, x, y) \in Int /\ Part(d, u, v) \in Int
    BY DEF Part
  <2> QED
    BY <1>1, <2>1
<1>4. a - e * p \cong b - e * q
    BY <1>2, <1>3, From2
<1>5. (a - e * p) + e * p \cong (b - e * q) + e * q
    BY <1>1, <1>2, <1>4, Sum
<1>6. (a - e * p) + e * p = a /\ (b - e * q) + e * q = b
    BY <1>1
<1> QED
    BY <1>5, <1>6

-----------------------------------------------------------------------------
(* Quotients and roots. *)

\* pow(b, P - 2, P), the code's inverse of b.
Inv(b) == Pow(b, P - 2)

LEMMA InverseOf ==
    ASSUME NEW b \in Int, ~(b \cong 0)
    PROVE  Inv(b) \in Field /\ Inv(b) \in Int /\ b * Inv(b) \cong 1
<1>1. P - 2 \in Nat /\ (P - 2) + 1 = P - 1
    BY Prime
<1>2. Inv(b) \in Field /\ Inv(b) \in Int /\ 1 \cong b * Inv(b)
    BY <1>1, Fermat, PowStep DEF Inv
<1>3. b * Inv(b) \in Int
    BY <1>2
<1> QED
    BY <1>2, <1>3, Swap

LEMMA Quotient ==
    ASSUME NEW a \in Int, NEW b \in Int, ~(b \cong 0)
    PROVE  Div(a, b) \in Field /\ Div(a, b) \in Int /\ b * Div(a, b) \cong a
<1> DEFINE i == Inv(b)
           c == (a * i) % P
<1>1. i \in Int /\ b * i \cong 1
    BY InverseOf
<1> HIDE DEF i
<1>2. a * i \in Int /\ b * i \in Int
    BY <1>1
<1>3. c \in Field /\ c \in Int /\ c \cong a * i
    BY <1>2, Reduced
<1> HIDE DEF c
<1>4. b * c \cong a
  <2>1. b * c - a = Part(b, c, a * i) + Part(a, b * i, 1) /\ b * c \in Int
    BY <1>1, <1>3 DEF Part
  <2> QED
    BY <1>1, <1>2, <1>3, <2>1, From2
<1>5. \A d \in Field : d \in Int /\ b * d \in Int
    BY FieldIsNat
<1>6. (b * c - a) % P = 0
    BY <1>3, <1>4, <1>5, Difference
<1>7. Div(a, b) \in Field /\ (b * Div(a, b) - a) % P = 0
    BY <1>3, <1>6 DEF Div
<1> QED
    BY <1>5, <1>7, Difference

LEMMA QuotientIs ==
    ASSUME NEW a \in Int, NEW b \in Int, ~(b \cong 0), NEW c \in Field, b * c \cong a
    PROVE  Div(a, b) = c
<1> DEFINE d == Div(a, b)
<1>1. d \in Field /\ d \in Int /\ c \in Int /\ b * d \cong a
    BY Quotient, FieldIsNat
<1> HIDE DEF d
<1>2. b * d \in Int /\ b * c \in Int
    BY <1>1
<1>3. b * d \cong b * c
    BY <1>1, <1>2, Swap, Chain
<1> QED
    BY <1>1, <1>3, Cancel, Unique DEF d

-----------------------------------------------------------------------------
(* pow(2, (P - 1) // 4, P) is a root of -1.  The squares are (P - 1) / 2,  *)
(* an even number; if -1 were none of them, all but 1 would pair off with  *)
(* their inverses.  And 2 is -i times the square of 1 + i.                 *)

Half == (P - 5) \div 8

LEMMA Eighth ==
    Half \in Nat /\ P = 8 * Half + 5 /\ (P + 3) \div 8 = Half + 1
<1>1. P \in Nat /\ P % 8 = 5
    BY PrimeAssumption
<1> DEFINE k == P \div 8
<1>2. P = 8 * k + 5 /\ k \in Nat
    BY <1>1
<1> HIDE DEF k
<1>3. (8 * k + 5 - 5) \div 8 = k /\ (8 * k + 5 + 3) \div 8 = k + 1
    BY <1>2
<1> QED
    BY <1>2, <1>3 DEF Half

LEMMA SameSquares ==
    ASSUME NEW a \in Int, NEW b \in Int, a * a \cong b * b
    PROVE  a \cong b \/ a \cong -b
<1>1. a - b \in Int /\ a + b \in Int /\ (a - b) * (a + b) = a * a - b * b /\ a * a - b * b \in Int
    OBVIOUS
<1>2. (a - b) * (a + b) \cong 0
    BY <1>1 DEF \cong
<1>3. a - b \cong 0 \/ a + b \cong 0
    BY <1>1, <1>2, PrimeDivides
<1>4. (a - b) - 0 = a - b /\ (a + b) - 0 = a - (-b)
    OBVIOUS
<1> QED
    BY <1>3, <1>4 DEF \cong

LEMMA InverseInverse ==
    ASSUME NEW x \in 1..(P - 1)
    PROVE  /\ x \in Int /\ x \in Field /\ ~(x \cong 0)
           /\ Inv(x) \in Int /\ Inv(x) \in 1..(P - 1) /\ x * Inv(x) \cong 1
           /\ Inv(Inv(x)) = x
<1>1. x \in Int /\ x \in Field /\ x # 0
    BY Prime DEF Field
<1>2. ~(x \cong 0)
    BY <1>1, FieldIsNat, Unique
<1> DEFINE i == Inv(x)
           j == Inv(i)
<1>3. i \in Field /\ i \in Int /\ x * i \cong 1
    BY <1>1, <1>2, InverseOf
<1> HIDE DEF i
<1>4. ~(i \cong 0)
  <2>1. SUFFICES ASSUME i \cong 0 PROVE FALSE
    OBVIOUS
  <2>2. 1 - 0 = Part(-1, x * i, 1) + Part(x, i, 0) /\ x * i \in Int /\ -1 \in Int
    BY <1>1, <1>3 DEF Part
  <2>3. 1 \cong 0
    BY <1>1, <1>3, <2>1, <2>2, From2
  <2> QED
    BY <2>3, FieldIsNat, Unique
<1>5. i # 0 /\ i \in 1..(P - 1)
  <2>1. i # 0
    BY <1>3, <1>4, Same
  <2> QED
    BY <1>3, <2>1, Prime DEF Field
<1>6. j \in Field /\ j \in Int /\ i * j \cong 1
    BY <1>3, <1>4, InverseOf
<1> HIDE DEF j
<1>7. i * x = x * i /\ i * x \in Int /\ i * j \in Int
    BY <1>1, <1>3, <1>6
<1>8. i * j \cong i * x
    BY <1>3, <1>6, <1>7, Swap, Chain
<1>9. j = x
    BY <1>1, <1>3, <1>4, <1>6, <1>8, Cancel, Unique
<1> QED
    BY <1>1, <1>2, <1>3, <1>5, <1>9 DEF i, j

Paired(S) == S \subseteq 1..(P - 1) /\ \A x \in S : Inv(x) \in S /\ Inv(x) # x

LEMMA PairedIsEven ==
    \A S : Paired(S) => \E k \in Nat : Cardinality(S) = 2 * k
<1> DEFINE Even(S) == \E k \in Nat : Cardinality(S) = 2 * k
           Bad == {n \in Nat : \E S : Paired(S) /\ Cardinality(S) = n /\ ~Even(S)}
<1>1. ASSUME NEW S, Paired(S) PROVE IsFiniteSet(S) /\ Cardinality(S) \in Nat
  <2>1. IsFiniteSet(1..(P - 1))
    BY Prime, FS_Interval
  <2>2. S \in SUBSET (1..(P - 1))
    BY <1>1 DEF Paired
  <2>3. IsFiniteSet(S)
    BY <2>1, <2>2, FS_Subset
  <2> QED
    BY <2>3, FS_CardinalityType
<1>2. SUFFICES ASSUME Bad # {} PROVE FALSE
  <2>1. \A S : Paired(S) /\ ~Even(S) => Cardinality(S) \in Bad
    BY <1>1
  <2> QED
    BY <2>1
<1>3. PICK n \in Bad : \A m \in Bad : n <= m
  <2>1. Bad \subseteq Nat
    OBVIOUS
  <2> HIDE DEF Bad
  <2> QED
    BY <1>2, <2>1, LeastIsIn
<1>4. PICK S : Paired(S) /\ Cardinality(S) = n /\ ~Even(S)
    BY <1>3
<1>5. S # {}
  <2>1. Cardinality({}) = 2 * 0
    BY FS_EmptySet
  <2> QED
    BY <1>4, <2>1
<1>6. PICK x \in S : TRUE
    BY <1>5
<1> DEFINE i == Inv(x)
           R == (S \ {x}) \ {i}
<1>7. \A y \in S : Inv(y) \in S /\ Inv(y) # y /\ Inv(Inv(y)) = y
    BY <1>4, InverseInverse DEF Paired
<1>8. i \in S /\ i # x /\ Inv(i) = x
    BY <1>7
<1> HIDE DEF i
<1>9. Paired(R)
  <2>1. ASSUME NEW y \in R PROVE Inv(y) \in R /\ Inv(y) # y
    <3>1. Inv(y) \in S /\ Inv(y) # y /\ Inv(Inv(y)) = y /\ y # x /\ y # i
      BY <1>7
    <3> QED
      BY <1>8, <3>1 DEF i
  <2> QED
    BY <1>4, <2>1 DEF Paired
<1>10. n \in Nat /\ Cardinality(R) \in Nat /\ Cardinality(R) = n - 2
  <2>1. IsFiniteSet(S) /\ IsFiniteSet(S \ {x}) /\ Cardinality(S \ {x}) = Cardinality(S) - 1
    BY <1>1, <1>4, FS_RemoveElement
  <2>2. i \in S \ {x}
    BY <1>8
  <2>3. Cardinality(R) = Cardinality(S \ {x}) - 1
    BY <2>1, <2>2, FS_RemoveElement
  <2>4. Cardinality(R) \in Nat /\ n \in Nat
    BY <1>1, <1>3, <1>9
  <2> HIDE DEF R
  <2> QED
    BY <1>4, <2>1, <2>3, <2>4
<1> HIDE DEF R
<1>11. PICK k \in Nat : Cardinality(R) = 2 * k
  <2> HIDE DEF Bad
  <2>1. ~(n <= Cardinality(R))
    BY <1>10
  <2>2. Cardinality(R) \notin Bad
    BY <1>3, <2>1
  <2> QED
    BY <1>9, <1>10, <2>2 DEF Bad
<1>12. n = 2 * (k + 1) /\ k + 1 \in Nat
    BY <1>10, <1>11
<1> QED
    BY <1>4, <1>12

\* The nonzero squares, each once.
Squares == {(k * k) % P : k \in 1..(4 * Half + 2)}

LEMMA SquaresAre ==
    /\ Squares \subseteq 1..(P - 1)
    /\ IsFiniteSet(Squares) /\ Cardinality(Squares) = 4 * Half + 2
    /\ \A x \in 1..(P - 1) : (x * x) % P \in Squares
<1> DEFINE h == 4 * Half + 2
           f == [k \in 1..h |-> (k * k) % P]
<1>1. h \in Nat /\ h > 0 /\ P = 2 * h + 1 /\ h \in Int /\ Half \in Nat
  <2>1. Half \in Nat /\ P = 8 * Half + 5
    BY Eighth
  <2> QED
    BY <2>1
<1> HIDE DEF h
<1>2. \A x \in 1..(P - 1) : x \in Int /\ x * x \in Int /\ (x * x) % P \in 1..(P - 1)
  <2> SUFFICES ASSUME NEW x \in 1..(P - 1)
               PROVE  x \in Int /\ x * x \in Int /\ (x * x) % P \in 1..(P - 1)
    OBVIOUS
  <2>1. x \in Int /\ ~(x \cong 0)
    BY InverseInverse
  <2>2. x * x \in Int
    BY <2>1
  <2>3. ~(x * x \cong 0)
    BY <2>1, PrimeDivides
  <2>4. (x * x) % P \in Field /\ (x * x) % P # 0
    BY <2>2, <2>3, Reduced, Multiple
  <2> QED
    BY <2>1, <2>2, <2>4, Prime DEF Field
<1>3. \A k \in 1..h : k \in 1..(P - 1)
    BY <1>1
<1>4. Squares \subseteq 1..(P - 1)
    BY <1>2, <1>3 DEF Squares, h
<1>5. ASSUME NEW x \in 1..(P - 1) PROVE (x * x) % P \in Squares
  <2>1. CASE x \in 1..h
    BY <2>1 DEF Squares, h
  <2>2. CASE x \notin 1..h
    <3>1. P - x \in 1..h /\ P - x \in Int /\ x \in Int
      BY <1>1, <2>2
    <3>2. (P - x) * (P - x) - x * x = (P - 2 * x) * P /\ P - 2 * x \in Int
      BY <1>1, <3>1
    <3>3. (P - x) * (P - x) \cong x * x
      BY <3>2 DEF \cong
    <3>4. (P - x) * (P - x) \in Int /\ x * x \in Int
      BY <3>1
    <3>5. ((P - x) * (P - x)) % P = (x * x) % P
      BY <3>3, <3>4, SameRemainder
    <3>6. ((P - x) * (P - x)) % P \in Squares
      BY <3>1 DEF Squares, h
    <3> QED
      BY <3>5, <3>6
  <2> QED
    BY <2>1, <2>2
<1>6. \A k, m \in 1..h : f[k] = f[m] => k = m
  <2> SUFFICES ASSUME NEW k \in 1..h, NEW m \in 1..h, f[k] = f[m]
               PROVE  k = m
    OBVIOUS
  <2>1. k \in Int /\ m \in Int /\ k * k \in Int /\ m * m \in Int /\ k \in Field /\ m \in Field
    BY <1>2, <1>3, InverseInverse
  <2>2. k * k \cong m * m
    BY <2>1, SameRemainder
  <2>3. CASE k \cong m
    BY <2>1, <2>3, Unique
  <2>4. CASE k \cong -m
    <3>1. k + m - 0 = k - (-m)
      BY <2>1
    <3>2. k + m \cong 0
      BY <2>4, <3>1 DEF \cong
    <3>3. k + m \in Field /\ k + m # 0
      BY <1>1, <2>1 DEF Field
    <3> QED
      BY <3>2, <3>3, FieldIsNat, Unique
  <2> QED
    BY <2>1, <2>2, <2>3, <2>4, SameSquares
<1>7. f \in [1..h -> Squares] /\ \A y \in Squares : \E k \in 1..h : f[k] = y
    BY DEF Squares, h
<1> HIDE DEF f
<1>8. f \in Bijection(1..h, Squares)
  <2>1. f \in Injection(1..h, Squares)
    BY <1>6, <1>7, Fun_IsInj
  <2>2. f \in Surjection(1..h, Squares)
    BY <1>7, Fun_IsSurj
  <2> QED
    BY <2>1, <2>2 DEF Bijection
<1>9. IsFiniteSet(1..h) /\ Cardinality(1..h) = h
    BY <1>1, FS_Interval
<1>10. ExistsBijection(1..h, Squares)
    BY <1>8 DEF ExistsBijection
<1>11. IsFiniteSet(Squares) /\ Cardinality(Squares) = h
    BY <1>9, <1>10, FS_Bijection
<1> QED
    BY <1>4, <1>5, <1>11 DEF h

LEMMA MinusOneHasRoot == \E i \in Int : i * i \cong -1
<1>1. SUFFICES ASSUME \A i \in Int : ~(i * i \cong -1) PROVE FALSE
    OBVIOUS
<1> DEFINE S == Squares \ {1}
<1>2. \A x \in Squares : x \in 1..(P - 1) /\ \E k \in 1..(P - 1) : x = (k * k) % P
  <2>1. \A k \in 1..(4 * Half + 2) : k \in 1..(P - 1)
    BY Eighth
  <2> QED
    BY <2>1, SquaresAre DEF Squares
<1>3. ASSUME NEW x \in S PROVE Inv(x) \in S /\ Inv(x) # x
  <2>1. PICK k \in 1..(P - 1) : x = (k * k) % P
    BY <1>2
  <2> DEFINE i == Inv(x)
             j == Inv(k)
             y == (j * j) % P
  <2>2. x \in Int /\ x \in Field /\ ~(x \cong 0) /\ i \in Int /\ i \in 1..(P - 1) /\ x * i \cong 1
        /\ Inv(i) = x
    BY <1>2, InverseInverse
  <2>3. k \in Int /\ j \in Int /\ j \in 1..(P - 1) /\ k * j \cong 1
    BY InverseInverse
  <2> HIDE DEF i, j
  <2>4. j * j \in Int /\ k * k \in Int /\ k * j \in Int /\ i \in Field
    BY <2>2, <2>3, Prime DEF Field
  <2>5. y \in Squares /\ y \in Field /\ y \in Int /\ y \cong j * j /\ x \cong k * k
    BY <2>1, <2>3, <2>4, SquaresAre, Reduced
  <2> HIDE DEF y
  <2>6. x * y \cong 1
    <3>1. x * y \cong (k * k) * (j * j)
      BY <2>2, <2>4, <2>5, Product
    <3>2. (k * k) * (j * j) = (k * j) * (k * j)
      <4>1. \A a, b \in Int : (a * a) * (b * b) = (a * b) * (a * b)
        OBVIOUS
      <4> QED
        BY <2>3, <4>1
    <3>3. (k * j) * (k * j) \cong 1 * 1 /\ 1 * 1 = 1
      BY <2>3, <2>4, Product
    <3>4. x * y \in Int /\ (k * j) * (k * j) \in Int
      BY <2>2, <2>4, <2>5
    <3> QED
      BY <3>1, <3>2, <3>3, <3>4, Chain
  <2>7. i = y
    <3>1. x * i \in Int /\ x * y \in Int
      BY <2>2, <2>5
    <3>2. x * i \cong x * y
      BY <2>2, <2>6, <3>1, Swap, Chain
    <3> QED
      BY <2>2, <2>4, <2>5, <3>2, Cancel, Unique
  <2>8. i # 1
    <3>1. SUFFICES ASSUME i = 1 PROVE FALSE
      OBVIOUS
    <3>2. x * 1 = x
      BY <2>2
    <3>3. x \cong 1
      BY <2>2, <3>1, <3>2
    <3> QED
      BY <2>2, <3>3, FieldIsNat, Unique
  <2>9. i # x
    <3>1. SUFFICES ASSUME i = x PROVE FALSE
      OBVIOUS
    <3>2. x * x \cong 1 * 1
      BY <2>2, <3>1
    <3>3. x \cong 1 \/ x \cong -1
      BY <2>2, <3>2, SameSquares
    <3>4. ~(x \cong 1)
      BY <2>2, FieldIsNat, Unique
    <3>5. k * k \cong x
      BY <2>2, <2>4, <2>5, Swap
    <3>6. k * k \cong -1
      BY <2>2, <2>4, <3>3, <3>4, <3>5, Chain
    <3> QED
      BY <1>1, <2>3, <3>6
  <2> QED
    BY <2>5, <2>7, <2>8, <2>9 DEF i
<1>4. Paired(S)
    BY <1>2, <1>3 DEF Paired
<1>5. 1 \in Squares
  <2>1. 1 * 1 = 1 /\ 1 \in 1..(P - 1)
    BY Prime
  <2>2. 1 % P = 1
    BY FieldIsNat, Reduced, Unique
  <2> QED
    BY <2>1, <2>2, SquaresAre
<1>6. Cardinality(S) = (4 * Half + 2) - 1
    BY <1>5, SquaresAre, FS_RemoveElement
<1>7. PICK k \in Nat : Cardinality(S) = 2 * k
    BY <1>4, PairedIsEven
<1> HIDE DEF S
<1>8. Half \in Nat
    BY Eighth
<1> QED
    BY <1>6, <1>7, <1>8

\* pow(2, (P - 1) // 4, P) squared is pow(2, (P - 1) / 2, P), which is -1.
LEMMA RootOfMinusOneSquared ==
    /\ RootOfMinusOne \in Field /\ RootOfMinusOne \in Int
    /\ RootOfMinusOne * RootOfMinusOne \cong -1
<1> DEFINE m == Half
           n == 2 * m + 1
           r == RootOfMinusOne
           p == Pow(2, n + n)
<1>1. m \in Nat /\ P = 8 * m + 5
    BY Eighth
<1>2. n \in Nat /\ n + n \in Nat /\ n + n = 2 * n /\ (P - 1) \div 4 = n /\ 2 * (n + n) = P - 1
  <2> HIDE DEF m
  <2>1. n \in Nat /\ P - 1 = 4 * n
    BY <1>1
  <2> HIDE DEF n
  <2>2. (4 * n) \div 4 = n
    BY <2>1
  <2> QED
    BY <2>1, <2>2
<1> HIDE DEF n
<1>3. r = Pow(2, n) /\ r \in Field /\ r \in Int
    BY <1>2, PowStep DEF RootOfMinusOne
<1>4. p \in Int /\ p \cong r * r
    BY <1>2, <1>3, PowSum, PowStep
<1> HIDE DEF r, p
<1>5. PICK i \in Int : i * i \cong -1
    BY MinusOneHasRoot
<1> DEFINE u == 1 + i
           w == 2 * i
           q == Pow(i, n + n)
<1>6. u \in Int /\ w \in Int /\ i * i \in Int /\ u * u \in Int
    OBVIOUS
<1>7. w \cong u * u
  <2>1. w - u * u = Part(-1, i * i, -1)
    BY DEF Part
  <2> QED
    BY <1>5, <1>6, <2>1, From1
<1>8. ~(u \cong 0)
  <2>1. SUFFICES ASSUME u \cong 0 PROVE FALSE
    OBVIOUS
  <2>2. 2 - 0 = Part(1, i * i, -1) + Part(1 - i, u, 0) /\ 1 - i \in Int
    BY DEF Part
  <2>3. 2 \cong 0
    BY <1>5, <1>6, <2>1, <2>2, From2
  <2>4. 2 \in Field
    BY Prime DEF Field
  <2> QED
    BY <2>3, <2>4, FieldIsNat, Unique
<1> HIDE DEF u, w
\* (2 i)^((P - 1) / 2) = (1 + i)^(P - 1) = 1.
<1>9. Pow(w, n + n) = 1
  <2> DEFINE s == Pow(u, 2)
  <2>1. s \in Int /\ s \cong u * u
    BY <1>6, PowTwo
  <2>2. Pow(u, 2 * (n + n)) = Pow(s, n + n)
    BY <1>2, <1>6, PowOfPow
  <2> HIDE DEF s
  <2>3. u * u \cong w
    BY <1>6, <1>7, Swap
  <2>4. s \cong w
    BY <1>6, <2>1, <2>3, Chain
  <2>5. Pow(s, n + n) = Pow(w, n + n)
    BY <1>2, <1>6, <2>1, <2>4, PowOfCongruent
  <2>6. Pow(u, P - 1) = 1
    BY <1>6, <1>8, Fermat
  <2> QED
    BY <1>2, <2>2, <2>5, <2>6
<1>10. q \in Int /\ q \cong -1
  <2> DEFINE s == Pow(i, 2)
             t == Pow(-1, n)
             v == Pow(-1, 2)
  <2>1. s \in Int /\ s \cong i * i
    BY PowTwo
  <2>2. Pow(i, 2 * n) = Pow(s, n)
    BY <1>2, PowOfPow
  <2> HIDE DEF s
  <2>3. s \cong -1
    BY <1>5, <1>6, <2>1, Chain
  <2>4. Pow(s, n) = t
    BY <1>2, <2>1, <2>3, PowOfCongruent
  <2>5. v \in Int /\ v \cong 1
    <3>1. Pow(-1, 2) \in Int /\ Pow(-1, 2) \cong (-1) * (-1)
      BY PowTwo
    <3>2. (-1) * (-1) = 1
      OBVIOUS
    <3> QED
      BY <3>1, <3>2
  <2>6. Pow(-1, 2 * m) = Pow(v, m)
    BY <1>1, PowOfPow
  <2> HIDE DEF v
  <2>7. Pow(v, m) = 1
    BY <1>1, <2>5, PowOfCongruent, PowOfOne
  <2>8. t \in Int /\ t \cong (-1) * 1
    <3>1. 2 * m \in Nat
      BY <1>1
    <3> DEFINE b == -1
               k == 2 * m
    <3>2. b \in Int /\ k \in Nat
      BY <3>1
    <3> HIDE DEF b, k
    <3>3. Pow(b, k + 1) \in Int /\ Pow(b, k + 1) \cong b * Pow(b, k)
      BY <3>2, PowStep
    <3>4. Pow(b, k) = 1 /\ Pow(b, k + 1) = t
      BY <2>6, <2>7 DEF b, k, n
    <3> QED
      BY <3>3, <3>4 DEF b
  <2>9. (-1) * 1 = -1
    OBVIOUS
  <2> QED
    BY <1>2, <2>2, <2>4, <2>8, <2>9
<1>11. Pow(w, n + n) \cong p * q
    BY <1>2, PowOfProduct DEF w, p
<1> HIDE DEF q
<1>12. p \cong -1
  <2>1. p * q \in Int /\ -p \in Int
    BY <1>4, <1>10
  <2>2. 1 \cong p * q
    BY <1>9, <1>11
  <2>3. p - (-1) = Part(1, 1, p * q) + Part(p, q, -1)
    BY <1>4, <1>10 DEF Part
  <2> QED
    BY <1>4, <1>10, <2>1, <2>2, <2>3, From2
<1>13. r * r \in Int /\ r * r \cong p
  <2>1. r * r \in Int
    BY <1>3
  <2> QED
    BY <1>4, <2>1, Swap
<1>14. r * r \cong -1
    BY <1>4, <1>12, <1>13, Chain
<1> QED
    BY <1>3, <1>14 DEF r

\* Neither D nor -D is the square of a quotient.
LEMMA DHasNoRoot ==
    ASSUME NEW z \in Int, NEW t \in Int, ~(z \cong 0)
    PROVE  ~(D * (t * t) \cong z * z)
<1>1. SUFFICES ASSUME D * (t * t) \cong z * z PROVE FALSE
    OBVIOUS
<1>2. D \in Field /\ D \in Int /\ t * t \in Int /\ z * z \in Int
    BY CurveAssumption, FieldIsNat
<1>3. D * (t * t) \in Int
    BY <1>2
<1>4. CASE t \cong 0
  <2>1. z * z - 0 = Part(-1, D * (t * t), z * z) + Part(D * t, t, 0) /\ D * t \in Int
    BY <1>2, <1>3 DEF Part
  <2>2. z * z \cong 0
    BY <1>1, <1>2, <1>3, <1>4, <2>1, From2
  <2> QED
    BY <2>2, PrimeDivides
<1>5. CASE ~(t \cong 0)
  <2> DEFINE u == Inv(t)
             x == (z * u) % P
  <2>1. u \in Int /\ t * u \cong 1
    BY <1>5, InverseOf
  <2> HIDE DEF u
  <2>2. z * u \in Int /\ t * u \in Int
    BY <2>1
  <2>3. x \in Field /\ x \in Int /\ x \cong z * u
    BY <2>2, Reduced
  <2> HIDE DEF x
  <2>4. /\ x + z * u \in Int /\ -(u * u) \in Int /\ D * (t * u + 1) \in Int /\ x * x \in Int
    BY <1>2, <2>1, <2>2, <2>3
  <2>5. x * x - D = Part(x + z * u, x, z * u) + Part(-(u * u), D * (t * t), z * z)
                    + Part(D * (t * u + 1), t * u, 1)
    BY <1>2, <2>1, <2>3 DEF Part
  <2>6. x * x \cong D
    BY <1>1, <1>2, <1>3, <2>1, <2>2, <2>3, <2>4, <2>5, From3
  <2>7. (x * x) % P = D % P /\ (x * x) % P \in Field
    BY <1>2, <2>4, <2>6, SameRemainder, Reduced
  <2>8. D % P = D
    BY <1>2, Reduced, Unique
  <2> QED
    BY <2>3, <2>7, <2>8, CurveAssumption
<1> QED
    BY <1>4, <1>5

LEMMA MinusDHasNoRoot ==
    ASSUME NEW z \in Int, NEW t \in Int, ~(z \cong 0)
    PROVE  ~(D * (t * t) \cong -(z * z))
<1>1. SUFFICES ASSUME D * (t * t) \cong -(z * z) PROVE FALSE
    OBVIOUS
<1> DEFINE i == RootOfMinusOne
<1>2. i \in Int /\ i * i \cong -1
    BY RootOfMinusOneSquared
<1> HIDE DEF i
<1>3. D \in Int /\ t * t \in Int /\ -(z * z) \in Int /\ i * i \in Int /\ i * z \in Int
    BY <1>2, CurveAssumption, FieldIsNat
<1>4. D * (t * t) \in Int /\ (i * z) * (i * z) \in Int /\ -(-(z * z)) = z * z
    BY <1>3
<1>5. ~(i * z \cong 0)
  <2>1. SUFFICES ASSUME i \cong 0 PROVE FALSE
    BY <1>2, PrimeDivides
  <2>2. 1 - 0 = Part(1, i * i, -1) + Part(-i, i, 0) /\ -i \in Int
    BY <1>2 DEF Part
  <2>3. 1 \cong 0
    BY <1>2, <1>3, <2>1, <2>2, From2
  <2> QED
    BY <2>3, FieldIsNat, Unique
<1>6. D * (t * t) - (i * z) * (i * z)
        = Part(1, D * (t * t), -(z * z)) + Part(-(z * z), i * i, -1)
  <2>1. (i * z) * (i * z) = (i * i) * (z * z)
    BY <1>2
  <2> QED
    BY <1>2, <1>3, <2>1 DEF Part
<1>7. D * (t * t) \cong (i * z) * (i * z)
    BY <1>1, <1>2, <1>3, <1>4, <1>6, From2
<1> QED
    BY <1>3, <1>5, <1>7, DHasNoRoot

-----------------------------------------------------------------------------
(* Doubling.  T is X Y / Z, so that the equation of the curve is           *)
(* Y^2 - X^2 = Z^2 + D T^2.                                                *)

Extended(X, Y, Z, T) ==
    /\ X \in Int /\ Y \in Int /\ Z \in Int /\ T \in Int /\ ~(Z \cong 0)
    /\ X * Y \cong Z * T /\ Y * Y - X * X \cong Z * Z + D * (T * T)

LEMMA DIsInt == D \in Int /\ D \in Field
BY CurveAssumption, FieldIsNat

\* The denominators of the double are not 0.
LEMMA Denominators ==
    ASSUME NEW X, NEW Y, NEW Z, NEW T, Extended(X, Y, Z, T)
    PROVE  ~(Y * Y - X * X \cong 0) /\ ~((Y * Y - X * X) - 2 * (Z * Z) \cong 0)
<1> DEFINE g == Y * Y - X * X
           z == Z * Z
           t == D * (T * T)
<1>1. X \in Int /\ Y \in Int /\ Z \in Int /\ T \in Int /\ ~(Z \cong 0) /\ g \cong z + t
    BY DEF Extended
<1>2. X * X \in Int /\ Y * Y \in Int /\ z \in Int /\ T * T \in Int
    BY <1>1
<1>3. g \in Int /\ t \in Int
    BY <1>2, DIsInt
<1>4. ~(t \cong z) /\ ~(t \cong -z)
    BY <1>1, DHasNoRoot, MinusDHasNoRoot
<1> HIDE DEF g, z, t
<1>5. z + t \in Int /\ g - 2 * z \in Int /\ -z \in Int
    BY <1>2, <1>3
<1>6. ASSUME g \cong 0 PROVE FALSE
  <2>1. t - (-z) = Part(-1, g, z + t) + Part(1, g, 0)
    BY <1>2, <1>3 DEF Part
  <2>2. t \cong -z
    BY <1>1, <1>3, <1>5, <1>6, <2>1, From2
  <2> QED
    BY <1>4, <2>2
<1>7. ASSUME g - 2 * z \cong 0 PROVE FALSE
  <2>1. t - z = Part(-1, g, z + t) + Part(1, g - 2 * z, 0)
    BY <1>2, <1>3 DEF Part
  <2>2. t \cong z
    BY <1>1, <1>2, <1>3, <1>5, <1>7, <2>1, From2
  <2> QED
    BY <1>4, <2>2
<1> QED
    BY <1>6, <1>7 DEF g, z

\* The equation of the curve, for the double.
LEMMA DoubleEquation ==
    ASSUME NEW X, NEW Y, NEW Z, NEW T, Extended(X, Y, Z, T),
           NEW e, NEW f, NEW g, NEW h,
           e = 2 * (X * Y), g = Y * Y - X * X, f = g - 2 * (Z * Z), h = -(X * X) - Y * Y
    PROVE  (g * h) * (g * h) - (e * f) * (e * f) \cong (f * g) * (f * g) + D * ((e * h) * (e * h))
<1> DEFINE n == X * Y
           m == Z * T
           z == Z * Z
           t == D * (T * T)
           k == e * e + g * g
<1>1. X \in Int /\ Y \in Int /\ Z \in Int /\ T \in Int /\ n \cong m /\ g \cong z + t
    BY DEF Extended
<1>2. n \in Int /\ m \in Int /\ z \in Int /\ X * X \in Int /\ Y * Y \in Int /\ T * T \in Int
    BY <1>1
<1>3. t \in Int /\ g \in Int /\ h \in Int /\ e \in Int
    BY <1>2, DIsInt
<1>4. f \in Int
    BY <1>2, <1>3
<1>5. h * h = e * e + g * g
  <2>1. \A a, b \in Int : (-(a * a) - b * b) * (-(a * a) - b * b)
            = (2 * (a * b)) * (2 * (a * b)) + (b * b - a * a) * (b * b - a * a)
    OBVIOUS
  <2> QED
    BY <1>1, <2>1
<1>6. D * (m * m) = z * t
  <2>1. \A a, b, d \in Int : d * ((a * b) * (a * b)) = (a * a) * (d * (b * b))
    OBVIOUS
  <2> QED
    BY <1>1, <2>1, DIsInt
<1>7. e = 2 * n /\ f = g - 2 * z
    OBVIOUS
<1> HIDE DEF n, m, z, t
<1>8. g * g - f * f - D * (e * e) = (4 * z) * (g - (z + t)) + (-(4 * (D * (n + m)))) * (n - m)
  <2>1. f * f = g * g - 4 * (z * g) + 4 * (z * z)
    BY <1>2, <1>3, <1>7
  <2>2. D * (e * e) = 4 * (D * (n * n))
    <3>1. \A a, d \in Int : d * ((2 * a) * (2 * a)) = 4 * (d * (a * a))
      OBVIOUS
    <3>2. D * ((2 * n) * (2 * n)) = 4 * (D * (n * n))
      BY <1>2, <3>1, DIsInt
    <3> QED
      BY <1>7, <3>2
  <2>3. (D * (n + m)) * (n - m) = D * (n * n) - D * (m * m)
    BY <1>2, DIsInt
  <2>4. (4 * z) * (g - (z + t)) = 4 * (z * g) - 4 * (z * z) - 4 * (z * t)
    BY <1>2, <1>3
  <2>5. (-(4 * (D * (n + m)))) * (n - m) = -(4 * ((D * (n + m)) * (n - m)))
    BY <1>2, DIsInt
  <2>6. z * g \in Int /\ z * z \in Int /\ z * t \in Int /\ n * n \in Int /\ m * m \in Int /\ g * g \in Int
    BY <1>2, <1>3
  <2>7. D * (n * n) \in Int /\ D * (m * m) \in Int
    BY <2>6, DIsInt
  <2> QED
    BY <1>6, <2>1, <2>2, <2>3, <2>4, <2>5, <2>6, <2>7
<1> DEFINE u == g * g - f * f - D * (e * e)
<1>9. e * e \in Int /\ f * f \in Int /\ g * g \in Int /\ k \in Int /\ h * h = k
    BY <1>3, <1>4, <1>5
<1>10. u \in Int
    BY <1>9, DIsInt
<1>11. u \cong 0
  <2>1. u - 0 = Part(4 * z, g, z + t) + Part(-(4 * (D * (n + m))), n, m)
    BY <1>8, <1>10 DEF Part
  <2>2. n + m \in Int /\ z + t \in Int /\ 4 * z \in Int
    BY <1>2, <1>3
  <2>3. -(4 * (D * (n + m))) \in Int
    BY <2>2, DIsInt
  <2> HIDE DEF u
  <2> QED
    BY <1>1, <1>2, <1>3, <1>10, <2>1, <2>2, <2>3, From2
<1> DEFINE l == (g * h) * (g * h) - (e * f) * (e * f)
           r == (f * g) * (f * g) + D * ((e * h) * (e * h))
<1>12. l - r = k * u
  <2>1. (g * h) * (g * h) = (g * g) * k
    <3>1. \A a, b \in Int : (a * b) * (a * b) = (a * a) * (b * b)
      OBVIOUS
    <3> QED
      BY <1>3, <1>9, <3>1
  <2>2. (e * h) * (e * h) = (e * e) * k
    <3>1. \A a, b \in Int : (a * b) * (a * b) = (a * a) * (b * b)
      OBVIOUS
    <3> QED
      BY <1>3, <1>9, <3>1
  <2>3. (e * f) * (e * f) + (f * g) * (f * g) = k * (f * f)
    BY <1>3, <1>4
  <2>4. k * u = k * (g * g) - k * (f * f) - k * (D * (e * e))
    <3>1. \A a, b, c, d \in Int : a * (b - c - d) = a * b - a * c - a * d
      OBVIOUS
    <3>2. D * (e * e) \in Int
      BY <1>9, DIsInt
    <3> HIDE DEF k
    <3> QED
      BY <1>9, <3>1, <3>2
  <2>5. D * ((e * e) * k) = k * (D * (e * e)) /\ (g * g) * k = k * (g * g)
    <3>1. \A a, b, c \in Int : a * (b * c) = c * (a * b) /\ b * c = c * b
      OBVIOUS
    <3> HIDE DEF k
    <3> QED
      BY <1>9, <3>1, DIsInt
  <2>6. k * (g * g) \in Int /\ k * (f * f) \in Int /\ (e * f) * (e * f) \in Int /\ (f * g) * (f * g) \in Int
    <3>1. e * f \in Int /\ f * g \in Int
      BY <1>3, <1>4
    <3> HIDE DEF k
    <3> QED
      BY <1>9, <3>1
  <2>7. k * (D * (e * e)) \in Int
    <3>1. D * (e * e) \in Int
      BY <1>9, DIsInt
    <3> HIDE DEF k
    <3> QED
      BY <1>9, <3>1
  <2> HIDE DEF u, k
  <2> QED
    BY <2>1, <2>2, <2>3, <2>4, <2>5, <2>6, <2>7
<1>13. l \in Int /\ r \in Int
  <2>1. g * h \in Int /\ e * f \in Int /\ f * g \in Int /\ e * h \in Int
    BY <1>3, <1>4
  <2>2. (g * h) * (g * h) \in Int /\ (e * f) * (e * f) \in Int /\ (f * g) * (f * g) \in Int
        /\ (e * h) * (e * h) \in Int
    BY <2>1
  <2> QED
    BY <2>2, DIsInt
<1> HIDE DEF l, r, u, k
<1>14. l - r = Part(k, u, 0)
    BY <1>9, <1>10, <1>12 DEF Part
<1> QED
    BY <1>9, <1>10, <1>11, <1>13, <1>14, From1 DEF l, r

\* Double of extended coordinates: extended coordinates again.
LEMMA DoubleIsExtended ==
    ASSUME NEW X, NEW Y, NEW Z, NEW T, Extended(X, Y, Z, T),
           NEW E \in Int, NEW F \in Int, NEW G \in Int, NEW H \in Int,
           E \cong 2 * (X * Y), G \cong Y * Y - X * X,
           F \cong (Y * Y - X * X) - 2 * (Z * Z), H \cong -(X * X) - Y * Y
    PROVE  /\ ~(F \cong 0) /\ ~(G \cong 0)
           /\ Extended(E * F, G * H, F * G, E * H)
<1> DEFINE e == 2 * (X * Y)
           g == Y * Y - X * X
           f == g - 2 * (Z * Z)
           h == -(X * X) - Y * Y
<1>1. e \in Int /\ f \in Int /\ g \in Int /\ h \in Int
  <2>1. X \in Int /\ Y \in Int /\ Z \in Int
    BY DEF Extended
  <2>2. X * Y \in Int /\ Y * Y \in Int /\ X * X \in Int /\ Z * Z \in Int
    BY <2>1
  <2> QED
    BY <2>2
<1>2. ~(f \cong 0) /\ ~(g \cong 0)
    BY Denominators
<1>3. (g * h) * (g * h) - (e * f) * (e * f) \cong (f * g) * (f * g) + D * ((e * h) * (e * h))
    BY DoubleEquation
<1>4. E \cong e /\ F \cong f /\ G \cong g /\ H \cong h
    OBVIOUS
<1> HIDE DEF e, f, g, h
<1>5. f \cong F /\ g \cong G
    BY <1>1, <1>4, Swap
<1>6. ~(F \cong 0) /\ ~(G \cong 0)
    BY <1>1, <1>2, <1>5, Chain
<1>7. E * F \cong e * f /\ G * H \cong g * h /\ F * G \cong f * g /\ E * H \cong e * h
    BY <1>1, <1>4, Product
<1> DEFINE X2 == E * F
           Y2 == G * H
           Z2 == F * G
           T2 == E * H
           x == e * f
           y == g * h
           z == f * g
           t == e * h
<1>8. X2 \in Int /\ Y2 \in Int /\ Z2 \in Int /\ T2 \in Int
      /\ x \in Int /\ y \in Int /\ z \in Int /\ t \in Int
    BY <1>1
<1>9. ~(Z2 \cong 0)
    BY <1>6, PrimeDivides
<1>10. X2 * Y2 = Z2 * T2
  <2>1. \A a, b, c, d \in Int : (a * b) * (c * d) = (b * c) * (a * d)
    OBVIOUS
  <2> QED
    BY <2>1
<1> HIDE DEF X2, Y2, Z2, T2, x, y, z, t
<1>11. X2 \cong x /\ Y2 \cong y /\ Z2 \cong z /\ T2 \cong t
    BY <1>7 DEF X2, Y2, Z2, T2, x, y, z, t
<1>12. y * y - x * x \cong z * z + D * (t * t)
    BY <1>3 DEF x, y, z, t
<1>13. X2 * X2 \cong x * x /\ Y2 * Y2 \cong y * y /\ Z2 * Z2 \cong z * z /\ T2 * T2 \cong t * t
    BY <1>8, <1>11, Product
<1>14. X2 * X2 \in Int /\ Y2 * Y2 \in Int /\ Z2 * Z2 \in Int /\ T2 * T2 \in Int
       /\ x * x \in Int /\ y * y \in Int /\ z * z \in Int /\ t * t \in Int
    BY <1>8
<1>15. D * (T2 * T2) \cong D * (t * t)
    BY <1>13, <1>14, DIsInt, Scale
<1>16. D * (T2 * T2) \in Int /\ D * (t * t) \in Int
    BY <1>14, DIsInt
<1>17. Y2 * Y2 - X2 * X2 \cong y * y - x * x
    BY <1>13, <1>14, Sum
<1>18. z * z + D * (t * t) \cong Z2 * Z2 + D * (T2 * T2)
  <2>1. Z2 * Z2 + D * (T2 * T2) \cong z * z + D * (t * t)
    BY <1>13, <1>14, <1>15, <1>16, Sum
  <2> QED
    BY <1>14, <1>16, <2>1, Swap
<1>19. Y2 * Y2 - X2 * X2 \cong Z2 * Z2 + D * (T2 * T2)
  <2>1. Y2 * Y2 - X2 * X2 \in Int /\ y * y - x * x \in Int /\ z * z + D * (t * t) \in Int
        /\ Z2 * Z2 + D * (T2 * T2) \in Int
    BY <1>14, <1>16
  <2>2. Y2 * Y2 - X2 * X2 \cong z * z + D * (t * t)
    BY <1>12, <1>17, <2>1, Chain
  <2> QED
    BY <1>18, <2>1, <2>2, Chain
<1>20. X2 * Y2 \in Int /\ X2 * Y2 \cong Z2 * T2
  <2>1. X2 * Y2 \in Int
    BY <1>8
  <2> QED
    BY <1>10, <2>1, Same
<1>21. Extended(X2, Y2, Z2, T2)
    BY <1>8, <1>9, <1>19, <1>20 DEF Extended
<1> QED
    BY <1>6, <1>21 DEF X2, Y2, Z2, T2

\* Congruent coordinates are as good.
LEMMA ExtendedCongruent ==
    ASSUME NEW X, NEW Y, NEW Z, NEW T, Extended(X, Y, Z, T),
           NEW x \in Int, NEW y \in Int, NEW z \in Int, NEW t \in Int,
           x \cong X, y \cong Y, z \cong Z, t \cong T
    PROVE  Extended(x, y, z, t)
<1>1. X \in Int /\ Y \in Int /\ Z \in Int /\ T \in Int /\ ~(Z \cong 0)
      /\ X * Y \cong Z * T /\ Y * Y - X * X \cong Z * Z + D * (T * T)
    BY DEF Extended
<1>2. ~(z \cong 0)
    BY <1>1, Swap, Chain
<1>3. x * y \cong X * Y /\ z * t \cong Z * T
    BY <1>1, Product
<1>4. x * y \in Int /\ X * Y \in Int /\ z * t \in Int /\ Z * T \in Int
    BY <1>1
<1>5. x * y \cong z * t
  <2>1. Z * T \cong z * t
    BY <1>3, <1>4, Swap
  <2>2. x * y \cong Z * T
    BY <1>1, <1>3, <1>4, Chain
  <2> QED
    BY <1>4, <2>1, <2>2, Chain
<1>6. X * X \in Int /\ Y * Y \in Int /\ Z * Z \in Int /\ T * T \in Int
      /\ x * x \in Int /\ y * y \in Int /\ z * z \in Int /\ t * t \in Int
    BY <1>1
<1>7. x * x \cong X * X /\ y * y \cong Y * Y /\ z * z \cong Z * Z /\ t * t \cong T * T
    BY <1>1, Product
<1>8. D * (T * T) \in Int /\ D * (t * t) \in Int
    BY <1>6, DIsInt
<1>9. D * (t * t) \cong D * (T * T)
    BY <1>6, <1>7, DIsInt, Scale
<1> DEFINE l == y * y - x * x
           r == z * z + D * (t * t)
           L1 == Y * Y - X * X
           R1 == Z * Z + D * (T * T)
<1>10. l \in Int /\ r \in Int /\ L1 \in Int /\ R1 \in Int
    BY <1>6, <1>8
<1>11. l \cong L1 /\ r \cong R1 /\ L1 \cong R1
    BY <1>1, <1>6, <1>7, <1>8, <1>9, Sum
<1> HIDE DEF l, r, L1, R1
<1>12. l \cong r
    BY <1>10, <1>11, Swap, Chain
<1> QED
    BY <1>2, <1>5, <1>12 DEF Extended, l, r

\* What Double computes, before the last reductions.
LEMMA DoubleIs ==
    ASSUME NEW X \in Field, NEW Y \in Field, NEW Z \in Field, NEW T \in Field,
           Extended(X, Y, Z, T)
    PROVE  \E E, F, G, H \in Int :
             /\ E \cong 2 * (X * Y) /\ G \cong Y * Y - X * X
             /\ F \cong (Y * Y - X * X) - 2 * (Z * Z) /\ H \cong -(X * X) - Y * Y
             /\ Double(<<X, Y, Z, T>>) = <<(E * F) % P, (G * H) % P, (F * G) % P, (E * H) % P>>
<1>1. X \in Int /\ Y \in Int /\ Z \in Int
    BY FieldIsNat
<1> DEFINE A == (X * X) % P
           B == (Y * Y) % P
           C == (2 * Z * Z) % P
           s == (X + Y) * (X + Y)
           E == (s - A - B) % P
           G == (B - A) % P
           F == (G - C) % P
           H == (-A - B) % P
<1>2. X * X \in Int /\ Y * Y \in Int /\ Z * Z \in Int /\ X * Y \in Int
    BY <1>1
<1>3. 2 * Z * Z \in Int /\ 2 * Z * Z = 2 * (Z * Z) /\ s \in Int /\ s = X * X + 2 * (X * Y) + Y * Y
    BY <1>1
<1>4. A \in Int /\ B \in Int /\ C \in Int /\ A \cong X * X /\ B \cong Y * Y /\ C \cong 2 * (Z * Z)
    BY <1>2, <1>3, Reduced
<1>5. <<(E * F) % P, (G * H) % P, (F * G) % P, (E * H) % P>> = Double(<<X, Y, Z, T>>)
    BY DEF Double
<1> HIDE DEF A, B, C, s
<1>6. s - A - B \in Int /\ B - A \in Int /\ -A - B \in Int
    BY <1>3, <1>4
<1>7. E \in Int /\ G \in Int /\ H \in Int /\ E \cong s - A - B /\ G \cong B - A /\ H \cong -A - B
    BY <1>6, Reduced
<1> HIDE DEF E, G, H
<1>8. G - C \in Int
    BY <1>4, <1>7
<1>9. F \in Int /\ F \cong G - C
    BY <1>8, Reduced
<1> HIDE DEF F
<1> DEFINE xx == X * X
           yy == Y * Y
           zz == 2 * (Z * Z)
           xy == 2 * (X * Y)
<1>10. xx \in Int /\ yy \in Int /\ zz \in Int /\ xy \in Int /\ s = xx + xy + yy
       /\ A \cong xx /\ B \cong yy /\ C \cong zz
    BY <1>2, <1>3, <1>4
<1> HIDE DEF xx, yy, zz, xy
<1>11. E \cong xy
  <2>1. E - xy = Part(1, E, s - A - B) + Part(-1, A, xx) + Part(-1, B, yy)
    BY <1>3, <1>4, <1>7, <1>10 DEF Part
  <2> QED
    BY <1>4, <1>6, <1>7, <1>10, <2>1, From3
<1>12. G \cong yy - xx
  <2>1. yy - xx \in Int /\ G - (yy - xx) = Part(1, G, B - A) + Part(1, B, yy) + Part(-1, A, xx)
    BY <1>4, <1>7, <1>10 DEF Part
  <2> QED
    BY <1>4, <1>6, <1>7, <1>10, <2>1, From3
<1>13. F \cong (yy - xx) - zz
  <2>1. yy - xx \in Int /\ (yy - xx) - zz \in Int
    BY <1>10
  <2>2. F - ((yy - xx) - zz) = Part(1, F, G - C) + Part(1, G, yy - xx) + Part(-1, C, zz)
    BY <1>4, <1>7, <1>9, <1>10, <2>1 DEF Part
  <2> QED
    BY <1>4, <1>7, <1>8, <1>9, <1>10, <1>12, <2>1, <2>2, From3
<1>14. H \cong -xx - yy
  <2>1. -xx - yy \in Int /\ H - (-xx - yy) = Part(1, H, -A - B) + Part(-1, A, xx) + Part(-1, B, yy)
    BY <1>4, <1>7, <1>10 DEF Part
  <2> QED
    BY <1>4, <1>6, <1>7, <1>10, <2>1, From3
<1> QED
    BY <1>5, <1>7, <1>9, <1>11, <1>12, <1>13, <1>14 DEF xx, yy, zz, xy

-----------------------------------------------------------------------------
(* The quotients by Z: a point of the curve, which Double doubles by the   *)
(* group's own addition.                                                   *)

Affine(q) == <<Div(q[1], q[3]), Div(q[2], q[3])>>

OnCurve(q) ==
    /\ q \in Field \X Field \X Field \X Field
    /\ Extended(q[1], q[2], q[3], q[4])

LEMMA CurveEquation ==
    ASSUME NEW x \in Field, NEW y \in Field
    PROVE  <<x, y>> \in Curve <=> y * y - x * x \cong 1 + D * ((x * y) * (x * y))
<1>1. x \in Int /\ y \in Int /\ x * y \in Int /\ x * x \in Int /\ y * y \in Int
  <2>1. x \in Int /\ y \in Int
    BY FieldIsNat
  <2> QED
    BY <2>1
<1>2. (x * y) * (x * y) \in Int
    BY <1>1
<1>3. D * x * x * y * y = D * ((x * y) * (x * y)) /\ D * ((x * y) * (x * y)) \in Int
  <2>1. \A a, b, d \in Int : d * a * a * b * b = d * ((a * b) * (a * b))
    OBVIOUS
  <2> QED
    BY <1>1, <1>2, <2>1, DIsInt
<1> DEFINE l == y * y - x * x
           t == D * ((x * y) * (x * y))
<1>4. y * y - x * x - 1 - D * x * x * y * y = l - (1 + t) /\ l \in Int /\ t \in Int
    BY <1>1, <1>3
<1>5. <<x, y>> \in Curve <=> (l - (1 + t)) % P = 0
    BY <1>4 DEF Curve
<1> HIDE DEF l, t
<1>6. 1 + t \in Int
    BY <1>4
<1> QED
    BY <1>4, <1>5, <1>6, Difference DEF l, t

\* The quotients are coordinates with Z = 1, and T / Z is their product.
LEMMA Normal ==
    ASSUME NEW X, NEW Y, NEW Z, NEW T, Extended(X, Y, Z, T),
           NEW x \in Int, NEW y \in Int, Z * x \cong X, Z * y \cong Y
    PROVE  Extended(x, y, 1, x * y)
<1>1. X \in Int /\ Y \in Int /\ Z \in Int /\ T \in Int /\ ~(Z \cong 0)
      /\ X * Y \cong Z * T /\ Y * Y - X * X \cong Z * Z + D * (T * T)
    BY DEF Extended
<1> DEFINE t == x * y
           X1 == Z * x
           Y1 == Z * y
           T1 == Z * t
<1>2. t \in Int /\ X1 \in Int /\ Y1 \in Int
    BY <1>1
<1>3. T1 \in Int /\ Z * T1 \in Int /\ Z * T \in Int /\ X * Y \in Int /\ X1 * Y1 \in Int
  <2> HIDE DEF t
  <2>1. T1 \in Int
    BY <1>1, <1>2
  <2> QED
    BY <1>1, <1>2, <2>1
<1>4. T1 \cong T
  <2>1. X1 * Y1 = Z * T1
    <3>1. \A a, b, c \in Int : (a * b) * (a * c) = a * (a * (b * c))
      OBVIOUS
    <3> QED
      BY <1>1, <3>1
  <2> HIDE DEF X1, Y1, T1
  <2>2. X1 * Y1 \cong X * Y
    BY <1>1, <1>2, Product DEF X1, Y1
  <2>3. Z * T1 \cong Z * T
    BY <1>1, <1>3, <2>1, <2>2, Chain
  <2> QED
    BY <1>1, <1>3, <2>3, Cancel
<1>5. Z \cong Z
    BY <1>1, Same
<1>6. Extended(X1, Y1, Z, T1)
    BY <1>1, <1>2, <1>3, <1>4, <1>5, ExtendedCongruent
<1>7. Y1 * Y1 - X1 * X1 \cong Z * Z + D * (T1 * T1)
    BY <1>6 DEF Extended
<1> DEFINE l == y * y - x * x
           r == 1 + D * (t * t)
<1>8. l \in Int /\ r \in Int
  <2>1. y * y \in Int /\ x * x \in Int /\ t * t \in Int
    BY <1>2
  <2> QED
    BY <2>1, DIsInt
<1>9. Y1 * Y1 - X1 * X1 = (Z * Z) * l
  <2>1. \A a, b, c \in Int : (a * b) * (a * b) - (a * c) * (a * c) = (a * a) * (b * b - c * c)
    OBVIOUS
  <2> QED
    BY <1>1, <2>1
<1>10. Z * Z + D * (T1 * T1) = (Z * Z) * r
  <2>1. \A a, b, d \in Int : a * a + d * ((a * b) * (a * b)) = (a * a) * (1 + d * (b * b))
    OBVIOUS
  <2> HIDE DEF t
  <2> QED
    BY <1>1, <1>2, <2>1, DIsInt
<1> HIDE DEF l, r, X1, Y1, T1
<1>11. l \cong r
  <2>1. Z * Z \in Int /\ ~(Z * Z \cong 0)
    <3>1. Z * Z \in Int
      BY <1>1
    <3> QED
      BY <1>1, <3>1, PrimeDivides
  <2>2. (Z * Z) * l \cong (Z * Z) * r
    BY <1>7, <1>9, <1>10
  <2> QED
    BY <1>8, <2>1, <2>2, Cancel
<1>12. ~(1 \cong 0) /\ x * y \cong 1 * t /\ 1 * 1 = 1
  <2>1. 1 * t = x * y
    BY <1>2
  <2> QED
    BY <1>2, <2>1, Same, FieldIsNat, Unique
<1> QED
    BY <1>2, <1>11, <1>12 DEF Extended, l, r

LEMMA AffineOnCurve ==
    ASSUME NEW q, OnCurve(q)
    PROVE  Affine(q) \in Curve
<1> DEFINE x == Div(q[1], q[3])
           y == Div(q[2], q[3])
<1>1. q[1] \in Int /\ q[2] \in Int /\ q[3] \in Int /\ ~(q[3] \cong 0)
    BY DEF OnCurve, Extended
<1>2. x \in Field /\ y \in Field /\ x \in Int /\ y \in Int /\ q[3] * x \cong q[1] /\ q[3] * y \cong q[2]
    BY <1>1, Quotient
<1> HIDE DEF x, y
<1>3. Extended(x, y, 1, x * y)
    BY <1>2, Normal DEF OnCurve
<1>4. y * y - x * x \cong 1 + D * ((x * y) * (x * y))
    BY <1>3 DEF Extended
<1> QED
    BY <1>2, <1>4, CurveEquation DEF Affine, x, y

\* x and y are the double of the point (X/Z, Y/Z), found by (E F, G H, F G).
LEMMA DoubleQuotients ==
    ASSUME NEW X, NEW Y, NEW Z, NEW T, Extended(X, Y, Z, T),
           NEW a \in Int, NEW b \in Int, Z * a \cong X, Z * b \cong Y,
           NEW E \in Int, NEW F \in Int, NEW G \in Int, NEW H \in Int,
           E \cong 2 * (X * Y), G \cong Y * Y - X * X,
           F \cong (Y * Y - X * X) - 2 * (Z * Z), H \cong -(X * X) - Y * Y,
           NEW x \in Int, NEW y \in Int, (F * G) * x \cong E * F, (F * G) * y \cong G * H
    PROVE  /\ (b * b - a * a) * x \cong 2 * (a * b)
           /\ (2 - (b * b - a * a)) * y \cong a * a + b * b
<1>1. X \in Int /\ Y \in Int /\ Z \in Int /\ T \in Int /\ ~(Z \cong 0)
    BY DEF Extended
<1>2. ~(F \cong 0) /\ ~(G \cong 0)
    BY DoubleIsExtended
<1>3. G * x \cong E
  <2>1. G * x \in Int /\ F * (G * x) = (F * G) * x /\ F * E = E * F
    OBVIOUS
  <2> QED
    BY <1>2, <2>1, Cancel
<1>4. F * y \cong H
  <2>1. F * y \in Int /\ G * (F * y) = (F * G) * y
    OBVIOUS
  <2> QED
    BY <1>2, <2>1, Cancel
<1> DEFINE X1 == Z * a
           Y1 == Z * b
           z == Z * Z
           e == 2 * (a * b)
           g == b * b - a * a
           h == -(a * a) - b * b
<1>5. /\ X1 \in Int /\ Y1 \in Int /\ z \in Int /\ e \in Int /\ g \in Int /\ h \in Int
      /\ z * e \in Int /\ z * g \in Int /\ z * h \in Int
  <2>1. X1 \in Int /\ Y1 \in Int /\ z \in Int /\ a * b \in Int /\ a * a \in Int /\ b * b \in Int
    BY <1>1
  <2>2. e \in Int /\ g \in Int /\ h \in Int
    BY <2>1
  <2> HIDE DEF e, g, h, z
  <2> QED
    BY <2>1, <2>2
<1>6. X1 \cong X /\ Y1 \cong Y
    OBVIOUS
<1>7. X * X \in Int /\ Y * Y \in Int /\ X * Y \in Int /\ X1 * X1 \in Int /\ Y1 * Y1 \in Int
      /\ X1 * Y1 \in Int
  <2> HIDE DEF X1, Y1
  <2> QED
    BY <1>1, <1>5
<1>8. X * X \cong X1 * X1 /\ Y * Y \cong Y1 * Y1 /\ X * Y \cong X1 * Y1
  <2> HIDE DEF X1, Y1
  <2>1. X \cong X1 /\ Y \cong Y1
    BY <1>1, <1>5, <1>6, Swap
  <2> QED
    BY <1>1, <1>5, <2>1, Product
<1>9. E \cong z * e /\ G \cong z * g /\ F \cong z * (g - 2) /\ H \cong z * h
  <2>1. X1 * X1 = z * (a * a) /\ Y1 * Y1 = z * (b * b) /\ X1 * Y1 = z * (a * b)
    <3>1. \A k, m, n \in Int : (k * m) * (k * n) = (k * k) * (m * n)
      OBVIOUS
    <3> QED
      BY <1>1, <3>1
  <2> DEFINE xx == X * X
             yy == Y * Y
             xy == X * Y
             aa == a * a
             bb == b * b
             ab == a * b
  <2>2. xx \cong z * aa /\ yy \cong z * bb /\ xy \cong z * ab
    BY <1>8, <2>1
  <2>3. aa \in Int /\ bb \in Int /\ ab \in Int /\ xx \in Int /\ yy \in Int /\ xy \in Int
    BY <1>7
  <2>4. E \cong 2 * xy /\ G \cong yy - xx /\ F \cong (yy - xx) - 2 * z /\ H \cong -xx - yy
        /\ e = 2 * ab /\ g = bb - aa /\ h = -aa - bb
    OBVIOUS
  <2> HIDE DEF xx, yy, xy, aa, bb, ab, e, g, h, z
  <2>5. z * aa \in Int /\ z * bb \in Int /\ z * ab \in Int
    BY <1>5, <2>3
  <2>6. 2 * xy \in Int /\ yy - xx \in Int /\ -xx - yy \in Int /\ (yy - xx) - 2 * z \in Int
        /\ z * (g - 2) \in Int
    <3>1. 2 * xy \in Int /\ yy - xx \in Int /\ -xx - yy \in Int /\ (yy - xx) - 2 * z \in Int
      BY <1>5, <2>3
    <3>2. g - 2 \in Int
      BY <1>5
    <3> QED
      BY <1>5, <3>1, <3>2
  <2>7. z * e = 2 * (z * ab) /\ z * g = z * bb - z * aa /\ z * (g - 2) = z * g - 2 * z
        /\ z * h = -(z * aa) - z * bb
    BY <1>5, <2>3, <2>4
  <2>8. E \cong z * e
    <3>1. E - z * e = Part(1, E, 2 * xy) + Part(2, xy, z * ab)
      BY <1>5, <2>3, <2>5, <2>7 DEF Part
    <3> QED
      BY <1>5, <2>2, <2>3, <2>4, <2>5, <2>6, <3>1, From2
  <2>9. G \cong z * g
    <3>1. G - z * g = Part(1, G, yy - xx) + Part(1, yy, z * bb) + Part(-1, xx, z * aa)
      BY <1>5, <2>3, <2>5, <2>7 DEF Part
    <3> QED
      BY <1>5, <2>2, <2>3, <2>4, <2>5, <2>6, <3>1, From3
  <2>10. F \cong z * (g - 2)
    <3>1. F - z * (g - 2) = Part(1, F, (yy - xx) - 2 * z) + Part(1, yy, z * bb) + Part(-1, xx, z * aa)
      BY <1>5, <2>3, <2>5, <2>7 DEF Part
    <3> QED
      BY <1>5, <2>2, <2>3, <2>4, <2>5, <2>6, <3>1, From3
  <2>11. H \cong z * h
    <3>1. H - z * h = Part(1, H, -xx - yy) + Part(-1, yy, z * bb) + Part(-1, xx, z * aa)
      BY <1>5, <2>3, <2>5, <2>7 DEF Part
    <3> QED
      BY <1>5, <2>2, <2>3, <2>4, <2>5, <2>6, <3>1, From3
  <2> QED
    BY <2>8, <2>9, <2>10, <2>11
<1>10. z \in Int /\ ~(z \cong 0)
    BY <1>1, <1>5, PrimeDivides
<1>11. (2 - g) * y \cong a * a + b * b /\ g * x \cong e
  <2>1. -h = a * a + b * b
    BY <1>1
  <2> HIDE DEF e, g, h, z
  <2>2. g * x \cong e
    <3>1. g * x \in Int /\ z * (g * x) \in Int /\ G * x \in Int
      <4>1. g * x \in Int
        BY <1>5
      <4> QED
        BY <1>5, <4>1
    <3>2. z * (g * x) - z * e = Part(-x, G, z * g) + Part(1, G * x, E) + Part(1, E, z * e)
      <4>1. z * (g * x) = x * (z * g) /\ G * x = x * G
        BY <1>5
      <4>2. Part(-x, G, z * g) = x * (z * g) - x * G
        BY <1>5 DEF Part
      <4>3. Part(1, G * x, E) = G * x - E /\ Part(1, E, z * e) = E - z * e
        BY <1>5, <3>1 DEF Part
      <4>4. x * G \in Int /\ x * (z * g) \in Int
        BY <1>5
      <4> QED
        BY <1>5, <4>1, <4>2, <4>3, <4>4
    <3>3. z * (g * x) \cong z * e
      <4>1. -x \in Int
        OBVIOUS
      <4> QED
        BY <1>3, <1>5, <1>9, <3>1, <3>2, <4>1, From3
    <3> QED
      BY <1>5, <1>10, <3>1, <3>3, Cancel
  <2>3. (2 - g) * y \cong -h
    <3> DEFINE k == g - 2
    <3>1. k \in Int /\ (2 - g) * y = -(k * y)
      BY <1>5
    <3>2. F \cong z * k
      BY <1>9
    <3> HIDE DEF k
    <3>3. k * y \in Int /\ z * k \in Int /\ F * y \in Int
      BY <1>5, <3>1
    <3>4. z * (k * y) \in Int
      BY <1>5, <3>3
    <3>5. z * (k * y) - z * h = Part(-y, F, z * k) + Part(1, F * y, H) + Part(1, H, z * h)
      <4>1. z * (k * y) = y * (z * k) /\ F * y = y * F
        BY <1>5, <3>1
      <4>2. Part(-y, F, z * k) = y * (z * k) - y * F
        BY <3>3 DEF Part
      <4>3. Part(1, F * y, H) = F * y - H /\ Part(1, H, z * h) = H - z * h
        BY <1>5, <3>3 DEF Part
      <4>4. y * F \in Int /\ y * (z * k) \in Int
        BY <3>3
      <4> QED
        BY <1>5, <4>1, <4>2, <4>3, <4>4
    <3>6. z * (k * y) \cong z * h
      <4>1. -y \in Int
        OBVIOUS
      <4> QED
        BY <1>4, <1>5, <1>9, <3>2, <3>3, <3>4, <3>5, <4>1, From3
    <3>7. k * y \cong h
      BY <1>5, <1>10, <3>3, <3>6, Cancel
    <3>8. -(k * y) - (-h) = Part(-1, k * y, h) /\ -(k * y) \in Int /\ -h \in Int
      BY <1>5, <3>3 DEF Part
    <3>9. -(k * y) \cong -h
      BY <1>5, <3>3, <3>7, <3>8, From1
    <3> QED
      BY <3>1, <3>9
  <2> QED
    BY <2>1, <2>2, <2>3
<1> QED
    BY <1>11

LEMMA DoubleDoubles ==
    ASSUME NEW q, OnCurve(q)
    PROVE  OnCurve(Double(q)) /\ Affine(Double(q)) = Plus(Affine(q), Affine(q))
<1> DEFINE X == q[1]
           Y == q[2]
           Z == q[3]
           T == q[4]
           r == Double(q)
           a == Div(X, Z)
           b == Div(Y, Z)
           x == Div(r[1], r[3])
           y == Div(r[2], r[3])
<1>1. X \in Field /\ Y \in Field /\ Z \in Field /\ T \in Field /\ q = <<X, Y, Z, T>>
    BY DEF OnCurve
<1>2. Extended(X, Y, Z, T)
    BY DEF OnCurve
<1>3. X \in Int /\ Y \in Int /\ Z \in Int /\ T \in Int /\ ~(Z \cong 0)
    BY <1>2 DEF Extended
<1>4. a \in Field /\ b \in Field /\ a \in Int /\ b \in Int /\ Z * a \cong X /\ Z * b \cong Y
    BY <1>3, Quotient
<1>5. PICK E, F, G, H \in Int :
        /\ E \cong 2 * (X * Y) /\ G \cong Y * Y - X * X
        /\ F \cong (Y * Y - X * X) - 2 * (Z * Z) /\ H \cong -(X * X) - Y * Y
        /\ Double(<<X, Y, Z, T>>) = <<(E * F) % P, (G * H) % P, (F * G) % P, (E * H) % P>>
  <2> HIDE DEF X, Y, Z, T
  <2> QED
    BY <1>1, <1>2, DoubleIs
<1>6. r = <<(E * F) % P, (G * H) % P, (F * G) % P, (E * H) % P>>
    BY <1>1, <1>5
<1>7. E * F \in Int /\ G * H \in Int /\ F * G \in Int /\ E * H \in Int
    OBVIOUS
<1>8. r[1] = (E * F) % P /\ r[2] = (G * H) % P /\ r[3] = (F * G) % P /\ r[4] = (E * H) % P
    BY <1>6
<1>9. /\ r[1] \in Field /\ r[2] \in Field /\ r[3] \in Field /\ r[4] \in Field
      /\ r[1] \in Int /\ r[2] \in Int /\ r[3] \in Int /\ r[4] \in Int
      /\ r[1] \cong E * F /\ r[2] \cong G * H /\ r[3] \cong F * G /\ r[4] \cong E * H
    BY <1>7, <1>8, Reduced
<1>10. r = <<r[1], r[2], r[3], r[4]>>
    BY <1>6, <1>8
<1> HIDE DEF X, Y, Z, T, r, a, b
<1>11. Extended(E * F, G * H, F * G, E * H)
    BY <1>2, <1>5, DoubleIsExtended
<1>12. Extended(r[1], r[2], r[3], r[4])
    BY <1>9, <1>11, ExtendedCongruent
<1>13. OnCurve(r)
  <2>1. r \in Field \X Field \X Field \X Field
    BY <1>9, <1>10
  <2> QED
    BY <1>12, <2>1 DEF OnCurve
<1>14. ~(r[3] \cong 0)
    BY <1>12 DEF Extended
<1>15. x \in Field /\ y \in Field /\ x \in Int /\ y \in Int /\ r[3] * x \cong r[1] /\ r[3] * y \cong r[2]
    BY <1>9, <1>14, Quotient
<1> HIDE DEF x, y
<1>16. (F * G) * x \cong E * F /\ (F * G) * y \cong G * H
  <2>1. ASSUME NEW v \in Int, NEW s \in Int, NEW t \in Int, NEW u \in Int, NEW w \in Int,
               s * v \cong u, s \cong t, u \cong w
        PROVE  t * v \cong w
    <3>1. s * v \in Int /\ t * v \in Int /\ -v \in Int
      OBVIOUS
    <3>2. t * v - w = Part(-v, s, t) + Part(1, s * v, u) + Part(1, u, w)
      <4>1. Part(-v, s, t) = t * v - s * v
        BY DEF Part
      <4>2. Part(1, s * v, u) = s * v - u /\ Part(1, u, w) = u - w
        BY <3>1 DEF Part
      <4> QED
        BY <3>1, <4>1, <4>2
    <3> QED
      BY <2>1, <3>1, <3>2, From3
  <2>2. (F * G) * x \cong E * F
    BY <1>7, <1>9, <1>15, <2>1, Zenon
  <2> DEFINE s == r[3]
             t == F * G
             u == r[2]
             w == G * H
  <2>3. s \in Int /\ t \in Int /\ u \in Int /\ w \in Int /\ s * y \cong u /\ s \cong t /\ u \cong w
    BY <1>7, <1>9, <1>15
  <2> HIDE DEF s, t, u, w
  <2>4. t * y \cong w
    BY <1>15, <2>1, <2>3
  <2> QED
    BY <2>2, <2>4 DEF t, w
<1>17. (b * b - a * a) * x \cong 2 * (a * b) /\ (2 - (b * b - a * a)) * y \cong a * a + b * b
    BY <1>2, <1>4, <1>5, <1>15, <1>16, DoubleQuotients
<1> DEFINE g == b * b - a * a
           d == D * ((a * b) * (a * b))
           dxy == D * ((a * a * b * b) % P)
<1>18. Extended(a, b, 1, a * b)
    BY <1>2, <1>4, Normal
<1>19. ~(g \cong 0) /\ ~(g - 2 \cong 0)
  <2>1. g - 2 * (1 * 1) = g - 2
    BY <1>4
  <2> QED
    BY <1>18, <2>1, Denominators
<1>20. a * b \in Int /\ a * a \in Int /\ b * b \in Int
    BY <1>4
<1>21. (a * b) * (a * b) \in Int /\ a * a * b * b = (a * b) * (a * b)
    BY <1>4
<1>22. g \in Int /\ d \in Int
    BY <1>20, <1>21, DIsInt
<1>23. g \cong 1 + d
  <2>1. 1 * 1 + D * ((a * b) * (a * b)) = 1 + d
    OBVIOUS
  <2> QED
    BY <1>18, <2>1 DEF Extended
<1>24. dxy \in Int /\ dxy \cong d
  <2> DEFINE s == (a * a * b * b) % P
  <2>1. s \in Int /\ s \cong (a * b) * (a * b)
    BY <1>21, Reduced
  <2> HIDE DEF s
  <2>2. D * s \cong d
    BY <1>21, <2>1, DIsInt, Scale
  <2>3. D * s \in Int
    BY <2>1, DIsInt
  <2> QED
    BY <2>2, <2>3 DEF s
<1>25. Plus(<<a, b>>, <<a, b>>) = <<Div(a * b + b * a, 1 + dxy), Div(b * b + a * a, 1 - dxy)>>
    BY DEF Plus
<1>26. a * b + b * a = 2 * (a * b) /\ b * b + a * a = a * a + b * b
    BY <1>4
<1> DEFINE e == 2 * (a * b)
           k == a * a + b * b
           m == 1 + dxy
           n == 1 - dxy
<1>27. e \in Int /\ k \in Int /\ g * x \cong e /\ (2 - g) * y \cong k
    BY <1>17, <1>20
<1> HIDE DEF g, d, dxy, e, k
<1>28. m \in Int /\ n \in Int /\ 1 + d \in Int /\ 2 - g \in Int /\ g - 2 \in Int
    BY <1>22, <1>24
<1>29. m \cong g /\ n \cong 2 - g
  <2>1. m - g = Part(1, dxy, d) + Part(-1, g, 1 + d)
    BY <1>22, <1>24 DEF Part
  <2>2. n - (2 - g) = Part(-1, dxy, d) + Part(1, g, 1 + d)
    BY <1>22, <1>24 DEF Part
  <2> HIDE DEF m, n
  <2> QED
    BY <1>22, <1>23, <1>24, <1>28, <2>1, <2>2, From2
<1> HIDE DEF m, n
<1>30. ~(m \cong 0) /\ ~(n \cong 0)
  <2>1. ASSUME m \cong 0 PROVE FALSE
    BY <1>19, <1>22, <1>28, <1>29, <2>1, Swap, Chain
  <2>2. ASSUME n \cong 0 PROVE FALSE
    <3>1. g - 2 - 0 = Part(1, n, 2 - g) + Part(-1, n, 0)
      BY <1>22, <1>28 DEF Part
    <3>2. g - 2 \cong 0
      BY <1>28, <1>29, <2>2, <3>1, From2
    <3> QED
      BY <1>19, <3>2
  <2> QED
    BY <2>1, <2>2
<1>31. m * x \cong e /\ n * y \cong k
  <2>1. ASSUME NEW v \in Int, NEW s \in Int, NEW t \in Int, NEW u \in Int,
               s * v \cong u, t \cong s
        PROVE  t * v \cong u
    <3>1. s * v \in Int /\ t * v \in Int
      OBVIOUS
    <3>2. t * v \cong s * v
      BY <2>1, Scale
    <3> QED
      BY <2>1, <3>1, <3>2, Chain
  <2> QED
    BY <1>15, <1>22, <1>27, <1>28, <1>29, <2>1
<1>32. Div(e, m) = x /\ Div(k, n) = y
    BY <1>15, <1>27, <1>28, <1>30, <1>31, QuotientIs
<1>33. Plus(<<a, b>>, <<a, b>>) = <<x, y>>
    BY <1>25, <1>26, <1>32 DEF e, k, m, n, dxy
<1> QED
    BY <1>13, <1>33 DEF Affine, r, a, b, x, y, X, Y, Z

-----------------------------------------------------------------------------
(* The group.  No denominator of a sum is 0, a sum is a point, and the     *)
(* addition associates as far as the multiples of a point need it.         *)

LEMMA NonzeroHasNoRoot ==
    ASSUME NEW z \in Int, NEW t \in Int, ~(t \cong 0)
    PROVE  ~(D * (t * t) \cong z * z)
<1>1. SUFFICES ASSUME D * (t * t) \cong z * z PROVE FALSE
    OBVIOUS
<1>2. t * t \in Int /\ z * z \in Int
    OBVIOUS
<1>3. D * (t * t) \in Int
    BY <1>2, DIsInt
<1>4. z \cong 0
    BY <1>1, DHasNoRoot
<1>5. D * (t * t) - 0 = Part(1, D * (t * t), z * z) + Part(z, z, 0)
    BY <1>2, <1>3 DEF Part
<1>6. D * (t * t) \cong 0
    BY <1>1, <1>2, <1>3, <1>4, <1>5, From2
<1>7. D \cong 0
    BY <1>2, <1>6, DIsInt, PrimeDivides
<1>8. D = 0 /\ (0 * 0) % P = 0 /\ 0 \in Field
  <2>1. 0 * 0 = 0
    OBVIOUS
  <2> QED
    BY <1>7, <2>1, DIsInt, FieldIsNat, Unique, Multiple, Same
<1> QED
    BY <1>8, CurveAssumption

OnAffine(x, y) == x \in Int /\ y \in Int /\ y * y - x * x \cong 1 + D * ((x * y) * (x * y))

\* D x y u v is neither 1 nor -1: D would have a root.
LEMMA Complete ==
    ASSUME NEW x, NEW y, NEW u, NEW v, OnAffine(x, y), OnAffine(u, v), NEW e \in {1, -1}
    PROVE  ~(D * ((x * y) * (u * v)) \cong e)
<1> DEFINE p == x * y
           r == u * v
           dl == D * (p * r)
           c == D * (p * p)
           k == D * (r * r)
<1>1. SUFFICES ASSUME dl \cong e PROVE FALSE
    OBVIOUS
<1>2. x \in Int /\ y \in Int /\ u \in Int /\ v \in Int /\ e \in Int
      /\ y * y - x * x \cong 1 + c /\ v * v - u * u \cong 1 + k
    BY DEF OnAffine
<1>3. p \in Int /\ r \in Int /\ x * x \in Int /\ y * y \in Int /\ u * u \in Int /\ v * v \in Int
    BY <1>2
<1>4. dl \in Int /\ c \in Int /\ k \in Int
  <2> HIDE DEF p, r
  <2>1. p * r \in Int /\ p * p \in Int /\ r * r \in Int
    BY <1>3
  <2> QED
    BY <2>1, DIsInt
<1>5. PICK i \in Int : i * i \cong -1
    BY RootOfMinusOneSquared
<1>6. c * k = dl * dl /\ c * r = p * dl
  <2>1. \A a, b, d \in Int : (d * (a * a)) * (d * (b * b)) = (d * (a * b)) * (d * (a * b))
    OBVIOUS
  <2>2. \A a, b, d \in Int : (d * (a * a)) * b = a * (d * (a * b))
    OBVIOUS
  <2> HIDE DEF p, r
  <2> QED
    BY <1>3, <2>1, <2>2, DIsInt
<1>7. ~(p \cong 0) /\ ~(v \cong 0)
  <2>1. dl = (D * r) * p /\ dl = (D * (p * u)) * v
    <3>1. \A a, b, d \in Int : d * (a * b) = (d * b) * a
      OBVIOUS
    <3>2. \A a, b, f, d \in Int : d * (a * (b * f)) = (d * (a * b)) * f
      OBVIOUS
    <3> HIDE DEF p
    <3>3. dl = (D * r) * p
      BY <1>3, <3>1, DIsInt
    <3>4. dl = (D * (p * u)) * v
      BY <1>2, <1>3, <3>2, DIsInt
    <3> QED
      BY <3>3, <3>4
  <2>2. D * r \in Int /\ D * (p * u) \in Int
    <3> HIDE DEF p, r
    <3>1. p * u \in Int
      BY <1>2, <1>3
    <3> QED
      BY <1>3, <3>1, DIsInt
  <2>3. ASSUME NEW f \in Int, NEW g \in Int, dl = f * g, g \cong 0 PROVE FALSE
    <3> HIDE DEF dl
    <3>1. e - 0 = Part(-1, dl, e) + Part(f, g, 0) /\ -1 \in Int
      BY <1>2, <1>4, <2>3 DEF Part
    <3>2. e \cong 0
      BY <1>1, <1>2, <1>4, <2>3, <3>1, From2
    <3>3. 1 \cong 0
      <4>1. CASE e = 1
        BY <3>2, <4>1
      <4>2. CASE e = -1
        <5>1. 0 \cong -1
          BY <3>2, <4>2, Swap
        <5>2. 0 - (-1) = 1 - 0
          OBVIOUS
        <5> QED
          BY <5>1, <5>2 DEF \cong
      <4> QED
        BY <4>1, <4>2
    <3> QED
      BY <3>3, FieldIsNat, Unique
  <2> HIDE DEF p, r, dl
  <2>4. D * r \in Int /\ D * (p * u) \in Int /\ dl = (D * r) * p /\ dl = (D * (p * u)) * v
    BY <2>1, <2>2
  <2>5. ~(p \cong 0)
    BY <1>3, <2>3, <2>4
  <2>6. ~(v \cong 0)
    BY <1>2, <2>3, <2>4
  <2> QED
    BY <2>5, <2>6
<1>8. ASSUME NEW f \in {1, -1} PROVE i * u + f * v \cong 0
  <2> DEFINE g == f * e
             z == i * x + g * y
             t == i * u + f * v
             w == 2 * (g * (i * p))
             l == 2 * (f * (i * r))
  <2>1. g \in {1, -1} /\ g \in Int /\ g * g = 1 /\ f * f = 1 /\ f \in Int /\ g = f * e
    OBVIOUS
  <2> HIDE DEF g
  <2>2. z \in Int /\ t \in Int /\ i * p \in Int /\ i * r \in Int
    <3> HIDE DEF p, r
    <3> QED
      BY <1>2, <1>3, <1>5, <2>1
  <2>3. w \in Int /\ l \in Int
    <3> HIDE DEF p, r
    <3>1. g * (i * p) \in Int /\ f * (i * r) \in Int
      BY <2>1, <2>2
    <3> QED
      BY <3>1
  <2>4. z * z = (i * i) * (x * x) + w + y * y
    <3>1. \A h, a, b, j \in Int :
             (j * a + h * b) * (j * a + h * b)
               = (j * j) * (a * a) + 2 * (h * (j * (a * b))) + (h * h) * (b * b)
      OBVIOUS
    <3>2. z * z = (i * i) * (x * x) + w + (g * g) * (y * y)
      BY <1>2, <1>5, <2>1, <3>1
    <3>3. (g * g) * (y * y) = y * y
      BY <1>3, <2>1
    <3> QED
      BY <3>2, <3>3
  <2>5. t * t = (i * i) * (u * u) + l + v * v
    <3>1. \A h, a, b, j \in Int :
             (j * a + h * b) * (j * a + h * b)
               = (j * j) * (a * a) + 2 * (h * (j * (a * b))) + (h * h) * (b * b)
      OBVIOUS
    <3>2. t * t = (i * i) * (u * u) + l + (f * f) * (v * v)
      BY <1>2, <1>5, <2>1, <3>1
    <3>3. (f * f) * (v * v) = v * v
      BY <1>3, <2>1
    <3> QED
      BY <3>2, <3>3
  <2> DEFINE xx == x * x
             yy == y * y
             uu == u * u
             vv == v * v
             ii == i * i
             zz == z * z
             tt == t * t
  <2>6. ii \in Int /\ zz \in Int /\ tt \in Int /\ ii \cong -1
    BY <1>5, <2>2
  <2>7. xx \in Int /\ yy \in Int /\ uu \in Int /\ vv \in Int
        /\ yy - xx \cong 1 + c /\ vv - uu \cong 1 + k
        /\ zz = ii * xx + w + yy /\ tt = ii * uu + l + vv
    BY <1>2, <1>3, <2>4, <2>5
  <2>8. c * l = 2 * (f * (i * (p * dl))) /\ w = 2 * ((f * e) * (i * p))
    <3>1. \A a, b, h, j \in Int : a * (2 * (h * (j * b))) = 2 * (h * (j * (a * b)))
      OBVIOUS
    <3> HIDE DEF p, r, dl, c, w, t, z
    <3>2. c * l = 2 * (f * (i * (c * r)))
      BY <1>3, <1>4, <1>5, <2>1, <3>1
    <3>3. w = 2 * ((f * e) * (i * p))
      BY <2>1 DEF w
    <3> QED
      BY <1>6, <3>2, <3>3
  <2> HIDE DEF xx, yy, uu, vv, ii, zz, tt, w, l, c, k, p, r, dl
  <2>9. zz \cong 1 + c + w
    <3>1. zz - (1 + c + w) = Part(xx, ii, -1) + Part(1, yy - xx, 1 + c)
      BY <1>4, <2>3, <2>6, <2>7 DEF Part
    <3>2. 1 + c + w \in Int /\ 1 + c \in Int /\ yy - xx \in Int
      BY <1>4, <2>3, <2>7
    <3> QED
      BY <2>6, <2>7, <3>1, <3>2, From2
  <2>10. tt \cong 1 + k + l
    <3>1. tt - (1 + k + l) = Part(uu, ii, -1) + Part(1, vv - uu, 1 + k)
      BY <1>4, <2>3, <2>6, <2>7 DEF Part
    <3>2. 1 + k + l \in Int /\ 1 + k \in Int /\ vv - uu \in Int
      BY <1>4, <2>3, <2>7
    <3> QED
      BY <2>6, <2>7, <3>1, <3>2, From2
  <2>11. c * (1 + k + l) \cong 1 + c + w
    <3> DEFINE j == 2 * (f * (i * p))
    <3>1. j \in Int /\ c * l = j * dl /\ w = j * e
      <4>1. f * (i * p) \in Int
        BY <2>1, <2>2 DEF p
      <4>2. \A a, b, h, m \in Int : 2 * (h * (a * (b * m))) = (2 * (h * (a * b))) * m
        OBVIOUS
      <4>3. 2 * (f * (i * (p * dl))) = j * dl
        BY <1>3, <1>4, <1>5, <2>1, <4>2
      <4>4. \A a, h, m \in Int : 2 * ((h * m) * a) = (2 * (h * a)) * m
        OBVIOUS
      <4>5. i * p \in Int
        BY <2>2
      <4>6. 2 * ((f * e) * (i * p)) = j * e
        BY <1>2, <2>1, <4>4, <4>5
      <4> QED
        BY <2>8, <4>1, <4>3, <4>6
    <3> HIDE DEF j
    <3>2. e * e = 1
      OBVIOUS
    <3>3. c * (1 + k + l) = c + c * k + c * l
      BY <1>4, <2>3
    <3>4. c * (1 + k + l) - (1 + c + w) = Part(dl + e + j, dl, e)
      <4>1. dl * dl \in Int /\ j * dl \in Int /\ j * e \in Int
        BY <1>2, <1>4, <3>1
      <4>2. Part(dl + e + j, dl, e) = dl * dl - e * e + j * dl - j * e
        BY <1>2, <1>4, <3>1 DEF Part
      <4>3. c * (1 + k + l) = c + dl * dl + j * dl
        BY <1>6, <3>1, <3>3
      <4>4. c * (1 + k + l) - (1 + c + w) = dl * dl - 1 + j * dl - j * e
        BY <1>4, <3>1, <4>1, <4>3
      <4> QED
        BY <3>2, <4>2, <4>4
    <3>5. 1 + k + l \in Int /\ dl + e + j \in Int /\ 1 + c + w \in Int
      BY <1>2, <1>4, <2>3, <3>1
    <3>6. c * (1 + k + l) \in Int
      BY <1>4, <3>5
    <3> QED
      BY <1>1, <1>2, <1>4, <3>4, <3>5, <3>6, From1
  <2>12. c * tt \cong zz
    <3>1. 1 + k + l \in Int /\ 1 + c + w \in Int
      BY <1>4, <2>3
    <3>2. c * tt \in Int /\ c * (1 + k + l) \in Int
      BY <1>4, <2>6, <3>1
    <3>3. c * tt \cong c * (1 + k + l)
      BY <1>4, <2>6, <2>10, <3>1, Scale
    <3>4. c * tt \cong 1 + c + w
      BY <2>11, <3>1, <3>2, <3>3, Chain
    <3>5. 1 + c + w \cong zz
      BY <2>6, <2>9, <3>1, Swap
    <3> QED
      BY <2>6, <3>1, <3>2, <3>4, <3>5, Chain
  <2>13. D * ((p * t) * (p * t)) = c * tt
    <3>1. \A a, b, d \in Int : d * ((a * b) * (a * b)) = (d * (a * a)) * (b * b)
      OBVIOUS
    <3> HIDE DEF t
    <3> QED
      BY <1>3, <2>2, <3>1, DIsInt DEF c, tt
  <2> HIDE DEF t, z
  <2>14. p * t \cong 0
    <3>1. p * t \in Int
      BY <1>3, <2>2
    <3> QED
      BY <2>2, <2>12, <2>13, <3>1, NonzeroHasNoRoot DEF zz
  <2>15. t \cong 0
    BY <1>3, <1>7, <2>2, <2>14, PrimeDivides
  <2> QED
    BY <2>15 DEF t
<1>9. i * u + 1 * v \cong 0 /\ i * u + (-1) * v \cong 0
    BY <1>8
<1> HIDE DEF p, r, dl, c, k
<1>10. 2 * v \cong 0
  <2>1. i * u \in Int /\ 1 * v = v /\ (-1) * v = -v
    BY <1>2, <1>5
  <2>2. i * u + v \in Int /\ i * u + (-v) \in Int /\ 2 * v \in Int
    BY <1>2, <2>1
  <2>3. 2 * v - 0 = Part(1, i * u + v, 0) + Part(-1, i * u + (-v), 0)
    BY <1>2, <2>1 DEF Part
  <2> QED
    BY <1>9, <2>1, <2>2, <2>3, From2
<1>11. ~(2 \cong 0)
  <2>1. 2 \in Field
    BY Prime DEF Field
  <2> QED
    BY <2>1, FieldIsNat, Unique
<1> QED
    BY <1>2, <1>7, <1>10, <1>11, PrimeDivides

\* The equation of the curve, for a sum: a / (1 + d) and b / (1 - d).
LEMMA SumEquation ==
    ASSUME NEW x, NEW y, NEW u, NEW v, OnAffine(x, y), OnAffine(u, v),
           NEW a, NEW b, NEW d,
           a = x * v + y * u, b = y * v + x * u, d = D * ((x * y) * (u * v))
    PROVE  (b * (1 + d)) * (b * (1 + d)) - (a * (1 - d)) * (a * (1 - d))
             \cong ((1 + d) * (1 - d)) * ((1 + d) * (1 - d)) + D * ((a * b) * (a * b))
<1> DEFINE p == x * y
           r == u * v
           g == y * y - x * x
           h == v * v - u * u
           e == D * (p * p)
           k == D * (r * r)
           w == p * r
           m == (x * x) * (v * v) + (y * y) * (u * u)
           n == (y * y) * (v * v) + (x * x) * (u * u)
<1>1. x \in Int /\ y \in Int /\ u \in Int /\ v \in Int /\ g \cong 1 + e /\ h \cong 1 + k
    BY DEF OnAffine
<1>2. p \in Int /\ r \in Int /\ x * x \in Int /\ y * y \in Int /\ u * u \in Int /\ v * v \in Int
    BY <1>1
<1>3. g \in Int /\ h \in Int /\ p * p \in Int /\ r * r \in Int /\ w \in Int /\ m \in Int /\ n \in Int
  <2>1. g \in Int /\ h \in Int
    BY <1>2
  <2>2. m \in Int /\ n \in Int
    BY <1>2
  <2> HIDE DEF p, r
  <2>3. p * p \in Int /\ r * r \in Int /\ w \in Int
    BY <1>2
  <2> QED
    BY <2>1, <2>2, <2>3
<1>4. e \in Int /\ k \in Int /\ d \in Int /\ d = D * w
    BY <1>3, DIsInt
<1>5. a \in Int /\ b \in Int /\ a * a = m + 2 * w /\ b * b = n + 2 * w
  <2>1. a \in Int /\ b \in Int
    BY <1>1
  <2>2. \A i, j, s, t \in Int :
          (i * t + j * s) * (i * t + j * s)
            = (i * i) * (t * t) + (j * j) * (s * s) + 2 * ((i * j) * (s * t))
    OBVIOUS
  <2>3. x * y = y * x
    BY <1>1
  <2> QED
    BY <1>1, <2>1, <2>2, <2>3
<1>6. n - m = g * h
  <2>1. \A i, j, s, t \in Int : (j * t + i * s) - (i * t + j * s) = (j - i) * (t - s)
    OBVIOUS
  <2> QED
    BY <1>2, <2>1
<1>7. m * n = (p * p) * (h * h) + (r * r) * (g * g) + 4 * (w * w)
  <2>1. \A i, j, s, t \in Int :
          (i * t + j * s) * (j * t + i * s)
            = (i * j) * ((t - s) * (t - s)) + (s * t) * ((j - i) * (j - i)) + 4 * ((i * j) * (s * t))
    OBVIOUS
  <2>2. p * p = (x * x) * (y * y) /\ r * r = (u * u) * (v * v)
    <3>1. \A i, j \in Int : (i * j) * (i * j) = (i * i) * (j * j)
      OBVIOUS
    <3> QED
      BY <1>1, <3>1
  <2>3. w * w = (p * p) * (r * r)
    <3>1. \A i, j \in Int : (i * j) * (i * j) = (i * i) * (j * j)
      OBVIOUS
    <3> HIDE DEF p, r
    <3> QED
      BY <1>2, <3>1
  <2> QED
    BY <1>2, <2>1, <2>2, <2>3
<1>8. e * k = d * d
  <2>1. \A i, j, s \in Int : (s * (i * i)) * (s * (j * j)) = (s * (i * j)) * (s * (i * j))
    OBVIOUS
  <2> HIDE DEF p, r
  <2>2. (D * (p * p)) * (D * (r * r)) = (D * (p * r)) * (D * (p * r))
    BY <1>2, <2>1, DIsInt
  <2> QED
    BY <1>4, <2>2
<1> DEFINE L1 == (b * (1 + d)) * (b * (1 + d)) - (a * (1 - d)) * (a * (1 - d))
           R1 == ((1 + d) * (1 - d)) * ((1 + d) * (1 - d)) + D * ((a * b) * (a * b))
           gg == g * g
           hh == h * h
           gh == g * h
           dd == d * d
<1>9. gg \in Int /\ hh \in Int /\ gh \in Int /\ dd \in Int
  <2> HIDE DEF g, h
  <2> QED
    BY <1>3, <1>4
<1>10. D * (m * n) = e * hh + k * gg + 4 * (w * d)
  <2>1. \A i, j, s, t, z, f \in Int :
          f * (i * s + j * t + 4 * (z * z)) = (f * i) * s + (f * j) * t + 4 * (z * (f * z))
    OBVIOUS
  <2> HIDE DEF m, n, w, g, h, p, r
  <2>2. D * ((p * p) * hh + (r * r) * gg + 4 * (w * w))
          = (D * (p * p)) * hh + (D * (r * r)) * gg + 4 * (w * (D * w))
    BY <1>3, <1>9, <2>1, DIsInt
  <2> QED
    BY <1>4, <1>7, <2>2
<1> HIDE DEF m, n, w, g, h, p, r
<1>11. L1 = (n + 2 * w) * ((1 + d) * (1 + d)) - (m + 2 * w) * ((1 - d) * (1 - d))
  <2>1. \A i, j \in Int : (i * j) * (i * j) = (i * i) * (j * j)
    OBVIOUS
  <2>2. 1 + d \in Int /\ 1 - d \in Int
    BY <1>4
  <2>3. (b * (1 + d)) * (b * (1 + d)) = (b * b) * ((1 + d) * (1 + d))
        /\ (a * (1 - d)) * (a * (1 - d)) = (a * a) * ((1 - d) * (1 - d))
    BY <1>5, <2>1, <2>2
  <2> QED
    BY <1>5, <2>3
<1>12. R1 = (1 - dd) * (1 - dd) + D * ((m + 2 * w) * (n + 2 * w))
  <2>1. (a * b) * (a * b) = (a * a) * (b * b)
    BY <1>5
  <2>2. (1 + d) * (1 - d) = 1 - dd
    BY <1>4
  <2> QED
    BY <1>5, <2>1, <2>2
<1>13. L1 - R1 = gh * (1 + dd) - (1 - dd) * (1 - dd) - e * hh - k * gg
  <2> DEFINE Lhs(i, j, z, f, c) ==
               ((j + 2 * z) * ((1 + c) * (1 + c)) - (i + 2 * z) * ((1 - c) * (1 - c)))
                 - ((1 - c * c) * (1 - c * c) + f * ((i + 2 * z) * (j + 2 * z)))
             Rhs(i, j, z, f, c) ==
               (j - i) * (1 + c * c) - (1 - c * c) * (1 - c * c) - f * (i * j) + 4 * (z * c)
  <2>1. \A i, j, z, f, c \in Int : c = f * z => Lhs(i, j, z, f, c) = Rhs(i, j, z, f, c)
    <3> SUFFICES ASSUME NEW i \in Int, NEW j \in Int, NEW z \in Int, NEW f \in Int
                 PROVE  Lhs(i, j, z, f, f * z) = Rhs(i, j, z, f, f * z)
      OBVIOUS
    <3> QED
      OBVIOUS
  <2> HIDE DEF L1, R1
  <2>2. L1 - R1 = (n - m) * (1 + d * d) - (1 - d * d) * (1 - d * d) - D * (m * n) + 4 * (w * d)
    <3>1. L1 - R1 = Lhs(m, n, w, D, d)
      BY <1>11, <1>12
    <3> HIDE DEF Lhs, Rhs
    <3>2. Lhs(m, n, w, D, d) = Rhs(m, n, w, D, d)
      <4>1. m \in Int /\ n \in Int /\ w \in Int /\ D \in Int /\ d \in Int /\ d = D * w
        BY <1>3, <1>4, DIsInt
      <4>2. \A i, j, z, f \in Int : Lhs(i, j, z, f, f * z) = Rhs(i, j, z, f, f * z)
        <5> SUFFICES ASSUME NEW i \in Int, NEW j \in Int, NEW z \in Int, NEW f \in Int
                     PROVE  Lhs(i, j, z, f, f * z) = Rhs(i, j, z, f, f * z)
          OBVIOUS
        <5>1. f * z \in Int
          OBVIOUS
        <5> QED
          BY <5>1, <2>1
      <4>3. Lhs(m, n, w, D, D * w) = Rhs(m, n, w, D, D * w)
        BY <4>1, <4>2
      <4> QED
        BY <4>1, <4>3
    <3> QED
      BY <3>1, <3>2 DEF Rhs
  <2>3. D * (m * n) \in Int /\ w * d \in Int /\ e * hh \in Int /\ k * gg \in Int
    <3>1. m * n \in Int
      BY <1>3
    <3> QED
      BY <1>3, <1>4, <1>9, <3>1, DIsInt
  <2>4. (n - m) * (1 + d * d) = gh * (1 + dd)
    BY <1>6
  <2>5. gh * (1 + dd) \in Int /\ (1 - dd) * (1 - dd) \in Int
    <3>1. 1 + dd \in Int /\ 1 - dd \in Int
      BY <1>9
    <3> HIDE DEF dd, gh
    <3> QED
      BY <1>9, <3>1
  <2> QED
    BY <1>10, <2>2, <2>3, <2>4, <2>5
<1> DEFINE G == 1 + e
           H == 1 + k
<1>14. G \in Int /\ H \in Int /\ G * G \in Int /\ H * H \in Int /\ G * H \in Int
  <2>1. G \in Int /\ H \in Int
    BY <1>4
  <2> HIDE DEF G, H
  <2> QED
    BY <2>1
<1>15. gg \cong G * G /\ hh \cong H * H /\ gh \cong G * H
    BY <1>1, <1>3, <1>14, Product
<1>16. (G * H) * (1 + dd) - (1 - dd) * (1 - dd) - e * (H * H) - k * (G * G) = 0
  <2>1. \A i, j \in Int : ((1 + i) * (1 + j)) * (1 + i * j) - (1 - i * j) * (1 - i * j)
                            - i * ((1 + j) * (1 + j)) - j * ((1 + i) * (1 + i)) = 0
    OBVIOUS
  <2> QED
    BY <1>4, <1>8, <2>1
<1>17. L1 \in Int /\ R1 \in Int
  <2>1. 1 + d \in Int /\ 1 - d \in Int /\ a * b \in Int
    BY <1>4, <1>5
  <2>2. b * (1 + d) \in Int /\ a * (1 - d) \in Int /\ (1 + d) * (1 - d) \in Int /\ (a * b) * (a * b) \in Int
    BY <1>5, <2>1
  <2>3. (b * (1 + d)) * (b * (1 + d)) \in Int /\ (a * (1 - d)) * (a * (1 - d)) \in Int
        /\ ((1 + d) * (1 - d)) * ((1 + d) * (1 - d)) \in Int /\ D * ((a * b) * (a * b)) \in Int
    BY <2>2, DIsInt
  <2> QED
    BY <2>3
<1> HIDE DEF L1, R1, gg, hh, gh, dd, e, k, G, H
<1>18. L1 - R1 = Part(1 + dd, gh, G * H) + Part(-e, hh, H * H) + Part(-k, gg, G * G)
  <2> DEFINE GG == G * G
             HH == H * H
             GH == G * H
             s == (1 - dd) * (1 - dd)
  <2>1. GG \in Int /\ HH \in Int /\ GH \in Int /\ s \in Int
    <3>1. 1 - dd \in Int
      BY <1>9
    <3> QED
      BY <1>14, <3>1
  <2>2. GH * (1 + dd) - s - e * HH - k * GG = 0 /\ L1 - R1 = gh * (1 + dd) - s - e * hh - k * gg
    BY <1>13, <1>16
  <2> HIDE DEF GG, HH, GH, s
  <2>3. Part(1 + dd, gh, GH) = gh * (1 + dd) - GH * (1 + dd)
    BY <1>9, <2>1 DEF Part
  <2>4. Part(-e, hh, HH) = e * HH - e * hh /\ Part(-k, gg, GG) = k * GG - k * gg
    BY <1>4, <1>9, <2>1 DEF Part
  <2>5. gh * (1 + dd) \in Int /\ GH * (1 + dd) \in Int /\ e * HH \in Int /\ e * hh \in Int
        /\ k * GG \in Int /\ k * gg \in Int
    <3>1. 1 + dd \in Int
      BY <1>9
    <3> QED
      BY <1>4, <1>9, <2>1, <3>1
  <2>6. L1 - R1 = Part(1 + dd, gh, GH) + Part(-e, hh, HH) + Part(-k, gg, GG)
    BY <2>1, <2>2, <2>3, <2>4, <2>5
  <2> QED
    BY <2>6 DEF GG, HH, GH
<1>19. 1 + dd \in Int /\ -e \in Int /\ -k \in Int
    BY <1>4, <1>9
<1>20. L1 \cong R1
    BY <1>9, <1>14, <1>15, <1>17, <1>18, <1>19, From3
<1> QED
    BY <1>20 DEF L1, R1

LEMMA NotZeroProduct ==
    ASSUME NEW a \in Int, NEW b \in Int, ~(a \cong 0), ~(b \cong 0)
    PROVE  a * b \in Int /\ ~(a * b \cong 0)
BY PrimeDivides

\* What solves al X = a and be Y = b is a point of the curve.
LEMMA SumOnCurve ==
    ASSUME NEW al \in Int, NEW be \in Int, NEW a \in Int, NEW b \in Int, NEW X \in Int, NEW Y \in Int,
           al * X \cong a, be * Y \cong b, ~(al \cong 0), ~(be \cong 0),
           (b * al) * (b * al) - (a * be) * (a * be)
             \cong (al * be) * (al * be) + D * ((a * b) * (a * b))
    PROVE  OnAffine(X, Y)
<1> DEFINE m == al * be
           s == m * m
           A == al * X
           B == be * Y
           c == D * ((X * Y) * (X * Y))
           ba == b * al
           ab == a * be
           Ba == B * al
           Ab == A * be
           p == a * b
           q == A * B
<1>1. m \in Int /\ A \in Int /\ B \in Int /\ ~(m \cong 0) /\ X * Y \in Int
    BY NotZeroProduct
<1>2. s \in Int /\ ~(s \cong 0) /\ (X * Y) * (X * Y) \in Int
  <2> HIDE DEF m
  <2>1. \A j \in Int : j * j \in Int
    OBVIOUS
  <2> QED
    BY <1>1, <2>1, NotZeroProduct
<1>3. c \in Int /\ ba \in Int /\ ab \in Int /\ Ba \in Int /\ Ab \in Int /\ p \in Int /\ q \in Int
  <2> HIDE DEF A, B
  <2> QED
    BY <1>1, <1>2, DIsInt
<1>4. Ba \cong ba /\ Ab \cong ab /\ q \cong p
  <2> HIDE DEF A, B
  <2>1. A \cong a /\ B \cong b
    BY DEF A, B
  <2> QED
    BY <1>1, <2>1, Scale, Product
<1>5. Ba * Ba \cong ba * ba /\ Ab * Ab \cong ab * ab /\ q * q \cong p * p
  <2> HIDE DEF Ba, Ab, ba, ab, p, q
  <2> QED
    BY <1>3, <1>4, Product
<1>6. s * (Y * Y - X * X) = Ba * Ba - Ab * Ab
  <2>1. \A i, j, f, g \in Int :
           ((i * j) * (i * j)) * (g * g - f * f)
             = ((j * g) * i) * ((j * g) * i) - ((i * f) * j) * ((i * f) * j)
    OBVIOUS
  <2> QED
    BY <2>1
<1>7. s * (1 + c) = s + D * (q * q)
  <2>1. \A i, j, f, g, d \in Int :
           ((i * j) * (i * j)) * (d * ((f * g) * (f * g)))
             = d * (((i * f) * (j * g)) * ((i * f) * (j * g)))
    OBVIOUS
  <2>2. s * c = D * (q * q)
    BY <2>1, DIsInt
  <2> HIDE DEF s, c
  <2> QED
    BY <1>2, <1>3, <2>2
<1>8. OnAffine(X, Y) <=> Y * Y - X * X \cong 1 + c
    BY DEF OnAffine
<1>9. Y * Y - X * X \in Int /\ 1 + c \in Int
    BY <1>3
<1> DEFINE z == Y * Y - X * X
           BB == Ba * Ba
           AA == Ab * Ab
           bb == ba * ba
           aa == ab * ab
           pp == p * p
           qq == q * q
<1>10. BB \in Int /\ AA \in Int /\ bb \in Int /\ aa \in Int /\ pp \in Int /\ qq \in Int /\ z \in Int
  <2> HIDE DEF Ba, Ab, ba, ab, p, q
  <2> QED
    BY <1>3, <1>9
<1>11. bb - aa \cong s + D * pp
    OBVIOUS
<1>12. BB \cong bb /\ AA \cong aa /\ qq \cong pp /\ s * z = BB - AA /\ s * (1 + c) = s + D * qq
    BY <1>5, <1>6, <1>7
<1> HIDE DEF s, c, z, BB, AA, bb, aa, pp, qq
<1>13. BB - AA \cong bb - aa
    BY <1>10, <1>12, Sum
<1>14. D * qq \cong D * pp /\ D * qq \in Int /\ D * pp \in Int
  <2>1. D * qq \cong D * pp
    BY <1>10, <1>12, DIsInt, Scale
  <2> QED
    BY <1>10, <2>1, DIsInt
<1>15. BB - AA \in Int /\ bb - aa \in Int /\ s + D * qq \in Int /\ s + D * pp \in Int
    BY <1>2, <1>10, <1>14
<1>16. BB - AA \cong s + D * qq
  <2>1. s + D * pp \cong s + D * qq
    BY <1>2, <1>14, Same, Swap, Sum
  <2>2. BB - AA \cong s + D * pp
    BY <1>11, <1>13, <1>15, Chain
  <2> QED
    BY <1>15, <2>1, <2>2, Chain
<1>17. s * z \cong s * (1 + c)
    BY <1>12, <1>16
<1>18. z \cong 1 + c
    BY <1>2, <1>3, <1>9, <1>10, <1>17, Cancel
<1> QED
    BY <1>8, <1>18 DEF z

LEMMA SumIs ==
    ASSUME NEW x \in Field, NEW y \in Field, NEW u \in Field, NEW v \in Field,
           OnAffine(x, y), OnAffine(u, v), NEW d, d = D * ((x * y) * (u * v))
    PROVE  \E X, Y \in Field :
             /\ Plus(<<x, y>>, <<u, v>>) = <<X, Y>>
             /\ d \in Int /\ ~(1 + d \cong 0) /\ ~(1 - d \cong 0)
             /\ (1 + d) * X \cong x * v + y * u /\ (1 - d) * Y \cong y * v + x * u
             /\ OnAffine(X, Y)
<1> DEFINE a == x * v + y * u
           b == y * v + x * u
           w == x * u * y * v
           f == D * (w % P)
           X == Div(a, 1 + f)
           Y == Div(b, 1 - f)
<1>1. x \in Int /\ y \in Int /\ u \in Int /\ v \in Int
    BY FieldIsNat
<1>2. a \in Int /\ b \in Int /\ w \in Int /\ w = (x * y) * (u * v)
  <2>1. \A i, j, s, t \in Int : i * s * j * t = (i * j) * (s * t)
    OBVIOUS
  <2>2. a \in Int /\ b \in Int
    BY <1>1
  <2>3. w \in Int
    BY <1>1
  <2> QED
    BY <1>1, <2>1, <2>2, <2>3
<1>3. Plus(<<x, y>>, <<u, v>>) = <<X, Y>>
    BY DEF Plus
<1> HIDE DEF w
<1>4. w % P \in Int /\ w % P \cong w /\ d = D * w
    BY <1>2, Reduced
<1>5. f \in Int /\ d \in Int
    BY <1>2, <1>4, DIsInt
<1>6. f \cong d
    BY <1>2, <1>4, DIsInt, Scale
<1> HIDE DEF f
<1>7. ~(1 + d \cong 0) /\ ~(1 - d \cong 0)
  <2> DEFINE minus == -1
  <2>1. minus \in {1, -1} /\ minus \in Int /\ 1 \in {1, -1}
    OBVIOUS
  <2>2. (1 + d) - 0 = d - minus /\ (1 - d) - 0 = 1 - d
    BY <1>5
  <2> HIDE DEF minus
  <2>3. ~(d \cong minus) /\ ~(d \cong 1)
    BY <2>1, Complete
  <2>4. ASSUME 1 + d \cong 0 PROVE FALSE
    BY <2>2, <2>3, <2>4 DEF \cong
  <2>5. ASSUME 1 - d \cong 0 PROVE FALSE
    <3>1. 1 \cong d
      BY <2>2, <2>5 DEF \cong
    <3> QED
      BY <1>5, <2>3, <3>1, Swap
  <2> QED
    BY <2>4, <2>5
<1>8. 1 + d \in Int /\ 1 - d \in Int /\ 1 + f \in Int /\ 1 - f \in Int
    BY <1>5
<1>9. 1 + f \cong 1 + d /\ 1 - f \cong 1 - d
  <2>1. 1 \in Int /\ 1 \cong 1
    BY Same
  <2> QED
    BY <1>5, <1>6, <2>1, Sum
<1>10. ~(1 + f \cong 0) /\ ~(1 - f \cong 0)
    BY <1>7, <1>8, <1>9, Swap, Chain
<1> HIDE DEF a, b
<1>11. X \in Field /\ Y \in Field /\ X \in Int /\ Y \in Int /\ (1 + f) * X \cong a /\ (1 - f) * Y \cong b
    BY <1>2, <1>8, <1>10, Quotient
<1> HIDE DEF X, Y
<1>12. (1 + d) * X \cong a /\ (1 - d) * Y \cong b
  <2>1. (1 + d) * X \cong (1 + f) * X /\ (1 - d) * Y \cong (1 - f) * Y
    BY <1>8, <1>9, <1>11, Swap, Scale
  <2>2. /\ (1 + d) * X \in Int /\ (1 + f) * X \in Int
        /\ (1 - d) * Y \in Int /\ (1 - f) * Y \in Int
    BY <1>8, <1>11
  <2> QED
    BY <1>2, <1>11, <2>1, <2>2, Chain
<1>13. OnAffine(X, Y)
  <2>1. (b * (1 + d)) * (b * (1 + d)) - (a * (1 - d)) * (a * (1 - d))
          \cong ((1 + d) * (1 - d)) * ((1 + d) * (1 - d)) + D * ((a * b) * (a * b))
    BY SumEquation DEF a, b
  <2> QED
    BY <1>2, <1>7, <1>8, <1>11, <1>12, <2>1, SumOnCurve
<1> QED
    BY <1>3, <1>5, <1>7, <1>11, <1>12, <1>13 DEF a, b

\* The sum of a point and of a sum: its denominators, multiplied out.
Known(al, be, a, b, X, Y) == al * X \cong a /\ be * Y \cong b /\ ~(al \cong 0) /\ ~(be \cong 0)
Sought(k, f, h, X, Y, Z) ==
    ~(1 + k * (X * Y) \cong 0) /\ (1 + k * (X * Y)) * Z \cong f * Y + h * X
Below(al, be, a, b, k) == al * be + k * (a * b)
Above(al, be, a, b, f, h) == f * (al * b) + h * (be * a)

LEMMA Cleared ==
    ASSUME NEW al \in Int, NEW be \in Int, NEW a \in Int, NEW b \in Int, NEW X \in Int, NEW Y \in Int,
           NEW k \in Int, NEW f \in Int, NEW h \in Int, NEW Z \in Int,
           Known(al, be, a, b, X, Y), Sought(k, f, h, X, Y, Z)
    PROVE  /\ ~(Below(al, be, a, b, k) \cong 0)
           /\ Below(al, be, a, b, k) * Z \cong Above(al, be, a, b, f, h)
<1> DEFINE g == 1 + k * (X * Y)
<1> USE DEF Known, Sought
<1> DEFINE m == al * be
           A == al * X
           B == be * Y
           n == m + k * (a * b)
           r == f * Y + h * X
           t == f * (al * b) + h * (be * a)
<1>1. m \in Int /\ ~(m \cong 0) /\ A \in Int /\ B \in Int /\ X * Y \in Int /\ a * b \in Int
    BY NotZeroProduct
<1>2. g \in Int /\ n \in Int /\ r \in Int
  <2>1. k * (X * Y) \in Int /\ k * (a * b) \in Int
    BY <1>1
  <2>2. r \in Int
    OBVIOUS
  <2> QED
    BY <1>1, <2>1, <2>2
<1>3. al * b \in Int /\ be * a \in Int /\ t \in Int
  <2>1. al * b \in Int /\ be * a \in Int
    OBVIOUS
  <2> QED
    BY <2>1
<1>4. n \cong m * g
  <2>1. m * g = m + k * (A * B)
    <3>1. \A i, j, c, d, e \in Int : (i * j) * (1 + e * (c * d)) = i * j + e * ((i * c) * (j * d))
      OBVIOUS
    <3> QED
      BY <3>1
  <2> HIDE DEF m, A, B
  <2>2. A \cong a /\ B \cong b
    BY DEF A, B
  <2>3. A * B \in Int /\ a * b \in Int /\ A * B \cong a * b
    BY <1>1, <2>2, Product
  <2>4. m * g \in Int /\ k * (A * B) \in Int /\ k * (a * b) \in Int
    BY <1>1, <1>2, <2>3
  <2>5. n - m * g = Part(-k, A * B, a * b) /\ -k \in Int
    <3> DEFINE c == A * B
               d == a * b
    <3>1. c \in Int /\ d \in Int /\ n = m + k * d /\ m * g = m + k * c
      BY <2>1, <2>3
    <3> HIDE DEF c, d, n
    <3>2. n - m * g = Part(-k, c, d) /\ -k \in Int
      BY <1>1, <3>1 DEF Part
    <3> QED
      BY <3>2 DEF c, d
  <2> HIDE DEF n
  <2> QED
    BY <1>2, <2>3, <2>4, <2>5, From1
<1>5. m * r \cong t
  <2>1. m * r = (f * al) * B + (h * be) * A
    <3>1. \A i, j, c, d, e, l \in Int : (i * j) * (c * e + d * l) = (c * i) * (j * e) + (d * j) * (i * l)
      OBVIOUS
    <3> QED
      BY <3>1
  <2>2. t = (f * al) * b + (h * be) * a
    <3>1. \A i, j, c, d, e, l \in Int : c * (i * e) + d * (j * l) = (c * i) * e + (d * j) * l
      OBVIOUS
    <3> QED
      BY <3>1
  <2>3. A \cong a /\ B \cong b
    BY DEF A, B
  <2> DEFINE fa == f * al
             hb == h * be
  <2>4. fa \in Int /\ hb \in Int
    OBVIOUS
  <2> HIDE DEF m, A, B, r, t
  <2>5. m * r \in Int
    BY <1>1, <1>2
  <2>6. m * r = fa * B + hb * A /\ t = fa * b + hb * a
    BY <2>1, <2>2
  <2> HIDE DEF fa, hb
  <2>7. m * r - t = Part(fa, B, b) + Part(hb, A, a)
    BY <1>1, <1>3, <2>4, <2>6 DEF Part
  <2> QED
    BY <1>1, <1>3, <2>3, <2>4, <2>5, <2>7, From2
<1>6. g * Z \cong r /\ ~(g \cong 0)
    OBVIOUS
<1> HIDE DEF m, A, B, n, r, t, g
<1>7. ~(n \cong 0)
  <2>1. m * g \in Int /\ ~(m * g \cong 0)
    BY <1>1, <1>2, <1>6, NotZeroProduct
  <2> QED
    BY <1>2, <1>4, <2>1, Swap, Chain
<1>8. n * Z \cong t
  <2>1. m * g \in Int /\ g * Z \in Int /\ n * Z \in Int /\ m * r \in Int
    BY <1>1, <1>2
  <2>2. n * Z \cong (m * g) * Z
    BY <1>2, <1>4, <2>1, Scale
  <2>3. (m * g) * Z = m * (g * Z) /\ m * (g * Z) \in Int
    <3>1. \A i, j, c \in Int : (i * j) * c = i * (j * c) /\ i * (j * c) \in Int
      OBVIOUS
    <3> QED
      BY <1>1, <1>2, <3>1
  <2>4. g * Z \cong r
    BY <1>6
  <2>5. m * (g * Z) \cong m * r
    BY <1>1, <1>2, <2>1, <2>4, Scale
  <2>6. n * Z \cong m * r
    BY <2>1, <2>2, <2>3, <2>5, Chain
  <2> QED
    BY <1>3, <1>5, <2>1, <2>6, Chain
<1> QED
    BY <1>7, <1>8 DEF n, m, t, Below, Above

\* What the two ways of adding have for numerators and denominators, t = 1 for
\* the first coordinate and -1 for the second.
NumeratorOut(t, p, s, u, v, d, g) == 2 * (p * v) + s * u - t * (d * (u * g))
DenominatorOut(t, s, u, v, e, d) == 1 - d * d + t * (e * (u * u + v * v)) + t * (d * s)
NumeratorIn(p, s, u, v, e) == 2 * ((p * v) * (1 - e)) + (s * u) * (1 + e)
DenominatorIn(t, s, e, d) == 1 - e * e + 2 * (t * (d * s))

LEMMA Law ==
    ASSUME NEW t \in {1, -1}, NEW p \in Int, NEW s \in Int, NEW u \in Int, NEW v \in Int,
           NEW e \in Int, NEW d \in Int, NEW k \in Int, NEW g \in Int,
           d * p = e * (u * v), d * d = e * k, g \cong 1 + e,
           s * s = g * g + 4 * (p * p), t * (v * v - u * u) \cong 1 + k
    PROVE  NumeratorOut(t, p, s, u, v, d, g) * DenominatorIn(t, s, e, d)
             \cong NumeratorIn(p, s, u, v, e) * DenominatorOut(t, s, u, v, e, d)
<1> DEFINE N == NumeratorOut(t, p, s, u, v, d, g)
           M == NumeratorIn(p, s, u, v, e)
           E == DenominatorIn(t, s, e, d)
           F == DenominatorOut(t, s, u, v, e, d)
           G == (1 + e) * (1 + e) + 4 * (p * p)
           H == t * (v * v - u * u)
           S == s * s
           c1 == t * (d * (u * (1 - e)))
           c2 == 2 * (e * ((u * s) * (1 + e))) - M * e
           c3 == -(t * (d * (u * E)))
<1>1. t * t = 1 /\ t \in Int
    OBVIOUS
<1>2. N \in Int /\ M \in Int /\ E \in Int /\ F \in Int /\ G \in Int /\ H \in Int /\ S \in Int
  <2>1. /\ p * v \in Int /\ s * u \in Int /\ u * g \in Int /\ d * d \in Int /\ e * e \in Int /\ d * s \in Int
        /\ u * u \in Int /\ v * v \in Int /\ p * p \in Int /\ s * s \in Int /\ 1 - e \in Int /\ 1 + e \in Int
    OBVIOUS
  <2>2. d * (u * g) \in Int /\ e * (u * u + v * v) \in Int /\ (p * v) * (1 - e) \in Int
        /\ (s * u) * (1 + e) \in Int /\ (1 + e) * (1 + e) \in Int /\ t * (d * s) \in Int
    BY <1>1, <2>1
  <2>3. t * (d * (u * g)) \in Int /\ t * (e * (u * u + v * v)) \in Int
    BY <1>1, <2>2
  <2>4. H \in Int /\ S \in Int /\ G \in Int
    BY <1>1, <2>1, <2>2
  <2>5. N \in Int
    BY <2>1, <2>2, <2>3 DEF NumeratorOut
  <2>6. M \in Int
    BY <2>1, <2>2, <2>3 DEF NumeratorIn
  <2>7. E \in Int
    BY <2>1, <2>2, <2>3 DEF DenominatorIn
  <2>8. F \in Int
    BY <2>1, <2>2, <2>3 DEF DenominatorOut
  <2> QED
    BY <2>4, <2>5, <2>6, <2>7, <2>8
<1>3. N * E - M * F = c1 * (S - G) + c2 * (H - (1 + k)) + c3 * (g - (1 + e))
                        + (t * (2 * ((v * s) * (1 + e)) + 4 * ((p * u) * (1 - e)))) * (d * p - e * (u * v))
                        + (M - 2 * ((u * s) * (1 + e))) * (d * d - e * k)
  <2>1. CASE t = 1
    <3> QED
      BY <2>1 DEF NumeratorOut, NumeratorIn, DenominatorIn, DenominatorOut
  <2>2. CASE t = -1
    <3> QED
      BY <2>2 DEF NumeratorOut, NumeratorIn, DenominatorIn, DenominatorOut
  <2> QED
    BY <2>1, <2>2
<1>4. c1 \in Int /\ c2 \in Int /\ c3 \in Int
  <2> HIDE DEF N, M, E, F
  <2>1. u * (1 - e) \in Int /\ (u * s) * (1 + e) \in Int /\ u * E \in Int /\ M * e \in Int
    BY <1>2
  <2>2. d * (u * (1 - e)) \in Int /\ e * ((u * s) * (1 + e)) \in Int /\ d * (u * E) \in Int
    BY <2>1
  <2> QED
    BY <1>1, <2>1, <2>2
<1> DEFINE j1 == t * (2 * ((v * s) * (1 + e)) + 4 * ((p * u) * (1 - e)))
           j2 == M - 2 * ((u * s) * (1 + e))
<1>5. j1 \in Int /\ j2 \in Int
  <2> HIDE DEF N, M, E, F
  <2>1. (v * s) * (1 + e) \in Int /\ (p * u) * (1 - e) \in Int /\ (u * s) * (1 + e) \in Int
    OBVIOUS
  <2> QED
    BY <1>1, <1>2, <2>1
<1>6. S \cong G
  <2>1. (1 + e) * (1 + e) \in Int /\ 4 * (p * p) \in Int /\ g * g \in Int /\ 1 + e \in Int
    OBVIOUS
  <2>2. g * g \cong (1 + e) * (1 + e)
    BY <2>1, Product
  <2>3. 4 * (p * p) \cong 4 * (p * p)
    BY <2>1, Same
  <2> DEFINE gg == g * g
             ee == (1 + e) * (1 + e)
             pp == 4 * (p * p)
  <2>4. gg \in Int /\ ee \in Int /\ pp \in Int /\ gg \cong ee /\ pp \cong pp
    BY <2>1, <2>2, <2>3
  <2>5. S = gg + pp /\ G = ee + pp
    OBVIOUS
  <2> HIDE DEF S, G, gg, ee, pp
  <2> QED
    BY <2>4, <2>5, Sum
<1>7. H \cong 1 + k /\ 1 + k \in Int /\ 1 + e \in Int
    OBVIOUS
<1>8. d * p - e * (u * v) = 0 /\ d * d - e * k = 0
  <2>1. e * (u * v) \in Int /\ e * k \in Int
    OBVIOUS
  <2> QED
    BY <2>1
<1> HIDE DEF N, M, E, F, G, H, S, c1, c2, c3, j1, j2
<1>9. j1 * 0 = 0 /\ j2 * 0 = 0
    BY <1>5
<1>10. N * E - M * F = c1 * (S - G) + c2 * (H - (1 + k)) + c3 * (g - (1 + e)) + j1 * 0 + j2 * 0
    BY <1>3, <1>8 DEF j1, j2
<1>11. N * E \in Int /\ M * F \in Int /\ c1 * (S - G) \in Int /\ c2 * (H - (1 + k)) \in Int
       /\ c3 * (g - (1 + e)) \in Int
    BY <1>2, <1>4, <1>7
<1>12. N * E - M * F = Part(c1, S, G) + Part(c2, H, 1 + k) + Part(c3, g, 1 + e)
    BY <1>9, <1>10, <1>11 DEF Part
<1>13. N * E \cong M * F
    BY <1>2, <1>4, <1>6, <1>7, <1>11, <1>12, From3
<1> QED
    BY <1>13 DEF N, M, E, F

LEMMA CurvePoint ==
    ASSUME NEW q \in Curve
    PROVE  q[1] \in Field /\ q[2] \in Field /\ q = <<q[1], q[2]>> /\ <<q[1], q[2]>> \in Curve
BY DEF Curve

CoordinatesOf(q, x, y) == q = <<x, y>> /\ x \in Field /\ y \in Field /\ OnAffine(x, y)

LEMMA CoordinatesAre ==
    ASSUME NEW q \in Curve
    PROVE  \E x, y \in Field : CoordinatesOf(q, x, y)
<1> DEFINE x == q[1]
           y == q[2]
<1>1. x \in Field /\ y \in Field /\ q = <<x, y>> /\ <<x, y>> \in Curve
    BY CurvePoint
<1> HIDE DEF x, y
<1>2. OnAffine(x, y)
    BY <1>1, CurveEquation, FieldIsNat DEF OnAffine
<1> QED
    BY <1>1, <1>2 DEF CoordinatesOf

\* What Plus solves.
Delta(d, x, y, u, v) == d = D * ((x * y) * (u * v))
Solves(d, x, y, u, v, X, Y) ==
    /\ d \in Int /\ ~(1 + d \cong 0) /\ ~(1 - d \cong 0)
    /\ (1 + d) * X \cong x * v + y * u /\ (1 - d) * Y \cong y * v + x * u

LEMMA PlusIs ==
    ASSUME NEW q, NEW r, NEW x, NEW y, NEW u, NEW v, CoordinatesOf(q, x, y), CoordinatesOf(r, u, v)
    PROVE  \E X, Y \in Field, d \in Int :
             CoordinatesOf(Plus(q, r), X, Y) /\ Delta(d, x, y, u, v) /\ Solves(d, x, y, u, v, X, Y)
<1> DEFINE d == D * ((x * y) * (u * v))
<1>1. d = D * ((x * y) * (u * v)) /\ Delta(d, x, y, u, v)
    BY DEF Delta
<1> HIDE DEF d
<1>2. PICK X, Y \in Field :
         /\ Plus(<<x, y>>, <<u, v>>) = <<X, Y>>
         /\ d \in Int /\ ~(1 + d \cong 0) /\ ~(1 - d \cong 0)
         /\ (1 + d) * X \cong x * v + y * u /\ (1 - d) * Y \cong y * v + x * u
         /\ OnAffine(X, Y)
    BY <1>1, SumIs DEF CoordinatesOf
<1>3. CoordinatesOf(Plus(q, r), X, Y) /\ Solves(d, x, y, u, v, X, Y)
    BY <1>2 DEF CoordinatesOf, Solves
<1> QED
    BY <1>1, <1>3

LEMMA PlusOnCurve ==
    ASSUME NEW q \in Curve, NEW r \in Curve
    PROVE  Plus(q, r) \in Curve
<1>1. PICK x, y \in Field : CoordinatesOf(q, x, y)
    BY CoordinatesAre
<1>2. PICK u, v \in Field : CoordinatesOf(r, u, v)
    BY CoordinatesAre
<1>3. PICK X, Y \in Field : CoordinatesOf(Plus(q, r), X, Y)
    BY <1>1, <1>2, PlusIs
<1> QED
    BY <1>3, CurveEquation DEF CoordinatesOf, OnAffine

Sums(x, y, p, s) == p = x * y /\ s = x * x + y * y
Norm(x, y, g) == g = y * y - x * x
Minus(m) == m = -1
Fits(E, X, N) == ~(E \cong 0) /\ E * X \cong N

\* q + (q + r): x and y of q, u and v of r, X and Y of q + r, Z and W of the whole.
LEMMA OutIs ==
    ASSUME NEW x \in Int, NEW y \in Int, NEW u \in Int, NEW v \in Int,
           NEW p, NEW s, NEW g, Sums(x, y, p, s), Norm(x, y, g),
           NEW d, NEW e, NEW n, Delta(d, x, y, u, v), Delta(e, x, y, x, y),
           NEW X \in Int, NEW Y \in Int, Solves(d, x, y, u, v, X, Y), Delta(n, x, y, X, Y),
           NEW Z \in Int, NEW W \in Int, Solves(n, x, y, X, Y, Z, W), NEW m, Minus(m)
    PROVE  /\ Fits(DenominatorOut(1, s, u, v, e, d), Z, NumeratorOut(1, p, s, u, v, d, g))
           /\ Fits(DenominatorOut(m, s, v, u, e, d), W, NumeratorOut(m, p, s, v, u, d, g))
<1> DEFINE al == 1 + d
           be == 1 - d
           a == x * v + y * u
           b == y * v + x * u
           c == D * p
<1>1. p = x * y /\ s = x * x + y * y /\ g = y * y - x * x
      /\ d = D * (p * (u * v)) /\ e = D * (p * p) /\ n = D * (p * (X * Y)) /\ m = -1
    BY DEF Sums, Norm, Delta, Minus
<1>2. p \in Int /\ s \in Int /\ g \in Int /\ u * v \in Int /\ X * Y \in Int
    BY <1>1
<1>3. c \in Int /\ -c \in Int /\ d \in Int /\ e \in Int /\ n \in Int
  <2>1. p * (u * v) \in Int /\ p * p \in Int /\ p * (X * Y) \in Int
    BY <1>2
  <2> QED
    BY <1>1, <1>2, <2>1, DIsInt
<1>4. a \in Int /\ b \in Int /\ al \in Int /\ be \in Int
    BY <1>3
<1>5. /\ al * X \cong a /\ be * Y \cong b /\ ~(al \cong 0) /\ ~(be \cong 0)
      /\ (1 + n) * Z \cong x * Y + y * X /\ (1 - n) * W \cong y * Y + x * X
      /\ ~(1 + n \cong 0) /\ ~(1 - n \cong 0)
    BY DEF Solves
<1>6. 1 + n = 1 + c * (X * Y) /\ 1 - n = 1 + (-c) * (X * Y)
  <2>1. \A i, j, k \in Int : i * (j * k) = (i * j) * k /\ -(i * (j * k)) = (-(i * j)) * k
    OBVIOUS
  <2>2. n = c * (X * Y) /\ -n = (-c) * (X * Y)
    BY <1>1, <1>2, <2>1, DIsInt
  <2> HIDE DEF c
  <2>3. (-c) * (X * Y) \in Int
    BY <1>2, <1>3
  <2> QED
    BY <1>3, <2>2, <2>3
<1>7. Known(al, be, a, b, X, Y)
    BY <1>5 DEF Known
<1>8. Sought(c, x, y, X, Y, Z) /\ Sought(-c, y, x, X, Y, W)
    BY <1>5, <1>6 DEF Sought
<1> DEFINE den(k) == Below(al, be, a, b, k)
           num(f, h) == Above(al, be, a, b, f, h)
<1>9. ~(den(c) \cong 0) /\ den(c) * Z \cong num(x, y)
  <2> HIDE DEF al, be, a, b, c
  <2> QED
    BY <1>3, <1>4, <1>7, <1>8, Cleared
<1>10. ~(den(-c) \cong 0) /\ den(-c) * W \cong num(y, x)
  <2> DEFINE k == -c
  <2>1. k \in Int /\ Sought(k, y, x, X, Y, W)
    BY <1>3, <1>8
  <2> HIDE DEF al, be, a, b, c, k
  <2>2. ~(den(k) \cong 0) /\ den(k) * W \cong num(y, x)
    BY <1>4, <1>7, <2>1, Cleared
  <2> QED
    BY <2>2 DEF k
<1>11. a * b = p * (u * u + v * v) + s * (u * v)
    BY <1>1
<1>12. c * (a * b) = e * (u * u + v * v) + d * s
  <2>1. \A i, j, k, t, w \in Int : (i * j) * (j * k + t * w) = (i * (j * j)) * k + (i * (j * w)) * t
    OBVIOUS
  <2>2. u * u + v * v \in Int
    OBVIOUS
  <2> QED
    BY <1>1, <1>2, <1>11, <2>1, <2>2, DIsInt
<1>13. al * be = 1 - d * d
    BY <1>3
<1>14. den(c) = DenominatorOut(1, s, u, v, e, d) /\ den(-c) = DenominatorOut(m, s, v, u, e, d)
  <2>1. u * u \in Int /\ v * v \in Int /\ d * s \in Int /\ d * d \in Int
    BY <1>2, <1>3
  <2>2. e * (u * u + v * v) \in Int /\ e * (v * v + u * u) = e * (u * u + v * v)
    BY <1>3, <2>1
  <2>3. (-c) * (a * b) = -(c * (a * b))
    BY <1>3, <1>4
  <2> HIDE DEF c, al, be, a, b
  <2> QED
    BY <1>1, <1>12, <1>13, <2>1, <2>2, <2>3 DEF DenominatorOut, Below
<1>15. num(x, y) = NumeratorOut(1, p, s, u, v, d, g)
  <2>1. \A i, j, k, l, h \in Int :
          i * ((1 + h) * (j * l + i * k)) + j * ((1 - h) * (i * l + j * k))
            = 2 * ((i * j) * l) + (i * i + j * j) * k - (h * (k * (j * j - i * i)))
    OBVIOUS
  <2>2. num(x, y) = 2 * (p * v) + s * u - (d * (u * g))
    BY <1>1, <1>3, <2>1 DEF Above
  <2>3. d * (u * g) \in Int
    <3>1. u * g \in Int
      BY <1>2
    <3> QED
      BY <1>3, <3>1
  <2> HIDE DEF num
  <2> QED
    BY <1>1, <1>2, <1>3, <2>2, <2>3 DEF NumeratorOut
<1>16. num(y, x) = NumeratorOut(m, p, s, v, u, d, g)
  <2>1. \A i, j, k, l, h \in Int :
          j * ((1 + h) * (j * l + i * k)) + i * ((1 - h) * (i * l + j * k))
            = 2 * ((i * j) * k) + (i * i + j * j) * l + (h * (l * (j * j - i * i)))
    OBVIOUS
  <2>2. num(y, x) = 2 * (p * u) + s * v + (d * (v * g))
    BY <1>1, <1>3, <2>1 DEF Above
  <2>3. d * (v * g) \in Int
    <3>1. v * g \in Int
      BY <1>2
    <3> QED
      BY <1>3, <3>1
  <2> HIDE DEF num
  <2> QED
    BY <1>1, <1>2, <1>3, <2>2, <2>3 DEF NumeratorOut
<1> HIDE DEF den, num
<1> QED
    BY <1>9, <1>10, <1>14, <1>15, <1>16 DEF Fits

\* (q + q) + r: x and y of q, u and v of r, X and Y of q + q, Z and W of the whole.
LEMMA InIs ==
    ASSUME NEW x \in Int, NEW y \in Int, NEW u \in Int, NEW v \in Int,
           NEW p, NEW s, Sums(x, y, p, s),
           NEW d, NEW e, NEW n, Delta(d, x, y, u, v), Delta(e, x, y, x, y),
           NEW X \in Int, NEW Y \in Int, Solves(e, x, y, x, y, X, Y), Delta(n, X, Y, u, v),
           NEW Z \in Int, NEW W \in Int, Solves(n, X, Y, u, v, Z, W), NEW m, Minus(m)
    PROVE  /\ Fits(DenominatorIn(1, s, e, d), Z, NumeratorIn(p, s, u, v, e))
           /\ Fits(DenominatorIn(m, s, e, d), W, NumeratorIn(p, s, v, u, e))
<1> DEFINE al == 1 + e
           be == 1 - e
           a == x * y + y * x
           c == D * (u * v)
<1>1. p = x * y /\ s = x * x + y * y
      /\ d = D * (p * (u * v)) /\ e = D * (p * p) /\ n = D * ((X * Y) * (u * v)) /\ m = -1
    BY DEF Sums, Delta, Minus
<1>2. p \in Int /\ s \in Int /\ u * v \in Int /\ X * Y \in Int
    BY <1>1
<1>3. c \in Int /\ -c \in Int /\ d \in Int /\ e \in Int /\ n \in Int
  <2>1. p * (u * v) \in Int /\ p * p \in Int /\ (X * Y) * (u * v) \in Int
    BY <1>2
  <2> QED
    BY <1>1, <1>2, <2>1, DIsInt
<1>4. a \in Int /\ s \in Int /\ al \in Int /\ be \in Int /\ a = 2 * p /\ s = y * y + x * x
    BY <1>1, <1>3
<1>5. /\ al * X \cong a /\ be * Y \cong s /\ ~(al \cong 0) /\ ~(be \cong 0)
      /\ (1 + n) * Z \cong X * v + Y * u /\ (1 - n) * W \cong Y * v + X * u
      /\ ~(1 + n \cong 0) /\ ~(1 - n \cong 0)
    BY <1>4 DEF Solves
<1>6. 1 + n = 1 + c * (X * Y) /\ 1 - n = 1 + (-c) * (X * Y)
  <2>1. \A i, j, k \in Int : i * (j * k) = (i * k) * j /\ -(i * (j * k)) = (-(i * k)) * j
    OBVIOUS
  <2>2. n = c * (X * Y) /\ -n = (-c) * (X * Y)
    BY <1>1, <1>2, <2>1, DIsInt
  <2> HIDE DEF c
  <2>3. (-c) * (X * Y) \in Int
    BY <1>2, <1>3
  <2> QED
    BY <1>3, <2>2, <2>3
<1>7. Known(al, be, a, s, X, Y)
    BY <1>5 DEF Known
<1>8. Sought(c, u, v, X, Y, Z) /\ Sought(-c, v, u, X, Y, W)
  <2>1. X * v + Y * u = u * Y + v * X /\ Y * v + X * u = v * Y + u * X
    OBVIOUS
  <2> QED
    BY <1>5, <1>6, <2>1 DEF Sought
<1> DEFINE den(k) == Below(al, be, a, s, k)
           num(f, h) == Above(al, be, a, s, f, h)
<1>9. ~(den(c) \cong 0) /\ den(c) * Z \cong num(u, v)
  <2> HIDE DEF al, be, a, c
  <2> QED
    BY <1>3, <1>4, <1>7, <1>8, Cleared
<1>10. ~(den(-c) \cong 0) /\ den(-c) * W \cong num(v, u)
  <2> DEFINE k == -c
  <2>1. k \in Int /\ Sought(k, v, u, X, Y, W)
    BY <1>3, <1>8
  <2> HIDE DEF al, be, a, c, k
  <2>2. ~(den(k) \cong 0) /\ den(k) * W \cong num(v, u)
    BY <1>4, <1>7, <2>1, Cleared
  <2> QED
    BY <2>2 DEF k
<1>11. c * (a * s) = 2 * (d * s) /\ (-c) * (a * s) = -(2 * (d * s))
  <2>1. \A i, j, k, l \in Int : /\ (i * j) * ((2 * k) * l) = 2 * ((i * (k * j)) * l)
                                /\ (-(i * j)) * ((2 * k) * l) = -(2 * ((i * (k * j)) * l))
    OBVIOUS
  <2> HIDE DEF a
  <2> QED
    BY <1>1, <1>2, <1>4, <2>1, DIsInt
<1>12. al * be = 1 - e * e
    BY <1>3
<1>13. den(c) = DenominatorIn(1, s, e, d) /\ den(-c) = DenominatorIn(m, s, e, d)
  <2>1. d * s \in Int /\ e * e \in Int
    BY <1>2, <1>3
  <2> HIDE DEF c, al, be, a
  <2> QED
    BY <1>1, <1>11, <1>12, <2>1 DEF DenominatorIn, Below
<1>14. num(u, v) = NumeratorIn(p, s, u, v, e) /\ num(v, u) = NumeratorIn(p, s, v, u, e)
  <2>1. \A i, j, k, l, h \in Int :
          i * ((1 + h) * k) + j * ((1 - h) * (2 * l)) = 2 * ((l * j) * (1 - h)) + (k * i) * (1 + h)
    OBVIOUS
  <2> HIDE DEF a
  <2> QED
    BY <1>2, <1>3, <1>4, <2>1 DEF NumeratorIn, Above
<1> HIDE DEF den, num
<1> QED
    BY <1>9, <1>10, <1>13, <1>14 DEF Fits

LEMMA SameQuotient ==
    ASSUME NEW M \in Int, NEW N \in Int, NEW E \in Int, NEW F \in Int,
           NEW X \in Field, NEW Y \in Field, Fits(E, X, M), Fits(F, Y, N), M * F \cong N * E
    PROVE  X = Y
<1> USE DEF Fits
<1> DEFINE f == F * (E * X)
           g == E * (F * Y)
           m == M * F
           n == N * E
           h == F * M
           k == E * N
<1>1. X \in Int /\ Y \in Int /\ E * F \in Int /\ ~(E * F \cong 0)
    BY FieldIsNat, NotZeroProduct
<1>2. E * X \in Int /\ F * Y \in Int /\ m \in Int /\ n \in Int /\ h = m /\ k = n
    BY <1>1
<1>3. f \in Int /\ g \in Int /\ f = (E * F) * X /\ g = (E * F) * Y
  <2>1. \A i, j, l \in Int : i * (j * l) = (j * i) * l /\ i * (j * l) = (i * j) * l /\ i * (j * l) \in Int
    OBVIOUS
  <2> QED
    BY <1>1, <2>1
<1>4. f \cong h /\ g \cong k
    BY <1>2, Scale
<1>5. m \cong n
    OBVIOUS
<1> HIDE DEF f, g, h, k, m, n
<1>6. f \cong n
    BY <1>2, <1>3, <1>4, <1>5, Chain
<1>7. n \cong g
    BY <1>2, <1>3, <1>4, Swap
<1>8. f \cong g
    BY <1>2, <1>3, <1>6, <1>7, Chain
<1>9. X \cong Y
    BY <1>1, <1>3, <1>8, Cancel
<1> QED
    BY <1>9, Unique

LEMMA FractionsInt ==
    ASSUME NEW t \in {1, -1}, NEW p \in Int, NEW s \in Int, NEW u \in Int, NEW v \in Int,
           NEW e \in Int, NEW d \in Int, NEW g \in Int
    PROVE  /\ NumeratorOut(t, p, s, u, v, d, g) \in Int /\ DenominatorOut(t, s, u, v, e, d) \in Int
           /\ NumeratorIn(p, s, u, v, e) \in Int /\ DenominatorIn(t, s, e, d) \in Int
<1>1. t \in Int
    OBVIOUS
<1>2. /\ p * v \in Int /\ s * u \in Int /\ u * g \in Int /\ d * d \in Int /\ e * e \in Int /\ d * s \in Int
      /\ u * u + v * v \in Int /\ 1 - e \in Int /\ 1 + e \in Int
    OBVIOUS
<1>3. d * (u * g) \in Int /\ e * (u * u + v * v) \in Int /\ (p * v) * (1 - e) \in Int
      /\ (s * u) * (1 + e) \in Int /\ t * (d * s) \in Int
    BY <1>1, <1>2
<1>4. t * (d * (u * g)) \in Int /\ t * (e * (u * u + v * v)) \in Int
    BY <1>1, <1>3
<1>5. NumeratorOut(t, p, s, u, v, d, g) \in Int
    BY <1>2, <1>4 DEF NumeratorOut
<1>6. DenominatorOut(t, s, u, v, e, d) \in Int
    BY <1>2, <1>3, <1>4 DEF DenominatorOut
<1>7. NumeratorIn(p, s, u, v, e) \in Int
    BY <1>2, <1>3 DEF NumeratorIn
<1>8. DenominatorIn(t, s, e, d) \in Int
    BY <1>2, <1>3 DEF DenominatorIn
<1> QED
    BY <1>5, <1>6, <1>7, <1>8

\* The group's law, as far as it is needed.
LEMMA PlusTwice ==
    ASSUME NEW q \in Curve, NEW r \in Curve
    PROVE  Plus(q, Plus(q, r)) = Plus(Plus(q, q), r)
<1>1. PICK x, y \in Field : CoordinatesOf(q, x, y)
    BY CoordinatesAre
<1>2. PICK u, v \in Field : CoordinatesOf(r, u, v)
    BY CoordinatesAre
<1> DEFINE p == x * y
           s == x * x + y * y
           g == y * y - x * x
           k == D * ((u * v) * (u * v))
           m == -1
<1>3. PICK X1, Y1 \in Field, d \in Int :
        CoordinatesOf(Plus(q, r), X1, Y1) /\ Delta(d, x, y, u, v) /\ Solves(d, x, y, u, v, X1, Y1)
    BY <1>1, <1>2, PlusIs
<1>4. PICK X2, Y2 \in Field, e \in Int :
        CoordinatesOf(Plus(q, q), X2, Y2) /\ Delta(e, x, y, x, y) /\ Solves(e, x, y, x, y, X2, Y2)
    BY <1>1, PlusIs
<1>5. PICK X3, Y3 \in Field, n \in Int :
        /\ CoordinatesOf(Plus(q, Plus(q, r)), X3, Y3)
        /\ Delta(n, x, y, X1, Y1) /\ Solves(n, x, y, X1, Y1, X3, Y3)
    BY <1>1, <1>3, PlusIs
<1>6. PICK X4, Y4 \in Field, h \in Int :
        /\ CoordinatesOf(Plus(Plus(q, q), r), X4, Y4)
        /\ Delta(h, X2, Y2, u, v) /\ Solves(h, X2, Y2, u, v, X4, Y4)
    BY <1>2, <1>4, PlusIs
<1>7. /\ x \in Int /\ y \in Int /\ u \in Int /\ v \in Int /\ X1 \in Int /\ Y1 \in Int /\ X2 \in Int /\ Y2 \in Int
      /\ X3 \in Int /\ Y3 \in Int /\ X4 \in Int /\ Y4 \in Int
    BY FieldIsNat
<1>8. p \in Int /\ s \in Int /\ g \in Int /\ k \in Int
  <2>1. p \in Int /\ s \in Int /\ g \in Int /\ u * v \in Int
    BY <1>7
  <2>2. (u * v) * (u * v) \in Int
    BY <2>1
  <2> QED
    BY <2>1, <2>2, DIsInt
<1>9. d \in Int /\ e \in Int /\ d = D * (p * (u * v)) /\ e = D * (p * p)
    BY <1>3, <1>4 DEF Delta
<1>10. g \cong 1 + e /\ v * v - u * u \cong 1 + k
    BY <1>1, <1>2, <1>9 DEF CoordinatesOf, OnAffine
<1>11. s * s = g * g + 4 * (p * p)
  <2>1. \A i, j \in Int : (i * i + j * j) * (i * i + j * j)
                            = (j * j - i * i) * (j * j - i * i) + 4 * ((i * j) * (i * j))
    OBVIOUS
  <2> QED
    BY <1>7, <2>1
<1>12. d * p = e * (u * v) /\ d * p = e * (v * u) /\ d * d = e * k
  <2>1. \A i, j, l \in Int : (l * (i * j)) * i = (l * (i * i)) * j
    OBVIOUS
  <2>2. \A i, j, l \in Int : (l * (i * j)) * (l * (i * j)) = (l * (i * i)) * (l * (j * j))
    OBVIOUS
  <2>3. u * v \in Int /\ v * u = u * v
    BY <1>7
  <2> HIDE DEF p
  <2> QED
    BY <1>8, <1>9, <2>1, <2>2, <2>3, DIsInt
<1>13. m \in {1, -1} /\ m = -1 /\ 1 \in {1, -1}
    OBVIOUS
<1>14. 1 * (v * v - u * u) \cong 1 + k /\ m * (u * u - v * v) \cong 1 + k
  <2>1. u * u \in Int /\ v * v \in Int
    BY <1>7
  <2>2. 1 * (v * v - u * u) = v * v - u * u /\ m * (u * u - v * v) = v * v - u * u
    BY <2>1
  <2> QED
    BY <1>10, <2>2
<1>15. Sums(x, y, p, s) /\ Norm(x, y, g) /\ Minus(m)
    BY DEF Sums, Norm, Minus
<1> HIDE DEF p, s, g, k, m
<1>16. /\ Fits(DenominatorOut(1, s, u, v, e, d), X3, NumeratorOut(1, p, s, u, v, d, g))
       /\ Fits(DenominatorOut(m, s, v, u, e, d), Y3, NumeratorOut(m, p, s, v, u, d, g))
    BY <1>3, <1>4, <1>5, <1>7, <1>15, OutIs
<1>17. /\ Fits(DenominatorIn(1, s, e, d), X4, NumeratorIn(p, s, u, v, e))
       /\ Fits(DenominatorIn(m, s, e, d), Y4, NumeratorIn(p, s, v, u, e))
    BY <1>3, <1>4, <1>6, <1>7, <1>15, InIs
<1>18. NumeratorOut(1, p, s, u, v, d, g) * DenominatorIn(1, s, e, d)
         \cong NumeratorIn(p, s, u, v, e) * DenominatorOut(1, s, u, v, e, d)
    BY <1>7, <1>8, <1>10, <1>11, <1>12, <1>13, <1>14, <1>9, Law
<1>19. NumeratorOut(m, p, s, v, u, d, g) * DenominatorIn(m, s, e, d)
         \cong NumeratorIn(p, s, v, u, e) * DenominatorOut(m, s, v, u, e, d)
    BY <1>7, <1>8, <1>10, <1>11, <1>12, <1>13, <1>14, <1>9, Law
<1>20. X3 = X4
  <2>1. /\ NumeratorOut(1, p, s, u, v, d, g) \in Int /\ DenominatorOut(1, s, u, v, e, d) \in Int
        /\ NumeratorIn(p, s, u, v, e) \in Int /\ DenominatorIn(1, s, e, d) \in Int
    BY <1>7, <1>8, <1>13, <1>9, FractionsInt
  <2> QED
    BY <1>16, <1>17, <1>18, <2>1, SameQuotient
<1>21. Y3 = Y4
  <2>1. /\ NumeratorOut(m, p, s, v, u, d, g) \in Int /\ DenominatorOut(m, s, v, u, e, d) \in Int
        /\ NumeratorIn(p, s, v, u, e) \in Int /\ DenominatorIn(m, s, e, d) \in Int
    BY <1>7, <1>8, <1>13, <1>9, FractionsInt
  <2> QED
    BY <1>16, <1>17, <1>19, <2>1, SameQuotient
<1> QED
    BY <1>5, <1>6, <1>20, <1>21 DEF CoordinatesOf

-----------------------------------------------------------------------------
(* The multiples that DoublesArePoints names. *)

LEMMA PlusIdentity ==
    ASSUME NEW q \in Curve
    PROVE  Plus(q, Identity) = q
<1> DEFINE x == q[1]
           y == q[2]
<1>1. x \in Field /\ y \in Field /\ x \in Int /\ y \in Int /\ q = <<x, y>>
    BY CurvePoint, FieldIsNat
<1>2. Plus(<<x, y>>, <<0, 1>>)
        = <<Div(x * 1 + y * 0, 1 + D * ((x * 0 * y * 1) % P)),
            Div(y * 1 + x * 0, 1 - D * ((x * 0 * y * 1) % P))>>
    BY DEF Plus
<1> HIDE DEF x, y
<1>3. x * 1 + y * 0 = x /\ y * 1 + x * 0 = y /\ x * 0 * y * 1 = 0
    BY <1>1
<1>4. 0 % P = 0
    BY FieldIsNat, Multiple, Same
<1>5. 1 + D * 0 = 1 /\ 1 - D * 0 = 1
    BY DIsInt
<1>6. 1 * x \cong x /\ 1 * y \cong y /\ ~(1 \cong 0)
  <2>1. 1 * x = x /\ 1 * y = y
    BY <1>1
  <2> QED
    BY <1>1, <2>1, Same, FieldIsNat, Unique
<1>7. Div(x, 1) = x /\ Div(y, 1) = y
    BY <1>1, <1>6, QuotientIs
<1> QED
    BY <1>1, <1>2, <1>3, <1>4, <1>5, <1>7 DEF Identity

LEMMA IdentityOnCurve == Identity \in Curve
<1>1. 1 * 1 - 0 * 0 = 1 /\ 0 * 1 = 0 /\ 0 * 0 = 0
    OBVIOUS
<1>2. 1 + D * 0 = 1
    BY DIsInt
<1>3. 1 \cong 1
    BY Same
<1>4. 1 * 1 - 0 * 0 \cong 1 + D * ((0 * 1) * (0 * 1))
    BY <1>1, <1>2, <1>3
<1> QED
    BY <1>4, FieldIsNat, CurveEquation DEF Identity

\* What Times says of its function.
Multiples(f, n, q) ==
    /\ f \in [0..n -> Curve] /\ f[0] = Identity
    /\ \A m \in 1..n : f[m] = Plus(q, f[m - 1])

LEMMA MultiplesExist ==
    ASSUME NEW q \in Curve
    PROVE  \A n \in Nat : \E f : Multiples(f, n, q)
<1> DEFINE S == {n \in Nat : \E f : Multiples(f, n, q)}
<1>1. 0 \in S
  <2> DEFINE f == [m \in 0..0 |-> Identity]
  <2>1. Multiples(f, 0, q)
    BY IdentityOnCurve DEF Multiples
  <2> QED
    BY <2>1
<1>2. ASSUME NEW n \in Nat, n \in S PROVE n + 1 \in S
  <2>1. PICK f : Multiples(f, n, q)
    BY <1>2
  <2> DEFINE g == [m \in 0..(n + 1) |-> IF m = n + 1 THEN Plus(q, f[n]) ELSE f[m]]
  <2>2. \A m \in 0..n : f[m] \in Curve /\ g[m] = f[m]
    BY <2>1 DEF Multiples
  <2>3. Plus(q, f[n]) \in Curve
    <3>1. n \in 0..n
      OBVIOUS
    <3> HIDE DEF g
    <3> QED
      BY <2>2, <3>1, PlusOnCurve
  <2>4. g \in [0..(n + 1) -> Curve] /\ g[0] = Identity
    BY <2>1, <2>2, <2>3 DEF Multiples
  <2>5. ASSUME NEW m \in 1..(n + 1) PROVE g[m] = Plus(q, g[m - 1])
    <3>1. m - 1 \in 0..n /\ g[m - 1] = f[m - 1]
      BY <2>2
    <3>2. CASE m = n + 1
      BY <3>1, <3>2
    <3>3. CASE m # n + 1
      <4>1. m \in 1..n /\ m \in 0..n
        BY <3>3
      <4> QED
        BY <4>1, <3>1, <2>1, <2>2 DEF Multiples
    <3> QED
      BY <3>2, <3>3
  <2>6. Multiples(g, n + 1, q)
    <3> HIDE DEF g
    <3> QED
      BY <2>4, <2>5 DEF Multiples
  <2> QED
    BY <2>6
<1> HIDE DEF S
<1>3. \A n \in Nat : n \in S
    BY <1>1, <1>2, Induction
<1> QED
    BY <1>3 DEF S

LEMMA TimesIsMultiple ==
    ASSUME NEW q \in Curve, NEW n \in Nat, NEW f, Multiples(f, n, q)
    PROVE  Times(n, q) = f[n]
<1> DEFINE Meets(g) == g = [m \in 0..n |-> IF m = 0 THEN Identity ELSE Plus(q, g[m - 1])]
           h == CHOOSE g : Meets(g)
<1>1. Times(n, q) = h[n]
    BY DEF Times
<1>2. Meets(f)
  <2>1. \A m \in 0..n : f[m] = IF m = 0 THEN Identity ELSE Plus(q, f[m - 1])
    BY DEF Multiples
  <2>2. f = [m \in 0..n |-> f[m]]
    BY DEF Multiples
  <2> QED
    BY <2>1, <2>2
<1>3. Meets(h)
  <2> HIDE DEF Meets
  <2> QED
    BY <1>2
<1> HIDE DEF h
<1> DEFINE S == {m \in Nat : m \in 0..n => h[m] = f[m]}
<1>4. h[0] = Identity /\ \A m \in 0..n : m # 0 => h[m] = Plus(q, h[m - 1])
    BY <1>3
<1>5. 0 \in S
    BY <1>4 DEF Multiples
<1>6. ASSUME NEW m \in Nat, m \in S PROVE m + 1 \in S
  <2> SUFFICES ASSUME m + 1 \in 0..n PROVE h[m + 1] = f[m + 1]
    OBVIOUS
  <2>1. m \in 0..n /\ m + 1 \in 1..n /\ m + 1 # 0 /\ (m + 1) - 1 = m
    OBVIOUS
  <2>2. h[m] = f[m]
    BY <1>6, <2>1
  <2>3. h[m + 1] = Plus(q, h[m])
    BY <1>4, <2>1
  <2>4. f[m + 1] = Plus(q, f[m])
    BY <2>1 DEF Multiples
  <2> QED
    BY <2>2, <2>3, <2>4
<1> HIDE DEF S
<1>7. \A m \in Nat : m \in S
    BY <1>5, <1>6, Induction
<1> QED
    BY <1>1, <1>7 DEF S

LEMMA TimesStep ==
    ASSUME NEW q \in Curve, NEW n \in Nat
    PROVE  Times(0, q) = Identity /\ Times(n, q) \in Curve /\ Times(n + 1, q) = Plus(q, Times(n, q))
<1>1. PICK f : Multiples(f, n + 1, q)
    BY MultiplesExist
<1> DEFINE g == [m \in 0..n |-> f[m]]
<1>2. Multiples(g, n, q)
  <2>1. \A m \in 0..n : m \in 0..(n + 1)
    OBVIOUS
  <2>2. \A m \in 1..n : m - 1 \in 0..n /\ m \in 0..n /\ m \in 1..(n + 1)
    OBVIOUS
  <2> QED
    BY <1>1, <2>1, <2>2 DEF Multiples
<1>3. g[n] = f[n] /\ Times(n, q) = g[n] /\ Times(n + 1, q) = f[n + 1]
    BY <1>1, <1>2, TimesIsMultiple
<1>4. Times(0, q) = Identity
  <2>1. PICK z : Multiples(z, 0, q)
    BY MultiplesExist
  <2> QED
    BY <2>1, TimesIsMultiple DEF Multiples
<1>5. f[n] \in Curve /\ f[n + 1] = Plus(q, f[n])
  <2>1. n + 1 \in 1..(n + 1) /\ (n + 1) - 1 = n /\ n \in 0..(n + 1)
    OBVIOUS
  <2> QED
    BY <1>1, <2>1 DEF Multiples
<1> QED
    BY <1>3, <1>4, <1>5

LEMMA TimesOne ==
    ASSUME NEW q \in Curve
    PROVE  Times(1, q) = q /\ Times(2, q) = Plus(q, q)
<1>1. 0 + 1 = 1 /\ 1 + 1 = 2
    OBVIOUS
<1>2. Times(0, q) = Identity /\ Times(1, q) = Plus(q, Times(0, q)) /\ Times(2, q) = Plus(q, Times(1, q))
    BY <1>1, TimesStep
<1> QED
    BY <1>2, PlusIdentity

LEMMA TwoMore ==
    ASSUME NEW q \in Curve, NEW n \in Nat
    PROVE  Times(n + 2, q) = Plus(Times(2, q), Times(n, q))
<1>1. n + 1 \in Nat /\ (n + 1) + 1 = n + 2
    OBVIOUS
<1>2. Times(n + 1, q) = Plus(q, Times(n, q)) /\ Times(n, q) \in Curve
    BY TimesStep
<1>3. Times((n + 1) + 1, q) = Plus(q, Times(n + 1, q))
    BY <1>1, TimesStep
<1> QED
    BY <1>1, <1>2, <1>3, PlusTwice, TimesOne

LEMMA NextMultiple ==
    ASSUME NEW k \in 0..2, NEW q \in Curve
    PROVE  Times(2^(k + 1), q) = Plus(Times(2^k, q), Times(2^k, q))
<1> DEFINE two == Times(2, q)
           four == Times(4, q)
<1>1. two \in Curve /\ four \in Curve
    BY TimesStep
<1>2. four = Plus(two, two) /\ Times(6, q) = Plus(two, four) /\ Times(8, q) = Plus(two, Times(6, q))
  <2>1. 2 + 2 = 4 /\ 4 + 2 = 6 /\ 6 + 2 = 8
    OBVIOUS
  <2> QED
    BY <2>1, TwoMore
<1>3. Times(8, q) = Plus(four, four)
    BY <1>1, <1>2, PlusTwice
<1>4. CASE k = 0
  <2>1. 2^k = 1 /\ 2^(k + 1) = 2
    BY <1>4
  <2> QED
    BY <2>1, TimesOne
<1>5. CASE k = 1
  <2>1. 2^k = 2 /\ 2^(k + 1) = 4
    BY <1>5
  <2> QED
    BY <1>2, <2>1
<1>6. CASE k = 2
  <2>1. 2^k = 4 /\ 2^(k + 1) = 8
    BY <1>6
  <2> QED
    BY <1>3, <2>1
<1> QED
    BY <1>4, <1>5, <1>6

-----------------------------------------------------------------------------
(* Decoding: exactly the encodings of points of the curve have a point.    *)

LEMMA IsRootMeans ==
    ASSUME NEW x \in Int, NEW y, XX(y) \in Int
    PROVE  IsRoot(x, y) <=> x * x \cong XX(y)
<1>1. x * x \in Int
    OBVIOUS
<1> QED
    BY <1>1, Difference DEF IsRoot

\* The code's x^2.
LEMMA XXIs ==
    ASSUME NEW y \in Field
    PROVE  /\ XX(y) \in Field /\ XX(y) \in Int
           /\ ~(D * (y * y) + 1 \cong 0)
           /\ (D * (y * y) + 1) * XX(y) \cong y * y - 1
<1> DEFINE v == D * (y * y) + 1
           u == y * y - 1
           s == v % P
           i == Inv(s)
<1>1. y \in Int /\ y * y \in Int /\ u \in Int
  <2>1. y \in Int
    BY FieldIsNat
  <2>2. y * y \in Int
    BY <2>1
  <2> QED
    BY <2>1, <2>2
<1>2. v \in Int /\ D * (y * y) \in Int /\ D * y * y + 1 = v
  <2>1. D * (y * y) \in Int
    BY <1>1, DIsInt
  <2>2. D * y * y = D * (y * y)
    BY <1>1, DIsInt
  <2> QED
    BY <2>1, <2>2
<1>3. XX(y) = (u * i) % P
    BY <1>2 DEF XX, Inv
<1>4. ~(v \cong 0)
  <2>1. SUFFICES ASSUME v \cong 0 PROVE FALSE
    OBVIOUS
  <2>2. v - 0 = D * (y * y) - (-(1 * 1))
    BY <1>2
  <2>3. D * (y * y) \cong -(1 * 1)
    BY <2>1, <2>2 DEF \cong
  <2>4. ~(1 \cong 0)
    BY FieldIsNat, Unique
  <2> QED
    BY <1>1, <2>3, <2>4, MinusDHasNoRoot
<1> HIDE DEF u, v
<1>5. s \in Int /\ s \cong v
    BY <1>2, Reduced
<1> HIDE DEF s
<1>6. ~(s \cong 0)
    BY <1>2, <1>4, <1>5, Swap, Chain
<1>7. i \in Int /\ s * i \cong 1
    BY <1>5, <1>6, InverseOf
<1> HIDE DEF i
<1>8. u * i \in Int /\ v * i \in Int /\ s * i \in Int
    BY <1>1, <1>2, <1>5, <1>7
<1> DEFINE w == (u * i) % P
<1>9. w \in Field /\ w \in Int /\ w \cong u * i
    BY <1>8, Reduced
<1> HIDE DEF w
<1>10. v * w \cong u
  <2>1. v * w - u = Part(v, w, u * i) + Part(-(u * i), s, v) + Part(u, s * i, 1)
    <3>1. Part(v, w, u * i) = v * w - v * (u * i)
      BY <1>2, <1>8, <1>9 DEF Part
    <3>2. Part(-(u * i), s, v) = (u * i) * v - (u * i) * s
      BY <1>2, <1>5, <1>8 DEF Part
    <3>3. Part(u, s * i, 1) = u * (s * i) - u
      BY <1>1, <1>8 DEF Part
    <3>4. v * (u * i) = (u * i) * v /\ (u * i) * s = u * (s * i)
      BY <1>1, <1>2, <1>5, <1>7
    <3>5. v * w \in Int /\ (u * i) * v \in Int /\ u * (s * i) \in Int
      BY <1>1, <1>2, <1>8, <1>9
    <3> QED
      BY <1>1, <3>1, <3>2, <3>3, <3>4, <3>5
  <2>2. v * w \in Int /\ -(u * i) \in Int
    BY <1>2, <1>8, <1>9
  <2> QED
    BY <1>1, <1>2, <1>5, <1>7, <1>8, <1>9, <2>1, <2>2, From3
<1> QED
    BY <1>3, <1>4, <1>9, <1>10 DEF u, v, w

\* The points of the curve are those whose x is a root of it.
LEMMA CurveRoot ==
    ASSUME NEW x \in Field, NEW y \in Field
    PROVE  <<x, y>> \in Curve <=> x * x \cong XX(y)
<1> DEFINE w == XX(y)
           z == x * x
           q == y * y
           v == D * q + 1
<1>1. x \in Int /\ y \in Int
    BY FieldIsNat
<1>2. z \in Int /\ q \in Int
    BY <1>1
<1>3. v \in Int
    BY <1>2, DIsInt
<1>4. w \in Int /\ ~(v \cong 0) /\ v * w \cong q - 1
    BY XXIs
<1>5. 1 + D * ((x * y) * (x * y)) = 1 + D * (z * q)
  <2>1. \A a, b \in Int : (a * b) * (a * b) = (a * a) * (b * b)
    OBVIOUS
  <2> QED
    BY <1>1, <2>1
<1>6. <<x, y>> \in Curve <=> q - z \cong 1 + D * (z * q)
    BY <1>5, CurveEquation
<1>7. (q - z) - (1 + D * (z * q)) = (q - 1) - v * z
  <2>1. \A a, b, d \in Int : (b - a) - (1 + d * (a * b)) = (b - 1) - (d * b + 1) * a
    OBVIOUS
  <2> HIDE DEF z, q
  <2> QED
    BY <1>2, <2>1, DIsInt
<1>8. <<x, y>> \in Curve <=> q - 1 \cong v * z
    BY <1>6, <1>7 DEF \cong
<1> HIDE DEF w, z, q, v
<1>9. q - 1 \in Int /\ v * z \in Int /\ v * w \in Int
    BY <1>2, <1>3, <1>4
<1>10. ASSUME q - 1 \cong v * z PROVE z \cong w
  <2>1. v * w \cong v * z
    BY <1>4, <1>9, <1>10, Chain
  <2>2. v * z \cong v * w
    BY <1>9, <2>1, Swap
  <2> QED
    BY <1>2, <1>3, <1>4, <2>2, Cancel
<1>11. ASSUME z \cong w PROVE q - 1 \cong v * z
  <2>1. v * z \cong v * w
    BY <1>2, <1>3, <1>4, <1>11, Scale
  <2>2. v * z \cong q - 1
    BY <1>4, <1>9, <2>1, Chain
  <2> QED
    BY <1>9, <2>2, Swap
<1> QED
    BY <1>8, <1>10, <1>11 DEF z, w

LEMMA RootInField ==
    ASSUME NEW y \in Field
    PROVE  Candidate(y) \in Field /\ Candidate(y) \in Int /\ Root(y) \in Field /\ Root(y) \in Int
<1> DEFINE c == Candidate(y)
           i == RootOfMinusOne
<1>1. c \in Field /\ c \in Int
  <2>1. Half + 1 \in Nat /\ XX(y) \in Int
    BY Eighth, XXIs
  <2> QED
    BY <2>1, Eighth, PowStep DEF Candidate
<1>2. i \in Int
    BY RootOfMinusOneSquared
<1>3. Root(y) = c \/ Root(y) = (c * i) % P
    BY DEF Root
<1> HIDE DEF c, i
<1>4. c * i \in Int
    BY <1>1, <1>2
<1>5. (c * i) % P \in Field /\ (c * i) % P \in Int
    BY <1>4, Reduced
<1> QED
    BY <1>1, <1>3, <1>5 DEF c

\* The candidate, or its product with the root of -1, is a root if there is
\* one: x^(P - 1) = 1 makes the square of the candidate w or -w.
LEMMA RootFound ==
    ASSUME NEW y \in Field, NEW x \in Int, x * x \cong XX(y)
    PROVE  Root(y) * Root(y) \cong XX(y)
<1> DEFINE w == XX(y)
           c == Candidate(y)
           m == Half
           h == Pow(w, 2 * m + 1)
           i == RootOfMinusOne
<1>1. w \in Field /\ w \in Int /\ m \in Nat /\ P = 8 * m + 5 /\ (P + 3) \div 8 = m + 1
    BY XXIs, Eighth
<1>2. x * x \in Int /\ x * x \cong w
    OBVIOUS
<1>3. i \in Int /\ i * i \cong -1
    BY RootOfMinusOneSquared
<1>4. c = Pow(w, m + 1) /\ c \in Int
  <2> HIDE DEF w
  <2>1. c = Pow(w, m + 1)
    BY <1>1 DEF Candidate, w
  <2> QED
    BY <2>1, RootInField
<1>5. h \in Int
  <2>1. 2 * m + 1 \in Nat
    BY <1>1
  <2> HIDE DEF w, m
  <2> QED
    BY <1>1, <2>1, PowStep
<1> HIDE DEF w, m, c
<1>6. c * c \cong w * h
  <2> DEFINE p == Pow(w, (m + 1) + (m + 1))
  <2>1. m + 1 \in Nat /\ 2 * m + 1 \in Nat /\ (m + 1) + (m + 1) = (2 * m + 1) + 1
    BY <1>1
  <2>2. p \cong c * c
    BY <1>1, <1>4, <2>1, PowSum
  <2>3. p \in Int /\ p \cong w * h
    BY <1>1, <2>1, PowStep
  <2> HIDE DEF p, h
  <2>4. c * c \in Int /\ w * h \in Int
    BY <1>1, <1>4, <1>5
  <2> QED
    BY <2>2, <2>3, <2>4, Swap, Chain
<1>7. CASE x \cong 0
  <2>1. w \cong 0
    <3>1. x * x - 0 = Part(x, x, 0)
      BY DEF Part
    <3>2. x * x \cong 0
      BY <1>2, <1>7, <3>1, From1
    <3>3. w \cong x * x
      BY <1>1, <1>2, Swap
    <3> QED
      BY <1>1, <1>2, <3>2, <3>3, Chain
  <2> HIDE DEF h
  <2>2. w * h \in Int /\ w * h \cong 0
    <3>1. w * h \in Int /\ w * h - 0 = Part(h, w, 0)
      BY <1>1, <1>5 DEF Part
    <3> QED
      BY <1>1, <1>5, <2>1, <3>1, From1
  <2>3. c * c \in Int /\ c * c \cong w
    <3>1. c * c \in Int
      BY <1>4
    <3>2. 0 \cong w
      BY <1>1, <2>1, Swap
    <3>3. c * c \cong 0
      BY <1>6, <2>2, <3>1, Chain
    <3> QED
      BY <1>1, <3>1, <3>2, <3>3, Chain
  <2>4. IsRoot(c, y)
    BY <1>1, <1>4, <2>3, IsRootMeans DEF w
  <2>5. Root(y) = c
    BY <2>4 DEF Root, c
  <2> QED
    BY <2>3, <2>5 DEF w
<1>8. CASE ~(x \cong 0)
  <2>1. h * h \cong 1
    <3> DEFINE n == (2 * m + 1) + (2 * m + 1)
               s == Pow(x, 2)
    <3>1. n \in Nat /\ 2 * m + 1 \in Nat /\ 2 * n = P - 1 /\ 2 \in Nat
      BY <1>1
    <3>2. Pow(w, n) \cong h * h
      BY <1>1, <3>1, PowSum
    <3>3. s \in Int /\ s \cong x * x
      BY PowTwo
    <3> HIDE DEF n
    <3>4. Pow(x, 2 * n) = Pow(s, n)
      BY <3>1, PowOfPow
    <3> HIDE DEF s, h
    <3>5. s \cong w
      BY <1>1, <1>2, <3>3, Chain
    <3>6. Pow(s, n) = Pow(w, n)
      BY <1>1, <3>1, <3>3, <3>5, PowOfCongruent
    <3>7. Pow(x, P - 1) = 1
      BY <1>8, Fermat
    <3>8. 1 \cong h * h
      BY <3>1, <3>2, <3>4, <3>6, <3>7
    <3>9. h * h \in Int
      BY <1>5
    <3> QED
      BY <3>8, <3>9, Swap
  <2> HIDE DEF h
  <2>2. h \cong 1 \/ h \cong -1
    <3>1. h * h \cong 1 * 1
      BY <2>1
    <3> QED
      BY <1>5, <3>1, SameSquares
  <2>3. c * c \in Int /\ w * h \in Int
    BY <1>1, <1>4, <1>5
  <2>4. CASE IsRoot(c, y)
    <3>1. Root(y) = c
      BY <2>4 DEF Root, c
    <3> QED
      BY <1>1, <1>4, <2>4, <3>1, IsRootMeans DEF w
  <2>5. CASE ~IsRoot(c, y)
    <3> DEFINE r == (c * i) % P
    <3>1. Root(y) = r
      BY <2>5 DEF Root, c
    <3>2. h \cong -1
      <4>1. SUFFICES ASSUME h \cong 1 PROVE FALSE
        BY <2>2
      <4>2. w * h - w = Part(w, h, 1)
        BY <1>1, <1>5 DEF Part
      <4>3. w * h \cong w
        BY <1>1, <1>5, <2>3, <4>1, <4>2, From1
      <4>4. c * c \cong w
        BY <1>1, <1>6, <2>3, <4>3, Chain
      <4> QED
        BY <1>1, <1>4, <2>5, <4>4, IsRootMeans DEF w
    <3>3. c * c \cong -w
      <4>1. w * h - (-w) = Part(w, h, -1) /\ -w \in Int /\ -1 \in Int
        BY <1>1, <1>5 DEF Part
      <4>2. w * h \cong -w
        BY <1>1, <1>5, <2>3, <3>2, <4>1, From1
      <4> QED
        BY <1>6, <2>3, <4>1, <4>2, Chain
    <3> HIDE DEF i
    <3>4. c * i \in Int /\ i * i \in Int /\ -w \in Int
      BY <1>1, <1>3, <1>4
    <3>5. r \in Int /\ r \cong c * i
      BY <3>4, Reduced
    <3> HIDE DEF r
    <3>6. r * r \cong (c * i) * (c * i)
      BY <3>4, <3>5, Product
    <3>7. (c * i) * (c * i) = (c * c) * (i * i)
      <4>1. \A a, b \in Int : (a * b) * (a * b) = (a * a) * (b * b)
        OBVIOUS
      <4> QED
        BY <1>3, <1>4, <4>1
    <3>8. (c * c) * (i * i) \cong (-w) * (-1)
      BY <1>3, <2>3, <3>3, <3>4, Product
    <3>9. (-w) * (-1) = w /\ (c * c) * (i * i) \in Int /\ r * r \in Int
      BY <1>1, <2>3, <3>4, <3>5
    <3>10. r * r \cong w
      BY <1>1, <3>6, <3>7, <3>8, <3>9, Chain
    <3> QED
      BY <3>1, <3>10 DEF w
  <2> QED
    BY <2>4, <2>5
<1> QED
    BY <1>7, <1>8

LEMMA Split ==
    ASSUME NEW y \in Nat, y < 2^Bits, NEW b \in {0, 1}
    PROVE  /\ Sign(y + b * 2^Bits) = b /\ YOf(y + b * 2^Bits) = y
           /\ y + b * 2^Bits \in Encodings
<1> DEFINE S == 2^Bits
<1>1. S \in Nat \ {0} /\ y \in 0..(S - 1)
    BY PrimeAssumption
<1> HIDE DEF S
<1>2. (y + b * S) \div S = b /\ (y + b * S) % S = y
    BY <1>1
<1>3. y + b * S \in 0..(2 * S - 1)
    BY <1>1
<1> QED
    BY <1>2, <1>3 DEF Sign, YOf, Encodings, S

LEMMA Join ==
    ASSUME NEW n \in Encodings
    PROVE  /\ n \in Nat /\ YOf(n) \in Nat /\ YOf(n) < 2^Bits /\ Sign(n) \in {0, 1}
           /\ n = YOf(n) + Sign(n) * 2^Bits
<1> DEFINE S == 2^Bits
<1>1. S \in Nat \ {0}
    BY PrimeAssumption
<1>2. n \in 0..(2 * S - 1)
    BY DEF Encodings
<1> HIDE DEF S
<1>3. n \in Nat /\ n % S \in Nat /\ n % S < S /\ n = S * (n \div S) + (n % S) /\ n \div S \in Int
    BY <1>1, <1>2
<1> DEFINE k == n \div S
           r == n % S
<1>4. k \in Int /\ r \in Nat /\ r < S /\ n = S * k + r
    BY <1>3
<1> HIDE DEF k, r
<1>5. k \in {0, 1}
  <2>1. CASE k >= 2
    <3>1. S * k >= S * 2
      BY <1>1, <1>4, <2>1
    <3> QED
      BY <1>1, <1>2, <1>4, <3>1
  <2>2. CASE k <= -1
    <3>1. S * k <= S * (-1)
      BY <1>1, <1>4, <2>2
    <3> QED
      BY <1>1, <1>2, <1>4, <3>1
  <2> QED
    BY <1>4, <2>1, <2>2
<1>6. n = r + k * S
    BY <1>1, <1>4, <1>5
<1> QED
    BY <1>3, <1>4, <1>5, <1>6 DEF Sign, YOf, S, k, r

\* The other root, of the other parity.
LEMMA Opposite ==
    ASSUME NEW r \in Field, r # 0
    PROVE  /\ (P - r) % P \in Field /\ (P - r) % P = P - r /\ P - r # 0 /\ P - r \cong -r
           /\ (P - r) % 2 # r % 2 /\ r % 2 \in {0, 1} /\ (P - r) % 2 \in {0, 1}
<1>1. P \in Nat /\ P % 2 = 1 /\ P > 4 /\ r \in 1..(P - 1) /\ r \in Int
    BY Prime DEF Field
<1> DEFINE o == P - r
<1>2. o \in 1..(P - 1) /\ o \in Int /\ o \in Field
    BY <1>1 DEF Field
<1>3. o - (-r) = 1 * P
    BY <1>1
<1>4. o \cong -r
    BY <1>3 DEF \cong
<1>5. o % 2 # r % 2 /\ r % 2 \in {0, 1} /\ o % 2 \in {0, 1}
    BY <1>1
<1> HIDE DEF o
<1>6. o % P \in Field /\ o % P \in Int /\ o % P \cong o
    BY <1>2, Reduced
<1>7. o % P = o
    BY <1>2, <1>6, Unique
<1> QED
    BY <1>2, <1>4, <1>5, <1>6, <1>7 DEF o

\* The x that Decode chooses between the two roots.
Chosen(n) ==
    IF Root(YOf(n)) % 2 = Sign(n) THEN Root(YOf(n)) ELSE (P - Root(YOf(n))) % P

LEMMA DecodeIs ==
    ASSUME NEW n
    PROVE  Decode(n) =
             IF ~Canonical(n) \/ ~IsRoot(Root(YOf(n)), YOf(n)) \/ (Root(YOf(n)) = 0 /\ Sign(n) = 1)
             THEN NoPoint ELSE <<Chosen(n), YOf(n), 1, (Chosen(n) * YOf(n)) % P>>
BY DEF Decode, Chosen

\* A number that has a point is the encoding of it.
LEMMA DecodedIsEncoded ==
    ASSUME NEW n \in Encodings, Decode(n) # NoPoint
    PROVE  \E q \in Curve : Encode(q) = n /\ Decode(n) = <<q[1], q[2], 1, (q[1] * q[2]) % P>>
<1> DEFINE y == YOf(n)
           r == Root(y)
           b == Sign(n)
           x == Chosen(n)
<1>1. y \in Nat /\ b \in {0, 1} /\ n = y + b * 2^Bits
    BY Join
<1>2. y < P /\ IsRoot(r, y) /\ ~(r = 0 /\ b = 1) /\ Decode(n) = <<x, y, 1, (x * y) % P>>
    BY DecodeIs DEF Canonical
<1>3. y \in Field
    BY <1>1, <1>2, Prime DEF Field
<1>4. x = IF r % 2 = b THEN r ELSE (P - r) % P
    BY DEF Chosen
<1> HIDE DEF y, b, x
<1>5. r \in Field /\ r \in Int /\ XX(y) \in Int
    BY <1>3, RootInField, XXIs
<1>6. r * r \cong XX(y)
    BY <1>2, <1>5, IsRootMeans
<1> HIDE DEF r
<1>7. x \in Field /\ x % 2 = b /\ x * x \cong r * r
  <2>1. CASE r % 2 = b
    <3>1. x = r /\ r * r \in Int
      BY <1>4, <1>5, <2>1
    <3> QED
      BY <1>5, <2>1, <3>1, Same
  <2>2. CASE r % 2 # b
    <3>1. r # 0
      <4>1. 0 % 2 = 0
        OBVIOUS
      <4> QED
        BY <1>1, <1>2, <2>2, <4>1
    <3>2. x = P - r /\ x \in Field /\ x \cong -r /\ x % 2 # r % 2 /\ r % 2 \in {0, 1} /\ x % 2 \in {0, 1}
      BY <1>4, <1>5, <2>2, <3>1, Opposite
    <3>3. x % 2 = b
      BY <1>1, <2>2, <3>2
    <3>4. -r \in Int /\ x \in Int /\ (-r) * (-r) = r * r
      BY <1>5, <3>2, FieldIsNat
    <3>5. x * x \cong (-r) * (-r)
      BY <3>2, <3>4, Product
    <3> QED
      BY <3>2, <3>3, <3>4, <3>5
  <2> QED
    BY <2>1, <2>2
<1>8. x * x \cong XX(y)
  <2>1. x * x \in Int /\ r * r \in Int
    <3>1. x \in Int
      BY <1>7, FieldIsNat
    <3> QED
      BY <1>5, <3>1
  <2> QED
    BY <1>5, <1>6, <1>7, <2>1, Chain
<1> DEFINE q == <<x, y>>
<1>9. q \in Curve
    BY <1>3, <1>7, <1>8, CurveRoot
<1>10. q[1] = x /\ q[2] = y
    OBVIOUS
<1>11. Encode(q) = n
    BY <1>1, <1>7, <1>10 DEF Encode
<1> HIDE DEF q
<1> QED
    BY <1>2, <1>9, <1>10, <1>11

\* The encoding of a point has that point.
LEMMA EncodedIsDecoded ==
    ASSUME NEW q \in Curve
    PROVE  /\ Encode(q) \in Encodings
           /\ Decode(Encode(q)) = <<q[1], q[2], 1, (q[1] * q[2]) % P>>
<1> DEFINE x == q[1]
           y == q[2]
           b == x % 2
           n == Encode(q)
           r == Root(y)
<1>1. x \in Field /\ y \in Field /\ x \in Int /\ y \in Nat /\ y < P /\ <<x, y>> \in Curve
  <2>1. x \in Field /\ y \in Field /\ <<x, y>> \in Curve
    BY CurvePoint
  <2> QED
    BY <2>1, Prime DEF Field
<1>2. n = y + b * 2^Bits
    BY DEF Encode
<1> HIDE DEF x, y
<1>3. b \in {0, 1} /\ y < 2^Bits
    BY <1>1, Prime, PrimeAssumption
<1> HIDE DEF n
<1>4. n \in Encodings /\ Sign(n) = b /\ YOf(n) = y
  <2> HIDE DEF b
  <2> QED
    BY <1>1, <1>2, <1>3, Split
<1>5. x * x \cong XX(y)
    BY <1>1, CurveRoot
<1>6. r \in Field /\ r \in Int /\ XX(y) \in Int /\ r * r \cong XX(y)
    BY <1>1, <1>5, RootInField, RootFound, XXIs
<1>7. IsRoot(r, y) /\ Canonical(n)
    BY <1>1, <1>4, <1>6, IsRootMeans DEF Canonical
<1> HIDE DEF r
<1>8. r \cong x \/ r \cong -x
  <2>1. x * x \in Int /\ r * r \in Int
    BY <1>1, <1>6
  <2>2. r * r \cong x * x
    BY <1>5, <1>6, <2>1, Swap, Chain
  <2> QED
    BY <1>1, <1>6, <2>2, SameSquares
<1>9. r = x \/ (x # 0 /\ r # 0 /\ r = P - x)
  <2>1. CASE r \cong x
    BY <1>1, <1>6, <2>1, Unique
  <2>2. CASE r \cong -x /\ x = 0
    <3>1. r \cong x
      BY <2>2
    <3> QED
      BY <1>1, <1>6, <3>1, Unique
  <2>3. CASE r \cong -x /\ x # 0
    <3>1. P - x \in Field /\ P - x # 0 /\ P - x \cong -x
      BY <1>1, <2>3, Opposite
    <3>2. -x \in Int /\ P - x \in Int
      BY <1>1, Prime
    <3>3. r \cong P - x
      BY <1>6, <2>3, <3>1, <3>2, Swap, Chain
    <3> QED
      BY <1>6, <2>3, <3>1, <3>3, Unique
  <2> QED
    BY <1>8, <2>1, <2>2, <2>3
<1>10. ~(r = 0 /\ b = 1)
  <2>1. 0 % 2 = 0
    OBVIOUS
  <2> QED
    BY <1>9, <2>1
<1>11. (IF r % 2 = b THEN r ELSE (P - r) % P) = x
  <2>1. CASE r = x
    BY <2>1
  <2>2. CASE x # 0 /\ r # 0 /\ r = P - x
    <3>1. r % 2 # b
      BY <1>1, <2>2, Opposite
    <3>2. (P - r) % P = P - r
      BY <1>6, <2>2, Opposite
    <3>3. P - r = x
      BY <1>1, <2>2, Prime
    <3> QED
      BY <3>1, <3>2, <3>3
  <2> QED
    BY <1>9, <2>1, <2>2
<1>12. Chosen(n) = x
    BY <1>4, <1>11 DEF Chosen, r
<1> HIDE DEF b
<1>13. Decode(n) = <<x, y, 1, (x * y) % P>>
    BY <1>4, <1>7, <1>10, <1>12, DecodeIs DEF r
<1> QED
    BY <1>4, <1>13 DEF n, x, y

LEMMA DecodedIsOnCurve ==
    ASSUME NEW q \in Curve
    PROVE  LET r == <<q[1], q[2], 1, (q[1] * q[2]) % P>>
           IN  OnCurve(r) /\ Affine(r) = q
<1> DEFINE x == q[1]
           y == q[2]
           t == (x * y) % P
           r == <<x, y, 1, t>>
<1>1. x \in Field /\ y \in Field /\ x \in Int /\ y \in Int /\ q = <<x, y>> /\ <<x, y>> \in Curve
    BY CurvePoint, FieldIsNat
<1> HIDE DEF x, y
<1>2. x * y \in Int
    BY <1>1
<1>3. t \in Field /\ t \in Int /\ t \cong x * y
    BY <1>2, Reduced
<1>4. ~(1 \cong 0) /\ 1 * x = x /\ 1 * y = y /\ 1 \in Field /\ 1 * 1 = 1
    BY <1>1, FieldIsNat, Unique
<1>5. y * y - x * x \cong 1 + D * ((x * y) * (x * y))
    BY <1>1, CurveEquation
<1>6. Extended(x, y, 1, x * y)
  <2>1. x * y \cong 1 * (x * y)
    <3>1. 1 * (x * y) = x * y
      BY <1>2
    <3> QED
      BY <1>2, <3>1, Same
  <2> QED
    BY <1>1, <1>2, <1>4, <1>5, <2>1 DEF Extended
<1>7. Extended(x, y, 1, t)
  <2> HIDE DEF t
  <2>1. 1 \cong 1 /\ x \cong x /\ y \cong y
    BY <1>1, Same
  <2> QED
    BY <1>1, <1>3, <1>6, <2>1, ExtendedCongruent
<1> HIDE DEF t
<1>8. r[1] = x /\ r[2] = y /\ r[3] = 1 /\ r[4] = t /\ r \in Field \X Field \X Field \X Field
    BY <1>1, <1>3, <1>4
<1> HIDE DEF r
<1>9. OnCurve(r)
    BY <1>7, <1>8 DEF OnCurve
<1>10. 1 * x \cong x /\ 1 * y \cong y
    BY <1>1, <1>4, Same
<1>11. Div(x, 1) = x /\ Div(y, 1) = y
    BY <1>1, <1>4, <1>10, QuotientIs
<1>12. Affine(r) = q
    BY <1>1, <1>8, <1>11 DEF Affine
<1> QED
    BY <1>9, <1>12 DEF r, x, y, t

\* The comparison with (0 : 1 : 1 : 0) recognises the identity.
LEMMA IdentityIs ==
    ASSUME NEW q, OnCurve(q)
    PROVE  IsIdentity(q) <=> Affine(q) = Identity
<1> DEFINE X == q[1]
           Y == q[2]
           Z == q[3]
           x == Div(X, Z)
           y == Div(Y, Z)
<1>1. X \in Field /\ Y \in Field /\ Z \in Field
    BY DEF OnCurve
<1>2. X \in Int /\ Y \in Int /\ Z \in Int /\ ~(Z \cong 0)
    BY DEF OnCurve, Extended
<1>3. x \in Field /\ y \in Field /\ Z * x \cong X /\ Z * y \cong Y
    BY <1>2, Quotient
<1>4. IsIdentity(q) <=> X = 0 /\ (Y - Z) % P = 0
    BY DEF IsIdentity
<1>5. Affine(q) = Identity <=> x = 0 /\ y = 1
    BY DEF Affine, Identity
<1> HIDE DEF X, Y, Z, x, y
<1>6. (Y - Z) % P = 0 <=> Y \cong Z
    BY <1>2, Difference
<1>7. Z * 0 = 0 /\ Z * 1 = Z
    BY <1>2
<1>8. ASSUME X = 0, Y \cong Z PROVE x = 0 /\ y = 1
  <2>1. Z * 0 \cong X /\ Z * 1 \cong Y
    BY <1>2, <1>7, <1>8, Same, Swap
  <2> QED
    BY <1>2, <2>1, FieldIsNat, QuotientIs DEF x, y
<1>9. ASSUME x = 0, y = 1 PROVE X = 0 /\ Y \cong Z
  <2>1. 0 \cong X /\ Z \cong Y
    BY <1>3, <1>7, <1>9
  <2> QED
    BY <1>1, <1>2, <2>1, FieldIsNat, Unique, Swap
<1> QED
    BY <1>4, <1>5, <1>6, <1>8, <1>9

-----------------------------------------------------------------------------
(* The inductive invariant.  The properties speak of a point only once it  *)
(* is there; that they hold there needs where it came from, and a refusal  *)
(* needs its reason.                                                       *)

StandsFor(p, n, k) ==
    OnCurve(p) /\ \E base \in Curve : Encode(base) = n /\ Affine(p) = Times(2^k, base)

Reason ==
    \/ pub = Short
    \/ pub \in Encodings /\ Decode(pub) = NoPoint
    \/ doubled = Doublings /\ point # NoPoint /\ IsIdentity(point)

KInv ==
    /\ TypeOK
    /\ pc \in {"idle", "decode"} => point = NoPoint /\ doubled = 0
    /\ pc = "decode" => pub \in Encodings
    /\ pc = "double" => point # NoPoint
    /\ point # NoPoint => StandsFor(point, pub, doubled)
    /\ pc = "accept" => doubled = Doublings /\ point # NoPoint /\ ~IsIdentity(point)
    /\ pc = "refuse" => Reason

LEMMA PointIsNotNoPoint ==
    ASSUME NEW a, NEW b, NEW c, NEW d
    PROVE  <<a, b, c, d>> # NoPoint
<1>1. Len(<<a, b, c, d>>) = 4 /\ Len(<<>>) = 0
    OBVIOUS
<1> QED
    BY <1>1 DEF NoPoint

LEMMA InvInit == Init => KInv
BY DEF Init, KInv, TypeOK, Doublings, Reason

LEMMA InvBegin ==
    ASSUME KInv, NEW n \in Encodings \cup {Short}, Begin(n)
    PROVE  KInv'
<1>1. pc = "idle" /\ pub' = n /\ point' = point /\ doubled' = doubled
      /\ pc' = IF n = Short THEN "refuse" ELSE "decode"
    BY DEF Begin
<1>2. point = NoPoint /\ doubled = 0 /\ TypeOK
    BY <1>1 DEF KInv
<1>3. TypeOK'
    BY <1>1, <1>2 DEF TypeOK
<1> QED
    BY <1>1, <1>2, <1>3 DEF KInv, Reason

\* The decoded point is its own multiple by 1.
LEMMA InvDecode ==
    ASSUME KInv, DecodePoint
    PROVE  KInv'
<1>1. pc = "decode" /\ point' = Decode(pub) /\ pub' = pub /\ doubled' = doubled
      /\ pc' = IF Decode(pub) = NoPoint THEN "refuse" ELSE "double"
    BY DEF DecodePoint
<1>2. doubled = 0 /\ pub \in Encodings /\ TypeOK
    BY <1>1 DEF KInv
<1>3. CASE Decode(pub) = NoPoint
  <2>1. TypeOK'
    BY <1>1, <1>2, <1>3 DEF TypeOK
  <2>2. point' = NoPoint /\ pc' = "refuse"
    BY <1>1, <1>3
  <2>3. Reason'
    BY <1>1, <1>2, <1>3 DEF Reason
  <2> QED
    BY <2>1, <2>2, <2>3 DEF KInv
<1>4. CASE Decode(pub) # NoPoint
  <2>1. PICK q \in Curve : Encode(q) = pub /\ Decode(pub) = <<q[1], q[2], 1, (q[1] * q[2]) % P>>
    BY <1>2, <1>4, DecodedIsEncoded
  <2>2. OnCurve(Decode(pub)) /\ Affine(Decode(pub)) = q
    BY <2>1, DecodedIsOnCurve
  <2>3. Times(2^0, q) = q
    <3>1. 2^0 = 1
      OBVIOUS
    <3> QED
      BY <3>1, TimesOne
  <2>4. StandsFor(Decode(pub), pub, 0)
    BY <2>1, <2>2, <2>3 DEF StandsFor
  <2>5. StandsFor(point', pub', doubled')
    BY <1>1, <1>2, <2>4
  <2>6. point' \in Field \X Field \X Field \X Field /\ point' # NoPoint /\ pc' = "double"
    BY <1>1, <1>4, <2>2 DEF OnCurve
  <2>7. TypeOK'
    BY <1>1, <1>2, <2>6 DEF TypeOK
  <2> QED
    BY <2>5, <2>6, <2>7 DEF KInv
<1> QED
    BY <1>3, <1>4

\* A doubling is the group's.
LEMMA InvDouble ==
    ASSUME KInv, DoublePoint
    PROVE  KInv'
<1>1. pc = "double" /\ doubled < Doublings /\ point' = Double(point) /\ doubled' = doubled + 1
      /\ pub' = pub /\ pc' = pc
    BY DEF DoublePoint
<1>2. StandsFor(point, pub, doubled) /\ TypeOK
    BY <1>1 DEF KInv
<1>3. doubled \in 0..2
    BY <1>1, <1>2 DEF TypeOK, Doublings
<1>4. OnCurve(Double(point)) /\ Affine(Double(point)) = Plus(Affine(point), Affine(point))
    BY <1>2, DoubleDoubles DEF StandsFor
<1>5. PICK base \in Curve : Encode(base) = pub /\ Affine(point) = Times(2^doubled, base)
    BY <1>2 DEF StandsFor
<1>6. Affine(Double(point)) = Times(2^(doubled + 1), base)
    BY <1>3, <1>4, <1>5, NextMultiple
<1>7. StandsFor(Double(point), pub, doubled + 1)
    BY <1>4, <1>5, <1>6 DEF StandsFor
<1>8. StandsFor(point', pub', doubled')
    BY <1>1, <1>7
<1>9. point' # NoPoint
  <2>1. \E a, b, c, d : Double(point) = <<a, b, c, d>>
    BY DEF Double
  <2> QED
    BY <1>1, <2>1, PointIsNotNoPoint
<1>10. TypeOK'
  <2>1. point' \in Field \X Field \X Field \X Field
    BY <1>1, <1>4 DEF OnCurve
  <2>2. doubled' \in 0..Doublings
    BY <1>1, <1>3 DEF Doublings
  <2> QED
    BY <1>1, <1>2, <2>1, <2>2 DEF TypeOK
<1> QED
    BY <1>1, <1>8, <1>9, <1>10 DEF KInv

LEMMA InvJudge ==
    ASSUME KInv, Judge
    PROVE  KInv'
<1>1. pc = "double" /\ doubled = Doublings /\ pub' = pub /\ point' = point /\ doubled' = doubled
      /\ pc' = IF IsIdentity(point) THEN "refuse" ELSE "accept"
    BY DEF Judge
<1>2. point # NoPoint /\ StandsFor(point, pub, doubled) /\ TypeOK
    BY <1>1 DEF KInv
<1>3. TypeOK'
    BY <1>1, <1>2 DEF TypeOK
<1>4. StandsFor(point', pub', doubled')
    BY <1>1, <1>2
<1>5. IsIdentity(point') <=> IsIdentity(point)
    BY <1>1
<1> QED
    BY <1>1, <1>2, <1>3, <1>4, <1>5 DEF KInv, Reason

LEMMA InvReturn ==
    ASSUME KInv, Return
    PROVE  KInv'
BY DEF Return, KInv, TypeOK, Doublings

LEMMA InvStays == KInv /\ [Next]_vars => KInv'
<1>1. SUFFICES ASSUME KInv, [Next]_vars PROVE KInv'
    OBVIOUS
<1>2. CASE UNCHANGED vars
  <2>1. pub' = pub /\ pc' = pc /\ point' = point /\ doubled' = doubled
    BY <1>2 DEF vars
  <2>2. StandsFor(point', pub', doubled') <=> StandsFor(point, pub, doubled)
    BY <2>1
  <2>3. Reason' <=> Reason
    BY <2>1 DEF Reason
  <2>4. TypeOK'
    BY <1>1, <2>1 DEF KInv, TypeOK
  <2>5. IsIdentity(point') <=> IsIdentity(point)
    BY <2>1
  <2> QED
    BY <1>1, <2>1, <2>2, <2>3, <2>4, <2>5 DEF KInv
<1>3. CASE Next
    BY <1>1, <1>3, InvBegin, InvDecode, InvDouble, InvJudge, InvReturn DEF Next
<1> QED
    BY <1>1, <1>2, <1>3

LEMMA Invariant == Spec => []KInv
BY InvInit, InvStays, PTL DEF Spec

-----------------------------------------------------------------------------

\* Typing: the point is nothing or four reduced coordinates, doubled at most
\* three times.
THEOREM Typing == Spec => []TypeOK
<1>1. KInv => TypeOK
    BY DEF KInv
<1> QED
    BY <1>1, Invariant, PTL

\* Doubling: after k doublings in extended coordinates the quotients are the
\* 2^k-fold of the decoded point by the group's addition, and Z is not 0.
THEOREM Doubling == Spec => []DoublesArePoints
<1>1. KInv => DoublesArePoints
  <2> SUFFICES ASSUME KInv, point # NoPoint
               PROVE  LET q == Affine(point)
                      IN  /\ point[3] # 0
                          /\ q \in Curve
                          /\ (point[1] * point[2] - point[3] * point[4]) % P = 0
                          /\ \E base \in Curve : Encode(base) = pub /\ q = Times(2^doubled, base)
    BY DEF DoublesArePoints, Affine
  <2>1. OnCurve(point) /\ \E base \in Curve : Encode(base) = pub /\ Affine(point) = Times(2^doubled, base)
    BY DEF KInv, StandsFor
  <2>2. Affine(point) \in Curve
    BY <2>1, AffineOnCurve
  <2>3. /\ point[1] \in Int /\ point[2] \in Int /\ point[3] \in Int /\ point[4] \in Int
        /\ ~(point[3] \cong 0) /\ point[1] * point[2] \cong point[3] * point[4]
    BY <2>1 DEF OnCurve, Extended
  <2>4. point[1] * point[2] \in Int /\ point[3] * point[4] \in Int
    BY <2>3
  <2>5. (point[1] * point[2] - point[3] * point[4]) % P = 0
    BY <2>3, <2>4, Difference
  <2>6. point[3] # 0
    BY <2>3, Same
  <2> QED
    BY <2>1, <2>2, <2>5, <2>6
<1> QED
    BY <1>1, Invariant, PTL

\* Acceptance (CRYPTO-1, FRESH-1): the accepted keys are exactly the encodings
\* of the points of the curve whose eightfold is not the identity.
THEOREM Acceptance == Spec => []AcceptsExactly
<1>1. KInv => AcceptsExactly
  <2> SUFFICES ASSUME KInv PROVE AcceptsExactly
    OBVIOUS
  <2>1. \A q \in Curve : Encode(q) # Short
    <3>1. \A n \in Encodings : n \in Nat
      BY Join
    <3> QED
      BY <3>1, EncodedIsDecoded, ShortAssumption
  <2>2. ASSUME doubled = Doublings, point # NoPoint
        PROVE  \E q \in Curve : pub = Encode(q) /\ (Times(8, q) = Identity <=> IsIdentity(point))
    <3>1. OnCurve(point) /\ \E q \in Curve : Encode(q) = pub /\ Affine(point) = Times(2^doubled, q)
      BY <2>2 DEF KInv, StandsFor
    <3>2. 2^doubled = 8
      <4>1. 2^3 = 8
        OBVIOUS
      <4> QED
        BY <2>2, <4>1 DEF Doublings
    <3>3. IsIdentity(point) <=> Affine(point) = Identity
      BY <3>1, IdentityIs
    <3> QED
      BY <3>1, <3>2, <3>3
  <2>3. ASSUME NEW q \in Curve, NEW r \in Curve, Encode(q) = Encode(r)
        PROVE  q = r
    <3>1. /\ Decode(Encode(q)) = <<q[1], q[2], 1, (q[1] * q[2]) % P>>
          /\ Decode(Encode(r)) = <<r[1], r[2], 1, (r[1] * r[2]) % P>>
      BY EncodedIsDecoded
    <3>2. q[1] = r[1] /\ q[2] = r[2]
      BY <2>3, <3>1
    <3> QED
      BY <3>2, CurvePoint
  <2>4. ASSUME pc = "accept"
        PROVE  \E q \in Curve : pub = Encode(q) /\ Times(8, q) # Identity
    <3>1. doubled = Doublings /\ point # NoPoint /\ ~IsIdentity(point)
      BY <2>4 DEF KInv
    <3> QED
      BY <2>2, <3>1
  <2>5. ASSUME pc = "refuse", NEW q \in Curve, pub = Encode(q)
        PROVE  Times(8, q) = Identity
    <3>1. Reason
      BY <2>5 DEF KInv
    <3>2. pub # Short /\ Decode(pub) # NoPoint
      BY <2>1, <2>5, EncodedIsDecoded, PointIsNotNoPoint
    <3>3. doubled = Doublings /\ point # NoPoint /\ IsIdentity(point)
      BY <3>1, <3>2 DEF Reason
    <3>4. PICK r \in Curve : pub = Encode(r) /\ Times(8, r) = Identity
      BY <2>2, <3>3
    <3> QED
      BY <2>3, <2>5, <3>4
  <2> QED
    BY <2>4, <2>5 DEF AcceptsExactly
<1> QED
    BY <1>1, Invariant, PTL
=============================================================================

--------------------------- MODULE CaveatsProofs ---------------------------
(***************************************************************************)
(* Proofs about Caveats.tla, for calls with any caveats, requests and      *)
(* approvals that InputAssumption admits, and floats of any precision.     *)
(*                                                                         *)
(* The loop keeps two facts: every caveat before i evaluated to "ok", and  *)
(* `used` holds, in the order of the gates before i, the nonce of the      *)
(* first approval accepted for each.  What success and refusal say follows *)
(* from what one turn of the loop demands, and the cap also from how       *)
(* float() rounds.                                                         *)
(***************************************************************************)
EXTENDS Caveats, FiniteSetTheorems, WellFoundedInduction, TLAPS

(* Least elements. *)

LEMMA LeastIsIn ==
    ASSUME NEW S, S \subseteq Nat, S # {}
    PROVE  \E k \in S : \A m \in S : k <= m
<1> DEFINE Less == OpToRel(<, Nat)
<1>1. \A k, m \in Nat : m < k => <<m, k>> \in Less
  BY DEF OpToRel
<1>2. IsWellFoundedOn(Less, Nat)
  BY NatLessThanWellFounded
<1> HIDE DEF Less
<1>3. \E k \in S : \A m \in S : ~(<<m, k>> \in Less)
  BY <1>2, WFMin
<1>4. PICK k \in S : \A m \in S : ~(<<m, k>> \in Less)
  BY <1>3
<1>5. ASSUME NEW m \in S PROVE k <= m
  <2>1. k \in Nat /\ m \in Nat /\ ~(m < k)
    BY <1>1, <1>4, Zenon
  <2> QED BY <2>1
<1> QED BY <1>5

-----------------------------------------------------------------------------
(* Powers of two.  A recursive function is its equation only where one     *)
(* exists: partial functions exist up to every n and agree where they meet. *)

Doubles(f, n) ==
    /\ f \in [0..n -> Nat \ {0}] /\ f[0] = 1
    /\ \A e \in 1..n : f[e] = 2 * f[e - 1]

LEMMA DoublingExists == \A n \in Nat : \E f : Doubles(f, n)
<1> DEFINE Bad == {n \in Nat : ~\E f : Doubles(f, n)}
<1>1. SUFFICES ASSUME Bad # {} PROVE FALSE
    OBVIOUS
<1>2. PICK n \in Bad : \A m \in Bad : n <= m
    BY <1>1, LeastIsIn
<1>3. n # 0
  <2> DEFINE f == [e \in 0..0 |-> 1]
  <2>1. Doubles(f, 0)
    BY DEF Doubles
  <2> QED
    BY <1>2, <2>1
<1>4. n - 1 \in Nat /\ n - 1 \notin Bad
    BY <1>2, <1>3
<1>5. PICK f : Doubles(f, n - 1)
    BY <1>4
<1> DEFINE g == [e \in 0..n |-> IF e = n THEN 2 * f[n - 1] ELSE f[e]]
<1>6. Doubles(g, n)
  <2>1. f[n - 1] \in Nat \ {0} /\ \A e \in 0..(n - 1) : f[e] \in Nat \ {0}
    BY <1>4, <1>5 DEF Doubles
  <2>2. g \in [0..n -> Nat \ {0}]
    BY <2>1, <1>4
  <2>3. g[0] = 1
    BY <1>3, <1>4, <1>5 DEF Doubles
  <2>4. ASSUME NEW e \in 1..n PROVE g[e] = 2 * g[e - 1]
    <3>1. e - 1 \in 0..n /\ e - 1 # n /\ e \in 0..n
      BY <1>4
    <3>2. g[e - 1] = f[e - 1]
      BY <3>1
    <3>3. CASE e = n
      BY <3>1, <3>2, <3>3
    <3>4. CASE e # n
      <4>1. e \in 1..(n - 1)
        BY <3>4, <1>4
      <4> QED
        BY <4>1, <3>1, <3>2, <3>4, <1>5 DEF Doubles
    <3> QED
      BY <3>3, <3>4
  <2> HIDE DEF g
  <2> QED
    BY <2>2, <2>3, <2>4 DEF Doubles
<1> QED
    BY <1>2, <1>6

LEMMA DoublingAgrees ==
    ASSUME NEW n \in Nat, NEW m \in Nat, NEW f, NEW g, Doubles(f, n), Doubles(g, m)
    PROVE  \A e \in (0..n) \cap (0..m) : f[e] = g[e]
<1> DEFINE Bad == {e \in (0..n) \cap (0..m) : f[e] # g[e]}
<1>1. SUFFICES ASSUME Bad # {} PROVE FALSE
    OBVIOUS
<1>2. PICK e \in Bad : \A d \in Bad : e <= d
  <2>1. Bad \subseteq Nat
    OBVIOUS
  <2> QED
    BY <1>1, <2>1, LeastIsIn
<1>3. e # 0
    BY <1>2 DEF Doubles
<1>4. e - 1 \in (0..n) \cap (0..m) /\ e \in 1..n /\ e \in 1..m
    BY <1>2, <1>3
<1>5. f[e - 1] = g[e - 1]
    BY <1>2, <1>4
<1> QED
    BY <1>2, <1>4, <1>5 DEF Doubles

LEMMA PowerOfTwo == \A n \in Nat : pow2[n] = IF n = 0 THEN 1 ELSE 2 * pow2[n - 1]
<1> DEFINE F(n) == CHOOSE f : Doubles(f, n)
           G == [n \in Nat |-> F(n)[n]]
<1>1. \A n \in Nat : Doubles(F(n), n)
    BY DoublingExists
<1>2. ASSUME NEW n \in Nat PROVE G[n] = IF n = 0 THEN 1 ELSE 2 * G[n - 1]
  <2> HIDE DEF F
  <2>1. CASE n = 0
    BY <1>1, <2>1 DEF Doubles
  <2>2. CASE n # 0
    <3>1. n - 1 \in Nat /\ n \in 1..n /\ n - 1 \in (0..n) \cap (0..(n - 1))
      BY <2>2
    <3>2. F(n)[n] = 2 * F(n)[n - 1]
      BY <1>1, <3>1 DEF Doubles
    <3>3. F(n)[n - 1] = F(n - 1)[n - 1]
      BY <1>1, <3>1, DoublingAgrees
    <3> QED
      BY <2>2, <3>1, <3>2, <3>3
  <2> QED
    BY <2>1, <2>2
<1>3. G = [n \in Nat |-> IF n = 0 THEN 1 ELSE 2 * G[n - 1]]
  <2> HIDE DEF F
  <2>1. G = [n \in Nat |-> G[n]]
    OBVIOUS
  <2> HIDE DEF G
  <2> QED
    BY <1>2, <2>1
<1>4. pow2 = [n \in Nat |-> IF n = 0 THEN 1 ELSE 2 * pow2[n - 1]]
  <2> HIDE DEF G
  <2> QED
    BY <1>3, Zenon DEF pow2
<1> QED
    BY <1>4

LEMMA PowersArePositive == \A n \in Nat : pow2[n] \in Nat \ {0}
<1> DEFINE Bad == {n \in Nat : pow2[n] \notin Nat \ {0}}
<1>1. SUFFICES ASSUME Bad # {} PROVE FALSE
    OBVIOUS
<1>2. PICK n \in Bad : \A m \in Bad : n <= m
    BY <1>1, LeastIsIn
<1>3. n # 0
    BY <1>2, PowerOfTwo
<1>4. n - 1 \in Nat /\ pow2[n - 1] \in Nat \ {0}
    BY <1>2, <1>3
<1>5. pow2[n] = 2 * pow2[n - 1]
    BY <1>2, <1>3, PowerOfTwo
<1>6. pow2[n] \in Nat \ {0}
    BY <1>4, <1>5
<1> QED
    BY <1>2, <1>6

LEMMA PowersAreEven ==
    ASSUME NEW n \in Nat, n # 0
    PROVE  /\ n - 1 \in Nat /\ pow2[n - 1] \in Nat \ {0}
           /\ pow2[n] = 2 * pow2[n - 1] /\ pow2[n] \div 2 = pow2[n - 1]
<1>1. n - 1 \in Nat
    OBVIOUS
<1>2. pow2[n - 1] \in Nat \ {0}
    BY <1>1, PowersArePositive
<1>3. pow2[n] = 2 * pow2[n - 1]
    BY PowerOfTwo
<1>4. \A p \in Nat : (2 * p) \div 2 = p
    OBVIOUS
<1> QED
    BY <1>1, <1>2, <1>3, <1>4

-----------------------------------------------------------------------------
(* float() of an integer. *)

\* The distance between floats around n is one for the integers a float has
\* digits for, and otherwise one that half of it is too short for.
LEMMA UlpFits ==
    ASSUME NEW n \in Nat, n < pow2[MaxExp] * pow2[Precision]
    PROVE  \/ Ulp(n) = 1 /\ n < pow2[Precision]
           \/ \E h \in Nat \ {0} : Ulp(n) = 2 * h /\ n >= h * pow2[Precision]
<1> DEFINE Fits(u) == n < u * pow2[Precision]
           Fitting == {e \in 0..MaxExp : Fits(pow2[e])}
           Right(u) == Fits(u) /\ (u = 1 \/ ~Fits(u \div 2))
           Steps == {pow2[e] : e \in 0..MaxExp}
<1>1. Precision \in Nat /\ MaxExp \in Nat /\ pow2[Precision] \in Nat \ {0}
    BY FloatAssumption, PowersArePositive
<1>2. MaxExp \in Fitting /\ Fitting \subseteq Nat
    BY <1>1
<1>3. PICK e \in Fitting : \A d \in Fitting : e <= d
    BY <1>2, LeastIsIn
<1>4. Right(pow2[e])
  <2>1. CASE e = 0
    BY <1>3, <2>1, PowerOfTwo
  <2>2. CASE e # 0
    <3>1. e \in Nat /\ pow2[e] \div 2 = pow2[e - 1]
      BY <1>1, <1>3, <2>2, PowersAreEven
    <3>2. e - 1 \in 0..MaxExp /\ e - 1 \notin Fitting
      BY <1>1, <1>3, <2>2
    <3> QED
      BY <1>3, <3>1, <3>2
  <2> QED
    BY <2>1, <2>2
<1>5. Ulp(n) = CHOOSE u \in Steps : Right(u)
    BY DEF Ulp
<1>6. Ulp(n) \in Steps /\ Right(Ulp(n))
  <2> HIDE DEF Right, Steps
  <2>1. \E u \in Steps : Right(u)
    BY <1>3, <1>4 DEF Steps
  <2> QED
    BY <1>5, <2>1
<1>7. PICK d \in 0..MaxExp : Ulp(n) = pow2[d]
    BY <1>6
<1>8. CASE Ulp(n) = 1
    BY <1>6, <1>8, <1>1
<1>9. CASE Ulp(n) # 1
  <2>1. d \in Nat /\ d # 0
    BY <1>7, <1>9, <1>1, PowerOfTwo
  <2>2. /\ pow2[d - 1] \in Nat \ {0} /\ Ulp(n) = 2 * pow2[d - 1]
        /\ Ulp(n) \div 2 = pow2[d - 1]
    BY <1>7, <2>1, PowersAreEven
  <2>3. ~(n < pow2[d - 1] * pow2[Precision])
    BY <1>6, <1>9, <2>2
  <2>4. \A a, b \in Int : ~(a < b) => a >= b
    OBVIOUS
  <2>5. pow2[d - 1] * pow2[Precision] \in Int
    BY <1>1, <2>2
  <2>6. n >= pow2[d - 1] * pow2[Precision]
    BY <2>3, <2>4, <2>5
  <2> QED
    BY <2>2, <2>6
<1> QED
    BY <1>8, <1>9

\* What has digits is kept; what has not stays outside their range.
LEMMA NearestKeeps ==
    ASSUME NEW n \in Int, Abs(n) < pow2[MaxExp] * pow2[Precision]
    PROVE  /\ Abs(n) < pow2[Precision] => Nearest(n) = n
           /\ n >= pow2[Precision] => Nearest(n) \in Int /\ Nearest(n) >= pow2[Precision]
<1> DEFINE a == Abs(n)
           B == pow2[Precision]
           u == Ulp(a)
           q == a \div u
           r == a % u
           m == IF 2 * r > u \/ (2 * r = u /\ q % 2 = 1) THEN (q + 1) * u ELSE q * u
<1>1. a \in Nat /\ (n >= 0 => a = n) /\ (n < 0 => n = -a)
    BY DEF Abs
<1>2. Nearest(n) = IF n < 0 THEN -m ELSE m
    BY DEF Nearest
<1>3. PICK half \in Nat \ {0} : B = 2 * half
    BY FloatAssumption, PowersAreEven
<1>4. \/ u = 1 /\ a < B
      \/ \E h \in Nat \ {0} : u = 2 * h /\ a >= h * B
    BY <1>1, UlpFits
<1> HIDE DEF a, B, u
<1>5. CASE u = 1 /\ a < B
  <2>1. q = a /\ r = 0
    BY <1>1, <1>5
  <2>2. m = a
    BY <1>1, <1>5, <2>1
  <2> QED
    BY <1>1, <1>2, <1>3, <1>5, <2>2 DEF B, a
<1>6. ASSUME NEW h \in Nat \ {0}, u = 2 * h, a >= h * B
      PROVE  m \in Int /\ m >= B /\ a >= B
  <2>1. a >= half * u
    BY <1>1, <1>3, <1>6
  <2>2. q \in Nat /\ q >= half
    <3>1. u \in Nat \ {0}
      BY <1>6
    <3>2. a = u * q + r /\ q \in Nat /\ r \in 0..(u - 1)
      BY <3>1, <1>1
    <3>3. \A x \in Int : x + 1 <= half => x * u + u <= half * u
      BY <3>1, <1>3
    <3> HIDE DEF q, r
    <3>4. CASE q < half
      BY <3>1, <3>2, <3>3, <3>4, <2>1, <1>1, <1>3
    <3> QED
      BY <3>2, <3>4, <1>3
  <2> HIDE DEF q, r
  <2>3. q * u >= B /\ (q + 1) * u >= q * u /\ q * u \in Int /\ (q + 1) * u \in Int
    BY <2>2, <1>3, <1>6
  <2>4. h * B >= B /\ B \in Nat /\ h * B \in Nat
    BY <1>3
  <2> QED
    BY <2>3, <2>4, <1>6, <1>1
<1>7. CASE \E h \in Nat \ {0} : u = 2 * h /\ a >= h * B
  <2>1. m \in Int /\ m >= B /\ a >= B
    BY <1>6, <1>7
  <2> HIDE DEF m
  <2> QED
    BY <1>1, <1>2, <1>3, <2>1 DEF a, B
<1> QED
    BY <1>4, <1>5, <1>7

\* Rounding an amount does not carry it across a limit with digits for it.
LEMMA RoundingKeepsSide ==
    ASSUME NEW n \in Int, ~TooLarge(n), NEW limit \in Int, Abs(limit) < pow2[Precision],
           Nearest(n) <= limit
    PROVE  n <= limit
<1>1. Abs(n) < pow2[MaxExp] * pow2[Precision]
    BY FloatAssumption, PowersArePositive DEF TooLarge, Abs
<1>2. pow2[Precision] \in Nat
    BY FloatAssumption, PowersArePositive
<1>3. CASE Abs(n) < pow2[Precision]
    BY <1>1, <1>3, NearestKeeps
<1>4. CASE n >= pow2[Precision]
    BY <1>1, <1>2, <1>4, NearestKeeps DEF Abs
<1>5. CASE n <= -pow2[Precision]
    BY <1>2, <1>5 DEF Abs
<1> QED
    BY <1>2, <1>3, <1>4, <1>5 DEF Abs

-----------------------------------------------------------------------------
(* The loop of evaluate.  The arguments are those of a call, or there is   *)
(* no call.                                                                *)

IsSequence(s) == s \in Seq({s[k] : k \in DOMAIN s})

Given ==
    /\ outcome # "idle" =>
          \E in \in Inputs : /\ in.caveats = caveats /\ in.request = request /\ in.at = at
                             /\ approvals \in {in.approvals, [list |-> <<>>]}
    /\ outcome = "idle" => caveats = <<>> /\ used = <<>> /\ i = 1

Places ==
    /\ IsSequence(caveats) /\ IsSequence(used) /\ i \in 1..(Len(caveats) + 1)
    /\ outcome \in {"idle", "running", "ok", "CaveatError", "TypeError", "OverflowError"}

\* The caveats before i are satisfied, and the exception is that of the one at i.
Passed ==
    /\ outcome \in {"running", "ok"} =>
          Is(approvals, "list") /\ \A k \in 1..(i - 1) : EvalOne(caveats[k]) = "ok"
    /\ outcome = "ok" => i > Len(caveats)
    /\ Refused /\ Is(approvals, "list") => i <= Len(caveats) /\ EvalOne(caveats[i]) = outcome

\* The n-th nonce is of the first approval accepted for the n-th gate.
Noted ==
    /\ Len(used) = Cardinality(GatesUpTo(i - 1))
    /\ \A n \in 1..(i - 1) : IsGate(caveats[n]) =>
          used[Cardinality(GatesUpTo(n))]
              = NonceOf(approvals.list[First(Accepted(caveats[n]))].map)

Inv == Given /\ Places /\ Passed /\ Noted

LEMMA SequenceOf ==
    ASSUME NEW S, NEW s \in Seq(S)
    PROVE  IsSequence(s)
<1>1. s = [k \in 1..Len(s) |-> s[k]] /\ DOMAIN s = 1..Len(s) /\ Len(s) \in Nat
    OBVIOUS
<1> QED
    BY <1>1 DEF IsSequence

LEMMA Appended ==
    ASSUME NEW s, IsSequence(s), NEW x
    PROVE  /\ IsSequence(s \o <<x>>) /\ Len(s \o <<x>>) = Len(s) + 1
           /\ (s \o <<x>>)[Len(s) + 1] = x
           /\ \A k \in 1..Len(s) : (s \o <<x>>)[k] = s[k]
<1> DEFINE S == {s[k] : k \in DOMAIN s} \cup {x}
<1>1. s \in Seq(S) /\ <<x>> \in Seq(S) /\ Len(<<x>>) = 1 /\ <<x>>[1] = x
  <2>1. s = [k \in 1..Len(s) |-> s[k]] /\ DOMAIN s = 1..Len(s) /\ Len(s) \in Nat
    BY DEF IsSequence
  <2> QED
    BY <2>1
<1> HIDE DEF S
<1>2. s \o <<x>> \in Seq(S)
    BY <1>1
<1>3. IsSequence(s \o <<x>>)
    BY <1>2, SequenceOf
<1> QED
    BY <1>1, <1>3

\* The gates up to n are counted, one at a time.
LEMMA GatesCounted ==
    ASSUME NEW n \in Nat
    PROVE  /\ IsFiniteSet(GatesUpTo(n)) /\ Cardinality(GatesUpTo(n)) \in 0..n
           /\ Cardinality(GatesUpTo(n + 1))
                = Cardinality(GatesUpTo(n)) + (IF IsGate(caveats[n + 1]) THEN 1 ELSE 0)
<1>1. IsFiniteSet(1..n) /\ Cardinality(1..n) = n
    BY FS_Interval
<1>2. GatesUpTo(n) \in SUBSET (1..n)
    BY DEF GatesUpTo
<1>3. IsFiniteSet(GatesUpTo(n)) /\ Cardinality(GatesUpTo(n)) <= n
    BY <1>1, <1>2, FS_Subset
<1>4. Cardinality(GatesUpTo(n)) \in Nat
    BY <1>3, FS_CardinalityType
<1>5. CASE IsGate(caveats[n + 1])
  <2>1. GatesUpTo(n + 1) = GatesUpTo(n) \cup {n + 1} /\ n + 1 \notin GatesUpTo(n)
    BY <1>5 DEF GatesUpTo
  <2> QED
    BY <1>3, <1>4, <1>5, <2>1, FS_AddElement
<1>6. CASE ~IsGate(caveats[n + 1])
  <2>1. GatesUpTo(n + 1) = GatesUpTo(n)
    BY <1>6 DEF GatesUpTo
  <2> QED
    BY <1>3, <1>4, <1>6, <2>1
<1> QED
    BY <1>5, <1>6

LEMMA GateHasPlace ==
    ASSUME NEW n \in Nat, NEW m \in 1..n, IsGate(caveats[m])
    PROVE  Cardinality(GatesUpTo(m)) \in 1..Cardinality(GatesUpTo(n))
<1>1. m \in Nat /\ m - 1 \in Nat /\ (m - 1) + 1 = m
    OBVIOUS
<1>2. Cardinality(GatesUpTo(m)) = Cardinality(GatesUpTo(m - 1)) + 1
    BY <1>1, GatesCounted
<1>3. Cardinality(GatesUpTo(m - 1)) \in Nat
    BY <1>1, GatesCounted
<1>4. GatesUpTo(m) \in SUBSET GatesUpTo(n)
    BY DEF GatesUpTo
<1>5. Cardinality(GatesUpTo(m)) <= Cardinality(GatesUpTo(n))
    BY <1>4, GatesCounted, FS_Subset
<1>6. Cardinality(GatesUpTo(n)) \in Nat
    BY GatesCounted
<1> QED
    BY <1>2, <1>3, <1>5, <1>6

\* A turn of the loop ends in "ok" or in one of three exceptions.
LEMMA Verdicts ==
    ASSUME NEW cav
    PROVE  /\ EvalOne(cav) \in {"ok", "CaveatError", "TypeError", "OverflowError"}
           /\ EvalOne(cav) = "ok" <=>
                Is(Args, "map") /\ ~TypeErrors(cav) /\ ~Overflows(cav) /\ Holds(cav)
BY DEF EvalOne

LEMMA InitInv == Init => Inv
<1> SUFFICES ASSUME Init PROVE Inv
    OBVIOUS
<1>1. IsSequence(caveats) /\ IsSequence(used) /\ Len(caveats) = 0 /\ Len(used) = 0
  <2>1. <<>> \in Seq({}) /\ Len(<<>>) = 0
    OBVIOUS
  <2> QED
    BY <2>1, SequenceOf DEF Init
<1>2. GatesUpTo(i - 1) = {}
    BY DEF Init, GatesUpTo
<1> QED
    BY <1>1, <1>2, FS_EmptySet DEF Init, Inv, Given, Places, Passed, Noted, Refused

\* What a turn reads is settled by the arguments.
LEMMA SameCall ==
    ASSUME UNCHANGED <<caveats, request, approvals, at>>
    PROVE  /\ \A n : GatesUpTo(n)' = GatesUpTo(n)
           /\ \A cav : Accepted(cav)' = Accepted(cav)
           /\ \A cav : EvalOne(cav)' = EvalOne(cav)
<1>1. Args' = Args
    BY DEF Args
<1>2. \A f : Keyed(f)' = Keyed(f)
    BY <1>1 DEF Keyed
<1>3. \A f : Arg(f)' = Arg(f)
  <2> TAKE f
  <2> DEFINE Any(S) == CHOOSE k \in S : TRUE
  <2>1. Arg(f) = IF Keyed(f) = {} THEN None ELSE Args.map[Any(Keyed(f))]
    BY DEF Arg
  <2>2. Arg(f)' = IF Keyed(f)' = {} THEN None ELSE Args'.map[Any(Keyed(f)')]
    BY DEF Arg, None
  <2> HIDE DEF Any
  <2> QED
    BY <1>1, <1>2, <2>1, <2>2
<1>4. \A cav : Named(cav)' = Named(cav)
    BY DEF Named
<1>5. \A cav : Unreadable(cav)' = Unreadable(cav)
    BY <1>4 DEF Unreadable
<1>6. \A exp : InForce(exp)' <=> InForce(exp)
    BY DEF InForce
<1>7. \A cav, a : SignedFor(cav, a)' <=> SignedFor(cav, a)
    BY DEF SignedFor
<1>8. \A cav : Accepted(cav)' = Accepted(cav)
    BY <1>4, <1>6, <1>7 DEF Accepted
<1>9. \A cav : OpIn(cav)' <=> OpIn(cav)
    BY DEF OpIn
<1>10. \A cav : Prefix(cav)' <=> Prefix(cav)
    BY DEF Prefix
<1>11. \A cav : MaxAmount(cav)' <=> MaxAmount(cav)
    BY <1>2, <1>3 DEF MaxAmount
<1>12. \A cav : ArgIn(cav)' <=> ArgIn(cav)
    BY <1>3 DEF ArgIn
<1>13. \A cav : Holds(cav)' <=> Holds(cav)
    BY <1>8, <1>9, <1>10, <1>11, <1>12 DEF Holds
<1>14. \A cav : Overflows(cav)' <=> Overflows(cav)
    BY <1>3, <1>5, <1>8 DEF Overflows
<1>15. \A cav : EvalOne(cav)' = EvalOne(cav)
    BY <1>1, <1>13, <1>14 DEF EvalOne
<1>16. \A n : GatesUpTo(n)' = GatesUpTo(n)
    BY DEF GatesUpTo
<1> QED
    BY <1>8, <1>15, <1>16

LEMMA BeginInv ==
    ASSUME Inv, NEW in \in Inputs, Begin(in.caveats, in.request, in.approvals, in.at)
    PROVE  Inv'
<1>1. /\ outcome = "idle" /\ caveats' = in.caveats /\ request' = in.request /\ at' = in.at
      /\ approvals' \in {in.approvals, [list |-> <<>>]}
      /\ outcome' = IF Is(approvals', "list") THEN "running" ELSE "CaveatError"
      /\ i' = i /\ used' = used /\ i = 1 /\ used = <<>>
    BY DEF Begin, Inv, Given
<1>2. IsSequence(caveats') /\ Len(caveats') \in Nat
    BY <1>1, InputAssumption DEF IsSequence
<1>3. Given'
    BY <1>1 DEF Given
<1>4. Places'
    BY <1>1, <1>2 DEF Places, Inv
<1>5. Passed'
    BY <1>1 DEF Passed, Refused
<1>6. Noted'
  <2>1. GatesUpTo(i - 1)' = {} /\ Len(used') = 0 /\ 1..(i' - 1) = {}
    BY <1>1 DEF GatesUpTo
  <2> QED
    BY <2>1, FS_EmptySet DEF Noted
<1> QED
    BY <1>3, <1>4, <1>5, <1>6 DEF Inv

LEMMA EvalNextInv ==
    ASSUME Inv, EvalNext
    PROVE  Inv'
<1> DEFINE cav == caveats[i]
           nonce == NonceOf(approvals.list[First(Accepted(cav))].map)
<1>1. /\ outcome = "running" /\ i \in 1..Len(caveats) /\ Len(caveats) \in Nat /\ Len(used) \in Nat
      /\ UNCHANGED <<caveats, request, approvals, at>>
  <2>1. \A s : IsSequence(s) => Len(s) \in Nat
      BY DEF IsSequence
  <2> QED
      BY <2>1 DEF EvalNext, Inv, Places
<1>2. /\ \A n : GatesUpTo(n)' = GatesUpTo(n)
      /\ \A c : Accepted(c)' = Accepted(c)
      /\ \A c : EvalOne(c)' = EvalOne(c)
    BY <1>1, SameCall
<1>3. i - 1 \in Nat /\ (i - 1) + 1 = i /\ (i + 1) - 1 = i
    BY <1>1
<1>4. /\ Is(approvals, "list") /\ \A k \in 1..(i - 1) : EvalOne(caveats[k]) = "ok"
      /\ IsSequence(caveats) /\ IsSequence(used)
    BY <1>1 DEF Inv, Passed, Places
<1>5. /\ Len(used) = Cardinality(GatesUpTo(i - 1))
      /\ Cardinality(GatesUpTo(i))
           = Cardinality(GatesUpTo(i - 1)) + (IF IsGate(cav) THEN 1 ELSE 0)
    BY <1>3, GatesCounted DEF Inv, Noted
<1>6. CASE EvalOne(cav) = "ok"
  <2>1. /\ used' = (IF IsGate(cav) THEN used \o <<nonce>> ELSE used)
        /\ i' = i + 1 /\ outcome' = outcome
    BY <1>6 DEF EvalNext, IsGate, Takes
  <2>2. Given'
    BY <1>1, <2>1 DEF Inv, Given
  <2>3. IsSequence(used')
    BY <1>4, <2>1, Appended
  <2>4. Places'
    BY <1>1, <1>4, <2>1, <2>3 DEF Places
  <2>5. Passed'
    <3>1. \A k \in 1..i : EvalOne(caveats[k]) = "ok"
      BY <1>1, <1>4, <1>6
    <3>2. \A k \in 1..(i' - 1) : EvalOne(caveats[k])' = "ok"
      BY <1>1, <1>2, <1>3, <2>1, <3>1
    <3> QED
      BY <1>1, <1>4, <2>1, <3>2 DEF Passed, Refused
  <2>6. Noted'
    <3>1. GatesUpTo(i - 1)' = GatesUpTo(i)
      BY <1>2, <1>3, <2>1
    <3>2. Len(used') = Cardinality(GatesUpTo(i))
      BY <1>4, <1>5, <2>1, Appended
    <3>3. ASSUME NEW n \in 1..i, IsGate(caveats[n])
          PROVE  used'[Cardinality(GatesUpTo(n))]
                     = NonceOf(approvals.list[First(Accepted(caveats[n]))].map)
      <4>1. CASE n = i
        <5>1. Cardinality(GatesUpTo(n)) = Len(used) + 1
          BY <1>5, <3>3, <4>1
        <5> QED
          BY <1>4, <2>1, <3>3, <4>1, <5>1, Appended
      <4>2. CASE n # i
        <5>1. n \in 1..(i - 1)
          BY <1>1, <4>2
        <5>2. Cardinality(GatesUpTo(n)) \in 1..Len(used)
          BY <1>3, <1>5, <3>3, <5>1, GateHasPlace
        <5>3. used'[Cardinality(GatesUpTo(n))] = used[Cardinality(GatesUpTo(n))]
          BY <1>4, <2>1, <5>2, Appended
        <5> QED
          BY <3>3, <5>1, <5>3 DEF Inv, Noted
      <4> QED
        BY <4>1, <4>2
    <3> QED
      BY <1>1, <1>2, <1>3, <2>1, <3>1, <3>2, <3>3 DEF Noted, IsGate
  <2> QED
    BY <2>2, <2>4, <2>5, <2>6 DEF Inv
<1>7. CASE EvalOne(cav) # "ok"
  <2>1. /\ used' = used /\ i' = i /\ outcome' = EvalOne(cav)
        /\ outcome' \in {"CaveatError", "TypeError", "OverflowError"}
    BY <1>7, Verdicts DEF EvalNext
  <2>2. Given'
    BY <1>1, <2>1 DEF Inv, Given
  <2>3. Places'
    BY <1>1, <1>4, <2>1 DEF Places
  <2>4. Passed'
    <3>1. EvalOne(caveats[i])' = EvalOne(caveats[i])
      BY <1>1, <1>2, <2>1
    <3> QED
      BY <1>1, <2>1, <3>1 DEF Passed, Refused
  <2>5. Noted'
    <3>1. GatesUpTo(i - 1)' = GatesUpTo(i - 1)
      BY <1>2, <2>1
    <3> QED
      BY <1>1, <1>2, <2>1, <3>1 DEF Inv, Noted, IsGate
  <2> QED
    BY <2>2, <2>3, <2>4, <2>5 DEF Inv
<1> QED
    BY <1>6, <1>7

LEMMA SatisfiedInv ==
    ASSUME Inv, Satisfied
    PROVE  Inv'
<1>1. /\ UNCHANGED <<caveats, request, approvals, at, i, used>>
      /\ outcome = "running" /\ outcome' = "ok" /\ i > Len(caveats)
    BY DEF Satisfied
<1>2. /\ \A n : GatesUpTo(n)' = GatesUpTo(n)
      /\ \A c : Accepted(c)' = Accepted(c)
      /\ \A c : EvalOne(c)' = EvalOne(c)
    BY <1>1, SameCall
<1>3. Given' /\ Places'
    BY <1>1 DEF Inv, Given, Places
<1>4. Passed'
    BY <1>1, <1>2 DEF Inv, Passed, Refused
<1>5. Noted'
    BY <1>1, <1>2 DEF Inv, Noted, IsGate
<1> QED
    BY <1>3, <1>4, <1>5 DEF Inv

LEMMA NextInv ==
    ASSUME Inv, [Next]_vars
    PROVE  Inv'
<1>1. ASSUME NEW in \in Inputs, Begin(in.caveats, in.request, in.approvals, in.at)
      PROVE  Inv'
    BY <1>1, BeginInv
<1>2. CASE EvalNext
    BY <1>2, EvalNextInv
<1>3. CASE Satisfied
    BY <1>3, SatisfiedInv
<1>4. CASE Return
  <2>1. Init'
    BY <1>4 DEF Return, Init
  <2> QED
    BY <2>1, InitInv, PTL
<1>5. CASE UNCHANGED vars
  <2>1. /\ UNCHANGED <<caveats, request, approvals, at>>
        /\ i' = i /\ used' = used /\ outcome' = outcome
    BY <1>5 DEF vars
  <2>2. /\ \A n : GatesUpTo(n)' = GatesUpTo(n)
        /\ \A c : Accepted(c)' = Accepted(c)
        /\ \A c : EvalOne(c)' = EvalOne(c)
    BY <2>1, SameCall
  <2> QED
    BY <2>1, <2>2 DEF Inv, Given, Places, Passed, Noted, Refused, IsGate
<1> QED
    BY <1>1, <1>2, <1>3, <1>4, <1>5 DEF Next

\* The loop invariant of evaluate: every caveat before i is satisfied, and the
\* nonces noted are those of the gates before i.
THEOREM Invariance == Spec => []Inv
<1>1. Init => Inv
    BY InitInv
<1>2. Inv /\ [Next]_vars => Inv'
    BY NextInv
<1> QED
    BY <1>1, <1>2, PTL DEF Spec

-----------------------------------------------------------------------------
(* What success and refusal say. *)

\* The arguments are of the shapes that the calls have.
LEMMA Shapes ==
    ASSUME Inv, outcome # "idle"
    PROVE  /\ at \in Nat /\ IsValue(approvals)
           /\ \A k \in DOMAIN caveats : \A f \in DOMAIN caveats[k] \ {"t"} : IsValue(caveats[k][f])
           /\ Is(Get(request, "args"), "map") =>
                 \A k \in DOMAIN request.args.map : IsValue(request.args.map[k])
<1>1. PICK in \in Inputs : /\ in.caveats = caveats /\ in.request = request /\ in.at = at
                           /\ approvals \in {in.approvals, [list |-> <<>>]}
    BY DEF Inv, Given
<1>2. IsValue([list |-> <<>>])
  <2>1. <<>> \in Seq({<<>>[k] : k \in DOMAIN <<>>})
    BY SequenceOf DEF IsSequence
  <2> QED
    BY <2>1 DEF IsValue, Is
<1>3. IsValue(in.approvals)
    BY InputAssumption
<1> QED
    BY <1>1, <1>2, <1>3, InputAssumption

LEMMA Succeeded ==
    ASSUME Inv, outcome = "ok"
    PROVE  /\ \A k \in DOMAIN caveats : EvalOne(caveats[k]) = "ok" /\ Holds(caveats[k])
           /\ Is(approvals, "list") /\ DOMAIN caveats = 1..Len(caveats)
           /\ i - 1 = Len(caveats)
<1>1. DOMAIN caveats = 1..Len(caveats) /\ Len(caveats) \in Nat
    BY DEF Inv, Places, IsSequence
<1>2. i \in 1..(Len(caveats) + 1) /\ i > Len(caveats) /\ Is(approvals, "list")
      /\ \A k \in 1..(i - 1) : EvalOne(caveats[k]) = "ok"
    BY DEF Inv, Places, Passed
<1>3. i - 1 = Len(caveats)
    BY <1>1, <1>2
<1> QED
    BY <1>1, <1>2, <1>3, Verdicts

\* evaluate keeps to its arguments, notes at most one nonce a turn, and ends in
\* one of its exceptions or in success.
THEOREM Typing == Spec => []TypeOK
<1>1. Inv => TypeOK
  <2> SUFFICES ASSUME Inv PROVE TypeOK
    OBVIOUS
  <2>1. i \in 1..(Len(caveats) + 1) /\ i - 1 \in Nat
      /\ outcome \in {"idle", "running", "ok", "CaveatError", "TypeError", "OverflowError"}
    <3>1. Len(caveats) \in Nat
      BY DEF Inv, Places, IsSequence
    <3> QED
      BY <3>1 DEF Inv, Places
  <2>2. Len(used) \in 0..(i - 1)
    BY <2>1, GatesCounted DEF Inv, Noted
  <2> QED
    BY <2>1, <2>2 DEF Inv, Given, TypeOK
<1> QED
    BY <1>1, Invariance, PTL

\* A caveat that holds is of a known type and holds by each of its parts.
LEMMA EveryPartCounts ==
    ASSUME NEW cav, Holds(cav)
    PROVE  /\ Type(cav) \in Kinds
           /\ Parts[Type(cav)] \subseteq DOMAIN cav
           /\ \A f \in Parts[Type(cav)] : ~Holds([g \in DOMAIN cav \ {f} |-> cav[g]])
<1> DEFINE Without(f) == [g \in DOMAIN cav \ {f} |-> cav[g]]
<1>1. Type(cav) \in Kinds
    BY DEF Holds, Kinds
<1>2. "t" \in DOMAIN cav /\ Type(cav) = cav.t
    BY <1>1 DEF Type, GetOr, Kinds
<1>3. \A f : f # "t" => Type(Without(f)) = Type(cav)
    BY <1>2 DEF Type, GetOr
<1>4. Type(Without("t")) = "none"
    BY DEF Type, GetOr
<1>5. ~Holds(Without("t"))
    BY <1>4 DEF Holds
<1>6. \A f : Get(Without(f), f) = None /\ f \notin DOMAIN Without(f)
    BY DEF Get, GetOr
<1>7. DOMAIN None = {"none"}
    BY DEF None
<1>8. \A f : f \notin DOMAIN cav => Get(cav, f) = None
    BY DEF Get, GetOr
<1> HIDE DEF Without
<1>9. CASE Type(cav) = "op_in"
  <2>1. "ops" \in DOMAIN cav
    BY <1>7, <1>8, <1>9 DEF Holds, OpIn, Is
  <2>2. ~Holds(Without("ops"))
    BY <1>3, <1>6, <1>7, <1>9 DEF Holds, OpIn, Is
  <2> QED
    BY <1>1, <1>2, <1>5, <1>9, <2>1, <2>2 DEF Parts, Without
<1>10. CASE Type(cav) = "resource_prefix"
  <2>1. "prefix" \in DOMAIN cav
    BY <1>7, <1>8, <1>10 DEF Holds, Prefix, Is
  <2>2. ~Holds(Without("prefix"))
    BY <1>3, <1>6, <1>7, <1>10 DEF Holds, Prefix, Is
  <2> QED
    BY <1>1, <1>2, <1>5, <1>10, <2>1, <2>2 DEF Parts, Without
<1>11. CASE Type(cav) = "max_amount"
  <2>1. "field" \in DOMAIN cav /\ "limit" \in DOMAIN cav
    BY <1>7, <1>8, <1>11 DEF Holds, MaxAmount, MaxAmountShape, LimitIsNumber, Is
  <2>2. ~Holds(Without("field"))
    BY <1>3, <1>6, <1>11 DEF Holds, MaxAmount, MaxAmountShape, Is
  <2>3. ~Holds(Without("limit"))
    BY <1>3, <1>6, <1>7, <1>11 DEF Holds, MaxAmount, MaxAmountShape, LimitIsNumber, Is
  <2> QED
    BY <1>1, <1>2, <1>5, <1>11, <2>1, <2>2, <2>3 DEF Parts, Without
<1>12. CASE Type(cav) = "arg_in"
  <2>1. "field" \in DOMAIN cav /\ "allowed" \in DOMAIN cav
    BY <1>7, <1>8, <1>12 DEF Holds, ArgIn, ArgInShape, Is
  <2>2. ~Holds(Without("field"))
    BY <1>3, <1>6, <1>12 DEF Holds, ArgIn, ArgInShape, Is
  <2>3. ~Holds(Without("allowed"))
    BY <1>3, <1>6, <1>7, <1>12 DEF Holds, ArgIn, ArgInShape, Is
  <2> QED
    BY <1>1, <1>2, <1>5, <1>12, <2>1, <2>2, <2>3 DEF Parts, Without
<1>13. CASE Type(cav) = "requires_approval"
  <2>1. "approver" \in DOMAIN cav
    BY <1>7, <1>8, <1>13 DEF Holds, GateShape, Is
  <2>2. ~Holds(Without("approver"))
    BY <1>3, <1>6, <1>7, <1>13 DEF Holds, GateShape, Is
  <2> QED
    BY <1>1, <1>2, <1>5, <1>13, <2>1, <2>2 DEF Parts, Without
<1> QED
    BY <1>1, <1>9, <1>10, <1>11, <1>12, <1>13 DEF Kinds

\* No part of a caveat is optional (R-failclosed, FAILCLOSED-1): evaluate
\* succeeds only where every caveat is known and complete, and would not without
\* any one of its parts.
THEOREM Completeness == Spec => []NothingOptional
<1>1. Inv => NothingOptional
    BY Succeeded, EveryPartCounts DEF NothingOptional
<1> QED
    BY <1>1, Invariance, PTL

\* What float() makes of a value within a limit was within it before.
LEMMA FloatWithin ==
    ASSUME NEW x, IsValue(x), NEW limit, Is(limit, "num"), limit.num \in Int,
           limit # [special |-> "inf"],
           Abs(limit.num) < pow2[Precision], WithinLimit(FloatOf(x), limit)
    PROVE  AtMost(x, limit.num)
<1> DEFINE float == FloatOf(x)
<1>1. Is(float, "num") /\ float.num <= limit.num
    BY DEF WithinLimit
<1>2. CASE float = x
    BY <1>1, <1>2 DEF AtMost
<1>3. ASSUME NEW n \in Int, float = (IF TooLarge(n) THEN [raise |-> "OverflowError"]
                                     ELSE [num |-> Nearest(n), as |-> "float"])
      PROVE  n <= limit.num
  <2>1. ~TooLarge(n) /\ Nearest(n) <= limit.num
    BY <1>1, <1>3 DEF Is
  <2> QED
    BY <2>1, RoundingKeepsSide
<1>4. ASSUME NEW n \in Int, float = (IF TooLarge(n) THEN [special |-> "inf"]
                                     ELSE [num |-> Nearest(n), as |-> "float"])
      PROVE  n <= limit.num
  <2>1. ~TooLarge(n) /\ Nearest(n) <= limit.num
    BY <1>1, <1>4 DEF Is
  <2> QED
    BY <2>1, RoundingKeepsSide
<1>5. \/ float = x
      \/ Is(x, "num") /\ float = (IF TooLarge(x.num) THEN [raise |-> "OverflowError"]
                                  ELSE [num |-> Nearest(x.num), as |-> "float"])
      \/ Is(x, "numeral") /\ float = (IF TooLarge(x.numeral) THEN [special |-> "inf"]
                                      ELSE [num |-> Nearest(x.numeral), as |-> "float"])
      \/ float = None
    BY DEF FloatOf
<1>6. (Is(x, "num") => x.num \in Int) /\ (Is(x, "numeral") => x.numeral \in Int)
    BY DEF IsValue
<1>7. float # None
    BY <1>1 DEF None, Is
<1> HIDE DEF float
<1> QED
    BY <1>2, <1>3, <1>4, <1>5, <1>6, <1>7 DEF AtMost

\* A cap of a size that floats tell apart holds the exact amount (CAVEAT-1),
\* with a mantissa of any width: neither rounding nor NaN carries an amount
\* across the limit.
THEOREM Caps == Spec => []CapHolds
<1>1. Inv => CapHolds
  <2> SUFFICES ASSUME Inv, outcome = "ok", NEW k \in DOMAIN caveats,
                      Type(caveats[k]) = "max_amount", Is(caveats[k].limit, "num"),
                      Abs(caveats[k].limit.num) < pow2[Precision]
               PROVE  \E f \in Keyed(caveats[k].field) : AtMost(Args.map[f], caveats[k].limit.num)
    BY DEF CapHolds
  <2> DEFINE cav == caveats[k]
             limit == cav.limit
             f == CHOOSE g \in Keyed(cav.field) : TRUE
  <2>1. Holds(cav) /\ Is(Args, "map")
    BY Succeeded, Verdicts
  <2>2. MaxAmount(cav)
    BY <2>1 DEF Holds
  <2>3. "limit" \in DOMAIN cav
    BY <2>2 DEF MaxAmount, MaxAmountShape, LimitIsNumber, Get, GetOr, None, Is
  <2>4. IsValue(limit) /\ limit.num \in Int
    <3>1. IsValue(limit)
      BY <2>3, Shapes
    <3> QED
      BY <3>1 DEF IsValue
  <2>5. f \in Keyed(cav.field) /\ Arg(cav.field) = Args.map[f]
      /\ WithinLimit(FloatOf(Args.map[f]), limit)
    BY <2>2 DEF MaxAmount, Arg
  <2> HIDE DEF f
  <2>6. IsValue(Args.map[f])
    <3>1. f \in DOMAIN Args.map
      BY <2>5 DEF Keyed
    <3>2. CASE Is(Get(request, "args"), "none")
      BY <3>1, <3>2 DEF Args
    <3>3. CASE ~Is(Get(request, "args"), "none")
      <4>1. Args = request.args /\ Get(request, "args") = request.args
        BY <3>3 DEF Args, Get, GetOr, None, Is
      <4> QED
        BY <2>1, <3>1, <4>1, Shapes
    <3> QED
      BY <3>2, <3>3
  <2>7. limit # [special |-> "inf"]
    BY DEF Is
  <2> QED
    BY <2>4, <2>5, <2>6, <2>7, FloatWithin
<1> QED
    BY <1>1, Invariance, PTL

\* The first accepted approval is one of the list, of consent to its gate.
LEMMA AcceptedConsents ==
    ASSUME IsValue(approvals), Is(approvals, "list"), at \in Nat,
           NEW cav, Accepted(cav) # {}
    PROVE  LET k == First(Accepted(cav))
           IN  /\ k \in DOMAIN approvals.list /\ Is(approvals.list[k], "map")
               /\ Consents(cav, approvals.list[k].map, NonceOf(approvals.list[k].map))
<1> DEFINE S == Accepted(cav)
           k == First(S)
           a == approvals.list[k].map
<1>1. approvals.list \in Seq({approvals.list[m] : m \in DOMAIN approvals.list})
    BY DEF IsValue
<1>2. DOMAIN approvals.list \subseteq Nat
    BY <1>1
<1>3. S \subseteq Nat
    BY <1>2 DEF Accepted, Named
<1>4. k \in S
  <2>1. \E m \in S : \A x \in S : m <= x
    BY <1>3, LeastIsIn
  <2> HIDE DEF S
  <2> QED
    BY <2>1 DEF First
<1> HIDE DEF k
<1>5. /\ k \in DOMAIN approvals.list /\ Is(approvals.list[k], "map")
      /\ InForce(ExpOf(a)) /\ SignedFor(cav, a)
    BY <1>4 DEF Accepted, Named
<1>6. ExpOf(a).num \in at..(MaxStamp - 1)
    BY <1>5 DEF InForce
<1>7. Consents(cav, a, NonceOf(a))
    BY <1>5, <1>6 DEF Consents, SignedFor, VerifySig
<1> QED
    BY <1>5, <1>7 DEF k

\* The nonces that evaluate returns are one for each gate, in order, of an
\* approval in force that the gate's approver signed for it (FRESH-4, FRESH-B).
THEOREM NoncesOfConsent == Spec => []GateNonces
<1>1. Inv => GateNonces
  <2> SUFFICES ASSUME Inv, outcome = "ok" PROVE GateNonces
    BY DEF GateNonces
  <2>1. /\ \A k \in DOMAIN caveats : Holds(caveats[k])
        /\ Is(approvals, "list") /\ DOMAIN caveats = 1..Len(caveats) /\ i - 1 = Len(caveats)
    BY Succeeded
  <2>2. Len(used) = Cardinality(GatesUpTo(Len(caveats)))
    BY <2>1 DEF Inv, Noted
  <2>3. ASSUME NEW n \in DOMAIN caveats, IsGate(caveats[n])
        PROVE  \E k \in DOMAIN approvals.list :
                  /\ Is(approvals.list[k], "map")
                  /\ Consents(caveats[n], approvals.list[k].map,
                              used[Cardinality(GatesUpTo(n))])
    <3>1. Accepted(caveats[n]) # {}
      BY <2>1, <2>3 DEF Holds, IsGate
    <3>2. used[Cardinality(GatesUpTo(n))]
              = NonceOf(approvals.list[First(Accepted(caveats[n]))].map)
      BY <2>1, <2>3 DEF Inv, Noted
    <3>3. at \in Nat /\ IsValue(approvals)
      BY Shapes
    <3> QED
      BY <2>1, <3>1, <3>2, <3>3, AcceptedConsents
  <2> QED
    BY <2>2, <2>3 DEF GateNonces
<1> QED
    BY <1>1, Invariance, PTL

\* An approval that make_approval made for the gate, and that is in force, is
\* accepted.
LEMMA ConsentIsAccepted ==
    ASSUME NEW cav, GateShape(cav),
           cav.approver.bytes \notin WeakKey, Consenting(cav)
    PROVE  Accepted(cav) # {}
<1>1. PICK k \in DOMAIN approvals.list :
        LET a == approvals.list[k]
        IN  /\ Is(a, "map") /\ Is(Get(a.map, "nonce"), "bytes")
            /\ \E exp \in at..(MaxStamp - 1) :
                  a.map = make_approval(cav.approver.bytes, request, a.map.nonce.bytes,
                                        exp, Label(cav))
    BY DEF Consenting
<1> DEFINE a == approvals.list[k].map
           nonce == a.nonce.bytes
<1>2. PICK exp \in at..(MaxStamp - 1) :
        a = make_approval(cav.approver.bytes, request, nonce, exp, Label(cav))
    BY <1>1
<1> HIDE DEF a, nonce
<1>3. /\ DOMAIN a = {"approver", "nonce", "exp", "label", "sig"}
      /\ a.approver = [bytes |-> cav.approver.bytes] /\ a.nonce = [bytes |-> nonce]
      /\ a.exp = [num |-> exp, as |-> "int"]
      /\ a.sig = [by |-> cav.approver.bytes,
                  over |-> approval_msg(request, nonce, exp, Label(cav))]
    BY <1>2 DEF make_approval
<1>4. Get(a, "approver") = a.approver /\ Is(a.approver, "bytes")
      /\ a.approver.bytes = cav.approver.bytes
    BY <1>3 DEF Get, GetOr, Is
<1>5. k \in Named(cav)
    BY <1>1, <1>4 DEF Named, a
<1>6. ExpOf(a) = [num |-> exp, as |-> "int"]
    BY <1>3 DEF ExpOf, IntOf, GetOr, Is
<1>7. InForce(ExpOf(a))
    BY <1>6 DEF InForce, Is
<1>8. SignedFor(cav, a)
  <2>1. NonceOf(a) = [bytes |-> nonce] /\ Get(a, "sig") = a.sig
    BY <1>3 DEF NonceOf, Get, GetOr
  <2> QED
    BY <1>3, <1>6, <2>1 DEF SignedFor, VerifySig, Is
<1> QED
    BY <1>5, <1>7, <1>8 DEF Accepted, a

\* Consent is not lost (FAILCLOSED-2): a gate refuses only when no approval that
\* make_approval made for it and this request is in force, whatever else the
\* list holds but one of this approver with an infinite expiry.
THEOREM Consent == Spec => []ConsentFound
<1>1. Inv => ConsentFound
  <2> SUFFICES ASSUME Inv, Refused, i <= Len(caveats), Is(approvals, "list"), Is(Args, "map"),
                      IsGate(caveats[i]), GateShape(caveats[i]),
                      caveats[i].approver.bytes \notin WeakKey, Unreadable(caveats[i]) = {},
                      Consenting(caveats[i])
               PROVE  FALSE
    BY DEF ConsentFound
  <2> DEFINE cav == caveats[i]
  <2>1. i \in DOMAIN caveats
    <3>1. DOMAIN caveats = 1..Len(caveats) /\ Len(caveats) \in Nat
      BY DEF Inv, Places, IsSequence
    <3> QED
      BY <3>1 DEF Inv, Places
  <2>2. Accepted(cav) # {}
    BY ConsentIsAccepted
  <2>3. Holds(cav)
    BY <2>2 DEF Holds, IsGate
  <2>4. ~TypeErrors(cav) /\ ~Overflows(cav)
    BY DEF TypeErrors, Overflows, IsGate
  <2>5. EvalOne(cav) = "ok"
    BY <2>3, <2>4, Verdicts
  <2> QED
    BY <2>1, <2>5 DEF Inv, Passed, Refused
<1> QED
    BY <1>1, Invariance, PTL
=============================================================================

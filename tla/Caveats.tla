------------------------------ MODULE Caveats ------------------------------
(***************************************************************************)
(* evaluate of muhuri/caveats.py: the conjunction of a credential's        *)
(* caveats over one request and the approvals presented with it, down to   *)
(* the shapes and numbers a CBOR map can hold where the code expects       *)
(* others.  Authorize.tla takes this verdict by its result.                *)
(*                                                                         *)
(* A value is a record whose field is its Python type: [text |-> s],       *)
(* [bytes |-> b], [list |-> s], [map |-> f], [none |-> <<>>], for numbers  *)
(* [num |-> n, as |-> "int", "float" or "bool"], [special |-> "nan", "inf" *)
(* or "-inf"]; a text or bytes that spell a number n, which float and int  *)
(* both read, have a field numeral |-> n besides.  Numbers are whole; a    *)
(* float has Precision bits of mantissa (53 in the code) and exponents up  *)
(* to MaxExp, so rounding and overflow happen at small numbers.            *)
(* A caveat is a record of values and its type t; missing fields are       *)
(* missing, and what is no map has none.  A signature is the key that made *)
(* it and what it is over, all for one credential.                         *)
(***************************************************************************)
EXTENDS Integers, Sequences, FiniteSets

CONSTANTS
    Precision, MaxExp,  \* of a float: 53 and 971 in the code
    MaxStamp,           \* an expiry is below this: 1 << 64 in the code
    WeakKey,            \* keys that verify_sig refuses
    Inputs              \* of the runs: records [caveats, request, approvals, at]

ASSUME FloatAssumption == Precision \in Nat \ {0} /\ MaxExp \in Nat /\ MaxStamp \in Nat

VARIABLES
    caveats, request, approvals, at,    \* the arguments of evaluate
    i,          \* the caveat the loop is at
    used,       \* used_nonces
    outcome     \* "idle", "running", "ok", or the exception that was raised

vars == <<caveats, request, approvals, at, i, used, outcome>>

None == [none |-> <<>>]
Is(x, type) == type \in DOMAIN x
GetOr(map, f, default) == IF f \in DOMAIN map THEN map[f] ELSE default
Get(map, f) == GetOr(map, f, None)

\* Python's truth: None, zero and what is empty are false.
Falsy(x) ==
    \/ x = None
    \/ Is(x, "num") /\ x.num = 0
    \/ Is(x, "bytes") /\ x.bytes = ""
    \/ \E type \in {"list", "map", "text"} : Is(x, type) /\ DOMAIN x[type] = {}

\* Values hold what their type says, and a list is a list.
IsValue(x) ==
    /\ Is(x, "num") => x.num \in Int
    /\ Is(x, "numeral") => x.numeral \in Int
    /\ Is(x, "list") => x.list \in Seq({x.list[k] : k \in DOMAIN x.list})
ASSUME InputAssumption ==
    \A in \in Inputs :
        /\ in.at \in Nat /\ IsValue(in.approvals)
        /\ in.caveats \in Seq({in.caveats[k] : k \in DOMAIN in.caveats})
        /\ \A k \in DOMAIN in.caveats : \A f \in DOMAIN in.caveats[k] \ {"t"} :
              IsValue(in.caveats[k][f])
        /\ Is(Get(in.request, "args"), "map") =>
              \A k \in DOMAIN in.request.args.map : IsValue(in.request.args.map[k])

\* x == y in Python: numbers of any type by value, and NaN equals nothing.
PyEq(x, y) ==
    \/ Is(x, "num") /\ Is(y, "num") /\ x.num = y.num
    \/ ~Is(x, "num") /\ x # [special |-> "nan"] /\ x = y

IsIn(x, list) == \E k \in DOMAIN list : PyEq(x, list[k])

-----------------------------------------------------------------------------
(* The constructors: caveats and approvals as this library writes them. *)

op_in(ops) == [t |-> "op_in", ops |-> [list |-> ops]]
resource_prefix(prefix) == [t |-> "resource_prefix", prefix |-> prefix]
max_amount(limit, field) == [t |-> "max_amount", field |-> field, limit |-> limit]
arg_in(field, allowed) == [t |-> "arg_in", field |-> field, allowed |-> [list |-> allowed]]
requires_approval(approver, label) ==
    [t |-> "requires_approval", approver |-> [bytes |-> approver], label |-> label]

approval_msg(req, nonce, exp, label) ==
    [request |-> req, nonce |-> nonce, exp |-> exp, label |-> label]
make_approval(approver, req, nonce, exp, label) ==
    [approver |-> [bytes |-> approver], nonce |-> [bytes |-> nonce],
     exp |-> [num |-> exp, as |-> "int"], label |-> label,
     sig |-> [by |-> approver, over |-> approval_msg(req, nonce, exp, label)]]

-----------------------------------------------------------------------------
(* float() and int(). *)

Abs(n) == IF n < 0 THEN -n ELSE n

pow2[e \in Nat] == IF e = 0 THEN 1 ELSE 2 * pow2[e - 1]

\* The distance of neighbouring floats around n >= 0, and the float nearest to
\* an integer: ties go to the even mantissa.
Ulp(n) ==
    LET Fits(u) == n < u * pow2[Precision]
    IN  CHOOSE u \in {pow2[e] : e \in 0..MaxExp} : Fits(u) /\ (u = 1 \/ ~Fits(u \div 2))
Nearest(n) ==
    LET u == Ulp(Abs(n))
        q == Abs(n) \div u
        twice == 2 * (Abs(n) % u)
        m == IF twice > u \/ (twice = u /\ q % 2 = 1) THEN (q + 1) * u ELSE q * u
    IN  IF n < 0 THEN -m ELSE m

Largest == (pow2[Precision] - 1) * pow2[MaxExp]
TooLarge(n) == Abs(n) >= pow2[MaxExp] * pow2[Precision] \/ Abs(Nearest(n)) > Largest

\* An integer too large raises OverflowError, a numeral too large is an
\* infinity; what is no number is [none], a CaveatError.
FloatOf(x) ==
    CASE Is(x, "special") \/ (Is(x, "num") /\ x.as = "float") -> x
      [] Is(x, "num") /\ x.as # "float" ->
            IF TooLarge(x.num) THEN [raise |-> "OverflowError"]
            ELSE [num |-> Nearest(x.num), as |-> "float"]
      [] Is(x, "numeral") ->
            IF TooLarge(x.numeral) THEN [special |-> "inf"]
            ELSE [num |-> Nearest(x.numeral), as |-> "float"]
      [] OTHER -> None

IntOf(x) ==
    CASE Is(x, "num") -> [num |-> x.num, as |-> "int"]
      [] Is(x, "numeral") -> [num |-> x.numeral, as |-> "int"]
      [] x \in {[special |-> "inf"], [special |-> "-inf"]} -> [raise |-> "OverflowError"]
      [] OTHER -> None

-----------------------------------------------------------------------------
(* _eval_one: what each type of caveat demands, and the exceptions other   *)
(* than CaveatError on the way.                                            *)

\* args of the request: missing and null are empty, another type is refused.
Args == IF Is(Get(request, "args"), "none") THEN [map |-> <<>>] ELSE request.args
Type(cav) == GetOr(cav, "t", "none")

\* args[field], where `in` and get compare keys like ==.
Keyed(field) == {k \in DOMAIN Args.map : PyEq(k, field)}
Arg(field) == IF Keyed(field) = {} THEN None ELSE Args.map[CHOOSE k \in Keyed(field) : TRUE]

OpIn(cav) == Is(Get(cav, "ops"), "list") /\ IsIn(Get(request, "op"), cav.ops.list)

Prefix(cav) ==
    LET res == GetOr(request, "resource", [text |-> <<>>])
    IN  /\ Is(Get(cav, "prefix"), "text") /\ Is(res, "text")
        /\ Len(cav.prefix.text) <= Len(res.text)
        /\ SubSeq(res.text, 1, Len(cav.prefix.text)) = cav.prefix.text

\* val is finite, and val <= limit, which is exact between float and integer.
WithinLimitBare(val, limit) ==                      \* faulty variant: not val > limit (CAVEAT-1)
    ~(Is(val, "num") /\ Is(limit, "num") /\ val.num > limit.num)
WithinLimit(val, limit) ==
    /\ Is(val, "num")
    /\ \/ Is(limit, "num") /\ val.num <= limit.num
       \/ limit = [special |-> "inf"]

LimitIsNumber(limit) == Is(limit, "special") \/ (Is(limit, "num") /\ limit.as # "bool")
MaxAmountShape(cav) == Is(cav, "field") /\ LimitIsNumber(Get(cav, "limit"))
MaxAmount(cav) ==
    /\ MaxAmountShape(cav)
    /\ Keyed(cav.field) # {} /\ WithinLimit(FloatOf(Arg(cav.field)), cav.limit)

ArgInShape(cav) == Is(cav, "field") /\ Is(Get(cav, "allowed"), "list")
ArgIn(cav) == ArgInShape(cav) /\ IsIn(Arg(cav.field), cav.allowed.list)

\* keys.py verify_sig.
VerifySig(approver, sig, msg) == approver \notin WeakKey /\ sig = [by |-> approver, over |-> msg]

Label(cav) == GetOr(cav, "label", [text |-> <<>>])
GateShape(cav) == Is(Get(cav, "approver"), "bytes") /\ Is(Label(cav), "text")
NonceOf(a) == GetOr(a, "nonce", [bytes |-> ""])
ExpOf(a) == IntOf(GetOr(a, "exp", [num |-> 0, as |-> "int"]))

\* The loop over the approvals: what is no map or names another approver is
\* passed over, reading an infinite expiry ends the call, and an approval in
\* range, unexpired and signed for this gate ends the loop.
Named(cav) ==
    {k \in DOMAIN approvals.list :
        /\ Is(approvals.list[k], "map") /\ Is(Get(approvals.list[k].map, "approver"), "bytes")
        /\ approvals.list[k].map.approver.bytes = cav.approver.bytes}
Unreadable(cav) == {k \in Named(cav) : Is(ExpOf(approvals.list[k].map), "raise")}
InForce(exp) == Is(exp, "num") /\ exp.num \in at..(MaxStamp - 1)
SignedFor(cav, a) ==
    /\ Is(NonceOf(a), "bytes")
    /\ VerifySig(cav.approver.bytes, Get(a, "sig"),
                 approval_msg(request, NonceOf(a).bytes, ExpOf(a).num, Label(cav)))
First(S) == CHOOSE k \in S : \A m \in S : k <= m
AcceptedFirstNamed(cav) ==                          \* faulty variant: the loop ends at any
    {k \in Named(cav) : k = First(Named(cav)) /\ InForce(ExpOf(approvals.list[k].map))
                         /\ SignedFor(cav, approvals.list[k].map)}
Accepted(cav) ==
    {k \in Named(cav) : InForce(ExpOf(approvals.list[k].map))
                         /\ SignedFor(cav, approvals.list[k].map)}

\* An unknown type is never met.
HoldsIfUnknown(cav) ==                              \* faulty variant: it is ignored
    CASE Type(cav) = "op_in" -> OpIn(cav)
      [] Type(cav) = "resource_prefix" -> Prefix(cav)
      [] Type(cav) = "max_amount" -> MaxAmount(cav)
      [] Type(cav) = "arg_in" -> ArgIn(cav)
      [] Type(cav) = "requires_approval" -> GateShape(cav) /\ Accepted(cav) # {}
      [] OTHER -> TRUE
Holds(cav) ==
    \/ Type(cav) = "op_in" /\ OpIn(cav)
    \/ Type(cav) = "resource_prefix" /\ Prefix(cav)
    \/ Type(cav) = "max_amount" /\ MaxAmount(cav)
    \/ Type(cav) = "arg_in" /\ ArgIn(cav)
    \/ Type(cav) = "requires_approval" /\ GateShape(cav) /\ Accepted(cav) # {}

\* A list or map as field has no hash, an oversized number no float.
TypeErrors(cav) ==
    /\ \/ Type(cav) = "max_amount" /\ MaxAmountShape(cav)
       \/ Type(cav) = "arg_in" /\ ArgInShape(cav)
    /\ Is(cav.field, "list") \/ Is(cav.field, "map")
Overflows(cav) ==
    \/ Type(cav) = "max_amount" /\ MaxAmountShape(cav) /\ Is(FloatOf(Arg(cav.field)), "raise")
    \/ /\ Type(cav) = "requires_approval" /\ GateShape(cav)
       /\ \E k \in Unreadable(cav) : \A m \in Accepted(cav) : k < m

EvalOne(cav) ==
    CASE ~Is(Args, "map") -> "CaveatError"
      [] Is(Args, "map") /\ TypeErrors(cav) -> "TypeError"
      [] Is(Args, "map") /\ ~TypeErrors(cav) /\ Overflows(cav) -> "OverflowError"
      [] OTHER -> IF Holds(cav) THEN "ok" ELSE "CaveatError"

-----------------------------------------------------------------------------

Init ==
    /\ caveats = <<>> /\ request = <<>> /\ approvals = None /\ at = 0
    /\ i = 1 /\ used = <<>> /\ outcome = "idle"

\* evaluate is called.  What is falsy counts as no approvals; another type
\* than a list is refused.
Begin(cs, req, apps, t) ==
    /\ outcome = "idle"
    /\ caveats' = cs /\ request' = req /\ at' = t
    /\ approvals' = IF Falsy(apps) THEN [list |-> <<>>] ELSE apps
    /\ outcome' = IF Is(approvals', "list") THEN "running" ELSE "CaveatError"
    /\ UNCHANGED <<i, used>>

TakesOffered(cav) ==                                \* faulty variant: all nonces offered (FRESH-B)
    LET maps == SelectSeq(approvals.list, LAMBDA a : Is(a, "map"))
    IN  [k \in DOMAIN maps |-> NonceOf(maps[k].map)]
Takes(cav) == <<NonceOf(approvals.list[First(Accepted(cav))].map)>>

\* One turn of the loop: a gate's nonce is noted, or an exception ends it.
EvalNext ==
    /\ outcome = "running" /\ i <= Len(caveats)
    /\ LET cav == caveats[i]
       IN  IF EvalOne(cav) = "ok"
           THEN /\ used' = IF Type(cav) = "requires_approval" THEN used \o Takes(cav) ELSE used
                /\ i' = i + 1
                /\ UNCHANGED outcome
           ELSE outcome' = EvalOne(cav) /\ UNCHANGED <<i, used>>
    /\ UNCHANGED <<caveats, request, approvals, at>>

Satisfied ==
    /\ outcome = "running" /\ i > Len(caveats)
    /\ outcome' = "ok"
    /\ UNCHANGED <<caveats, request, approvals, at, i, used>>

\* The caller has the list of nonces, or the exception.
Return ==
    /\ outcome \notin {"idle", "running"}
    /\ caveats' = <<>> /\ request' = <<>> /\ approvals' = None /\ at' = 0
    /\ i' = 1 /\ used' = <<>> /\ outcome' = "idle"

Next ==
    \/ \E in \in Inputs : Begin(in.caveats, in.request, in.approvals, in.at)
    \/ EvalNext \/ Satisfied \/ Return

Spec == Init /\ [][Next]_vars

-----------------------------------------------------------------------------

Kinds == {"op_in", "resource_prefix", "max_amount", "arg_in", "requires_approval"}

TypeOK ==
    /\ outcome # "idle" =>
          \E in \in Inputs : in.caveats = caveats /\ in.request = request /\ in.at = at
    /\ i \in 1..(Len(caveats) + 1) /\ Len(used) < i
    /\ outcome \in {"idle", "running", "ok", "CaveatError", "TypeError", "OverflowError"}

\* Nothing is read as less restrictive than it is written (R-failclosed,
\* FAILCLOSED-1): when evaluate succeeds, every caveat of every hop was of a
\* known type, with its parts; taking any part away from any caveat, but the
\* label that defaults to "", would have made it fail.
Parts == [op_in |-> {"t", "ops"}, resource_prefix |-> {"t", "prefix"},
          max_amount |-> {"t", "field", "limit"}, arg_in |-> {"t", "field", "allowed"},
          requires_approval |-> {"t", "approver"}]
NothingOptional ==
    outcome = "ok" => \A k \in DOMAIN caveats :
        LET cav == caveats[k]
        IN  /\ Type(cav) \in Kinds
            /\ Parts[Type(cav)] \subseteq DOMAIN cav
            /\ \A f \in Parts[Type(cav)] : ~Holds([g \in DOMAIN cav \ {f} |-> cav[g]])

\* A cap holds the exact amount (CAVEAT-1), whatever the amount is written as,
\* NaN and infinities included: for limits that a float of this precision can
\* tell apart, where rounding the amount cannot carry it across the limit.
AtMost(x, limit) ==
    \/ Is(x, "num") /\ x.num <= limit
    \/ Is(x, "numeral") /\ x.numeral <= limit
CapHolds ==
    outcome = "ok" => \A k \in DOMAIN caveats :
        LET cav == caveats[k]
        IN  (Type(cav) = "max_amount" /\ Is(cav.limit, "num")) =>
                (Abs(cav.limit.num) < pow2[Precision] =>
                    \E f \in Keyed(cav.field) : AtMost(Args.map[f], cav.limit.num))

\* The nonces returned are those of consent (FRESH-4, FRESH-B): one for each
\* gate in order, of an approval that the gate's approver signed for this gate
\* and request and that has not expired, so the caller burns no other.
IsGate(cav) == Type(cav) = "requires_approval"
GatesUpTo(n) == {k \in 1..n : IsGate(caveats[k])}
Consents(cav, a, nonce) ==
    \E exp \in at..(MaxStamp - 1) :
        /\ NonceOf(a) = nonce /\ cav.approver.bytes \notin WeakKey
        /\ Get(a, "sig") = [by |-> cav.approver.bytes,
                            over |-> approval_msg(request, nonce.bytes, exp, Label(cav))]
GateNonces ==
    outcome = "ok" =>
        /\ Len(used) = Cardinality(GatesUpTo(Len(caveats)))
        /\ \A n \in DOMAIN caveats : IsGate(caveats[n]) =>
              \E k \in DOMAIN approvals.list :
                  /\ Is(approvals.list[k], "map")
                  /\ Consents(caveats[n], approvals.list[k].map,
                              used[Cardinality(GatesUpTo(n))])

\* Consent is not lost (FAILCLOSED-2; caveats.py:172, "a skipped (invalid)
\* approval"): a gate refuses only when no approval made by make_approval for
\* it and this request is in force, whatever else is in the list (but one of
\* this approver with an infinite expiry, which ends the call: see below).
Consenting(cav) ==
    \E k \in DOMAIN approvals.list :
        LET a == approvals.list[k]
        IN  /\ Is(a, "map") /\ Is(Get(a.map, "nonce"), "bytes")
            /\ \E exp \in at..(MaxStamp - 1) :
                  a.map = make_approval(cav.approver.bytes, request, a.map.nonce.bytes,
                                        exp, Label(cav))
Refused == outcome \notin {"idle", "running", "ok"}
ConsentFound ==
    (Refused /\ i <= Len(caveats) /\ Is(approvals, "list") /\ Is(Args, "map")) =>
        LET cav == caveats[i]
        IN  (/\ IsGate(cav) /\ GateShape(cav) /\ cav.approver.bytes \notin WeakKey
             /\ Unreadable(cav) = {}) => ~Consenting(cav)

\* evaluate's docstring, "Raise CaveatError if ANY caveat is unsatisfied", and
\* caveats.py:105: whatever is malformed, the exception is a CaveatError.
RefusalIsCaveatError == Refused => outcome = "CaveatError"
=============================================================================

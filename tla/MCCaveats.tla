----------------------------- MODULE MCCaveats -----------------------------
(* Inputs for the runs of Caveats: numbers of every kind around the limits *)
(* of a float of 3 bits, malformed caveats and requests, and lists of      *)
(* approvals.                                                              *)
EXTENDS Caveats, TLC

Text(s) == [text |-> <<s>>]
PyInt(n) == [num |-> n, as |-> "int"]
PyFloat(n) == [num |-> n, as |-> "float"]
Special(s) == [special |-> s]
Bool == [num |-> 1, as |-> "bool"]
Bytes(b) == [bytes |-> b]
Spelt(n) == [text |-> <<ToString(n)>>, numeral |-> n]
SpeltInBytes(n) == [bytes |-> ToString(n), numeral |-> n]
Pair(k, x) == [f \in {k} |-> x]
Amount == Text("amount")
Req(args) == [op |-> Text("pay"), resource |-> [text |-> <<"a", "b">>], args |-> args]

\* Amounts.
Numbers ==
    {PyInt(n) : n \in -17..17} \cup {PyFloat(n) : n \in {-8, 0, 7, 8, 14}}
    \cup {Spelt(n) : n \in -17..17} \cup {SpeltInBytes(n) : n \in {5, 8, 9, 15}}
    \cup {Special(s) : s \in {"nan", "inf", "-inf"}} \cup {Bool, Text("x"), None}
AmountRequests == {Req([map |-> Pair(Amount, x)]) : x \in Numbers}
Limits == {PyInt(n) : n \in -17..17} \cup {PyFloat(7), PyFloat(12), Bool}
          \cup {Special(s) : s \in {"nan", "inf", "-inf"}}
AmountLists == {<<max_amount(l, Amount)>> : l \in Limits}
               \cup {<<max_amount(PyInt(l), Amount), max_amount(PyFloat(7), Amount)>> : l \in {5, 9}}

\* Shapes: each constructor's caveat, with any field missing or of another type.
Gate == requires_approval("k1", Text("spend"))
Good == {op_in(<<Text("pay"), Text("get")>>), resource_prefix([text |-> <<"a">>]),
         max_amount(PyInt(5), Amount), arg_in(Amount, <<PyInt(1), None>>), Gate}
Other == {PyInt(1), Special("nan"), Text("x"), Bytes("k1"), [list |-> <<>>], [map |-> <<>>], None}
Without(c, f) == [g \in DOMAIN c \ {f} |-> c[g]]
Bad == UNION {{Without(c, f) : f \in DOMAIN c}
              \cup {[c EXCEPT ![f] = x] : f \in DOMAIN c \ {"t"}, x \in Other} : c \in Good}
       \cup {[t |-> "rate_limit", field |-> Amount]}
ShapeLists == {<<c>> : c \in Good \cup Bad} \cup {<<c, d>> : c \in Good \ {Gate}, d \in Bad}
ShapeRequests ==
    {Req(a) : a \in {None, PyInt(1), [list |-> <<>>], [map |-> <<>>],
                     [map |-> Pair(Amount, PyInt(1))], [map |-> Pair(PyInt(1), PyInt(1))]}}
    \cup {Without(Req([map |-> Pair(Amount, Bool)]), f) : f \in {"op", "resource", "args"}}
ShapeApprovals ==
    {None, PyInt(1)} \cup {[list |-> <<[map |-> make_approval("k1", Req(None), "n1", 3, Text("spend"))]>>]}

\* What is passed for the list of approvals, falsy values among it.
NotLists == {PyInt(0), PyInt(1), Text("x"), [text |-> <<>>], Bytes("x"), Bytes(""),
             [map |-> <<>>], [map |-> Pair(Text("nonce"), None)]}

\* Approvals: genuine ones and those with one part changed, in lists of two.
Asked == Req(None)
Spend(n, exp) == make_approval("k1", Asked, n, exp, Text("spend"))
Delete == make_approval("k1", Asked, "n2", 3, Text("delete"))
Unsigned == [Spend("n2", 3) EXCEPT !.sig = None]
Changed ==
    {[Spend("n1", 3) EXCEPT !.exp = x] :
        x \in {None, Special("nan"), PyFloat(3), PyInt(-1), PyInt(4), PyInt(8), Spelt(3), SpeltInBytes(3), Text("x")}}
    \cup {[Spend("n1", 3) EXCEPT !.nonce = x] : x \in {None, Bytes("n2")}}
    \cup {Without(Spend("n1", 3), f) : f \in {"approver", "nonce", "exp", "sig"}}
Endless == {[Spend("n1", 3) EXCEPT !.exp = Special("inf")]}
Approvals(changed) ==
    {PyInt(1)} \cup {[map |-> a] :
        a \in changed \cup {Spend("n1", 3), Spend("n2", 1), Delete, Unsigned,
                            make_approval("w", Asked, "n1", 3, Text("spend")),
                            make_approval("k1", Req(PyInt(1)), "n1", 3, Text("spend"))}}
Lists(S) == {[list |-> <<a, b>>] : a \in S, b \in S}
GateLists == {<<Gate>>, <<Gate, requires_approval("k1", Text("delete"))>>, <<Gate, Gate>>,
              <<requires_approval("w", Text("spend"))>>}

Calls(lists, requests, apps, instants) ==
    [caveats : lists, request : requests, approvals : apps, at : instants]
AllInputs ==
    Calls(AmountLists, AmountRequests, {None}, {0})
    \cup Calls(ShapeLists, ShapeRequests, ShapeApprovals, {0})
    \cup Calls({<<>>, <<Gate>>, <<op_in(<<Text("pay")>>)>>}, {Asked}, NotLists, {0})
    \cup Calls(GateLists, {Asked}, Lists(Approvals(Changed)) \cup {None}, {1, 3})

\* What is malformed: caveats, amounts out of range, and approvals without end.
MalformedInputs ==
    Calls(ShapeLists, ShapeRequests, ShapeApprovals, {0})
    \cup Calls({<<max_amount(PyInt(5), Amount)>>}, AmountRequests, {None}, {0})
    \cup Calls(GateLists, {Asked}, Lists(Approvals(Endless)), {1, 3})
=============================================================================

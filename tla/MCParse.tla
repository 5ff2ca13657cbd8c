------------------------------ MODULE MCParse ------------------------------
(* Inputs for the runs of Parse: the library's credentials up to one link  *)
(* over each cap, and texts, bytes and links with one thing wrong.         *)
EXTENDS Parse

CONSTANTS x1, x2

Of(t, c) == [t |-> t, c |-> c]
Link(x) == [f \in Required |->
    CASE f \in {"prev", "dgr", "dge", "non", "sig"} -> Of("bytes", x)
      [] f = "cav" -> Of("list", <<"map">>)
      [] f = "meta" -> Of("map", x)
      [] OTHER -> Of("int", x)]
MadeLists == UNION {[1..n -> {Link(x1), Link(x2)}] : n \in 1..(MAX_DEPTH + 1)}

\* A link with a field missing, unknown, of another type, or self-referring.
Types == {"bytes", "list", "map", "int", "bool", "text"}
Without(l, S) == [f \in DOMAIN l \ S |-> l[f]]
Links ==
    {Link(x1), [f \in Required \cup {"note"} |-> IF f = "note" THEN Of("int", x2) ELSE Link(x1)[f]],
     [Link(x1) EXCEPT !["cav"] = Of("list", <<"map", "int">>)]}
    \cup {Without(Link(x1), {f}) : f \in Required}
    \cup {[Link(x1) EXCEPT ![f] = Of(t, <<>>)] : f \in Required, t \in Types}
SelfReferring == {[Link(x1) EXCEPT !["meta"] = Of("map", Cyclic)]}

Sealed(l) == Of("map", l)
Bytes(n, v) == [py |-> "bytes", len |-> n, holds |-> v]
Str(p, a, n, e, j, v) == [py |-> "str", prefix |-> p, ascii |-> a, chars |-> n, eq |-> e,
                          junk |-> j, spells |-> Bytes((3 * n) \div 4, v)]
ListsOf(S) == {Of("list", <<Sealed(l)>>) : l \in S}
              \cup {Of("list", <<Sealed(Link(x2)), Sealed(l)>>) : l \in S}
Decoded == ListsOf(Links) \cup {Of("list", <<>>), Of("list", <<Of("int", x1)>>), Of("map", <<>>),
                                Of("garbage", <<>>),
                                Of("list", [k \in 1..(MAX_DEPTH + 1) |-> Sealed(Link(x1))])}
Plain == {[py |-> "other"]} \cup {Bytes(n, v) : n \in {MAX_BYTES, MAX_BYTES + 1}, v \in Decoded}
         \cup {Str(p, a, n, e, j, v) : p \in BOOLEAN, a \in BOOLEAN,
                   n \in {20, 21, 22, 23, 2 * MAX_BYTES - PrefixLen}, e \in 0..2, j \in 0..3,
                   v \in ListsOf({Link(x1)})}
Inputs == Plain \cup {Bytes(MAX_BYTES, v) : v \in ListsOf(SelfReferring)}
=============================================================================

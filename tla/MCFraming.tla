----------------------------- MODULE MCFraming -----------------------------
(* Bytes 0 and 1; values are byte strings, encoded behind their length.    *)
EXTENDS Framing

Strings(n) == UNION {[1..k -> Byte] : k \in 0..n}
Values == Strings(1)
Lengthed(v) == <<Len(v)>> \o v
Sig == <<1, 0>>
LinkDomain == <<0, 0>>
Pop == <<1, 1>>
Approval == <<0, 1, 0>>
OneByte == {<<0>>, <<1>>}
AnyLength == Strings(2) \ {<<>>}
Ids == {<<0>>}
Audiences == Strings(1)
=============================================================================

----------------------------- MODULE ParseProofs -----------------------------
(***************************************************************************)
(* Proofs about Parse.tla, for any caps, any size of a link, any list of   *)
(* links that the library makes and anything else that a caller presents.  *)
(*                                                                         *)
(* The links read so far are the first elements of the list, stripped to   *)
(* the fields of a Link (Prefix); what is read of a credential's own text  *)
(* or bytes is at each stage what was written (Faithful), by the library   *)
(* or by a holder that parsed it before.                                   *)
(***************************************************************************)
EXTENDS Parse, TLAPS

\* The text a credential is written to stays below the cap on texts when its
\* bytes are within theirs.
LEMMA TextFits ==
    ASSUME NEW n \in Nat, n <= MAX_BYTES
    PROVE  PrefixLen + B64Chars(n) <= 2 * MAX_BYTES
BY CapAssumption DEF PrefixLen, B64Chars

\* Three bytes are four characters, so never one more than a multiple of four,
\* and the padding put back is what was taken off.
LEMMA PaddingFits ==
    ASSUME NEW n \in Nat, NEW s, s.ascii, s.chars = B64Chars(n), s.eq = 0, s.junk = 0
    PROVE  B64Decodes(s)
<1>1. PICK a \in Nat, r \in 0..2 : n = 3 * a + r
  <2>1. n \div 3 \in Nat /\ n % 3 \in 0..2 /\ n = 3 * (n \div 3) + (n % 3)
    OBVIOUS
  <2> QED BY <2>1
<1>2. \E k \in {0, 2, 3} : s.chars = 4 * a + k
  BY <1>1 DEF B64Chars
<1>3. PICK k \in {0, 2, 3} : s.chars = 4 * a + k
  BY <1>2
<1>4. s.chars % 4 = k
  BY <1>3
<1>5. (-TextLen(s)) % 4 = (4 - k) % 4
  <2>1. -TextLen(s) = 4 * (-a - 1) + (4 - k)
    BY <1>3 DEF TextLen
  <2>2. \A m \in Int : (4 * m + (4 - k)) % 4 = (4 - k) % 4
    OBVIOUS
  <2>3. -a - 1 \in Int
    OBVIOUS
  <2> QED BY <2>1, <2>2, <2>3
<1>6. Padding(s) = (4 - k) % 4
  BY <1>5 DEF Padding
<1>7. CASE k = 0
  BY <1>4, <1>7 DEF B64Decodes
<1>8. CASE k = 2
  BY <1>4, <1>6, <1>8 DEF B64Decodes
<1>9. CASE k = 3
  BY <1>4, <1>6, <1>9 DEF B64Decodes
<1> QED BY <1>7, <1>8, <1>9

\* What is written is within the checks of from_string when it is within the
\* cap on bytes, and within those of from_bytes when it is within both.
LEMMA WrittenPasses ==
    ASSUME NEW ls, WellMade(ls)
    PROVE  /\ IsBytes(to_bytes(ls))
           /\ to_bytes(ls).len \in Nat
           /\ to_bytes(ls).len <= MAX_BYTES => StringOK(to_string(ls))
           /\ to_bytes(ls).len <= MAX_BYTES /\ Len(ls) <= MAX_DEPTH => BytesOK(to_bytes(ls))
           /\ Len(to_bytes(ls).holds.c) = Len(ls)
           /\ DOMAIN to_bytes(ls).holds.c = DOMAIN ls
<1> DEFINE c == to_bytes(ls).holds.c
           n == to_bytes(ls).len
           t == to_string(ls)
<1>1. ls \in Seq({ls[k] : k \in DOMAIN ls}) /\ ls # <<>>
  BY DEF WellMade
<1>2. Len(ls) \in Nat \ {0} /\ DOMAIN ls = 1..Len(ls)
  BY <1>1
<1>3. c = [k \in DOMAIN ls |-> sealed(ls[k])] /\ DOMAIN c = DOMAIN ls
  BY DEF to_bytes
<1>4. c \in Seq({c[k] : k \in DOMAIN c}) /\ Len(c) = Len(ls) /\ c # <<>>
  <2> HIDE DEF c
  <2>1. DOMAIN c = 1..Len(ls) /\ c = [k \in 1..Len(ls) |-> c[k]]
    BY <1>2, <1>3
  <2> QED BY <1>2, <2>1
<1>5. /\ to_bytes(ls).py = "bytes" /\ to_bytes(ls).holds.t = "list"
      /\ n = 1 + LinkSize * Len(ls)
  BY DEF to_bytes
<1>6. n \in Nat
  BY <1>2, <1>5, SizeAssumption
<1>7. t.prefix /\ t.ascii /\ t.chars = B64Chars(n) /\ t.eq = 0 /\ t.junk = 0
  BY DEF to_string
<1> HIDE DEF c, n, t
<1>8. ASSUME n <= MAX_BYTES PROVE StringOK(t)
  <2>1. PrefixLen + TextLen(t) <= 2 * MAX_BYTES
    <3>1. PrefixLen + B64Chars(n) <= 2 * MAX_BYTES
      BY <1>6, <1>8, TextFits
    <3>2. B64Chars(n) \in Int
      BY <1>6 DEF B64Chars
    <3> QED BY <1>7, <3>1, <3>2 DEF PrefixLen, TextLen
  <2>2. B64Decodes(t)
    BY <1>6, <1>7, PaddingFits
  <2> QED BY <1>7, <2>1, <2>2 DEF StringOK
<1>9. IsBytes(to_bytes(ls))
  BY <1>4, <1>5 DEF IsBytes, c
<1>10. n <= MAX_BYTES /\ Len(ls) <= MAX_DEPTH => BytesOK(to_bytes(ls))
  BY <1>4, <1>5 DEF BytesOK, c, n
<1> QED BY <1>3, <1>4, <1>6, <1>8, <1>9, <1>10 DEF c, n, t

\* No read of from_sealed fails, since presence and containers are checked
\* before; what it lets through has its fields and their types.
LEMMA SealedCases ==
    ASSUME NEW w
    PROVE  /\ FromSealed(w) \in {"ok", "VerifyError"}
           /\ FromSealed(w) = "ok" <=>
                 /\ w.t = "map" /\ Required \subseteq DOMAIN w.c
                 /\ Binary(w.c) /\ Containers(w.c) /\ CaveatsAreMaps(w.c) /\ Integral(w.c)
<1>1. Present(w.c) => /\ ByteFields \subseteq DOMAIN w.c /\ {"cav", "meta"} \subseteq DOMAIN w.c
                      /\ IntFields \subseteq DOMAIN w.c
  BY DEF Present, Required, ByteFields, IntFields
<1>2. Containers(w.c) => w.c["cav"].t \notin {"int", "bool"}
  BY DEF Containers
<1> QED BY <1>1, <1>2 DEF FromSealed, Present

\* from_sealed keeps the fields of a Link, with their types.
LEMMA LinkTyped ==
    ASSUME NEW w, FromSealed(w) = "ok", NEW l, l = LinkOf(w)
    PROVE  /\ l = [f \in Required |-> l[f]]
           /\ Binary(l) /\ Containers(l) /\ CaveatsAreMaps(l) /\ Integral(l)
<1>1. Binary(w.c) /\ Containers(w.c) /\ CaveatsAreMaps(w.c) /\ Integral(w.c)
  BY SealedCases
<1>2. DOMAIN l = Required /\ \A f \in Required : l[f] = w.c[f]
  BY DEF LinkOf
<1>3. l = [f \in Required |-> l[f]]
  BY DEF LinkOf
<1>4. Binary(l) /\ Containers(l) /\ CaveatsAreMaps(l) /\ Integral(l)
  BY <1>1, <1>2 DEF Binary, Containers, CaveatsAreMaps, Integral, ByteFields, IntFields, Required
<1> QED BY <1>3, <1>4

\* A link that was written comes back as it is.
LEMMA LinkReadBack ==
    ASSUME NEW ls, WellMade(ls), NEW k \in DOMAIN ls, NEW w, w = sealed(ls[k])
    PROVE  FromSealed(w) = "ok" /\ LinkOf(w) = ls[k]
<1>1. /\ ls[k] = [f \in Required |-> ls[k][f]]
      /\ Binary(ls[k]) /\ Containers(ls[k]) /\ CaveatsAreMaps(ls[k]) /\ Integral(ls[k])
  BY DEF WellMade
<1>2. w.t = "map" /\ w.c = ls[k]
  BY <1>1 DEF sealed
<1>3. DOMAIN ls[k] = Required
  BY <1>1
<1>4. FromSealed(w) = "ok"
  BY <1>1, <1>2, <1>3, SealedCases
<1> QED BY <1>1, <1>2, <1>4 DEF LinkOf

-----------------------------------------------------------------------------
(* The inductive invariant. *)

\* What is read is a text that spells bytes, bytes, or another object.
Readable ==
    /\ stage = "string" => data.py = "str" /\ IsBytes(data.spells)
    /\ stage = "bytes" => data.py = "other" \/ IsBytes(data)

\* The links are the first elements of arr, each accepted by from_sealed and
\* stripped to the fields of a Link.
Prefix ==
    /\ arr \in Seq({arr[k] : k \in DOMAIN arr}) /\ Len(arr) <= MAX_DEPTH
    /\ links \in Seq({LinkOf(arr[k]) : k \in DOMAIN arr}) /\ Len(links) <= Len(arr)
    /\ \A k \in DOMAIN links : FromSealed(arr[k]) = "ok" /\ links[k] = LinkOf(arr[k])
    /\ stage \in {"idle", "string", "bytes"} => arr = <<>>
    /\ stage \in {"links", "parsed", "ok", "EncodeError"} => arr # <<>>
    /\ stage \in {"parsed", "ok", "EncodeError"} => Len(links) = Len(arr)

\* Reading what the library wrote.
WithinCaps == Len(source) <= MAX_DEPTH /\ to_bytes(source).len <= MAX_BYTES
Faithful ==
    source # NoList =>
        /\ stage = "string" => data = to_string(source)
        /\ stage = "bytes" => data = to_bytes(source)
        /\ stage \in {"links", "parsed", "ok", "EncodeError"} => arr = to_bytes(source).holds.c
        /\ stage = "VerifyError" /\ WithinCaps =>
               arr = to_bytes(source).holds.c /\ Len(links) = Len(arr)

Inv == TypeOK /\ Readable /\ Prefix /\ Faithful

LEMMA InitInv == Init => Inv
<1> SUFFICES ASSUME Init PROVE Inv
  OBVIOUS
<1>1. stage = "idle" /\ data.py = "none" /\ arr = <<>> /\ links = <<>> /\ source = NoList
  BY DEF Init, NoList
<1>2. \A S : <<>> \in Seq(S) /\ Len(<<>>) = 0 /\ DOMAIN <<>> = {}
  OBVIOUS
<1>3. TypeOK
  BY <1>1, <1>2, CapAssumption DEF TypeOK, Stages
<1>4. Prefix
  BY <1>1, <1>2, CapAssumption DEF Prefix
<1> QED BY <1>1, <1>3, <1>4 DEF Inv, Readable, Faithful

LEMMA BeginInv == ASSUME Inv, BeginStep PROVE Inv'
<1> USE DEF Inv
<1>1. ASSUME NEW x, NEW made, Begin(x, made),
             \/ made \in Made /\ (x = to_string(made) \/ x = to_bytes(made))
             \/ x \in Foreign /\ made = NoList
      PROVE  Inv'
  <2>1. /\ stage = "idle" /\ data' = x /\ source' = made /\ UNCHANGED <<arr, links>>
        /\ x.py = "str" => stage' = "string"
        /\ x.py # "str" => stage' = "bytes"
    BY <1>1 DEF Begin
  <2>2. CASE made \in Made /\ (x = to_string(made) \/ x = to_bytes(made))
    <3>1. IsBytes(to_bytes(made)) /\ WellMade(made)
      BY <2>2, WrittenPasses, MadeAssumption
    <3>2. /\ x = to_string(made) => x.py = "str" /\ x.spells = to_bytes(made)
          /\ x = to_bytes(made) => x.py = "bytes"
      BY <3>1 DEF to_string, to_bytes
    <3>3. TypeOK'
      BY <2>1, <2>2, <3>1, <3>2 DEF TypeOK, Stages
    <3>4. Readable'
      BY <2>1, <2>2, <3>1, <3>2 DEF Readable, IsBytes
    <3>5. Prefix'
      BY <2>1 DEF Prefix
    <3>6. Faithful'
      BY <2>1, <2>2, <3>2 DEF Faithful
    <3> QED BY <3>3, <3>4, <3>5, <3>6
  <2>3. CASE x \in Foreign /\ made = NoList
    <3>1. IsBytes(x) \/ x.py = "other" \/ (x.py = "str" /\ IsBytes(x.spells))
      BY <2>3, ForeignAssumption
    <3>2. x.py \in {"str", "bytes", "other"}
      BY <3>1 DEF IsBytes
    <3>3. TypeOK'
      BY <2>1, <2>3, <3>2 DEF TypeOK, Stages
    <3>4. Readable'
      BY <2>1, <3>1 DEF Readable, IsBytes
    <3>5. Prefix'
      BY <2>1 DEF Prefix
    <3> QED BY <2>1, <2>3, <3>3, <3>4, <3>5 DEF Faithful
  <2> QED BY <1>1, <2>2, <2>3
<1> QED BY <1>1 DEF BeginStep

LEMMA FromStringInv == ASSUME Inv, FromString PROVE Inv'
<1> USE DEF Inv
<1>1. /\ stage = "string" /\ UNCHANGED <<arr, links, source>>
      /\ \/ StringOK(data) /\ stage' = "bytes" /\ data' = data.spells
         \/ ~StringOK(data) /\ stage' = "VerifyError" /\ data' = data
  BY DEF FromString
<1>2. data.py = "str" /\ IsBytes(data.spells)
  BY <1>1 DEF Readable
<1>3. TypeOK'
  BY <1>1, <1>2 DEF TypeOK, Stages, IsBytes
<1>4. Readable'
  BY <1>1, <1>2 DEF Readable
<1>5. Prefix'
  BY <1>1 DEF Prefix
<1>6. Faithful'
  <2>1. SUFFICES ASSUME source # NoList PROVE Faithful'
    BY <1>1 DEF Faithful
  <2>2. WellMade(source) /\ data = to_string(source)
    BY <1>1, <2>1 DEF TypeOK, Faithful
  <2>3. to_string(source).spells = to_bytes(source)
    BY DEF to_string
  <2>4. to_bytes(source).len <= MAX_BYTES => StringOK(data)
    BY <2>2, WrittenPasses
  <2> QED BY <1>1, <2>2, <2>3, <2>4 DEF Faithful, WithinCaps
<1> QED BY <1>3, <1>4, <1>5, <1>6

LEMMA FromBytesInv == ASSUME Inv, FromBytes PROVE Inv'
<1> USE DEF Inv
<1>1. /\ stage = "bytes" /\ UNCHANGED <<data, links, source>>
      /\ \/ BytesOK(data) /\ stage' = "links" /\ arr' = data.holds.c
         \/ ~BytesOK(data) /\ stage' = "VerifyError" /\ arr' = arr
  BY DEF FromBytes
<1>2. data.py = "other" \/ IsBytes(data)
  BY <1>1 DEF Readable
<1>3. BytesOK(data) => /\ arr' \in Seq({arr'[k] : k \in DOMAIN arr'})
                       /\ arr' # <<>> /\ Len(arr') <= MAX_DEPTH
  BY <1>1, <1>2 DEF BytesOK, IsBytes
<1>4. arr = <<>> /\ links = <<>>
  <2>1. arr = <<>>
    BY <1>1 DEF Prefix
  <2>2. links \in Seq({LinkOf(arr[k]) : k \in DOMAIN arr}) /\ Len(links) <= 0
    BY <2>1 DEF Prefix
  <2> QED BY <2>1, <2>2
<1>5. Prefix'
  <2>1. CASE BytesOK(data)
    <3>1. stage' = "links" /\ links' = <<>>
      BY <1>1, <1>4, <2>1
    <3>2. \A S : <<>> \in Seq(S) /\ Len(<<>>) = 0 /\ DOMAIN <<>> = {}
      OBVIOUS
    <3>3. Len(arr') \in Nat
      BY <1>3, <2>1
    <3> QED BY <1>3, <2>1, <3>1, <3>2, <3>3 DEF Prefix
  <2>2. CASE ~BytesOK(data)
    BY <1>1, <2>2 DEF Prefix
  <2> QED BY <2>1, <2>2
<1>6. TypeOK'
  BY <1>1, <1>5 DEF TypeOK, Stages, Prefix
<1>7. Readable'
  BY <1>1 DEF Readable
<1>8. Faithful'
  <2>1. SUFFICES ASSUME source # NoList PROVE Faithful'
    BY <1>1 DEF Faithful
  <2>2. WellMade(source) /\ data = to_bytes(source)
    BY <1>1, <2>1 DEF TypeOK, Faithful
  <2>3. WithinCaps => BytesOK(data)
    BY <2>2, WrittenPasses DEF WithinCaps
  <2>4. WithinCaps' <=> WithinCaps
    BY <1>1 DEF WithinCaps
  <2> QED BY <1>1, <2>2, <2>3, <2>4 DEF Faithful
<1> QED BY <1>5, <1>6, <1>7, <1>8

LEMMA NextLinkInv == ASSUME Inv, NextLink PROVE Inv'
<1> USE DEF Inv
<1> DEFINE w == arr[Len(links) + 1]
<1>1. /\ stage = "links" /\ Len(links) < Len(arr) /\ UNCHANGED <<data, arr, source>>
      /\ \/ FromSealed(w) = "ok" /\ links' = Append(links, LinkOf(w)) /\ stage' = stage
         \/ FromSealed(w) = "VerifyError" /\ stage' = "VerifyError" /\ links' = links
  BY SealedCases DEF NextLink
<1>2. /\ arr \in Seq({arr[k] : k \in DOMAIN arr})
      /\ links \in Seq({LinkOf(arr[k]) : k \in DOMAIN arr})
  BY DEF Prefix
<1>3. Len(links) \in Nat /\ Len(arr) \in Nat /\ Len(links) + 1 \in DOMAIN arr
  BY <1>1, <1>2
<1>4. CASE FromSealed(w) = "VerifyError"
  <2>1. stage' = "VerifyError" /\ links' = links
    BY <1>1, <1>4
  <2>2. TypeOK' /\ Readable' /\ Prefix'
    BY <1>1, <2>1 DEF TypeOK, Stages, Readable, Prefix
  <2>3. source = NoList
    <3>1. SUFFICES ASSUME source # NoList PROVE FALSE
      OBVIOUS
    <3>2. WellMade(source) /\ arr = to_bytes(source).holds.c
      BY <1>1, <3>1 DEF TypeOK, Faithful
    <3>3. arr = [k \in DOMAIN source |-> sealed(source[k])]
      BY <3>2 DEF to_bytes
    <3>4. Len(links) + 1 \in DOMAIN source /\ w = sealed(source[Len(links) + 1])
      BY <1>3, <3>3
    <3> QED BY <1>4, <3>2, <3>4, LinkReadBack
  <2> QED BY <1>1, <2>2, <2>3 DEF Faithful
<1>5. CASE FromSealed(w) = "ok"
  <2>1. stage' = "links" /\ links' = Append(links, LinkOf(w))
    BY <1>1, <1>5
  <2>2. /\ links' \in Seq({LinkOf(arr[k]) : k \in DOMAIN arr})
        /\ Len(links') = Len(links) + 1
        /\ \A k \in DOMAIN links' :
              \/ k \in DOMAIN links /\ links'[k] = links[k]
              \/ k = Len(links) + 1 /\ links'[k] = LinkOf(w)
    BY <1>2, <1>3, <2>1
  <2>3. Prefix'
    <3>1. ASSUME NEW k \in DOMAIN links'
          PROVE  FromSealed(arr[k]) = "ok" /\ links'[k] = LinkOf(arr[k])
      BY <1>5, <2>2 DEF Prefix
    <3> QED BY <1>1, <1>3, <2>1, <2>2, <3>1 DEF Prefix
  <2>4. TypeOK'
    BY <1>1, <1>3, <2>1, <2>2 DEF TypeOK
  <2> QED BY <1>1, <2>1, <2>3, <2>4 DEF Readable, Faithful
<1> QED BY <1>1, <1>4, <1>5

\* verify_chain takes a parsed list as it is; Return forgets everything.
LEMMA EndInv ==
    ASSUME Inv, Parsed \/ VerifyRefuses \/ VerifyEncodes \/ Return \/ UNCHANGED vars
    PROVE  Inv'
<1> USE DEF Inv
<1>1. CASE Parsed
  <2>1. /\ stage = "links" /\ Len(links) = Len(arr) /\ stage' = "parsed"
        /\ UNCHANGED <<data, arr, links, source>>
    BY <1>1 DEF Parsed
  <2> QED BY <2>1 DEF TypeOK, Stages, Readable, Prefix, Faithful
<1>2. CASE VerifyRefuses \/ VerifyEncodes
  <2>1. /\ stage = "parsed" /\ stage' \in {"VerifyError", "ok", "EncodeError"}
        /\ UNCHANGED <<data, arr, links, source>>
    BY <1>2 DEF VerifyRefuses, VerifyEncodes
  <2>2. TypeOK' /\ Readable' /\ Prefix'
    BY <2>1 DEF TypeOK, Stages, Readable, Prefix
  <2>3. Len(links) = Len(arr)
    BY <2>1 DEF Prefix
  <2> QED BY <2>1, <2>2, <2>3 DEF Faithful
<1>3. CASE Return
  <2>1. Init'
    BY <1>3 DEF Return, Init
  <2>2. stage' = "idle" /\ data'.py = "none" /\ arr' = <<>> /\ links' = <<>> /\ source' = NoList
    BY <1>3 DEF Return, NoList
  <2>3. \A S : <<>> \in Seq(S) /\ Len(<<>>) = 0 /\ DOMAIN <<>> = {}
    OBVIOUS
  <2>4. TypeOK'
    BY <2>2, <2>3, CapAssumption DEF TypeOK, Stages
  <2>5. Prefix'
    BY <2>2, <2>3, CapAssumption DEF Prefix
  <2> QED BY <2>2, <2>4, <2>5 DEF Readable, Faithful
<1>4. CASE UNCHANGED vars
  BY <1>4 DEF vars, TypeOK, Readable, Prefix, Faithful, WithinCaps
<1> QED BY <1>1, <1>2, <1>3, <1>4

\* What a holder passes on is well made, because from_sealed let it through.
LEMMA PassOnInv == ASSUME Inv, PassOn PROVE Inv'
<1> USE DEF Inv
<1>1. /\ stage = "parsed" /\ stage' = "string" /\ data' = to_string(links)
      /\ source' = links /\ arr' = <<>> /\ links' = <<>>
  BY DEF PassOn, NoList
<1>2. WellMade(links)
  <2>1. /\ links \in Seq({LinkOf(arr[k]) : k \in DOMAIN arr}) /\ Len(links) = Len(arr)
        /\ arr \in Seq({arr[k] : k \in DOMAIN arr}) /\ arr # <<>>
        /\ \A k \in DOMAIN links : FromSealed(arr[k]) = "ok" /\ links[k] = LinkOf(arr[k])
    BY <1>1 DEF Prefix
  <2>2. links # <<>> /\ links \in Seq({links[k] : k \in DOMAIN links})
    BY <2>1
  <2>3. \A k \in DOMAIN links :
            /\ links[k] = [f \in Required |-> links[k][f]]
            /\ Binary(links[k]) /\ Containers(links[k]) /\ CaveatsAreMaps(links[k])
            /\ Integral(links[k])
    BY <2>1, LinkTyped
  <2> QED BY <2>2, <2>3 DEF WellMade
<1>3. \A S : <<>> \in Seq(S) /\ Len(<<>>) = 0 /\ DOMAIN <<>> = {}
  OBVIOUS
<1>4. to_string(links).py = "str" /\ to_string(links).spells = to_bytes(links)
  BY DEF to_string
<1>5. TypeOK'
  BY <1>1, <1>2, <1>3, <1>4, CapAssumption DEF TypeOK, Stages
<1>6. Readable'
  BY <1>1, <1>2, <1>4, WrittenPasses DEF Readable
<1>7. Prefix'
  BY <1>1, <1>3, CapAssumption DEF Prefix
<1>8. Faithful'
  BY <1>1 DEF Faithful
<1> QED BY <1>5, <1>6, <1>7, <1>8

\* The conjuncts of Inv hold in every state of every behaviour.
THEOREM Invariance == Spec => []Inv
<1>1. Inv /\ [Next]_vars => Inv'
  BY BeginInv, FromStringInv, FromBytesInv, NextLinkInv, PassOnInv, EndInv DEF Next
<1> QED BY InitInv, <1>1, PTL DEF Spec

-----------------------------------------------------------------------------
(* What parsing promises. *)

\* The variables have their types: among others, from_bytes never hands on
\* more than MAX_DEPTH elements (credential.py from_bytes).
THEOREM Typing == Spec => []TypeOK
<1>1. Inv => TypeOK
  BY DEF Inv
<1> QED BY <1>1, Invariance, PTL

\* What to_string and to_bytes write, of links that the library made or of links
\* that were parsed from anything, parse reads back as the same links, and
\* refuses for no cap when it is within MAX_BYTES and MAX_DEPTH
\* (credential.py from_string, from_bytes, from_sealed): for every length, the
\* text is below the cap on texts and its padding is restored exactly.
THEOREM ReadBack == Spec => []RoundTrip
<1>1. Inv => RoundTrip
  <2> SUFFICES ASSUME Inv, source # NoList
               PROVE  /\ (Len(source) <= MAX_DEPTH /\ to_bytes(source).len <= MAX_BYTES) =>
                             (stage = "VerifyError" => Len(links) = Len(source))
                      /\ stage \in {"parsed", "ok"} => links = source
    BY DEF RoundTrip
  <2>1. WellMade(source)
    BY DEF Inv, TypeOK
  <2>2. Len(to_bytes(source).holds.c) = Len(source)
    BY <2>1, WrittenPasses
  <2>3. ASSUME stage \in {"parsed", "ok"} PROVE links = source
    <3>1. /\ arr = to_bytes(source).holds.c /\ Len(links) = Len(arr)
          /\ links \in Seq({LinkOf(arr[k]) : k \in DOMAIN arr})
          /\ \A k \in DOMAIN links : links[k] = LinkOf(arr[k])
      BY <2>3 DEF Inv, Faithful, Prefix
    <3>2. source \in Seq({source[k] : k \in DOMAIN source})
      BY <2>1 DEF WellMade
    <3>3. DOMAIN links = DOMAIN source
      BY <2>2, <3>1, <3>2
    <3>4. arr = [k \in DOMAIN source |-> sealed(source[k])]
      BY <3>1 DEF to_bytes
    <3>5. \A k \in DOMAIN source : links[k] = source[k]
      BY <2>1, <3>1, <3>3, <3>4, LinkReadBack
    <3> QED BY <2>2, <3>1, <3>2, <3>3, <3>5
  <2> QED BY <2>2, <2>3 DEF Inv, Faithful, WithinCaps
<1> QED BY <1>1, Invariance, PTL

\* Whatever is presented, parse itself ends in links or in VerifyError, and no
\* read of from_sealed raises a KeyError or a TypeError: the check that makes a
\* read safe always comes before it (credential.py from_sealed, verify.py parse).
THEOREM FailsClosed == Spec => []ParseFailsClosed
<1>1. Init => ParseFailsClosed
  BY DEF Init, ParseFailsClosed
<1>2. ParseFailsClosed /\ [Next]_vars => ParseFailsClosed'
  <2> SUFFICES ASSUME ParseFailsClosed, [Next]_vars PROVE ParseFailsClosed'
    OBVIOUS
  <2>1. CASE NextLink
    <3>1. \A w : FromSealed(w) \in {"ok", "VerifyError"}
      BY SealedCases
    <3> QED BY <2>1, <3>1 DEF ParseFailsClosed, NextLink
  <2>2. CASE BeginStep \/ FromString \/ FromBytes \/ Parsed
    BY <2>2 DEF ParseFailsClosed, BeginStep, Begin, FromString, FromBytes, Parsed
  <2>3. CASE VerifyRefuses \/ VerifyEncodes \/ PassOn \/ Return \/ UNCHANGED vars
    BY <2>3 DEF ParseFailsClosed, VerifyRefuses, VerifyEncodes, PassOn, Return, vars
  <2> QED BY <2>1, <2>2, <2>3 DEF Next
<1> QED BY <1>1, <1>2, PTL DEF Spec
=============================================================================

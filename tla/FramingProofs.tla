--------------------------- MODULE FramingProofs ---------------------------
(***************************************************************************)
(* For all bytes, encodings and keys, nonces of any length, and any number *)
(* of signatures: what a signature on bytes says of the fields.            *)
(***************************************************************************)
EXTENDS Framing, SequenceTheorems, TLAPS

\* What concatenation is, for byte strings.
LEMMA Concat ==
    ASSUME NEW a \in Bytes, NEW s \in Bytes
    PROVE  /\ a \o s \in Bytes
           /\ Len(a) \in Nat /\ Len(s) \in Nat
           /\ Len(a \o s) = Len(a) + Len(s)
           /\ \A n \in 1..Len(a) : (a \o s)[n] = a[n]
           /\ \A n \in 1..Len(s) : (a \o s)[Len(a) + n] = s[n]
<1>1. Len(a) \in Nat /\ Len(s) \in Nat
  BY LenProperties DEF Bytes
<1>2. /\ a \o s \in Seq(Byte)
      /\ Len(a \o s) = Len(a) + Len(s)
      /\ \A n \in 1 .. Len(a) + Len(s) : (a \o s)[n] = IF n <= Len(a) THEN a[n] ELSE s[n - Len(a)]
  BY ConcatProperties DEF Bytes
<1>3. ASSUME NEW n \in 1..Len(a) PROVE (a \o s)[n] = a[n]
  BY <1>1, <1>2, <1>3
<1>4. ASSUME NEW n \in 1..Len(s) PROVE (a \o s)[Len(a) + n] = s[n]
  <2>1. Len(a) + n \in 1 .. Len(a) + Len(s) /\ ~(Len(a) + n <= Len(a)) /\ (Len(a) + n) - Len(a) = n
    BY <1>1
  <2> QED BY <1>2, <2>1
<1> QED BY <1>1, <1>2, <1>3, <1>4 DEF Bytes

\* Two concatenations whose first parts are of one length have the same parts.
LEMMA Split ==
    ASSUME NEW a \in Bytes, NEW b \in Bytes, NEW s \in Bytes, NEW t \in Bytes,
           Len(a) = Len(b), a \o s = b \o t
    PROVE  a = b /\ s = t
<1>1. /\ Len(a) \in Nat /\ Len(s) \in Nat /\ Len(a \o s) = Len(a) + Len(s)
      /\ Len(b) \in Nat /\ Len(t) \in Nat /\ Len(b \o t) = Len(b) + Len(t)
  <2>1. Len(a) \in Nat /\ Len(s) \in Nat /\ Len(a \o s) = Len(a) + Len(s)
    BY Concat
  <2>2. Len(b) \in Nat /\ Len(t) \in Nat /\ Len(b \o t) = Len(b) + Len(t)
    BY Concat
  <2> QED BY <2>1, <2>2
<1>2. Len(s) = Len(t)
  BY <1>1
<1>3. \A n \in 1..Len(a) : a[n] = b[n]
  BY Concat
<1>4. \A n \in 1..Len(s) : s[n] = t[n]
  <2>1. \A n \in 1..Len(s) : (a \o s)[Len(a) + n] = s[n]
    BY Concat
  <2>2. \A n \in 1..Len(t) : (b \o t)[Len(b) + n] = t[n]
    BY Concat
  <2> QED BY <1>2, <2>1, <2>2
<1> QED BY <1>2, <1>3, <1>4, SeqEqual DEF Bytes

\* Of two first parts of one concatenation, the longer starts with the other.
LEMMA LongerStarts ==
    ASSUME NEW a \in Bytes, NEW b \in Bytes, NEW s \in Bytes, NEW t \in Bytes,
           Len(b) <= Len(a), a \o s = b \o t
    PROVE  StartsWith(a, b)
<1>1. Len(a) \in Nat /\ Len(b) \in Nat
  BY Concat
<1>2. \A n \in 1..Len(b) : a[n] = b[n]
  <2> TAKE n \in 1..Len(b)
  <2>1. n \in 1..Len(a)
    BY <1>1
  <2> QED BY <2>1, Concat
<1>3. \A n \in 1..Len(b) : a[n] \in Byte
  BY <1>2, ElementOfSeq DEF Bytes
<1>4. /\ SubSeq(a, 1, Len(b)) \in Seq(Byte)
      /\ Len(SubSeq(a, 1, Len(b))) = Len(b)
      /\ \A n \in 1..Len(b) : SubSeq(a, 1, Len(b))[n] = a[n]
  BY <1>1, <1>3, SubSeqProperties
<1>5. SubSeq(a, 1, Len(b)) = b
  BY <1>2, <1>4, SeqEqual DEF Bytes
<1> QED BY <1>5 DEF StartsWith

\* Messages of different domains differ.
LEMMA DomainsApart ==
    ASSUME NEW a \in Bytes, NEW b \in Bytes, NEW s \in Bytes, NEW t \in Bytes,
           ~StartsWith(a, b), ~StartsWith(b, a)
    PROVE  a \o s # b \o t
<1>1. Len(a) \in Nat /\ Len(b) \in Nat
  BY Concat
<1>2. CASE Len(b) <= Len(a)
  BY <1>2, LongerStarts
<1>3. CASE Len(a) <= Len(b)
  BY <1>3, LongerStarts
<1> QED BY <1>1, <1>2, <1>3

\* An encoding tells where it ends.
LEMMA CencSplit ==
    ASSUME NEW u \in Value, NEW v \in Value, NEW s \in Bytes, NEW t \in Bytes,
           cenc(u) \o s = cenc(v) \o t
    PROVE  u = v /\ s = t
<1>1. cenc(u) \in Bytes /\ cenc(v) \in Bytes
  BY BytesAssumption
<1>2. u = v
  BY <1>1, DomainsApart, EncodingAssumption
<1>3. s = t
  BY <1>1, <1>2, Split
<1> QED BY <1>2, <1>3
-----------------------------------------------------------------------------
(* Below this line concatenation is opaque: these facts are all that is    *)
(* used of it.                                                             *)

Cat(a, s) == a \o s

LEMMA CatBytes == \A a, s \in Bytes : Cat(a, s) \in Bytes
BY Concat DEF Cat

LEMMA CatAssociative ==
    \A a, b, c \in Bytes : Cat(Cat(a, b), c) = Cat(a, Cat(b, c))
BY ConcatAssociative DEF Cat, Bytes

\* Parts of one width, or encodings, in front of bytes.
LEMMA CatWide ==
    ASSUME NEW W, W \subseteq Bytes, \A a, b \in W : Len(a) = Len(b),
           NEW a \in W, NEW b \in W, NEW s \in Bytes, NEW t \in Bytes,
           Cat(a, s) = Cat(b, t)
    PROVE  a = b /\ s = t
<1>1. a \in Bytes /\ b \in Bytes /\ Len(a) = Len(b)
  OBVIOUS
<1>2. a \o s = b \o t
  BY Zenon DEF Cat
<1> QED BY <1>1, <1>2, Split, Zenon

LEMMA CatEncoding ==
    \A u, v \in Value, s, t \in Bytes : Cat(cenc(u), s) = Cat(cenc(v), t) => u = v /\ s = t
BY CencSplit DEF Cat

\* A message is its parts from the left, or from the right.
LEMMA Regroup ==
    ASSUME NEW a \in Bytes, NEW b \in Bytes, NEW c \in Bytes, NEW e \in Bytes,
           NEW f \in Bytes, NEW g \in Bytes
    PROVE  Cat(Cat(Cat(Cat(Cat(a, b), c), e), f), g) = Cat(a, Cat(b, Cat(c, Cat(e, Cat(f, g)))))
<1>1. Cat(a, b) \in Bytes /\ Cat(f, g) \in Bytes
  BY CatBytes
<1>2. Cat(Cat(a, b), c) \in Bytes /\ Cat(e, Cat(f, g)) \in Bytes
  BY <1>1, CatBytes
<1>3. Cat(Cat(Cat(a, b), c), e) \in Bytes /\ Cat(c, Cat(e, Cat(f, g))) \in Bytes
  BY <1>2, CatBytes
<1>4. Cat(Cat(Cat(Cat(Cat(a, b), c), e), f), g) = Cat(Cat(Cat(Cat(a, b), c), e), Cat(f, g))
  BY <1>3, CatAssociative
<1>5. Cat(Cat(Cat(Cat(a, b), c), e), Cat(f, g)) = Cat(Cat(Cat(a, b), c), Cat(e, Cat(f, g)))
  BY <1>1, <1>2, CatAssociative
<1>6. Cat(Cat(Cat(a, b), c), Cat(e, Cat(f, g))) = Cat(Cat(a, b), Cat(c, Cat(e, Cat(f, g))))
  BY <1>1, <1>2, CatAssociative
<1>7. Cat(Cat(a, b), Cat(c, Cat(e, Cat(f, g)))) = Cat(a, Cat(b, Cat(c, Cat(e, Cat(f, g)))))
  BY <1>3, CatAssociative
<1> QED BY <1>4, <1>5, <1>6, <1>7, Zenon

\* The bytes of a proof or an approval.
LEMMA FromTheLeft ==
    ASSUME NEW d \in Bytes, NEW i \in Id, NEW q \in Value, NEW n \in Nonce,
           NEW x \in Stamp, NEW s \in Bytes
    PROVE  d \o i \o cenc(q) \o n \o x \o s = Cat(d, Cat(i, Cat(cenc(q), Cat(n, Cat(x, s)))))
<1>1. d \o i \o cenc(q) \o n \o x \o s = Cat(Cat(Cat(Cat(Cat(d, i), cenc(q)), n), x), s)
  BY ONLY Zenon DEF Cat
<1>2. i \in Bytes
  BY BytesAssumption
<1>3. cenc(q) \in Bytes
  BY BytesAssumption
<1>4. n \in Bytes
  BY BytesAssumption
<1>5. x \in Bytes
  BY BytesAssumption
<1>6. Cat(Cat(Cat(Cat(Cat(d, i), cenc(q)), n), x), s) = Cat(d, Cat(i, Cat(cenc(q), Cat(n, Cat(x, s)))))
  BY <1>2, <1>3, <1>4, <1>5, Regroup
<1> QED BY <1>1, <1>6, Zenon

PopParts(m) == Cat(m.id, Cat(cenc(m.req), Cat(m.nonce, Cat(m.ts, m.aud))))
ApprovalParts(m) == Cat(m.id, Cat(cenc(m.req), Cat(m.nonce, Cat(m.exp, cenc(m.label)))))

LEMMA PopBytes ==
    ASSUME NEW m \in Pops
    PROVE  pop_msg(m) = Cat(DOMAIN_POP, PopParts(m))
<1> DEFINE i == m.id  q == m.req  n == m.nonce  x == m.ts  s == m.aud
<1>1. DOMAIN_POP \in Bytes
  BY BytesAssumption
<1>2. i \in Id /\ q \in Value /\ n \in Nonce /\ x \in Stamp
  BY DEF Pops
<1>3. s \in Bytes
  BY BytesAssumption DEF Pops
<1> HIDE DEF i, q, n, x, s
<1>4. DOMAIN_POP \o i \o cenc(q) \o n \o x \o s
      = Cat(DOMAIN_POP, Cat(i, Cat(cenc(q), Cat(n, Cat(x, s)))))
  BY <1>1, <1>2, <1>3, FromTheLeft, Zenon
<1> QED BY <1>4, Zenon DEF pop_msg, PopParts, i, q, n, x, s

LEMMA ApprovalBytes ==
    ASSUME NEW m \in Approvals
    PROVE  approval_msg(m) = Cat(APPROVAL_DOMAIN, ApprovalParts(m))
<1> DEFINE i == m.id  q == m.req  n == m.nonce  x == m.exp  s == cenc(m.label)
<1>1. APPROVAL_DOMAIN \in Bytes
  BY BytesAssumption
<1>2. i \in Id /\ q \in Value /\ n \in Nonce /\ x \in Stamp
  BY DEF Approvals
<1>3. s \in Bytes
  BY BytesAssumption DEF Approvals
<1> HIDE DEF i, q, n, x, s
<1>4. APPROVAL_DOMAIN \o i \o cenc(q) \o n \o x \o s
      = Cat(APPROVAL_DOMAIN, Cat(i, Cat(cenc(q), Cat(n, Cat(x, s)))))
  BY <1>1, <1>2, <1>3, FromTheLeft, Zenon
<1> QED BY <1>4, Zenon DEF approval_msg, ApprovalParts, i, q, n, x, s

\* The parts behind a domain are told apart: an id by its width, an encoding by
\* itself; and, behind nonces of one length, a stamp by its width and the rest by
\* what is left.
LEMMA FiveParts ==
    ASSUME NEW i \in Id, NEW q \in Value, NEW n \in Nonce, NEW x \in Stamp, NEW s \in Bytes,
           NEW j \in Id, NEW r \in Value, NEW o \in Nonce, NEW y \in Stamp, NEW t \in Bytes,
           Cat(i, Cat(cenc(q), Cat(n, Cat(x, s)))) = Cat(j, Cat(cenc(r), Cat(o, Cat(y, t))))
    PROVE  i = j /\ q = r /\ (Len(n) = Len(o) => n = o /\ x = y /\ s = t)
<1> DEFINE A1 == Cat(x, s)
           B1 == Cat(y, t)
           A2 == Cat(n, A1)
           B2 == Cat(o, B1)
           A3 == Cat(cenc(q), A2)
           B3 == Cat(cenc(r), B2)
           A4 == Cat(i, A3)
           B4 == Cat(j, B3)
<1>1. /\ i \in Bytes /\ j \in Bytes /\ cenc(q) \in Bytes /\ cenc(r) \in Bytes
      /\ n \in Bytes /\ o \in Bytes /\ x \in Bytes /\ y \in Bytes
  BY BytesAssumption
<1>2. A4 = B4
  OBVIOUS
<1>3. A1 \in Bytes /\ B1 \in Bytes
  BY <1>1, CatBytes
<1>4. A2 \in Bytes /\ B2 \in Bytes
  BY <1>1, <1>3, CatBytes
<1>5. A3 \in Bytes /\ B3 \in Bytes
  BY <1>1, <1>4, CatBytes
<1> HIDE DEF A1, B1, A2, B2, A3, B3, A4, B4
<1>8. i = j /\ A3 = B3
  <2>1. Cat(i, A3) = Cat(j, B3)
    BY <1>2 DEF A4, B4
  <2>2. Id \subseteq Bytes /\ \A a, b \in Id : Len(a) = Len(b)
    BY BytesAssumption, WidthAssumption
  <2> QED BY ONLY <1>5, <2>1, <2>2, CatWide, i \in Id, j \in Id
<1>9. q = r /\ A2 = B2
  BY <1>4, <1>8, CatEncoding DEF A3, B3
<1>10. ASSUME Len(n) = Len(o) PROVE n = o /\ A1 = B1
  <2>1. n \o A1 = o \o B1
    BY <1>9, Zenon DEF A2, B2, Cat
  <2> QED BY <1>1, <1>3, <1>10, <2>1, Split, Zenon
<1>11. ASSUME Len(n) = Len(o) PROVE x = y /\ s = t
  <2>1. Cat(x, s) = Cat(y, t)
    BY <1>10, <1>11 DEF A1, B1
  <2>2. Stamp \subseteq Bytes /\ \A a, b \in Stamp : Len(a) = Len(b)
    BY BytesAssumption, WidthAssumption
  <2> QED BY ONLY <2>1, <2>2, CatWide, x \in Stamp, y \in Stamp, s \in Bytes, t \in Bytes
<1> QED BY <1>8, <1>9, <1>10, <1>11

LEMMA PartsAreBytes ==
    /\ \A m \in Pops : PopParts(m) \in Bytes
    /\ \A m \in Approvals : ApprovalParts(m) \in Bytes
<1>1. ASSUME NEW i \in Bytes, NEW q \in Bytes, NEW n \in Bytes, NEW x \in Bytes, NEW s \in Bytes
      PROVE  Cat(i, Cat(q, Cat(n, Cat(x, s)))) \in Bytes
  BY CatBytes
<1>2. ASSUME NEW m \in Pops PROVE PopParts(m) \in Bytes
  <2>1. m.id \in Bytes /\ cenc(m.req) \in Bytes /\ m.nonce \in Bytes /\ m.ts \in Bytes /\ m.aud \in Bytes
    BY BytesAssumption DEF Pops
  <2> QED BY <1>1, <2>1 DEF PopParts
<1>3. ASSUME NEW m \in Approvals PROVE ApprovalParts(m) \in Bytes
  <2>1. /\ m.id \in Bytes /\ cenc(m.req) \in Bytes /\ m.nonce \in Bytes /\ m.exp \in Bytes
        /\ cenc(m.label) \in Bytes
    BY BytesAssumption DEF Approvals
  <2> QED BY <1>1, <2>1 DEF ApprovalParts
<1> QED BY <1>2, <1>3

LEMMA SameLink ==
    ASSUME NEW m \in Bodies, NEW n \in Bodies, signing_msg(m) = signing_msg(n)
    PROVE  m = n
<1>1. m.body \in Value /\ n.body \in Value
  BY DEF Bodies
<1>2. DOMAIN_SIG \in Bytes /\ cenc(m.body) \in Bytes /\ cenc(n.body) \in Bytes
  BY <1>1, BytesAssumption
<1>3. cenc(m.body) = cenc(n.body)
  BY <1>2, Split DEF signing_msg
<1>4. Cat(cenc(m.body), <<>>) = Cat(cenc(n.body), <<>>)
  BY <1>3, Zenon
<1>5. <<>> \in Bytes
  BY DEF Bytes
<1>6. m.body = n.body
  BY <1>1, <1>4, <1>5, CatEncoding, Zenon
<1> QED BY <1>6 DEF Bodies

LEMMA SamePop ==
    ASSUME NEW m \in Pops, NEW n \in Pops, pop_msg(m) = pop_msg(n)
    PROVE  SameMeaning(m, n)
<1>1. /\ m.id \in Id /\ m.req \in Value /\ m.nonce \in Nonce /\ m.ts \in Stamp
      /\ n.id \in Id /\ n.req \in Value /\ n.nonce \in Nonce /\ n.ts \in Stamp
  BY DEF Pops
<1>2. m.aud \in Bytes /\ n.aud \in Bytes
  BY BytesAssumption DEF Pops
<1>3. Cat(DOMAIN_POP, PopParts(m)) = Cat(DOMAIN_POP, PopParts(n))
  BY PopBytes, Zenon
<1>4. DOMAIN_POP \in Bytes /\ PopParts(m) \in Bytes /\ PopParts(n) \in Bytes
  BY PartsAreBytes, BytesAssumption
<1>5. PopParts(m) = PopParts(n)
  BY <1>3, <1>4, Split, Zenon DEF Cat
<1>6. /\ m.id = n.id /\ m.req = n.req
      /\ Len(m.nonce) = Len(n.nonce) => m.nonce = n.nonce /\ m.ts = n.ts /\ m.aud = n.aud
  <2>1. Cat(m.id, Cat(cenc(m.req), Cat(m.nonce, Cat(m.ts, m.aud))))
        = Cat(n.id, Cat(cenc(n.req), Cat(n.nonce, Cat(n.ts, n.aud))))
    BY <1>5 DEF PopParts
  <2> QED BY ONLY <1>1, <1>2, <2>1, FiveParts, SMT
<1>7. m.kind = "pop" /\ n.kind = "pop"
  BY DEF Pops
<1>8. Len(m.nonce) = Len(n.nonce) => m = n
  BY <1>6 DEF Pops
<1> QED BY <1>6, <1>7, <1>8 DEF SameMeaning

LEMMA SameApproval ==
    ASSUME NEW m \in Approvals, NEW n \in Approvals, approval_msg(m) = approval_msg(n)
    PROVE  SameMeaning(m, n)
<1>1. /\ m.id \in Id /\ m.req \in Value /\ m.nonce \in Nonce /\ m.exp \in Stamp
      /\ n.id \in Id /\ n.req \in Value /\ n.nonce \in Nonce /\ n.exp \in Stamp
  BY DEF Approvals
<1>2. m.label \in Value /\ n.label \in Value
  BY DEF Approvals
<1>3. cenc(m.label) \in Bytes /\ cenc(n.label) \in Bytes
  BY <1>2, BytesAssumption
<1>4. Cat(APPROVAL_DOMAIN, ApprovalParts(m)) = Cat(APPROVAL_DOMAIN, ApprovalParts(n))
  BY ApprovalBytes, Zenon
<1>5. APPROVAL_DOMAIN \in Bytes /\ ApprovalParts(m) \in Bytes /\ ApprovalParts(n) \in Bytes
  BY PartsAreBytes, BytesAssumption
<1>6. ApprovalParts(m) = ApprovalParts(n)
  BY <1>4, <1>5, Split, Zenon DEF Cat
<1>7. /\ m.id = n.id /\ m.req = n.req
      /\ Len(m.nonce) = Len(n.nonce) =>
            m.nonce = n.nonce /\ m.exp = n.exp /\ cenc(m.label) = cenc(n.label)
  <2>1. Cat(m.id, Cat(cenc(m.req), Cat(m.nonce, Cat(m.exp, cenc(m.label)))))
        = Cat(n.id, Cat(cenc(n.req), Cat(n.nonce, Cat(n.exp, cenc(n.label)))))
    BY <1>6 DEF ApprovalParts
  <2> QED BY ONLY <1>1, <1>3, <2>1, FiveParts, SMT
<1>8. Len(m.nonce) = Len(n.nonce) => m.label = n.label
  <2> HAVE Len(m.nonce) = Len(n.nonce)
  <2>1. <<>> \in Bytes
    BY DEF Bytes
  <2>2. Cat(cenc(m.label), <<>>) = Cat(cenc(n.label), <<>>)
    BY <1>7, Zenon
  <2> QED BY <1>2, <2>1, <2>2, CatEncoding, Zenon
<1>9. m.kind = "approval" /\ n.kind = "approval"
  BY DEF Approvals
<1>10. Len(m.nonce) = Len(n.nonce) => m = n
  BY <1>7, <1>8 DEF Approvals
<1> QED BY <1>7, <1>9, <1>10 DEF SameMeaning

\* A message starts with the domain of its kind.
Starting(m) ==
    CASE m.kind = "link" -> DOMAIN_SIG
      [] m.kind = "pop" -> DOMAIN_POP
      [] m.kind = "approval" -> APPROVAL_DOMAIN

LEMMA StartsWithDomain ==
    ASSUME NEW m \in Fields
    PROVE  \E r \in Bytes : Message(m) = Cat(Starting(m), r)
<1>1. CASE m \in Bodies
  <2>1. Message(m) = Cat(DOMAIN_SIG, cenc(m.body)) /\ Starting(m) = DOMAIN_SIG
    BY <1>1 DEF Bodies, Message, Starting, signing_msg, Cat
  <2>2. cenc(m.body) \in Bytes
    BY <1>1, BytesAssumption DEF Bodies
  <2> QED BY <2>1, <2>2
<1>2. CASE m \in Pops
  <2>1. Message(m) = pop_msg(m) /\ Starting(m) = DOMAIN_POP
    BY <1>2 DEF Pops, Message, Starting
  <2> QED BY <1>2, <2>1, PopBytes, PartsAreBytes
<1>3. CASE m \in Approvals
  <2>1. Message(m) = approval_msg(m) /\ Starting(m) = APPROVAL_DOMAIN
    BY <1>3 DEF Approvals, Message, Starting
  <2> QED BY <1>3, <2>1, ApprovalBytes, PartsAreBytes
<1> QED BY <1>1, <1>2, <1>3 DEF Fields

LEMMA SameKind ==
    ASSUME NEW m \in Fields, NEW n \in Fields, Message(m) = Message(n)
    PROVE  m.kind = n.kind
<1>1. PICK r \in Bytes : Message(m) = Cat(Starting(m), r)
  BY StartsWithDomain
<1>2. PICK t \in Bytes : Message(n) = Cat(Starting(n), t)
  BY StartsWithDomain
<1>3. Starting(m) \o r = Starting(n) \o t
  BY <1>1, <1>2, Zenon DEF Cat
<1>4. m.kind \in {"link", "pop", "approval"} /\ n.kind \in {"link", "pop", "approval"}
  BY DEF Fields, Bodies, Pops, Approvals
<1>5. SUFFICES ASSUME m.kind # n.kind PROVE FALSE
  OBVIOUS
<1>6. Starting(m) \in Bytes /\ Starting(n) \in Bytes
  BY <1>4, BytesAssumption DEF Starting
<1>7. ~StartsWith(Starting(m), Starting(n)) /\ ~StartsWith(Starting(n), Starting(m))
  BY <1>4, <1>5, DomainAssumption DEF Starting
<1> QED BY <1>3, <1>6, <1>7, DomainsApart, Zenon

\* What the bytes that are signed determine, whatever the lengths of nonces: the
\* kind of the message, the body of a link, the credential and the request of a
\* proof or an approval; and the rest of it for nonces of one length.
THEOREM MessageSays ==
    ASSUME NEW m \in Fields, NEW n \in Fields, Message(m) = Message(n)
    PROVE  SameMeaning(m, n)
<1>1. m.kind = n.kind
  BY SameKind
<1>2. CASE m \in Bodies
  <2>1. n \in Bodies
    BY <1>1, <1>2 DEF Fields, Bodies, Pops, Approvals
  <2>2. signing_msg(m) = signing_msg(n)
    BY <1>2, <2>1 DEF Message, Bodies
  <2>3. m = n
    BY <1>2, <2>1, <2>2, SameLink
  <2>4. m.kind = "link"
    BY <1>2 DEF Bodies
  <2> QED BY <2>3, <2>4 DEF SameMeaning
<1>3. CASE m \in Pops
  <2>1. n \in Pops
    BY <1>1, <1>3 DEF Fields, Bodies, Pops, Approvals
  <2>2. pop_msg(m) = pop_msg(n)
    BY <1>3, <2>1 DEF Message, Pops
  <2> QED BY <1>3, <2>1, <2>2, SamePop
<1>4. CASE m \in Approvals
  <2>1. n \in Approvals
    BY <1>1, <1>4 DEF Fields, Bodies, Pops, Approvals
  <2>2. approval_msg(m) = approval_msg(n)
    BY <1>4, <2>1 DEF Message, Approvals
  <2> QED BY <1>4, <2>1, <2>2, SameApproval
<1> QED BY <1>2, <1>3, <1>4 DEF Fields
-----------------------------------------------------------------------------

\* Every signature is on the message of fields that its signer meant.
IInv == /\ \A s \in signed : \E m \in Fields : /\ [by |-> s.by, fields |-> m] \in meant
                                               /\ s.over = Message(m)
        /\ Authentic

\* A signature serves what it was made for (canonical.py:28, pop.py:26-28,
\* caveats.py:75-80, credential.py:94-95): from MessageSays, since a verifier
\* asks for a signature on the message of the fields it holds.
THEOREM ServesItsPurpose == Spec => []Authentic
<1>1. Init => IInv
  BY DEF Init, IInv, Authentic
<1>2. IInv /\ [Next]_vars => IInv'
  <2> SUFFICES ASSUME IInv, [Next]_vars PROVE IInv'
    OBVIOUS
  <2>1. ASSUME NEW k \in Key, NEW m \in Fields, Sign(k, m) PROVE IInv'
    <3>1. ASSUME NEW s \in signed'
          PROVE  \E f \in Fields : [by |-> s.by, fields |-> f] \in meant' /\ s.over = Message(f)
      <4>1. CASE s \in signed
        BY <2>1, <4>1 DEF Sign, IInv
      <4>2. CASE s = [by |-> k, over |-> Message(m)]
        BY <2>1, <4>2 DEF Sign
      <4> QED BY <2>1, <3>1, <4>1, <4>2 DEF Sign
    <3>2. Authentic'
      BY <2>1 DEF Sign, IInv, Authentic
    <3> QED BY <3>1, <3>2 DEF IInv
  <2>2. ASSUME NEW k \in Key, NEW m \in Fields, Accept(k, m) PROVE IInv'
    <3>1. [by |-> k, over |-> Message(m)] \in signed
      BY <2>2 DEF Accept
    <3>2. PICK f \in Fields : [by |-> k, fields |-> f] \in meant /\ Message(m) = Message(f)
      BY <3>1 DEF IInv
    <3>3. SameMeaning(f, m)
      BY <3>2, MessageSays
    <3>4. ASSUME NEW a \in accepted'
          PROVE  \E g \in meant' : g.by = a.by /\ SameMeaning(g.fields, a.fields)
      <4>1. CASE a \in accepted
        BY <2>2, <4>1 DEF Accept, IInv, Authentic
      <4>2. CASE a = [by |-> k, fields |-> m]
        BY <2>2, <3>2, <3>3, <4>2 DEF Accept
      <4> QED BY <2>2, <3>4, <4>1, <4>2 DEF Accept
    <3> QED BY <2>2, <3>4 DEF Accept, IInv, Authentic
  <2>3. CASE UNCHANGED vars
    BY <2>3 DEF vars, IInv, Authentic
  <2> QED BY <2>1, <2>2, <2>3 DEF Next
<1>3. IInv => Authentic
  BY DEF IInv
<1> QED BY <1>1, <1>2, <1>3, PTL DEF Spec

\* The id of a link commits to its body and its signature: two links of one id
\* are one link (Link.link_id).  Credential takes the index of a link for its id.
THEOREM LinkIdInjective ==
    ASSUME NEW b \in Value, NEW c \in Value, NEW s \in Bytes, NEW t \in Bytes,
           link_id_msg(b, s) = link_id_msg(c, t)
    PROVE  b = c /\ s = t
<1>1. DOMAIN_LINK \in Bytes /\ cenc(b) \in Bytes /\ cenc(c) \in Bytes
  BY BytesAssumption
<1>2. Cat(cenc(b), s) \in Bytes /\ Cat(cenc(c), t) \in Bytes
  BY <1>1, CatBytes
<1>3. Cat(Cat(DOMAIN_LINK, cenc(b)), s) = Cat(Cat(DOMAIN_LINK, cenc(c)), t)
  BY Zenon DEF link_id_msg, Cat
<1>4. Cat(DOMAIN_LINK, Cat(cenc(b), s)) = Cat(DOMAIN_LINK, Cat(cenc(c), t))
  BY <1>1, <1>3, CatAssociative
<1>5. DOMAIN_LINK \o Cat(cenc(b), s) = DOMAIN_LINK \o Cat(cenc(c), t)
  BY <1>4 DEF Cat
<1>6. Cat(cenc(b), s) = Cat(cenc(c), t)
  BY <1>1, <1>2, <1>5, Split
<1> QED BY <1>6, CatEncoding
=============================================================================

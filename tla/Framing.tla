------------------------------ MODULE Framing ------------------------------
(***************************************************************************)
(* What muhuri signs is a hash of the bare concatenation of parts (h256 of *)
(* muhuri/canonical.py), so a signature is on the bytes and not on the     *)
(* fields they were made of.  Here messages are the bytes: whoever signs   *)
(* means fields, whoever verifies rebuilds the bytes from fields of its    *)
(* own, and the two must be the same fields.  The other modules sign       *)
(* records of fields and rest on this.                                     *)
(*                                                                         *)
(* cenc is external (cbor2): all that is used of it is that an encoding    *)
(* tells where it ends.  Nonces have any length: _eval_one takes the one   *)
(* of a presented approval and prove the one a server sends, and nobody    *)
(* looks at how long they are.                                             *)
(***************************************************************************)
EXTENDS Naturals, Sequences, FiniteSets

CONSTANTS
    Byte,
    cenc(_),                \* canonical CBOR
    DOMAIN_SIG, DOMAIN_LINK, DOMAIN_POP, APPROVAL_DOMAIN,
    Value,                  \* what cenc encodes: bodies, requests, labels
    Id,                     \* credential ids
    Nonce,                  \* what verifiers find in approvals and expect in proofs
    Drawn,                  \* those signers sign: of make_approval, or a challenge
    Stamp,                  \* 8 bytes, of ts and exp
    Audience,               \* any bytes
    Key,
    MaxSigned               \* bound of the runs

Bytes == Seq(Byte)

ASSUME BytesAssumption ==
    /\ {DOMAIN_SIG, DOMAIN_LINK, DOMAIN_POP, APPROVAL_DOMAIN} \subseteq Bytes
    /\ Id \subseteq Bytes /\ Nonce \subseteq Bytes /\ Drawn \subseteq Nonce
    /\ Stamp \subseteq Bytes /\ Audience \subseteq Bytes
    /\ \A v \in Value : cenc(v) \in Bytes
ASSUME WidthAssumption ==
    /\ \A a, b \in Id : Len(a) = Len(b)
    /\ \A a, b \in Stamp : Len(a) = Len(b)

\* s goes on after p.
StartsWith(s, p) == Len(p) <= Len(s) /\ SubSeq(s, 1, Len(p)) = p

ASSUME DomainAssumption ==
    /\ ~StartsWith(DOMAIN_SIG, DOMAIN_POP) /\ ~StartsWith(DOMAIN_POP, DOMAIN_SIG)
    /\ ~StartsWith(DOMAIN_SIG, APPROVAL_DOMAIN) /\ ~StartsWith(APPROVAL_DOMAIN, DOMAIN_SIG)
    /\ ~StartsWith(DOMAIN_POP, APPROVAL_DOMAIN) /\ ~StartsWith(APPROVAL_DOMAIN, DOMAIN_POP)
ASSUME EncodingAssumption ==
    \A u, v \in Value : StartsWith(cenc(u), cenc(v)) => u = v

VARIABLES
    signed,     \* signatures in the world: [by |-> key, over |-> bytes]
    meant,      \* history: [by |-> key, fields |-> what the signer meant]
    accepted    \* history: the same, of what verifiers accepted

vars == <<signed, meant, accepted>>

\* What is signed: a link's body, a proof of possession, an approval.
Bodies == [kind : {"link"}, body : Value]
Pops == [kind : {"pop"}, id : Id, req : Value, nonce : Nonce, ts : Stamp, aud : Audience]
Approvals == [kind : {"approval"}, id : Id, req : Value, nonce : Nonce, exp : Stamp,
              label : Value]
Fields == Bodies \cup Pops \cup Approvals

signing_msg(m) == DOMAIN_SIG \o cenc(m.body)

pop_msg(m) == DOMAIN_POP \o m.id \o cenc(m.req) \o m.nonce \o m.ts \o m.aud

approval_msgNoLabel(m) ==                           \* faulty variant: label not signed (FRESH-4)
    APPROVAL_DOMAIN \o m.id \o cenc(m.req) \o m.nonce \o m.exp
approval_msg(m) ==
    APPROVAL_DOMAIN \o m.id \o cenc(m.req) \o m.nonce \o m.exp \o cenc(m.label)

Message(m) ==
    CASE m.kind = "link" -> signing_msg(m)
      [] m.kind = "pop" -> pop_msg(m)
      [] m.kind = "approval" -> approval_msg(m)

\* The bytes whose hash is the id of a link.
link_id_msg(body, sig) == DOMAIN_LINK \o cenc(body) \o sig

-----------------------------------------------------------------------------

Init == signed = {} /\ meant = {} /\ accepted = {}

\* Someone signs fields of its choice, under a nonce that was drawn for it.
Sign(k, m) ==
    /\ Cardinality(signed) < MaxSigned
    /\ m.kind # "link" => m.nonce \in Drawn
    /\ signed' = signed \cup {[by |-> k, over |-> Message(m)]}
    /\ meant' = meant \cup {[by |-> k, fields |-> m]}
    /\ UNCHANGED accepted

\* A verifier holds the fields m and a signature, and asks verify_sig.
Accept(k, m) ==
    /\ [by |-> k, over |-> Message(m)] \in signed
    /\ accepted' = accepted \cup {[by |-> k, fields |-> m]}
    /\ UNCHANGED <<signed, meant>>

Next == \E k \in Key, m \in Fields : Sign(k, m) \/ Accept(k, m)

Spec == Init /\ [][Next]_vars

-----------------------------------------------------------------------------

\* Two messages of one kind about one thing: the same link, or the same
\* credential and request; the rest too if their nonces are of one length.
SameMeaning(m, n) ==
    /\ m.kind = n.kind
    /\ m.kind = "link" => m = n
    /\ m.kind # "link" =>
          /\ m.id = n.id /\ m.req = n.req
          /\ Len(m.nonce) = Len(n.nonce) => m = n

\* A signature serves what it was made for: a verifier never accepts a message
\* of another kind than the signer meant, nor another link body, nor a proof or
\* an approval for another credential or request; nor another nonce, second,
\* audience or label, if the nonce it holds is as long as the signer's.
Authentic ==
    \A a \in accepted :
        \E m \in meant : m.by = a.by /\ SameMeaning(m.fields, a.fields)
=============================================================================

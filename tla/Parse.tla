------------------------------- MODULE Parse -------------------------------
(***************************************************************************)
(* The wire boundary of muhuri: parse of muhuri/verify.py with             *)
(* from_string, from_bytes and from_sealed of muhuri/credential.py, the    *)
(* serialization they undo, and the encoding that verify_chain makes of    *)
(* what was parsed.                                                        *)
(*                                                                         *)
(* Bytes are [len |-> n, holds |-> what CBOR decoding finds there]; a text *)
(* is its prefix, the base64 characters that the decoder reads and the     *)
(* bytes they spell, the "=" of its own after them, and how many other     *)
(* characters are strewn in, or follow a padding that is complete: the     *)
(* decoder passes over them, unless one is not ASCII.                      *)
(* A decoded value is [t |-> its Python type, c |-> its content].  A link  *)
(* on the wire is a map from field names to values, where fields may be    *)
(* missing and others present.                                             *)
(***************************************************************************)
EXTENDS Integers, Sequences, FiniteSets

CONSTANTS
    MAX_DEPTH, MAX_BYTES,   \* 64 and 65536 in the code
    LinkSize,               \* bytes of one encoded link of the runs
    Cyclic,                 \* content of a value that refers to itself
    Made,                   \* lists of links that the library makes
    Foreign                 \* other inputs of parse

ASSUME CapAssumption == MAX_DEPTH \in Nat \ {0} /\ MAX_BYTES \in Nat /\ MAX_BYTES >= 8
ASSUME SizeAssumption == LinkSize \in Nat \ {0}

VARIABLES
    stage,      \* "idle", "string", "bytes", "links", "parsed", or the end:
                \* "ok", "VerifyError", or another exception, which no
                \* handler of the library turns into a VerifyError
    data,       \* what is being read
    arr,        \* arr of from_bytes, decoded and not empty
    links,      \* the Links made of arr so far
    source      \* history: the list of links that data was written from

vars == <<stage, data, arr, links, source>>

Required == {"v", "prev", "dgr", "dge", "cav", "nbf", "exp", "non", "meta", "sig"}
NoList == <<>>

\* The prefix "mhr1_".
PrefixLen == 5

-----------------------------------------------------------------------------
(* to_bytes and to_string. *)

sealed(l) == [t |-> "map", c |-> [f \in Required |-> l[f]]]
to_bytes(ls) == [py |-> "bytes", len |-> 1 + LinkSize * Len(ls),
                 holds |-> [t |-> "list", c |-> [k \in DOMAIN ls |-> sealed(ls[k])]]]

\* urlsafe_b64encode without its "=": three bytes are four characters.
B64Chars(n) == (4 * n + 2) \div 3
to_string(ls) == [py |-> "str", prefix |-> TRUE, ascii |-> TRUE,
                  chars |-> B64Chars(to_bytes(ls).len), eq |-> 0, junk |-> 0,
                  spells |-> to_bytes(ls)]

\* urlsafe_b64decode of the text with the "=" put back: a last group of two
\* characters needs two of them, one of three needs one.
TextLen(s) == s.chars + s.eq + s.junk
Padding(s) == (-TextLen(s)) % 4
B64Decodes(s) ==
    /\ s.ascii
    /\ \/ s.chars % 4 = 0
       \/ s.chars % 4 = 2 /\ s.eq + Padding(s) >= 2
       \/ s.chars % 4 = 3 /\ s.eq + Padding(s) >= 1

-----------------------------------------------------------------------------
(* from_string, from_bytes, from_sealed: whether they go on. *)

StringOKExact(s) ==                                 \* faulty variant: cap on bytes, not characters
    s.prefix /\ PrefixLen + TextLen(s) <= MAX_BYTES /\ B64Decodes(s)
StringOK(s) ==
    /\ s.prefix
    /\ PrefixLen + TextLen(s) <= 2 * MAX_BYTES
    /\ B64Decodes(s)

BytesOKDeep(b) ==                                   \* faulty variant: no depth cap
    b.py = "bytes" /\ b.len <= MAX_BYTES /\ b.holds.t = "list" /\ b.holds.c # <<>>
BytesOK(b) ==
    /\ b.py = "bytes" /\ b.len <= MAX_BYTES
    /\ b.holds.t = "list" /\ b.holds.c # <<>> /\ Len(b.holds.c) <= MAX_DEPTH

\* The checks of from_sealed: every field is there; some are bytes; cav is a
\* list and meta a map; every caveat is a map; the rest are integers.
ByteFields == {"prev", "dgr", "dge", "non", "sig"}
IntFields == {"nbf", "exp", "v"}

PresentUnchecked(d) == TRUE                         \* faulty variant: no loop over _REQUIRED
Present(d) == Required \subseteq DOMAIN d
Binary(d) == \A f \in ByteFields : d[f].t = "bytes"
ContainersUnchecked(d) == d["meta"].t = "map"       \* faulty variant: cav taken for a list
Containers(d) == d["cav"].t = "list" /\ d["meta"].t = "map"
CaveatsAreMaps(d) == \A k \in DOMAIN d["cav"].c : d["cav"].c[k] = "map"
Integral(d) == \A f \in IntFields : d[f].t = "int"

\* What from_sealed ends with: "ok", or the exception.  A read of a field that
\* is missing raises a KeyError, and a loop over a number a TypeError; of the
\* three, parse turns only MalformedCredential into a VerifyError.
FromSealed(w) ==
    LET d == w.c
    IN  IF w.t # "map" \/ ~Present(d) THEN "VerifyError"
        ELSE IF ~(ByteFields \subseteq DOMAIN d) THEN "KeyError"
        ELSE IF ~Binary(d) THEN "VerifyError"
        ELSE IF ~({"cav", "meta"} \subseteq DOMAIN d) THEN "KeyError"
        ELSE IF ~Containers(d) THEN "VerifyError"
        ELSE IF d["cav"].t \in {"int", "bool"} THEN "TypeError"
        ELSE IF ~CaveatsAreMaps(d) THEN "VerifyError"
        ELSE IF ~(IntFields \subseteq DOMAIN d) THEN "KeyError"
        ELSE IF ~Integral(d) THEN "VerifyError"
        ELSE "ok"

\* The Link: the fields it knows, nothing else of the map.
LinkWhole(w) == w.c                                 \* faulty variant: unknown fields kept
LinkOf(w) == [f \in Required |-> w.c[f]]

\* A list of links as mint and attenuate make it: at least one, each with its
\* ten fields and their types.
WellMade(ls) ==
    /\ ls \in Seq({ls[k] : k \in DOMAIN ls}) /\ ls # <<>>
    /\ \A k \in DOMAIN ls :
          /\ ls[k] = [f \in Required |-> ls[k][f]]
          /\ Binary(ls[k]) /\ Containers(ls[k]) /\ CaveatsAreMaps(ls[k]) /\ Integral(ls[k])
ASSUME MadeAssumption == \A ls \in Made : WellMade(ls)

\* What a caller hands to parse: a text, bytes, or another object; what
\* decoding calls a list is a list.
IsBytes(b) ==
    /\ b.py = "bytes"
    /\ b.holds.t = "list" => b.holds.c \in Seq({b.holds.c[k] : k \in DOMAIN b.holds.c})
ASSUME ForeignAssumption ==
    \A x \in Foreign :
        IsBytes(x) \/ x.py = "other" \/ (x.py = "str" /\ IsBytes(x.spells))

-----------------------------------------------------------------------------

Init ==
    /\ stage = "idle" /\ data = [py |-> "none"] /\ arr = NoList
    /\ links = NoList /\ source = NoList

\* parse is called: a text goes to from_string, the rest to from_bytes.
Begin(x, made) ==
    /\ stage = "idle"
    /\ data' = x /\ source' = made
    /\ stage' = IF x.py = "str" THEN "string" ELSE "bytes"
    /\ UNCHANGED <<arr, links>>

BeginStep ==
    \/ \E ls \in Made : Begin(to_string(ls), ls) \/ Begin(to_bytes(ls), ls)
    \/ \E x \in Foreign : Begin(x, NoList)

FromString ==
    /\ stage = "string"
    /\ IF StringOK(data)
       THEN stage' = "bytes" /\ data' = data.spells
       ELSE stage' = "VerifyError" /\ UNCHANGED data
    /\ UNCHANGED <<arr, links, source>>

FromBytes ==
    /\ stage = "bytes"
    /\ IF BytesOK(data)
       THEN stage' = "links" /\ arr' = data.holds.c
       ELSE stage' = "VerifyError" /\ UNCHANGED arr
    /\ UNCHANGED <<data, links, source>>

\* from_sealed of the next element of the list.
NextLink ==
    /\ stage = "links" /\ Len(links) < Len(arr)
    /\ LET w == arr[Len(links) + 1]
       IN  IF FromSealed(w) = "ok"
           THEN links' = Append(links, LinkOf(w)) /\ UNCHANGED stage
           ELSE stage' = FromSealed(w) /\ UNCHANGED links
    /\ UNCHANGED <<data, arr, source>>

Parsed ==
    /\ stage = "links" /\ Len(links) = Len(arr)
    /\ stage' = "parsed"
    /\ UNCHANGED <<data, arr, links, source>>

\* verify_chain of what was parsed encodes each body again: signing_msg.  What
\* comes before may refuse the list for reasons of its own (VerifyChain.tla).
\* A value that refers to itself, or nests deeper than the encoder follows, is
\* read by the decoder and refused by the encoder.
Encodable(l) == \A f \in DOMAIN l : l[f].c # Cyclic
VerifyRefuses ==
    /\ stage = "parsed"
    /\ stage' = "VerifyError"
    /\ UNCHANGED <<data, arr, links, source>>
VerifyEncodes ==
    /\ stage = "parsed"
    /\ stage' = IF \A k \in DOMAIN links : Encodable(links[k]) THEN "ok" ELSE "EncodeError"
    /\ UNCHANGED <<data, arr, links, source>>

\* The holder passes on what it parsed: to_string writes it again, and another
\* parse reads that.
PassOn ==
    /\ stage = "parsed" /\ \A k \in DOMAIN links : Encodable(links[k])
    /\ data' = to_string(links) /\ source' = links
    /\ stage' = "string" /\ arr' = NoList /\ links' = NoList

Return ==
    /\ stage \in {"ok", "VerifyError", "KeyError", "TypeError", "EncodeError"}
    /\ stage' = "idle" /\ data' = [py |-> "none"] /\ arr' = NoList
    /\ links' = NoList /\ source' = NoList

Next ==
    \/ BeginStep \/ FromString \/ FromBytes \/ NextLink \/ Parsed
    \/ VerifyRefuses \/ VerifyEncodes \/ PassOn \/ Return

Spec == Init /\ [][Next]_vars

-----------------------------------------------------------------------------

Stages == {"idle", "string", "bytes", "links", "parsed",
           "ok", "VerifyError", "KeyError", "TypeError", "EncodeError"}

TypeOK ==
    /\ stage \in Stages
    /\ data.py \in {"none", "str", "bytes", "other"}
    /\ Len(links) <= Len(arr) /\ Len(arr) <= MAX_DEPTH
    /\ source = NoList \/ WellMade(source)

\* What is written is read back, whether the library made the links or parsed
\* them: a credential within both caps is never refused by the cap on the length
\* of its text, nor by the padding put back, and comes out as the same links, so
\* with the same ids.  What parsing passes over (fields that the format does not
\* know, characters outside the alphabet) leaves no trace that a second reader
\* would miss.
RoundTrip ==
    source # NoList =>
        /\ (Len(source) <= MAX_DEPTH /\ to_bytes(source).len <= MAX_BYTES) =>
               (stage = "VerifyError" => Len(links) = Len(source))
        /\ stage \in {"parsed", "ok"} => links = source

\* verify.py:205, "failing closed": whatever is presented, parse ends in a
\* credential or in a VerifyError; no read of from_sealed raises anything else.
ParseFailsClosed == stage \notin {"KeyError", "TypeError"}
=============================================================================

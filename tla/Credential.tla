----------------------------- MODULE Credential -----------------------------
(***************************************************************************)
(* The credential of muhuri/credential.py: an append-only list of signed   *)
(* delegation links, the two library calls that make links (mint and       *)
(* attenuate), and the links that other software hands over.               *)
(*                                                                         *)
(* A link is kept once, in the table `links`, and its link_id (a SHA-256   *)
(* over its signed body and its signature) is its index there: two links   *)
(* never share an id, because every body carries 16 random bytes.  ZERO32, *)
(* the parent id of a root link, is the index 0 that no link has.  A       *)
(* signature is abstracted to the key it was really made with: `sig = k`   *)
(* says that the private half of k signed exactly this body, `sig = NoKey` *)
(* that no key did (a damaged copy, an edited body, random bytes).         *)
(* A credential (class Muhuri) is a sequence of link ids, root first.      *)
(* `meta` is signed and never read, so it is left out; the caveats of a    *)
(* hop are a set, since the verifier takes their conjunction.              *)
(***************************************************************************)
EXTENDS Integers, Sequences, FiniteSets

CONSTANTS
    Key,        \* public keys
    WeakKey,    \* the keys that is_small_order refuses
    NoKey,      \* the signature of nobody
    Caveat,     \* caveats, compared and never looked into here
    VERSION,    \* the only format version verify_chain accepts
    TTL,        \* values of the ttl_seconds argument
    NoTTL,      \* ttl_seconds=None
    NotBefore,  \* values of mint's explicit nbf argument
    Foreign,    \* the links other software hands over, all but their parent
    MaxLinks,   \* bound of the runs: links in circulation
    MaxLib,     \* bound of the runs: how many of them mint and attenuate make
    MaxTime     \* bound of the runs: last second of the clock

ASSUME KeyAssumption == WeakKey \subseteq Key /\ NoKey \notin Key
ASSUME TimeAssumption ==
    /\ TTL \subseteq Int /\ NoTTL \notin TTL /\ NotBefore \subseteq Int
    /\ MaxTime \in Nat /\ MaxLinks \in Nat /\ MaxLib \in Nat
ASSUME FormatAssumption ==
    /\ VERSION \in Int
    /\ Foreign \subseteq [v : Int, dgr : Key, dge : Key, cav : SUBSET Caveat,
                         nbf : Int, exp : Int, signed : BOOLEAN]

VARIABLES
    clock,      \* time.time(), whole seconds
    links,      \* every link in circulation, by link_id
    lineage,    \* history: for each link, the list of ids its prev hashes commit to
    lib         \* history: the ids of the links made by mint and attenuate

credVars == <<clock, links, lineage, lib>>

ZERO32 == 0

Link == [v : Int, prev : Nat, dgr : Key, dge : Key, cav : SUBSET Caveat,
         nbf : Int, exp : Int, sig : Key \cup {NoKey}]

Id == 1..Len(links)

\* now(): the wall clock, truncated to the second.
Now == clock

\* max and min of two integers (Python's built-ins as the code uses them).
LaterMistaken(a, b) == IF a <= b THEN a ELSE b      \* faulty variant: min for max
Later(a, b) == IF a >= b THEN a ELSE b
Sooner(a, b) == IF a <= b THEN a ELSE b

\* keys.py: is_small_order, the gate of _check_delegate_pub and verify_sig.
IsSmallOrder(pub) == pub \in WeakKey

\* keys.py verify_sig on the body of link l: a degenerate key is refused first,
\* because the library call beneath would accept any signature under it.
RawVerify(pub, l) == pub \in WeakKey \/ l.sig = pub
VerifySig(pub, l) == ~IsSmallOrder(pub) /\ RawVerify(pub, l)

-----------------------------------------------------------------------------

Init ==
    /\ clock = 0
    /\ links = <<>>
    /\ lineage = <<>>
    /\ lib = {}

AddLink(l) ==
    /\ Len(links) < MaxLinks
    /\ links' = Append(links, l)
    /\ lineage' = Append(lineage,
                    Append(IF l.prev = ZERO32 THEN <<>> ELSE lineage[l.prev],
                           Len(links) + 1))
    /\ UNCHANGED clock

\* mint: a root principal signs the first link of a new credential.
Mint(root, delegate, caveats, ttl, nbf) ==
    /\ ~IsSmallOrder(delegate)
    /\ AddLink([v |-> VERSION, prev |-> ZERO32, dgr |-> root, dge |-> delegate,
                cav |-> caveats, nbf |-> nbf, exp |-> nbf + ttl, sig |-> root])
    /\ Cardinality(lib) < MaxLib
    /\ lib' = lib \cup {Len(links) + 1}

\* The child's window: it opens no earlier than now or than the parent's, and
\* closes no later than the parent's.
ChildNbfAnytime(parent) == Now                      \* faulty variant: no max
ChildNbf(parent) == Later(Now, parent.nbf)

ChildExpUncapped(parent, ttl) ==                    \* faulty variant: no min
    IF ttl = NoTTL THEN parent.exp ELSE ChildNbf(parent) + ttl
ChildExp(parent, ttl) ==
    IF ttl = NoTTL THEN parent.exp
    ELSE Sooner(parent.exp, ChildNbf(parent) + ttl)

\* attenuate: whoever controls the delegate key of link p signs a child of it.
\* The call looks at the last link only: it verifies nothing of the chain that
\* p hangs from, nor its depth, nor whether p's window is still open.
Attenuate(p, holder, delegate, caveats, ttl) ==
    LET parent == links[p]
    IN  /\ ~IsSmallOrder(delegate)
        /\ holder = parent.dge
        /\ AddLink([v |-> VERSION, prev |-> p, dgr |-> holder, dge |-> delegate,
                    cav |-> caveats, nbf |-> ChildNbf(parent), exp |-> ChildExp(parent, ttl),
                    sig |-> holder])
        /\ Cardinality(lib) < MaxLib
        /\ lib' = lib \cup {Len(links) + 1}

\* A link this library did not make: other issuers of the format, copies
\* damaged or edited on the way.  Whoever signs it has the key it names, or
\* the signature is nobody's; every other field is what it happens to be.
MadeElsewhere(l) ==
    /\ l.prev \in Id \cup {ZERO32}
    /\ l.sig \in {l.dgr, NoKey}
    /\ AddLink(l)
    /\ UNCHANGED lib

Tick ==
    /\ clock < MaxTime
    /\ clock' = clock + 1
    /\ UNCHANGED <<links, lineage, lib>>

\* A KeyPair holds a private key, so its public half is never degenerate.
MintStep ==
    \E root \in Key \ WeakKey, delegate \in Key, caveats \in SUBSET Caveat,
       ttl \in TTL, nbf \in NotBefore \cup {Now} :
        Mint(root, delegate, caveats, ttl, nbf)

AttenuateStep ==
    \E p \in Id, holder \in Key \ WeakKey, delegate \in Key,
       caveats \in SUBSET Caveat, ttl \in TTL \cup {NoTTL} :
        Attenuate(p, holder, delegate, caveats, ttl)

ElsewhereStep ==
    \E f \in Foreign, prev \in Id \cup {ZERO32} :
        MadeElsewhere([v |-> f.v, prev |-> prev, dgr |-> f.dgr, dge |-> f.dge,
                       cav |-> f.cav, nbf |-> f.nbf, exp |-> f.exp,
                       sig |-> IF f.signed THEN f.dgr ELSE NoKey])

Next == MintStep \/ AttenuateStep \/ ElsewhereStep \/ Tick

Spec == Init /\ [][Next]_credVars

-----------------------------------------------------------------------------

\* The table and its histories have their types; a parent is always an older
\* link, as a hash cannot be known before what it hashes.
TypeOK ==
    /\ clock \in 0..MaxTime
    /\ links \in Seq(Link)
    /\ lineage \in Seq(Seq(Nat))
    /\ Len(lineage) = Len(links)
    /\ lib \subseteq Id
    /\ \A n \in Id : links[n].prev < n

\* The library's own chains only narrow: as long as every link of a lineage was
\* made by mint and attenuate, the last link's window lies inside the window of
\* every link above it (attenuate's max and min), so the last link alone says
\* when the credential is valid.
LibraryNarrows ==
    \A n \in Id :
        (\A k \in 1..Len(lineage[n]) : lineage[n][k] \in lib) =>
            \A k \in 1..Len(lineage[n]) :
                LET above == links[lineage[n][k]]
                IN  links[n].nbf >= above.nbf /\ links[n].exp <= above.exp
=============================================================================

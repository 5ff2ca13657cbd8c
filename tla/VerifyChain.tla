---------------------------- MODULE VerifyChain ----------------------------
(***************************************************************************)
(* verify_chain of muhuri/verify.py: one verifier walking the links of a   *)
(* presented list from the root to the leaf, while credentials are made,   *)
(* time passes and the deny-list of muhuri/revocation.py grows under it.   *)
(*                                                                         *)
(* The loop is a state machine, one step per link, because is_revoked is   *)
(* asked once per link and the deny-list may change between two questions, *)
(* whereas `at` is read once.  Every VerifyError is the verdict "rejected" *)
(* (the wording is left out); "accepted" is the returned Decision.         *)
(* With no revoker (AllowAll) the behaviours are those without Revoke.     *)
(***************************************************************************)
EXTENDS Credential

CONSTANTS
    Root,       \* trusted_roots after _normalize_roots
    MAX_DEPTH,  \* the largest max_depth argument; by default it is 64
    GivenDepth, \* values of that argument
    Far,        \* the initial eff_exp, 1 << 62 in the code
    GivenAt,    \* values of an explicit `at` argument
    MaxRevoked  \* bound of the runs: length of the deny-list (0: AllowAll)

ASSUME VerifierAssumption ==
    /\ Root \subseteq Key /\ Root # {}
    /\ MAX_DEPTH \in Nat \ {0} /\ GivenDepth \subseteq 0..MAX_DEPTH /\ Far \in Nat
    /\ GivenAt \subseteq Int /\ MaxRevoked \in Nat

VARIABLES
    revoked,    \* RevocationSet._revoked, the link ids on the deny-list
    pc,         \* "idle", "loop", "accepted", "rejected"
    chain,      \* tess.links, as ids
    i,          \* the link the loop is at (1 is the code's 0)
    at,         \* the second the credential is judged at
    max_depth,  \* the longest list that this call admits
    effNbf, effExp, effCav, \* eff_nbf, eff_exp, eff_caveats
    revoked0    \* history: the deny-list when the call began

callVars == <<pc, chain, i, at, max_depth, effNbf, effExp, effCav, revoked0>>
vars == <<credVars, revoked, callVars>>

\* Lists of ids that a caller can present: any links in any order.
Chains == UNION {[1..n -> Id] : n \in 0..(MAX_DEPTH + 1)}

VInit ==
    /\ Init
    /\ revoked = {} /\ revoked0 = {}
    /\ pc = "idle" /\ chain = <<>> /\ i = 1 /\ at = 0 /\ max_depth = MAX_DEPTH
    /\ effNbf = 0 /\ effExp = Far /\ effCav = {}

\* The checks before the loop: a non-empty list, not too long, whose first
\* delegator is trusted.
EntryDeep(c, depth) ==                              \* faulty variant: argument unread
    c # <<>> /\ Len(c) <= MAX_DEPTH /\ links[c[1]].dgr \in Root
EntryShallow(c, depth) ==                           \* faulty variant: < for <=
    c # <<>> /\ Len(c) < depth /\ links[c[1]].dgr \in Root
EntryOK(c, depth) == c # <<>> /\ Len(c) <= depth /\ links[c[1]].dgr \in Root

\* verify_chain is called: `at` is fixed, the accumulators are set.
Begin(c, t, depth) ==
    /\ pc = "idle"
    /\ chain' = c /\ at' = t /\ max_depth' = depth /\ i' = 1
    /\ effNbf' = 0 /\ effExp' = Far /\ effCav' = {}
    /\ revoked0' = revoked
    /\ pc' = IF EntryOK(c, depth) THEN "loop" ELSE "rejected"
    /\ UNCHANGED <<credVars, revoked>>

\* The two bindings of link k of list c to its parent.
BindsAnyParent(c, k) ==                             \* faulty variant: prev unread
    k > 1 => links[c[k]].dgr = links[c[k - 1]].dge
BindsAnyDelegator(c, k) ==                          \* faulty variant: dgr unread
    links[c[k]].prev = IF k = 1 THEN ZERO32 ELSE c[k - 1]
Binds(c, k) ==
    LET l == links[c[k]]
    IN  IF k = 1 THEN l.prev = ZERO32
        ELSE l.prev = c[k - 1] /\ l.dgr = links[c[k - 1]].dge

\* What the loop demands of link k of list c, under deny-list deny.
LinkOKLeafRevoked(c, k, deny) ==                    \* faulty variant: asks for the leaf only
    LET l == links[c[k]]
    IN  /\ l.v = VERSION /\ l.nbf <= l.exp /\ Binds(c, k) /\ VerifySig(l.dgr, l)
        /\ k = Len(c) => c[k] \notin deny
LinkOKAnyVersion(c, k, deny) ==                     \* faulty variant: v unread (FRESH-3)
    LET l == links[c[k]]
    IN  l.nbf <= l.exp /\ Binds(c, k) /\ VerifySig(l.dgr, l) /\ c[k] \notin deny
LinkOK(c, k, deny) ==
    LET l == links[c[k]]
    IN  /\ l.v = VERSION
        /\ l.nbf <= l.exp
        /\ Binds(c, k)
        /\ VerifySig(l.dgr, l)
        /\ c[k] \notin deny

\* What an iteration leaves behind: the window intersected, the caveats added.
AccumulateLast(l) ==                                \* faulty variant: = for +=
    effNbf' = Later(effNbf, l.nbf) /\ effExp' = Sooner(effExp, l.exp) /\ effCav' = l.cav
Accumulate(l) ==
    /\ effNbf' = Later(effNbf, l.nbf)
    /\ effExp' = Sooner(effExp, l.exp)
    /\ effCav' = effCav \cup l.cav

\* One iteration of the loop.
CheckLink ==
    /\ pc = "loop" /\ i <= Len(chain)
    /\ IF LinkOK(chain, i, revoked)
       THEN Accumulate(links[chain[i]]) /\ i' = i + 1 /\ UNCHANGED pc
       ELSE /\ pc' = "rejected"
            /\ UNCHANGED <<effNbf, effExp, effCav, i>>
    /\ UNCHANGED <<credVars, revoked, chain, at, max_depth, revoked0>>

\* After the loop: the judged second lies in the intersected window, or not.
OutsideHalfOpen == at < effNbf \/ at >= effExp      \* faulty variant: >= for >
Outside == at < effNbf \/ at > effExp

CheckWindow ==
    /\ pc = "loop" /\ i > Len(chain)
    /\ pc' = IF Outside THEN "rejected" ELSE "accepted"
    /\ UNCHANGED <<credVars, revoked, chain, i, at, max_depth, effNbf, effExp, effCav, revoked0>>

\* The caller has its Decision or its VerifyError; the locals are gone.
Return ==
    /\ pc \in {"accepted", "rejected"}
    /\ pc' = "idle" /\ chain' = <<>> /\ i' = 1 /\ at' = 0 /\ max_depth' = MAX_DEPTH
    /\ effNbf' = 0 /\ effExp' = Far /\ effCav' = {} /\ revoked0' = {}
    /\ UNCHANGED <<credVars, revoked>>

\* RevocationSet.revoke, at any moment, of any link.
Revoke(n) ==
    /\ Cardinality(revoked) < MaxRevoked
    /\ revoked' = revoked \cup {n}
    /\ UNCHANGED <<credVars, callVars>>

BeginStep ==
    /\ pc = "idle"
    /\ \E c \in Chains, t \in GivenAt \cup {Now}, depth \in GivenDepth : Begin(c, t, depth)
RevokeStep == \E n \in Id \ revoked : Revoke(n)
VerifyStep == CheckLink \/ CheckWindow

VNext ==
    \/ UNCHANGED <<revoked, callVars>> /\ Next
    \/ BeginStep
    \/ VerifyStep
    \/ Return
    \/ RevokeStep

VSpec == VInit /\ [][VNext]_vars

-----------------------------------------------------------------------------
(* What the call promises, said of the whole list at once. *)

\* The credential c is valid at second t under deny-list deny.
Valid(c, t, deny) ==
    /\ Len(c) \in 1..MAX_DEPTH
    /\ links[c[1]].dgr \in Root /\ links[c[1]].prev = ZERO32
    /\ \A k \in 2..Len(c) :
          links[c[k]].prev = c[k - 1] /\ links[c[k]].dgr = links[c[k - 1]].dge
    /\ \A k \in 1..Len(c) :
          LET l == links[c[k]]
          IN  /\ l.v = VERSION
              /\ l.sig = l.dgr /\ l.dgr \notin WeakKey
              /\ l.nbf <= t /\ t <= l.exp
              /\ c[k] \notin deny
    /\ 0 <= t /\ t <= Far

\* The variables have their types; a call's deny-list only grows.
VTypeOK ==
    /\ TypeOK
    /\ revoked \subseteq Id /\ revoked0 \subseteq revoked
    /\ pc \in {"idle", "loop", "accepted", "rejected"}
    /\ chain \in Seq(Nat) /\ \A k \in 1..Len(chain) : chain[k] \in Id
    /\ i \in 1..(Len(chain) + 1)
    /\ at \in Int /\ max_depth \in 0..MAX_DEPTH /\ effNbf \in Nat /\ effExp \in Int
    /\ effCav \subseteq Caveat

\* The verdict of a call that the deny-list moves under is still sound both
\* ways: an accepted credential was valid when the call began (no revocation
\* published before the call can be missed), and a rejected one is not valid
\* under the deny-list of now, or longer than the caller admits (a rejection is
\* never caused by anything else).
VerdictSound ==
    /\ pc = "accepted" => Valid(chain, at, revoked0) /\ Len(chain) <= max_depth
    /\ pc = "rejected" => ~Valid(chain, at, revoked) \/ Len(chain) > max_depth

\* No splice: an accepted list is, link for link, the lineage that the hash in
\* its leaf commits to.  Nothing was dropped from it, put in, or reordered, and
\* the leaf belongs to no other list.
AcceptedIsLineage ==
    pc = "accepted" => chain = lineage[chain[Len(chain)]]

\* Accountability: the first link was signed by a trusted root, every other by
\* the very key its predecessor delegated to, and no degenerate key signed or
\* delegated on the way (the leaf's own key is judged later, by check_pop).
Accountable ==
    pc = "accepted" =>
        /\ links[chain[1]].sig \in Root
        /\ \A k \in 2..Len(chain) :
               links[chain[k]].sig = links[chain[k - 1]].dge
        /\ \A k \in 1..Len(chain) : links[chain[k]].sig \notin WeakKey

\* The Decision carries the authority of the whole chain: every hop's caveats
\* and no other, and the intersection of every hop's window.
DecisionExact ==
    pc = "accepted" =>
        LET hops == {links[chain[k]] : k \in 1..Len(chain)}
        IN  /\ effCav = UNION {l.cav : l \in hops}
            /\ effNbf \in {0} \cup {l.nbf : l \in hops}
            /\ effExp \in {Far} \cup {l.exp : l \in hops}
            /\ \A l \in hops : l.nbf <= effNbf /\ effExp <= l.exp

\* A list made by mint and attenuate alone, presented whole, is refused only
\* for what its makers could know or an operator decided: an untrusted root, a
\* depth over the cap (attenuate has none), a revocation, or a second outside
\* the window written in its last link.
LibraryAccepted ==
    /\ pc = "rejected" /\ chain # <<>>
    /\ chain = lineage[chain[Len(chain)]]
    /\ \A k \in 1..Len(chain) : chain[k] \in lib
    => LET leaf == links[chain[Len(chain)]]
       IN  \/ links[chain[1]].dgr \notin Root
           \/ Len(chain) > max_depth
           \/ \E k \in 1..Len(chain) : chain[k] \in revoked
           \/ at < Later(0, leaf.nbf) \/ at > Sooner(Far, leaf.exp)
=============================================================================

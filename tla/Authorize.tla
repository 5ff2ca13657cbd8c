------------------------------ MODULE Authorize ------------------------------
(***************************************************************************)
(* The per-request gate: authorize of muhuri/verify.py with check_pop and  *)
(* NonceStore of muhuri/pop.py and evaluate of muhuri/caveats.py.  Several *)
(* calls run at once, in the threads or processes of several resource      *)
(* servers; calls at one server share its nonce store.  Each member of     *)
(* Call is one invocation, so the state a call ends in is its history.     *)
(*                                                                         *)
(* verify_chain is taken by its result (VerifyChain.tla is about how it    *)
(* gets there): Decision[c] is what the chain of credential c says, and    *)
(* the step fails outside its window.  Its caveats are the requests that   *)
(* the plain ones admit (allow) and the sequence of requires_approval      *)
(* gates.  A signature is the key that made it over exactly the fields     *)
(* next to it, or NoKey; Framing.tla is about what of them the signed      *)
(* bytes pin down.                                                         *)
(***************************************************************************)
EXTENDS Integers, Sequences, FiniteSets

CONSTANTS
    Call, Server,
    StoreOf,    \* per server: "store" (a NonceStore), "none" (opted out), "other"
    AudienceOf, \* per server: its audience argument
    Cred,
    Decision,   \* per credential: [holder, nbf, exp, allow, gates]
    Request, Nonce, Label,
    Key, WeakKey, NoKey,
    max_skew,
    GivenAt,    \* values of authorize's `at`; without one it reads the clock
    Retention,  \* seconds a store keeps a nonce, or Forever (the in-repo set)
    Forever,
    ProofTime,  \* values of ts in proofs
    Approver,   \* keys that approvals name
    ApprovalTTL, \* values of make_approval's ttl
    Stranger,   \* signers of proofs and approvals not made by this library
    MaxCall,    \* a call takes at most this many seconds
    MaxTime, MaxPops, MaxApprovals, MaxPresented \* bounds of the runs

Gate == [approver : Key, label : Label]

ASSUME KeyAssumption == WeakKey \subseteq Key /\ NoKey \notin Key
                        /\ Stranger \subseteq Key \cup {NoKey} /\ Approver \subseteq Key
ASSUME ServerAssumption == StoreOf \in [Server -> {"store", "none", "other"}]
ASSUME DecisionAssumption ==
    \A c \in Cred :
        /\ Decision[c].holder \in Key
        /\ Decision[c].nbf \in Int /\ Decision[c].exp \in Int
        /\ Decision[c].allow \subseteq Request
        /\ Decision[c].gates \in Seq(Gate)
ASSUME NumberAssumption ==
    /\ max_skew \in Nat /\ MaxCall \in Nat /\ ApprovalTTL \subseteq Nat
    /\ ProofTime \subseteq Int /\ GivenAt \subseteq Int
    /\ MaxTime \in Nat /\ MaxPops \in Nat /\ MaxApprovals \in Nat /\ MaxPresented \in Nat
\* What single use asks of an expiring store: a proof is accepted during
\* 2 * max_skew seconds and an approval during its ttl, and the call that
\* consumes the nonce may finish MaxCall seconds after it read the clock: `at`
\* is then the clock, as no retention outlasts a caller that picks its own time.
ASSUME RetentionAssumption ==
    Retention # Forever =>
        /\ GivenAt = {} /\ Retention \in Nat
        /\ Retention > 2 * max_skew + MaxCall
        /\ \A ttl \in ApprovalTTL : Retention > ttl + MaxCall

VARIABLES
    clock,
    pops,       \* proofs of possession in circulation
    approvals,  \* approvals in circulation, a sequence
    used,       \* per server: the nonces its store holds, with their scope, the
                \* second they were consumed, and (history) by which call
    pc,         \* per call: where it is
    why,        \* per call: the reason of its VerifyError
    call,       \* per call: its arguments, its `at`, and (history) when it began
    discharge,  \* per call: for each gate, the approval that satisfied it
    next        \* per call: the next of those whose nonce is to be consumed

vars == <<clock, pops, approvals, used, pc, why, call, discharge, next>>
locals == <<why, call, discharge, next>>

NoCall == [server |-> "", cred |-> "", req |-> "", nonce |-> "",
           pop |-> "", presented |-> <<>>, at |-> 0, began |-> 0]

Running == {"verify_chain", "check_pop", "consume_pop", "evaluate", "consume_approvals"}
Returned == {"authorized", "rejected"}

Init ==
    /\ clock = 0 /\ pops = {} /\ approvals = <<>>
    /\ used = [s \in Server |-> {}]
    /\ pc = [c \in Call |-> "idle"]
    /\ why = [c \in Call |-> "none"]
    /\ call = [c \in Call |-> NoCall]
    /\ discharge = [c \in Call |-> <<>>]
    /\ next = [c \in Call |-> 1]

-----------------------------------------------------------------------------
(* What the callers bring. *)

\* prove: the holder signs a request against a nonce, a second and an audience
\* (its own clock, or an explicit ts: any second).
Prove(cred, req, nonce, ts, aud) ==
    /\ Cardinality(pops) < MaxPops
    /\ Decision[cred].holder \notin WeakKey
    /\ pops' = pops \cup {[sig |-> Decision[cred].holder, cred |-> cred, req |-> req,
                           nonce |-> nonce, ts |-> ts, aud |-> aud]}
    /\ UNCHANGED <<clock, approvals, used, pc, locals>>

\* A proof not made by prove: signed by a stranger's key, or by none.
ProofElsewhere(k, cred, req, nonce, ts, aud) ==
    /\ Cardinality(pops) < MaxPops
    /\ pops' = pops \cup {[sig |-> k, cred |-> cred, req |-> req,
                           nonce |-> nonce, ts |-> ts, aud |-> aud]}
    /\ UNCHANGED <<clock, approvals, used, pc, locals>>

AddApproval(a) ==
    /\ Len(approvals) < MaxApprovals
    /\ approvals' = Append(approvals, a)
    /\ UNCHANGED <<clock, pops, used, pc, locals>>

\* make_approval: an approver signs a request for one gate of one credential,
\* under a random nonce (no other approval has it) and an expiry.
MakeApproval(k, cred, req, label, ttl) ==
    AddApproval([approver |-> k, sig |-> k, cred |-> cred, req |-> req,
                 label |-> label, exp |-> clock + ttl, nonce |-> Len(approvals) + 1])

\* An approval not made by make_approval, under a nonce of its own or the
\* nonce of another approval.  It names the approver it likes.
ApprovalElsewhere(k, approver, cred, req, label, ttl, nonce) ==
    /\ nonce \in 1..(Len(approvals) + 1)
    /\ AddApproval([approver |-> approver, sig |-> k, cred |-> cred, req |-> req,
                    label |-> label, exp |-> clock + ttl, nonce |-> nonce])

\* Time passes, but for no call longer than MaxCall.
Tick ==
    /\ clock < MaxTime
    /\ \A c \in Call : pc[c] \in Running => clock < call[c].began + MaxCall
    /\ clock' = clock + 1
    /\ UNCHANGED <<pops, approvals, used, pc, locals>>

\* A store that is a cache with a time to live forgets.
ExpiredEarly(e) ==                                  \* faulty variant: a second too soon
    Retention # Forever /\ clock + 1 >= e.at + Retention
Expired(e) == Retention # Forever /\ clock >= e.at + Retention
Evict(s, e) ==
    /\ Expired(e)
    /\ used' = [used EXCEPT ![s] = @ \ {e}]
    /\ UNCHANGED <<clock, pops, approvals, pc, locals>>

-----------------------------------------------------------------------------
(* NonceStore.consume: check-and-set in one step, as the class asks of the *)
(* cache that backs it.  It answers whether the nonce is new.              *)

HoldsAnyScope(s, scope, nonce) ==                   \* faulty variant: scope not in the key
    \E e \in used[s] : e.nonce = nonce
Holds(s, scope, nonce) == \E e \in used[s] : e.scope = scope /\ e.nonce = nonce

Record(c, scope, nonce) ==
    used' = [used EXCEPT ![call[c].server] =
                @ \cup {[scope |-> scope, nonce |-> nonce, at |-> clock, by |-> c]}]

Protected(c) == StoreOf[call[c].server] = "store"

\* Control moves on; a VerifyError ends the call and keeps its reason.
Goto(c, l) == pc' = [pc EXCEPT ![c] = l] /\ UNCHANGED why
Reject(c, reason) ==
    /\ pc' = [pc EXCEPT ![c] = "rejected"]
    /\ why' = [why EXCEPT ![c] = reason]

-----------------------------------------------------------------------------
(* authorize, step by step. *)

\* now(): the wall clock, truncated to the second.
NowRoundedUp == clock + 1                           \* faulty variant: rounded up
Now == clock

\* The call reads the clock once, unless it is given the time, and resolves its
\* replay protection: a store of another type than NonceStore is refused before
\* any work.
Begin(c, server, cred, req, nonce, pop, presented, at) ==
    /\ pc[c] = "idle" /\ at \in GivenAt \cup {Now}
    /\ call' = [call EXCEPT ![c] =
                  [server |-> server, cred |-> cred, req |-> req, nonce |-> nonce,
                   pop |-> pop, presented |-> presented, at |-> at, began |-> clock]]
    /\ IF StoreOf[server] = "other"
       THEN Reject(c, "no_store")
       ELSE Goto(c, "verify_chain")
    /\ UNCHANGED <<clock, pops, approvals, used, discharge, next>>

VerifyChain(c) ==
    /\ pc[c] = "verify_chain"
    /\ LET d == Decision[call[c].cred]
       IN  IF d.nbf <= call[c].at /\ call[c].at <= d.exp
           THEN Goto(c, "check_pop")
           ELSE Reject(c, "chain")
    /\ UNCHANGED <<clock, pops, approvals, used, call, discharge, next>>

\* keys.py verify_sig: degenerate keys first, as any signature would pass
\* under them; otherwise the key must have signed the message looked for.
RawVerify(pub, sig, same) == pub \in WeakKey \/ (sig = pub /\ same)
VerifySig(pub, sig, same) == pub \notin WeakKey /\ RawVerify(pub, sig, same)

\* check_pop: the nonce the server expects, its audience, a timestamp inside
\* the acceptance window, and the holder's signature over all of it.
PopOKAnyRequest(q) ==                               \* faulty variant: request not signed
    LET p == q.pop
    IN  /\ p.nonce = q.nonce
        /\ p.aud = AudienceOf[q.server]
        /\ q.at - p.ts <= max_skew /\ p.ts - q.at <= max_skew
        /\ VerifySig(Decision[q.cred].holder, p.sig, p.cred = q.cred)
PopOKAnyServer(q) ==                                \* faulty variant: audience unread
    LET p == q.pop
    IN  /\ p.nonce = q.nonce
        /\ q.at - p.ts <= max_skew /\ p.ts - q.at <= max_skew
        /\ VerifySig(Decision[q.cred].holder, p.sig, p.cred = q.cred /\ p.req = q.req)
PopOK(q) ==
    LET p == q.pop
    IN  /\ p.nonce = q.nonce
        /\ p.aud = AudienceOf[q.server]
        /\ q.at - p.ts <= max_skew /\ p.ts - q.at <= max_skew
        /\ VerifySig(Decision[q.cred].holder, p.sig, p.cred = q.cred /\ p.req = q.req)

CheckPop(c) ==
    /\ pc[c] = "check_pop"
    /\ IF PopOK(call[c]) THEN Goto(c, "consume_pop") ELSE Reject(c, "pop")
    /\ UNCHANGED <<clock, pops, approvals, used, call, discharge, next>>

\* The nonce is consumed after the proof verified, and before the scope check.
ConsumePop(c) ==
    /\ pc[c] = "consume_pop"
    /\ IF Protected(c) /\ Holds(call[c].server, "pop", call[c].nonce)
       THEN Reject(c, "pop_replay") /\ UNCHANGED used
       ELSE /\ Goto(c, "evaluate")
            /\ IF Protected(c) THEN Record(c, "pop", call[c].nonce) ELSE UNCHANGED used
    /\ UNCHANGED <<clock, pops, approvals, call, discharge, next>>

\* The requires_approval branch of _eval_one: approval number n, among those
\* presented with call q, satisfies gate g.
SatisfiesAnyRequest(q, g, n) ==                     \* faulty variant: request not signed
    LET a == approvals[n]
    IN  /\ a.approver = g.approver /\ a.exp >= q.at
        /\ VerifySig(g.approver, a.sig, a.cred = q.cred /\ a.label = g.label)
SatisfiesAnyCred(q, g, n) ==                        \* faulty variant: muhuri_id not signed
    LET a == approvals[n]
    IN  /\ a.approver = g.approver /\ a.exp >= q.at
        /\ VerifySig(g.approver, a.sig, a.req = q.req /\ a.label = g.label)
SatisfiesAnyLabel(q, g, n) ==                       \* faulty variant: label not signed
    LET a == approvals[n]
    IN  /\ a.approver = g.approver /\ a.exp >= q.at
        /\ VerifySig(g.approver, a.sig, a.cred = q.cred /\ a.req = q.req)
SatisfiesUnsigned(q, g, n) ==                       \* faulty variant: signature unread
    LET a == approvals[n]
    IN  /\ a.approver = g.approver /\ a.exp >= q.at
        /\ a.cred = q.cred /\ a.req = q.req /\ a.label = g.label
Satisfies(q, g, n) ==
    LET a == approvals[n]
    IN  /\ a.approver = g.approver
        /\ a.exp >= q.at
        /\ VerifySig(g.approver, a.sig,
                     a.cred = q.cred /\ a.req = q.req /\ a.label = g.label)

Satisfying(q, g) ==
    {k \in DOMAIN q.presented : Satisfies(q, g, q.presented[k])}

First(S) == CHOOSE k \in S : \A m \in S : k <= m

\* evaluate: the conjunction of every hop's caveats.  For each gate the first
\* presented approval that satisfies it is remembered; nothing is consumed.
Evaluate(c) ==
    LET q == call[c]
        d == Decision[q.cred]
    IN  /\ pc[c] = "evaluate"
        /\ IF q.req \in d.allow /\ \A g \in DOMAIN d.gates : Satisfying(q, d.gates[g]) # {}
           THEN /\ Goto(c, "consume_approvals")
                /\ discharge' = [discharge EXCEPT ![c] =
                     [g \in DOMAIN d.gates |-> q.presented[First(Satisfying(q, d.gates[g]))]]]
           ELSE Reject(c, "scope") /\ UNCHANGED discharge
        /\ UNCHANGED <<clock, pops, approvals, used, call, next>>

\* dict.fromkeys: position g holds a nonce that an earlier position held.
NeverRepeated(c, g) == FALSE                        \* faulty variant: no dict.fromkeys
Repeated(c, g) ==
    \E h \in 1..(g - 1) :
        approvals[discharge[c][h]].nonce = approvals[discharge[c][g]].nonce

\* One turn of the loop over the distinct approval nonces.
ConsumeApproval(c) ==
    /\ pc[c] = "consume_approvals" /\ Protected(c) /\ next[c] <= Len(discharge[c])
    /\ LET nonce == approvals[discharge[c][next[c]]].nonce
       IN  IF Repeated(c, next[c])
           THEN next' = [next EXCEPT ![c] = @ + 1] /\ UNCHANGED <<used, pc, why>>
           ELSE IF Holds(call[c].server, "approval", nonce)
           THEN Reject(c, "approval_replay") /\ UNCHANGED <<used, next>>
           ELSE /\ Record(c, "approval", nonce)
                /\ next' = [next EXCEPT ![c] = @ + 1]
                /\ UNCHANGED <<pc, why>>
    /\ UNCHANGED <<clock, pops, approvals, call, discharge>>

\* dec.authorized = True
AuthorizedEarly(c) ==                               \* faulty variant: before the loop ends
    /\ pc[c] = "consume_approvals"
    /\ Goto(c, "authorized")
    /\ UNCHANGED <<clock, pops, approvals, used, call, discharge, next>>
Authorized(c) ==
    /\ pc[c] = "consume_approvals"
    /\ Protected(c) => next[c] > Len(discharge[c])
    /\ Goto(c, "authorized")
    /\ UNCHANGED <<clock, pops, approvals, used, call, discharge, next>>

Step(c) == \/ VerifyChain(c) \/ CheckPop(c) \/ ConsumePop(c)
           \/ Evaluate(c) \/ ConsumeApproval(c) \/ Authorized(c)

\* Lists of approvals a caller can bring.
Presentations == UNION {[1..n -> DOMAIN approvals] : n \in 0..MaxPresented}

BeginStep ==
    \E c \in Call, server \in Server, cred \in Cred, req \in Request, nonce \in Nonce,
       pop \in pops, presented \in Presentations, at \in GivenAt \cup {Now} :
        Begin(c, server, cred, req, nonce, pop, presented, at)

ProveStep ==
    \E cred \in Cred, req \in Request, nonce \in Nonce, ts \in ProofTime,
       s \in Server :
        \/ Prove(cred, req, nonce, ts, AudienceOf[s])
        \/ \E k \in Stranger : ProofElsewhere(k, cred, req, nonce, ts, AudienceOf[s])

ApproveStep ==
    \E cred \in Cred, req \in Request, label \in Label, ttl \in ApprovalTTL,
       approver \in Approver :
        \/ approver \notin WeakKey /\ MakeApproval(approver, cred, req, label, ttl)
        \/ \E k \in Stranger, nonce \in 1..MaxApprovals :
               ApprovalElsewhere(k, approver, cred, req, label, ttl, nonce)

\* Nothing is left to do: every call has returned and the clock has stopped.
Finished == clock = MaxTime /\ (\A c \in Call : pc[c] \in Returned) /\ UNCHANGED vars

Next ==
    \/ ProveStep \/ ApproveStep \/ Tick
    \/ \E s \in Server : \E e \in used[s] : Evict(s, e)
    \/ BeginStep
    \/ \E c \in Call : Step(c)
    \/ Finished

Spec == Init /\ [][Next]_vars

\* authorize is sequential code that waits for nothing: while calls run, the
\* machine goes on with one of them, whichever.
FairSpec == Spec /\ WF_vars(\E c \in Call : Step(c))

-----------------------------------------------------------------------------

TypeOK ==
    /\ clock \in 0..MaxTime
    /\ \A p \in pops :
          p.sig \in Key \cup {NoKey} /\ p.cred \in Cred /\ p.req \in Request
          /\ p.nonce \in Nonce /\ p.ts \in Int
    /\ \A n \in DOMAIN approvals : approvals[n].nonce \in 1..n
    /\ \A s \in Server : \A e \in used[s] :
          e.scope \in {"pop", "approval"} /\ e.at \in 0..clock /\ e.by \in Call
    /\ pc \in [Call -> {"idle"} \cup Running \cup Returned]
    /\ \A c \in Call : pc[c] # "idle" =>
          /\ call[c].pop \in pops /\ call[c].server \in Server
          /\ call[c].began \in 0..clock /\ call[c].at \in GivenAt \cup 0..clock
    /\ \A c \in Call : next[c] \in 1..(Len(discharge[c]) + 1)

SameAction(c, d) == call[c].cred = call[d].cred /\ call[c].req = call[d].req

\* No common store stands between the two calls: they are at different servers
\* (a store is a server's own), or their server opted out.
Apart(c, d) == call[c].server = call[d].server => ~Protected(c)

\* One proof, one action (R2, R7): when two calls are authorized on the same
\* proof of possession, it is for the same credential, request and audience,
\* and not at one protected server: whatever the interleaving, and although an
\* expiring store forgets the nonce while a slow call still runs.
PopOnce ==
    \A c, d \in Call :
        /\ c # d /\ pc[c] = "authorized" /\ pc[d] = "authorized"
        /\ call[c].pop = call[d].pop
        => /\ SameAction(c, d) /\ Apart(c, d)
           /\ AudienceOf[call[c].server] = AudienceOf[call[d].server]

Uses(c) == {discharge[c][g] : g \in DOMAIN discharge[c]}

\* One approval, one action (R1): when two calls are authorized on the same
\* approval, it is for the same credential and request, and not at one
\* protected server.
ApprovalOnce ==
    \A c, d \in Call :
        /\ c # d /\ pc[c] = "authorized" /\ pc[d] = "authorized"
        /\ Uses(c) \cap Uses(d) # {}
        => SameAction(c, d) /\ Apart(c, d)

\* An authorized call was consented to (FRESH-4, R1): behind every gate of its
\* chain stands an approval that the gate's own approver, under a key that is
\* not degenerate, signed for this credential, this request and this gate's
\* label, and that had not expired at the call's `at`.
Consented ==
    \A c \in Call : pc[c] = "authorized" =>
        LET gates == Decision[call[c].cred].gates
        IN  /\ DOMAIN discharge[c] = DOMAIN gates
            /\ \A g \in DOMAIN gates :
                  LET a == approvals[discharge[c][g]]
                  IN  /\ a.sig = gates[g].approver /\ a.sig \notin WeakKey
                      /\ a.cred = call[c].cred /\ a.req = call[c].req
                      /\ a.label = gates[g].label
                      /\ call[c].at <= a.exp

\* Nobody else can use a nonce up (REPLAY-2, FRESH-B): a PoP nonce in a store
\* was burned on a proof that the credential's holder signed for that server,
\* credential and request, an approval nonce on an approval that its approver
\* signed for that credential and request, by a call that held both.
BurnJustified ==
    \A s \in Server : \A e \in used[s] :
        LET q == call[e.by]
        IN  /\ q.pop.sig = Decision[q.cred].holder /\ q.pop.aud = AudienceOf[s]
            /\ Decision[q.cred].holder \notin WeakKey
            /\ q.pop.cred = q.cred /\ q.pop.req = q.req
            /\ e.scope = "pop" => q.pop.nonce = e.nonce
            /\ e.scope = "approval" =>
                  \E n \in Uses(e.by) :
                      LET a == approvals[n]
                      IN  /\ a.nonce = e.nonce /\ a.sig = a.approver
                          /\ a.cred = q.cred /\ a.req = q.req

\* A call refused as a replay of a proof was preceded by another call that
\* held a proof for the same nonce at the same server: an approval that carries
\* the same bytes, or a refused proof, is never taken for it.
ReplayHasCause ==
    \A c \in Call : why[c] = "pop_replay" =>
        \E d \in Call \ {c} :
            /\ call[d].server = call[c].server /\ call[d].nonce = call[c].nonce
            /\ pc[d] \in {"evaluate", "consume_approvals", "authorized", "rejected"}
            /\ PopOK(call[d])

\* Contention refuses only who is behind (APPROVAL-1): if a call is refused
\* because an approval was used, a call for the same action at the same server
\* has been authorized, or is still consuming.  Gates that share an approval do
\* not refuse their own call, and calls that share several do not refuse each
\* other.
ContestedServed ==
    \A c \in Call : why[c] = "approval_replay" =>
        \E d \in Call :
            /\ call[d].server = call[c].server /\ SameAction(c, d)
            /\ pc[d] \in {"consume_approvals", "authorized"}

\* What was spent buys the action (APPROVAL-1): once a call has consumed an
\* approval, a call for the same action at the same server is authorized,
\* although the one that spent it may be refused over another approval.
SpentServes ==
    \A c \in Call :
        (\E s \in Server : \E e \in used[s] : e.scope = "approval" /\ e.by = c)
        ~> (\E d \in Call : /\ pc[d] = "authorized" /\ SameAction(c, d)
                             /\ call[d].server = call[c].server)
=============================================================================

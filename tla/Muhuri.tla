------------------------------- MODULE Muhuri -------------------------------
(***************************************************************************)
(* The library put together: authorize of muhuri/verify.py, over links     *)
(* that Credential makes, walked by VerifyChain while the deny-list grows, *)
(* then the gate over the very list that was walked.  A proof or an        *)
(* approval names a credential by muhuri_id(), the hash of its link ids,   *)
(* here the list of them: whoever signs it may have seen no link of it.    *)
(* A signature covers exactly the fields next to it; Framing.tla is about  *)
(* what of them the signed bytes pin down.                                 *)
(*                                                                         *)
(* One server makes one call after another; calls that run at the same     *)
(* time, and the seconds, audiences and expiries of proofs and approvals,  *)
(* are in Authorize.  The variables of VerifyChain are those of the call:  *)
(* after pc = "accepted" its accumulators are the Decision.                *)
(***************************************************************************)
EXTENDS VerifyChain

CONSTANTS
    Request, Nonce,
    Admits,         \* per caveat: the requests it admits
    Approver,       \* per caveat: who must approve (requires_approval), or NoKey
    Named,          \* what proofs and approvals name: lists of link ids
    MaxPops, MaxApprovals \* bounds of the runs

ASSUME CaveatAssumption ==
    /\ Admits \in [Caveat -> SUBSET Request]
    /\ Approver \in [Caveat -> Key \cup {NoKey}]

VARIABLES
    pops,           \* proofs of possession in circulation
    approvals,      \* approvals in circulation; the index is the nonce
    taken,          \* the nonce store, with (history) the call that took each
    args,           \* the call's request, expected nonce, proof and approvals
    stage,          \* of the call, once its chain is accepted
    consents,       \* per gate of the chain: the approval that satisfied it
    todo,           \* approval nonces still to be consumed
    acted           \* history: the actions that were authorized

gateVars == <<taken, args, stage, consents, todo, acted>>
mvars == <<vars, pops, approvals, gateVars>>

NoArgs == [req |-> NoKey, nonce |-> NoKey, pop |-> NoKey, presented |-> {}]

MInit ==
    /\ VInit
    /\ pops = {} /\ approvals = <<>> /\ taken = {}
    /\ args = NoArgs /\ stage = "check_pop" /\ consents = <<>> /\ todo = {}
    /\ acted = {}

-----------------------------------------------------------------------------
(* What the callers bring. *)

\* prove, by whoever holds a key: the library asks for the current holder's,
\* other software for none.  Nothing of the chain is verified.
Prove(k, c, req, nonce) ==
    /\ pops' = pops \cup {[sig |-> k, cred |-> c, req |-> req, nonce |-> nonce]}
    /\ UNCHANGED <<vars, approvals, gateVars>>

\* make_approval, by whoever holds a key, for one gate of one credential.
MakeApproval(k, c, req, gate) ==
    /\ approvals' = Append(approvals, [sig |-> k, cred |-> c, req |-> req, gate |-> gate])
    /\ UNCHANGED <<vars, pops, gateVars>>

Call(c, t, depth, req, nonce, pop, presented) ==
    /\ Begin(c, t, depth)
    /\ args' = [req |-> req, nonce |-> nonce, pop |-> pop, presented |-> presented]
    /\ UNCHANGED <<pops, approvals, taken, stage, consents, todo, acted>>

-----------------------------------------------------------------------------
(* The gate. *)

HolderOf(c) == links[c[Len(c)]].dge

\* A signature over exactly these fields, under a key that is not degenerate.
SignedBy(pub, m, cred, req) ==
    /\ VerifySig(pub, m)
    /\ m.cred = cred /\ m.req = req

AtWalking(s) == pc \in {"loop", "accepted"} /\ stage = s   \* faulty variant: verdict not awaited
At(s) == pc = "accepted" /\ stage = s
Goto(s) == stage' = s
Refuse == Goto("rejected") /\ UNCHANGED <<taken, consents, todo, acted>>

PopOKAnyHolder ==                                   \* faulty variant: any key of the chain
    /\ args.pop.nonce = args.nonce
    /\ \E k \in 1..Len(chain) : SignedBy(links[chain[k]].dge, args.pop, chain, args.req)
PopOK ==
    /\ args.pop.nonce = args.nonce
    /\ SignedBy(HolderOf(chain), args.pop, chain, args.req)

CheckPop ==
    /\ At("check_pop")
    /\ IF PopOK
       THEN Goto("consume_pop") /\ UNCHANGED <<taken, consents, todo, acted>>
       ELSE Refuse

\* store.consume: whether the nonce was new, and that it no longer is.
New(scope, nonce) == \A e \in taken : ~(e.scope = scope /\ e.nonce = nonce)
Take(scope, nonce, by) ==
    taken' = taken \cup {[scope |-> scope, nonce |-> nonce, by |-> by,
                          cred |-> chain, at |-> at, deny |-> revoked0]}

ConsumePop ==
    /\ At("consume_pop")
    /\ IF New("pop", args.nonce)
       THEN Take("pop", args.nonce, args.pop.sig) /\ Goto("evaluate")
            /\ UNCHANGED <<consents, todo, acted>>
       ELSE Refuse

Gates(cav) == {q \in cav : Approver[q] # NoKey}

ConsentingAnyCred(q) ==                             \* faulty variant: muhuri_id not signed
    {n \in args.presented :
        /\ approvals[n].gate = q /\ VerifySig(Approver[q], approvals[n])
        /\ approvals[n].req = args.req}
Consenting(q) ==
    {n \in args.presented :
        /\ approvals[n].gate = q
        /\ SignedBy(Approver[q], approvals[n], chain, args.req)}

\* evaluate: every caveat of every hop, the plain ones and the gates.
AdmittedByGates ==                                  \* faulty variant: consent overrides scope
    \A q \in Gates(effCav) : Consenting(q) # {}
Admitted ==
    /\ \A q \in effCav \ Gates(effCav) : args.req \in Admits[q]
    /\ \A q \in Gates(effCav) : Consenting(q) # {}

\* Which of several approvals serves a gate depends on the order they were
\* presented in, and any order may come.
Evaluate ==
    /\ At("evaluate")
    /\ IF Admitted
       THEN /\ Goto("consume_approvals")
            /\ consents' \in {f \in [Gates(effCav) -> args.presented] :
                                 \A q \in Gates(effCav) : f[q] \in Consenting(q)}
            /\ todo' = {consents'[q] : q \in Gates(effCav)}
            /\ UNCHANGED <<taken, acted>>
       ELSE Refuse

ConsumeApproval ==
    /\ At("consume_approvals")
    /\ \E n \in todo :
        IF New("approval", n)
        THEN /\ Take("approval", n, approvals[n].sig)
             /\ todo' = todo \ {n}
             /\ UNCHANGED <<stage, consents, acted>>
        ELSE Refuse

Authorized ==
    /\ At("consume_approvals") /\ todo = {}
    /\ Goto("authorized")
    /\ acted' = acted \cup {[cred |-> chain, req |-> args.req, at |-> at, deny |-> revoked0,
                             by |-> args.pop.sig, consents |-> consents]}
    /\ UNCHANGED <<taken, consents, todo>>

\* No step of the gate changes the Decision, reads the clock again, or asks the
\* deny-list.
Keep == UNCHANGED vars

GateStep ==
    /\ CheckPop \/ ConsumePop \/ Evaluate \/ ConsumeApproval \/ Authorized
    /\ Keep
    /\ UNCHANGED <<pops, approvals, args>>

\* The caller has its Decision, or its VerifyError from the chain or the gate.
MReturn ==
    /\ pc = "accepted" => stage \in {"authorized", "rejected"}
    /\ Return
    /\ args' = NoArgs /\ stage' = "check_pop" /\ consents' = <<>> /\ todo' = {}
    /\ UNCHANGED <<pops, approvals, taken, acted>>

-----------------------------------------------------------------------------

ProveStep ==
    /\ Cardinality(pops) < MaxPops
    /\ \E k \in Key \ WeakKey, c \in Named, req \in Request, nonce \in Nonce :
          Prove(k, c, req, nonce)

ApproveStep ==
    /\ Len(approvals) < MaxApprovals
    /\ \E k \in Key \ WeakKey, c \in Named, req \in Request, gate \in Gates(Caveat) :
          MakeApproval(k, c, req, gate)

CallStep ==
    /\ pc = "idle"
    /\ \E c \in Chains, t \in GivenAt \cup {Now}, depth \in GivenDepth, req \in Request,
          nonce \in Nonce, pop \in pops, presented \in SUBSET (DOMAIN approvals) :
           Call(c, t, depth, req, nonce, pop, presented)

\* Links are made, time passes, links are revoked.
WorldStep ==
    /\ (Next /\ UNCHANGED <<revoked, callVars>>) \/ RevokeStep
    /\ UNCHANGED <<pops, approvals, gateVars>>

WalkStep == VerifyStep /\ UNCHANGED <<pops, approvals, gateVars>>

MNext == WorldStep \/ ProveStep \/ ApproveStep \/ CallStep \/ WalkStep \/ GateStep \/ MReturn

MSpec == MInit /\ [][MNext]_mvars

-----------------------------------------------------------------------------

MTypeOK ==
    /\ pops \subseteq [sig : Key, cred : Named, req : Request, nonce : Nonce]
    /\ approvals \in Seq([sig : Key, cred : Named, req : Request, gate : Caveat])
    /\ pc # "idle" => args.pop \in pops /\ args.presented \subseteq DOMAIN approvals
    /\ stage \in {"check_pop", "consume_pop", "evaluate", "consume_approvals",
                  "authorized", "rejected"}
    /\ stage # "check_pop" => pc = "accepted"
    /\ todo \subseteq args.presented /\ (stage = "check_pop" => todo = {})
    /\ \A e \in taken \cup acted : e.cred \in Seq(Id) /\ e.deny \subseteq revoked

\* An action was delegated, every bit of it (R1, R4, R5): the list that an
\* authorized call's proof and approvals name is the one chain of its last link,
\* valid when the call began although links were revoked or made since; its last
\* delegate made the proof; every hop admits the request, and whoever a hop wants
\* to be asked has approved that request for that credential and no other.
DelegatedAction ==
    \A e \in acted :
        /\ e.cred = lineage[e.cred[Len(e.cred)]]
        /\ Valid(e.cred, e.at, e.deny)
        /\ e.by = HolderOf(e.cred) /\ e.by \notin WeakKey
        /\ \A k \in 1..Len(e.cred) : \A q \in links[e.cred[k]].cav :
              IF Approver[q] = NoKey THEN e.req \in Admits[q]
              ELSE /\ q \in DOMAIN e.consents
                   /\ LET a == approvals[e.consents[q]]
                      IN  a.sig = Approver[q] /\ a.gate = q /\ a.cred = e.cred /\ a.req = e.req

\* Nobody whom no root delegated to uses up a nonce of this server: a nonce in
\* its store was taken under a credential that was valid when the call began, a
\* proof's by the holder of that credential.
TakenByDelegates ==
    \A e \in taken :
        /\ Valid(e.cred, e.at, e.deny)
        /\ e.scope = "pop" => e.by = HolderOf(e.cred) /\ e.by \notin WeakKey
=============================================================================

-------------------------- MODULE AuthorizeProofs --------------------------
(***************************************************************************)
(* Proofs about Authorize.tla, for any calls, servers, credentials, gates  *)
(* and approvals, any interleaving, and any retention that the assumption  *)
(* RetentionAssumption admits.                                             *)
(*                                                                         *)
(* Single use rests on one argument, made once for proofs and once for     *)
(* approvals.  A call that has consumed a nonce either still finds it in   *)
(* its server's store or is stale: the clock has passed its start by the   *)
(* retention (HeldFor).  A second call that is about to consume the same   *)
(* nonce judged the same proof, or leans on the same approval, so its own  *)
(* start is at most 2 * max_skew, or the approval's ttl, later, and it has  *)
(* run for at most MaxCall; then the first cannot be stale yet, and the    *)
(* second finds the nonce.                                                 *)
(***************************************************************************)
EXTENDS Authorize, WellFoundedInduction, TLAPS

Early == {"idle", "verify_chain", "check_pop", "consume_pop", "evaluate"}
Late == {"evaluate", "consume_approvals", "authorized"}
Discharging == {"consume_approvals", "authorized"}

Approval == [approver : Key, sig : Key \cup {NoKey}, cred : Cred, req : Request,
             label : Label, exp : Nat, nonce : Nat]

\* The functions have their domains, approvals their types, and their expiry
\* was at most a ttl away when they were made.
Shapes ==
    /\ DOMAIN used = Server /\ DOMAIN call = Call
    /\ DOMAIN discharge = Call /\ DOMAIN next = Call
    /\ approvals \in Seq(Approval)
    /\ \A n \in DOMAIN approvals :
          \E ttl \in ApprovalTTL : approvals[n].exp <= clock + ttl

\* What a call presents was there when it began; where the store expires, the
\* call's `at` is that second.
CallsOK ==
    \A c \in Call : pc[c] # "idle" =>
        /\ call[c].cred \in Cred
        /\ Retention # Forever => call[c].at = call[c].began
        /\ DOMAIN call[c].presented \subseteq Nat
        /\ \A k \in DOMAIN call[c].presented :
              /\ call[c].presented[k] \in DOMAIN approvals
              /\ \E ttl \in ApprovalTTL :
                    approvals[call[c].presented[k]].exp <= call[c].began + ttl

\* Running calls are not old.
Prompt == \A c \in Call : pc[c] \in Running => clock <= call[c].began + MaxCall

\* Past check_pop the proof has verified.
Checked == \A c \in Call : pc[c] \in {"consume_pop"} \cup Late => PopOK(call[c])

\* The store holds what calls of this server consumed after they verified it.
EntriesOK ==
    \A s \in Server : \A e \in used[s] :
        /\ pc[e.by] \in Late \cup {"rejected"}
        /\ call[e.by].server = s /\ PopOK(call[e.by])
        /\ e.scope = "pop" => e.nonce = call[e.by].nonce
        /\ e.scope = "approval" =>
              \E g \in DOMAIN discharge[e.by] : approvals[discharge[e.by][g]].nonce = e.nonce

\* What a gate leans on satisfies it.
Discharged ==
    \A c \in Call :
        /\ discharge[c] \in Seq(Nat)
        /\ \A g \in DOMAIN discharge[c] :
              /\ discharge[c][g] \in DOMAIN approvals
              /\ Satisfies(call[c], Decision[call[c].cred].gates[g], discharge[c][g])
              /\ \E ttl \in ApprovalTTL : approvals[discharge[c][g]].exp <= call[c].began + ttl

\* When the loop over the approvals has begun, and when it is over.
Ordered ==
    \A c \in Call :
        /\ pc[c] \in Early => next[c] = 1 /\ discharge[c] = <<>>
        /\ pc[c] \in Discharging =>
              DOMAIN discharge[c] = DOMAIN Decision[call[c].cred].gates
        /\ pc[c] = "authorized" /\ Protected(c) => next[c] > Len(discharge[c])

\* A nonce that call c consumed is in the store, or c is long past.
Stale(c) == Retention # Forever /\ clock >= call[c].began + Retention
HeldFor(c, scope, nonce) ==
    \/ Stale(c)
    \/ \E e \in used[call[c].server] :
          e.scope = scope /\ e.nonce = nonce /\ e.at >= call[c].began

PopHeld ==
    \A c \in Call : pc[c] \in Late /\ Protected(c) => HeldFor(c, "pop", call[c].nonce)

ApprovalsHeld ==
    \A c \in Call : Protected(c) =>
        \A g \in DOMAIN discharge[c] :
            g < next[c] => HeldFor(c, "approval", approvals[discharge[c][g]].nonce)

\* No two calls at a protected server have consumed the nonce of one proof.
Colleagues(c, d) == c # d /\ call[c].server = call[d].server /\ Protected(c)

PopsApart ==
    \A c, d \in Call :
        Colleagues(c, d) /\ pc[c] \in Late /\ pc[d] \in Late => call[c].pop # call[d].pop

\* Nor, when they lean on a common approval, that approval's nonce.
Passed(c, nonce) ==
    \E g \in DOMAIN discharge[c] : g < next[c] /\ approvals[discharge[c][g]].nonce = nonce

ApprovalsApart ==
    \A c, d \in Call : Colleagues(c, d) =>
        \A g \in DOMAIN discharge[c], h \in DOMAIN discharge[d] :
            discharge[c][g] = discharge[d][h] =>
                ~ (Passed(c, approvals[discharge[c][g]].nonce)
                   /\ Passed(d, approvals[discharge[c][g]].nonce))

Inv == /\ TypeOK /\ Shapes /\ CallsOK /\ Prompt /\ Checked /\ EntriesOK /\ Discharged
       /\ Ordered /\ PopHeld /\ ApprovalsHeld /\ PopsApart /\ ApprovalsApart

-----------------------------------------------------------------------------

\* Induction on the naturals: a set of them has a least one.
LEMMA LeastIsIn ==
    ASSUME NEW S, S \subseteq Nat, S # {}
    PROVE  \E k \in S : \A m \in S : k <= m
<1> DEFINE Less == OpToRel(<, Nat)
<1>1. \A k, m \in Nat : m < k => <<m, k>> \in Less
  BY DEF OpToRel
<1>2. IsWellFoundedOn(Less, Nat)
  BY NatLessThanWellFounded
<1> HIDE DEF Less
<1>3. \E k \in S : \A m \in S : ~(<<m, k>> \in Less)
  BY <1>2, WFMin
<1>4. PICK k \in S : \A m \in S : ~(<<m, k>> \in Less)
  BY <1>3
<1>5. ASSUME NEW m \in S PROVE k <= m
  <2>1. k \in Nat /\ m \in Nat /\ ~(m < k)
    BY <1>1, <1>4, Zenon
  <2> QED BY <2>1
<1> QED BY <1>5

LEMMA FirstIsIn ==
    ASSUME NEW S, S \subseteq Nat, S # {}
    PROVE  First(S) \in S
BY LeastIsIn DEF First

LEMMA InitInv == Init => Inv
<1> SUFFICES ASSUME Init PROVE Inv
  OBVIOUS
<1>1. /\ clock = 0 /\ pops = {} /\ approvals = <<>>
      /\ used = [s \in Server |-> {}]
      /\ pc = [c \in Call |-> "idle"] /\ call = [c \in Call |-> NoCall]
      /\ discharge = [c \in Call |-> <<>>] /\ next = [c \in Call |-> 1]
  BY DEF Init
<1>2. <<>> \in Seq(Nat) /\ <<>> \in Seq(Approval) /\ DOMAIN <<>> = {} /\ Len(<<>>) = 0
  OBVIOUS
<1>3. TypeOK
  BY <1>1, <1>2, NumberAssumption DEF TypeOK
<1>4. Shapes
  BY <1>1, <1>2 DEF Shapes
<1>5. CallsOK /\ Prompt /\ Checked /\ PopHeld
  BY <1>1 DEF CallsOK, Prompt, Checked, PopHeld, Running, Late
<1>6. EntriesOK
  BY <1>1 DEF EntriesOK
<1>7. \A c \in Call : discharge[c] = <<>> /\ DOMAIN discharge[c] = {} /\ next[c] = 1 /\ pc[c] = "idle"
  BY <1>1, <1>2
<1>8. Discharged /\ ApprovalsHeld /\ PopsApart /\ ApprovalsApart
  BY <1>2, <1>7 DEF Discharged, ApprovalsHeld, PopsApart, ApprovalsApart, Late
<1>9. Ordered
  BY <1>7 DEF Ordered, Early, Discharging
<1> QED BY <1>3, <1>4, <1>5, <1>6, <1>8, <1>9 DEF Inv
-----------------------------------------------------------------------------
(* What the callers bring, the clock and the cache. *)

\* A proof in circulation changes nothing that calls know.
LEMMA PopAdded ==
    ASSUME Inv, NEW p, pops' = pops \cup {p},
           p.sig \in Key \cup {NoKey}, p.cred \in Cred, p.req \in Request,
           p.nonce \in Nonce, p.ts \in Int,
           UNCHANGED <<clock, approvals, used, pc, locals>>
    PROVE  Inv'
<1> USE DEF Inv, locals
<1>1. TypeOK'
  BY DEF TypeOK
<1>2. Shapes' /\ CallsOK' /\ Prompt'
  BY DEF Shapes, CallsOK, Prompt
<1>3. Checked' /\ EntriesOK'
  BY DEF Checked, EntriesOK, PopOK, VerifySig, RawVerify
<1>4. Discharged'
  BY DEF Discharged, Satisfies, VerifySig, RawVerify
<1>5. Ordered' /\ PopHeld' /\ ApprovalsHeld'
  BY DEF Ordered, PopHeld, ApprovalsHeld, Protected, HeldFor, Stale
<1>6. PopsApart' /\ ApprovalsApart'
  BY DEF PopsApart, ApprovalsApart, Colleagues, Protected, Passed
<1> QED BY <1>1, <1>2, <1>3, <1>4, <1>5, <1>6

\* An approval is appended to the others, and its expiry is a ttl away.
LEMMA ApprovalAdded ==
    ASSUME Inv, NEW a \in Approval, a.nonce \in 1..(Len(approvals) + 1),
           \E ttl \in ApprovalTTL : a.exp = clock + ttl,
           AddApproval(a)
    PROVE  Inv'
<1> USE DEF Inv, locals
<1>1. /\ approvals' = Append(approvals, a)
      /\ UNCHANGED <<clock, pops, used, pc, why, call, discharge, next>>
  BY DEF AddApproval
<1>2. approvals \in Seq(Approval)
  BY DEF Shapes
<1>3. /\ approvals' \in Seq(Approval)
      /\ DOMAIN approvals \subseteq DOMAIN approvals'
      /\ \A n \in DOMAIN approvals : approvals'[n] = approvals[n]
      /\ \A n \in DOMAIN approvals' \ DOMAIN approvals :
            n = Len(approvals) + 1 /\ approvals'[n] = a
  BY <1>1, <1>2
<1>4. TypeOK'
  BY <1>1, <1>2, <1>3 DEF TypeOK
<1>5. Shapes'
  <2>1. clock \in Nat /\ a.exp \in Nat
    BY NumberAssumption DEF TypeOK, Approval
  <2>2. PICK ttl \in ApprovalTTL : a.exp = clock + ttl
    OBVIOUS
  <2>3. ttl \in Nat
    BY NumberAssumption
  <2>4. a.exp <= clock + ttl
    BY <2>1, <2>2, <2>3
  <2> QED BY <1>1, <1>3, <2>4 DEF Shapes
<1>6. CallsOK' /\ Prompt'
  BY <1>1, <1>3 DEF CallsOK, Prompt
<1>7. Checked'
  BY <1>1 DEF Checked, PopOK, VerifySig, RawVerify
<1>8. \A c \in Call : \A g \in DOMAIN discharge[c] :
          discharge[c][g] \in DOMAIN approvals
          /\ approvals'[discharge[c][g]] = approvals[discharge[c][g]]
  BY <1>3 DEF Discharged
<1>9. Discharged'
  BY SMTT(60), <1>1, <1>3, <1>8 DEF Discharged, Satisfies, VerifySig, RawVerify
<1>10. EntriesOK'
  <2>1. \A s \in Server : \A e \in used[s] : e.by \in Call
    BY DEF TypeOK
  <2> QED BY <1>1, <1>8, <2>1 DEF EntriesOK, PopOK, VerifySig, RawVerify
<1>11. Ordered' /\ PopHeld'
  BY <1>1 DEF Ordered, PopHeld, Protected, HeldFor, Stale
<1>12. ApprovalsHeld'
  BY <1>1, <1>8 DEF ApprovalsHeld, Protected, HeldFor, Stale
<1>13. PopsApart'
  BY <1>1 DEF PopsApart, Colleagues, Protected
<1>14. ApprovalsApart'
  BY <1>1, <1>8 DEF ApprovalsApart, Colleagues, Protected, Passed
<1> QED BY <1>4, <1>5, <1>6, <1>7, <1>9, <1>10, <1>11, <1>12, <1>13, <1>14

LEMMA TickInv == ASSUME Inv, Tick PROVE Inv'
<1> USE DEF Inv, locals
<1>1. /\ clock' = clock + 1 /\ clock < MaxTime
      /\ \A c \in Call : pc[c] \in Running => clock < call[c].began + MaxCall
      /\ UNCHANGED <<pops, approvals, used, pc, why, call, discharge, next>>
  BY DEF Tick
<1>2. clock \in Nat /\ MaxTime \in Nat /\ MaxCall \in Nat
  BY NumberAssumption DEF TypeOK
<1>3. TypeOK'
  BY <1>1, <1>2 DEF TypeOK
<1>4. Shapes'
  <2>1. ASSUME NEW n \in DOMAIN approvals PROVE approvals[n].exp \in Nat
    <3>1. approvals[n] \in Approval
      BY DEF Shapes
    <3> QED BY <3>1 DEF Approval
  <2>2. ASSUME NEW n \in DOMAIN approvals
        PROVE  \E ttl \in ApprovalTTL : approvals[n].exp <= clock + 1 + ttl
    <3>1. PICK ttl \in ApprovalTTL : approvals[n].exp <= clock + ttl
      BY DEF Shapes
    <3>2. ttl \in Nat
      BY NumberAssumption
    <3> QED BY <1>2, <2>1, <3>1, <3>2
  <2> QED BY <1>1, <2>2 DEF Shapes
<1>5. CallsOK'
  BY <1>1 DEF CallsOK
<1>6. Prompt'
  <2>1. \A c \in Call : pc[c] \in Running => call[c].began \in Nat
    BY DEF TypeOK, Running
  <2> QED BY <1>1, <1>2, <2>1 DEF Prompt
<1>7. Checked' /\ EntriesOK'
  BY <1>1 DEF Checked, EntriesOK, PopOK, VerifySig, RawVerify
<1>8. Discharged'
  BY <1>1 DEF Discharged, Satisfies, VerifySig, RawVerify
<1>9. Ordered' /\ PopsApart'
  BY <1>1 DEF Ordered, PopsApart, Colleagues, Protected
<1>10. ApprovalsApart'
  BY <1>1 DEF ApprovalsApart, Colleagues, Protected, Passed
<1>11. ASSUME NEW c \in Call, NEW scope, NEW nonce, pc[c] # "idle", HeldFor(c, scope, nonce)
       PROVE  HeldFor(c, scope, nonce)'
  <2>1. call[c].began \in Nat
    BY <1>11 DEF TypeOK
  <2>2. CASE Stale(c)
    BY <1>1, <1>2, <2>1, <2>2, RetentionAssumption DEF Stale, HeldFor
  <2>3. CASE ~Stale(c)
    BY <1>1, <1>11, <2>3 DEF HeldFor
  <2> QED BY <2>2, <2>3
<1>12. PopHeld'
  BY <1>1, <1>11 DEF PopHeld, Protected, Late
<1>13. ApprovalsHeld'
  <2>1. \A c \in Call : DOMAIN discharge[c] # {} => pc[c] # "idle"
    BY DEF Ordered, Early
  <2> QED BY <1>1, <1>11, <2>1 DEF ApprovalsHeld, Protected
<1> QED BY <1>3, <1>4, <1>5, <1>6, <1>7, <1>8, <1>9, <1>10, <1>12, <1>13

\* The cache forgets an entry only when the call that made it is stale.
LEMMA EvictInv ==
    ASSUME Inv, NEW s \in Server, NEW e \in used[s], Evict(s, e)
    PROVE  Inv'
<1> USE DEF Inv, locals
<1>1. /\ Retention # Forever /\ clock >= e.at + Retention
      /\ used' = [used EXCEPT ![s] = @ \ {e}]
      /\ UNCHANGED <<clock, pops, approvals, pc, why, call, discharge, next>>
  BY DEF Evict, Expired
<1>2. /\ DOMAIN used' = Server
      /\ \A r \in Server : used'[r] \subseteq used[r]
      /\ \A r \in Server : \A u \in used[r] : u \in used'[r] \/ u = e
  BY <1>1 DEF Shapes
<1>3. TypeOK'
  BY <1>1, <1>2 DEF TypeOK
<1>4. Shapes' /\ CallsOK' /\ Prompt'
  BY <1>1, <1>2 DEF Shapes, CallsOK, Prompt
<1>5. Checked' /\ EntriesOK'
  BY <1>1, <1>2 DEF Checked, EntriesOK, PopOK, VerifySig, RawVerify
<1>6. Discharged'
  BY <1>1 DEF Discharged, Satisfies, VerifySig, RawVerify
<1>7. Ordered' /\ PopsApart'
  BY <1>1 DEF Ordered, PopsApart, Colleagues, Protected
<1>8. ApprovalsApart'
  BY <1>1 DEF ApprovalsApart, Colleagues, Protected, Passed
<1>9. ASSUME NEW c \in Call, NEW scope, NEW nonce, pc[c] # "idle", HeldFor(c, scope, nonce)
      PROVE  HeldFor(c, scope, nonce)'
  <2>1. /\ call[c].began \in Nat /\ call[c].server \in Server
        /\ clock \in Nat /\ e.at \in Nat /\ Retention \in Nat
    BY <1>1, <1>9, RetentionAssumption DEF TypeOK
  <2>2. CASE Stale(c)
    BY <1>1, <2>2 DEF Stale, HeldFor
  <2>3. CASE ~Stale(c)
    <3>1. PICK u \in used[call[c].server] :
              u.scope = scope /\ u.nonce = nonce /\ u.at >= call[c].began
      BY <1>9, <2>3 DEF HeldFor
    <3>2. CASE u = e
      BY <1>1, <2>1, <3>1, <3>2 DEF HeldFor, Stale
    <3>3. CASE u # e
      BY <1>1, <1>2, <2>1, <3>1, <3>3 DEF HeldFor
    <3> QED BY <3>2, <3>3
  <2> QED BY <2>2, <2>3
<1>10. PopHeld'
  BY <1>1, <1>9 DEF PopHeld, Protected, Late
<1>11. ApprovalsHeld'
  <2>1. \A c \in Call : DOMAIN discharge[c] # {} => pc[c] # "idle"
    BY DEF Ordered, Early
  <2> QED BY <1>1, <1>9, <2>1 DEF ApprovalsHeld, Protected
<1> QED BY <1>3, <1>4, <1>5, <1>6, <1>7, <1>8, <1>10, <1>11
-----------------------------------------------------------------------------
(* The steps of a call. *)

LEMMA BeginInv ==
    ASSUME Inv, NEW c \in Call, NEW server \in Server, NEW cred \in Cred,
           NEW req \in Request, NEW nonce \in Nonce, NEW pop \in pops,
           NEW presented \in Presentations, NEW at \in GivenAt \cup {Now},
           Begin(c, server, cred, req, nonce, pop, presented, at)
    PROVE  Inv'
<1> USE DEF Inv, locals
<1> DEFINE q == [server |-> server, cred |-> cred, req |-> req, nonce |-> nonce,
                 pop |-> pop, presented |-> presented, at |-> at, began |-> clock]
<1>1. /\ pc[c] = "idle"
      /\ call' = [call EXCEPT ![c] = q]
      /\ pc' = [pc EXCEPT ![c] = "rejected"] \/ pc' = [pc EXCEPT ![c] = "verify_chain"]
      /\ UNCHANGED <<clock, pops, approvals, used, discharge, next>>
  BY DEF Begin, Goto, Reject, Now
<1>2. /\ clock \in Nat /\ clock <= MaxTime /\ MaxCall \in Nat
      /\ pc \in [Call -> {"idle"} \cup Running \cup Returned]
  BY NumberAssumption DEF TypeOK
<1>3. /\ call'[c] = q
      /\ \A d \in Call : d # c => call'[d] = call[d] /\ pc'[d] = pc[d]
      /\ pc'[c] \in {"rejected", "verify_chain"}
      /\ DOMAIN call' = Call
      /\ pc' \in [Call -> {"idle"} \cup Running \cup Returned]
  BY <1>1, <1>2 DEF Shapes, Running, Returned
<1> HIDE DEF q
<1>4. /\ q.server = server /\ q.cred = cred /\ q.pop = pop
      /\ q.presented = presented /\ q.at = at /\ q.began = clock
  BY DEF q
<1>5. discharge[c] = <<>> /\ next[c] = 1 /\ DOMAIN discharge[c] = {}
  BY <1>1 DEF Ordered, Early
<1>6. \A s \in Server : \A e \in used[s] : e.by \in Call /\ e.by # c
  BY <1>1 DEF EntriesOK, TypeOK, Late
<1>7. TypeOK'
  <2>1. at \in GivenAt \cup 0..clock
    BY <1>2 DEF Now
  <2>2. q.began \in 0..clock /\ q.at \in GivenAt \cup 0..clock
    BY <1>2, <1>4, <2>1
  <2>3. \A d \in Call : pc'[d] # "idle" =>
            /\ call'[d].pop \in pops' /\ call'[d].server \in Server
            /\ call'[d].began \in 0..clock' /\ call'[d].at \in GivenAt \cup 0..clock'
    <3>1. ASSUME NEW d \in Call, d # c, pc'[d] # "idle"
          PROVE  /\ call'[d].pop \in pops' /\ call'[d].server \in Server
                 /\ call'[d].began \in 0..clock' /\ call'[d].at \in GivenAt \cup 0..clock'
      BY <1>1, <1>3, <3>1 DEF TypeOK
    <3>2. /\ call'[c].pop \in pops' /\ call'[c].server \in Server
          /\ call'[c].began \in 0..clock' /\ call'[c].at \in GivenAt \cup 0..clock'
      BY <1>1, <1>3, <1>4, <2>2
    <3> QED BY <3>1, <3>2
  <2> QED BY <1>1, <1>3, <2>3 DEF TypeOK
<1>8. Shapes'
  BY <1>1, <1>3 DEF Shapes
<1>9. CallsOK'
  <2>1. DOMAIN presented \subseteq Nat /\ \A k \in DOMAIN presented : presented[k] \in DOMAIN approvals
    BY DEF Presentations
  <2>2. \A k \in DOMAIN presented :
            \E ttl \in ApprovalTTL : approvals[presented[k]].exp <= clock + ttl
    BY <2>1 DEF Shapes
  <2>3. Retention # Forever => at = clock
    BY RetentionAssumption DEF Now
  <2> QED BY <1>1, <1>3, <1>4, <2>1, <2>2, <2>3 DEF CallsOK
<1>10. Prompt'
  BY <1>1, <1>2, <1>3, <1>4 DEF Prompt
<1>11. Checked'
  BY <1>1, <1>3 DEF Checked, PopOK, VerifySig, RawVerify, Late
<1>12. EntriesOK'
  BY <1>1, <1>3, <1>6 DEF EntriesOK, PopOK, VerifySig, RawVerify
<1>13. Discharged'
  BY <1>1, <1>3, <1>5 DEF Discharged, Satisfies, VerifySig, RawVerify
<1>14. Ordered'
  BY <1>1, <1>3, <1>5 DEF Ordered, Protected, Early, Discharging
<1>15. PopHeld' /\ PopsApart'
  BY <1>1, <1>3 DEF PopHeld, PopsApart, Colleagues, Protected, HeldFor, Stale, Late
<1>16. ApprovalsHeld' /\ ApprovalsApart'
  BY <1>1, <1>3, <1>5 DEF ApprovalsHeld, ApprovalsApart, Colleagues, Protected, HeldFor,
                          Stale, Passed
<1> QED BY <1>7, <1>8, <1>9, <1>10, <1>11, <1>12, <1>13, <1>14, <1>15, <1>16

\* Steps that only move the control of a call.
LEMMA MoveInv ==
    ASSUME Inv, NEW c \in Call, NEW l \in Running \cup Returned,
           pc' = [pc EXCEPT ![c] = l], pc[c] \in Running,
           l \in {"consume_pop"} \cup Late => PopOK(call[c]),
           pc[c] \in Late => l \in Late \cup {"rejected"},
           l \in Late => pc[c] \in Late \/ ~Protected(c),
           l \in Early => pc[c] \in Early,
           l \in Discharging => pc[c] \in Discharging,
           l = "authorized" /\ Protected(c) => next[c] > Len(discharge[c]),
           UNCHANGED <<clock, pops, approvals, used, call, discharge, next>>
    PROVE  Inv'
<1> USE DEF Inv
<1>1. /\ pc \in [Call -> {"idle"} \cup Running \cup Returned]
      /\ UNCHANGED <<clock, pops, approvals, used, call, discharge, next>>
  BY DEF TypeOK
<1>2. /\ pc'[c] = l /\ \A d \in Call : d # c => pc'[d] = pc[d]
      /\ pc' \in [Call -> {"idle"} \cup Running \cup Returned]
      /\ \A d \in Call : pc'[d] # "idle" => pc[d] # "idle"
      /\ \A d \in Call : pc'[d] \in Running => pc[d] \in Running
  BY <1>1 DEF Running, Returned
<1>3. TypeOK' /\ Shapes'
  BY <1>1, <1>2 DEF TypeOK, Shapes
<1>4. CallsOK' /\ Prompt'
  BY <1>1, <1>2 DEF CallsOK, Prompt
<1>5. Checked'
  BY <1>1, <1>2 DEF Checked, PopOK, VerifySig, RawVerify
<1>6. EntriesOK'
  <2>1. ASSUME NEW s \in Server, NEW e \in used[s]
        PROVE  e.by \in Call /\ pc[e.by] \in Late \cup {"rejected"}
               /\ pc'[e.by] \in Late \cup {"rejected"}
    BY <1>2 DEF TypeOK, EntriesOK, Running
  <2> QED BY <1>1, <2>1 DEF EntriesOK, PopOK, VerifySig, RawVerify
<1>7. Discharged'
  BY <1>1 DEF Discharged, Satisfies, VerifySig, RawVerify
<1>8. Ordered'
  BY <1>1, <1>2 DEF Ordered, Protected
<1>9. PopHeld' /\ ApprovalsHeld'
  BY <1>1, <1>2 DEF PopHeld, ApprovalsHeld, Protected, HeldFor, Stale
<1>10. PopsApart'
  BY <1>1, <1>2 DEF PopsApart, Colleagues, Protected
<1>11. ApprovalsApart'
  BY <1>1 DEF ApprovalsApart, Colleagues, Protected, Passed
<1> QED BY <1>3, <1>4, <1>5, <1>6, <1>7, <1>8, <1>9, <1>10, <1>11

LEMMA VerifyChainInv == ASSUME Inv, NEW c \in Call, VerifyChain(c) PROVE Inv'
<1>1. PICK l \in {"check_pop", "rejected"} :
          /\ pc[c] = "verify_chain" /\ pc' = [pc EXCEPT ![c] = l]
          /\ UNCHANGED <<clock, pops, approvals, used, call, discharge, next>>
  BY DEF VerifyChain, Goto, Reject
<1>2. l \in Running \cup Returned /\ pc[c] \in Running
  BY <1>1 DEF Running, Returned
<1> QED BY <1>1, <1>2, MoveInv DEF Late, Early, Discharging

LEMMA CheckPopInv == ASSUME Inv, NEW c \in Call, CheckPop(c) PROVE Inv'
<1>1. PICK l \in {"consume_pop", "rejected"} :
          /\ pc[c] = "check_pop" /\ pc' = [pc EXCEPT ![c] = l]
          /\ l = "consume_pop" => PopOK(call[c])
          /\ UNCHANGED <<clock, pops, approvals, used, call, discharge, next>>
  BY DEF CheckPop, Goto, Reject
<1>2. l \in Running \cup Returned /\ pc[c] \in Running
  BY <1>1 DEF Running, Returned
<1> QED BY <1>1, <1>2, MoveInv DEF Late, Early, Discharging

LEMMA AuthorizedInv == ASSUME Inv, NEW c \in Call, Authorized(c) PROVE Inv'
<1>1. /\ pc[c] = "consume_approvals" /\ pc' = [pc EXCEPT ![c] = "authorized"]
      /\ Protected(c) => next[c] > Len(discharge[c])
      /\ UNCHANGED <<clock, pops, approvals, used, call, discharge, next>>
  BY DEF Authorized, Goto
<1>2. "authorized" \in Running \cup Returned /\ pc[c] \in Running
  BY <1>1 DEF Running, Returned
<1>3. PopOK(call[c])
  BY <1>1 DEF Inv, Checked, Late
<1> QED BY <1>1, <1>2, <1>3, MoveInv DEF Late, Early, Discharging

\* A call that judges a proof while it runs is not yet past the retention of
\* another that judged the same proof.
LEMMA SameProofFresh ==
    ASSUME Inv, NEW c \in Call, NEW d \in Call, pc[c] \in Running, pc[d] # "idle",
           PopOK(call[c]), PopOK(call[d]), call[c].pop = call[d].pop
    PROVE  ~Stale(d)
<1> SUFFICES ASSUME Retention # Forever PROVE ~Stale(d)
  BY DEF Stale
<1> DEFINE ts == call[c].pop.ts
<1>1. call[c].pop \in pops /\ call[c].began \in Nat /\ call[d].began \in Nat
  BY DEF Inv, TypeOK, Running
<1>2. ts \in Int
  BY <1>1 DEF Inv, TypeOK
<1>3. call[c].at = call[c].began /\ call[d].at = call[d].began
  BY DEF Inv, CallsOK, Running
<1>4. call[c].began - ts <= max_skew /\ ts - call[d].began <= max_skew
  BY <1>3 DEF PopOK
<1>5. clock <= call[c].began + MaxCall /\ clock \in Nat
  BY DEF Inv, Prompt, TypeOK
<1>6. max_skew \in Nat /\ MaxCall \in Nat
  BY NumberAssumption
<1> HIDE DEF ts
<1>7. clock <= call[d].began + (2 * max_skew + MaxCall)
  BY <1>1, <1>2, <1>4, <1>5, <1>6
<1>8. Retention \in Nat /\ Retention > 2 * max_skew + MaxCall
  BY RetentionAssumption
<1> QED BY <1>1, <1>5, <1>6, <1>7, <1>8 DEF Stale

\* The same for a common approval.
LEMMA SameApprovalFresh ==
    ASSUME Inv, NEW c \in Call, NEW d \in Call, pc[c] \in Running, pc[d] # "idle",
           NEW g \in DOMAIN discharge[c], NEW h \in DOMAIN discharge[d],
           discharge[c][g] = discharge[d][h]
    PROVE  ~Stale(d)
<1> SUFFICES ASSUME Retention # Forever PROVE ~Stale(d)
  BY DEF Stale
<1> DEFINE exp == approvals[discharge[c][g]].exp
<1>1. call[c].began \in Nat /\ call[d].began \in Nat /\ clock \in Nat
  BY DEF Inv, TypeOK, Running
<1>2. PICK ttl \in ApprovalTTL : exp <= call[d].began + ttl
  BY DEF Inv, Discharged
<1>3. exp >= call[c].began
  <2>1. exp >= call[c].at
    BY DEF Inv, Discharged, Satisfies
  <2>2. call[c].at = call[c].began
    BY DEF Inv, CallsOK, Running
  <2> QED BY <2>1, <2>2
<1>4. exp \in Nat
  <2>1. approvals[discharge[c][g]] \in Approval
    BY DEF Inv, Discharged, Shapes
  <2> QED BY <2>1 DEF Approval
<1>5. clock <= call[c].began + MaxCall
  BY DEF Inv, Prompt
<1>6. ttl \in Nat /\ MaxCall \in Nat
  BY NumberAssumption
<1>7. Retention \in Nat /\ Retention > ttl + MaxCall
  BY RetentionAssumption
<1> HIDE DEF exp
<1> QED BY <1>1, <1>2, <1>3, <1>4, <1>5, <1>6, <1>7 DEF Stale

\* Recording a nonce keeps what the store says of other calls.
LEMMA RecordHolds ==
    ASSUME Inv, NEW c \in Call, NEW x, NEW y, Record(c, x, y), call[c].server \in Server,
           pc[c] \in Running, UNCHANGED <<clock, call>>
    PROVE  /\ DOMAIN used' = Server
           /\ \A s \in Server : used[s] \subseteq used'[s]
           /\ \A s \in Server : \A e \in used'[s] \ used[s] :
                 s = call[c].server
                 /\ e = [scope |-> x, nonce |-> y, at |-> clock, by |-> c]
           /\ \A d \in Call : \A scope, nonce :
                 call[d].server \in Server /\ HeldFor(d, scope, nonce) => HeldFor(d, scope, nonce)'
           /\ HeldFor(c, x, y)'
<1> DEFINE new == [scope |-> x, nonce |-> y, at |-> clock, by |-> c]
<1>1. used' = [used EXCEPT ![call[c].server] = @ \cup {new}]
  BY DEF Record
<1>2. new.scope = x /\ new.nonce = y /\ new.at = clock
  OBVIOUS
<1> HIDE DEF new
<1>3. DOMAIN used = Server
  BY DEF Inv, Shapes
<1>4. /\ DOMAIN used' = Server
      /\ \A s \in Server : used[s] \subseteq used'[s]
      /\ \A s \in Server : \A e \in used'[s] \ used[s] : s = call[c].server /\ e = new
      /\ new \in used'[call[c].server]
  BY <1>1, <1>3
<1>5. \A d \in Call : \A scope, nonce :
          call[d].server \in Server /\ HeldFor(d, scope, nonce) => HeldFor(d, scope, nonce)'
  BY <1>4 DEF HeldFor, Stale
<1>6. HeldFor(c, x, y)'
  <2>1. call[c].began \in 0..clock /\ clock \in Nat
    BY DEF Inv, TypeOK, Running
  <2> QED BY <1>2, <1>4, <2>1 DEF HeldFor
<1> QED BY <1>4, <1>5, <1>6 DEF new

\* Two calls that judged the same proof at one protected server do not both
\* find its nonce new.
LEMMA ConsumePopInv == ASSUME Inv, NEW c \in Call, ConsumePop(c) PROVE Inv'
<1>1. /\ pc[c] = "consume_pop" /\ pc[c] \in Running
      /\ UNCHANGED <<clock, pops, approvals, call, discharge, next>>
  BY DEF ConsumePop, Running
<1>2. PopOK(call[c])
  BY <1>1 DEF Inv, Checked
<1>3. ASSUME pc' = [pc EXCEPT ![c] = "rejected"], UNCHANGED used PROVE Inv'
  <2>1. "rejected" \in Running \cup Returned
    BY DEF Returned
  <2> QED BY <1>1, <1>3, <2>1, MoveInv DEF Late, Early, Discharging
<1>4. ASSUME pc' = [pc EXCEPT ![c] = "evaluate"], ~Protected(c), UNCHANGED used PROVE Inv'
  <2>1. "evaluate" \in Running \cup Returned
    BY DEF Running
  <2> QED BY <1>1, <1>2, <1>4, <2>1, MoveInv DEF Late, Early, Discharging
<1>5. ASSUME pc' = [pc EXCEPT ![c] = "evaluate"], Protected(c),
             ~Holds(call[c].server, "pop", call[c].nonce), Record(c, "pop", call[c].nonce)
      PROVE  Inv'
  <2> USE DEF Inv
  <2>1. /\ pc \in [Call -> {"idle"} \cup Running \cup Returned]
        /\ call[c].server \in Server /\ call[c].began \in 0..clock /\ clock \in Nat
    BY <1>1 DEF TypeOK
  <2>2. /\ pc'[c] = "evaluate" /\ \A d \in Call : d # c => pc'[d] = pc[d]
        /\ pc' \in [Call -> {"idle"} \cup Running \cup Returned]
        /\ \A d \in Call : pc'[d] # "idle" <=> pc[d] # "idle"
        /\ \A d \in Call : pc'[d] \in Running <=> pc[d] \in Running
    BY <1>1, <1>5, <2>1 DEF Running
  <2> DEFINE new == [scope |-> "pop", nonce |-> call[c].nonce, at |-> clock, by |-> c]
  <2>3. /\ DOMAIN used' = Server
        /\ \A s \in Server : \A e \in used'[s] :
              e \in used[s] \/ (s = call[c].server /\ e = new)
        /\ \A d \in Call : \A scope, nonce :
              call[d].server \in Server /\ HeldFor(d, scope, nonce) => HeldFor(d, scope, nonce)'
        /\ HeldFor(c, "pop", call[c].nonce)'
    BY <1>1, <1>5, <2>1, RecordHolds
  <2>4. new.scope = "pop" /\ new.nonce = call[c].nonce /\ new.at = clock /\ new.by = c
    OBVIOUS
  <2> HIDE DEF new
  <2>5. TypeOK'
    BY <1>1, <2>1, <2>2, <2>3, <2>4 DEF TypeOK
  <2>6. Shapes' /\ CallsOK' /\ Prompt'
    BY <1>1, <2>2, <2>3 DEF Shapes, CallsOK, Prompt
  <2>7. Checked'
    BY <1>1, <1>2, <2>2 DEF Checked, PopOK, VerifySig, RawVerify
  <2>8. EntriesOK'
    <3>1. ASSUME NEW s \in Server, NEW e \in used[s]
          PROVE  e.by \in Call /\ pc'[e.by] \in Late \cup {"rejected"}
      BY <1>1, <2>2 DEF TypeOK, EntriesOK, Late
    <3> QED BY SMTT(60), <1>1, <1>2, <2>2, <2>3, <2>4, <3>1
            DEF EntriesOK, PopOK, VerifySig, RawVerify, Late
  <2>9. Discharged'
    BY <1>1 DEF Discharged, Satisfies, VerifySig, RawVerify
  <2>10. Ordered'
    BY <1>1, <2>2 DEF Ordered, Protected, Early, Discharging
  <2>11. PopHeld'
    <3>1. ASSUME NEW d \in Call, d # c, pc[d] \in Late, Protected(d)
          PROVE  HeldFor(d, "pop", call[d].nonce)'
      <4>1. HeldFor(d, "pop", call[d].nonce) /\ call[d].server \in Server
        BY <3>1 DEF PopHeld, TypeOK, Late
      <4>2. call'[d].nonce = call[d].nonce
        BY <1>1
      <4>3. \A n : HeldFor(d, "pop", n) => HeldFor(d, "pop", n)'
        BY <2>3, <4>1
      <4> QED BY <4>1, <4>2, <4>3
    <3> QED BY <1>1, <2>2, <2>3, <3>1 DEF PopHeld, Protected
  <2>12. ApprovalsHeld'
    <3>1. \A d \in Call : DOMAIN discharge[d] # {} => pc[d] # "idle"
      BY DEF Ordered, Early
    <3> QED BY <1>1, <2>3, <3>1 DEF ApprovalsHeld, Protected, TypeOK
  <2>13. PopsApart'
    <3>1. ASSUME NEW d \in Call, Colleagues(c, d), pc[d] \in Late
          PROVE  call[c].pop # call[d].pop
      <4>1. SUFFICES ASSUME call[c].pop = call[d].pop PROVE FALSE
        OBVIOUS
      <4>2. PopOK(call[d]) /\ pc[d] # "idle"
        BY <3>1 DEF Checked, Late
      <4>3. ~Stale(d)
        BY <1>1, <1>2, <4>1, <4>2, SameProofFresh
      <4>4. call[d].nonce = call[c].nonce
        BY <1>2, <4>1, <4>2 DEF PopOK
      <4>5. HeldFor(d, "pop", call[c].nonce)
        BY <3>1, <4>4 DEF PopHeld, Colleagues, Protected
      <4> QED BY <1>5, <3>1, <4>3, <4>5 DEF HeldFor, Holds, Colleagues
    <3> QED BY <1>1, <2>2, <3>1 DEF PopsApart, Colleagues, Protected
  <2>14. ApprovalsApart'
    BY <1>1 DEF ApprovalsApart, Colleagues, Protected, Passed
  <2> QED BY <2>5, <2>6, <2>7, <2>8, <2>9, <2>10, <2>11, <2>12, <2>13, <2>14
<1> QED BY <1>3, <1>4, <1>5 DEF ConsumePop, Goto, Reject

\* What the gates lean on is chosen among what satisfies them.
LEMMA EvaluateInv == ASSUME Inv, NEW c \in Call, Evaluate(c) PROVE Inv'
<1> DEFINE q == call[c]
           gates == Decision[q.cred].gates
           chosen == [g \in DOMAIN gates |-> q.presented[First(Satisfying(q, gates[g]))]]
<1>1. /\ pc[c] = "evaluate" /\ pc[c] \in Running
      /\ UNCHANGED <<clock, pops, approvals, used, call, next>>
  BY DEF Evaluate, Running
<1>2. ASSUME pc' = [pc EXCEPT ![c] = "rejected"], UNCHANGED discharge PROVE Inv'
  <2>1. "rejected" \in Running \cup Returned
    BY DEF Returned
  <2> QED BY <1>1, <1>2, <2>1, MoveInv DEF Late, Early, Discharging
<1>3. ASSUME pc' = [pc EXCEPT ![c] = "consume_approvals"],
             \A g \in DOMAIN gates : Satisfying(q, gates[g]) # {},
             discharge' = [discharge EXCEPT ![c] = chosen]
      PROVE  Inv'
  <2> USE DEF Inv
  <2>1. /\ pc \in [Call -> {"idle"} \cup Running \cup Returned]
        /\ call[c].server \in Server
        /\ PopOK(call[c]) /\ next[c] = 1 /\ discharge[c] = <<>>
    BY <1>1 DEF TypeOK, Checked, Ordered, Early, Late
  <2>2. /\ pc'[c] = "consume_approvals" /\ \A d \in Call : d # c => pc'[d] = pc[d]
        /\ pc' \in [Call -> {"idle"} \cup Running \cup Returned]
        /\ \A d \in Call : pc'[d] # "idle" <=> pc[d] # "idle"
        /\ \A d \in Call : pc'[d] \in Running <=> pc[d] \in Running
    BY <1>1, <1>3, <2>1 DEF Running
  <2>3. gates \in Seq(Gate)
    BY <1>1, DecisionAssumption DEF CallsOK
  <2>4. ASSUME NEW g \in DOMAIN gates
        PROVE  /\ chosen[g] \in DOMAIN approvals /\ Satisfies(q, gates[g], chosen[g])
               /\ \E ttl \in ApprovalTTL : approvals[chosen[g]].exp <= q.began + ttl
    <3> DEFINE S == Satisfying(q, gates[g])
    <3>1. S \subseteq DOMAIN q.presented /\ DOMAIN q.presented \subseteq Nat
      BY <1>1 DEF Satisfying, CallsOK
    <3>2. S \subseteq Nat /\ S # {}
      BY <1>3, <3>1
    <3>3. First(S) \in S
      BY <3>2, FirstIsIn
    <3>4. chosen[g] = q.presented[First(S)]
      OBVIOUS
    <3>5. Satisfies(q, gates[g], q.presented[First(S)])
      BY <3>3 DEF Satisfying
    <3> QED BY <1>1, <3>1, <3>3, <3>4, <3>5 DEF CallsOK
  <2>5. DOMAIN chosen = DOMAIN gates
    OBVIOUS
  <2> HIDE DEF chosen
  <2>6. /\ DOMAIN discharge' = Call /\ discharge'[c] = chosen
        /\ \A d \in Call : d # c => discharge'[d] = discharge[d]
    BY <1>3 DEF Shapes
  <2>7. DOMAIN approvals \subseteq Nat
    BY DEF Shapes
  <2>8. chosen \in Seq(Nat)
    <3>1. chosen = [g \in 1..Len(gates) |-> chosen[g]]
      BY <2>3, <2>5 DEF chosen
    <3>2. \A g \in 1..Len(gates) : chosen[g] \in Nat
      BY <2>3, <2>4, <2>7
    <3> QED BY <2>3, <3>1, <3>2
  <2>9. Len(chosen) \in Nat
    BY <2>8
  <2>10. TypeOK'
    <3>1. \A d \in Call : next'[d] \in 1..(Len(discharge'[d]) + 1)
      BY <1>1, <2>1, <2>6, <2>9 DEF TypeOK
    <3> QED BY <1>1, <2>2, <3>1 DEF TypeOK
  <2>11. Shapes' /\ CallsOK' /\ Prompt'
    BY <1>1, <2>2, <2>6 DEF Shapes, CallsOK, Prompt
  <2>12. Checked'
    BY <1>1, <2>1, <2>2 DEF Checked, PopOK, VerifySig, RawVerify
  <2>13. EntriesOK'
    <3>1. ASSUME NEW s \in Server, NEW e \in used[s]
          PROVE  /\ e.by \in Call /\ pc'[e.by] \in Late \cup {"rejected"}
                 /\ e.scope = "approval" => e.by # c
      BY <1>1, <2>1, <2>2 DEF TypeOK, EntriesOK, Late
    <3> QED BY <1>1, <2>6, <3>1 DEF EntriesOK, PopOK, VerifySig, RawVerify
  <2>14. Discharged'
    <3>1. ASSUME NEW d \in Call, d # c
          PROVE  /\ discharge'[d] \in Seq(Nat)
                 /\ \A g \in DOMAIN discharge'[d] :
                       /\ discharge'[d][g] \in DOMAIN approvals'
                       /\ Satisfies(call[d], Decision[call[d].cred].gates[g], discharge[d][g])'
                       /\ \E ttl \in ApprovalTTL : approvals'[discharge'[d][g]].exp <= call'[d].began + ttl
      BY <1>1, <2>6, <3>1 DEF Discharged, Satisfies, VerifySig, RawVerify
    <3>2. /\ discharge'[c] \in Seq(Nat)
          /\ \A g \in DOMAIN discharge'[c] :
                /\ discharge'[c][g] \in DOMAIN approvals'
                /\ Satisfies(call[c], Decision[call[c].cred].gates[g], discharge[c][g])'
                /\ \E ttl \in ApprovalTTL : approvals'[discharge'[c][g]].exp <= call'[c].began + ttl
      BY <1>1, <2>4, <2>5, <2>6, <2>8 DEF Satisfies, VerifySig, RawVerify
    <3> QED BY <3>1, <3>2 DEF Discharged
  <2>15. Ordered'
    <3>1. ASSUME NEW d \in Call, d # c
          PROVE  /\ pc'[d] = pc[d] /\ discharge'[d] = discharge[d]
      BY <2>2, <2>6, <3>1
    <3>2. DOMAIN discharge'[c] = DOMAIN Decision[call'[c].cred].gates
      BY <1>1, <2>5, <2>6
    <3> QED BY <1>1, <2>2, <3>1, <3>2 DEF Ordered, Protected, Early, Discharging
  <2>16. PopHeld' /\ PopsApart'
    BY <1>1, <2>2 DEF PopHeld, PopsApart, Colleagues, Protected, HeldFor, Stale, Late
  <2>17. \A g \in DOMAIN discharge'[c] : ~(g < next'[c])
    BY <1>1, <2>1, <2>3, <2>5, <2>6
  <2>18. ApprovalsHeld'
    BY <1>1, <2>6, <2>17 DEF ApprovalsHeld, Protected, HeldFor, Stale
  <2>19. ApprovalsApart'
    BY <1>1, <2>6, <2>17 DEF ApprovalsApart, Colleagues, Protected, Passed
  <2> QED BY <2>10, <2>11, <2>12, <2>13, <2>14, <2>15, <2>16, <2>18, <2>19
<1> QED BY <1>1, <1>2, <1>3 DEF Evaluate, Goto, Reject

\* Two calls that lean on the same approval do not both find its nonce new.
LEMMA ConsumeApprovalInv == ASSUME Inv, NEW c \in Call, ConsumeApproval(c) PROVE Inv'
<1>0. PICK n, nonce : n = next[c] /\ nonce = approvals[discharge[c][next[c]]].nonce
  OBVIOUS
<1>1. /\ pc[c] = "consume_approvals" /\ pc[c] \in Running /\ Protected(c)
      /\ n <= Len(discharge[c])
      /\ UNCHANGED <<clock, pops, approvals, call, discharge>>
  BY <1>0 DEF ConsumeApproval, Running
<1>2. PopOK(call[c])
  BY <1>1 DEF Inv, Checked, Late
<1>3. ASSUME pc' = [pc EXCEPT ![c] = "rejected"], UNCHANGED <<used, next>> PROVE Inv'
  <2>1. "rejected" \in Running \cup Returned
    BY DEF Returned
  <2> QED BY <1>1, <1>3, <2>1, MoveInv DEF Late, Early, Discharging
<1>4. /\ discharge[c] \in Seq(Nat) /\ Len(discharge[c]) \in Nat
      /\ n \in DOMAIN discharge[c] /\ n \in Nat /\ DOMAIN next = Call
      /\ call[c].server \in Server /\ call[c].began \in 0..clock /\ clock \in Nat
      /\ DOMAIN discharge[c] \subseteq Nat
  <2>1. discharge[c] \in Seq(Nat) /\ n \in 1..(Len(discharge[c]) + 1)
    BY <1>0 DEF Inv, TypeOK, Discharged
  <2>2. DOMAIN discharge[c] = 1..Len(discharge[c]) /\ Len(discharge[c]) \in Nat
    BY <2>1
  <2> QED BY <1>1, <2>1, <2>2 DEF Inv, TypeOK, Shapes
\* What the skipped and the recorded turn have in common: next[c] moves on and
\* only the store may change.
<1>5. ASSUME next' = [next EXCEPT ![c] = @ + 1], UNCHANGED pc,
             DOMAIN used' = Server,
             \A s \in Server : \A e \in used'[s] :
                 \/ e \in used[s]
                 \/ /\ s = call[c].server /\ e.by = c /\ e.at = clock
                    /\ e.scope = "approval" /\ e.nonce = nonce,
             \A d \in Call : \A scope, m :
                 call[d].server \in Server /\ HeldFor(d, scope, m) => HeldFor(d, scope, m)',
             HeldFor(c, "approval", nonce)',
             \A d \in Call : \A h \in DOMAIN discharge[d] :
                 Colleagues(c, d) /\ discharge[d][h] \in {discharge[c][g] : g \in DOMAIN discharge[c]}
                 /\ approvals[discharge[d][h]].nonce = nonce
                 => Passed(c, nonce) \/ ~Passed(d, nonce)
      PROVE  Inv'
  <2> USE DEF Inv
  <2>1. /\ next'[c] = n + 1 /\ \A d \in Call : d # c => next'[d] = next[d]
        /\ DOMAIN next' = Call
    BY <1>0, <1>4, <1>5
  <2>2. TypeOK'
    <3>1. next'[c] \in 1..(Len(discharge'[c]) + 1)
      BY <1>1, <1>4, <2>1 DEF TypeOK
    <3>2. \A d \in Call : next'[d] \in 1..(Len(discharge'[d]) + 1)
      BY <1>1, <2>1, <3>1 DEF TypeOK
    <3>3. \A s \in Server : \A e \in used'[s] :
              e.scope \in {"pop", "approval"} /\ e.at \in 0..clock /\ e.by \in Call
      BY <1>4, <1>5 DEF TypeOK
    <3> QED BY <1>1, <1>5, <3>2, <3>3 DEF TypeOK
  <2>3. Shapes' /\ CallsOK' /\ Prompt'
    BY <1>1, <1>5, <2>1 DEF Shapes, CallsOK, Prompt
  <2>4. Checked'
    BY <1>1, <1>5 DEF Checked, PopOK, VerifySig, RawVerify
  <2>5. EntriesOK'
    <3>1. \A s \in Server : \A e \in used[s] : e.by \in Call
      BY DEF TypeOK
    <3>2. \A s \in Server : \A e \in used'[s] : e \in used[s] =>
              /\ pc'[e.by] \in Late \cup {"rejected"}
              /\ call'[e.by].server = s /\ PopOK(call[e.by])'
              /\ e.scope = "pop" => e.nonce = call'[e.by].nonce
              /\ e.scope = "approval" =>
                    \E g \in DOMAIN discharge'[e.by] : approvals'[discharge'[e.by][g]].nonce = e.nonce
      BY <1>1, <1>5, <3>1 DEF EntriesOK, PopOK, VerifySig, RawVerify
    <3>3. pc'[c] \in Late /\ PopOK(call[c])' /\ call'[c].server = call[c].server
      BY <1>1, <1>2, <1>5 DEF Late, PopOK, VerifySig, RawVerify
    <3>4. \E g \in DOMAIN discharge'[c] : approvals'[discharge'[c][g]].nonce = nonce
      BY <1>0, <1>1, <1>4
    <3> QED BY <1>5, <3>2, <3>3, <3>4 DEF EntriesOK
  <2>6. Discharged'
    BY <1>1 DEF Discharged, Satisfies, VerifySig, RawVerify
  <2>7. Ordered'
    BY <1>1, <1>5, <2>1 DEF Ordered, Protected, Early, Discharging
  <2>8. PopHeld'
    <3>1. ASSUME NEW d \in Call, pc[d] \in Late, Protected(d)
          PROVE  HeldFor(d, "pop", call[d].nonce)'
      <4>1. HeldFor(d, "pop", call[d].nonce) /\ call[d].server \in Server
        BY <3>1 DEF PopHeld, TypeOK, Late
      <4>2. call'[d].nonce = call[d].nonce
        BY <1>1
      <4>3. \A m : HeldFor(d, "pop", m) => HeldFor(d, "pop", m)'
        BY <1>5, <4>1
      <4> QED BY <4>1, <4>2, <4>3
    <3> QED BY <1>1, <1>5, <3>1 DEF PopHeld, Protected
  <2>9. ApprovalsHeld'
    <3>1. ASSUME NEW d \in Call, Protected(d), NEW g \in DOMAIN discharge[d], g < next'[d]
          PROVE  HeldFor(d, "approval", approvals[discharge[d][g]].nonce)'
      <4>1. call[d].server \in Server
        BY DEF Ordered, Early, TypeOK
      <4>2. approvals'[discharge'[d][g]].nonce = approvals[discharge[d][g]].nonce
        BY <1>1
      <4>3. CASE g < next[d]
        <5>1. HeldFor(d, "approval", approvals[discharge[d][g]].nonce)
          BY <3>1, <4>3 DEF ApprovalsHeld
        <5>2. \A m : HeldFor(d, "approval", m) => HeldFor(d, "approval", m)'
          BY <1>5, <4>1
        <5> QED BY <4>2, <5>1, <5>2
      <4>4. CASE d = c /\ g = n
        BY <1>0, <1>1, <1>5, <4>2, <4>4
      <4>5. d = c => g < next[d] \/ g = n
        BY <1>0, <1>4, <2>1, <3>1
      <4> QED BY <2>1, <3>1, <4>3, <4>4, <4>5
    <3> QED BY <1>1, <3>1 DEF ApprovalsHeld, Protected
  <2>10. PopsApart'
    BY <1>1, <1>5 DEF PopsApart, Colleagues, Protected
  <2>11. ApprovalsApart'
    <3>1. \A d \in Call : \A m : d # c => (Passed(d, m)' <=> Passed(d, m))
      BY <1>1, <2>1 DEF Passed
    <3>2. ASSUME NEW m, Passed(c, m)' PROVE Passed(c, m) \/ m = nonce
      <4>1. PICK g \in DOMAIN discharge[c] : g < n + 1 /\ approvals[discharge[c][g]].nonce = m
        BY <1>1, <2>1, <3>2 DEF Passed
      <4>2. g < n \/ g = n
        BY <1>4, <4>1
      <4> QED BY <1>0, <4>1, <4>2 DEF Passed
    <3>3. ASSUME NEW d \in Call, Colleagues(c, d), NEW g \in DOMAIN discharge[c],
                 NEW h \in DOMAIN discharge[d], discharge[c][g] = discharge[d][h]
          PROVE  ~ (Passed(c, approvals[discharge[c][g]].nonce)'
                    /\ Passed(d, approvals[discharge[c][g]].nonce)')
      <4> DEFINE m == approvals[discharge[c][g]].nonce
      <4>1. ~(Passed(c, m) /\ Passed(d, m))
        BY <3>3 DEF ApprovalsApart
      <4>2. m = nonce => Passed(c, m) \/ ~Passed(d, m)
        BY <1>5, <3>3
      <4>3. d # c
        BY <3>3 DEF Colleagues
      <4>4. Passed(c, m)' => Passed(c, m) \/ m' = nonce
        BY <1>1, <3>2
      <4>5. m' = m
        BY <1>1
      <4>6. Passed(d, m)' => Passed(d, m)
        BY <1>1, <3>1, <4>3
      <4> QED BY <4>1, <4>2, <4>4, <4>5, <4>6
    <3>4. ASSUME NEW a \in Call, NEW b \in Call, Colleagues(a, b), NEW g \in DOMAIN discharge[a],
                 NEW h \in DOMAIN discharge[b], discharge[a][g] = discharge[b][h]
          PROVE  ~ (Passed(a, approvals[discharge[a][g]].nonce)'
                    /\ Passed(b, approvals[discharge[a][g]].nonce)')
      <4>1. CASE a = c
        BY <3>3, <3>4, <4>1
      <4>2. CASE b = c
        <5>1. Colleagues(c, a)
          BY <3>4, <4>2 DEF Colleagues, Protected
        <5>2. ~ (Passed(c, approvals[discharge[c][h]].nonce)'
                 /\ Passed(a, approvals[discharge[c][h]].nonce)')
          BY <3>3, <3>4, <4>2, <5>1
        <5>3. approvals'[discharge'[a][g]].nonce = approvals'[discharge'[c][h]].nonce
          BY <1>1, <3>4, <4>2
        <5> QED BY <4>2, <5>2, <5>3, Zenon
      <4>3. CASE a # c /\ b # c
        BY <1>1, <3>1, <3>4, <4>3 DEF ApprovalsApart
      <4> QED BY <4>1, <4>2, <4>3
    <3> QED BY <1>1, <3>4 DEF ApprovalsApart, Colleagues, Protected
  <2> QED BY <2>2, <2>3, <2>4, <2>5, <2>6, <2>7, <2>8, <2>9, <2>10, <2>11
<1>6. ASSUME Repeated(c, n), next' = [next EXCEPT ![c] = @ + 1], UNCHANGED <<used, pc>>
      PROVE  Inv'
  <2>1. PICK h \in 1..(n - 1) : approvals[discharge[c][h]].nonce = nonce
    BY <1>0, <1>6 DEF Repeated
  <2>2. h \in DOMAIN discharge[c] /\ h < next[c]
    BY <1>0, <1>1, <1>4, <2>1
  <2>3. Passed(c, nonce)
    BY <2>1, <2>2 DEF Passed
  <2>4. HeldFor(c, "approval", nonce)
    BY <1>1, <2>1, <2>2 DEF Inv, ApprovalsHeld
  <2>5. \A d \in Call : \A scope, m : HeldFor(d, scope, m) => HeldFor(d, scope, m)'
    BY <1>1, <1>6 DEF HeldFor, Stale
  <2>6. DOMAIN used' = Server
    BY <1>6 DEF Inv, Shapes
  <2> QED BY <1>5, <1>6, <2>3, <2>4, <2>5, <2>6
<1>7. ASSUME ~Holds(call[c].server, "approval", nonce), Record(c, "approval", nonce),
             next' = [next EXCEPT ![c] = @ + 1], UNCHANGED pc
      PROVE  Inv'
  <2>1. ASSUME NEW d \in Call, NEW h \in DOMAIN discharge[d], Colleagues(c, d),
               NEW g \in DOMAIN discharge[c], discharge[d][h] = discharge[c][g],
               Passed(d, nonce)
        PROVE  FALSE
    <3>1. pc[d] # "idle"
      BY <2>1 DEF Inv, Ordered, Early
    <3>2. ~Stale(d)
      BY <1>1, <2>1, <3>1, SameApprovalFresh
    <3>3. HeldFor(d, "approval", nonce)
      BY <2>1 DEF Inv, ApprovalsHeld, Passed, Colleagues, Protected
    <3> QED BY <1>7, <2>1, <3>2, <3>3 DEF HeldFor, Holds, Colleagues
  <2>2. /\ DOMAIN used' = Server
        /\ \A s \in Server : \A e \in used'[s] \ used[s] :
              /\ s = call[c].server
              /\ e = [scope |-> "approval", nonce |-> nonce, at |-> clock, by |-> c]
        /\ \A d \in Call : \A scope, m :
              call[d].server \in Server /\ HeldFor(d, scope, m) => HeldFor(d, scope, m)'
        /\ HeldFor(c, "approval", nonce)'
    BY <1>1, <1>4, <1>7, RecordHolds
  <2>3. \A s \in Server : \A e \in used'[s] :
            \/ e \in used[s]
            \/ /\ s = call[c].server /\ e.by = c /\ e.at = clock
               /\ e.scope = "approval" /\ e.nonce = nonce
    BY <2>2
  <2> QED BY <1>5, <1>7, <2>1, <2>2, <2>3
<1> QED BY <1>0, <1>3, <1>6, <1>7 DEF ConsumeApproval, Reject

-----------------------------------------------------------------------------

LEMMA ProveInv == ASSUME Inv, ProveStep PROVE Inv'
<1>1. PICK cred \in Cred, req \in Request, nonce \in Nonce, ts \in ProofTime, s \in Server :
          \/ Prove(cred, req, nonce, ts, AudienceOf[s])
          \/ \E k \in Stranger : ProofElsewhere(k, cred, req, nonce, ts, AudienceOf[s])
  BY DEF ProveStep
<1>2. PICK sig \in Key \cup {NoKey} :
          /\ pops' = pops \cup {[sig |-> sig, cred |-> cred, req |-> req,
                                nonce |-> nonce, ts |-> ts, aud |-> AudienceOf[s]]}
          /\ UNCHANGED <<clock, approvals, used, pc, locals>>
  BY <1>1, KeyAssumption, DecisionAssumption DEF Prove, ProofElsewhere
<1> DEFINE p == [sig |-> sig, cred |-> cred, req |-> req,
                 nonce |-> nonce, ts |-> ts, aud |-> AudienceOf[s]]
<1>3. p.sig \in Key \cup {NoKey} /\ p.cred \in Cred /\ p.req \in Request
      /\ p.nonce \in Nonce /\ p.ts \in Int
  BY NumberAssumption
<1>4. pops' = pops \cup {p}
  BY <1>2
<1> HIDE DEF p
<1> QED BY <1>2, <1>3, <1>4, PopAdded

LEMMA ApproveInv == ASSUME Inv, ApproveStep PROVE Inv'
<1>1. PICK cred \in Cred, req \in Request, label \in Label, ttl \in ApprovalTTL,
           approver \in Approver :
          \/ MakeApproval(approver, cred, req, label, ttl)
          \/ \E k \in Stranger, nonce \in 1..MaxApprovals :
                 ApprovalElsewhere(k, approver, cred, req, label, ttl, nonce)
  BY DEF ApproveStep
<1>2. clock \in Nat /\ ttl \in Nat /\ clock + ttl \in Nat /\ Len(approvals) \in Nat
  <2>1. clock \in Nat /\ ttl \in Nat /\ approvals \in Seq(Approval)
    BY NumberAssumption DEF Inv, TypeOK, Shapes
  <2> QED BY <2>1
<1>3. PICK sig \in Key \cup {NoKey}, nonce \in 1..(Len(approvals) + 1) :
          AddApproval([approver |-> approver, sig |-> sig, cred |-> cred, req |-> req,
                       label |-> label, exp |-> clock + ttl, nonce |-> nonce])
  <2>1. approver \in Key \cup {NoKey} /\ Stranger \subseteq Key \cup {NoKey}
    BY KeyAssumption
  <2>2. Len(approvals) + 1 \in 1..(Len(approvals) + 1)
    BY <1>2
  <2> QED BY <1>1, <2>1, <2>2 DEF MakeApproval, ApprovalElsewhere
<1> DEFINE a == [approver |-> approver, sig |-> sig, cred |-> cred, req |-> req,
                 label |-> label, exp |-> clock + ttl, nonce |-> nonce]
<1>4. /\ a \in Approval /\ a.nonce \in 1..(Len(approvals) + 1)
      /\ a.exp = clock + ttl
  <2>1. approver \in Key
    BY KeyAssumption
  <2>2. nonce \in Nat
    BY <1>2
  <2> QED BY <1>2, <2>1, <2>2 DEF Approval
<1>5. AddApproval(a)
  BY <1>3
<1> HIDE DEF a
<1> QED BY <1>4, <1>5, ApprovalAdded

LEMMA InvNext == Inv /\ [Next]_vars => Inv'
<1> SUFFICES ASSUME Inv, [Next]_vars PROVE Inv'
  OBVIOUS
<1>1. CASE ProveStep \/ ApproveStep \/ Tick
  BY <1>1, ProveInv, ApproveInv, TickInv
<1>2. ASSUME NEW s \in Server, NEW e \in used[s], Evict(s, e) PROVE Inv'
  BY <1>2, EvictInv
<1>3. CASE BeginStep
  BY <1>3, BeginInv DEF BeginStep
<1>4. ASSUME NEW c \in Call, Step(c) PROVE Inv'
  BY <1>4, VerifyChainInv, CheckPopInv, ConsumePopInv, EvaluateInv, ConsumeApprovalInv,
     AuthorizedInv DEF Step
<1>5. CASE UNCHANGED vars
  <2> USE <1>5 DEF Inv, vars, locals
  <2>1. TypeOK' /\ Shapes' /\ CallsOK' /\ Prompt'
    BY DEF TypeOK, Shapes, CallsOK, Prompt
  <2>2. Checked' /\ EntriesOK'
    BY DEF Checked, EntriesOK, PopOK, VerifySig, RawVerify
  <2>3. Discharged'
    BY DEF Discharged, Satisfies, VerifySig, RawVerify
  <2>4. Ordered' /\ PopHeld' /\ ApprovalsHeld'
    BY DEF Ordered, PopHeld, ApprovalsHeld, Protected, HeldFor, Stale
  <2>5. PopsApart' /\ ApprovalsApart'
    BY DEF PopsApart, ApprovalsApart, Colleagues, Protected, Passed
  <2> QED BY <2>1, <2>2, <2>3, <2>4, <2>5
<1> QED BY <1>1, <1>2, <1>3, <1>4, <1>5 DEF Next, Finished

\* The conjuncts of Inv hold in every state of every behaviour.
THEOREM Invariance == Spec => []Inv
<1> QED BY InitInv, InvNext, PTL DEF Spec

-----------------------------------------------------------------------------
(* What the gate promises. *)

\* The variables have their types: among others, a call only names a proof that
\* was in circulation, and the store only nonces that a call consumed.
THEOREM Typing == Spec => []TypeOK
<1>1. Inv => TypeOK
  BY DEF Inv
<1> QED BY <1>1, Invariance, PTL

\* One proof of possession authorizes one action, at one protected server at
\* most once (verify.py authorize, pop.py check_pop and NonceStore.consume).
THEOREM OneProofOneAction == Spec => []PopOnce
<1>1. Inv => PopOnce
  <2> SUFFICES ASSUME Inv, NEW c \in Call, NEW d \in Call, c # d,
                      pc[c] = "authorized", pc[d] = "authorized", call[c].pop = call[d].pop
               PROVE  /\ SameAction(c, d) /\ Apart(c, d)
                      /\ AudienceOf[call[c].server] = AudienceOf[call[d].server]
    BY DEF PopOnce
  <2>1. PopOK(call[c]) /\ PopOK(call[d])
    BY DEF Inv, Checked, Late
  <2>2. \A x \in Call : PopOK(call[x]) =>
            /\ call[x].pop.cred = call[x].cred /\ call[x].pop.req = call[x].req
            /\ call[x].pop.aud = AudienceOf[call[x].server]
    BY DEF PopOK, VerifySig, RawVerify
  <2>3. Apart(c, d)
    BY DEF Inv, PopsApart, Colleagues, Apart, Late
  <2> QED BY <2>1, <2>2, <2>3 DEF SameAction
<1> QED BY <1>1, Invariance, PTL

\* One approval authorizes one action, at one protected server at most once
\* (caveats.py evaluate and the loop over dec.approvals in authorize).
THEOREM OneApprovalOneAction == Spec => []ApprovalOnce
<1>1. Inv => ApprovalOnce
  <2> SUFFICES ASSUME Inv, NEW c \in Call, NEW d \in Call, c # d,
                      pc[c] = "authorized", pc[d] = "authorized",
                      NEW g \in DOMAIN discharge[c], NEW h \in DOMAIN discharge[d],
                      discharge[c][g] = discharge[d][h]
               PROVE  SameAction(c, d) /\ Apart(c, d)
    BY DEF ApprovalOnce, Uses
  <2>1. \A x \in Call : \A i \in DOMAIN discharge[x] :
            /\ approvals[discharge[x][i]].cred = call[x].cred
            /\ approvals[discharge[x][i]].req = call[x].req
    BY DEF Inv, Discharged, Satisfies, VerifySig, RawVerify
  <2>2. ASSUME Colleagues(c, d) PROVE FALSE
    <3>1. Protected(c) /\ Protected(d)
      BY <2>2 DEF Colleagues, Protected
    <3>2. g < next[c] /\ h < next[d]
      <4>1. next[c] > Len(discharge[c]) /\ next[d] > Len(discharge[d])
        BY <3>1 DEF Inv, Ordered
      <4>2. discharge[c] \in Seq(Nat) /\ discharge[d] \in Seq(Nat)
            /\ next[c] \in Int /\ next[d] \in Int
        BY DEF Inv, Discharged, TypeOK
      <4> QED BY <4>1, <4>2
    <3> QED BY <2>2, <3>2 DEF Inv, ApprovalsApart, Passed
  <2> QED BY <2>1, <2>2 DEF SameAction, Apart, Colleagues
<1> QED BY <1>1, Invariance, PTL

\* Behind every gate of an authorized call stands an unexpired approval that
\* the gate's approver signed for this credential, this request and this gate's
\* label (caveats.py _eval_one, requires_approval).
THEOREM Consent == Spec => []Consented
<1>1. Inv => Consented
  <2> SUFFICES ASSUME Inv, NEW c \in Call, pc[c] = "authorized",
                      NEW gates, gates = Decision[call[c].cred].gates
               PROVE  /\ DOMAIN discharge[c] = DOMAIN gates
                      /\ \A g \in DOMAIN gates :
                            LET a == approvals[discharge[c][g]]
                            IN  /\ a.sig = gates[g].approver /\ a.sig \notin WeakKey
                                /\ a.cred = call[c].cred /\ a.req = call[c].req
                                /\ a.label = gates[g].label
                                /\ call[c].at <= a.exp
    BY DEF Consented
  <2>1. DOMAIN discharge[c] = DOMAIN gates
    BY DEF Inv, Ordered, Discharging
  <2>2. ASSUME NEW g \in DOMAIN gates, NEW a, a = approvals[discharge[c][g]]
        PROVE  /\ a.sig = gates[g].approver /\ a.sig \notin WeakKey
               /\ a.cred = call[c].cred /\ a.req = call[c].req
               /\ a.label = gates[g].label
               /\ a.exp >= call[c].at
    BY <2>1, <2>2 DEF Inv, Discharged, Satisfies, VerifySig, RawVerify
  <2>3. ASSUME NEW g \in DOMAIN gates
        PROVE  call[c].at <= approvals[discharge[c][g]].exp
    <3>1. approvals[discharge[c][g]] \in Approval
      BY <2>1 DEF Inv, Discharged, Shapes
    <3>2. approvals[discharge[c][g]].exp \in Nat
      BY <3>1 DEF Approval
    <3>3. call[c].at \in Int
      <4>1. call[c].at \in GivenAt \cup 0..clock
        BY DEF Inv, TypeOK
      <4>2. GivenAt \subseteq Int /\ clock \in Int
        BY NumberAssumption DEF Inv, TypeOK
      <4>3. call[c].at \in GivenAt \/ call[c].at \in 0..clock
        BY <4>1
      <4>4. CASE call[c].at \in GivenAt
        BY <4>2, <4>4
      <4>5. CASE call[c].at \in 0..clock
        BY <4>2, <4>5
      <4> QED BY <4>3, <4>4, <4>5
    <3>4. approvals[discharge[c][g]].exp >= call[c].at
      BY <2>2
    <3> QED BY <3>2, <3>3, <3>4
  <2> QED BY <2>1, <2>2, <2>3
<1> QED BY <1>1, Invariance, PTL

\* A nonce in a store was consumed on a proof that the credential's holder
\* signed for that server, credential and request, and an approval's on one that
\* its approver signed for that credential and request.
THEOREM JustifiedBurns == Spec => []BurnJustified
<1>1. Inv => BurnJustified
  <2> SUFFICES ASSUME Inv, NEW s \in Server, NEW e \in used[s]
               PROVE  LET q == call[e.by]
                      IN  /\ q.pop.sig = Decision[q.cred].holder /\ q.pop.aud = AudienceOf[s]
                          /\ Decision[q.cred].holder \notin WeakKey
                          /\ q.pop.cred = q.cred /\ q.pop.req = q.req
                          /\ e.scope = "pop" => q.pop.nonce = e.nonce
                          /\ e.scope = "approval" =>
                                \E n \in Uses(e.by) :
                                    LET a == approvals[n]
                                    IN  /\ a.nonce = e.nonce /\ a.sig = a.approver
                                        /\ a.cred = q.cred /\ a.req = q.req
    BY DEF BurnJustified
  <2>1. /\ call[e.by].server = s /\ PopOK(call[e.by]) /\ e.by \in Call
        /\ e.scope = "pop" => e.nonce = call[e.by].nonce
    BY DEF Inv, EntriesOK, TypeOK
  <2>2. ASSUME e.scope = "approval"
        PROVE  \E n \in Uses(e.by) :
                  LET a == approvals[n]
                  IN  /\ a.nonce = e.nonce /\ a.sig = a.approver
                      /\ a.cred = call[e.by].cred /\ a.req = call[e.by].req
    <3>1. PICK g \in DOMAIN discharge[e.by] : approvals[discharge[e.by][g]].nonce = e.nonce
      BY <2>2 DEF Inv, EntriesOK
    <3>2. LET a == approvals[discharge[e.by][g]]
          IN  /\ a.sig = a.approver
              /\ a.cred = call[e.by].cred /\ a.req = call[e.by].req
      BY SMTT(60), <2>1 DEF Inv, Discharged, Satisfies, VerifySig, RawVerify
    <3> QED BY <3>1, <3>2 DEF Uses
  <2> QED BY <2>1, <2>2 DEF PopOK, VerifySig, RawVerify
<1> QED BY <1>1, Invariance, PTL

-----------------------------------------------------------------------------
(* What a refusal says. *)

Past == {"evaluate", "consume_approvals", "authorized", "rejected"}

\* A refused call is over, so it and the call that caused the refusal keep
\* their arguments.
Refusals ==
    /\ DOMAIN why = Call
    /\ \A c \in Call : why[c] = "pop_replay" => pc[c] = "rejected"

\* A call past check_pop stays past it, and keeps its arguments; a step gives
\* at most one call a new reason.
LEMMA PastStays ==
    ASSUME Inv, Refusals, [Next]_vars
    PROVE  /\ \A d \in Call : pc[d] \in Past => pc'[d] \in Past /\ call'[d] = call[d]
           /\ \A d \in Call : pc[d] = "rejected" => pc'[d] = "rejected"
           /\ DOMAIN why' = Call
           /\ \A c \in Call : why'[c] = "pop_replay" =>
                 why[c] = "pop_replay" \/ (ConsumePop(c) /\ why' # why)
<1> DEFINE Goal == /\ \A d \in Call : pc[d] \in Past => pc'[d] \in Past /\ call'[d] = call[d]
                   /\ \A d \in Call : pc[d] = "rejected" => pc'[d] = "rejected"
                   /\ DOMAIN why' = Call
                   /\ \A c \in Call : why'[c] = "pop_replay" =>
                         why[c] = "pop_replay" \/ (ConsumePop(c) /\ why' # why)
<1>1. pc \in [Call -> {"idle"} \cup Running \cup Returned] /\ DOMAIN call = Call /\ DOMAIN why = Call
  BY DEF Inv, TypeOK, Shapes, Refusals
<1>2. CASE ProveStep \/ ApproveStep \/ Tick \/ (\E s \in Server : \E e \in used[s] : Evict(s, e))
           \/ UNCHANGED vars
  <2>1. UNCHANGED <<pc, why, call>>
    BY <1>2 DEF ProveStep, ApproveStep, Tick, Evict, Prove, ProofElsewhere, MakeApproval,
                ApprovalElsewhere, AddApproval, locals, vars
  <2> QED BY <1>1, <2>1
<1>3. CASE BeginStep
  <2>1. PICK c \in Call, server \in Server, cred \in Cred, req \in Request, nonce \in Nonce,
             pop \in pops, presented \in Presentations, at \in GivenAt \cup {Now} :
            Begin(c, server, cred, req, nonce, pop, presented, at)
    BY <1>3 DEF BeginStep
  <2>2. /\ pc[c] = "idle" /\ DOMAIN why' = Call
        /\ \A d \in Call : d # c =>
              call'[d] = call[d] /\ pc'[d] = pc[d] /\ why'[d] = why[d]
        /\ why'[c] = "pop_replay" => why[c] = "pop_replay"
    BY <1>1, <2>1 DEF Begin, Goto, Reject
  <2> QED BY <2>2 DEF Past
<1>4. ASSUME NEW c \in Call, Step(c) PROVE Goal
  <2>1. call' = call
    BY <1>4 DEF Step, VerifyChain, CheckPop, ConsumePop, Evaluate, ConsumeApproval, Authorized
  <2>2. pc[c] # "rejected"
    BY <1>4 DEF Step, VerifyChain, CheckPop, ConsumePop, Evaluate, ConsumeApproval, Authorized
  <2>3. /\ DOMAIN why' = Call
        /\ \A d \in Call : d # c => pc'[d] = pc[d] /\ why'[d] = why[d]
        /\ pc[c] \in Past => pc'[c] \in Past
        /\ why'[c] = "pop_replay" => why[c] = "pop_replay" \/ (ConsumePop(c) /\ why' # why)
    <3>1. CASE VerifyChain(c) \/ CheckPop(c)
      BY <1>1, <3>1 DEF VerifyChain, CheckPop, Goto, Reject, Past
    <3>2. CASE Evaluate(c) \/ Authorized(c)
      BY <1>1, <3>2 DEF Evaluate, Authorized, Goto, Reject, Past
    <3>3. CASE ConsumePop(c)
      BY <1>1, <3>3 DEF ConsumePop, Goto, Reject, Past
    <3>4. CASE ConsumeApproval(c)
      BY <1>1, <3>4 DEF ConsumeApproval, Reject, Past
    <3> QED BY <1>4, <3>1, <3>2, <3>3, <3>4 DEF Step
  <2> QED BY <2>1, <2>2, <2>3
<1> QED BY <1>2, <1>3, <1>4 DEF Next, Finished

\* A call refused as a replay of a proof: another call held a proof for the
\* same nonce at the same server (NonceStore.consume keys on scope and nonce,
\* and authorize consumes only after check_pop).
THEOREM NoFalseReplay == Spec => []ReplayHasCause
<1> DEFINE I == Inv /\ Refusals /\ ReplayHasCause
<1>1. Init => I
  <2>1. Init => Refusals /\ ReplayHasCause
    BY DEF Init, Refusals, ReplayHasCause
  <2> QED BY <2>1, InitInv
<1>2. I /\ [Next]_vars => I'
  <2> SUFFICES ASSUME I, [Next]_vars PROVE I'
    OBVIOUS
  <2>1. Inv'
    BY InvNext
  <2>2. /\ \A d \in Call : pc[d] \in Past => pc'[d] \in Past /\ call'[d] = call[d]
        /\ \A d \in Call : pc[d] = "rejected" => pc'[d] = "rejected"
        /\ DOMAIN why' = Call
        /\ \A c \in Call : why'[c] = "pop_replay" =>
              why[c] = "pop_replay" \/ (ConsumePop(c) /\ why' # why)
    BY PastStays
  <2>3. ASSUME NEW c \in Call, ConsumePop(c), why' # why
        PROVE  /\ pc'[c] = "rejected" /\ call' = call
               /\ \E d \in Call \ {c} :
                     /\ call[d].server = call[c].server /\ call[d].nonce = call[c].nonce
                     /\ pc[d] \in Past /\ PopOK(call[d])
    <3>1. /\ pc[c] = "consume_pop" /\ pc' = [pc EXCEPT ![c] = "rejected"]
          /\ Holds(call[c].server, "pop", call[c].nonce) /\ call' = call
      BY <2>3 DEF ConsumePop, Goto, Reject
    <3>2. call[c].server \in Server /\ pc \in [Call -> {"idle"} \cup Running \cup Returned]
      BY <3>1 DEF Inv, TypeOK
    <3>3. PICK e \in used[call[c].server] : e.scope = "pop" /\ e.nonce = call[c].nonce
      BY <3>1 DEF Holds
    <3>4. /\ e.by \in Call /\ pc[e.by] \in Past /\ call[e.by].server = call[c].server
          /\ PopOK(call[e.by]) /\ e.nonce = call[e.by].nonce
      BY <3>2, <3>3 DEF Inv, EntriesOK, TypeOK, Late, Past
    <3>5. e.by # c
      BY <3>1, <3>4 DEF Past
    <3> QED BY <3>1, <3>2, <3>3, <3>4, <3>5
  <2>4. Refusals'
    BY <2>2, <2>3 DEF Refusals
  <2>5. ReplayHasCause'
    <3> SUFFICES ASSUME NEW c \in Call, why'[c] = "pop_replay"
                 PROVE  \E d \in Call \ {c} :
                            /\ call'[d].server = call'[c].server /\ call'[d].nonce = call'[c].nonce
                            /\ pc'[d] \in Past /\ PopOK(call[d])'
      BY DEF ReplayHasCause, Past
    <3>1. \E d \in Call \ {c} :
              /\ call[d].server = call[c].server /\ call[d].nonce = call[c].nonce
              /\ pc[d] \in Past /\ PopOK(call[d])
      BY <2>2, <2>3 DEF ReplayHasCause, Past
    <3>2. call'[c] = call[c]
      BY <2>2, <2>3 DEF Refusals, Past
    <3>3. \A d \in Call : call'[d] = call[d] /\ PopOK(call[d]) => PopOK(call[d])'
      BY DEF PopOK, VerifySig, RawVerify
    <3> QED BY <2>2, <3>1, <3>2, <3>3
  <2> QED BY <2>1, <2>4, <2>5
<1>3. I => ReplayHasCause
  OBVIOUS
<1> HIDE DEF I
<1> QED BY <1>1, <1>2, <1>3, PTL DEF Spec

-----------------------------------------------------------------------------
(* Contention for approvals. *)

\* What contention asks of the approvers: the key of a gate signs approvals in
\* make_approval only, so under nonces of their own.
ApproversFaithful ==
    \A c \in Cred : \A g \in DOMAIN Decision[c].gates :
        Decision[c].gates[g].approver \notin Stranger

Lost(c) == why[c] = "approval_replay"
Active(c) == pc[c] \in Discharging \/ Lost(c)

Reasons == DOMAIN why = Call /\ \A c \in Call : Lost(c) => pc[c] = "rejected"

\* An approval that make_approval made has a nonce of its own.
Genuine ==
    \A n \in DOMAIN approvals : approvals[n].sig \notin Stranger => approvals[n].nonce = n

\* A call leans on genuine approvals, one for each gate.
Leans ==
    \A c \in Call : pc[c] # "idle" =>
        /\ DOMAIN discharge[c] \subseteq DOMAIN Decision[call[c].cred].gates
        /\ \A g \in DOMAIN discharge[c] : approvals[discharge[c][g]].nonce = discharge[c][g]

\* It leans on the same one for gates of the same approver and label: the
\* choice of evaluate depends on nothing else.
Alike ==
    \A c \in Call : \A g, h \in DOMAIN discharge[c] :
        /\ approvals[discharge[c][g]].approver = approvals[discharge[c][h]].approver
        /\ approvals[discharge[c][g]].label = approvals[discharge[c][h]].label
        => discharge[c][g] = discharge[c][h]

\* An approval's nonce in the store was put there by a call that was not
\* refused since, or only for losing another approval.
Consumers ==
    \A s \in Server : \A e \in used[s] : e.scope = "approval" =>
        /\ Active(e.by)
        /\ \E g \in DOMAIN discharge[e.by] :
              g < next[e.by] /\ approvals[discharge[e.by][g]].nonce = e.nonce

\* A call that lost an approval lost it to one for the same action that has
\* got further: calls consume in the order of the chain's gates.
Ahead(d, c) == call[d].server = call[c].server /\ SameAction(c, d) /\ next[d] > next[c]
Blocked == \A c \in Call : Lost(c) => \E d \in Call : Ahead(d, c) /\ Active(d)

Contest == Reasons /\ Genuine /\ Leans /\ Alike /\ Consumers /\ Blocked

LEMMA InitContest == Init => Contest
<1> SUFFICES ASSUME Init PROVE Contest
  OBVIOUS
<1>1. /\ approvals = <<>> /\ used = [s \in Server |-> {}]
      /\ pc = [c \in Call |-> "idle"] /\ why = [c \in Call |-> "none"]
      /\ discharge = [c \in Call |-> <<>>]
  BY DEF Init
<1>2. \A c \in Call : pc[c] = "idle" /\ ~Lost(c) /\ DOMAIN discharge[c] = {}
  BY <1>1 DEF Lost
<1>3. Reasons /\ Genuine /\ Consumers
  BY <1>1, <1>2 DEF Reasons, Genuine, Consumers
<1>4. Leans /\ Alike /\ Blocked
  BY <1>2 DEF Leans, Alike, Blocked
<1> QED BY <1>3, <1>4 DEF Contest

\* Steps that neither consume an approval nor change what calls lean on.
LEMMA QuietContest ==
    ASSUME Contest, UNCHANGED <<approvals, call, discharge, next>>, DOMAIN why' = Call,
           \A d \in Call : pc'[d] # "idle" => pc[d] # "idle",
           \A d \in Call : Lost(d)' => Lost(d) /\ pc'[d] = "rejected",
           \A d \in Call : Active(d) => Active(d)',
           \A s \in Server : \A e \in used'[s] :
               e.scope = "approval" => e \in used[s] /\ e.by \in Call
    PROVE  Contest'
<1> USE DEF Contest
<1>1. Reasons' /\ Genuine'
  BY DEF Reasons, Genuine
<1>2. Leans' /\ Alike'
  BY DEF Leans, Alike
<1>3. Consumers'
  BY DEF Consumers
<1>4. \A c, d \in Call : Ahead(d, c) => Ahead(d, c)'
  BY DEF Ahead, SameAction
<1>5. Blocked'
  BY <1>4 DEF Blocked
<1> QED BY <1>1, <1>2, <1>3, <1>5

LEMMA ApproveContest ==
    ASSUME Inv, Contest, ApproveStep
    PROVE  Contest'
<1> USE DEF Contest
<1>1. PICK a :
          /\ approvals' = Append(approvals, a)
          /\ a.sig \notin Stranger => a.nonce = Len(approvals) + 1
          /\ UNCHANGED <<used, pc, why, call, discharge, next>>
  <2>1. PICK cred \in Cred, req \in Request, label \in Label, ttl \in ApprovalTTL,
             approver \in Approver :
            \/ MakeApproval(approver, cred, req, label, ttl)
            \/ \E k \in Stranger, nonce \in 1..MaxApprovals :
                   ApprovalElsewhere(k, approver, cred, req, label, ttl, nonce)
    BY DEF ApproveStep
  <2>2. CASE MakeApproval(approver, cred, req, label, ttl)
    BY <2>2 DEF MakeApproval, AddApproval, locals
  <2>3. ASSUME NEW k \in Stranger, NEW nonce \in 1..MaxApprovals,
               ApprovalElsewhere(k, approver, cred, req, label, ttl, nonce)
        PROVE  \E a : /\ approvals' = Append(approvals, a)
                      /\ a.sig \notin Stranger => a.nonce = Len(approvals) + 1
                      /\ UNCHANGED <<used, pc, why, call, discharge, next>>
    BY <2>3 DEF ApprovalElsewhere, AddApproval, locals
  <2> QED BY <2>1, <2>2, <2>3
<1>2. /\ approvals \in Seq(Approval)
      /\ \A c \in Call : \A g \in DOMAIN discharge[c] : discharge[c][g] \in DOMAIN approvals
      /\ \A s \in Server : \A e \in used[s] : e.by \in Call
  BY DEF Inv, Shapes, Discharged, TypeOK
<1>3. /\ \A n \in DOMAIN approvals : approvals'[n] = approvals[n]
      /\ \A n \in DOMAIN approvals' : n \in DOMAIN approvals \/ n = Len(approvals) + 1
      /\ approvals'[Len(approvals) + 1] = a
  BY <1>1, <1>2
<1>4. Reasons' /\ Genuine'
  BY <1>1, <1>3 DEF Reasons, Genuine, Lost
<1>5. Leans' /\ Alike'
  BY <1>1, <1>2, <1>3 DEF Leans, Alike
<1>6. Consumers'
  <2>1. \A d \in Call : \A g \in DOMAIN discharge[d] :
            approvals'[discharge[d][g]] = approvals[discharge[d][g]]
    BY <1>2, <1>3
  <2>2. \A d \in Call : Active(d)' <=> Active(d)
    BY <1>1 DEF Active, Lost
  <2> QED BY <1>1, <1>2, <2>1, <2>2 DEF Consumers
<1>7. Blocked'
  BY <1>1 DEF Blocked, Active, Lost, Ahead, SameAction
<1> QED BY <1>4, <1>5, <1>6, <1>7

LEMMA BeginContest ==
    ASSUME Inv, Contest, BeginStep
    PROVE  Contest'
<1> USE DEF Contest
<1>1. PICK c \in Call, server \in Server, cred \in Cred, req \in Request, nonce \in Nonce,
           pop \in pops, presented \in Presentations, at \in GivenAt \cup {Now} :
          Begin(c, server, cred, req, nonce, pop, presented, at)
  BY DEF BeginStep
<1>2. /\ pc[c] = "idle" /\ UNCHANGED <<approvals, used, discharge, next>>
      /\ \A d \in Call : d # c => call'[d] = call[d] /\ pc'[d] = pc[d] /\ why'[d] = why[d]
      /\ DOMAIN why' = Call /\ ~Lost(c)'
  <2>1. pc[c] = "idle" /\ UNCHANGED <<approvals, used, discharge, next>>
    BY <1>1 DEF Begin
  <2>2. DOMAIN why = Call /\ why[c] # "approval_replay"
    BY <2>1 DEF Reasons, Lost
  <2>3. \A d \in Call : d # c => call'[d] = call[d] /\ pc'[d] = pc[d]
    BY <1>1 DEF Begin, Goto, Reject, Inv, Shapes, TypeOK
  <2>4. why' = why \/ why' = [why EXCEPT ![c] = "no_store"]
    BY <1>1 DEF Begin, Goto, Reject
  <2> QED BY <2>1, <2>2, <2>3, <2>4 DEF Lost
<1>3. ~Active(c) /\ DOMAIN discharge[c] = {}
  <2>1. ~Active(c)
    BY <1>2 DEF Reasons, Active, Lost, Discharging
  <2>2. discharge[c] = <<>>
    BY <1>2 DEF Inv, Ordered, Early
  <2> QED BY <2>1, <2>2
<1>4. \A d \in Call : d # c => (Active(d)' <=> Active(d)) /\ (Lost(d)' <=> Lost(d))
  BY <1>2 DEF Active, Lost
<1>5. Reasons' /\ Genuine'
  BY <1>2, <1>4 DEF Reasons, Genuine
<1>6. Leans' /\ Alike'
  BY <1>2, <1>3 DEF Leans, Alike
<1>7. Consumers'
  <2>1. \A s \in Server : \A e \in used[s] : e.by \in Call
    BY DEF Inv, TypeOK
  <2> QED BY <1>2, <1>3, <1>4, <2>1 DEF Consumers
<1>8. Blocked'
  <2>1. \A x, y \in Call : x # c /\ y # c /\ Ahead(x, y) => Ahead(x, y)'
    BY <1>2 DEF Ahead, SameAction
  <2> QED BY <1>2, <1>3, <1>4, <2>1 DEF Blocked
<1> QED BY <1>5, <1>6, <1>7, <1>8

\* The first approval that satisfies a gate is the same for the same gate.
LEMMA EvaluateContest ==
    ASSUME Inv, Contest, ApproversFaithful, NEW c \in Call, Evaluate(c)
    PROVE  Contest'
<1> USE DEF Contest
<1> DEFINE q == call[c]
           gates == Decision[q.cred].gates
           chosen == [g \in DOMAIN gates |-> q.presented[First(Satisfying(q, gates[g]))]]
<1>1. /\ pc[c] = "evaluate" /\ UNCHANGED <<approvals, used, call, next>>
  BY DEF Evaluate
<1>2. pc \in [Call -> {"idle"} \cup Running \cup Returned] /\ DOMAIN why = Call
  BY DEF Inv, TypeOK, Reasons
<1>3. \A s \in Server : \A e \in used[s] : e.by \in Call
  BY DEF Inv, TypeOK
<1>4. ~Active(c)
  BY <1>1 DEF Reasons, Active, Lost, Discharging
<1>5. CASE Reject(c, "scope") /\ UNCHANGED discharge
  <2>1. /\ DOMAIN why' = Call
        /\ \A d \in Call : d # c => pc'[d] = pc[d] /\ why'[d] = why[d]
        /\ why'[c] = "scope" /\ pc'[c] = "rejected"
    BY <1>2, <1>5 DEF Reject
  <2>2. \A d \in Call : Active(d) => Active(d)'
    BY <1>4, <2>1 DEF Active, Lost
  <2>3. \A d \in Call : Lost(d)' => Lost(d) /\ pc'[d] = "rejected"
    BY <2>1 DEF Reasons, Lost
  <2> QED BY <1>1, <1>3, <1>5, <2>1, <2>2, <2>3, QuietContest
<1>6. CASE /\ Goto(c, "consume_approvals")
           /\ \A g \in DOMAIN gates : Satisfying(q, gates[g]) # {}
           /\ discharge' = [discharge EXCEPT ![c] = chosen]
  <2>1. ASSUME NEW g \in DOMAIN gates
        PROVE  chosen[g] \in DOMAIN approvals /\ Satisfies(q, gates[g], chosen[g])
    <3> DEFINE S == Satisfying(q, gates[g])
    <3>1. S \subseteq DOMAIN q.presented /\ DOMAIN q.presented \subseteq Nat /\ S # {}
      BY <1>1, <1>6 DEF Satisfying, Inv, CallsOK
    <3>2. First(S) \in S
      BY <3>1, FirstIsIn
    <3>3. q.presented[First(S)] \in DOMAIN approvals
      BY <1>1, <3>1, <3>2 DEF Inv, CallsOK
    <3> QED BY <3>2, <3>3 DEF Satisfying
  <2>2. ASSUME NEW g \in DOMAIN gates
        PROVE  /\ approvals[chosen[g]].approver = gates[g].approver
               /\ approvals[chosen[g]].label = gates[g].label
               /\ approvals[chosen[g]].nonce = chosen[g]
    <3>1. /\ approvals[chosen[g]].approver = gates[g].approver
          /\ approvals[chosen[g]].label = gates[g].label
          /\ approvals[chosen[g]].sig = gates[g].approver
      BY <2>1 DEF Satisfies, VerifySig, RawVerify
    <3>2. gates[g].approver \notin Stranger
      BY <1>1 DEF ApproversFaithful, Inv, CallsOK
    <3> QED BY <2>1, <3>1, <3>2 DEF Genuine
  <2>3. ASSUME NEW g \in DOMAIN gates, NEW h \in DOMAIN gates,
               gates[g].approver = gates[h].approver, gates[g].label = gates[h].label
        PROVE  chosen[g] = chosen[h]
    <3>1. Satisfying(q, gates[g]) = Satisfying(q, gates[h])
      BY <2>3 DEF Satisfying, Satisfies
    <3> QED BY <3>1
  <2>4. DOMAIN chosen = DOMAIN gates
    OBVIOUS
  <2> HIDE DEF chosen
  <2>5. /\ discharge'[c] = chosen
        /\ \A d \in Call : d # c => discharge'[d] = discharge[d] /\ pc'[d] = pc[d]
        /\ pc'[c] = "consume_approvals" /\ why' = why
    BY <1>2, <1>6 DEF Goto, Inv, Shapes
  <2>6. \A d \in Call : d # c => (Active(d)' <=> Active(d)) /\ (Lost(d)' <=> Lost(d))
    BY <2>5 DEF Active, Lost
  <2>7. ~Lost(c)'
    BY <1>4, <2>5 DEF Active, Lost
  <2>8. Reasons' /\ Genuine'
    BY <1>1, <2>5, <2>6, <2>7 DEF Reasons, Genuine
  <2>9. Leans'
    BY <1>1, <2>2, <2>4, <2>5 DEF Leans
  <2>10. Alike'
    <3>1. ASSUME NEW g \in DOMAIN chosen, NEW h \in DOMAIN chosen,
                 approvals[chosen[g]].approver = approvals[chosen[h]].approver,
                 approvals[chosen[g]].label = approvals[chosen[h]].label
          PROVE  chosen[g] = chosen[h]
      <4>1. g \in DOMAIN gates /\ h \in DOMAIN gates
        BY <2>4
      <4>2. gates[g].approver = gates[h].approver /\ gates[g].label = gates[h].label
        BY <2>2, <3>1, <4>1
      <4> QED BY <2>3, <4>1, <4>2
    <3> QED BY <1>1, <2>5, <3>1 DEF Alike
  <2>11. Consumers'
    BY <1>1, <1>3, <1>4, <2>5, <2>6 DEF Consumers
  <2>12. Blocked'
    <3>1. \A x, y \in Call : Ahead(x, y) => Ahead(x, y)'
      BY <1>1 DEF Ahead, SameAction
    <3> QED BY <1>4, <2>6, <2>7, <3>1 DEF Blocked
  <2> QED BY <2>8, <2>9, <2>10, <2>11, <2>12
<1> QED BY <1>5, <1>6 DEF Evaluate

\* A call that finds an approval's nonce consumed is behind the consumer: had
\* that one met the nonce at an earlier gate, so would this one.
LEMMA LostToAhead ==
    ASSUME Inv, Contest, NEW c \in Call, pc[c] = "consume_approvals",
           next[c] \in DOMAIN discharge[c], ~Repeated(c, next[c]),
           Holds(call[c].server, "approval", approvals[discharge[c][next[c]]].nonce)
    PROVE  \E d \in Call : Ahead(d, c) /\ Active(d)
<1> USE DEF Contest
<1> DEFINE p == next[c]
<1>1. call[c].server \in Server /\ pc[c] # "idle"
  BY DEF Inv, TypeOK
<1>2. PICK e \in used[call[c].server] :
          e.scope = "approval" /\ e.nonce = approvals[discharge[c][p]].nonce
  BY DEF Holds
<1> DEFINE d == e.by
<1>3. d \in Call /\ call[d].server = call[c].server /\ Active(d)
  BY <1>1, <1>2 DEF Inv, TypeOK, EntriesOK, Consumers
<1>4. PICK g \in DOMAIN discharge[d] : g < next[d] /\ approvals[discharge[d][g]].nonce = e.nonce
  BY <1>1, <1>2 DEF Consumers
<1>5. pc[d] # "idle"
  BY <1>1, <1>3, <1>4 DEF Inv, EntriesOK, Late
<1> HIDE DEF d
<1>6. discharge[d][g] = discharge[c][p]
  BY <1>1, <1>2, <1>3, <1>4, <1>5 DEF Leans
<1>7. /\ approvals[discharge[d][g]].cred = call[d].cred
      /\ approvals[discharge[d][g]].req = call[d].req
      /\ approvals[discharge[d][g]].approver = Decision[call[d].cred].gates[g].approver
      /\ approvals[discharge[d][g]].label = Decision[call[d].cred].gates[g].label
  BY <1>3 DEF Inv, Discharged, Satisfies, VerifySig, RawVerify
<1>8. /\ approvals[discharge[c][p]].cred = call[c].cred
      /\ approvals[discharge[c][p]].req = call[c].req
  BY DEF Inv, Discharged, Satisfies, VerifySig, RawVerify
<1>9. SameAction(c, d)
  BY <1>6, <1>7, <1>8 DEF SameAction
<1>10. /\ discharge[c] \in Seq(Nat) /\ discharge[d] \in Seq(Nat)
       /\ next[d] \in Int /\ p \in Int /\ g \in Int /\ g >= 1
  <2>1. discharge[c] \in Seq(Nat) /\ discharge[d] \in Seq(Nat)
    BY <1>3 DEF Inv, Discharged
  <2> QED BY SMTT(60), <1>3, <2>1 DEF Inv, TypeOK
<1>11. g < p => FALSE
  <2>1. SUFFICES ASSUME g < p PROVE FALSE
    OBVIOUS
  <2>2. g \in DOMAIN discharge[c]
    <3>1. p \in 1..Len(discharge[c])
      BY <1>10
    <3> QED BY <1>10, <2>1, <3>1
  <2>3. /\ approvals[discharge[c][g]].approver = Decision[call[c].cred].gates[g].approver
        /\ approvals[discharge[c][g]].label = Decision[call[c].cred].gates[g].label
    BY <2>2 DEF Inv, Discharged, Satisfies, VerifySig, RawVerify
  <2>4. discharge[c][g] = discharge[c][p]
    BY <1>6, <1>7, <1>9, <2>2, <2>3 DEF Alike, SameAction
  <2>5. g \in 1..(p - 1)
    BY <1>10, <2>1
  <2> QED BY <2>4, <2>5 DEF Repeated
<1>12. next[d] > p
  BY <1>4, <1>10, <1>11
<1> QED BY <1>3, <1>9, <1>12 DEF Ahead

LEMMA ConsumeApprovalContest ==
    ASSUME Inv, Contest, NEW c \in Call, ConsumeApproval(c)
    PROVE  Contest'
<1> USE DEF Contest
<1>0. PICK nonce : nonce = approvals[discharge[c][next[c]]].nonce
  OBVIOUS
<1>1. /\ pc[c] = "consume_approvals" /\ next[c] <= Len(discharge[c])
      /\ UNCHANGED <<approvals, call, discharge>>
      /\ \/ Repeated(c, next[c]) /\ next' = [next EXCEPT ![c] = @ + 1] /\ UNCHANGED <<used, pc, why>>
         \/ /\ ~Repeated(c, next[c]) /\ Holds(call[c].server, "approval", nonce)
            /\ Reject(c, "approval_replay") /\ UNCHANGED <<used, next>>
         \/ /\ Record(c, "approval", nonce)
            /\ next' = [next EXCEPT ![c] = @ + 1] /\ UNCHANGED <<pc, why>>
  BY <1>0 DEF ConsumeApproval
<1>2. next[c] \in DOMAIN discharge[c] /\ \A d \in Call : next[d] \in Int
  <2>1. discharge[c] \in Seq(Nat) /\ next[c] \in 1..(Len(discharge[c]) + 1)
    BY DEF Inv, Discharged, TypeOK
  <2>2. \A d \in Call : next[d] \in Int
    BY DEF Inv, TypeOK
  <2> QED BY <1>1, <2>1, <2>2
<1>3. /\ DOMAIN next = Call /\ DOMAIN used = Server /\ DOMAIN why = Call
      /\ pc \in [Call -> {"idle"} \cup Running \cup Returned]
      /\ call[c].server \in Server
      /\ \A s \in Server : \A e \in used[s] : e.by \in Call
  BY <1>1 DEF Inv, Shapes, TypeOK, Reasons
<1>4. Active(c) /\ ~Lost(c)
  BY <1>1 DEF Active, Discharging, Reasons
\* A refused turn.
<1>5. CASE /\ ~Repeated(c, next[c]) /\ Holds(call[c].server, "approval", nonce)
           /\ Reject(c, "approval_replay") /\ UNCHANGED <<used, next>>
  <2>1. /\ pc'[c] = "rejected" /\ DOMAIN why' = Call /\ Lost(c)'
        /\ \A d \in Call : d # c => pc'[d] = pc[d] /\ why'[d] = why[d]
    BY <1>3, <1>5 DEF Reject, Lost
  <2>2. /\ \A d \in Call : d # c => (Lost(d)' <=> Lost(d))
        /\ \A d \in Call : Active(d) => Active(d)'
        /\ \A d \in Call : pc'[d] # "idle" => pc[d] # "idle"
    BY <1>1, <2>1 DEF Active, Lost
  <2>3. Reasons' /\ Genuine'
    BY <1>1, <2>1, <2>2 DEF Reasons, Genuine
  <2>4. Leans' /\ Alike'
    BY <1>1, <2>2 DEF Leans, Alike
  <2>5. Consumers'
    BY <1>1, <1>3, <1>5, <2>2 DEF Consumers
  <2>6. \A x, y \in Call : Ahead(x, y) => Ahead(x, y)'
    BY <1>1, <1>5 DEF Ahead, SameAction
  <2>7. \E d \in Call : Ahead(d, c) /\ Active(d)
    BY <1>0, <1>1, <1>2, <1>5, LostToAhead
  <2>8. Blocked'
    BY <2>1, <2>2, <2>6, <2>7 DEF Blocked
  <2> QED BY <2>3, <2>4, <2>5, <2>8
\* A turn that moves on, with or without recording.
<1>6. ASSUME next' = [next EXCEPT ![c] = @ + 1], UNCHANGED <<pc, why>>,
             \A s \in Server : \A e \in used'[s] :
                 e \in used[s] \/ (e.by = c /\ e.nonce = nonce)
      PROVE  Contest'
  <2>1. /\ next'[c] = next[c] + 1 /\ \A d \in Call : d # c => next'[d] = next[d]
        /\ \A d \in Call : (Lost(d)' <=> Lost(d)) /\ (Active(d)' <=> Active(d))
    BY <1>3, <1>6 DEF Lost, Active
  <2>2. Reasons' /\ Genuine'
    BY <1>1, <1>6, <2>1 DEF Reasons, Genuine
  <2>3. Leans' /\ Alike'
    BY <1>1, <1>6 DEF Leans, Alike
  <2>4. \A d \in Call : \A g \in Int : g < next[d] => g < next'[d]
    BY <1>2, <2>1
  <2>5. Consumers'
    <3>1. ASSUME NEW s \in Server, NEW e \in used[s], e.scope = "approval"
          PROVE  /\ Active(e.by)'
                 /\ \E g \in DOMAIN discharge'[e.by] :
                       g < next'[e.by] /\ approvals'[discharge'[e.by][g]].nonce = e.nonce
      <4>1. e.by \in Call /\ discharge[e.by] \in Seq(Nat)
        BY <1>3 DEF Inv, Discharged
      <4>2. DOMAIN discharge[e.by] \subseteq Int
        BY <4>1
      <4> QED BY <1>1, <2>1, <2>4, <3>1, <4>1, <4>2 DEF Consumers
    <3>2. \E g \in DOMAIN discharge'[c] :
              g < next'[c] /\ approvals'[discharge'[c][g]].nonce = nonce
      BY <1>0, <1>1, <1>2, <2>1
    <3> QED BY <1>4, <1>6, <2>1, <3>1, <3>2 DEF Consumers
  <2>6. Blocked'
    <3>1. ASSUME NEW x \in Call, NEW y \in Call, y # c, Ahead(x, y) PROVE Ahead(x, y)'
      BY <1>1, <1>2, <2>1, <3>1 DEF Ahead, SameAction
    <3> QED BY <1>4, <2>1, <3>1 DEF Blocked
  <2> QED BY <2>2, <2>3, <2>5, <2>6
<1>7. CASE next' = [next EXCEPT ![c] = @ + 1] /\ UNCHANGED <<used, pc, why>>
  BY <1>6, <1>7
<1>8. CASE /\ Record(c, "approval", nonce)
           /\ next' = [next EXCEPT ![c] = @ + 1] /\ UNCHANGED <<pc, why>>
  <2>1. \A s \in Server : \A e \in used'[s] :
            e \in used[s] \/ (e.by = c /\ e.nonce = nonce)
    BY <1>3, <1>8 DEF Record
  <2> QED BY <1>6, <1>8, <2>1
<1> QED BY <1>1, <1>5, <1>7, <1>8

\* The other steps of a call and of what surrounds it.
LEMMA MovesContest ==
    ASSUME Inv, Contest, NEW c \in Call,
           VerifyChain(c) \/ CheckPop(c) \/ ConsumePop(c) \/ Authorized(c)
    PROVE  Contest'
<1>1. /\ UNCHANGED <<approvals, call, discharge, next>> /\ pc[c] # "idle"
      /\ pc[c] \notin Discharging \/ pc'[c] \in Discharging
      /\ \/ pc' = [pc EXCEPT ![c] = pc'[c]] /\ why' = why
         \/ /\ pc' = [pc EXCEPT ![c] = "rejected"]
            /\ \E r \in {"chain", "pop", "pop_replay"} : why' = [why EXCEPT ![c] = r]
  <2>1. CASE VerifyChain(c)
    BY <2>1 DEF VerifyChain, Goto, Reject, Discharging, Inv, TypeOK
  <2>2. CASE CheckPop(c)
    BY <2>2 DEF CheckPop, Goto, Reject, Discharging, Inv, TypeOK
  <2>3. CASE ConsumePop(c)
    BY <2>3 DEF ConsumePop, Goto, Reject, Discharging, Inv, TypeOK
  <2>4. CASE Authorized(c)
    BY <2>4 DEF Authorized, Goto, Discharging, Inv, TypeOK
  <2> QED BY <2>1, <2>2, <2>3, <2>4
<1>2. DOMAIN why = Call /\ pc \in [Call -> {"idle"} \cup Running \cup Returned]
      /\ \A d \in Call : Lost(d) => pc[d] = "rejected"
  BY DEF Contest, Reasons, Inv, TypeOK
<1>3. pc[c] # "rejected"
  BY DEF VerifyChain, CheckPop, ConsumePop, Authorized
<1>4. /\ DOMAIN why' = Call
      /\ \A d \in Call : d # c => pc'[d] = pc[d] /\ why'[d] = why[d]
      /\ ~Lost(c)'
  BY <1>1, <1>2, <1>3 DEF Lost
<1>5. /\ \A d \in Call : pc'[d] # "idle" => pc[d] # "idle"
      /\ \A d \in Call : Lost(d)' => Lost(d) /\ pc'[d] = "rejected"
      /\ \A d \in Call : Active(d) => Active(d)'
  BY <1>1, <1>2, <1>3, <1>4 DEF Active, Lost
<1>6. \A s \in Server : \A e \in used'[s] :
          e.scope = "approval" => e \in used[s] /\ e.by \in Call
  <2>1. \A s \in Server : \A e \in used[s] : e.by \in Call
    BY DEF Inv, TypeOK
  <2>2. CASE used' = used
    BY <2>1, <2>2
  <2>3. CASE Record(c, "pop", call[c].nonce)
    BY <2>1, <2>3 DEF Record, Inv, Shapes
  <2> QED BY <2>2, <2>3 DEF VerifyChain, CheckPop, ConsumePop, Authorized
<1> QED BY <1>1, <1>4, <1>5, <1>6, QuietContest

LEMMA WorldContest ==
    ASSUME Inv, Contest,
           ProveStep \/ Tick \/ UNCHANGED vars \/ (\E s \in Server : \E e \in used[s] : Evict(s, e))
    PROVE  Contest'
<1>1. UNCHANGED <<approvals, call, discharge, next, pc, why>>
  BY DEF ProveStep, Tick, Evict, Prove, ProofElsewhere, locals, vars
<1>2. \A s \in Server : \A e \in used'[s] :
          e.scope = "approval" => e \in used[s] /\ e.by \in Call
  <2>1. \A s \in Server : \A e \in used[s] : e.by \in Call
    BY DEF Inv, TypeOK
  <2>2. CASE used' = used
    BY <2>1, <2>2
  <2>3. ASSUME NEW s \in Server, NEW e \in used[s], Evict(s, e)
        PROVE  \A r \in Server : used'[r] \subseteq used[r]
    BY <2>3 DEF Evict, Inv, Shapes
  <2> QED BY <2>1, <2>2, <2>3 DEF ProveStep, Tick, Prove, ProofElsewhere, vars
<1>3. DOMAIN why' = Call
  BY <1>1 DEF Contest, Reasons
<1>4. /\ \A d \in Call : Lost(d)' => Lost(d) /\ pc'[d] = "rejected"
      /\ \A d \in Call : Active(d) => Active(d)'
  BY <1>1 DEF Contest, Reasons, Active, Lost
<1> QED BY <1>1, <1>2, <1>3, <1>4, QuietContest

LEMMA ContestNext == ASSUME ApproversFaithful PROVE Inv /\ Contest /\ [Next]_vars => Contest'
<1> SUFFICES ASSUME Inv, Contest, [Next]_vars PROVE Contest'
  OBVIOUS
<1>1. ASSUME NEW c \in Call, Step(c) PROVE Contest'
  BY <1>1, MovesContest, EvaluateContest, ConsumeApprovalContest DEF Step
<1>2. CASE ProveStep \/ Tick \/ UNCHANGED vars
           \/ (\E s \in Server : \E e \in used[s] : Evict(s, e))
  BY <1>2, WorldContest
<1>3. CASE ApproveStep \/ BeginStep
  BY <1>3, ApproveContest, BeginContest
<1> QED BY <1>1, <1>2, <1>3 DEF Next, Finished

\* Among the calls for one action that lost an approval, one that got furthest
\* lost it to a call that did not lose any.
LEMMA ContestServes == Inv /\ Contest => ContestedServed
<1> SUFFICES ASSUME Inv, Contest, NEW c \in Call, Lost(c)
             PROVE  \E d \in Call : /\ call[d].server = call[c].server /\ SameAction(c, d)
                                    /\ pc[d] \in Discharging
  BY DEF ContestedServed, Lost, Discharging
<1> DEFINE Rivals == {d \in Call : /\ Lost(d) /\ SameAction(c, d)
                                   /\ call[d].server = call[c].server}
           Most == Len(Decision[call[c].cred].gates) + 1
           Left == {m \in Nat : \E d \in Rivals : m = Most - next[d]}
<1>1. ASSUME NEW d \in Rivals PROVE next[d] \in Int /\ Most - next[d] \in Nat
  <2>1. pc[d] # "idle" /\ call[d].cred = call[c].cred /\ call[c].cred \in Cred
    BY DEF Contest, Reasons, SameAction, Inv, CallsOK
  <2>2. discharge[d] \in Seq(Nat) /\ next[d] \in 1..(Len(discharge[d]) + 1)
    BY DEF Inv, Discharged, TypeOK
  <2>3. Decision[call[c].cred].gates \in Seq(Gate)
    BY <2>1, DecisionAssumption
  <2>4. DOMAIN discharge[d] \subseteq DOMAIN Decision[call[c].cred].gates
    BY <2>1 DEF Contest, Leans
  <2>5. Len(discharge[d]) <= Len(Decision[call[c].cred].gates)
    <3>1. CASE Len(discharge[d]) = 0
      BY <2>3, <3>1
    <3>2. CASE Len(discharge[d]) # 0
      <4>1. Len(discharge[d]) \in DOMAIN discharge[d]
        BY <2>2, <3>2
      <4>2. Len(discharge[d]) \in DOMAIN Decision[call[c].cred].gates
        BY <2>4, <4>1
      <4> QED BY <2>3, <4>2
    <3> QED BY <3>1, <3>2
  <2>6. Len(discharge[d]) \in Nat /\ Len(Decision[call[c].cred].gates) \in Nat
    BY <2>2, <2>3
  <2>7. \A l, m \in Nat : \A n \in 1..(l + 1) : l <= m => n \in Int /\ (m + 1) - n \in Nat
    OBVIOUS
  <2> QED BY <2>2, <2>5, <2>6, <2>7
<1>2. c \in Rivals
  BY DEF SameAction
<1>3. Left # {} /\ Left \subseteq Nat
  BY <1>1, <1>2
<1>4. \E k \in Left : \A m \in Left : k <= m
  <2> HIDE DEF Left
  <2> QED BY <1>3, LeastIsIn
<1>5. PICK k \in Left : \A m \in Left : k <= m
  BY <1>4
<1>6. PICK d \in Rivals : k = Most - next[d]
  OBVIOUS
<1>7. PICK x \in Call : Ahead(x, d) /\ Active(x)
  BY DEF Contest, Blocked
<1>8. SameAction(c, x) /\ call[x].server = call[c].server
  BY <1>7 DEF Ahead, SameAction
<1>9. CASE Lost(x)
  <2>1. x \in Rivals
    BY <1>8, <1>9
  <2>2. k <= Most - next[x]
    BY <1>1, <1>5, <2>1
  <2>3. next[x] > next[d]
    BY <1>7 DEF Ahead
  <2>4. next[x] \in Int /\ next[d] \in Int /\ Most - next[d] \in Nat /\ Most - next[x] \in Nat
    BY <1>1, <2>1
  <2>5. Most \in Int
    BY DecisionAssumption DEF Contest, Reasons, Inv, CallsOK
  <2> HIDE DEF Most
  <2> QED BY <1>6, <2>2, <2>3, <2>4, <2>5
<1>10. CASE ~Lost(x)
  BY <1>7, <1>8, <1>10 DEF Active
<1> QED BY <1>9, <1>10

\* Contention refuses only who is behind: when a call is refused because an
\* approval was used, some call for the same action at the same server is
\* authorized or still consuming, with any number of calls in any interleaving
\* (verify.py authorize: consumption in the order of the gates, repeated nonces
\* skipped).
\* The approvers' keys sign in make_approval only.
THEOREM Contention == ASSUME ApproversFaithful PROVE Spec => []ContestedServed
<1> DEFINE I == Inv /\ Contest
<1>1. Init => I
  BY InitInv, InitContest
<1>2. I /\ [Next]_vars => I'
  BY InvNext, ContestNext
<1>3. I => ContestedServed
  BY ContestServes
<1> HIDE DEF I
<1> QED BY <1>1, <1>2, <1>3, PTL DEF Spec
=============================================================================

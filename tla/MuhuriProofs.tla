---------------------------- MODULE MuhuriProofs ----------------------------
(***************************************************************************)
(* Proofs about Muhuri.tla.  The gate changes nothing that verify_chain    *)
(* works on, so the library as a whole behaves, on the variables of the    *)
(* chain, as VerifyChain does, and everything proved in VerifyChainProofs  *)
(* is available for the list that the gate acts on.  What the gate adds is *)
(* an invariant over its stages: past check_pop the proof verified, past   *)
(* evaluate every caveat is met.                                           *)
(***************************************************************************)
EXTENDS Muhuri, VerifyChainProofs

\* Seen from the chain, every step of the gate and of those who bring proofs
\* and approvals is a stutter (authorize hands its arguments through to
\* verify_chain and works on the Decision it returned).
LEMMA Composition == MSpec => VSpec
<1>1. MInit => VInit
  BY DEF MInit
<1>2. [MNext]_mvars => [VNext]_vars
  <2> SUFFICES ASSUME [MNext]_mvars PROVE [VNext]_vars
    OBVIOUS
  <2>1. CASE WorldStep
    BY <2>1 DEF WorldStep, VNext
  <2>2. CASE ProveStep \/ ApproveStep
    BY <2>2 DEF ProveStep, ApproveStep, Prove, MakeApproval
  <2>3. CASE CallStep
    BY <2>3 DEF CallStep, Call, BeginStep, VNext
  <2>4. CASE WalkStep
    BY <2>4 DEF WalkStep, VNext
  <2>5. CASE GateStep
    BY <2>5 DEF GateStep, Keep
  <2>6. CASE MReturn
    BY <2>6 DEF MReturn, VNext
  <2>7. CASE UNCHANGED mvars
    BY <2>7 DEF mvars
  <2> QED BY <2>1, <2>2, <2>3, <2>4, <2>5, <2>6, <2>7 DEF MNext
<1> QED BY <1>1, <1>2, PTL DEF MSpec, VSpec

-----------------------------------------------------------------------------
(* The invariant. *)

\* What is known of the chain in every state of the library.
ChainOK == VInv /\ VerdictSound /\ AcceptedIsLineage /\ DecisionExact

LEMMA ChainInvariant == MSpec => []ChainOK
<1>1. VInv /\ VerdictSound /\ AcceptedIsLineage /\ DecisionExact => ChainOK
  BY DEF ChainOK
<1> QED BY <1>1, Composition, VInvariant, SoundVerdict, NoSplice, ExactDecision, PTL

\* Past check_pop, the proof verified.
Proved == stage \in {"consume_pop", "evaluate", "consume_approvals", "authorized"} => PopOK

\* Past evaluate, every caveat of the Decision is met.
Met(q) == IF Approver[q] = NoKey THEN args.req \in Admits[q]
          ELSE q \in DOMAIN consents /\ consents[q] \in Consenting(q)
Agreed == stage \in {"consume_approvals", "authorized"} => \A q \in effCav : Met(q)

\* What DelegatedAction and TakenByDelegates say of one entry of the histories.
ActedWell(e) ==
    /\ e.cred = lineage[e.cred[Len(e.cred)]]
    /\ Valid(e.cred, e.at, e.deny)
    /\ e.by = HolderOf(e.cred) /\ e.by \notin WeakKey
    /\ \A k \in 1..Len(e.cred) : \A q \in links[e.cred[k]].cav :
          IF Approver[q] = NoKey THEN e.req \in Admits[q]
          ELSE /\ q \in DOMAIN e.consents /\ e.consents[q] \in DOMAIN approvals
               /\ LET a == approvals[e.consents[q]]
                  IN  a.sig = Approver[q] /\ a.gate = q /\ a.cred = e.cred /\ a.req = e.req
TakenWell(e) ==
    /\ Valid(e.cred, e.at, e.deny)
    /\ e.scope = "pop" => e.by = HolderOf(e.cred) /\ e.by \notin WeakKey

MInv ==
    /\ MTypeOK /\ Proved /\ Agreed
    /\ \A e \in acted : ActedWell(e)
    /\ \A e \in taken : TakenWell(e)

\* Approvals are never changed or taken back.
Kept == \A n \in DOMAIN approvals : n \in DOMAIN approvals' /\ approvals'[n] = approvals[n]

LEMMA Lists == ASSUME NEW S, NEW T, S \subseteq T PROVE Seq(S) \subseteq Seq(T)
  OBVIOUS

\* A list that was valid at a second under a deny-list still is: links do not
\* change, and the second and the deny-list are those of then.
LEMMA ValidKept ==
    ASSUME Grows, NEW c \in Seq(Id), NEW t, NEW deny, Valid(c, t, deny)
    PROVE  Valid(c, t, deny)' /\ HolderOf(c)' = HolderOf(c)
           /\ Len(c) \in 1..Len(c) /\ \A k \in 1..Len(c) : c[k] \in Id
<1>1. Len(c) \in Nat /\ \A k \in 1..Len(c) : c[k] \in Id
  OBVIOUS
<1>2. Len(c) \in 1..MAX_DEPTH
  BY DEF Valid
<1>3. Len(c) \in 1..Len(c) /\ 1 \in 1..Len(c)
  BY <1>1, <1>2, VerifierAssumption
<1>4. \A k \in 1..Len(c) : links'[c[k]] = links[c[k]]
  BY <1>1 DEF Grows
<1>5. \A k \in 2..Len(c) : k \in 1..Len(c) /\ k - 1 \in 1..Len(c)
  BY <1>1
<1>6. Valid(c, t, deny)'
  BY <1>2, <1>3, <1>4, <1>5 DEF Valid
<1> QED BY <1>1, <1>3, <1>4, <1>6 DEF HolderOf

\* The histories stay true while links, revocations and approvals come.
LEMMA HistoryKept ==
    ASSUME MInv, Grows, Kept
    PROVE  /\ \A e \in acted : ActedWell(e)'
           /\ \A e \in taken : TakenWell(e)'
<1>1. ASSUME NEW e \in acted PROVE ActedWell(e)'
  <2>1. ActedWell(e) /\ e.cred \in Seq(Id)
    BY DEF MInv, MTypeOK
  <2>2. /\ Valid(e.cred, e.at, e.deny)' /\ HolderOf(e.cred)' = HolderOf(e.cred)
        /\ Len(e.cred) \in 1..Len(e.cred) /\ \A k \in 1..Len(e.cred) : e.cred[k] \in Id
    BY <2>1, ValidKept DEF ActedWell
  <2>3. /\ lineage'[e.cred[Len(e.cred)]] = lineage[e.cred[Len(e.cred)]]
        /\ \A k \in 1..Len(e.cred) : links'[e.cred[k]] = links[e.cred[k]]
    BY <2>2 DEF Grows
  <2> QED BY <2>1, <2>2, <2>3 DEF ActedWell, Kept
<1>2. ASSUME NEW e \in taken PROVE TakenWell(e)'
  <2>1. TakenWell(e) /\ e.cred \in Seq(Id)
    BY DEF MInv, MTypeOK
  <2> QED BY <2>1, ValidKept DEF TakenWell
<1> QED BY <1>1, <1>2

LEMMA MInitInv == MInit => MInv
<1> SUFFICES ASSUME MInit PROVE MInv
  OBVIOUS
<1>1. approvals \in Seq([sig : Key, cred : Named, req : Request, gate : Caveat])
  BY DEF MInit
<1> QED BY <1>1 DEF MInit, VInit, MInv, MTypeOK, Proved, Agreed, NoArgs
-----------------------------------------------------------------------------
(* One lemma per action of MNext. *)

LEMMA Still ==
    ASSUME VInv, UNCHANGED credVars
    PROVE  Grows /\ Id' = Id
BY CredStep DEF VInv, credVars, Id

\* The list of an accepted call is not empty, and of links that exist.
LEMMA AcceptedList ==
    ASSUME ChainOK, pc = "accepted"
    PROVE  /\ chain \in Seq(Id) /\ Len(chain) \in 1..Len(chain)
           /\ Valid(chain, at, revoked0)
           /\ chain = lineage[chain[Len(chain)]]
<1>1. chain \in Seq(Nat) /\ \A k \in 1..Len(chain) : chain[k] \in Id
  BY DEF ChainOK, VInv, VTypeOK
<1>2. Len(chain) \in 1..MAX_DEPTH /\ Len(chain) \in Nat
  BY <1>1 DEF ChainOK, VInv, LoopInv
<1>3. chain \in Seq(Id)
  <2>1. chain = [k \in 1..Len(chain) |-> chain[k]]
    BY <1>1
  <2>2. [k \in 1..Len(chain) |-> chain[k]] \in Seq(Id)
    BY <1>1, <1>2
  <2> QED BY <2>1, <2>2, Zenon
<1> QED BY <1>2, <1>3, VerifierAssumption DEF ChainOK, VerdictSound, AcceptedIsLineage

\* What the stages know of the call is not disturbed while its variables stay
\* and links, revocations and approvals come.
LEMMA CallKept ==
    ASSUME ChainOK, MInv, Grows, Kept, UNCHANGED <<callVars, args, stage, consents>>
    PROVE  Proved' /\ Agreed'
<1>1. UNCHANGED <<pc, chain, at, effCav, args, stage, consents>>
  BY DEF callVars
<1>2. stage # "check_pop" => HolderOf(chain)' = HolderOf(chain)
  <2> SUFFICES ASSUME stage # "check_pop" PROVE HolderOf(chain)' = HolderOf(chain)
    OBVIOUS
  <2>1. pc = "accepted"
    BY DEF MInv, MTypeOK
  <2>2. chain[Len(chain)] \in Id
    BY <2>1, AcceptedList DEF ChainOK, VInv, VTypeOK
  <2> QED BY <1>1, <2>2 DEF HolderOf, Grows
<1>3. Proved'
  BY <1>1, <1>2 DEF Proved, PopOK, SignedBy, VerifySig, RawVerify, IsSmallOrder, MInv
<1>4. ASSUME NEW q \in effCav, stage \in {"consume_approvals", "authorized"} PROVE Met(q)'
  <2>1. Met(q) /\ pc # "idle"
    BY <1>4 DEF MInv, Agreed, MTypeOK
  <2>2. \A n \in args.presented : n \in DOMAIN approvals /\ approvals'[n] = approvals[n]
    BY <2>1 DEF MInv, MTypeOK, Kept
  <2>3. Consenting(q)' = Consenting(q)
    BY <1>1, <2>2 DEF Consenting, SignedBy, VerifySig, RawVerify, IsSmallOrder
  <2> QED BY <1>1, <2>1, <2>3 DEF Met
<1>5. Agreed'
  BY <1>1, <1>4 DEF Agreed
<1> QED BY <1>3, <1>5

\* The world and those who bring proofs and approvals leave the call alone.
LEMMA OthersLeave ==
    ASSUME ChainOK, MInv, Grows, Kept, revoked \subseteq revoked',
           UNCHANGED <<callVars, gateVars>>,
           pops \subseteq pops',
           pops' \subseteq [sig : Key, cred : Named, req : Request, nonce : Nonce],
           approvals' \in Seq([sig : Key, cred : Named, req : Request, gate : Caveat])
    PROVE  MInv'
<1>1. UNCHANGED <<pc, args, stage, consents, todo, taken, acted>>
  BY DEF callVars, gateVars
<1>2. Id \subseteq Id'
  BY DEF Grows, Id, ChainOK, VInv, CredInv, TypeOK
<1>3. Seq(Id) \subseteq Seq(Id')
  BY <1>2, Lists
<1>4. \A e \in taken \cup acted : e.cred \in Seq(Id') /\ e.deny \subseteq revoked'
  BY <1>3 DEF MInv, MTypeOK
<1>5. pc # "idle" => args.pop \in pops' /\ args.presented \subseteq DOMAIN approvals'
  BY DEF MInv, MTypeOK, Kept
<1>6. MTypeOK'
  BY <1>1, <1>4, <1>5 DEF MInv, MTypeOK
<1>7. Proved' /\ Agreed'
  BY <1>1, CallKept
<1>8. (\A e \in acted : ActedWell(e)') /\ (\A e \in taken : TakenWell(e)')
  BY HistoryKept
<1> QED BY <1>1, <1>6, <1>7, <1>8 DEF MInv

LEMMA WorldKeeps == ChainOK /\ MInv /\ WorldStep => MInv'
<1> SUFFICES ASSUME ChainOK, MInv, WorldStep PROVE MInv'
  OBVIOUS
<1>1. UNCHANGED <<pops, approvals, gateVars, callVars>>
  BY DEF WorldStep, RevokeStep, Revoke
<1>2. Kept
  BY <1>1 DEF Kept
<1>3. Grows /\ revoked \subseteq revoked'
  <2>1. CASE Next /\ UNCHANGED <<revoked, callVars>>
    BY <2>1, CredStep DEF ChainOK, VInv
  <2>2. CASE RevokeStep
    BY <2>2, Still DEF ChainOK, RevokeStep, Revoke
  <2> QED BY <2>1, <2>2 DEF WorldStep
<1> QED BY <1>1, <1>2, <1>3, OthersLeave DEF MInv, MTypeOK

LEMMA ProveKeeps == ChainOK /\ MInv /\ ProveStep => MInv'
<1> SUFFICES ASSUME ChainOK, MInv, ProveStep PROVE MInv'
  OBVIOUS
<1>1. PICK k \in Key, c \in Named, req \in Request, nonce \in Nonce : Prove(k, c, req, nonce)
  BY DEF ProveStep
<1>2. Grows /\ Id' = Id /\ revoked \subseteq revoked' /\ UNCHANGED callVars
  BY <1>1, Still DEF ChainOK, Prove, vars
<1>3. Kept /\ UNCHANGED <<approvals, gateVars>>
  BY <1>1 DEF Prove, Kept
<1>4. pops \subseteq pops' /\ pops' \subseteq [sig : Key, cred : Named, req : Request, nonce : Nonce]
  BY <1>1 DEF Prove, MInv, MTypeOK
<1> QED BY <1>2, <1>3, <1>4, OthersLeave DEF MInv, MTypeOK

LEMMA ApproveKeeps == ChainOK /\ MInv /\ ApproveStep => MInv'
<1> SUFFICES ASSUME ChainOK, MInv, ApproveStep PROVE MInv'
  OBVIOUS
<1> DEFINE T == [sig : Key, cred : Named, req : Request, gate : Caveat]
<1>1. PICK k \in Key, c \in Named, req \in Request, gate \in Caveat :
         MakeApproval(k, c, req, gate)
  BY DEF ApproveStep, Gates
<1>2. Grows /\ Id' = Id /\ revoked \subseteq revoked' /\ UNCHANGED callVars
  BY <1>1, Still DEF ChainOK, MakeApproval, vars
<1>3. UNCHANGED <<pops, gateVars>>
  BY <1>1 DEF MakeApproval
<1>4. PICK m \in T : approvals' = Append(approvals, m)
  BY <1>1 DEF MakeApproval
<1>5. approvals \in Seq(T)
  BY DEF MInv, MTypeOK
<1>6. approvals' \in Seq(T) /\ Kept
  <2> HIDE DEF T
  <2> QED BY <1>4, <1>5 DEF Kept
<1> QED BY <1>2, <1>3, <1>6, OthersLeave DEF MInv, MTypeOK

\* A call begins: nothing is known of it, and nothing was done by it.
LEMMA CallKeeps == ChainOK /\ MInv /\ CallStep => MInv'
<1> SUFFICES ASSUME ChainOK, MInv, CallStep PROVE MInv'
  OBVIOUS
<1>1. PICK c \in Chains, t \in GivenAt \cup {Now}, depth \in GivenDepth, req \in Request,
           nonce \in Nonce, pop \in pops, presented \in SUBSET (DOMAIN approvals) :
         Call(c, t, depth, req, nonce, pop, presented)
  BY DEF CallStep
<1>2. /\ UNCHANGED <<credVars, revoked, pops, approvals, taken, acted, stage, todo>>
      /\ stage = "check_pop"
  BY <1>1 DEF Call, Begin, MInv, MTypeOK
<1>3. Grows /\ Id' = Id /\ Kept
  BY <1>2, Still DEF ChainOK, Kept
<1>4. args'.pop \in pops /\ args'.presented \subseteq DOMAIN approvals
  BY <1>1 DEF Call
<1>5. todo = {}
  BY <1>2 DEF MInv, MTypeOK
<1>6. MTypeOK'
  BY <1>2, <1>3, <1>4, <1>5 DEF MInv, MTypeOK
<1>7. Proved' /\ Agreed'
  BY <1>2 DEF Proved, Agreed
<1>8. (\A e \in acted : ActedWell(e)') /\ (\A e \in taken : TakenWell(e)')
  BY <1>3, HistoryKept
<1> QED BY <1>2, <1>6, <1>7, <1>8 DEF MInv

\* The walk goes on: the gate has not begun.
LEMMA WalkKeeps == ChainOK /\ MInv /\ WalkStep => MInv'
<1> SUFFICES ASSUME ChainOK, MInv, WalkStep PROVE MInv'
  OBVIOUS
<1>1. /\ UNCHANGED <<credVars, revoked, pops, approvals, taken, acted, args, stage, todo>>
      /\ stage = "check_pop" /\ pc # "idle"
  BY DEF WalkStep, VerifyStep, CheckLink, CheckWindow, gateVars, MInv, MTypeOK
<1>2. Grows /\ Id' = Id /\ Kept
  BY <1>1, Still DEF ChainOK, Kept
<1>3. MTypeOK'
  BY <1>1, <1>2 DEF MInv, MTypeOK
<1>4. Proved' /\ Agreed'
  BY <1>1 DEF Proved, Agreed
<1>5. (\A e \in acted : ActedWell(e)') /\ (\A e \in taken : TakenWell(e)')
  BY <1>2, HistoryKept
<1> QED BY <1>1, <1>3, <1>4, <1>5 DEF MInv

\* The caller has its answer: the call is forgotten, the histories stay.
LEMMA MReturnKeeps == ChainOK /\ MInv /\ MReturn => MInv'
<1> SUFFICES ASSUME ChainOK, MInv, MReturn PROVE MInv'
  OBVIOUS
<1>1. /\ UNCHANGED <<credVars, revoked, pops, approvals, taken, acted>>
      /\ stage' = "check_pop" /\ pc' = "idle" /\ todo' = {}
  BY DEF MReturn, Return
<1>2. Grows /\ Id' = Id /\ Kept
  BY <1>1, Still DEF ChainOK, Kept
<1>3. MTypeOK'
  BY <1>1, <1>2 DEF MInv, MTypeOK
<1>4. Proved' /\ Agreed'
  BY <1>1 DEF Proved, Agreed
<1>5. (\A e \in acted : ActedWell(e)') /\ (\A e \in taken : TakenWell(e)')
  BY <1>2, HistoryKept
<1> QED BY <1>1, <1>3, <1>4, <1>5 DEF MInv

-----------------------------------------------------------------------------
(* The steps of the gate.                                                  *)

\* What a step of the gate leaves as it is.
LEMMA GateLeaves ==
    ASSUME ChainOK, GateStep
    PROVE  /\ Grows /\ Id' = Id /\ Kept
           /\ UNCHANGED <<vars, links, revoked, pc, chain, effCav, pops, approvals, args>>
           /\ PopOK' = PopOK
           /\ \A q : Consenting(q)' = Consenting(q)
<1>1. UNCHANGED <<vars, pops, approvals, args>>
  BY DEF GateStep, Keep
<1>2. UNCHANGED <<credVars, links, revoked, pc, chain, effCav>>
  BY <1>1 DEF vars, credVars, callVars
<1>3. Grows /\ Id' = Id /\ Kept
  BY <1>1, <1>2, Still DEF ChainOK, Kept
<1>4. HolderOf(chain)' = HolderOf(chain)
  BY <1>2 DEF HolderOf
<1>5. PopOK' = PopOK
  BY <1>1, <1>2, <1>4 DEF PopOK, SignedBy, VerifySig, RawVerify, IsSmallOrder
<1>6. \A q : Consenting(q)' = Consenting(q)
  BY <1>1, <1>2 DEF Consenting, SignedBy, VerifySig, RawVerify, IsSmallOrder
<1> QED BY <1>1, <1>2, <1>3, <1>5, <1>6

\* A refusal, and the steps that only look.
LEMMA LookingKeeps ==
    ASSUME ChainOK, MInv, GateStep, pc = "accepted",
           UNCHANGED <<taken, consents, todo, acted>>,
           stage' \in {"consume_pop", "evaluate", "rejected"},
           stage' # "rejected" => PopOK
    PROVE  MInv'
<1>1. /\ Grows /\ Id' = Id /\ Kept /\ PopOK' = PopOK
      /\ UNCHANGED <<revoked, pc, pops, approvals, args>>
  BY GateLeaves
<1>2. MTypeOK'
  BY <1>1 DEF MInv, MTypeOK
<1>3. Proved' /\ Agreed'
  BY <1>1 DEF Proved, Agreed
<1>4. (\A e \in acted : ActedWell(e)') /\ (\A e \in taken : TakenWell(e)')
  BY <1>1, HistoryKept
<1> QED BY <1>2, <1>3, <1>4 DEF MInv

\* Consuming a nonce: it is taken under a valid credential, by its holder.
LEMMA TakenStays ==
    ASSUME ChainOK, MInv, GateStep, pc = "accepted", PopOK,
           NEW scope \in {"pop", "approval"}, NEW nonce, NEW by,
           scope = "pop" => by = args.pop.sig,
           Take(scope, nonce, by)
    PROVE  /\ \A e \in taken' : e.cred \in Seq(Id) /\ e.deny \subseteq revoked
           /\ \A e \in taken' : TakenWell(e)'
<1>1. Grows /\ Kept
  BY GateLeaves
<1>2. /\ chain \in Seq(Id) /\ Valid(chain, at, revoked0) /\ revoked0 \subseteq revoked
  BY AcceptedList DEF ChainOK, VInv, VTypeOK
<1>3. args.pop.sig = HolderOf(chain) /\ args.pop.sig \notin WeakKey
  BY DEF PopOK, SignedBy, VerifySig, RawVerify, IsSmallOrder
<1>4. ASSUME NEW e \in taken' PROVE e.cred \in Seq(Id) /\ e.deny \subseteq revoked /\ TakenWell(e)'
  <2>1. CASE e \in taken
    BY <1>1, <2>1, HistoryKept DEF MInv, MTypeOK
  <2>2. CASE e = [scope |-> scope, nonce |-> nonce, by |-> by,
                  cred |-> chain, at |-> at, deny |-> revoked0]
    <3>1. /\ e.scope = scope /\ e.by = by /\ e.cred = chain
          /\ e.at = at /\ e.deny = revoked0
      BY <2>2
    <3>2. e.cred \in Seq(Id) /\ Valid(e.cred, e.at, e.deny)
      BY <1>2, <3>1
    <3>3. Valid(e.cred, e.at, e.deny)' /\ HolderOf(e.cred)' = HolderOf(e.cred)
      BY <1>1, <3>2, ValidKept
    <3>4. e.scope = "pop" => e.by = HolderOf(e.cred) /\ e.by \notin WeakKey
      BY <1>3, <3>1
    <3> QED BY <1>2, <3>1, <3>2, <3>3, <3>4 DEF TakenWell
  <2> QED BY <2>1, <2>2 DEF Take
<1> QED BY <1>4

LEMMA ConsumePopKeeps ==
    ASSUME ChainOK, MInv, GateStep, ConsumePop
    PROVE  MInv'
<1>1. pc = "accepted" /\ PopOK
  BY DEF ConsumePop, At, MInv, Proved
<1>2. CASE Refuse
  BY <1>1, <1>2, LookingKeeps DEF Refuse, Goto
<1>3. CASE Take("pop", args.nonce, args.pop.sig) /\ Goto("evaluate") /\ UNCHANGED <<consents, todo, acted>>
  <2>1. /\ Grows /\ Id' = Id /\ Kept /\ PopOK' = PopOK
        /\ UNCHANGED <<revoked, pc, pops, approvals, args>>
    BY GateLeaves
  <2>2. /\ \A e \in taken' : e.cred \in Seq(Id) /\ e.deny \subseteq revoked
        /\ \A e \in taken' : TakenWell(e)'
    BY <1>1, <1>3, TakenStays
  <2>3. stage' = "evaluate" /\ UNCHANGED <<consents, todo, acted>>
    BY <1>3 DEF Goto
  <2>4. MTypeOK'
    BY <1>1, <2>1, <2>2, <2>3 DEF MInv, MTypeOK
  <2>5. Proved' /\ Agreed'
    BY <1>1, <2>1, <2>3 DEF Proved, Agreed
  <2>6. \A e \in acted : ActedWell(e)'
    BY <2>1, HistoryKept
  <2> QED BY <2>2, <2>3, <2>4, <2>5, <2>6 DEF MInv
<1> QED BY <1>2, <1>3 DEF ConsumePop

LEMMA CheckPopKeeps ==
    ASSUME ChainOK, MInv, GateStep, CheckPop
    PROVE  MInv'
<1>1. pc = "accepted" /\ UNCHANGED <<taken, consents, todo, acted>>
  BY DEF CheckPop, At, Refuse
<1>2. stage' \in {"consume_pop", "rejected"} /\ (stage' # "rejected" => PopOK)
  BY DEF CheckPop, Refuse, Goto
<1> QED BY <1>1, <1>2, LookingKeeps

\* evaluate leaves behind one consent per gate, each for that very gate.
LEMMA EvaluateKeeps ==
    ASSUME ChainOK, MInv, GateStep, Evaluate
    PROVE  MInv'
<1>1. pc = "accepted" /\ PopOK
  BY DEF Evaluate, At, MInv, Proved
<1>2. CASE Refuse
  BY <1>1, <1>2, LookingKeeps DEF Refuse, Goto
<1>3. CASE ~Refuse
  <2>1. /\ Grows /\ Id' = Id /\ Kept /\ PopOK' = PopOK
        /\ UNCHANGED <<revoked, pc, effCav, pops, approvals, args>>
        /\ \A q : Consenting(q)' = Consenting(q)
    BY GateLeaves
  <2>2. /\ Admitted /\ stage' = "consume_approvals"
        /\ consents' \in {f \in [Gates(effCav) -> args.presented] :
                              \A q \in Gates(effCav) : f[q] \in Consenting(q)}
        /\ todo' = {consents'[q] : q \in Gates(effCav)}
        /\ UNCHANGED <<taken, acted>>
    BY <1>3 DEF Evaluate, Goto
  <2>3. /\ DOMAIN consents' = Gates(effCav)
        /\ \A q \in Gates(effCav) : consents'[q] \in args.presented /\ consents'[q] \in Consenting(q)
    BY <2>2
  <2>4. MTypeOK'
    BY <1>1, <2>1, <2>2, <2>3 DEF MInv, MTypeOK
  <2>5. Proved'
    BY <1>1, <2>1 DEF Proved
  <2>6. ASSUME NEW q \in effCav PROVE Met(q)'
    BY <2>1, <2>2, <2>3 DEF Met, Admitted, Gates
  <2>7. Agreed'
    BY <2>1, <2>6 DEF Agreed
  <2>8. (\A e \in acted : ActedWell(e)') /\ (\A e \in taken : TakenWell(e)')
    BY <2>1, HistoryKept
  <2> QED BY <2>2, <2>4, <2>5, <2>7, <2>8 DEF MInv
<1> QED BY <1>2, <1>3

LEMMA ConsumeApprovalKeeps ==
    ASSUME ChainOK, MInv, GateStep, ConsumeApproval
    PROVE  MInv'
<1>1. pc = "accepted" /\ PopOK /\ stage = "consume_approvals"
  BY DEF ConsumeApproval, At, MInv, Proved
<1>2. CASE Refuse
  BY <1>1, <1>2, LookingKeeps DEF Refuse, Goto
<1>3. CASE ~Refuse
  <2>1. /\ Grows /\ Id' = Id /\ Kept /\ PopOK' = PopOK
        /\ UNCHANGED <<revoked, pc, effCav, pops, approvals, args>>
        /\ \A q : Consenting(q)' = Consenting(q)
    BY GateLeaves
  <2>2. PICK n \in todo : /\ Take("approval", n, approvals[n].sig)
                          /\ todo' = todo \ {n}
                          /\ UNCHANGED <<stage, consents, acted>>
    BY <1>3 DEF ConsumeApproval
  <2>3. /\ \A e \in taken' : e.cred \in Seq(Id) /\ e.deny \subseteq revoked
        /\ \A e \in taken' : TakenWell(e)'
    BY <1>1, <2>2, TakenStays
  <2>4. MTypeOK'
    BY <1>1, <2>1, <2>2, <2>3 DEF MInv, MTypeOK
  <2>5. Proved'
    BY <1>1, <2>1 DEF Proved
  <2>6. Agreed'
    BY <1>1, <2>1, <2>2 DEF Agreed, Met, MInv
  <2>7. \A e \in acted : ActedWell(e)'
    BY <2>1, HistoryKept
  <2> QED BY <2>2, <2>3, <2>4, <2>5, <2>6, <2>7 DEF MInv
<1> QED BY <1>2, <1>3

\* The action that is authorized is delegated: the proof verified, every caveat
\* of the Decision is met, and the Decision holds those of every hop.
LEMMA ActedStays ==
    ASSUME ChainOK, MInv, GateStep, Authorized
    PROVE  \A e \in acted' : e.cred \in Seq(Id) /\ e.deny \subseteq revoked /\ ActedWell(e)'
<1>1. pc = "accepted" /\ PopOK /\ \A q \in effCav : Met(q)
  BY DEF Authorized, At, MInv, Proved, Agreed
<1>2. Grows /\ Kept
  BY GateLeaves
<1>3. /\ chain \in Seq(Id) /\ Len(chain) \in 1..Len(chain) /\ Valid(chain, at, revoked0)
      /\ chain = lineage[chain[Len(chain)]] /\ revoked0 \subseteq revoked
  BY <1>1, AcceptedList DEF ChainOK, VInv, VTypeOK
<1>4. args.pop.sig = HolderOf(chain) /\ args.pop.sig \notin WeakKey
  BY <1>1 DEF PopOK, SignedBy, VerifySig, RawVerify, IsSmallOrder
<1>5. /\ \A k \in 1..Len(chain) : chain[k] \in Id
      /\ \A k \in 1..Len(chain) : \A q \in links[chain[k]].cav : q \in effCav
  <2>1. effCav = UNION {l.cav : l \in {links[chain[k]] : k \in 1..Len(chain)}}
    BY <1>1 DEF ChainOK, DecisionExact
  <2>2. \A k \in 1..Len(chain) : \A q \in links[chain[k]].cav : q \in effCav
    BY <2>1
  <2> QED BY <2>2 DEF ChainOK, VInv, VTypeOK
<1>6. ASSUME NEW e \in acted' PROVE e.cred \in Seq(Id) /\ e.deny \subseteq revoked /\ ActedWell(e)'
  <2>1. CASE e \in acted
    BY <1>2, <2>1, HistoryKept DEF MInv, MTypeOK
  <2>2. CASE e = [cred |-> chain, req |-> args.req, at |-> at, deny |-> revoked0,
                  by |-> args.pop.sig, consents |-> consents]
    <3>1. /\ e.cred = chain /\ e.req = args.req /\ e.at = at /\ e.deny = revoked0
          /\ e.by = args.pop.sig /\ e.consents = consents
      BY <2>2
    <3>2. /\ Valid(e.cred, e.at, e.deny)' /\ HolderOf(e.cred)' = HolderOf(e.cred)
      <4>1. e.cred \in Seq(Id) /\ Valid(e.cred, e.at, e.deny)
        BY <1>3, <3>1
      <4> QED BY <1>2, <4>1, ValidKept
    <3>3. /\ lineage'[e.cred[Len(e.cred)]] = e.cred
          /\ \A k \in 1..Len(e.cred) : links'[e.cred[k]] = links[e.cred[k]]
      BY <1>2, <1>3, <1>5, <3>1 DEF Grows
    <3>4. ASSUME NEW k \in 1..Len(e.cred), NEW q \in links'[e.cred[k]].cav
          PROVE  IF Approver[q] = NoKey THEN e.req \in Admits[q]
                 ELSE /\ q \in DOMAIN e.consents /\ e.consents[q] \in DOMAIN approvals'
                      /\ LET a == approvals'[e.consents[q]]
                         IN  a.sig = Approver[q] /\ a.gate = q /\ a.cred = e.cred /\ a.req = e.req
      <4>1. Met(q)
        BY <1>1, <1>5, <3>1, <3>3
      <4>2. CASE Approver[q] = NoKey
        BY <3>1, <4>1, <4>2 DEF Met
      <4>3. CASE Approver[q] # NoKey
        <5>1. q \in DOMAIN consents /\ consents[q] \in Consenting(q)
          BY <4>1, <4>3 DEF Met
        <5>2. consents[q] \in DOMAIN approvals
          BY <1>1, <5>1 DEF Consenting, MInv, MTypeOK
        <5>3. /\ approvals[consents[q]].sig = Approver[q] /\ approvals[consents[q]].gate = q
              /\ approvals[consents[q]].cred = chain /\ approvals[consents[q]].req = args.req
          BY <5>1 DEF Consenting, SignedBy, VerifySig, RawVerify, IsSmallOrder
        <5> QED BY <1>2, <3>1, <4>3, <5>1, <5>2, <5>3 DEF Kept
      <4> QED BY <4>2, <4>3
    <3> QED BY <1>3, <1>4, <3>1, <3>2, <3>3, <3>4 DEF ActedWell
  <2> QED BY <2>1, <2>2 DEF Authorized
<1> QED BY <1>6

LEMMA AuthorizedKeeps ==
    ASSUME ChainOK, MInv, GateStep, Authorized
    PROVE  MInv'
<1>1. pc = "accepted" /\ PopOK /\ stage = "consume_approvals"
  BY DEF Authorized, At, MInv, Proved
<1>2. /\ Grows /\ Id' = Id /\ Kept /\ PopOK' = PopOK
      /\ UNCHANGED <<revoked, pc, effCav, pops, approvals, args>>
      /\ \A q : Consenting(q)' = Consenting(q)
  BY GateLeaves
<1>3. stage' = "authorized" /\ UNCHANGED <<taken, consents, todo>>
  BY DEF Authorized, Goto
<1>4. /\ \A e \in acted' : e.cred \in Seq(Id) /\ e.deny \subseteq revoked
      /\ \A e \in acted' : ActedWell(e)'
  BY ActedStays
<1>5. MTypeOK'
  BY <1>1, <1>2, <1>3, <1>4 DEF MInv, MTypeOK
<1>6. Proved'
  BY <1>1, <1>2 DEF Proved
<1>7. Agreed'
  BY <1>1, <1>2, <1>3 DEF Agreed, Met, MInv
<1>8. \A e \in taken : TakenWell(e)'
  BY <1>2, HistoryKept
<1> QED BY <1>3, <1>4, <1>5, <1>6, <1>7, <1>8 DEF MInv

-----------------------------------------------------------------------------

LEMMA MStep == ChainOK /\ MInv /\ [MNext]_mvars => MInv'
<1> SUFFICES ASSUME ChainOK, MInv, [MNext]_mvars PROVE MInv'
  OBVIOUS
<1>1. CASE GateStep
  BY <1>1, CheckPopKeeps, ConsumePopKeeps, EvaluateKeeps, ConsumeApprovalKeeps, AuthorizedKeeps
     DEF GateStep
<1>2. CASE UNCHANGED mvars
  <2>1. UNCHANGED <<credVars, revoked, callVars, gateVars, pops, approvals>>
    BY <1>2 DEF mvars, vars
  <2>2. Grows /\ Id' = Id /\ Kept
    BY <2>1, Still DEF ChainOK, Kept
  <2> QED BY <2>1, <2>2, OthersLeave DEF MInv, MTypeOK
<1> QED BY <1>1, <1>2, WorldKeeps, ProveKeeps, ApproveKeeps, CallKeeps, WalkKeeps, MReturnKeeps DEF MNext

LEMMA MInvariant == MSpec => []MInv
<1> QED BY MInitInv, MStep, ChainInvariant, PTL DEF MSpec

\* The library's state is well typed: nonces and actions are of lists of links
\* that exist, the gate begins when the chain is accepted (verify.py:165-201).
THEOREM MTyping == MSpec => []MTypeOK
<1>1. MInv => MTypeOK
  BY DEF MInv
<1> QED BY <1>1, MInvariant, PTL

\* Every authorized action was delegated, for any chains, caveats, deny-list and
\* number of calls (authorize, verify.py:133-201, over verify_chain).
THEOREM Delegation == MSpec => []DelegatedAction
<1>1. MInv => DelegatedAction
  BY DEF MInv, ActedWell, DelegatedAction
<1> QED BY <1>1, MInvariant, PTL

\* Every nonce a store holds was taken under a credential that was valid, and a
\* proof's by its holder: those nobody delegated to use up none.
THEOREM DelegatedTaking == MSpec => []TakenByDelegates
<1>1. MInv => TakenByDelegates
  BY DEF MInv, TakenWell, TakenByDelegates
<1> QED BY <1>1, MInvariant, PTL
=============================================================================

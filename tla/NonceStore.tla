----------------------------- MODULE NonceStore -----------------------------
(***************************************************************************)
(* The class NonceStore of muhuri/pop.py under the threads of one resource *)
(* server, and under restarts of that server.                              *)
(*                                                                         *)
(* consume is a look-up in a set and, when nothing was found, an addition  *)
(* to it.  With a global interpreter lock (CPython, which since 3.10 gives *)
(* it up only at jumps back, at function entries and after calls) no other *)
(* thread runs between the two, and neither does one in a shared cache     *)
(* with check-and-set: Gil.  In a free-threaded build it does.  A restart  *)
(* may fall between them in every build.                                   *)
(*                                                                         *)
(* The challenges of a server are kept by the program around the library   *)
(* (README.md: nonce = store.issue(), later expected_nonce=nonce), in the  *)
(* memory of the process: after a restart no old challenge is expected any *)
(* more.  Approval nonces come from the approvers and are expected by      *)
(* nobody.                                                                 *)
(***************************************************************************)
EXTENDS Naturals, FiniteSets

CONSTANTS
    Thread,
    Challenge,      \* what os.urandom can return in issue()
    ApprovalNonce,  \* nonces of approvals; they may be the same bytes
    NoKey,
    Gil,            \* threads do not switch between the two set operations
    Durable,        \* the set outlives the process
    MaxRestarts     \* bound of the runs

Key == [scope : {"pop"}, nonce : Challenge] \cup [scope : {"approval"}, nonce : ApprovalNonce]

ASSUME ModeAssumption == Gil \in BOOLEAN /\ Durable \in BOOLEAN
ASSUME NoKeyAssumption == NoKey \notin Key
ASSUME BoundAssumption == MaxRestarts \in Nat

VARIABLES
    used,           \* NonceStore._used
    issued,         \* history: the challenges issue() has returned
    outstanding,    \* those this process still expects
    pc,             \* per thread: "idle", "lookup", "add", "true", "false"
    key,            \* per thread: scope and nonce of its consume
    granted,        \* history: how many times consume returned True for a key
    restarts        \* history: number of restarts

vars == <<used, issued, outstanding, pc, key, granted, restarts>>

Init ==
    /\ used = {} /\ issued = {} /\ outstanding = {}
    /\ pc = [p \in Thread |-> "idle"]
    /\ key = [p \in Thread |-> NoKey]
    /\ granted = [k \in Key |-> 0]
    /\ restarts = 0

\* No thread but p holds the interpreter in the middle of a consume.
MayRun(p) == Gil => \A t \in Thread \ {p} : pc[t] # "add"

\* issue: random bytes that were never issued before.
Issue(n) ==
    /\ \E p \in Thread : pc[p] = "idle" /\ MayRun(p)
    /\ n \notin issued
    /\ issued' = issued \cup {n}
    /\ outstanding' = outstanding \cup {n}
    /\ UNCHANGED <<used, pc, key, granted, restarts>>

\* authorize calls consume: for a challenge the server expects, or for the
\* nonce of an approval that someone presented.
Consume(p, k) ==
    /\ pc[p] = "idle" /\ MayRun(p)
    /\ k.scope = "pop" => k.nonce \in outstanding
    /\ pc' = [pc EXCEPT ![p] = "lookup"]
    /\ key' = [key EXCEPT ![p] = k]
    /\ UNCHANGED <<used, issued, outstanding, granted, restarts>>

Goto(p, l) == pc' = [pc EXCEPT ![p] = l]

SeenInAnyScope(k) == \E u \in used : u.nonce = k.nonce  \* faulty variant: no scope
Seen(k) == k \in used

RecordNothing(p) ==                                 \* faulty variant: nothing added
    /\ granted' = [granted EXCEPT ![key[p]] = @ + 1]
    /\ Goto(p, "true")
    /\ UNCHANGED used
Record(p) ==
    /\ used' = used \cup {key[p]}
    /\ granted' = [granted EXCEPT ![key[p]] = @ + 1]
    /\ Goto(p, "true")

\* if key in self._used: return False
LookUp(p) ==
    /\ pc[p] = "lookup" /\ MayRun(p)
    /\ Goto(p, IF Seen(key[p]) THEN "false" ELSE "add")
    /\ UNCHANGED <<used, issued, outstanding, key, granted, restarts>>

\* self._used.add(key); return True
Add(p) ==
    /\ pc[p] = "add"
    /\ Record(p)
    /\ UNCHANGED <<issued, outstanding, key, restarts>>

\* The caller has its answer.
Return(p) ==
    /\ pc[p] \in {"true", "false"} /\ MayRun(p)
    /\ Goto(p, "idle")
    /\ key' = [key EXCEPT ![p] = NoKey]
    /\ UNCHANGED <<used, issued, outstanding, granted, restarts>>

\* The server is restarted: its threads and challenges are gone, and so is the
\* set when it is the in-repo one.
KeepChallenges == UNCHANGED outstanding             \* faulty variant: they stay expected
DropChallenges == outstanding' = {}

Survivors == IF Durable THEN used ELSE {}

StopAnswering ==                                    \* faulty variant: a question survives
    pc' = [p \in Thread |-> "idle"] /\ UNCHANGED key
StopThreads ==
    pc' = [p \in Thread |-> "idle"] /\ key' = [p \in Thread |-> NoKey]

Restart ==
    /\ restarts < MaxRestarts
    /\ restarts' = restarts + 1
    /\ used' = Survivors
    /\ DropChallenges
    /\ StopThreads
    /\ UNCHANGED <<issued, granted>>

Step(p) == LookUp(p) \/ Add(p) \/ Return(p)

Next ==
    \/ \E n \in Challenge : Issue(n)
    \/ \E p \in Thread, k \in Key : Consume(p, k)
    \/ \E p \in Thread : Step(p)
    \/ Restart

Spec == Init /\ [][Next]_vars

-----------------------------------------------------------------------------

TypeOK ==
    /\ used \subseteq Key
    /\ issued \subseteq Challenge /\ outstanding \subseteq issued
    /\ pc \in [Thread -> {"idle", "lookup", "add", "true", "false"}]
    /\ key \in [Thread -> Key \cup {NoKey}]
    /\ \A p \in Thread : pc[p] = "idle" <=> key[p] = NoKey
    /\ granted \in [Key -> Nat]
    /\ restarts \in 0..MaxRestarts

\* pop.py:70, "True the first time a (scope, nonce) is seen": whatever threads
\* race and whenever the server restarts, consume says True once for a
\* challenge, although the in-repo set forgets, because a restarted server
\* expects none of its old challenges; and once for an approval nonce in the
\* life of a durable store, or between two restarts of the in-repo one.
SpentOnce ==
    \A k \in Key :
        granted[k] <= IF Durable \/ k.scope = "pop" THEN 1 ELSE restarts + 1

\* A nonce is not refused before it was accepted once: the same bytes in the
\* other scope, or a call cut short by a restart before it recorded anything,
\* never use it up.
RefusedWasSpent ==
    \A p \in Thread : pc[p] = "false" => granted[key[p]] >= 1

\* The store implements the ledger: each question is decided in one instant.
Ledger == INSTANCE SingleUse WITH
    Taker <- Thread, Token <- Key, NoToken <- NoKey,
    taken <- used, asks <- key,
    told <- [p \in Thread |-> CASE pc[p] = "true" -> "yes"
                                [] pc[p] = "false" -> "no"
                                [] OTHER -> "waiting"]
ImplementsLedger == Ledger!Spec
=============================================================================

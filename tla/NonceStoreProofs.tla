-------------------------- MODULE NonceStoreProofs --------------------------
(***************************************************************************)
(* For any threads, challenges and number of restarts: a store whose       *)
(* threads do not switch between look-up and addition is the single-use    *)
(* ledger, and spends a challenge once whether or not it survives a        *)
(* restart.                                                                *)
(***************************************************************************)
EXTENDS NonceStore, TLAPS

\* Type correctness of the store, for any number of threads and restarts
\* (pop.py:73-93).
THEOREM Typing == Spec => []TypeOK
<1>1. Init => TypeOK
  BY BoundAssumption DEF Init, TypeOK
<1>2. TypeOK /\ [Next]_vars => TypeOK'
  <2> SUFFICES ASSUME TypeOK, [Next]_vars PROVE TypeOK'
    OBVIOUS
  <2>1. ASSUME NEW n \in Challenge, Issue(n) PROVE TypeOK'
    BY <2>1 DEF Issue, TypeOK
  <2>2. ASSUME NEW p \in Thread, NEW k \in Key, Consume(p, k) PROVE TypeOK'
    BY <2>2, NoKeyAssumption DEF Consume, TypeOK
  <2>3. ASSUME NEW p \in Thread, LookUp(p) PROVE TypeOK'
    BY <2>3, NoKeyAssumption DEF LookUp, Goto, TypeOK
  <2>4. ASSUME NEW p \in Thread, Add(p) PROVE TypeOK'
    <3>1. key[p] \in Key
      BY <2>4 DEF Add, TypeOK
    <3> QED BY <2>4, <3>1 DEF Add, Record, Goto, TypeOK
  <2>5. ASSUME NEW p \in Thread, Return(p) PROVE TypeOK'
    BY <2>5, NoKeyAssumption DEF Return, Goto, TypeOK
  <2>6. CASE Restart
    BY <2>6, BoundAssumption DEF Restart, Survivors, DropChallenges, StopThreads, TypeOK
  <2>7. CASE UNCHANGED vars
    BY <2>7 DEF vars, TypeOK
  <2> QED BY <2>1, <2>2, <2>3, <2>4, <2>5, <2>6, <2>7 DEF Next, Step
<1> QED BY <1>1, <1>2, PTL DEF Spec
-----------------------------------------------------------------------------

\* At most one thread is between the two set operations, and what it found to
\* be new still is.
OneAdder ==
    /\ \A p, t \in Thread : pc[p] = "add" /\ pc[t] = "add" => p = t
    /\ \A p \in Thread : pc[p] = "add" => key[p] \notin used

\* Whoever asks for a challenge asks for one that is still expected.
AsksExpected ==
    \A p \in Thread :
        pc[p] \in {"lookup", "add"} /\ key[p].scope = "pop" => key[p].nonce \in outstanding

\* What was granted and may be asked for again is in the set; what a restart
\* lost was granted at most once in each term that is over.
GrantedKnown ==
    \A k \in Key : /\ k \in used => granted[k] >= 1
                   /\ granted[k] >= 1 /\ k.scope = "pop" => k.nonce \in issued
                   /\ k.scope = "pop" /\ granted[k] >= 1 =>
                        k \in used \/ k.nonce \notin outstanding
                   /\ Durable /\ granted[k] >= 1 => k \in used
                   /\ k \notin used => granted[k] <= restarts

\* With type correctness, inductive where threads do not switch.
Inv == TypeOK /\ OneAdder /\ AsksExpected /\ GrantedKnown /\ SpentOnce /\ RefusedWasSpent

LEMMA InvInit == Init => Inv
BY BoundAssumption DEF Init, Inv, TypeOK, OneAdder, AsksExpected, GrantedKnown, SpentOnce,
                       RefusedWasSpent, Key

LEMMA InvNext ==
    ASSUME Gil, Inv, TypeOK', [Next]_vars
    PROVE  Inv'
<1> USE DEF Inv
<1>1. ASSUME NEW n \in Challenge, Issue(n) PROVE Inv'
  <2>1. OneAdder' /\ AsksExpected' /\ SpentOnce' /\ RefusedWasSpent'
    BY <1>1 DEF Issue, OneAdder, AsksExpected, SpentOnce, RefusedWasSpent
  <2>2. GrantedKnown'
    BY <1>1 DEF Issue, GrantedKnown
  <2> QED BY <2>1, <2>2
<1>2. ASSUME NEW p \in Thread, NEW k \in Key, Consume(p, k) PROVE Inv'
  <2>1. OneAdder' /\ AsksExpected'
    BY <1>2 DEF Consume, OneAdder, AsksExpected, TypeOK
  <2>2. GrantedKnown' /\ SpentOnce'
    BY <1>2 DEF Consume, GrantedKnown, SpentOnce
  <2>3. RefusedWasSpent'
    BY <1>2 DEF Consume, RefusedWasSpent, TypeOK
  <2> QED BY <2>1, <2>2, <2>3
<1>3. ASSUME NEW p \in Thread, LookUp(p) PROVE Inv'
  <2>1. /\ pc[p] = "lookup" /\ key[p] \in Key
        /\ UNCHANGED <<used, issued, outstanding, key, granted, restarts>>
        /\ \A t \in Thread \ {p} : pc[t] # "add"
    BY <1>3 DEF LookUp, MayRun, TypeOK
  <2>2. pc' = [pc EXCEPT ![p] = IF key[p] \in used THEN "false" ELSE "add"]
    BY <1>3 DEF LookUp, Goto, Seen
  <2>3. OneAdder' /\ AsksExpected'
    BY <2>1, <2>2 DEF OneAdder, AsksExpected, TypeOK
  <2>4. GrantedKnown' /\ SpentOnce'
    BY <2>1 DEF GrantedKnown, SpentOnce
  <2>5. RefusedWasSpent'
    BY <2>1, <2>2 DEF GrantedKnown, RefusedWasSpent, TypeOK
  <2> QED BY <2>3, <2>4, <2>5
<1>7. ASSUME NEW p \in Thread, Add(p) PROVE Inv'
  <2>1. /\ pc[p] = "add" /\ key[p] \in Key
        /\ UNCHANGED <<issued, outstanding, key, restarts>>
    BY <1>7 DEF Add, TypeOK
  <2>2. key[p] \notin used
    BY <2>1 DEF OneAdder
  <2>3. /\ used' = used \cup {key[p]}
        /\ granted' = [granted EXCEPT ![key[p]] = @ + 1]
        /\ pc' = [pc EXCEPT ![p] = "true"]
    BY <1>7 DEF Add, Record, Goto
  <2>4. granted \in [Key -> Nat] /\ restarts \in Nat
    BY BoundAssumption DEF TypeOK
  <2>5. \A t \in Thread : pc'[t] # "add"
    BY <2>1, <2>3 DEF OneAdder, TypeOK
  <2>6. OneAdder' /\ AsksExpected'
    BY <2>1, <2>3, <2>5 DEF OneAdder, AsksExpected, TypeOK
  <2>7. key[p].scope = "pop" => key[p].nonce \in outstanding
    BY <2>1 DEF AsksExpected
  <2>8. ASSUME NEW k \in Key, k # key[p] PROVE granted'[k] = granted[k] /\ (k \in used' <=> k \in used)
    BY <2>3, <2>4, <2>8
  <2>9. granted'[key[p]] = granted[key[p]] + 1 /\ key[p] \in used'
    BY <2>1, <2>3, <2>4
  <2>10. granted[key[p]] <= restarts
    BY <2>1, <2>2 DEF GrantedKnown
  <2>11. (Durable \/ key[p].scope = "pop") => granted[key[p]] = 0
    BY <2>1, <2>2, <2>4, <2>7 DEF GrantedKnown
  <2>12. GrantedKnown'
    <3>1. ASSUME NEW k \in Key, k = key[p], k.scope = "pop" PROVE k.nonce \in issued
      BY <2>7, <3>1 DEF TypeOK
    <3> QED BY <2>1, <2>4, <2>8, <2>9, <3>1 DEF GrantedKnown
  <2>13. SpentOnce'
    BY <2>1, <2>4, <2>8, <2>9, <2>10, <2>11 DEF SpentOnce
  <2>14. RefusedWasSpent'
    BY <2>1, <2>3, <2>4, <2>8, <2>9 DEF RefusedWasSpent, TypeOK
  <2> QED BY <2>6, <2>12, <2>13, <2>14
<1>4. ASSUME NEW p \in Thread, Return(p) PROVE Inv'
  <2>1. OneAdder' /\ AsksExpected' /\ RefusedWasSpent'
    BY <1>4 DEF Return, Goto, OneAdder, AsksExpected, RefusedWasSpent, TypeOK
  <2>2. GrantedKnown' /\ SpentOnce'
    BY <1>4 DEF Return, GrantedKnown, SpentOnce
  <2> QED BY <2>1, <2>2
<1>5. CASE Restart
  <2>1. granted \in [Key -> Nat] /\ restarts \in Nat
    BY BoundAssumption DEF TypeOK
  <2>2. OneAdder' /\ AsksExpected' /\ RefusedWasSpent'
    BY <1>5 DEF Restart, StopThreads, OneAdder, AsksExpected, RefusedWasSpent
  <2>3. /\ used' = IF Durable THEN used ELSE {}
        /\ restarts' = restarts + 1 /\ outstanding' = {} /\ UNCHANGED <<issued, granted>>
    BY <1>5 DEF Restart, Survivors, DropChallenges
  <2>4. \A k \in Key : granted[k] <= restarts + 1
    BY <2>1 DEF GrantedKnown, SpentOnce
  <2>5. GrantedKnown'
    BY <2>1, <2>3, <2>4 DEF GrantedKnown
  <2>6. SpentOnce'
    BY <2>1, <2>3 DEF SpentOnce
  <2> QED BY <2>2, <2>5, <2>6
<1>6. CASE UNCHANGED vars
  BY <1>6 DEF vars, OneAdder, AsksExpected, GrantedKnown, SpentOnce, RefusedWasSpent
<1> QED BY <1>1, <1>2, <1>3, <1>4, <1>5, <1>6, <1>7 DEF Next, Step

THEOREM Invariance == ASSUME Gil PROVE Spec => []Inv
<1>1. Spec => []TypeOK
  BY Typing
<1>2. Inv /\ TypeOK' /\ [Next]_vars => Inv'
  BY InvNext
<1> QED BY <1>1, <1>2, InvInit, PTL DEF Spec

\* pop.py:70, "True the first time a (scope, nonce) is seen": where nobody runs
\* between the look-up and the addition, consume says True once for a challenge
\* although the set is lost in restarts, once for an approval nonce in the life
\* of a durable store, and once per term of the in-repo one.
THEOREM SpendingOnce == ASSUME Gil PROVE Spec => []SpentOnce
<1>1. Inv => SpentOnce
  BY DEF Inv
<1> QED BY <1>1, Invariance, PTL

\* pop.py:90-91: consume refuses a nonce only after it accepted it once.
THEOREM RefusingSpent == ASSUME Gil PROVE Spec => []RefusedWasSpent
<1>1. Inv => RefusedWasSpent
  BY DEF Inv
<1> QED BY <1>1, Invariance, PTL
-----------------------------------------------------------------------------

Told == [p \in Thread |-> CASE pc[p] = "true" -> "yes"
                            [] pc[p] = "false" -> "no"
                            [] OTHER -> "waiting"]

\* pop.py:75-77, "the contract is the same": every step of the class is a step
\* of the single-use ledger, or none.
THEOREM Implementation == ASSUME Gil PROVE Spec => ImplementsLedger
<1> DEFINE abstract == <<used, key, Told>>
<1>1. Init => Ledger!Init
  BY DEF Init, Ledger!Init
<1>2. Inv /\ [Next]_vars => [Ledger!Next]_(Ledger!vars)
  <2> SUFFICES ASSUME Inv, [Next]_vars PROVE Ledger!Next \/ UNCHANGED abstract
    BY DEF Ledger!vars, Told
  <2> USE DEF Inv
  <2>1. ASSUME NEW n \in Challenge, Issue(n) PROVE UNCHANGED abstract
    BY <2>1 DEF Issue, Told
  <2>2. ASSUME NEW p \in Thread, NEW k \in Key, Consume(p, k) PROVE Ledger!Next
    <3>1. key[p] = NoKey
      BY <2>2 DEF Consume, TypeOK
    <3>2. Told' = Told
      BY <2>2 DEF Consume, Told, TypeOK
    <3>3. Ledger!Ask(p, k)
      BY <2>2, <3>1, <3>2 DEF Consume, Ledger!Ask, Told
    <3> QED BY <3>3 DEF Ledger!Next
  <2>3. ASSUME NEW p \in Thread, LookUp(p) PROVE Ledger!Next \/ UNCHANGED abstract
    <3>1. /\ pc[p] = "lookup" /\ key[p] # NoKey /\ UNCHANGED <<used, key>>
          /\ pc' = [pc EXCEPT ![p] = IF key[p] \in used THEN "false" ELSE "add"]
      BY <2>3 DEF LookUp, Goto, Seen, TypeOK
    <3>2. CASE key[p] \in used
      <4>1. Told[p] = "waiting" /\ Told' = [Told EXCEPT ![p] = "no"]
        BY <3>1, <3>2 DEF Told, TypeOK
      <4>2. Ledger!Decide(p)
        BY <3>1, <3>2, <4>1 DEF Ledger!Decide, Told
      <4> QED BY <4>2 DEF Ledger!Next
    <3>3. CASE key[p] \notin used
      <4>1. Told' = Told
        BY <3>1, <3>3 DEF Told, TypeOK
      <4> QED BY <3>1, <4>1
    <3> QED BY <3>2, <3>3
  <2>7. ASSUME NEW p \in Thread, Add(p) PROVE Ledger!Next
    <3>1. /\ pc[p] = "add" /\ key[p] # NoKey /\ key[p] \notin used
          /\ used' = used \cup {key[p]} /\ key' = key
          /\ pc' = [pc EXCEPT ![p] = "true"]
      BY <2>7 DEF Add, Record, Goto, OneAdder, TypeOK
    <3>2. Told[p] = "waiting" /\ Told' = [Told EXCEPT ![p] = "yes"]
      BY <3>1 DEF Told, TypeOK
    <3>3. Ledger!Decide(p)
      BY <3>1, <3>2 DEF Ledger!Decide, Told
    <3> QED BY <3>3 DEF Ledger!Next
  <2>4. ASSUME NEW p \in Thread, Return(p) PROVE Ledger!Next
    <3>1. Told[p] # "waiting"
      BY <2>4 DEF Return, Told
    <3>2. Told' = [Told EXCEPT ![p] = "waiting"]
      BY <2>4 DEF Return, Goto, Told, TypeOK
    <3>3. Ledger!Return(p)
      BY <2>4, <3>1, <3>2 DEF Return, Ledger!Return, Told
    <3> QED BY <3>3 DEF Ledger!Next
  <2>5. CASE Restart
    <3>1. Told' = [p \in Thread |-> "waiting"]
      BY <2>5 DEF Restart, StopThreads, Told
    <3>2. Ledger!Restart
      BY <2>5, <3>1 DEF Restart, StopThreads, Survivors, Ledger!Restart, Told
    <3> QED BY <3>2 DEF Ledger!Next
  <2>6. CASE UNCHANGED vars
    BY <2>6 DEF vars, Told
  <2> QED BY <2>1, <2>2, <2>3, <2>4, <2>5, <2>6, <2>7 DEF Next, Step
<1>3. Spec => []Inv
  BY Invariance
<1> QED BY <1>1, <1>2, <1>3, PTL DEF Spec, ImplementsLedger, Ledger!Spec
=============================================================================

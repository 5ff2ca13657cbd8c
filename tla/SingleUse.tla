----------------------------- MODULE SingleUse -----------------------------
(***************************************************************************)
(* What the class NonceStore of muhuri/pop.py asks of any store behind it, *)
(* "the contract is the same": a ledger that gives every token away once.  *)
(* Takers ask at the same time; each question is decided in one instant.   *)
(* A term of the ledger ends when the process that serves it restarts: the *)
(* questions under way are never answered, and what was given away is      *)
(* still known only if the ledger is kept outside the process.             *)
(***************************************************************************)
CONSTANTS Taker, Token, NoToken,
          Durable   \* the ledger survives a restart

VARIABLES
    taken,          \* the tokens the ledger knows to be given away
    asks,           \* per taker: the token it asks for, or NoToken
    told            \* per taker: "waiting", "yes" or "no"

vars == <<taken, asks, told>>

Init ==
    /\ taken = {}
    /\ asks = [p \in Taker |-> NoToken]
    /\ told = [p \in Taker |-> "waiting"]

Ask(p, t) ==
    /\ asks[p] = NoToken
    /\ asks' = [asks EXCEPT ![p] = t]
    /\ UNCHANGED <<taken, told>>

\* The token is given to whoever is decided first, and to nobody else.
Decide(p) ==
    /\ asks[p] # NoToken /\ told[p] = "waiting"
    /\ told' = [told EXCEPT ![p] = IF asks[p] \in taken THEN "no" ELSE "yes"]
    /\ taken' = taken \cup {asks[p]}
    /\ UNCHANGED asks

Return(p) ==
    /\ told[p] # "waiting"
    /\ asks' = [asks EXCEPT ![p] = NoToken]
    /\ told' = [told EXCEPT ![p] = "waiting"]
    /\ UNCHANGED taken

Restart ==
    /\ taken' = IF Durable THEN taken ELSE {}
    /\ asks' = [p \in Taker |-> NoToken]
    /\ told' = [p \in Taker |-> "waiting"]

Next ==
    \/ \E p \in Taker : Decide(p) \/ Return(p) \/ \E t \in Token : Ask(p, t)
    \/ Restart

Spec == Init /\ [][Next]_vars
=============================================================================

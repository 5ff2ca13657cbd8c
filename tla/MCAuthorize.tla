---------------------------- MODULE MCAuthorize ----------------------------
(* Model values, servers and credentials for the runs of Authorize. *)
EXTENDS Authorize, TLC

CONSTANTS c1, c2, A, B, t1, t2, r1, r2, h, w, k1, k2, g1, g2

\* The chain of a credential, as verify_chain reports it.
Says(holder, nbf, exp, allow, gates) ==
    [holder |-> holder, nbf |-> nbf, exp |-> exp, allow |-> allow, gates |-> gates]
By(approver, label) == [approver |-> approver, label |-> label]

OneStore == [s \in Server |-> "store"]
OneOptsOut == (A :> "store" @@ B :> "none")
OneIsWrong == (A :> "store" @@ B :> "other")
OneAudience == [s \in Server |-> A]
OwnAudience == [s \in Server |-> s]

\* Gates that differ in label only or not at all, and a gate of a degenerate
\* approver.
Delegations ==
    t1 :> Says(h, 0, 9, Request, <<By(k1, g1), By(k1, g2), By(k1, g1)>>)
        @@ t2 :> Says(h, 0, 9, Request, <<By(w, g1)>>)

\* Three gates, of which two are identical.
TwinGates == [c \in Cred |-> Says(h, 0, 9, Request,
                <<By(k1, g1), By(k1, g1), By(k1, g2)>>)]

\* A gate, in a chain that opens late and closes early.
Brief == [c \in Cred |-> Says(h, 1, 3, {r1}, <<By(k1, g1)>>)]

Calls == Permutations(Call)
=============================================================================

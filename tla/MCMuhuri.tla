----------------------------- MODULE MCMuhuri -----------------------------
(* Model values, what the caveats of the run of Muhuri demand, and lists. *)
EXTENDS Muhuri, TLC

CONSTANTS r, b, w, q, g, act

\* q forbids everything, g lets r be asked.
PlainAdmits == (q :> {} @@ g :> Request)
GateAsks == (q :> NoKey @@ g :> r)

\* A credential, and one attenuated from it (or a second root behind it).
Lists == {<<1>>, <<1, 2>>}
=============================================================================

--------------------------- MODULE MCVerifyChain ---------------------------
(* Model values and the links of other software for the runs of VerifyChain. *)
EXTENDS VerifyChain

CONSTANTS r, a, w, q

Made(v, dgr, dge, cav, nbf, exp, signed) ==
    [v |-> v, dgr |-> dgr, dge |-> dge, cav |-> cav,
     nbf |-> nbf, exp |-> exp, signed |-> signed]

\* Every link between two sound keys, signed or not; links from and to the
\* degenerate key; a link of another format version.
AnyHand ==
    {Made(1, d, e, {}, 0, 9, s) : d \in {r, a}, e \in {r, a}, s \in BOOLEAN}
    \cup {Made(1, r, w, {}, 0, 9, TRUE), Made(1, w, a, {}, 0, 9, FALSE),
          Made(2, r, a, {}, 0, 9, TRUE)}

\* Windows that open before time began, that are inverted, or that are one
\* second wide; a version the verifier does not know.
OddWindows ==
    {Made(1, r, r, {q}, -1, 9, TRUE), Made(1, r, r, {}, 2, 1, TRUE),
     Made(1, r, r, {}, 1, 2, TRUE), Made(2, r, r, {}, 0, 9, TRUE)}

OutOfRange == {-1, 9}
=============================================================================

---------------------------- MODULE MCNonceStore ----------------------------
(* Model values for the runs of NonceStore. *)
EXTENDS NonceStore

CONSTANTS th1, th2, n1, n2
=============================================================================

------------------------------- MODULE MCKeys -------------------------------
(* The curve of the run has 56 = 8 * 7 points over the field of 61, which  *)
(* is 2^Bits - 3, so that some numbers are no canonical y, as in the code. *)
EXTENDS Keys
=============================================================================

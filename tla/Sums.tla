-------------------------------- MODULE Sums --------------------------------
(* Sums over finite sets. *)
EXTENDS FiniteSetsExt

(* The sum of w[x] over the elements x of S. *)
SumOver(w, S) == MapThenSumSet(LAMBDA x : w[x], S)
=============================================================================

------------------------------ MODULE MCSessions ------------------------------
EXTENDS Sessions, TLC

(* Commands are alike.                                                     *)
Symmetry == Permutations(Proc)
=============================================================================

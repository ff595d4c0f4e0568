------------------------------ MODULE MCRelease ------------------------------
EXTENDS Release, TLC

(* Imports of the instance: one content in one role.                       *)
CONSTANTS lexicon, horse
OneImport == {<<lexicon, horse>>}

(* Commands are alike.                                                     *)
Symmetry == Permutations(Proc)
=============================================================================

------------------------------ MODULE MCSkills ------------------------------
EXTENDS Skills, TLC

(* Bundle a in two versions over one node, b, which requires a, and c.     *)
CONSTANTS a1, a2, b1, c1, n1, n2
MCName == (a1 :> "a") @@ (a2 :> "a") @@ (b1 :> "b") @@ (c1 :> "c")
MCRequires == (a1 :> {}) @@ (a2 :> {}) @@ (b1 :> {"a"}) @@ (c1 :> {})
MCContent == (a1 :> {n1}) @@ (a2 :> {n1}) @@ (b1 :> {n2}) @@ (c1 :> {})
MCRoleOf == (n1 :> "concepts") @@ (n2 :> "concepts")
MCRank == (a1 :> 1) @@ (a2 :> 2) @@ (b1 :> 3) @@ (c1 :> 4)

(* Commands are alike.                                                     *)
Symmetry == Permutations(Shell)
=============================================================================

-------------------------- MODULE MCMetagraphModel --------------------------
(* Two graphs, two nodes, one edge id of each kind, one instance and one    *)
(* composite.                                                               *)
EXTENDS MetagraphModel, TLC

CONSTANTS g1, g2, a, b, e1, m1, i1, x1, t1, c1

MCHome == (a :> g1) @@ (b :> g2)
Symmetry == {(g1 :> g2) @@ (g2 :> g1) @@ (a :> b) @@ (b :> a)}
=============================================================================

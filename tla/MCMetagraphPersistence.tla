------------------------ MODULE MCMetagraphPersistence ------------------------
EXTENDS MetagraphPersistence, TLC

(* One metaedge, between the two graphs.                                   *)
MCEnds == [e \in MetaEdge |-> Graph]

(* Graphs are alike, and so are XRefs.                                     *)
Symmetry == Permutations(Graph) \cup Permutations(XRef)
=============================================================================

------------------------- MODULE MCRequestExecution -------------------------
EXTENDS RequestExecution

M(kind, reads, writes, shared, member, sub) ==
  [kind |-> kind, reads |-> reads, writes |-> writes, many |-> FALSE,
   shared |-> shared, member |-> member, sub |-> sub]
Leaf1(reads, writes) == M("leaf", reads, writes, {}, "none", <<>>)
Map(reads, out, shared) == M("map", reads, <<out>>, shared, "none", <<>>)
Nest(reads, out, member, sub) == M("map", reads, <<out>>, {}, member, sub)
Fold1(reads, out) == M("fold", reads, <<out>>, {}, "none", <<>>)
Note == M("notional", "none", <<>>, {}, "none", <<>>)

MCDataState == {"task", "context", "grids", "facts", "rule", "draft", "answer",
                "grid", "object facts", "grid fact"}

(* A chain of all kinds; the leaves have two steps.                        *)
Chain == <<[Leaf1("task", <<"context", "grids">>) EXCEPT !.many = TRUE],
           Map("grids", "facts", {"context"}),
           Fold1("facts", "rule"), Leaf1("rule", <<"draft", "answer">>)>>
(* A map in a map, each with its fold.                                     *)
Nested == <<Nest("task", "facts", "grid",
                 <<Map("grid", "object facts", {}), Fold1("object facts", "grid fact")>>),
            Fold1("facts", "rule")>>
(* A map over what a map with a sub_plan has made.                         *)
Twice == <<Nest("task", "grids", "grid", <<Leaf1("grid", <<"grid fact">>)>>), Note,
           Map("grids", "facts", {}), Fold1("facts", "rule")>>
(* A sub_plan that ends with a map.                                        *)
Open == <<Nest("task", "facts", "grid", <<Map("grid", "object facts", {})>>),
          Fold1("facts", "rule")>>
(* A sub_plan over what a map has made.                                    *)
Deep == <<[Leaf1("task", <<"grids">>) EXCEPT !.many = TRUE], Map("grids", "facts", {}),
          Nest("facts", "rule", "grid", <<Leaf1("grid", <<"grid fact">>)>>)>>
(* A sub_plan that outlives a map that stopped.                            *)
Beside == <<Nest("task", "facts", "grid",
                 <<Map("grid", "object facts", {}), Leaf1("grid", <<"grid fact">>)>>)>>
MCPlans == {Chain, Nested, Twice, Open, Deep, Beside}
Entries(p) == {p[k] : k \in DOMAIN p}
MCMilestones == LET top == UNION {Entries(p) : p \in MCPlans}
                IN top \cup UNION {Entries(m.sub) : m \in top}
=============================================================================

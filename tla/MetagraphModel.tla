--------------------------- MODULE MetagraphModel ---------------------------
(***************************************************************************)
(* The in-memory Metagraph (mindsos_core/models/metagraph.py, graph.py,    *)
(* identity.py), the ElementRegistry of mindsos_instances attached to it,  *)
(* the snapshot it is rolled back from (metagraph_snapshot.py) and the     *)
(* fork that MentalModel.deep_copy makes of it (mindsos_intelligence/      *)
(* mm.py).  One thread uses a metagraph at a time, so an operation is one  *)
(* step; a call that raises changes nothing and is no step.                *)
(*                                                                         *)
(* A metagraph is a record; every operation is a function from records to  *)
(* records.  A graph id is a pair of the graph and of the side that minted *)
(* the id, because regenerate_ids gives the graphs of a fork new ids while *)
(* the ids of everything else stay.                                        *)
(***************************************************************************)
EXTENDS Naturals, FiniteSets, Functions

CONSTANTS Graph,      \* graphs
          Node,       \* node ids
          Edge,       \* ids of edges and hyperedges inside one graph
          Meta,       \* ids of metaedges and metahyperedges, between graphs
          Inter,      \* ids of intergraph edges and hyperedges
          XRef,       \* ids of cross-metagraph references
          Instance,   \* ids of element instances
          Composite,  \* ids of composite instances
          Home,       \* the graph each node is in at first
          MaxOps      \* operations in a behaviour, captures apart
ASSUME HomeAssumption == Home \in [Node -> Graph]
ASSUME MaxOpsAssumption == MaxOps \in Nat

Sides == {"origin", "fork"}
GraphId == Graph \X Sides
Inst == Instance \cup Composite
CoreId == GraphId \cup Node \cup Edge \cup Meta \cup Inter \cup XRef
(* An id is one element's: ids are minted afresh, and the identity registry *)
(* refuses one that is in use.                                             *)
ASSUME KindsAssumption ==
  /\ GraphId \cap (Node \cup Edge \cup Meta \cup Inter \cup XRef) = {}
  /\ Node \cap (Edge \cup Meta \cup Inter \cup XRef) = {}
  /\ Edge \cap (Meta \cup Inter \cup XRef) = {}
  /\ Meta \cap (Inter \cup XRef) = {}
  /\ Inter \cap XRef = {}
  /\ CoreId \cap Inst = {}

VARIABLES mg,        \* side -> metagraph; "fork" is there once forked
          snap,      \* the captured snapshots, at most one
          restored,  \* the origin has been rolled back
          ops        \* operations so far, captures apart
vars == <<mg, snap, restored, ops>>

Without(f, X) == Restrict(f, DOMAIN f \ X)
With(f, x, v) == [y \in DOMAIN f \cup {x} |-> IF y = x THEN v ELSE f[y]]
Empty == [x \in {} |-> {}]

NodesOf(m, g) == {n \in DOMAIN m.place : m.place[n] = g}
EdgesOf(m, g) == {e \in DOMAIN m.edges : m.edges[e].at = g}
Contents(m, g) == NodesOf(m, g) \cup EdgesOf(m, g)

LiveCore(m) == m.graphs \cup DOMAIN m.place \cup DOMAIN m.edges
                 \cup DOMAIN m.metas \cup DOMAIN m.inters \cup DOMAIN m.xrefs

(* The two observers add_graph leaves on a graph of side s: the guard of   *)
(* its metagraph, a closure over the graph id of that moment, and the      *)
(* subscription of its registry.                                           *)
Watchers(s, g) == {[kind |-> "guard", owner |-> s, gid |-> g],
                   [kind |-> "registry", owner |-> s, gid |-> g]}

(* A metagraph with its graphs added and nothing else.                     *)
Fresh ==
  LET gs == Graph \X {"origin"} IN
  [graphs |-> gs, place |-> [n \in Node |-> <<Home[n], "origin">>], refprop |-> Empty,
   edges |-> Empty, metas |-> Empty, inters |-> Empty, xrefs |-> Empty, insts |-> Empty,
   bySource |-> {}, byTarget |-> {}, ids |-> gs \cup Node, schema |-> FALSE,
   watch |-> [g \in gs |-> Watchers("origin", g)]]

Init == /\ mg = [s \in {"origin"} |-> Fresh]
        /\ snap = {}
        /\ restored = FALSE
        /\ ops = 0

Step(s, m) == /\ mg' = [mg EXCEPT ![s] = m]
              /\ UNCHANGED <<snap, restored>>

-----------------------------------------------------------------------------
(* What goes in.                                                           *)

(* A graph built on its own, with nodes and an identity registry of its    *)
(* own, joins: an id both registries hold refuses it.                      *)
AddGraph(s, g, ns) ==
  LET m == mg[s] IN
  /\ ({g} \cup ns) \cap m.ids = {}
  /\ Step(s, [m EXCEPT !.graphs = @ \cup {g}, !.ids = @ \cup {g} \cup ns,
                       !.place = [n \in DOMAIN @ \cup ns |-> IF n \in ns THEN g ELSE @[n]],
                       !.watch = With(@, g, Watchers(s, g))])

AddNode(s, g, n) ==
  LET m == mg[s] IN
  /\ g \in m.graphs
  /\ n \notin m.ids
  /\ Step(s, [m EXCEPT !.place = With(@, n, g), !.ids = @ \cup {n}])

(* update_node_properties with a "ref:" property naming element x.         *)
SetRefProperty(s, n, x) ==
  LET m == mg[s] IN
  /\ n \in DOMAIN m.place
  /\ Step(s, [m EXCEPT !.refprop = With(@, n, x)])

AddEdge(s, g, e, src, dst) ==
  LET m == mg[s] IN
  /\ g \in m.graphs
  /\ {src, dst} \subseteq NodesOf(m, g)
  /\ e \notin m.ids
  /\ Step(s, [m EXCEPT !.edges = With(@, e, [at |-> g, ends |-> {src, dst}]),
                       !.ids = @ \cup {e}])

AddHyperEdge(s, g, e, ns) ==
  LET m == mg[s] IN
  /\ g \in m.graphs
  /\ ns \subseteq NodesOf(m, g)
  /\ e \notin m.ids
  /\ Step(s, [m EXCEPT !.edges = With(@, e, [at |-> g, ends |-> ns]),
                       !.ids = @ \cup {e}])

AddMetaEdge(s, e, src, dst, fits) ==
  LET m == mg[s] IN
  /\ {src, dst} \subseteq m.graphs
  /\ src # dst
  /\ m.schema => fits
  /\ e \notin m.ids
  /\ Step(s, [m EXCEPT !.metas = With(@, e, [ends |-> {src, dst}, fits |-> fits]),
                       !.ids = @ \cup {e}])

AddMetaHyperEdge(s, e, gs, fits) ==
  LET m == mg[s] IN
  /\ gs \subseteq m.graphs
  /\ Cardinality(gs) >= 2
  /\ m.schema => fits
  /\ e \notin m.ids
  /\ Step(s, [m EXCEPT !.metas = With(@, e, [ends |-> gs, fits |-> fits]),
                       !.ids = @ \cup {e}])

(* An end is a pair of a contained graph and a node in it.                 *)
EndsLive(m, ends) == \A p \in ends : p[1] \in m.graphs /\ p[2] \in NodesOf(m, p[1])

AddIntergraphEdge(s, e, p, q, comp, fits) ==
  LET m == mg[s] IN
  /\ EndsLive(m, {p, q})
  /\ p[1] # q[1]
  /\ m.schema => fits
  /\ e \notin m.ids
  /\ Step(s, [m EXCEPT !.inters = With(@, e,
                          [ends |-> {p, q}, hyper |-> FALSE, comp |-> comp, fits |-> fits]),
                       !.ids = @ \cup {e}])

(* Anchors and members are disjoint and neither is empty; an ordered type  *)
(* may repeat an end, so two different ends need not be one to one.        *)
AddIntergraphHyperEdge(s, e, ends, comp, fits) ==
  LET m == mg[s] IN
  /\ EndsLive(m, ends)
  /\ Cardinality(ends) >= 2
  /\ m.schema => fits
  /\ e \notin m.ids
  /\ Step(s, [m EXCEPT !.inters = With(@, e,
                          [ends |-> ends, hyper |-> TRUE, comp |-> comp, fits |-> fits]),
                       !.ids = @ \cup {e}])

UpdateIntergraphHyperEdge(s, e, ends, fits) ==
  LET m == mg[s] IN
  /\ e \in DOMAIN m.inters
  /\ m.inters[e].hyper
  /\ ~m.inters[e].comp
  /\ EndsLive(m, ends)
  /\ Cardinality(ends) >= 2
  /\ m.schema => fits
  /\ Step(s, [m EXCEPT !.inters[e].ends = ends, !.inters[e].fits = fits])

(* The source is any registered id; the target is checked only when the    *)
(* caller hands its metagraph over.                                        *)
AddXRef(s, x, src, tmg, tgt, verify) ==
  LET m == mg[s] IN
  /\ src \in m.ids
  /\ verify => tmg \in DOMAIN mg /\ tgt \in DOMAIN mg[tmg].place \cup DOMAIN mg[tmg].edges
  /\ x \notin m.ids
  /\ Step(s, [m EXCEPT !.xrefs = With(@, x, [src |-> src, tmg |-> tmg, tgt |-> tgt, stale |-> FALSE]),
                       !.bySource = @ \cup {<<src, x>>},
                       !.byTarget = @ \cup {<<tmg, tgt, x>>},
                       !.ids = @ \cup {x}])

(* An instance refers to its template and, a subgraph instance, to nodes   *)
(* of that template.                                                       *)
AddInstance(s, t, template, ns) ==
  LET m == mg[s] IN
  /\ template \in LiveCore(m) \ DOMAIN m.xrefs
  /\ ns # {} => template \in m.graphs /\ ns \subseteq NodesOf(m, template)
  /\ t \notin m.ids \cup DOMAIN m.insts
  /\ Step(s, [m EXCEPT !.insts = With(@, t, {template} \cup ns), !.ids = @ \cup {t}])

AddComposite(s, t) ==
  LET m == mg[s] IN
  /\ t \notin m.ids \cup DOMAIN m.insts
  /\ Step(s, [m EXCEPT !.insts = With(@, t, {}), !.ids = @ \cup {t}])

(* All instances of S, and those they hold as members, however deep.       *)
Held(m, S) ==
  {t \in Inst : \A C \in SUBSET Inst :
     S \subseteq C /\ (\A c \in C \cap DOMAIN m.insts : m.insts[c] \cap Inst \subseteq C) => t \in C}

AddMember(s, c, t) ==
  LET m == mg[s] IN
  /\ c \in DOMAIN m.insts \cap Composite
  /\ t \in DOMAIN m.insts
  /\ c \notin Held(m, {t})
  /\ Step(s, [m EXCEPT !.insts[c] = @ \cup {t}])

(* A schema that declares types for both kinds of edges between graphs; an *)
(* edge fits it or not.  An end that is gone raises.                       *)
AttachSchema(s) ==
  LET m == mg[s] IN
  /\ \A e \in DOMAIN m.inters : EndsLive(m, m.inters[e].ends) /\ m.inters[e].fits
  /\ \A e \in DOMAIN m.metas : m.metas[e].ends \subseteq m.graphs /\ m.metas[e].fits
  /\ Step(s, [m EXCEPT !.schema = TRUE])

DetachSchema(s) == Step(s, [mg[s] EXCEPT !.schema = FALSE])

-----------------------------------------------------------------------------
(* What goes out.                                                          *)

(* Mutant: the cascade stops at the instances of the removed element.       *)
MutDependentsShallow(m, X) == {t \in DOMAIN m.insts : m.insts[t] \cap X # {}}

(* The instances to cascade when the ids X go: those that refer to one of  *)
(* X and the composites that hold a cascaded instance, however deep.       *)
Dependents(m, X) ==
  {t \in DOMAIN m.insts : \A C \in SUBSET DOMAIN m.insts :
     (\A u \in DOMAIN m.insts : m.insts[u] \cap (X \cup C) # {} => u \in C) => t \in C}

Cascade(m, X) ==
  [m EXCEPT !.insts = Without(@, Dependents(m, X)), !.ids = @ \ Dependents(m, X)]

(* The observers of graph g of side s hear of the removal of X from it.    *)
Hear(s, g, X, o) ==
  IF \E w \in mg[s].watch[g] : w.kind = "registry" /\ w.owner = o
  THEN Cascade(mg[o], X) ELSE mg[o]

(* A guard asks its own metagraph, under the graph id it was made with,    *)
(* whether a compositional edge names the node.                            *)
Refuses(w, n) ==
  LET m == mg[w.owner] IN
  /\ w.kind = "guard"
  /\ w.gid \in m.graphs
  /\ n \in NodesOf(m, w.gid)
  /\ \E e \in DOMAIN m.inters : m.inters[e].comp /\ <<w.gid, n>> \in m.inters[e].ends

RemoveFromGraph(s, g, X) ==
  /\ mg' = [o \in DOMAIN mg |->
              LET m == Hear(s, g, X, o) IN
              IF o # s THEN m
              ELSE [m EXCEPT !.place = Without(@, X), !.refprop = Without(@, X),
                             !.edges = Without(@, X), !.ids = @ \ X]]
  /\ UNCHANGED <<snap, restored>>

RemoveEdge(s, e) ==
  /\ e \in DOMAIN mg[s].edges
  /\ RemoveFromGraph(s, mg[s].edges[e].at, {e})

(* Mutant: the observers hear of a removal only when it cascades.           *)
MutRemoveNodeUnasked(s, n, cascade) ==
  LET m == mg[s]
      incident == {e \in DOMAIN m.edges : n \in m.edges[e].ends} IN
  /\ n \in DOMAIN m.place
  /\ cascade \/ incident = {}
  /\ cascade => ~\E w \in m.watch[m.place[n]] : Refuses(w, n)
  /\ RemoveFromGraph(s, m.place[n], {n} \cup incident)

RemoveNode(s, n, cascade) ==
  LET m == mg[s]
      incident == {e \in DOMAIN m.edges : n \in m.edges[e].ends} IN
  /\ n \in DOMAIN m.place
  /\ cascade \/ incident = {}
  /\ ~\E w \in m.watch[m.place[n]] : Refuses(w, n)
  /\ RemoveFromGraph(s, m.place[n], {n} \cup incident)

(* Mutant: the id of a removed metaedge stays registered.                   *)
MutRemoveMetaLeaks(s, e) ==
  /\ e \in DOMAIN mg[s].metas
  /\ Step(s, [Cascade(mg[s], {e}) EXCEPT !.metas = Without(@, {e})])

RemoveMeta(s, e) ==
  /\ e \in DOMAIN mg[s].metas
  /\ Step(s, [Cascade(mg[s], {e}) EXCEPT !.metas = Without(@, {e}), !.ids = @ \ {e}])

RemoveInter(s, e) ==
  /\ e \in DOMAIN mg[s].inters
  /\ ~mg[s].inters[e].comp
  /\ Step(s, [Cascade(mg[s], {e}) EXCEPT !.inters = Without(@, {e}), !.ids = @ \ {e}])

(* Mutant: the target index is looked up by target alone and misses.        *)
MutRemoveXRefHalf(s, x) ==
  LET m == mg[s] IN
  /\ x \in DOMAIN m.xrefs
  /\ Step(s, [m EXCEPT !.xrefs = Without(@, {x}), !.ids = @ \ {x},
                       !.bySource = @ \ {<<m.xrefs[x].src, x>>}])

RemoveXRef(s, x) ==
  LET m == mg[s] IN
  /\ x \in DOMAIN m.xrefs
  /\ Step(s, [m EXCEPT !.xrefs = Without(@, {x}), !.ids = @ \ {x},
                       !.bySource = @ \ {<<m.xrefs[x].src, x>>},
                       !.byTarget = @ \ {<<m.xrefs[x].tmg, m.xrefs[x].tgt, x>>}])

RemoveInstance(s, t) ==
  /\ t \in DOMAIN mg[s].insts
  /\ LET gone == {t} \cup Dependents(mg[s], {t}) IN
     Step(s, [mg[s] EXCEPT !.insts = Without(@, gone), !.ids = @ \ gone])

(* Mutant: only XRefs to nodes count as incoming.                           *)
MutIncomingNodes(s, g) ==
  {x \in DOMAIN mg[s].xrefs : \E n \in NodesOf(mg[s], g) : <<s, n, x>> \in mg[s].byTarget}

(* What _compute_removal_impact finds: through the index, the XRefs into   *)
(* the graph; and the ref properties of other graphs' nodes into it.       *)
Incoming(s, g) ==
  {x \in DOMAIN mg[s].xrefs : \E c \in Contents(mg[s], g) : <<s, c, x>> \in mg[s].byTarget}
RefProperties(s, g) ==
  {n \in DOMAIN mg[s].refprop : /\ mg[s].place[n] # g
                                /\ mg[s].refprop[n] \in Contents(mg[s], g)}

RemoveGraph(s, g, cascade, force) ==
  LET m == mg[s]
      metas == {e \in DOMAIN m.metas : g \in m.metas[e].ends}
      inters == {e \in DOMAIN m.inters : \E p \in m.inters[e].ends : p[1] = g}
      X == {g} \cup Contents(m, g) \cup metas \cup inters
      stale == [x \in DOMAIN m.xrefs |->
                  [m.xrefs[x] EXCEPT !.stale = @ \/ x \in Incoming(s, g)]] IN
  /\ g \in m.graphs
  /\ \A e \in inters : ~m.inters[e].comp
  /\ cascade \/ metas = {}
  /\ force \/ (Incoming(s, g) = {} /\ RefProperties(s, g) = {})
  /\ Step(s, [Cascade(m, X) EXCEPT
       !.graphs = @ \ X, !.place = Without(@, X), !.refprop = Without(@, X),
       !.edges = Without(@, X), !.metas = Without(@, X), !.inters = Without(@, X),
       !.xrefs = stale, !.ids = @ \ X, !.watch = Without(@, X)])

-----------------------------------------------------------------------------
(* Snapshot, rollback and fork.                                            *)

Capture == /\ mg' = mg
           /\ snap' = {mg["origin"]}
           /\ UNCHANGED restored

(* Mutant: the schema attached since the capture stays.                     *)
MutRestoreKeepsSchema(m) ==
  LET now == mg["origin"] IN
  /\ m \in snap
  /\ mg' = [mg EXCEPT !["origin"] =
              [m EXCEPT !.insts = now.insts, !.schema = now.schema,
                        !.watch = [g \in m.graphs |->
                                     IF g \in now.graphs THEN now.watch[g] ELSE {}]]]
  /\ restored' = TRUE
  /\ UNCHANGED snap

(* Mutant: the observers of the present graphs stay as they are.            *)
MutRestoreKeepsWatch(m) ==
  /\ m \in snap
  /\ mg' = [mg EXCEPT !["origin"] =
              [m EXCEPT !.insts = mg["origin"].insts, !.watch = mg["origin"].watch]]
  /\ restored' = TRUE
  /\ UNCHANGED snap

(* Everything of the snapshot comes back but the registry of instances,    *)
(* which it does not hold.  A graph that is still there keeps its object   *)
(* and so its observers; one that was removed is built anew without any.   *)
Restore(m) ==
  LET now == mg["origin"] IN
  /\ m \in snap
  /\ mg' = [mg EXCEPT !["origin"] =
              [m EXCEPT !.insts = now.insts,
                        !.watch = [g \in m.graphs |->
                                     IF g \in now.graphs THEN now.watch[g] ELSE {}]]]
  /\ restored' = TRUE
  /\ UNCHANGED snap

(* regenerate_ids: new graph ids in everything but the metaedges and the   *)
(* metahyperedges.  Then remap_ids of the registry and remap_xref_targets. *)
Reid(g) == <<g[1], "fork">>
ReidAny(x) == IF x \in GraphId THEN Reid(x) ELSE x
ReidMg(t) == IF t = "origin" THEN "fork" ELSE t
ReidEdge(e) == [e EXCEPT !.at = Reid(@)]
ReidInter(e) == [e EXCEPT !.ends = {<<Reid(p[1]), p[2]>> : p \in @}]
ReidXRef(x) == [x EXCEPT !.tmg = ReidMg(@)]
Regenerate(m) ==
  [m EXCEPT
     !.graphs = {Reid(g) : g \in @},
     !.place = [n \in DOMAIN @ |-> Reid(@[n])],
     !.edges = [e \in DOMAIN @ |-> ReidEdge(@[e])],
     !.inters = [e \in DOMAIN @ |-> ReidInter(@[e])],
     !.xrefs = [x \in DOMAIN @ |-> ReidXRef(@[x])],
     !.byTarget = {<<ReidMg(r[1]), r[2], r[3]>> : r \in @},
     !.insts = [t \in DOMAIN @ |-> {ReidAny(x) : x \in @[t]}],
     !.ids = {ReidAny(x) : x \in @},
     !.watch = [g \in {Reid(h) : h \in m.graphs} |-> @[<<g[1], "origin">>]]]

(* copy.deepcopy copies the objects and shares the functions: the closures *)
(* in a copied graph's observers still speak for the origin.               *)
Fork == /\ "fork" \notin DOMAIN mg
        /\ mg' = With(mg, "fork", Regenerate(mg["origin"]))
        /\ UNCHANGED <<snap, restored>>

-----------------------------------------------------------------------------
MintedBy(s) == Graph \X {s}
Ends(s) == MintedBy(s) \X Node

Insert(s) ==
  \/ \E g \in MintedBy(s), ns \in SUBSET Node : AddGraph(s, g, ns)
  \/ \E g \in MintedBy(s), n \in Node : AddNode(s, g, n)
  \/ \E n \in Node, x \in Node \cup Edge : SetRefProperty(s, n, x)
  \/ \E g \in MintedBy(s), e \in Edge, n1, n2 \in Node : AddEdge(s, g, e, n1, n2)
  \/ \E g \in MintedBy(s), e \in Edge, ns \in SUBSET Node : AddHyperEdge(s, g, e, ns)
  \/ \E e \in Meta, g1, g2 \in MintedBy(s), f \in BOOLEAN : AddMetaEdge(s, e, g1, g2, f)
  \/ \E e \in Meta, gs \in SUBSET MintedBy(s), f \in BOOLEAN : AddMetaHyperEdge(s, e, gs, f)
  \/ \E e \in Inter, p, q \in Ends(s), c, f \in BOOLEAN : AddIntergraphEdge(s, e, p, q, c, f)
  \/ \E e \in Inter, c, f \in BOOLEAN, P \in SUBSET Ends(s) : AddIntergraphHyperEdge(s, e, P, c, f)
  \/ \E e \in Inter, f \in BOOLEAN, P \in SUBSET Ends(s) : UpdateIntergraphHyperEdge(s, e, P, f)
  \/ \E x \in XRef, src \in Node, t \in Sides, tgt \in Node \cup Edge, v \in BOOLEAN :
        AddXRef(s, x, src, t, tgt, v)
  \/ \E t \in Instance, c \in CoreId, ns \in SUBSET Node : AddInstance(s, t, c, ns)
  \/ \E t \in Composite : AddComposite(s, t)
  \/ \E c \in Composite, t \in Inst : AddMember(s, c, t)
  \/ AttachSchema(s)
  \/ DetachSchema(s)

Delete(s) ==
  \/ \E e \in Edge : RemoveEdge(s, e)
  \/ \E n \in Node, c \in BOOLEAN : RemoveNode(s, n, c)
  \/ \E e \in Meta : RemoveMeta(s, e)
  \/ \E e \in Inter : RemoveInter(s, e)
  \/ \E x \in XRef : RemoveXRef(s, x)
  \/ \E t \in Inst : RemoveInstance(s, t)
  \/ \E g \in MintedBy(s), c, f \in BOOLEAN : RemoveGraph(s, g, c, f)

Next == \/ /\ ops < MaxOps
           /\ ops' = ops + 1
           /\ \/ \E s \in DOMAIN mg : Insert(s) \/ Delete(s)
              \/ \E m \in snap : Restore(m)
              \/ Fork
        \/ /\ Capture
           /\ ops' = ops

Spec == Init /\ [][Next]_vars

-----------------------------------------------------------------------------
(* Types, and the ids a metagraph knows of.                                *)
TypeOK ==
  /\ "origin" \in DOMAIN mg
  /\ DOMAIN mg \subseteq Sides
  /\ \A s \in DOMAIN mg :
       /\ mg[s].ids \subseteq CoreId \cup Inst
       /\ DOMAIN mg[s].watch = mg[s].graphs
       /\ DOMAIN mg[s].refprop \subseteq DOMAIN mg[s].place
       /\ mg[s].schema \in BOOLEAN
  /\ ops \in 0..MaxOps

(* The identity registry holds exactly the ids in use: an id that leaked   *)
(* could never be used again, a missing one could be given out twice.      *)
(* (The registry of instances is not in a snapshot, so that a rollback     *)
(* leaves ids of instances registered or unregistered wrongly.)            *)
IdentityExact ==
  \A s \in DOMAIN mg :
    /\ mg[s].ids \cap CoreId = LiveCore(mg[s])
    /\ restored \/ mg[s].ids \cap Inst = DOMAIN mg[s].insts

(* Edges run between nodes of their graph, metaedges between contained     *)
(* graphs, intergraph edges between contained graphs, and a compositional  *)
(* one rests on nodes that are there as long as the metagraph guards the   *)
(* graph: whatever removals, cascades, rollbacks and forks happened.       *)
EndsAreThere ==
  \A s \in DOMAIN mg :
    LET m == mg[s] IN
    /\ \A e \in DOMAIN m.edges : m.edges[e].ends \subseteq NodesOf(m, m.edges[e].at)
    /\ \A n \in DOMAIN m.place : m.place[n] \in m.graphs
    /\ s = "origin" => \A e \in DOMAIN m.metas : m.metas[e].ends \subseteq m.graphs
    /\ \A e \in DOMAIN m.inters : \A p \in m.inters[e].ends :
         /\ p[1] \in m.graphs
         /\ m.inters[e].comp /\ Watchers(s, p[1]) \cap m.watch[p[1]] # {} => EndsLive(m, {p})

(* The two XRef indexes, which removal impact and iter_xrefs rely on, say  *)
(* what the XRefs say: also after a rollback and in a fork, whose XRefs    *)
(* point at the fork.                                                      *)
IndexesExact ==
  \A s \in DOMAIN mg :
    LET xs == mg[s].xrefs IN
    /\ mg[s].bySource = {<<xs[x].src, x>> : x \in DOMAIN xs}
    /\ mg[s].byTarget = {<<xs[x].tmg, xs[x].tgt, x>> : x \in DOMAIN xs}

(* Until the origin is rolled back, no instance of it outlives what it     *)
(* refers to, and no composite a member, at any depth of cascade.          *)
InstancesGrounded ==
  restored \/ \A t \in DOMAIN mg["origin"].insts :
    mg["origin"].insts[t] \subseteq LiveCore(mg["origin"]) \cup DOMAIN mg["origin"].insts

(* While a schema is attached every edge between graphs fits it.           *)
SchemaHolds ==
  \A s \in DOMAIN mg : mg[s].schema =>
    /\ \A e \in DOMAIN mg[s].inters : mg[s].inters[e].fits
    /\ \A e \in DOMAIN mg[s].metas : mg[s].metas[e].fits

(* When a graph is removed, an XRef of the metagraph that pointed into it  *)
(* is stale afterwards: no removal leaves a dangling reference that looks  *)
(* good.  (A rollback takes the XRefs back with the graphs.)               *)
RemovalMarksStale ==
  [][\/ \E m \in snap : Restore(m)
     \/ \A s \in DOMAIN mg : \A g \in mg[s].graphs \ mg'[s].graphs :
          \A x \in DOMAIN mg[s].xrefs :
            mg[s].xrefs[x].tmg = s /\ mg[s].xrefs[x].tgt \in Contents(mg[s], g)
              => mg'[s].xrefs[x].stale]_vars

(* A metagraph is well-formed after any calls: identity registry, ends of  *)
(* edges, XRef indexes and instances agree, and edges fit the schema       *)
(* (models/metagraph.py).                                                  *)
Integrity ==
  /\ TypeOK
  /\ SchemaHolds
  /\ IdentityExact
  /\ EndsAreThere
  /\ IndexesExact
  /\ InstancesGrounded
=============================================================================

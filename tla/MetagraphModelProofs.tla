-------------------------- MODULE MetagraphModelProofs --------------------------
(***************************************************************************)
(* MetagraphModel for any graphs, elements and number of operations.       *)
(*                                                                         *)
(* Good(s, m, r) says that m is a well-formed metagraph of side s, r that  *)
(* the origin has been rolled back.  It is a predicate of values, so that  *)
(* a lemma for each operation, a function from records to records, gives   *)
(* the step of either side.  Beside what Integrity says it has which       *)
(* observers a graph may have: they come in pairs, a guard and a           *)
(* subscription of one owner, and before a rollback every graph of the     *)
(* origin has its own.  A rollback keeps the observers of the present and  *)
(* brings back the edges of the past; that a compositional edge then rests *)
(* on its nodes wherever they are guarded is a relation between the        *)
(* snapshot and the present, Later: such an edge stays where it is, and    *)
(* its graphs gain no observers.                                           *)
(***************************************************************************)
EXTENDS MetagraphModel, TLAPS

\* The values of the variables; a table is a partial function.
Table(f, S, T) == f \in [DOMAIN f -> T] /\ DOMAIN f \subseteq S
Watcher == [kind : {"guard", "registry"}, owner : Sides, gid : GraphId]
EdgeRow == [at : GraphId, ends : SUBSET Node]
MetaRow == [ends : SUBSET GraphId, fits : BOOLEAN]
InterRow == [ends : SUBSET (GraphId \X Node), hyper : BOOLEAN, comp : BOOLEAN, fits : BOOLEAN]
XRefRow == [src : Node, tmg : Sides, tgt : Node \cup Edge, stale : BOOLEAN]
Named == (CoreId \ XRef) \cup Inst
Fields == {"graphs", "place", "refprop", "edges", "metas", "inters", "xrefs", "insts",
           "bySource", "byTarget", "ids", "schema", "watch"}
Metagraph(m) ==
  /\ DOMAIN m = Fields
  /\ m.graphs \subseteq GraphId /\ Table(m.place, Node, GraphId)
  /\ Table(m.refprop, Node, Node \cup Edge) /\ Table(m.edges, Edge, EdgeRow)
  /\ Table(m.metas, Meta, MetaRow) /\ Table(m.inters, Inter, InterRow)
  /\ Table(m.xrefs, XRef, XRefRow) /\ Table(m.insts, Inst, SUBSET Named)
  /\ m.ids \subseteq CoreId \cup Inst /\ m.schema \in BOOLEAN
  /\ Table(m.watch, GraphId, SUBSET Watcher)

\* A graph has no observers, its own pair, or in a fork those of the graph it was copied from.
Watched(s, m, r) ==
  /\ m.graphs \subseteq MintedBy(s) /\ DOMAIN m.watch = m.graphs
  /\ \A g \in m.graphs :
       \/ m.watch[g] = {} \/ m.watch[g] = Watchers(s, g)
       \/ s = "fork" /\ m.watch[g] = Watchers("origin", <<g[1], "origin">>)
  /\ ~r /\ s = "origin" => \A g \in m.graphs : m.watch[g] = Watchers(s, g)
\* The registry has the ids of what is there; a rollback forgets the instances'.
Ids(m, r) ==
  /\ m.ids \cap CoreId = LiveCore(m)
  /\ r \/ m.ids \cap Inst = DOMAIN m.insts
\* Nodes and edges are in graphs, an edge in the graph of its ends.
Placed(s, m) ==
  /\ DOMAIN m.refprop \subseteq DOMAIN m.place
  /\ \A n \in DOMAIN m.place : m.place[n] \in m.graphs
  /\ \A e \in DOMAIN m.edges : /\ m.edges[e].at \in m.graphs
                               /\ m.edges[e].ends \subseteq NodesOf(m, m.edges[e].at)
  /\ s = "origin" => \A e \in DOMAIN m.metas : m.metas[e].ends \subseteq m.graphs
\* A compositional edge has its ends wherever a guard watches them.
Guarded(s, m) ==
  \A e \in DOMAIN m.inters : \A p \in m.inters[e].ends :
    /\ p[1] \in m.graphs
    /\ m.inters[e].comp /\ Watchers(s, p[1]) \cap m.watch[p[1]] # {} => EndsLive(m, {p})
\* The two indexes have exactly the XRefs.
Indexed(m) ==
  /\ m.bySource = {<<m.xrefs[x].src, x>> : x \in DOMAIN m.xrefs}
  /\ m.byTarget = {<<m.xrefs[x].tmg, m.xrefs[x].tgt, x>> : x \in DOMAIN m.xrefs}
\* An instance is of what is there.
Grounded(s, m, r) ==
  r \/ s # "origin" \/ \A t \in DOMAIN m.insts : m.insts[t] \subseteq LiveCore(m) \cup DOMAIN m.insts
\* While a schema is attached, every edge between graphs fits it.
Fitting(m) ==
  m.schema => /\ \A e \in DOMAIN m.inters : m.inters[e].fits
              /\ \A e \in DOMAIN m.metas : m.metas[e].fits
Good(s, m, r) ==
  /\ Metagraph(m) /\ Watched(s, m, r) /\ Ids(m, r) /\ Placed(s, m) /\ Guarded(s, m)
  /\ Indexed(m) /\ Grounded(s, m, r) /\ Fitting(m)

\* Compositional edges stay, and their graphs gain no observers.
Later(m, now) ==
  \A e \in DOMAIN m.inters : m.inters[e].comp =>
    /\ e \in DOMAIN now.inters /\ now.inters[e].comp
    /\ now.inters[e].ends = m.inters[e].ends
    /\ \A p \in m.inters[e].ends : now.watch[p[1]] \subseteq m.watch[p[1]]

Inv ==
  /\ DOMAIN mg \subseteq Sides /\ "origin" \in DOMAIN mg /\ mg = [s \in DOMAIN mg |-> mg[s]]
  /\ \A s \in DOMAIN mg : Good(s, mg[s], restored)
  /\ \A m \in snap : /\ Good("origin", m, TRUE) /\ Later(m, mg["origin"])
                    /\ snap = {m}
  /\ restored \in BOOLEAN /\ ops \in 0 .. MaxOps

-----------------------------------------------------------------------------
\* Tables.
LEMMA WithIs ==
  ASSUME NEW f, NEW S, NEW T, Table(f, S, T), NEW x \in S, NEW v \in T
  PROVE  /\ Table(With(f, x, v), S, T) /\ DOMAIN With(f, x, v) = DOMAIN f \cup {x}
         /\ With(f, x, v)[x] = v
         /\ \A y \in DOMAIN f \ {x} : With(f, x, v)[y] = f[y]
BY DEF Table, With

\* now is m but for the fields F.
Changes(m, now, F) == DOMAIN now = Fields /\ \A f \in Fields : f \in F \/ now[f] = m[f]

\* What holds of m holds of now if it is not about a field that changes.
Core == {"graphs", "place", "edges", "metas", "inters", "xrefs"}
LEMMA Frame ==
  ASSUME NEW s, NEW r, NEW m, NEW now, NEW F, Good(s, m, r), Changes(m, now, F)
  PROVE  /\ F \cap {"graphs", "watch"} = {} => Watched(s, now, r)
         /\ F \cap (Core \cup {"ids", "insts"}) = {} => Ids(now, r)
         /\ F \cap {"graphs", "place", "refprop", "edges", "metas"} = {} => Placed(s, now)
         /\ F \cap {"graphs", "place", "inters", "watch"} = {} => Guarded(s, now)
         /\ F \cap {"xrefs", "bySource", "byTarget"} = {} => Indexed(now)
         /\ F \cap (Core \cup {"insts"}) = {} => Grounded(s, now, r)
         /\ F \cap {"inters", "metas", "schema"} = {} => Fitting(now)
         /\ F \cap {"inters", "watch"} = {} => Later(m, now)
<1>1. F \cap {"graphs", "watch"} = {} => Watched(s, now, r)
  BY DEF Changes, Fields, Good, Watched
<1>2. F \cap (Core \cup {"ids", "insts"}) = {} => Ids(now, r)
  BY DEF Changes, Fields, Good, Ids, LiveCore, Core
<1>3. F \cap {"graphs", "place", "refprop", "edges", "metas"} = {} => Placed(s, now)
  BY DEF Changes, Fields, Good, Placed, NodesOf
<1>4. F \cap {"graphs", "place", "inters", "watch"} = {} => Guarded(s, now)
  BY DEF Changes, Fields, Good, Guarded, EndsLive, NodesOf
<1>5. F \cap {"xrefs", "bySource", "byTarget"} = {} => Indexed(now)
  BY DEF Changes, Fields, Good, Indexed
<1>6. F \cap (Core \cup {"insts"}) = {} => Grounded(s, now, r)
  BY DEF Changes, Fields, Good, Grounded, LiveCore, Core
<1>7. F \cap {"inters", "metas", "schema"} = {} => Fitting(now)
  BY DEF Changes, Fields, Good, Fitting
<1>8. F \cap {"inters", "watch"} = {} => Later(m, now)
  BY DEF Changes, Fields, Later
<1>9. QED
  BY <1>1, <1>2, <1>3, <1>4, <1>5, <1>6, <1>7, <1>8

-----------------------------------------------------------------------------
\* What goes in.
LEMMA AddGraphKeeps ==
  ASSUME NEW s \in Sides, NEW r \in BOOLEAN, NEW m, Good(s, m, r),
         NEW g \in MintedBy(s), NEW ns \in SUBSET Node, ({g} \cup ns) \cap m.ids = {}, NEW now,
         Changes(m, now, {"graphs", "ids", "place", "watch"}),
         now.graphs = m.graphs \cup {g},
         now.ids = m.ids \cup {g} \cup ns,
         now.place = [n \in DOMAIN m.place \cup ns |-> IF n \in ns THEN g ELSE m.place[n]],
         now.watch = With(m.watch, g, Watchers(s, g))
  PROVE  Good(s, now, r) /\ Later(m, now)
<1>1. /\ g \in GraphId /\ g \notin LiveCore(m) /\ ns \cap LiveCore(m) = {}
      /\ Watchers(s, g) \in SUBSET Watcher
  BY DEF Good, Ids, CoreId, MintedBy, GraphId, Watchers, Watcher
<1>2. /\ Table(now.watch, GraphId, SUBSET Watcher) /\ DOMAIN now.watch = m.graphs \cup {g}
      /\ now.watch[g] = Watchers(s, g)
      /\ \A h \in m.graphs : now.watch[h] = m.watch[h]
  <2>1. Table(m.watch, GraphId, SUBSET Watcher) /\ DOMAIN m.watch = m.graphs /\ g \notin m.graphs
    BY <1>1 DEF Good, Metagraph, Watched, LiveCore
  <2>2. QED
    BY <1>1, <2>1, WithIs
<1>3. /\ Table(now.place, Node, GraphId) /\ DOMAIN now.place = DOMAIN m.place \cup ns
      /\ \A n \in DOMAIN m.place : now.place[n] = m.place[n] /\ n \notin ns
      /\ \A n \in ns : now.place[n] = g
  BY <1>1 DEF Good, Metagraph, Table, LiveCore
<1>4. Metagraph(now)
  BY <1>1, <1>2, <1>3 DEF Good, Metagraph, Changes, Fields, CoreId
<1>5. Watched(s, now, r)
  BY <1>2 DEF Good, Watched
<1>6. Ids(now, r)
  BY <1>1, <1>3, KindsAssumption DEF Good, Ids, LiveCore, Changes, Fields, CoreId
<1>7. Placed(s, now)
  <2>1. \A h : NodesOf(m, h) \subseteq NodesOf(now, h)
    BY <1>3 DEF NodesOf
  <2>2. Placed(s, m) /\ now.refprop = m.refprop /\ now.edges = m.edges /\ now.metas = m.metas
    BY DEF Good, Changes, Fields
  <2>3. QED
    BY <1>3, <2>1, <2>2 DEF Placed
<1>8. Guarded(s, now)
  <2>1. \A h : NodesOf(m, h) \subseteq NodesOf(now, h)
    BY <1>3 DEF NodesOf
  <2>2. Guarded(s, m) /\ now.inters = m.inters
    BY DEF Good, Changes, Fields
  <2>3. ASSUME NEW e \in DOMAIN m.inters, NEW p \in m.inters[e].ends
        PROVE  /\ p[1] \in now.graphs
               /\ m.inters[e].comp /\ Watchers(s, p[1]) \cap now.watch[p[1]] # {}
                    => EndsLive(now, {p})
    <3>1. /\ p[1] \in m.graphs
          /\ m.inters[e].comp /\ Watchers(s, p[1]) \cap m.watch[p[1]] # {} => EndsLive(m, {p})
      BY <2>2 DEF Guarded
    <3>2. now.watch[p[1]] = m.watch[p[1]] /\ p[1] \in now.graphs
      BY <1>2, <3>1
    <3>3. EndsLive(m, {p}) => EndsLive(now, {p})
      BY <2>1, <3>2 DEF EndsLive
    <3>4. QED
      BY <3>1, <3>2, <3>3
  <2>4. QED
    BY <2>2, <2>3 DEF Guarded
<1>9. Grounded(s, now, r)
  BY <1>3 DEF Good, Grounded, LiveCore, Changes, Fields
<1>10. Later(m, now)
  BY <1>2 DEF Good, Guarded, Later, Changes, Fields
<1>11. Indexed(now) /\ Fitting(now)
  BY Frame
<1>12. QED
  BY <1>4, <1>5, <1>6, <1>7, <1>8, <1>9, <1>10, <1>11 DEF Good

LEMMA AddNodeKeeps ==
  ASSUME NEW s \in Sides, NEW r \in BOOLEAN, NEW m, Good(s, m, r),
         NEW g \in m.graphs, NEW n \in Node, n \notin m.ids, NEW now,
         Changes(m, now, {"place", "ids"}),
         now.place = With(m.place, n, g),
         now.ids = m.ids \cup {n}
  PROVE  Good(s, now, r) /\ Later(m, now)
<1>1. /\ n \notin LiveCore(m) /\ n \in CoreId /\ g \in GraphId
      /\ Table(m.place, Node, GraphId) /\ n \notin DOMAIN m.place
  BY DEF Good, Ids, CoreId, Metagraph, LiveCore
<1>2. /\ Table(now.place, Node, GraphId) /\ DOMAIN now.place = DOMAIN m.place \cup {n}
      /\ now.place[n] = g
      /\ \A k \in DOMAIN m.place : now.place[k] = m.place[k]
  BY <1>1, WithIs
<1>3. Metagraph(now)
  BY <1>1, <1>2 DEF Good, Metagraph, Changes, Fields
<1>4. Ids(now, r)
  BY <1>1, <1>2, KindsAssumption DEF Good, Ids, LiveCore, Changes, Fields
<1>5. Placed(s, now)
  BY <1>2 DEF Good, Placed, NodesOf, Changes, Fields
<1>6. Guarded(s, now)
  BY <1>2 DEF Good, Guarded, EndsLive, NodesOf, Changes, Fields
<1>7. Grounded(s, now, r)
  BY <1>2 DEF Good, Grounded, LiveCore, Changes, Fields
<1>8. Watched(s, now, r) /\ Indexed(now) /\ Fitting(now) /\ Later(m, now)
  BY Frame
<1>9. QED
  BY <1>3, <1>4, <1>5, <1>6, <1>7, <1>8 DEF Good

LEMMA SetRefPropertyKeeps ==
  ASSUME NEW s \in Sides, NEW r \in BOOLEAN, NEW m, Good(s, m, r),
         NEW n \in DOMAIN m.place, NEW x \in Node \cup Edge, NEW now,
         Changes(m, now, {"refprop"}),
         now.refprop = With(m.refprop, n, x)
  PROVE  Good(s, now, r) /\ Later(m, now)
<1>1. Table(now.refprop, Node, Node \cup Edge) /\ DOMAIN now.refprop = DOMAIN m.refprop \cup {n}
  <2>1. Table(m.refprop, Node, Node \cup Edge) /\ n \in Node
    BY DEF Good, Metagraph, Table
  <2>2. QED
    BY <2>1, WithIs
<1>2. Metagraph(now)
  BY <1>1 DEF Good, Metagraph, Changes, Fields
<1>3. Placed(s, now)
  BY <1>1 DEF Good, Placed, NodesOf, Changes, Fields
<1>4. /\ Watched(s, now, r) /\ Ids(now, r) /\ Guarded(s, now) /\ Indexed(now)
      /\ Grounded(s, now, r) /\ Fitting(now) /\ Later(m, now)
  BY Frame DEF Core
<1>5. QED
  BY <1>2, <1>3, <1>4 DEF Good

\* An edge or a hyperedge.
LEMMA AddEdgeKeeps ==
  ASSUME NEW s \in Sides, NEW r \in BOOLEAN, NEW m, Good(s, m, r),
         NEW g \in m.graphs, NEW ns \in SUBSET NodesOf(m, g), NEW e \in Edge, e \notin m.ids,
         NEW now,
         Changes(m, now, {"edges", "ids"}),
         now.edges = With(m.edges, e, [at |-> g, ends |-> ns]),
         now.ids = m.ids \cup {e}
  PROVE  Good(s, now, r) /\ Later(m, now)
<1>1. /\ e \notin LiveCore(m) /\ e \in CoreId /\ [at |-> g, ends |-> ns] \in EdgeRow
      /\ Table(m.edges, Edge, EdgeRow) /\ e \notin DOMAIN m.edges
  <2>1. e \notin LiveCore(m) /\ e \in CoreId
    BY DEF Good, Ids, CoreId
  <2>2. g \in GraphId /\ ns \subseteq Node
    BY DEF Good, Metagraph, NodesOf, Table
  <2>3. QED
    BY <2>1, <2>2 DEF Good, Metagraph, LiveCore, EdgeRow
<1>2. /\ Table(now.edges, Edge, EdgeRow) /\ DOMAIN now.edges = DOMAIN m.edges \cup {e}
      /\ now.edges[e] = [at |-> g, ends |-> ns]
      /\ \A d \in DOMAIN m.edges : now.edges[d] = m.edges[d]
  BY <1>1, WithIs
<1>3. Metagraph(now)
  BY <1>1, <1>2 DEF Good, Metagraph, Changes, Fields
<1>4. Ids(now, r)
  BY <1>1, <1>2, KindsAssumption DEF Good, Ids, LiveCore, Changes, Fields
<1>5. Placed(s, now)
  BY <1>2 DEF Good, Placed, NodesOf, Changes, Fields
<1>6. Grounded(s, now, r)
  BY <1>2 DEF Good, Grounded, LiveCore, Changes, Fields
<1>7. Watched(s, now, r) /\ Guarded(s, now) /\ Indexed(now) /\ Fitting(now) /\ Later(m, now)
  BY Frame
<1>8. QED
  BY <1>3, <1>4, <1>5, <1>6, <1>7 DEF Good

\* A metaedge or a metahyperedge.
LEMMA AddMetaKeeps ==
  ASSUME NEW s \in Sides, NEW r \in BOOLEAN, NEW m, Good(s, m, r),
         NEW row \in MetaRow, row.ends \subseteq m.graphs, m.schema => row.fits,
         NEW e \in Meta, e \notin m.ids, NEW now,
         Changes(m, now, {"metas", "ids"}),
         now.metas = With(m.metas, e, row),
         now.ids = m.ids \cup {e}
  PROVE  Good(s, now, r) /\ Later(m, now)
<1>1. /\ e \notin LiveCore(m) /\ e \in CoreId
      /\ Table(m.metas, Meta, MetaRow) /\ e \notin DOMAIN m.metas
  BY DEF Good, Ids, CoreId, Metagraph, MetaRow, LiveCore
<1>2. /\ Table(now.metas, Meta, MetaRow) /\ DOMAIN now.metas = DOMAIN m.metas \cup {e}
      /\ now.metas[e] = row
      /\ \A d \in DOMAIN m.metas : now.metas[d] = m.metas[d]
  BY <1>1 DEF Table, With
<1>3. Metagraph(now)
  BY <1>1, <1>2 DEF Good, Metagraph, Changes, Fields
<1>4. Ids(now, r)
  BY <1>1, <1>2, KindsAssumption DEF Good, Ids, LiveCore, Changes, Fields
<1>5. Placed(s, now)
  BY <1>2 DEF Good, Placed, NodesOf, Changes, Fields
<1>6. Grounded(s, now, r)
  BY <1>2 DEF Good, Grounded, LiveCore, Changes, Fields
<1>7. Fitting(now)
  BY <1>2 DEF Good, Fitting, Changes, Fields
<1>8. Watched(s, now, r) /\ Guarded(s, now) /\ Indexed(now) /\ Later(m, now)
  BY Frame
<1>9. QED
  BY <1>3, <1>4, <1>5, <1>6, <1>7, <1>8 DEF Good

\* An intergraph edge or hyperedge.
LEMMA AddInterKeeps ==
  ASSUME NEW s \in Sides, NEW r \in BOOLEAN, NEW m, Good(s, m, r),
         NEW row \in InterRow, EndsLive(m, row.ends), m.schema => row.fits,
         NEW e \in Inter, e \notin m.ids,
         NEW now, Changes(m, now, {"inters", "ids"}),
         now.inters = With(m.inters, e, row), now.ids = m.ids \cup {e}
  PROVE  Good(s, now, r) /\ Later(m, now)
<1>1. /\ e \notin LiveCore(m) /\ e \in CoreId
      /\ Table(m.inters, Inter, InterRow) /\ e \notin DOMAIN m.inters
  BY DEF Good, Ids, CoreId, Metagraph, LiveCore
<1>2. /\ Table(now.inters, Inter, InterRow) /\ DOMAIN now.inters = DOMAIN m.inters \cup {e}
      /\ now.inters[e] = row
      /\ \A d \in DOMAIN m.inters : now.inters[d] = m.inters[d]
  BY <1>1 DEF Table, With
<1>3. Metagraph(now)
  BY <1>1, <1>2 DEF Good, Metagraph, Changes, Fields
<1>4. Ids(now, r)
  BY <1>1, <1>2, KindsAssumption DEF Good, Ids, LiveCore, Changes, Fields
<1>5. Guarded(s, now)
  <2>1. now.graphs = m.graphs /\ now.watch = m.watch /\ now.place = m.place
    BY DEF Changes, Fields
  <2>2. \A d \in DOMAIN m.inters : \A p \in m.inters[d].ends :
          /\ p[1] \in now.graphs
          /\ m.inters[d].comp /\ Watchers(s, p[1]) \cap now.watch[p[1]] # {} => EndsLive(now, {p})
    BY <2>1 DEF Good, Guarded, EndsLive, NodesOf
  <2>3. \A p \in row.ends : p[1] \in now.graphs /\ EndsLive(now, {p})
    BY <2>1 DEF EndsLive, NodesOf
  <2>4. QED
    BY <1>1, <1>2, <2>2, <2>3 DEF Guarded
<1>6. Grounded(s, now, r)
  BY <1>2 DEF Good, Grounded, LiveCore, Changes, Fields
<1>7. Fitting(now)
  BY <1>2 DEF Good, Fitting, Changes, Fields
<1>8. Later(m, now)
  BY <1>2 DEF Later, Changes, Fields
<1>9. Watched(s, now, r) /\ Placed(s, now) /\ Indexed(now)
  BY Frame
<1>10. QED
  BY <1>3, <1>4, <1>5, <1>6, <1>7, <1>8, <1>9 DEF Good

LEMMA UpdateInterKeeps ==
  ASSUME NEW s \in Sides, NEW r \in BOOLEAN, NEW m, Good(s, m, r),
         NEW e \in DOMAIN m.inters, ~m.inters[e].comp,
         NEW row \in InterRow, ~row.comp, EndsLive(m, row.ends), m.schema => row.fits,
         NEW now, Changes(m, now, {"inters"}), now.inters = [m.inters EXCEPT ![e] = row]
  PROVE  Good(s, now, r) /\ Later(m, now)
<1>1. /\ Table(now.inters, Inter, InterRow) /\ DOMAIN now.inters = DOMAIN m.inters
      /\ now.inters[e] = row
      /\ \A d \in DOMAIN m.inters \ {e} : now.inters[d] = m.inters[d]
  <2>1. Table(m.inters, Inter, InterRow)
    BY DEF Good, Metagraph
  <2>2. QED
    BY <2>1 DEF Table
<1>2. Metagraph(now)
  BY <1>1 DEF Good, Metagraph, Changes, Fields
<1>3. Ids(now, r)
  BY <1>1 DEF Good, Ids, LiveCore, Changes, Fields
<1>4. Guarded(s, now)
  <2>1. now.graphs = m.graphs /\ now.watch = m.watch /\ now.place = m.place
    BY DEF Changes, Fields
  <2>2. \A d \in DOMAIN m.inters : \A p \in m.inters[d].ends :
          /\ p[1] \in now.graphs
          /\ m.inters[d].comp /\ Watchers(s, p[1]) \cap now.watch[p[1]] # {} => EndsLive(now, {p})
    BY <2>1 DEF Good, Guarded, EndsLive, NodesOf
  <2>3. \A p \in row.ends : p[1] \in now.graphs
    BY <2>1 DEF EndsLive
  <2>4. QED
    BY <1>1, <2>2, <2>3 DEF Guarded
<1>5. Grounded(s, now, r)
  BY <1>1 DEF Good, Grounded, LiveCore, Changes, Fields
<1>6. Fitting(now)
  BY <1>1 DEF Good, Fitting, Changes, Fields
<1>7. Later(m, now)
  BY <1>1 DEF Later, Changes, Fields
<1>8. Watched(s, now, r) /\ Placed(s, now) /\ Indexed(now)
  BY Frame
<1>9. QED
  BY <1>2, <1>3, <1>4, <1>5, <1>6, <1>7, <1>8 DEF Good

LEMMA AddXRefKeeps ==
  ASSUME NEW s \in Sides, NEW r \in BOOLEAN, NEW m, Good(s, m, r),
         NEW x \in XRef, x \notin m.ids, NEW row \in XRefRow,
         NEW now, Changes(m, now, {"xrefs", "bySource", "byTarget", "ids"}),
         now.xrefs = With(m.xrefs, x, row), now.ids = m.ids \cup {x},
         now.bySource = m.bySource \cup {<<row.src, x>>},
         now.byTarget = m.byTarget \cup {<<row.tmg, row.tgt, x>>}
  PROVE  Good(s, now, r) /\ Later(m, now)
<1>1. /\ x \notin LiveCore(m) /\ x \in CoreId
      /\ Table(m.xrefs, XRef, XRefRow) /\ x \notin DOMAIN m.xrefs
  BY DEF Good, Ids, CoreId, Metagraph, LiveCore
<1>2. /\ Table(now.xrefs, XRef, XRefRow) /\ DOMAIN now.xrefs = DOMAIN m.xrefs \cup {x}
      /\ now.xrefs[x] = row
      /\ \A d \in DOMAIN m.xrefs : now.xrefs[d] = m.xrefs[d]
  BY <1>1, WithIs
<1>3. Metagraph(now)
  BY <1>1, <1>2 DEF Good, Metagraph, Changes, Fields
<1>4. Ids(now, r)
  BY <1>1, <1>2, KindsAssumption DEF Good, Ids, LiveCore, Changes, Fields
<1>5. Indexed(now)
  BY <1>2 DEF Good, Indexed
<1>6. Grounded(s, now, r)
  BY <1>2 DEF Good, Grounded, LiveCore, Changes, Fields
<1>7. Watched(s, now, r) /\ Placed(s, now) /\ Guarded(s, now) /\ Fitting(now) /\ Later(m, now)
  BY Frame
<1>8. QED
  BY <1>3, <1>4, <1>5, <1>6, <1>7 DEF Good

\* An instance of any kind, and a member of a composite.
LEMMA AddInstanceKeeps ==
  ASSUME NEW s \in Sides, NEW r \in BOOLEAN, NEW m, Good(s, m, r),
         NEW t \in Inst, t \notin m.ids \cup DOMAIN m.insts,
         NEW refs \in SUBSET (LiveCore(m) \ DOMAIN m.xrefs), NEW now,
         Changes(m, now, {"insts", "ids"}),
         now.insts = With(m.insts, t, refs),
         now.ids = m.ids \cup {t}
  PROVE  Good(s, now, r) /\ Later(m, now)
<1>1. refs \in SUBSET Named /\ Table(m.insts, Inst, SUBSET Named) /\ t \notin CoreId
  BY KindsAssumption DEF Good, Metagraph, Named, LiveCore, CoreId, Table
<1>2. /\ Table(now.insts, Inst, SUBSET Named) /\ DOMAIN now.insts = DOMAIN m.insts \cup {t}
      /\ now.insts[t] = refs
      /\ \A u \in DOMAIN m.insts : now.insts[u] = m.insts[u]
  BY <1>1, WithIs
<1>3. Metagraph(now)
  BY <1>2 DEF Good, Metagraph, Changes, Fields
<1>4. Ids(now, r)
  <2>1. LiveCore(now) = LiveCore(m)
    BY DEF LiveCore, Changes, Fields
  <2>2. QED
    BY <1>1, <1>2, <2>1 DEF Good, Ids
<1>5. Grounded(s, now, r)
  BY <1>2 DEF Good, Grounded, LiveCore, Changes, Fields
<1>6. /\ Watched(s, now, r) /\ Placed(s, now) /\ Guarded(s, now) /\ Indexed(now)
      /\ Fitting(now) /\ Later(m, now)
  BY Frame
<1>7. QED
  BY <1>3, <1>4, <1>5, <1>6 DEF Good

LEMMA AddMemberKeeps ==
  ASSUME NEW s \in Sides, NEW r \in BOOLEAN, NEW m, Good(s, m, r),
         NEW c \in DOMAIN m.insts, NEW t \in DOMAIN m.insts, NEW now,
         Changes(m, now, {"insts"}),
         now.insts = [m.insts EXCEPT ![c] = @ \cup {t}]
  PROVE  Good(s, now, r) /\ Later(m, now)
<1>1. /\ Table(now.insts, Inst, SUBSET Named) /\ DOMAIN now.insts = DOMAIN m.insts
      /\ now.insts[c] = m.insts[c] \cup {t}
      /\ \A u \in DOMAIN m.insts \ {c} : now.insts[u] = m.insts[u]
  BY DEF Good, Metagraph, Table, Named
<1>2. Metagraph(now)
  BY <1>1 DEF Good, Metagraph, Changes, Fields
<1>3. Ids(now, r)
  BY <1>1 DEF Good, Ids, LiveCore, Changes, Fields
<1>4. Grounded(s, now, r)
  BY <1>1 DEF Good, Grounded, LiveCore, Changes, Fields
<1>5. /\ Watched(s, now, r) /\ Placed(s, now) /\ Guarded(s, now) /\ Indexed(now)
      /\ Fitting(now) /\ Later(m, now)
  BY Frame
<1>6. QED
  BY <1>2, <1>3, <1>4, <1>5 DEF Good

LEMMA SchemaKeeps ==
  ASSUME NEW s \in Sides, NEW r \in BOOLEAN, NEW m, Good(s, m, r), NEW schema \in BOOLEAN,
         schema => /\ \A e \in DOMAIN m.inters : m.inters[e].fits
                   /\ \A e \in DOMAIN m.metas : m.metas[e].fits,
         NEW now, Changes(m, now, {"schema"}),
         now.schema = schema
  PROVE  Good(s, now, r) /\ Later(m, now)
<1>1. Metagraph(now)
  BY DEF Good, Metagraph, Changes, Fields
<1>2. Fitting(now)
  BY DEF Fitting, Changes, Fields
<1>3. /\ Watched(s, now, r) /\ Ids(now, r) /\ Placed(s, now) /\ Guarded(s, now)
      /\ Indexed(now) /\ Grounded(s, now, r) /\ Later(m, now)
  BY Frame DEF Core
<1>4. QED
  BY <1>1, <1>2, <1>3 DEF Good

-----------------------------------------------------------------------------
\* What goes out.  The cascade takes every instance that refers to what goes,
\* and every one that holds a cascaded one.
LEMMA DependentsClosed ==
  ASSUME NEW m, NEW X
  PROVE  /\ Dependents(m, X) \subseteq DOMAIN m.insts
         /\ \A u \in DOMAIN m.insts \ Dependents(m, X) :
              m.insts[u] \cap (X \cup Dependents(m, X)) = {}
<1> DEFINE D == Dependents(m, X)
           Closed(C) == \A u \in DOMAIN m.insts : m.insts[u] \cap (X \cup C) # {} => u \in C
<1>1. D \subseteq DOMAIN m.insts
  BY DEF Dependents
<1>2. ASSUME NEW u \in DOMAIN m.insts, m.insts[u] \cap (X \cup D) # {}
      PROVE  u \in D
  <2>1. SUFFICES ASSUME NEW C \in SUBSET DOMAIN m.insts, Closed(C)
                 PROVE  u \in C
    BY DEF Dependents
  <2>2. D \subseteq C
    BY <2>1 DEF Dependents
  <2>3. m.insts[u] \cap (X \cup C) # {}
    BY <1>2, <2>2
  <2>4. QED
    BY <2>1, <2>3
<1>3. QED
  BY <1>1, <1>2

LEMMA DropInstancesKeeps ==
  ASSUME NEW s \in Sides, NEW r \in BOOLEAN, NEW m, Good(s, m, r), NEW gone \in SUBSET Inst,
         \A u \in DOMAIN m.insts \ gone : m.insts[u] \cap gone = {},
         NEW now, Changes(m, now, {"insts", "ids"}),
         now.insts = Without(m.insts, gone), now.ids = m.ids \ gone
  PROVE  Good(s, now, r) /\ Later(m, now)
<1>1. Table(m.insts, Inst, SUBSET Named)
  BY DEF Good, Metagraph
<1>2. /\ Table(now.insts, Inst, SUBSET Named) /\ DOMAIN now.insts = DOMAIN m.insts \ gone
      /\ \A u \in DOMAIN m.insts \ gone : now.insts[u] = m.insts[u]
  BY <1>1 DEF Table, Without, Restrict
<1>3. LiveCore(now) = LiveCore(m) /\ LiveCore(m) \cap gone = {}
  <2>1. LiveCore(m) \subseteq CoreId
    BY DEF Good, Ids
  <2>2. QED
    BY <2>1, KindsAssumption DEF LiveCore, Changes, Fields
<1>4. Metagraph(now)
  BY <1>2 DEF Good, Metagraph, Changes, Fields
<1>5. Ids(now, r)
  <2>1. now.ids \cap CoreId = m.ids \cap CoreId
    BY KindsAssumption
  <2>2. now.ids \cap Inst = (m.ids \cap Inst) \ gone
    OBVIOUS
  <2>3. QED
    BY <1>2, <1>3, <2>1, <2>2 DEF Good, Ids
<1>6. Grounded(s, now, r)
  BY <1>2, <1>3 DEF Good, Grounded
<1>7. /\ Watched(s, now, r) /\ Placed(s, now) /\ Guarded(s, now) /\ Indexed(now)
      /\ Fitting(now) /\ Later(m, now)
  BY Frame
<1>8. QED
  BY <1>4, <1>5, <1>6, <1>7 DEF Good

\* After a cascade no instance refers to what goes.
Free(m, X) == \A u \in DOMAIN m.insts : m.insts[u] \cap X = {}
LEMMA CascadeKeeps ==
  ASSUME NEW s \in Sides, NEW r \in BOOLEAN, NEW m, Good(s, m, r), NEW X
  PROVE  /\ Good(s, Cascade(m, X), r) /\ Later(m, Cascade(m, X))
         /\ Changes(m, Cascade(m, X), {"insts", "ids"}) /\ Free(Cascade(m, X), X)
<1> DEFINE now == Cascade(m, X)
           gone == Dependents(m, X)
<1>1. Changes(m, now, {"insts", "ids"})
  BY DEF Cascade, Changes, Good, Metagraph, Fields
<1>2. now.insts = Without(m.insts, gone) /\ now.ids = m.ids \ gone
  BY DEF Cascade, Good, Metagraph, Fields
<1>3. /\ gone \subseteq DOMAIN m.insts
      /\ \A u \in DOMAIN m.insts \ gone : m.insts[u] \cap (X \cup gone) = {}
  BY DependentsClosed
<1>4. Table(m.insts, Inst, SUBSET Named)
  BY DEF Good, Metagraph
<1> HIDE DEF now, gone
<1>5. gone \in SUBSET Inst /\ \A u \in DOMAIN m.insts \ gone : m.insts[u] \cap gone = {}
  BY <1>3, <1>4 DEF Table
<1>6. Good(s, now, r) /\ Later(m, now)
  BY <1>1, <1>2, <1>5, DropInstancesKeeps
<1>7. Free(now, X)
  <2>1. /\ DOMAIN now.insts = DOMAIN m.insts \ gone
        /\ \A u \in DOMAIN m.insts \ gone : now.insts[u] = m.insts[u]
    BY <1>2, <1>4 DEF Table, Without, Restrict
  <2>2. QED
    BY <1>3, <2>1 DEF Free
<1>8. QED
  BY <1>1, <1>6, <1>7 DEF now

\* Nodes and edges of a graph go.
LEMMA TakeKeeps ==
  ASSUME NEW s \in Sides, NEW r \in BOOLEAN, NEW m, Good(s, m, r),
         NEW X \in SUBSET (Node \cup Edge), s = "origin" /\ ~r => Free(m, X),
         \A e \in DOMAIN m.edges \ X : m.edges[e].ends \cap X = {},
         \A e \in DOMAIN m.inters : \A p \in m.inters[e].ends :
           m.inters[e].comp /\ Watchers(s, p[1]) \cap m.watch[p[1]] # {} /\ EndsLive(m, {p})
             => p[2] \notin X,
         NEW now, Changes(m, now, {"place", "refprop", "edges", "ids"}),
         now.place = Without(m.place, X), now.refprop = Without(m.refprop, X),
         now.edges = Without(m.edges, X), now.ids = m.ids \ X
  PROVE  Good(s, now, r) /\ Later(m, now)
<1>1. /\ Table(m.place, Node, GraphId) /\ Table(m.refprop, Node, Node \cup Edge)
      /\ Table(m.edges, Edge, EdgeRow)
  BY DEF Good, Metagraph
<1>2. /\ Table(now.place, Node, GraphId) /\ DOMAIN now.place = DOMAIN m.place \ X
      /\ \A n \in DOMAIN m.place \ X : now.place[n] = m.place[n]
  BY <1>1 DEF Table, Without, Restrict
<1>3. Table(now.refprop, Node, Node \cup Edge) /\ DOMAIN now.refprop = DOMAIN m.refprop \ X
  BY <1>1 DEF Table, Without, Restrict
<1>4. /\ Table(now.edges, Edge, EdgeRow) /\ DOMAIN now.edges = DOMAIN m.edges \ X
      /\ \A e \in DOMAIN m.edges \ X : now.edges[e] = m.edges[e]
  BY <1>1 DEF Table, Without, Restrict
<1>5. /\ now.graphs = m.graphs /\ now.metas = m.metas /\ now.inters = m.inters
      /\ now.xrefs = m.xrefs /\ now.insts = m.insts /\ now.watch = m.watch
  BY DEF Changes, Fields
<1>6. \A h : NodesOf(now, h) = NodesOf(m, h) \ X
  BY <1>2 DEF NodesOf
<1>7. Metagraph(now)
  BY <1>2, <1>3, <1>4 DEF Good, Metagraph, Changes, Fields
<1>8. LiveCore(now) = LiveCore(m) \ X
  <2>1. /\ m.graphs \cap X = {} /\ DOMAIN m.metas \cap X = {}
        /\ DOMAIN m.inters \cap X = {} /\ DOMAIN m.xrefs \cap X = {}
    BY KindsAssumption DEF Good, Metagraph, Table
  <2>2. QED
    BY <1>2, <1>4, <1>5, <2>1 DEF LiveCore
<1>9. Ids(now, r)
  <2>1. X \cap Inst = {}
    BY KindsAssumption DEF CoreId
  <2>2. QED
    BY <1>5, <1>8, <2>1 DEF Good, Ids
<1>10. Placed(s, now)
  <2>1. Placed(s, m)
    BY DEF Good
  <2>2. QED
    BY <1>2, <1>3, <1>4, <1>5, <1>6, <2>1 DEF Placed
<1>11. Guarded(s, now)
  <2>1. ASSUME NEW e \in DOMAIN m.inters, NEW p \in m.inters[e].ends
        PROVE  /\ p[1] \in now.graphs
               /\ m.inters[e].comp /\ Watchers(s, p[1]) \cap now.watch[p[1]] # {}
                    => EndsLive(now, {p})
    <3>1. /\ p[1] \in m.graphs
          /\ m.inters[e].comp /\ Watchers(s, p[1]) \cap m.watch[p[1]] # {} => EndsLive(m, {p})
      BY DEF Good, Guarded
    <3>2. EndsLive(m, {p}) /\ p[2] \notin X => EndsLive(now, {p})
      BY <1>5, <1>6 DEF EndsLive
    <3>3. QED
      BY <1>5, <3>1, <3>2
  <2>2. QED
    BY <1>5, <2>1 DEF Guarded
<1>12. Grounded(s, now, r)
  BY <1>5, <1>8 DEF Good, Grounded, Free
<1>13. Watched(s, now, r) /\ Indexed(now) /\ Fitting(now) /\ Later(m, now)
  BY Frame
<1>14. QED
  BY <1>7, <1>9, <1>10, <1>11, <1>12, <1>13 DEF Good

LEMMA RemoveMetaKeeps ==
  ASSUME NEW s \in Sides, NEW r \in BOOLEAN, NEW m, Good(s, m, r),
         NEW e \in Meta, Free(m, {e}),
         NEW now, Changes(m, now, {"metas", "ids"}),
         now.metas = Without(m.metas, {e}), now.ids = m.ids \ {e}
  PROVE  Good(s, now, r) /\ Later(m, now)
<1>1. Table(m.metas, Meta, MetaRow)
  BY DEF Good, Metagraph
<1>2. /\ Table(now.metas, Meta, MetaRow) /\ DOMAIN now.metas = DOMAIN m.metas \ {e}
      /\ \A d \in DOMAIN m.metas \ {e} : now.metas[d] = m.metas[d]
  BY <1>1 DEF Table, Without, Restrict
<1>3. Metagraph(now)
  BY <1>2 DEF Good, Metagraph, Changes, Fields
<1>4. LiveCore(now) = LiveCore(m) \ {e}
  <2>1. /\ e \notin m.graphs /\ e \notin DOMAIN m.place /\ e \notin DOMAIN m.edges
        /\ e \notin DOMAIN m.inters /\ e \notin DOMAIN m.xrefs
    BY KindsAssumption DEF Good, Metagraph, Table
  <2>2. QED
    BY <1>2, <2>1 DEF LiveCore, Changes, Fields
<1>5. Ids(now, r)
  <2>1. e \notin Inst /\ now.insts = m.insts
    BY KindsAssumption DEF CoreId, Changes, Fields
  <2>2. QED
    BY <1>4, <2>1 DEF Good, Ids
<1>6. Placed(s, now)
  BY <1>2 DEF Good, Placed, NodesOf, Changes, Fields
<1>7. Grounded(s, now, r)
  BY <1>4 DEF Good, Grounded, Free, Changes, Fields
<1>8. Fitting(now)
  BY <1>2 DEF Good, Fitting, Changes, Fields
<1>9. Watched(s, now, r) /\ Guarded(s, now) /\ Indexed(now) /\ Later(m, now)
  BY Frame
<1>10. QED
  BY <1>3, <1>5, <1>6, <1>7, <1>8, <1>9 DEF Good

LEMMA RemoveInterKeeps ==
  ASSUME NEW s \in Sides, NEW r \in BOOLEAN, NEW m, Good(s, m, r),
         NEW e \in DOMAIN m.inters, ~m.inters[e].comp, Free(m, {e}),
         NEW now, Changes(m, now, {"inters", "ids"}),
         now.inters = Without(m.inters, {e}), now.ids = m.ids \ {e}
  PROVE  Good(s, now, r) /\ Later(m, now)
<1>1. Table(m.inters, Inter, InterRow) /\ e \in Inter
  BY DEF Good, Metagraph, Table
<1>2. /\ Table(now.inters, Inter, InterRow) /\ DOMAIN now.inters = DOMAIN m.inters \ {e}
      /\ \A d \in DOMAIN m.inters \ {e} : now.inters[d] = m.inters[d]
  BY <1>1 DEF Table, Without, Restrict
<1>3. Metagraph(now)
  BY <1>2 DEF Good, Metagraph, Changes, Fields
<1>4. LiveCore(now) = LiveCore(m) \ {e}
  <2>1. /\ e \notin m.graphs /\ e \notin DOMAIN m.place /\ e \notin DOMAIN m.edges
        /\ e \notin DOMAIN m.metas /\ e \notin DOMAIN m.xrefs
    BY <1>1, KindsAssumption DEF Good, Metagraph, Table
  <2>2. QED
    BY <1>2, <2>1 DEF LiveCore, Changes, Fields
<1>5. Ids(now, r)
  <2>1. e \notin Inst /\ now.insts = m.insts
    BY <1>1, KindsAssumption DEF CoreId, Changes, Fields
  <2>2. QED
    BY <1>4, <2>1 DEF Good, Ids
<1>6. Guarded(s, now)
  <2>1. now.graphs = m.graphs /\ now.watch = m.watch /\ now.place = m.place
    BY DEF Changes, Fields
  <2>2. \A d \in DOMAIN m.inters : \A p \in m.inters[d].ends :
          /\ p[1] \in now.graphs
          /\ m.inters[d].comp /\ Watchers(s, p[1]) \cap now.watch[p[1]] # {} => EndsLive(now, {p})
    BY <2>1 DEF Good, Guarded, EndsLive, NodesOf
  <2>3. QED
    BY <1>2, <2>2 DEF Guarded
<1>7. Grounded(s, now, r)
  BY <1>4 DEF Good, Grounded, Free, Changes, Fields
<1>8. Fitting(now)
  BY <1>2 DEF Good, Fitting, Changes, Fields
<1>9. Later(m, now)
  BY <1>2 DEF Later, Changes, Fields
<1>10. Watched(s, now, r) /\ Placed(s, now) /\ Indexed(now)
  BY Frame
<1>11. QED
  BY <1>3, <1>5, <1>6, <1>7, <1>8, <1>9, <1>10 DEF Good

LEMMA IndexesWithout ==
  ASSUME NEW xs, NEW x \in DOMAIN xs, NEW now, DOMAIN now = DOMAIN xs \ {x},
         \A y \in DOMAIN xs \ {x} : now[y] = xs[y]
  PROVE  /\ {<<now[y].src, y>> : y \in DOMAIN now}
              = {<<xs[y].src, y>> : y \in DOMAIN xs} \ {<<xs[x].src, x>>}
         /\ {<<now[y].tmg, now[y].tgt, y>> : y \in DOMAIN now}
              = {<<xs[y].tmg, xs[y].tgt, y>> : y \in DOMAIN xs} \ {<<xs[x].tmg, xs[x].tgt, x>>}
OBVIOUS

LEMMA RemoveXRefKeeps ==
  ASSUME NEW s \in Sides, NEW r \in BOOLEAN, NEW m, Good(s, m, r), NEW x \in DOMAIN m.xrefs,
         NEW now, Changes(m, now, {"xrefs", "bySource", "byTarget", "ids"}),
         now.xrefs = Without(m.xrefs, {x}), now.ids = m.ids \ {x},
         now.bySource = m.bySource \ {<<m.xrefs[x].src, x>>},
         now.byTarget = m.byTarget \ {<<m.xrefs[x].tmg, m.xrefs[x].tgt, x>>}
  PROVE  Good(s, now, r) /\ Later(m, now)
<1>1. Table(m.xrefs, XRef, XRefRow) /\ x \in XRef
  BY DEF Good, Metagraph, Table
<1>2. /\ Table(now.xrefs, XRef, XRefRow) /\ DOMAIN now.xrefs = DOMAIN m.xrefs \ {x}
      /\ \A d \in DOMAIN m.xrefs \ {x} : now.xrefs[d] = m.xrefs[d]
  BY <1>1 DEF Table, Without, Restrict
<1>3. Metagraph(now)
  BY <1>2 DEF Good, Metagraph, Changes, Fields
<1>4. LiveCore(now) = LiveCore(m) \ {x}
  <2>1. /\ x \notin m.graphs /\ x \notin DOMAIN m.place /\ x \notin DOMAIN m.edges
        /\ x \notin DOMAIN m.metas /\ x \notin DOMAIN m.inters
    BY <1>1, KindsAssumption DEF Good, Metagraph, Table
  <2>2. QED
    BY <1>2, <2>1 DEF LiveCore, Changes, Fields
<1>5. Ids(now, r)
  <2>1. x \notin Inst /\ now.insts = m.insts
    BY <1>1, KindsAssumption DEF CoreId, Changes, Fields
  <2>2. QED
    BY <1>4, <2>1 DEF Good, Ids
<1>6. Indexed(now)
  BY <1>2, IndexesWithout DEF Good, Indexed
<1>7. Grounded(s, now, r)
  <2>1. \A t \in DOMAIN m.insts : x \notin m.insts[t]
    <3>1. x \notin Named
      BY <1>1, KindsAssumption DEF Named, CoreId
    <3>2. QED
      BY <3>1 DEF Good, Metagraph, Table
  <2>2. QED
    BY <1>4, <2>1 DEF Good, Grounded, Changes, Fields
<1>8. Watched(s, now, r) /\ Placed(s, now) /\ Guarded(s, now) /\ Fitting(now) /\ Later(m, now)
  BY Frame
<1>9. QED
  BY <1>3, <1>5, <1>6, <1>7, <1>8 DEF Good

\* What a removed graph takes along: its nodes and edges, and every edge
\* between graphs that ends in it.
Taken(m, g) ==
  {g} \cup Contents(m, g) \cup {e \in DOMAIN m.metas : g \in m.metas[e].ends}
    \cup {e \in DOMAIN m.inters : \E p \in m.inters[e].ends : p[1] = g}
LEMMA TakenIs ==
  ASSUME NEW s \in Sides, NEW r \in BOOLEAN, NEW m, Good(s, m, r), NEW g \in m.graphs
  PROVE  /\ Taken(m, g) \subseteq LiveCore(m) /\ Taken(m, g) \cap Inst = {}
         /\ Taken(m, g) \cap m.graphs = {g} /\ Taken(m, g) \cap DOMAIN m.place = NodesOf(m, g)
         /\ Taken(m, g) \cap DOMAIN m.edges = EdgesOf(m, g)
         /\ Taken(m, g) \cap DOMAIN m.metas = {e \in DOMAIN m.metas : g \in m.metas[e].ends}
         /\ Taken(m, g) \cap DOMAIN m.inters
              = {e \in DOMAIN m.inters : \E p \in m.inters[e].ends : p[1] = g}
         /\ Taken(m, g) \cap DOMAIN m.xrefs = {}
<1> DEFINE metas == {e \in DOMAIN m.metas : g \in m.metas[e].ends}
           inters == {e \in DOMAIN m.inters : \E p \in m.inters[e].ends : p[1] = g}
<1>1. /\ m.graphs \subseteq GraphId /\ DOMAIN m.place \subseteq Node /\ DOMAIN m.edges \subseteq Edge
      /\ DOMAIN m.metas \subseteq Meta /\ DOMAIN m.inters \subseteq Inter
      /\ DOMAIN m.xrefs \subseteq XRef
  BY DEF Good, Metagraph, Table
<1>2. /\ NodesOf(m, g) \subseteq DOMAIN m.place /\ EdgesOf(m, g) \subseteq DOMAIN m.edges
      /\ metas \subseteq DOMAIN m.metas /\ inters \subseteq DOMAIN m.inters
  BY DEF NodesOf, EdgesOf
<1>3. Taken(m, g) = {g} \cup NodesOf(m, g) \cup EdgesOf(m, g) \cup metas \cup inters
  BY DEF Taken, Contents
<1> HIDE DEF metas, inters
<1>4. Taken(m, g) \subseteq LiveCore(m)
  BY <1>2, <1>3 DEF LiveCore
<1>5. Taken(m, g) \cap Inst = {}
  BY <1>1, <1>2, <1>3, KindsAssumption DEF CoreId
<1>6. /\ Taken(m, g) \cap m.graphs = {g} /\ Taken(m, g) \cap DOMAIN m.place = NodesOf(m, g)
      /\ Taken(m, g) \cap DOMAIN m.edges = EdgesOf(m, g)
  BY <1>1, <1>2, <1>3, KindsAssumption
<1>7. /\ Taken(m, g) \cap DOMAIN m.metas = metas /\ Taken(m, g) \cap DOMAIN m.inters = inters
      /\ Taken(m, g) \cap DOMAIN m.xrefs = {}
  BY <1>1, <1>2, <1>3, KindsAssumption
<1>8. QED
  BY <1>4, <1>5, <1>6, <1>7 DEF metas, inters

LEMMA RemoveGraphKeeps ==
  ASSUME NEW s \in Sides, NEW r \in BOOLEAN, NEW m, Good(s, m, r), NEW g \in m.graphs, NEW X,
         X = Taken(m, g), Free(m, X), \A e \in DOMAIN m.inters \cap X : ~m.inters[e].comp,
         NEW now, Changes(m, now, {"graphs", "place", "refprop", "edges", "metas", "inters",
                                   "xrefs", "ids", "watch"}),
         now.graphs = m.graphs \ X, now.place = Without(m.place, X),
         now.refprop = Without(m.refprop, X), now.edges = Without(m.edges, X),
         now.metas = Without(m.metas, X), now.inters = Without(m.inters, X),
         now.ids = m.ids \ X, now.watch = Without(m.watch, X),
         Table(now.xrefs, XRef, XRefRow), DOMAIN now.xrefs = DOMAIN m.xrefs,
         \A x \in DOMAIN m.xrefs : /\ now.xrefs[x].src = m.xrefs[x].src
                                   /\ now.xrefs[x].tmg = m.xrefs[x].tmg
                                   /\ now.xrefs[x].tgt = m.xrefs[x].tgt
  PROVE  Good(s, now, r) /\ Later(m, now)
<1>1. /\ X \subseteq LiveCore(m) /\ X \cap Inst = {}
      /\ X \cap m.graphs = {g} /\ X \cap DOMAIN m.place = NodesOf(m, g)
      /\ X \cap DOMAIN m.edges = EdgesOf(m, g)
      /\ X \cap DOMAIN m.metas = {e \in DOMAIN m.metas : g \in m.metas[e].ends}
      /\ X \cap DOMAIN m.inters = {e \in DOMAIN m.inters : \E p \in m.inters[e].ends : p[1] = g}
      /\ X \cap DOMAIN m.xrefs = {}
  BY TakenIs
<1>2. /\ Table(m.place, Node, GraphId) /\ Table(m.refprop, Node, Node \cup Edge)
      /\ Table(m.edges, Edge, EdgeRow) /\ Table(m.metas, Meta, MetaRow)
      /\ Table(m.inters, Inter, InterRow) /\ Table(m.watch, GraphId, SUBSET Watcher)
  BY DEF Good, Metagraph
<1>3. /\ Table(now.place, Node, GraphId) /\ DOMAIN now.place = DOMAIN m.place \ X
      /\ \A n \in DOMAIN m.place \ X : now.place[n] = m.place[n]
  BY <1>2 DEF Table, Without, Restrict
<1>4. Table(now.refprop, Node, Node \cup Edge) /\ DOMAIN now.refprop = DOMAIN m.refprop \ X
  BY <1>2 DEF Table, Without, Restrict
<1>5. /\ Table(now.edges, Edge, EdgeRow) /\ DOMAIN now.edges = DOMAIN m.edges \ X
      /\ \A e \in DOMAIN m.edges \ X : now.edges[e] = m.edges[e]
  BY <1>2 DEF Table, Without, Restrict
<1>6. /\ Table(now.metas, Meta, MetaRow) /\ DOMAIN now.metas = DOMAIN m.metas \ X
      /\ \A e \in DOMAIN m.metas \ X : now.metas[e] = m.metas[e]
  BY <1>2 DEF Table, Without, Restrict
<1>7. /\ Table(now.inters, Inter, InterRow) /\ DOMAIN now.inters = DOMAIN m.inters \ X
      /\ \A e \in DOMAIN m.inters \ X : now.inters[e] = m.inters[e]
  BY <1>2 DEF Table, Without, Restrict
<1>8. /\ Table(now.watch, GraphId, SUBSET Watcher) /\ DOMAIN now.watch = DOMAIN m.watch \ X
      /\ \A h \in DOMAIN m.watch \ X : now.watch[h] = m.watch[h]
  BY <1>2 DEF Table, Without, Restrict
<1>9. now.graphs = m.graphs \ {g} /\ DOMAIN m.watch = m.graphs
  BY <1>1 DEF Good, Watched
<1>10. Metagraph(now)
  BY <1>3, <1>4, <1>5, <1>6, <1>7, <1>8 DEF Good, Metagraph, Changes, Fields
<1>11. Watched(s, now, r)
  <2>1. DOMAIN now.watch = now.graphs /\ \A h \in now.graphs : now.watch[h] = m.watch[h]
    BY <1>1, <1>8, <1>9
  <2>2. QED
    BY <1>9, <2>1 DEF Good, Watched
<1>12. LiveCore(now) = LiveCore(m) \ X
  BY <1>1, <1>3, <1>5, <1>6, <1>7 DEF LiveCore
<1>13. Ids(now, r)
  <2>1. now.insts = m.insts
    BY DEF Changes, Fields
  <2>2. QED
    BY <1>1, <1>12, <2>1 DEF Good, Ids
<1>14. \A h : NodesOf(now, h) = IF h = g THEN {} ELSE NodesOf(m, h)
  BY <1>1, <1>3 DEF NodesOf
<1>15. Placed(s, now)
  <2>1. Placed(s, m)
    BY DEF Good
  <2>2. DOMAIN now.refprop \subseteq DOMAIN now.place
    BY <1>3, <1>4, <2>1 DEF Placed
  <2>3. \A n \in DOMAIN now.place : now.place[n] \in now.graphs
    BY <1>1, <1>3, <1>9, <2>1 DEF Placed, NodesOf
  <2>4. \A e \in DOMAIN now.edges : /\ now.edges[e].at \in now.graphs
                                    /\ now.edges[e].ends \subseteq NodesOf(now, now.edges[e].at)
    <3>1. ASSUME NEW e \in DOMAIN now.edges
          PROVE  /\ now.edges[e].at \in now.graphs
                 /\ now.edges[e].ends \subseteq NodesOf(now, now.edges[e].at)
      <4>1. now.edges[e] = m.edges[e] /\ e \in DOMAIN m.edges /\ e \notin EdgesOf(m, g)
        BY <1>1, <1>5
      <4>2. /\ m.edges[e].at \in m.graphs /\ m.edges[e].at # g
            /\ m.edges[e].ends \subseteq NodesOf(m, m.edges[e].at)
        BY <2>1, <4>1 DEF EdgesOf, Placed
      <4>3. QED
        BY <1>9, <1>14, <4>1, <4>2
    <3>2. QED
      BY <3>1
  <2>5. s = "origin" => \A e \in DOMAIN now.metas : now.metas[e].ends \subseteq now.graphs
    BY <1>1, <1>6, <1>9, <2>1 DEF Placed
  <2>6. QED
    BY <2>2, <2>3, <2>4, <2>5 DEF Placed
<1>16. \A e \in DOMAIN now.inters :
         /\ e \in DOMAIN m.inters /\ now.inters[e] = m.inters[e]
         /\ \A p \in m.inters[e].ends : p[1] # g
  BY <1>1, <1>7
<1>17. Guarded(s, now)
  <2>1. ASSUME NEW e \in DOMAIN now.inters, NEW p \in now.inters[e].ends
        PROVE  /\ p[1] \in now.graphs
               /\ now.inters[e].comp /\ Watchers(s, p[1]) \cap now.watch[p[1]] # {}
                    => EndsLive(now, {p})
    <3>1. /\ e \in DOMAIN m.inters /\ now.inters[e] = m.inters[e] /\ p \in m.inters[e].ends
          /\ p[1] # g
      BY <1>16, <2>1
    <3>2. /\ p[1] \in m.graphs
          /\ m.inters[e].comp /\ Watchers(s, p[1]) \cap m.watch[p[1]] # {} => EndsLive(m, {p})
      BY <3>1 DEF Good, Guarded
    <3>3. p[1] \in now.graphs /\ now.watch[p[1]] = m.watch[p[1]]
      BY <1>1, <1>8, <1>9, <3>1, <3>2
    <3>4. EndsLive(m, {p}) => EndsLive(now, {p})
      BY <1>14, <3>1, <3>3 DEF EndsLive
    <3>5. QED
      BY <3>1, <3>2, <3>3, <3>4
  <2>2. QED
    BY <2>1 DEF Guarded
<1>18. Later(m, now)
  <2>1. ASSUME NEW e \in DOMAIN m.inters, m.inters[e].comp
        PROVE  /\ e \in DOMAIN now.inters /\ now.inters[e] = m.inters[e]
               /\ \A p \in m.inters[e].ends : now.watch[p[1]] = m.watch[p[1]]
    <3>1. e \notin X
      BY <2>1
    <3>2. e \in DOMAIN now.inters /\ now.inters[e] = m.inters[e]
      BY <1>7, <3>1
    <3>3. \A p \in m.inters[e].ends : p[1] \in m.graphs /\ p[1] # g
      BY <1>16, <3>2 DEF Good, Guarded
    <3>4. QED
      BY <1>1, <1>8, <1>9, <3>2, <3>3
  <2>2. QED
    BY <2>1 DEF Later
<1>19. Indexed(now)
  <2>1. now.bySource = m.bySource /\ now.byTarget = m.byTarget
    BY DEF Changes, Fields
  <2>2. /\ {<<now.xrefs[x].src, x>> : x \in DOMAIN now.xrefs}
             = {<<m.xrefs[x].src, x>> : x \in DOMAIN m.xrefs}
        /\ {<<now.xrefs[x].tmg, now.xrefs[x].tgt, x>> : x \in DOMAIN now.xrefs}
             = {<<m.xrefs[x].tmg, m.xrefs[x].tgt, x>> : x \in DOMAIN m.xrefs}
    OBVIOUS
  <2>3. QED
    BY <2>1, <2>2 DEF Good, Indexed
<1>20. Grounded(s, now, r)
  <2>1. now.insts = m.insts
    BY DEF Changes, Fields
  <2>2. QED
    BY <1>12, <2>1 DEF Good, Grounded, Free
<1>21. Fitting(now)
  BY <1>6, <1>7 DEF Good, Fitting, Changes, Fields
<1>22. QED
  BY <1>10, <1>11, <1>13, <1>15, <1>17, <1>18, <1>19, <1>20, <1>21 DEF Good

-----------------------------------------------------------------------------
\* Rollback and fork.
LEMMA RestoreKeeps ==
  ASSUME NEW r \in BOOLEAN, NEW m, Good("origin", m, TRUE), NEW cur, Good("origin", cur, r),
         Later(m, cur), NEW now, Changes(m, now, {"insts", "watch"}), now.insts = cur.insts,
         now.watch = [g \in m.graphs |-> IF g \in cur.graphs THEN cur.watch[g] ELSE {}]
  PROVE  Good("origin", now, TRUE) /\ Later(m, now)
<1>1. /\ Table(now.watch, GraphId, SUBSET Watcher) /\ Table(now.insts, Inst, SUBSET Named)
      /\ DOMAIN now.watch = m.graphs
  BY DEF Good, Metagraph, Table, Watched
<1>2. Metagraph(now)
  BY <1>1 DEF Good, Metagraph, Changes, Fields
<1>3. Watched("origin", now, TRUE)
  <2>1. m.graphs \subseteq MintedBy("origin") /\ now.graphs = m.graphs
    BY DEF Good, Watched, Changes, Fields
  <2>2. \A g \in m.graphs : now.watch[g] = {} \/ now.watch[g] = Watchers("origin", g)
    BY DEF Good, Watched
  <2>3. QED
    BY <1>1, <2>1, <2>2 DEF Watched
<1>4. \A e \in DOMAIN m.inters : \A p \in m.inters[e].ends :
        m.inters[e].comp => now.watch[p[1]] \subseteq m.watch[p[1]]
  BY DEF Later, Good, Guarded
<1>5. Guarded("origin", now)
  <2>1. /\ now.graphs = m.graphs /\ now.place = m.place /\ now.inters = m.inters
    BY DEF Changes, Fields
  <2>2. ASSUME NEW e \in DOMAIN m.inters, NEW p \in m.inters[e].ends
        PROVE  /\ p[1] \in now.graphs
               /\ m.inters[e].comp /\ Watchers("origin", p[1]) \cap now.watch[p[1]] # {}
                    => EndsLive(now, {p})
    <3>1. /\ p[1] \in m.graphs
          /\ m.inters[e].comp /\ Watchers("origin", p[1]) \cap m.watch[p[1]] # {}
               => EndsLive(m, {p})
      BY DEF Good, Guarded
    <3>2. EndsLive(m, {p}) => EndsLive(now, {p})
      BY <2>1 DEF EndsLive, NodesOf
    <3>3. QED
      BY <1>4, <2>1, <3>1, <3>2
  <2>3. QED
    BY <2>1, <2>2 DEF Guarded
<1>6. Later(m, now)
  BY <1>4 DEF Later, Changes, Fields
<1>7. Ids(now, TRUE) /\ Grounded("origin", now, TRUE)
  BY DEF Good, Ids, Grounded, LiveCore, Changes, Fields
<1>8. Placed("origin", now) /\ Indexed(now) /\ Fitting(now)
  BY DEF Good, Placed, Indexed, Fitting, NodesOf, Changes, Fields
<1>9. QED
  BY <1>2, <1>3, <1>5, <1>6, <1>7, <1>8 DEF Good

LEMMA LaterTransitive ==
  ASSUME NEW a, NEW b, NEW c, Later(a, b), Later(b, c)
  PROVE  Later(a, c)
<1>1. ASSUME NEW e \in DOMAIN a.inters, a.inters[e].comp
      PROVE  /\ e \in DOMAIN c.inters /\ c.inters[e].comp
             /\ c.inters[e].ends = a.inters[e].ends
             /\ \A p \in a.inters[e].ends : c.watch[p[1]] \subseteq a.watch[p[1]]
  <2>1. /\ e \in DOMAIN b.inters /\ b.inters[e].comp /\ b.inters[e].ends = a.inters[e].ends
        /\ \A p \in a.inters[e].ends : b.watch[p[1]] \subseteq a.watch[p[1]]
    BY <1>1 DEF Later
  <2>2. /\ e \in DOMAIN c.inters /\ c.inters[e].comp /\ c.inters[e].ends = b.inters[e].ends
        /\ \A p \in b.inters[e].ends : c.watch[p[1]] \subseteq b.watch[p[1]]
    BY <2>1 DEF Later
  <2>3. QED
    BY <2>1, <2>2
<1>2. QED
  BY <1>1 DEF Later

LEMMA LaterReflexive ==
  ASSUME NEW m
  PROVE  Later(m, m)
BY DEF Later

\* A fork has the graphs of the origin under new ids, so that no closure that
\* came along guards it.
LEMMA ReidIs ==
  ASSUME NEW gs \in SUBSET MintedBy("origin")
  PROVE  /\ \A g \in gs : /\ g \in GraphId /\ Reid(g) \in MintedBy("fork")
                          /\ <<Reid(g)[1], "origin">> = g
         /\ \A g, h \in gs : Reid(g) = Reid(h) => g = h
         /\ MintedBy("fork") \subseteq GraphId
BY DEF MintedBy, Reid, GraphId, Sides

\* The parts of a fork, field by field.
Regenerated(m, now) ==
  /\ DOMAIN now = Fields
  /\ now.graphs = {Reid(g) : g \in m.graphs}
  /\ now.place = [n \in DOMAIN m.place |-> Reid(m.place[n])]
  /\ now.refprop = m.refprop
  /\ now.edges = [e \in DOMAIN m.edges |-> ReidEdge(m.edges[e])]
  /\ now.metas = m.metas
  /\ now.inters = [e \in DOMAIN m.inters |-> ReidInter(m.inters[e])]
  /\ now.xrefs = [x \in DOMAIN m.xrefs |-> ReidXRef(m.xrefs[x])]
  /\ now.insts = [t \in DOMAIN m.insts |-> {ReidAny(x) : x \in m.insts[t]}]
  /\ now.bySource = m.bySource
  /\ now.byTarget = {<<ReidMg(t[1]), t[2], t[3]>> : t \in m.byTarget}
  /\ now.ids = {ReidAny(x) : x \in m.ids}
  /\ now.schema = m.schema
  /\ now.watch = [g \in {Reid(h) : h \in m.graphs} |-> m.watch[<<g[1], "origin">>]]
LEMMA RegenerateIs ==
  ASSUME NEW m, DOMAIN m = Fields
  PROVE  Regenerated(m, Regenerate(m))
<1> DEFINE now == Regenerate(m)
<1>1. DOMAIN now = Fields
  BY DEF Regenerate
<1>2. now.graphs = {Reid(g) : g \in m.graphs}
  BY DEF Regenerate, Fields
<1>3. now.place = [n \in DOMAIN m.place |-> Reid(m.place[n])]
  BY DEF Regenerate, Fields
<1>4. now.edges = [e \in DOMAIN m.edges |-> ReidEdge(m.edges[e])]
  BY DEF Regenerate, Fields
<1>5. now.inters = [e \in DOMAIN m.inters |-> ReidInter(m.inters[e])]
  BY DEF Regenerate, Fields
<1>6. now.xrefs = [x \in DOMAIN m.xrefs |-> ReidXRef(m.xrefs[x])]
  BY DEF Regenerate, Fields
<1>7. now.insts = [t \in DOMAIN m.insts |-> {ReidAny(x) : x \in m.insts[t]}]
  BY DEF Regenerate, Fields
<1>8. now.byTarget = {<<ReidMg(t[1]), t[2], t[3]>> : t \in m.byTarget}
  BY DEF Regenerate, Fields
<1>9. now.ids = {ReidAny(x) : x \in m.ids}
  BY DEF Regenerate, Fields
<1>10. now.watch = [g \in {Reid(h) : h \in m.graphs} |-> m.watch[<<g[1], "origin">>]]
  BY DEF Regenerate, Fields
<1>11. /\ now.refprop = m.refprop /\ now.metas = m.metas /\ now.bySource = m.bySource
       /\ now.schema = m.schema
  BY DEF Regenerate, Fields
<1> HIDE DEF now
<1>12. Regenerated(m, now)
  BY <1>1, <1>2, <1>3, <1>4, <1>5, <1>6, <1>7, <1>8, <1>9, <1>10, <1>11 DEF Regenerated
<1>13. QED
  BY <1>12 DEF now

LEMMA TargetsIs ==
  ASSUME NEW xs, NEW ts, ts = {<<xs[x].tmg, xs[x].tgt, x>> : x \in DOMAIN xs}
  PROVE  {<<ReidMg(t[1]), t[2], t[3]>> : t \in ts}
           = {<<ReidMg(xs[x].tmg), xs[x].tgt, x>> : x \in DOMAIN xs}
<1>1. ASSUME NEW t \in ts
      PROVE  \E x \in DOMAIN xs :
               <<ReidMg(t[1]), t[2], t[3]>> = <<ReidMg(xs[x].tmg), xs[x].tgt, x>>
  OBVIOUS
<1>2. ASSUME NEW x \in DOMAIN xs
      PROVE  \E t \in ts :
               <<ReidMg(t[1]), t[2], t[3]>> = <<ReidMg(xs[x].tmg), xs[x].tgt, x>>
  <2>1. <<xs[x].tmg, xs[x].tgt, x>> \in ts
    OBVIOUS
  <2>2. QED
    BY <2>1
<1>3. QED
  BY <1>1, <1>2

LEMMA RegenerateKeeps ==
  ASSUME NEW r \in BOOLEAN, NEW m, Good("origin", m, r), NEW now, Regenerated(m, now)
  PROVE  Good("fork", now, r)
<1>1. /\ m.graphs \subseteq MintedBy("origin") /\ DOMAIN m.watch = m.graphs
      /\ \A g \in m.graphs : m.watch[g] = {} \/ m.watch[g] = Watchers("origin", g)
  BY DEF Good, Watched
<1>2. /\ \A g \in m.graphs : Reid(g) \in MintedBy("fork") /\ <<Reid(g)[1], "origin">> = g
      /\ \A g, h \in m.graphs : Reid(g) = Reid(h) => g = h
      /\ MintedBy("fork") \subseteq GraphId
  BY <1>1, ReidIs
<1>3. /\ Table(m.place, Node, GraphId) /\ Table(m.refprop, Node, Node \cup Edge)
      /\ Table(m.edges, Edge, EdgeRow) /\ Table(m.metas, Meta, MetaRow)
      /\ Table(m.inters, Inter, InterRow) /\ Table(m.xrefs, XRef, XRefRow)
      /\ Table(m.insts, Inst, SUBSET Named)
  BY DEF Good, Metagraph
<1>4. \A g \in GraphId : Reid(g) \in GraphId
  BY DEF GraphId, Sides, Reid
\* Field by field.
<1>5. /\ now.graphs \subseteq MintedBy("fork")
      /\ \A g \in m.graphs : Reid(g) \in now.graphs
  BY <1>2 DEF Regenerated
<1>6. Table(now.watch, GraphId, SUBSET Watcher) /\ Watched("fork", now, r)
  <2>1. /\ DOMAIN now.watch = now.graphs
        /\ \A g \in m.graphs : now.watch[Reid(g)] = m.watch[g]
    BY <1>2 DEF Regenerated
  <2>2. \A h \in now.graphs : \E g \in m.graphs : h = Reid(g)
    BY DEF Regenerated
  <2>3. \A h \in now.graphs : \/ now.watch[h] = {}
                              \/ now.watch[h] = Watchers("origin", <<h[1], "origin">>)
    BY <1>1, <1>2, <2>1, <2>2
  <2>4. \A h \in now.graphs : now.watch[h] \in SUBSET Watcher
    <3>1. \A g \in m.graphs : m.watch[g] \in SUBSET Watcher
      BY <1>1 DEF Good, Metagraph, Table
    <3>2. QED
      BY <2>1, <2>2, <3>1
  <2>5. now.watch = [g \in {Reid(h) : h \in m.graphs} |-> m.watch[<<g[1], "origin">>]]
    BY DEF Regenerated
  <2>6. QED
    BY <1>2, <1>5, <2>1, <2>3, <2>4, <2>5 DEF Table, Watched
<1>7. /\ Table(now.place, Node, GraphId) /\ DOMAIN now.place = DOMAIN m.place
      /\ \A n \in DOMAIN m.place : now.place[n] = Reid(m.place[n])
  BY <1>3, <1>4 DEF Regenerated, Table
<1>8. /\ Table(now.edges, Edge, EdgeRow) /\ DOMAIN now.edges = DOMAIN m.edges
      /\ \A e \in DOMAIN m.edges : now.edges[e].at = Reid(m.edges[e].at)
                                   /\ now.edges[e].ends = m.edges[e].ends
  <2>1. ASSUME NEW row \in EdgeRow
        PROVE  /\ ReidEdge(row) \in EdgeRow /\ ReidEdge(row).at = Reid(row.at)
               /\ ReidEdge(row).ends = row.ends
    BY <1>4 DEF ReidEdge, EdgeRow
  <2>2. now.edges = [e \in DOMAIN m.edges |-> ReidEdge(m.edges[e])]
    BY DEF Regenerated
  <2>3. QED
    BY <1>3, <2>1, <2>2 DEF Table
<1>9. /\ Table(now.inters, Inter, InterRow) /\ DOMAIN now.inters = DOMAIN m.inters
      /\ \A e \in DOMAIN m.inters :
           /\ now.inters[e].ends = {<<Reid(p[1]), p[2]>> : p \in m.inters[e].ends}
           /\ now.inters[e].fits = m.inters[e].fits
  <2>1. ASSUME NEW row \in InterRow
        PROVE  /\ ReidInter(row) \in InterRow
               /\ ReidInter(row).ends = {<<Reid(p[1]), p[2]>> : p \in row.ends}
               /\ ReidInter(row).fits = row.fits
    BY <1>4 DEF ReidInter, InterRow
  <2>2. now.inters = [e \in DOMAIN m.inters |-> ReidInter(m.inters[e])]
    BY DEF Regenerated
  <2>3. QED
    BY <1>3, <2>1, <2>2 DEF Table
<1>10. /\ Table(now.xrefs, XRef, XRefRow) /\ DOMAIN now.xrefs = DOMAIN m.xrefs
       /\ \A x \in DOMAIN m.xrefs : /\ now.xrefs[x].src = m.xrefs[x].src
                                    /\ now.xrefs[x].tmg = ReidMg(m.xrefs[x].tmg)
                                    /\ now.xrefs[x].tgt = m.xrefs[x].tgt
  <2>1. ASSUME NEW row \in XRefRow
        PROVE  /\ ReidXRef(row) \in XRefRow /\ ReidXRef(row).src = row.src
               /\ ReidXRef(row).tmg = ReidMg(row.tmg) /\ ReidXRef(row).tgt = row.tgt
    BY DEF ReidXRef, XRefRow, ReidMg, Sides
  <2>2. now.xrefs = [x \in DOMAIN m.xrefs |-> ReidXRef(m.xrefs[x])]
    BY DEF Regenerated
  <2>3. QED
    BY <1>3, <2>1, <2>2 DEF Table
<1>11. Table(now.insts, Inst, SUBSET Named) /\ DOMAIN now.insts = DOMAIN m.insts
  <2>1. \A x \in Named : ReidAny(x) \in Named
    <3>1. \A x \in GraphId : Reid(x) \in Named
      BY <1>4, KindsAssumption DEF Named, CoreId
    <3>2. QED
      BY <3>1 DEF ReidAny
  <2>2. \A t \in DOMAIN m.insts : {ReidAny(x) : x \in m.insts[t]} \in SUBSET Named
    BY <1>3, <2>1 DEF Table
  <2>3. now.insts = [t \in DOMAIN m.insts |-> {ReidAny(x) : x \in m.insts[t]}]
    BY DEF Regenerated
  <2>4. QED
    BY <1>3, <2>2, <2>3 DEF Table
<1>12. m.ids \subseteq CoreId \cup Inst /\ now.ids = {ReidAny(x) : x \in m.ids}
  BY DEF Good, Metagraph, Regenerated
<1>13. /\ \A x \in m.ids : ReidAny(x) \in CoreId <=> x \in CoreId
       /\ \A x \in m.ids : ReidAny(x) \in Inst <=> x \in Inst
       /\ \A x \in m.ids : ReidAny(x) \in CoreId \cup Inst
  <2>1. \A x \in GraphId : Reid(x) \in CoreId /\ x \in CoreId /\ Reid(x) \notin Inst /\ x \notin Inst
    BY <1>4, KindsAssumption DEF CoreId
  <2>2. QED
    BY <1>12, <2>1 DEF ReidAny
<1>14. Metagraph(now)
  <2>1. now.ids \subseteq CoreId \cup Inst
    BY <1>12, <1>13
  <2>2. QED
    BY <1>2, <1>3, <1>5, <1>6, <1>7, <1>8, <1>9, <1>10, <1>11, <2>1
       DEF Good, Metagraph, Regenerated
\* The rest.
<1>15. Ids(now, r)
  <2>1. m.ids \cap CoreId = LiveCore(m) /\ (r \/ m.ids \cap Inst = DOMAIN m.insts)
    BY DEF Good, Ids
  <2>2. now.ids \cap Inst = m.ids \cap Inst
    <3>1. \A x \in Inst : ReidAny(x) = x
      BY KindsAssumption DEF ReidAny, CoreId
    <3>2. QED
      BY <1>12, <1>13, <3>1
  <2>3. now.ids \cap CoreId = {ReidAny(x) : x \in LiveCore(m)}
    BY <1>12, <1>13, <2>1
  <2>4. LiveCore(now) = {ReidAny(x) : x \in LiveCore(m)}
    <3>1. m.graphs \subseteq GraphId /\ now.graphs = {Reid(g) : g \in m.graphs}
      BY DEF Good, Metagraph, Regenerated
    <3>2. now.graphs = {ReidAny(g) : g \in m.graphs}
      BY <3>1 DEF ReidAny
    <3>3. ASSUME NEW S, S \cap GraphId = {}
          PROVE  {ReidAny(x) : x \in S} = S
      BY <3>3 DEF ReidAny
    <3>4. /\ {ReidAny(x) : x \in DOMAIN m.place} = DOMAIN m.place
          /\ {ReidAny(x) : x \in DOMAIN m.edges} = DOMAIN m.edges
          /\ {ReidAny(x) : x \in DOMAIN m.metas} = DOMAIN m.metas
          /\ {ReidAny(x) : x \in DOMAIN m.inters} = DOMAIN m.inters
          /\ {ReidAny(x) : x \in DOMAIN m.xrefs} = DOMAIN m.xrefs
      <4>1. /\ DOMAIN m.place \cap GraphId = {} /\ DOMAIN m.edges \cap GraphId = {}
            /\ DOMAIN m.metas \cap GraphId = {} /\ DOMAIN m.inters \cap GraphId = {}
            /\ DOMAIN m.xrefs \cap GraphId = {}
        BY <1>3, KindsAssumption DEF Table
      <4>2. QED
        BY <4>1, <3>3
    <3>5. now.metas = m.metas
      BY DEF Regenerated
    <3>6. QED
      BY <1>7, <1>8, <1>9, <1>10, <3>2, <3>4, <3>5 DEF LiveCore
  <2>5. QED
    BY <1>11, <2>1, <2>2, <2>3, <2>4 DEF Ids
<1>16. Placed("fork", now)
  <2>1. Placed("origin", m) /\ now.refprop = m.refprop
    BY DEF Good, Regenerated
  <2>2. \A n \in DOMAIN now.place : now.place[n] \in now.graphs
    BY <1>5, <1>7, <2>1 DEF Placed
  <2>3. \A e \in DOMAIN now.edges : /\ now.edges[e].at \in now.graphs
                                    /\ now.edges[e].ends \subseteq NodesOf(now, now.edges[e].at)
    BY <1>5, <1>7, <1>8, <2>1 DEF Placed, NodesOf
  <2>4. QED
    BY <1>7, <2>1, <2>2, <2>3 DEF Placed
<1>17. Guarded("fork", now)
  <2>1. ASSUME NEW e \in DOMAIN now.inters, NEW p \in now.inters[e].ends
        PROVE  p[1] \in now.graphs
    <3>1. PICK q \in m.inters[e].ends : p = <<Reid(q[1]), q[2]>>
      BY <1>9
    <3>2. q[1] \in m.graphs
      BY <1>9 DEF Good, Guarded
    <3>3. QED
      BY <1>5, <3>1, <3>2
  <2>2. \A h \in now.graphs : Watchers("fork", h) \cap now.watch[h] = {}
    <3>1. \A h \in now.graphs : \/ now.watch[h] = {}
                                \/ now.watch[h] = Watchers("origin", <<h[1], "origin">>)
      <4>1. \A h \in now.graphs : \E g \in m.graphs : h = Reid(g)
        BY DEF Regenerated
      <4>2. \A g \in m.graphs : now.watch[Reid(g)] = m.watch[g]
        BY <1>2 DEF Regenerated
      <4>3. QED
        BY <1>1, <1>2, <4>1, <4>2
    <3>2. QED
      BY <3>1 DEF Watchers
  <2>3. QED
    BY <2>1, <2>2 DEF Guarded
<1>18. Indexed(now)
  <2>1. /\ now.bySource = {<<m.xrefs[x].src, x>> : x \in DOMAIN m.xrefs}
        /\ m.byTarget = {<<m.xrefs[x].tmg, m.xrefs[x].tgt, x>> : x \in DOMAIN m.xrefs}
        /\ now.byTarget = {<<ReidMg(t[1]), t[2], t[3]>> : t \in m.byTarget}
    BY DEF Good, Indexed, Regenerated
  <2>2. now.bySource = {<<now.xrefs[x].src, x>> : x \in DOMAIN now.xrefs}
    BY <1>10, <2>1
  <2>3. now.byTarget = {<<ReidMg(m.xrefs[x].tmg), m.xrefs[x].tgt, x>> : x \in DOMAIN m.xrefs}
    BY <2>1, TargetsIs
  <2>4. now.byTarget = {<<now.xrefs[x].tmg, now.xrefs[x].tgt, x>> : x \in DOMAIN now.xrefs}
    BY <1>10, <2>3
  <2>5. QED
    BY <2>2, <2>4 DEF Indexed
<1>19. Fitting(now)
  BY <1>9 DEF Good, Fitting, Regenerated
<1>20. Grounded("fork", now, r)
  BY DEF Grounded
<1>21. QED
  BY <1>6, <1>14, <1>15, <1>16, <1>17, <1>18, <1>19, <1>20 DEF Good

-----------------------------------------------------------------------------
\* The steps.  Whatever a metagraph loses a graph in, the XRefs into it are
\* stale afterwards.
Marks(s, m, now) ==
  \A g \in m.graphs \ now.graphs : \A x \in DOMAIN m.xrefs :
    m.xrefs[x].tmg = s /\ m.xrefs[x].tgt \in Contents(m, g) => now.xrefs[x].stale
Moves ==
  /\ mg' = [o \in DOMAIN mg |-> mg'[o]]
  /\ UNCHANGED <<snap, restored>>
  /\ \A o \in DOMAIN mg :
       Good(o, mg'[o], restored) /\ Later(mg[o], mg'[o]) /\ Marks(o, mg[o], mg'[o])

LEMMA MovesKeep ==
  ASSUME Inv, Moves, ops' \in 0 .. MaxOps
  PROVE  Inv'
<1>1. DOMAIN mg' = DOMAIN mg /\ snap' = snap /\ restored' = restored
  BY DEF Moves
<1>2. \A s \in DOMAIN mg' : Good(s, mg'[s], restored')
  BY <1>1 DEF Moves
<1>3. ASSUME NEW m \in snap
      PROVE  Later(m, mg'["origin"])
  <2>1. Later(m, mg["origin"]) /\ Later(mg["origin"], mg'["origin"])
    BY DEF Inv, Moves
  <2>2. QED
    BY <2>1, LaterTransitive
<1>4. QED
  BY <1>1, <1>2, <1>3 DEF Inv, Moves

LEMMA StepMoves ==
  ASSUME Inv, NEW s \in DOMAIN mg, NEW now, Step(s, now), Good(s, now, restored),
         Later(mg[s], now), Marks(s, mg[s], now)
  PROVE  Moves
<1>1. /\ mg' = [mg EXCEPT ![s] = now] /\ UNCHANGED <<snap, restored>>
      /\ mg = [o \in DOMAIN mg |-> mg[o]]
  BY DEF Step, Inv
<1>2. mg' = [o \in DOMAIN mg |-> mg'[o]]
  BY <1>1
<1>3. ASSUME NEW o \in DOMAIN mg
      PROVE  Good(o, mg'[o], restored) /\ Later(mg[o], mg'[o]) /\ Marks(o, mg[o], mg'[o])
  <2>1. CASE o = s
    BY <1>1, <2>1
  <2>2. CASE o # s
    <3>1. mg'[o] = mg[o]
      BY <1>1, <2>2
    <3>2. Good(o, mg[o], restored) /\ Marks(o, mg[o], mg[o])
      BY DEF Inv, Marks
    <3>3. QED
      BY <3>1, <3>2, LaterReflexive
  <2>3. QED
    BY <2>1, <2>2
<1>4. QED
  BY <1>1, <1>2, <1>3 DEF Moves

\* A step that takes no graph away.
LEMMA GrowthMoves ==
  ASSUME Inv, NEW s \in DOMAIN mg, NEW now, Step(s, now), Good(s, now, restored),
         Later(mg[s], now), mg[s].graphs \subseteq now.graphs
  PROVE  Moves
<1>1. Marks(s, mg[s], now)
  BY DEF Marks
<1>2. QED
  BY <1>1, StepMoves

LEMMA RowExcept ==
  ASSUME NEW f, NEW e \in DOMAIN f, NEW x, NEW y
  PROVE  [f EXCEPT ![e].ends = x, ![e].fits = y]
           = [f EXCEPT ![e] = [f[e] EXCEPT !.ends = x, !.fits = y]]
OBVIOUS

LEMMA SideIs ==
  ASSUME Inv, NEW s \in DOMAIN mg
  PROVE  /\ s \in Sides /\ restored \in BOOLEAN /\ Good(s, mg[s], restored)
         /\ DOMAIN mg[s] = Fields
BY DEF Inv, Good, Metagraph

LEMMA InsertGraphMoves ==
  ASSUME Inv, NEW s \in DOMAIN mg,
         NEW g \in MintedBy(s), NEW ns \in SUBSET Node, AddGraph(s, g, ns)
  PROVE  Moves
<1> DEFINE m == mg[s]
           now == [m EXCEPT !.graphs = @ \cup {g}, !.ids = @ \cup {g} \cup ns,
                     !.place = [n \in DOMAIN @ \cup ns |-> IF n \in ns THEN g ELSE @[n]],
                     !.watch = With(@, g, Watchers(s, g))]
<1>1. s \in Sides /\ restored \in BOOLEAN /\ Good(s, m, restored) /\ DOMAIN m = Fields
  BY SideIs
<1>2. ({g} \cup ns) \cap m.ids = {} /\ Step(s, now)
  BY DEF AddGraph
<1>3. Changes(m, now, {"graphs", "ids", "place", "watch"})
  BY <1>1 DEF Changes, Fields
<1>4. /\ now.graphs = m.graphs \cup {g}
      /\ now.ids = m.ids \cup {g} \cup ns
      /\ now.place = [n \in DOMAIN m.place \cup ns |-> IF n \in ns THEN g ELSE m.place[n]]
      /\ now.watch = With(m.watch, g, Watchers(s, g))
  BY <1>1 DEF Fields
<1> HIDE DEF now
<1>5. Good(s, now, restored) /\ Later(m, now)
  BY <1>1, <1>2, <1>3, <1>4, AddGraphKeeps
<1>6. QED
  BY <1>2, <1>4, <1>5, GrowthMoves

\* What goes in takes no graph away.
LEMMA InsertMoves ==
  ASSUME Inv, NEW s \in DOMAIN mg, Insert(s)
  PROVE  Moves
<1> DEFINE m == mg[s]
<1>1. s \in Sides /\ restored \in BOOLEAN /\ Good(s, m, restored) /\ DOMAIN m = Fields
  BY SideIs
<1>2. ASSUME NEW g \in MintedBy(s), NEW n \in Node, AddNode(s, g, n)
      PROVE  Moves
  <2> DEFINE now == [m EXCEPT !.place = With(@, n, g),
                              !.ids = @ \cup {n}]
  <2>1. Step(s, now) /\ g \in m.graphs /\ n \notin m.ids
    BY <1>2 DEF AddNode
  <2>2. /\ Changes(m, now, {"place", "ids"})
        /\ now.place = With(m.place, n, g)
        /\ now.ids = m.ids \cup {n}
    BY <1>1 DEF Changes, Fields
  <2> HIDE DEF now
  <2>3. Good(s, now, restored) /\ Later(m, now)
    BY <1>1, <2>1, <2>2, AddNodeKeeps
  <2>4. now.graphs = m.graphs
    BY <2>2 DEF Changes, Fields
  <2>5. QED
    BY <2>1, <2>3, <2>4, GrowthMoves
<1>3. ASSUME NEW n \in Node, NEW x \in Node \cup Edge, SetRefProperty(s, n, x)
      PROVE  Moves
  <2> DEFINE now == [m EXCEPT !.refprop = With(@, n, x)]
  <2>1. Step(s, now) /\ n \in DOMAIN m.place
    BY <1>3 DEF SetRefProperty
  <2>2. /\ Changes(m, now, {"refprop"})
        /\ now.refprop = With(m.refprop, n, x)
    BY <1>1 DEF Changes, Fields
  <2> HIDE DEF now
  <2>3. Good(s, now, restored) /\ Later(m, now)
    BY <1>1, <2>1, <2>2, SetRefPropertyKeeps
  <2>4. now.graphs = m.graphs
    BY <2>2 DEF Changes, Fields
  <2>5. QED
    BY <2>1, <2>3, <2>4, GrowthMoves
<1>4. ASSUME NEW g \in MintedBy(s), NEW e \in Edge, NEW src \in Node,
         NEW dst \in Node, AddEdge(s, g, e, src, dst)
      PROVE  Moves
  <2> DEFINE now == [m EXCEPT !.edges = With(@, e, [at |-> g, ends |-> {src, dst}]),
                              !.ids = @ \cup {e}]
  <2>1. Step(s, now) /\ g \in m.graphs /\ {src, dst} \in SUBSET NodesOf(m, g) /\ e \notin m.ids
    BY <1>4 DEF AddEdge
  <2>2. /\ Changes(m, now, {"edges", "ids"})
        /\ now.edges = With(m.edges, e, [at |-> g, ends |-> {src, dst}])
        /\ now.ids = m.ids \cup {e}
    BY <1>1 DEF Changes, Fields
  <2> HIDE DEF now
  <2>3. Good(s, now, restored) /\ Later(m, now)
    BY <1>1, <2>1, <2>2, AddEdgeKeeps
  <2>4. now.graphs = m.graphs
    BY <2>2 DEF Changes, Fields
  <2>5. QED
    BY <2>1, <2>3, <2>4, GrowthMoves
<1>5. ASSUME NEW g \in MintedBy(s), NEW e \in Edge,
         NEW ns \in SUBSET Node, AddHyperEdge(s, g, e, ns)
      PROVE  Moves
  <2> DEFINE now == [m EXCEPT !.edges = With(@, e, [at |-> g, ends |-> ns]),
                              !.ids = @ \cup {e}]
  <2>1. Step(s, now) /\ g \in m.graphs /\ ns \in SUBSET NodesOf(m, g) /\ e \notin m.ids
    BY <1>5 DEF AddHyperEdge
  <2>2. /\ Changes(m, now, {"edges", "ids"})
        /\ now.edges = With(m.edges, e, [at |-> g, ends |-> ns])
        /\ now.ids = m.ids \cup {e}
    BY <1>1 DEF Changes, Fields
  <2> HIDE DEF now
  <2>3. Good(s, now, restored) /\ Later(m, now)
    BY <1>1, <2>1, <2>2, AddEdgeKeeps
  <2>4. now.graphs = m.graphs
    BY <2>2 DEF Changes, Fields
  <2>5. QED
    BY <2>1, <2>3, <2>4, GrowthMoves
<1>6. ASSUME NEW e \in Meta, NEW src \in MintedBy(s), NEW dst \in MintedBy(s),
         NEW fits \in BOOLEAN, AddMetaEdge(s, e, src, dst, fits)
      PROVE  Moves
  <2> DEFINE now == [m EXCEPT !.metas = With(@, e, [ends |-> {src, dst}, fits |-> fits]),
                              !.ids = @ \cup {e}]
             row == [ends |-> {src, dst}, fits |-> fits]
  <2>1. Step(s, now) /\ {src, dst} \subseteq m.graphs /\ (m.schema => fits) /\ e \notin m.ids
    BY <1>6 DEF AddMetaEdge
  <2>2. /\ Changes(m, now, {"metas", "ids"})
        /\ now.metas = With(m.metas, e, row)
        /\ now.ids = m.ids \cup {e}
    BY <1>1 DEF Changes, Fields
  <2>3. row \in MetaRow /\ row.ends \subseteq m.graphs /\ (m.schema => row.fits)
    BY <1>1, <2>1 DEF Good, Metagraph, MetaRow
  <2> HIDE DEF now, row
  <2>4. Good(s, now, restored) /\ Later(m, now)
    BY <1>1, <2>1, <2>2, <2>3, AddMetaKeeps
  <2>5. now.graphs = m.graphs
    BY <2>2 DEF Changes, Fields
  <2>6. QED
    BY <2>1, <2>4, <2>5, GrowthMoves
<1>7. ASSUME NEW e \in Meta, NEW gs \in SUBSET MintedBy(s),
         NEW fits \in BOOLEAN, AddMetaHyperEdge(s, e, gs, fits)
      PROVE  Moves
  <2> DEFINE now == [m EXCEPT !.metas = With(@, e, [ends |-> gs, fits |-> fits]),
                              !.ids = @ \cup {e}]
             row == [ends |-> gs, fits |-> fits]
  <2>1. Step(s, now) /\ gs \subseteq m.graphs /\ (m.schema => fits) /\ e \notin m.ids
    BY <1>7 DEF AddMetaHyperEdge
  <2>2. /\ Changes(m, now, {"metas", "ids"})
        /\ now.metas = With(m.metas, e, row)
        /\ now.ids = m.ids \cup {e}
    BY <1>1 DEF Changes, Fields
  <2>3. row \in MetaRow /\ row.ends \subseteq m.graphs /\ (m.schema => row.fits)
    BY <1>1, <2>1 DEF Good, Metagraph, MetaRow
  <2> HIDE DEF now, row
  <2>4. Good(s, now, restored) /\ Later(m, now)
    BY <1>1, <2>1, <2>2, <2>3, AddMetaKeeps
  <2>5. now.graphs = m.graphs
    BY <2>2 DEF Changes, Fields
  <2>6. QED
    BY <2>1, <2>4, <2>5, GrowthMoves
<1>8. ASSUME NEW e \in Inter, NEW p \in Ends(s), NEW q \in Ends(s),
         NEW comp \in BOOLEAN, NEW fits \in BOOLEAN, AddIntergraphEdge(s, e, p, q, comp, fits)
      PROVE  Moves
  <2> DEFINE now == [m EXCEPT !.inters = With(@, e, [ends |-> {p, q}, hyper |-> FALSE, comp |-> comp, fits |-> fits]),
                              !.ids = @ \cup {e}]
             row == [ends |-> {p, q}, hyper |-> FALSE, comp |-> comp, fits |-> fits]
  <2>1. Step(s, now) /\ EndsLive(m, {p, q}) /\ (m.schema => fits) /\ e \notin m.ids
    BY <1>8 DEF AddIntergraphEdge
  <2>2. /\ Changes(m, now, {"inters", "ids"})
        /\ now.inters = With(m.inters, e, row)
        /\ now.ids = m.ids \cup {e}
    BY <1>1 DEF Changes, Fields
  <2>3. row \in InterRow /\ EndsLive(m, row.ends) /\ (m.schema => row.fits)
    BY <1>1, <2>1 DEF InterRow, Ends, MintedBy, GraphId, EndsLive
  <2> HIDE DEF now, row
  <2>4. Good(s, now, restored) /\ Later(m, now)
    BY <1>1, <2>1, <2>2, <2>3, AddInterKeeps
  <2>5. now.graphs = m.graphs
    BY <2>2 DEF Changes, Fields
  <2>6. QED
    BY <2>1, <2>4, <2>5, GrowthMoves
<1>9. ASSUME NEW e \in Inter, NEW ends \in SUBSET Ends(s), NEW comp \in BOOLEAN,
         NEW fits \in BOOLEAN, AddIntergraphHyperEdge(s, e, ends, comp, fits)
      PROVE  Moves
  <2> DEFINE now == [m EXCEPT !.inters = With(@, e, [ends |-> ends, hyper |-> TRUE, comp |-> comp, fits |-> fits]),
                              !.ids = @ \cup {e}]
             row == [ends |-> ends, hyper |-> TRUE, comp |-> comp, fits |-> fits]
  <2>1. Step(s, now) /\ EndsLive(m, ends) /\ (m.schema => fits) /\ e \notin m.ids
    BY <1>9 DEF AddIntergraphHyperEdge
  <2>2. /\ Changes(m, now, {"inters", "ids"})
        /\ now.inters = With(m.inters, e, row)
        /\ now.ids = m.ids \cup {e}
    BY <1>1 DEF Changes, Fields
  <2>3. row \in InterRow /\ EndsLive(m, row.ends) /\ (m.schema => row.fits)
    BY <1>1, <2>1 DEF InterRow, Ends, MintedBy, GraphId
  <2> HIDE DEF now, row
  <2>4. Good(s, now, restored) /\ Later(m, now)
    BY <1>1, <2>1, <2>2, <2>3, AddInterKeeps
  <2>5. now.graphs = m.graphs
    BY <2>2 DEF Changes, Fields
  <2>6. QED
    BY <2>1, <2>4, <2>5, GrowthMoves
<1>10. ASSUME NEW x \in XRef, NEW src \in Node, NEW tmg \in Sides,
         NEW tgt \in Node \cup Edge, NEW verify \in BOOLEAN, AddXRef(s, x, src, tmg, tgt, verify)
      PROVE  Moves
  <2> DEFINE now == [m EXCEPT !.xrefs = With(@, x, [src |-> src, tmg |-> tmg, tgt |-> tgt, stale |-> FALSE]),
                              !.bySource = @ \cup {<<src, x>>},
                              !.byTarget = @ \cup {<<tmg, tgt, x>>},
                              !.ids = @ \cup {x}]
             row == [src |-> src, tmg |-> tmg, tgt |-> tgt, stale |-> FALSE]
  <2>1. Step(s, now) /\ x \notin m.ids
    BY <1>10 DEF AddXRef
  <2>2. /\ Changes(m, now, {"xrefs", "bySource", "byTarget", "ids"})
        /\ now.xrefs = With(m.xrefs, x, row)
        /\ now.bySource = m.bySource \cup {<<row.src, x>>}
        /\ now.byTarget = m.byTarget \cup {<<row.tmg, row.tgt, x>>}
        /\ now.ids = m.ids \cup {x}
    BY <1>1 DEF Changes, Fields
  <2>3. row \in XRefRow
    BY <1>1, <2>1 DEF XRefRow
  <2> HIDE DEF now, row
  <2>4. Good(s, now, restored) /\ Later(m, now)
    BY <1>1, <2>1, <2>2, <2>3, AddXRefKeeps
  <2>5. now.graphs = m.graphs
    BY <2>2 DEF Changes, Fields
  <2>6. QED
    BY <2>1, <2>4, <2>5, GrowthMoves
<1>11. ASSUME NEW t \in Instance, NEW template \in CoreId,
         NEW ns \in SUBSET Node, AddInstance(s, t, template, ns)
      PROVE  Moves
  <2> DEFINE now == [m EXCEPT !.insts = With(@, t, {template} \cup ns),
                              !.ids = @ \cup {t}]
             refs == {template} \cup ns
  <2>1. Step(s, now) /\ t \notin m.ids \cup DOMAIN m.insts
    BY <1>11 DEF AddInstance
  <2>2. /\ Changes(m, now, {"insts", "ids"})
        /\ now.insts = With(m.insts, t, refs)
        /\ now.ids = m.ids \cup {t}
    BY <1>1 DEF Changes, Fields
  <2>3. t \in Inst /\ refs \in SUBSET (LiveCore(m) \ DOMAIN m.xrefs)
    <3>1. /\ template \in LiveCore(m) \ DOMAIN m.xrefs
          /\ ns # {} => ns \subseteq NodesOf(m, template)
      BY <1>11 DEF AddInstance
    <3>2. DOMAIN m.place \cap DOMAIN m.xrefs = {} /\ NodesOf(m, template) \subseteq DOMAIN m.place
      BY <1>1, KindsAssumption DEF Good, Metagraph, Table, NodesOf
    <3>3. QED
      BY <3>1, <3>2 DEF LiveCore, Inst
  <2> HIDE DEF now, refs
  <2>4. Good(s, now, restored) /\ Later(m, now)
    BY <1>1, <2>1, <2>2, <2>3, AddInstanceKeeps
  <2>5. now.graphs = m.graphs
    BY <2>2 DEF Changes, Fields
  <2>6. QED
    BY <2>1, <2>4, <2>5, GrowthMoves
<1>12. ASSUME NEW t \in Composite, AddComposite(s, t)
      PROVE  Moves
  <2> DEFINE now == [m EXCEPT !.insts = With(@, t, {}),
                              !.ids = @ \cup {t}]
  <2>1. Step(s, now) /\ t \notin m.ids \cup DOMAIN m.insts
    BY <1>12 DEF AddComposite
  <2>2. /\ Changes(m, now, {"insts", "ids"})
        /\ now.insts = With(m.insts, t, {})
        /\ now.ids = m.ids \cup {t}
    BY <1>1 DEF Changes, Fields
  <2>3. t \in Inst /\ {} \in SUBSET (LiveCore(m) \ DOMAIN m.xrefs)
    BY <1>1, <2>1 DEF Inst
  <2> HIDE DEF now
  <2>4. Good(s, now, restored) /\ Later(m, now)
    BY <1>1, <2>1, <2>2, <2>3, AddInstanceKeeps
  <2>5. now.graphs = m.graphs
    BY <2>2 DEF Changes, Fields
  <2>6. QED
    BY <2>1, <2>4, <2>5, GrowthMoves
<1>13. ASSUME NEW c \in Composite, NEW t \in Inst, AddMember(s, c, t)
      PROVE  Moves
  <2> DEFINE now == [m EXCEPT !.insts[c] = @ \cup {t}]
  <2>1. Step(s, now) /\ c \in DOMAIN m.insts /\ t \in DOMAIN m.insts
    BY <1>13 DEF AddMember
  <2>2. /\ Changes(m, now, {"insts"})
        /\ now.insts = [m.insts EXCEPT ![c] = @ \cup {t}]
    BY <1>1 DEF Changes, Fields
  <2> HIDE DEF now
  <2>3. Good(s, now, restored) /\ Later(m, now)
    BY <1>1, <2>1, <2>2, AddMemberKeeps
  <2>4. now.graphs = m.graphs
    BY <2>2 DEF Changes, Fields
  <2>5. QED
    BY <2>1, <2>3, <2>4, GrowthMoves
<1>14. ASSUME DetachSchema(s)
      PROVE  Moves
  <2> DEFINE now == [m EXCEPT !.schema = FALSE]
  <2>1. Step(s, now)
    BY <1>14 DEF DetachSchema
  <2>2. /\ Changes(m, now, {"schema"})
        /\ now.schema = FALSE
    BY <1>1 DEF Changes, Fields
  <2> HIDE DEF now
  <2>3. Good(s, now, restored) /\ Later(m, now)
    BY <1>1, <2>1, <2>2, SchemaKeeps
  <2>4. now.graphs = m.graphs
    BY <2>2 DEF Changes, Fields
  <2>5. QED
    BY <2>1, <2>3, <2>4, GrowthMoves
<1>15. ASSUME AttachSchema(s)
      PROVE  Moves
  <2> DEFINE now == [m EXCEPT !.schema = TRUE]
  <2>1. /\ Step(s, now)
        /\ \A e \in DOMAIN m.inters : m.inters[e].fits
        /\ \A e \in DOMAIN m.metas : m.metas[e].fits
    BY <1>15 DEF AttachSchema
  <2>2. /\ Changes(m, now, {"schema"})
        /\ now.schema = TRUE
    BY <1>1 DEF Changes, Fields
  <2> HIDE DEF now
  <2>3. Good(s, now, restored) /\ Later(m, now)
    BY <1>1, <2>1, <2>2, SchemaKeeps
  <2>4. now.graphs = m.graphs
    BY <2>2 DEF Changes, Fields
  <2>5. QED
    BY <2>1, <2>3, <2>4, GrowthMoves
<1>16. ASSUME NEW e \in Inter, NEW fits \in BOOLEAN, NEW ends \in SUBSET Ends(s),
              UpdateIntergraphHyperEdge(s, e, ends, fits)
       PROVE  Moves
  <2> DEFINE now == [m EXCEPT !.inters[e].ends = ends, !.inters[e].fits = fits]
             row == [m.inters[e] EXCEPT !.ends = ends, !.fits = fits]
  <2>1. /\ Step(s, now) /\ EndsLive(m, ends) /\ (m.schema => fits)
        /\ e \in DOMAIN m.inters /\ m.inters[e].hyper /\ ~m.inters[e].comp
    BY <1>16 DEF UpdateIntergraphHyperEdge
  <2>2. Changes(m, now, {"inters"})
    BY <1>1 DEF Changes, Fields
  <2>3. row \in InterRow /\ EndsLive(m, row.ends) /\ (m.schema => row.fits) /\ ~row.comp
    <3>1. ends \in SUBSET (GraphId \X Node)
      BY <1>1 DEF Ends, MintedBy, GraphId
    <3>2. m.inters[e] \in InterRow
      BY <1>1, <2>1 DEF Good, Metagraph, Table
    <3>3. row \in InterRow /\ row.ends = ends /\ row.fits = fits /\ row.comp = m.inters[e].comp
      BY <3>1, <3>2 DEF InterRow
    <3>4. QED
      BY <2>1, <3>3
  <2>4. now.inters = [m.inters EXCEPT ![e] = row]
    <3>1. now.inters = [m.inters EXCEPT ![e].ends = ends, ![e].fits = fits]
      BY <1>1, <2>1 DEF Fields
    <3>2. QED
      BY <2>1, <3>1, RowExcept
  <2> HIDE DEF now, row
  <2>5. Good(s, now, restored) /\ Later(m, now)
    BY <1>1, <2>1, <2>2, <2>3, <2>4, UpdateInterKeeps
  <2>6. now.graphs = m.graphs
    BY <2>2 DEF Changes, Fields
  <2>7. QED
    BY <2>1, <2>5, <2>6, GrowthMoves
<1> HIDE DEF m
<1>17. QED
  BY <1>2, <1>3, <1>4, <1>5, <1>6, <1>7, <1>8, <1>9, <1>10, <1>11, <1>12, <1>13, <1>14, <1>15,
     <1>16, InsertGraphMoves DEF Insert

\* The cascade comes first.
LEMMA CascadedIs ==
  ASSUME Inv, NEW s \in DOMAIN mg, NEW X, NEW c, c = Cascade(mg[s], X)
  PROVE  /\ Good(s, c, restored) /\ Later(mg[s], c) /\ Free(c, X)
         /\ Changes(mg[s], c, {"insts", "ids"}) /\ DOMAIN c = Fields
<1>1. s \in Sides /\ restored \in BOOLEAN /\ Good(s, mg[s], restored)
  BY SideIs
<1>2. /\ Good(s, c, restored) /\ Later(mg[s], c) /\ Free(c, X)
      /\ Changes(mg[s], c, {"insts", "ids"})
  BY <1>1, CascadeKeeps
<1>3. QED
  BY <1>2 DEF Changes

LEMMA RemoveMetaMoves ==
  ASSUME Inv, NEW s \in DOMAIN mg, NEW e \in Meta, RemoveMeta(s, e)
  PROVE  Moves
<1> DEFINE c == Cascade(mg[s], {e})
           now == [c EXCEPT !.metas = Without(@, {e}), !.ids = @ \ {e}]
<1>1. Step(s, now)
  BY DEF RemoveMeta
<1>2. s \in Sides /\ restored \in BOOLEAN
  BY SideIs
<1>3. /\ Good(s, c, restored) /\ Later(mg[s], c) /\ Free(c, {e})
      /\ Changes(mg[s], c, {"insts", "ids"}) /\ DOMAIN c = Fields
  BY CascadedIs
<1> HIDE DEF c
<1>4. /\ Changes(c, now, {"metas", "ids"})
      /\ now.metas = Without(c.metas, {e}) /\ now.ids = c.ids \ {e}
  BY <1>3 DEF Changes, Fields
<1> HIDE DEF now
<1>5. Good(s, now, restored) /\ Later(c, now)
  BY <1>2, <1>3, <1>4, RemoveMetaKeeps
<1>6. Later(mg[s], now)
  BY <1>3, <1>5, LaterTransitive
<1>7. now.graphs = mg[s].graphs
  BY <1>3, <1>4 DEF Changes, Fields
<1>8. QED
  BY <1>1, <1>5, <1>6, <1>7, GrowthMoves

LEMMA RemoveInterMoves ==
  ASSUME Inv, NEW s \in DOMAIN mg, NEW e \in Inter, RemoveInter(s, e)
  PROVE  Moves
<1> DEFINE c == Cascade(mg[s], {e})
           now == [c EXCEPT !.inters = Without(@, {e}), !.ids = @ \ {e}]
<1>1. Step(s, now) /\ e \in DOMAIN mg[s].inters /\ ~mg[s].inters[e].comp
  BY DEF RemoveInter
<1>2. s \in Sides /\ restored \in BOOLEAN
  BY SideIs
<1>3. /\ Good(s, c, restored) /\ Later(mg[s], c) /\ Free(c, {e})
      /\ Changes(mg[s], c, {"insts", "ids"}) /\ DOMAIN c = Fields
  BY CascadedIs
<1> HIDE DEF c
<1>4. /\ Changes(c, now, {"inters", "ids"})
      /\ now.inters = Without(c.inters, {e}) /\ now.ids = c.ids \ {e}
  BY <1>3 DEF Changes, Fields
<1> HIDE DEF now
<1>5. c.inters = mg[s].inters /\ c.graphs = mg[s].graphs
  BY <1>3 DEF Changes, Fields
<1>6. Good(s, now, restored) /\ Later(c, now)
  BY <1>1, <1>2, <1>3, <1>4, <1>5, RemoveInterKeeps
<1>7. Later(mg[s], now)
  BY <1>3, <1>6, LaterTransitive
<1>8. now.graphs = mg[s].graphs
  BY <1>4, <1>5 DEF Changes, Fields
<1>9. QED
  BY <1>1, <1>6, <1>7, <1>8, GrowthMoves

LEMMA RemoveXRefMoves ==
  ASSUME Inv, NEW s \in DOMAIN mg, NEW x \in XRef, RemoveXRef(s, x)
  PROVE  Moves
<1> DEFINE m == mg[s]
           now == [m EXCEPT !.xrefs = Without(@, {x}), !.ids = @ \ {x},
                     !.bySource = @ \ {<<m.xrefs[x].src, x>>},
                     !.byTarget = @ \ {<<m.xrefs[x].tmg, m.xrefs[x].tgt, x>>}]
<1>1. Step(s, now) /\ x \in DOMAIN m.xrefs
  BY DEF RemoveXRef
<1>2. s \in Sides /\ restored \in BOOLEAN /\ Good(s, m, restored) /\ DOMAIN m = Fields
  BY SideIs
<1>3. /\ Changes(m, now, {"xrefs", "bySource", "byTarget", "ids"})
      /\ now.xrefs = Without(m.xrefs, {x}) /\ now.ids = m.ids \ {x}
      /\ now.bySource = m.bySource \ {<<m.xrefs[x].src, x>>}
      /\ now.byTarget = m.byTarget \ {<<m.xrefs[x].tmg, m.xrefs[x].tgt, x>>}
  BY <1>2 DEF Changes, Fields
<1> HIDE DEF now
<1>4. Good(s, now, restored) /\ Later(m, now)
  BY <1>1, <1>2, <1>3, RemoveXRefKeeps
<1>5. now.graphs = m.graphs
  BY <1>3 DEF Changes, Fields
<1>6. QED
  BY <1>1, <1>4, <1>5, GrowthMoves

LEMMA RemoveInstanceMoves ==
  ASSUME Inv, NEW s \in DOMAIN mg, NEW t \in Inst, RemoveInstance(s, t)
  PROVE  Moves
<1> DEFINE m == mg[s]
           gone == {t} \cup Dependents(m, {t})
           now == [m EXCEPT !.insts = Without(@, gone), !.ids = @ \ gone]
<1>1. Step(s, now)
  BY DEF RemoveInstance
<1>2. s \in Sides /\ restored \in BOOLEAN /\ Good(s, m, restored) /\ DOMAIN m = Fields
  BY SideIs
<1>3. gone \in SUBSET Inst /\ \A u \in DOMAIN m.insts \ gone : m.insts[u] \cap gone = {}
  <2>1. /\ Dependents(m, {t}) \subseteq DOMAIN m.insts
        /\ \A u \in DOMAIN m.insts \ Dependents(m, {t}) :
             m.insts[u] \cap ({t} \cup Dependents(m, {t})) = {}
    BY DependentsClosed
  <2>2. DOMAIN m.insts \subseteq Inst
    BY <1>2 DEF Good, Metagraph, Table
  <2>3. QED
    BY <2>1, <2>2
<1> HIDE DEF gone
<1>4. /\ Changes(m, now, {"insts", "ids"})
      /\ now.insts = Without(m.insts, gone) /\ now.ids = m.ids \ gone
  BY <1>2 DEF Changes, Fields
<1> HIDE DEF now
<1>5. Good(s, now, restored) /\ Later(m, now)
  BY <1>2, <1>3, <1>4, DropInstancesKeeps
<1>6. now.graphs = m.graphs
  BY <1>4 DEF Changes, Fields
<1>7. QED
  BY <1>1, <1>5, <1>6, GrowthMoves

\* The XRefs a removal marks.
Marked(m, S) == [x \in DOMAIN m.xrefs |-> [m.xrefs[x] EXCEPT !.stale = @ \/ x \in S]]
LEMMA MarkedIs ==
  ASSUME NEW m, Table(m.xrefs, XRef, XRefRow), NEW S
  PROVE  /\ Table(Marked(m, S), XRef, XRefRow) /\ DOMAIN Marked(m, S) = DOMAIN m.xrefs
         /\ \A x \in DOMAIN m.xrefs : /\ Marked(m, S)[x].src = m.xrefs[x].src
                                      /\ Marked(m, S)[x].tmg = m.xrefs[x].tmg
                                      /\ Marked(m, S)[x].tgt = m.xrefs[x].tgt
                                      /\ x \in S => Marked(m, S)[x].stale
<1>1. ASSUME NEW row \in XRefRow, NEW b \in BOOLEAN
      PROVE  LET now == [row EXCEPT !.stale = @ \/ b] IN
             /\ now \in XRefRow /\ now.src = row.src /\ now.tmg = row.tmg /\ now.tgt = row.tgt
             /\ b => now.stale
  BY DEF XRefRow
<1>2. \A x \in DOMAIN m.xrefs : m.xrefs[x] \in XRefRow /\ (x \in S) \in BOOLEAN
  BY DEF Table
<1>3. \A x \in DOMAIN m.xrefs :
        LET now == [m.xrefs[x] EXCEPT !.stale = @ \/ x \in S] IN
        /\ now \in XRefRow /\ now.src = m.xrefs[x].src /\ now.tmg = m.xrefs[x].tmg
        /\ now.tgt = m.xrefs[x].tgt
        /\ x \in S => now.stale
  BY <1>1, <1>2
<1>4. QED
  BY <1>3 DEF Marked, Table

LEMMA RemoveGraphMoves ==
  ASSUME Inv, NEW s \in DOMAIN mg, NEW g \in MintedBy(s), NEW cascade \in BOOLEAN,
         NEW force \in BOOLEAN, RemoveGraph(s, g, cascade, force)
  PROVE  Moves
<1> DEFINE m == mg[s]
           X == Taken(m, g)
           c == Cascade(m, X)
           stale == Marked(m, Incoming(s, g))
           now == [c EXCEPT
                     !.graphs = @ \ X, !.place = Without(@, X), !.refprop = Without(@, X),
                     !.edges = Without(@, X), !.metas = Without(@, X), !.inters = Without(@, X),
                     !.xrefs = stale, !.ids = @ \ X, !.watch = Without(@, X)]
<1>1. s \in Sides /\ restored \in BOOLEAN /\ Good(s, m, restored)
  BY SideIs
<1>2. /\ Step(s, now) /\ g \in m.graphs
      /\ \A e \in {d \in DOMAIN m.inters : \E p \in m.inters[d].ends : p[1] = g} : ~m.inters[e].comp
  BY DEF RemoveGraph, Taken, Marked
<1>3. \A e \in DOMAIN m.inters \cap X : ~m.inters[e].comp
  BY <1>1, <1>2, TakenIs
<1>4. /\ Table(stale, XRef, XRefRow) /\ DOMAIN stale = DOMAIN m.xrefs
      /\ \A x \in DOMAIN m.xrefs : /\ stale[x].src = m.xrefs[x].src
                                   /\ stale[x].tmg = m.xrefs[x].tmg
                                   /\ stale[x].tgt = m.xrefs[x].tgt
                                   /\ x \in Incoming(s, g) => stale[x].stale
  <2>1. Table(m.xrefs, XRef, XRefRow)
    BY <1>1 DEF Good, Metagraph
  <2>2. QED
    BY <2>1, MarkedIs
<1>5. /\ Good(s, c, restored) /\ Later(m, c) /\ Free(c, X)
      /\ Changes(m, c, {"insts", "ids"}) /\ DOMAIN c = Fields
  BY CascadedIs
<1> HIDE DEF c, stale, X
<1>6. /\ c.graphs = m.graphs /\ c.place = m.place /\ c.edges = m.edges
      /\ c.metas = m.metas /\ c.inters = m.inters /\ c.xrefs = m.xrefs
  BY <1>5 DEF Changes, Fields
<1>7. X = Taken(c, g)
  BY <1>6 DEF X, Taken, Contents, NodesOf, EdgesOf
<1>8. /\ Changes(c, now, {"graphs", "place", "refprop", "edges", "metas", "inters",
                          "xrefs", "ids", "watch"})
      /\ now.graphs = c.graphs \ X /\ now.place = Without(c.place, X)
      /\ now.refprop = Without(c.refprop, X) /\ now.edges = Without(c.edges, X)
      /\ now.metas = Without(c.metas, X) /\ now.inters = Without(c.inters, X)
      /\ now.ids = c.ids \ X /\ now.watch = Without(c.watch, X)
      /\ now.xrefs = stale
  BY <1>5 DEF Changes, Fields
<1> HIDE DEF now
<1>9. Good(s, now, restored) /\ Later(c, now)
  <2>1. g \in c.graphs /\ \A e \in DOMAIN c.inters \cap X : ~c.inters[e].comp
    BY <1>2, <1>3, <1>6
  <2>2. /\ Table(now.xrefs, XRef, XRefRow) /\ DOMAIN now.xrefs = DOMAIN c.xrefs
        /\ \A x \in DOMAIN c.xrefs : /\ now.xrefs[x].src = c.xrefs[x].src
                                     /\ now.xrefs[x].tmg = c.xrefs[x].tmg
                                     /\ now.xrefs[x].tgt = c.xrefs[x].tgt
    BY <1>4, <1>6, <1>8
  <2>3. QED
    BY <1>1, <1>5, <1>7, <1>8, <2>1, <2>2, RemoveGraphKeeps
<1>10. Later(m, now)
  BY <1>5, <1>9, LaterTransitive
<1>11. Marks(s, m, now)
  <2>1. m.graphs \ now.graphs \subseteq {g}
    BY <1>1, <1>2, <1>6, <1>8, TakenIs DEF X
  <2>2. ASSUME NEW x \in DOMAIN m.xrefs, m.xrefs[x].tmg = s, m.xrefs[x].tgt \in Contents(m, g)
        PROVE  x \in Incoming(s, g)
    <3>1. <<m.xrefs[x].tmg, m.xrefs[x].tgt, x>> \in m.byTarget
      BY <1>1 DEF Good, Indexed
    <3>2. QED
      BY <2>2, <3>1 DEF Incoming
  <2>3. QED
    BY <1>4, <1>8, <2>1, <2>2 DEF Marks
<1>12. QED
  BY <1>2, <1>9, <1>10, <1>11, StepMoves

\* What the observers of a graph do, on either side.
LEMMA HearIs ==
  ASSUME Inv, NEW s \in DOMAIN mg, NEW g \in mg[s].graphs, NEW X, NEW o \in DOMAIN mg,
         NEW c, c = Hear(s, g, X, o)
  PROVE  /\ Good(o, c, restored) /\ Later(mg[o], c)
         /\ Changes(mg[o], c, {"insts", "ids"}) /\ DOMAIN c = Fields
         /\ o = s /\ s = "origin" /\ ~restored => Free(c, X)
<1>1. o \in Sides /\ restored \in BOOLEAN /\ Good(o, mg[o], restored) /\ DOMAIN mg[o] = Fields
  BY SideIs
<1>2. CASE c = Cascade(mg[o], X)
  BY <1>2, CascadedIs
<1>3. CASE /\ c = mg[o]
           /\ ~\E w \in mg[s].watch[g] : w.kind = "registry" /\ w.owner = o
  <2>1. Changes(mg[o], c, {"insts", "ids"})
    BY <1>1, <1>3 DEF Changes
  <2>2. ~(o = s /\ s = "origin" /\ ~restored)
    <3>1. SUFFICES ASSUME o = s, s = "origin", ~restored
                   PROVE  FALSE
      OBVIOUS
    <3>2. mg[s].watch[g] = Watchers(s, g)
      BY <1>1, <3>1 DEF Good, Watched
    <3>3. [kind |-> "registry", owner |-> s, gid |-> g] \in mg[s].watch[g]
      BY <3>2 DEF Watchers
    <3>4. QED
      BY <1>3, <3>1, <3>3
  <2>3. QED
    BY <1>1, <1>3, <2>1, <2>2, LaterReflexive
<1>4. QED
  BY <1>2, <1>3 DEF Hear

\* Nodes and edges go, and nothing rests on them.
LEMMA TakeMoves ==
  ASSUME Inv, NEW s \in DOMAIN mg, NEW g \in mg[s].graphs, NEW X \in SUBSET (Node \cup Edge),
         \A e \in DOMAIN mg[s].edges \ X : mg[s].edges[e].ends \cap X = {},
         \A e \in DOMAIN mg[s].inters : \A p \in mg[s].inters[e].ends :
           /\ mg[s].inters[e].comp /\ Watchers(s, p[1]) \cap mg[s].watch[p[1]] # {}
           /\ EndsLive(mg[s], {p})
           => p[2] \notin X,
         RemoveFromGraph(s, g, X)
  PROVE  Moves
<1> DEFINE m == mg[s]
           c == Hear(s, g, X, s)
           now == [c EXCEPT !.place = Without(@, X), !.refprop = Without(@, X),
                            !.edges = Without(@, X), !.ids = @ \ X]
<1>1. s \in Sides /\ restored \in BOOLEAN
  BY SideIs
<1>2. /\ mg' = [o \in DOMAIN mg |-> mg'[o]] /\ UNCHANGED <<snap, restored>> /\ mg'[s] = now
      /\ \A o \in DOMAIN mg \ {s} : mg'[o] = Hear(s, g, X, o)
  BY DEF RemoveFromGraph
<1>3. /\ Good(s, c, restored) /\ Later(m, c) /\ Changes(m, c, {"insts", "ids"}) /\ DOMAIN c = Fields
      /\ s = "origin" /\ ~restored => Free(c, X)
  BY HearIs
<1> HIDE DEF c
<1>4. /\ Changes(c, now, {"place", "refprop", "edges", "ids"})
      /\ now.place = Without(c.place, X) /\ now.refprop = Without(c.refprop, X)
      /\ now.edges = Without(c.edges, X) /\ now.ids = c.ids \ X
  BY <1>3 DEF Changes, Fields
<1> HIDE DEF now
<1>5. /\ c.graphs = m.graphs /\ c.place = m.place /\ c.edges = m.edges /\ c.inters = m.inters
      /\ c.watch = m.watch
  BY <1>3 DEF Changes, Fields
<1>6. /\ \A e \in DOMAIN c.edges \ X : c.edges[e].ends \cap X = {}
      /\ \A e \in DOMAIN c.inters : \A p \in c.inters[e].ends :
           c.inters[e].comp /\ Watchers(s, p[1]) \cap c.watch[p[1]] # {} /\ EndsLive(c, {p})
             => p[2] \notin X
  BY <1>5 DEF EndsLive, NodesOf
<1>7. Good(s, now, restored) /\ Later(c, now)
  BY <1>1, <1>3, <1>4, <1>6, TakeKeeps
<1>8. Later(m, now) /\ Marks(s, m, now)
  <2>1. now.graphs = m.graphs
    BY <1>4, <1>5 DEF Changes, Fields
  <2>2. Later(m, now)
    BY <1>3, <1>7, LaterTransitive
  <2>3. QED
    BY <2>1, <2>2 DEF Marks
<1>9. ASSUME NEW o \in DOMAIN mg \ {s}
      PROVE  Good(o, mg'[o], restored) /\ Later(mg[o], mg'[o]) /\ Marks(o, mg[o], mg'[o])
  <2>1. /\ Good(o, mg'[o], restored) /\ Later(mg[o], mg'[o])
        /\ Changes(mg[o], mg'[o], {"insts", "ids"})
    BY <1>2, HearIs
  <2>2. mg'[o].graphs = mg[o].graphs
    BY <2>1 DEF Changes, Fields
  <2>3. QED
    BY <2>1, <2>2 DEF Marks
<1>10. QED
  BY <1>2, <1>7, <1>8, <1>9 DEF Moves

LEMMA RemoveEdgeMoves ==
  ASSUME Inv, NEW s \in DOMAIN mg, NEW e \in Edge, RemoveEdge(s, e)
  PROVE  Moves
<1> DEFINE m == mg[s]
<1>1. Good(s, m, restored)
  BY SideIs
<1>2. e \in DOMAIN m.edges /\ RemoveFromGraph(s, m.edges[e].at, {e})
  BY DEF RemoveEdge
<1>3. \A d \in DOMAIN m.edges : m.edges[d].ends \cap {e} = {}
  BY <1>1, KindsAssumption DEF Good, Metagraph, Table, EdgeRow
<1>4. \A d \in DOMAIN m.inters : \A p \in m.inters[d].ends : p[2] # e
  BY <1>1, KindsAssumption DEF Good, Metagraph, Table, InterRow
<1>5. m.edges[e].at \in m.graphs
  BY <1>1, <1>2 DEF Good, Placed
<1>6. QED
  BY <1>2, <1>3, <1>4, <1>5, TakeMoves

\* A node no guard holds.
LEMMA RemoveNodeMoves ==
  ASSUME Inv, NEW s \in DOMAIN mg, NEW n \in Node, NEW cascade \in BOOLEAN,
         RemoveNode(s, n, cascade)
  PROVE  Moves
<1> DEFINE m == mg[s]
           X == {n} \cup {e \in DOMAIN m.edges : n \in m.edges[e].ends}
<1>1. Good(s, m, restored) /\ s \in Sides
  BY SideIs
<1>2. /\ n \in DOMAIN m.place /\ ~\E w \in m.watch[m.place[n]] : Refuses(w, n)
      /\ RemoveFromGraph(s, m.place[n], X)
  BY DEF RemoveNode
<1>3. m.place[n] \in m.graphs
  BY <1>1, <1>2 DEF Good, Placed
<1>4. DOMAIN m.edges \subseteq Edge /\ \A e \in DOMAIN m.edges : m.edges[e].ends \subseteq Node
  BY <1>1 DEF Good, Metagraph, Table, EdgeRow
<1>5. X \in SUBSET (Node \cup Edge) /\ \A e \in DOMAIN m.edges \ X : m.edges[e].ends \cap X = {}
  BY <1>4, KindsAssumption
<1>6. ASSUME NEW e \in DOMAIN m.inters, NEW p \in m.inters[e].ends, m.inters[e].comp,
             Watchers(s, p[1]) \cap m.watch[p[1]] # {}, EndsLive(m, {p}), p[2] \in X
      PROVE  FALSE
  <2>1. p \in GraphId \X Node
    BY <1>1 DEF Good, Metagraph, Table, InterRow
  <2>2. p[2] = n /\ p = <<p[1], n>>
    BY <1>4, <1>6, <2>1, KindsAssumption
  <2>3. p[1] \in m.graphs /\ n \in NodesOf(m, p[1]) /\ m.place[n] = p[1]
    BY <1>6, <2>2 DEF EndsLive, NodesOf
  <2>4. m.watch[p[1]] = Watchers(s, p[1])
    <3>1. \/ m.watch[p[1]] = {} \/ m.watch[p[1]] = Watchers(s, p[1])
          \/ s = "fork" /\ m.watch[p[1]] = Watchers("origin", <<p[1][1], "origin">>)
      BY <1>1, <2>3 DEF Good, Watched
    <3>2. s = "fork" => Watchers(s, p[1]) \cap Watchers("origin", <<p[1][1], "origin">>) = {}
      BY DEF Watchers
    <3>3. QED
      BY <1>6, <3>1, <3>2
  <2>5. [kind |-> "guard", owner |-> s, gid |-> p[1]] \in m.watch[p[1]]
    BY <2>4 DEF Watchers
  <2>6. Refuses([kind |-> "guard", owner |-> s, gid |-> p[1]], n)
    BY <1>6, <2>2, <2>3 DEF Refuses
  <2>7. QED
    BY <1>2, <2>3, <2>5, <2>6
<1> HIDE DEF X
<1>7. QED
  BY <1>2, <1>3, <1>5, <1>6, TakeMoves

LEMMA DeleteMoves ==
  ASSUME Inv, NEW s \in DOMAIN mg, Delete(s)
  PROVE  Moves
BY RemoveEdgeMoves, RemoveNodeMoves, RemoveMetaMoves, RemoveInterMoves, RemoveXRefMoves,
   RemoveInstanceMoves, RemoveGraphMoves DEF Delete

-----------------------------------------------------------------------------
\* A rollback, a fork and a capture.
LEMMA RestoreKeepsInv ==
  ASSUME Inv, NEW m \in snap, Restore(m), ops' \in 0 .. MaxOps
  PROVE  Inv'
<1> DEFINE cur == mg["origin"]
           now == [m EXCEPT !.insts = cur.insts,
                            !.watch = [g \in m.graphs |->
                                         IF g \in cur.graphs THEN cur.watch[g] ELSE {}]]
<1>1. /\ mg' = [mg EXCEPT !["origin"] = now] /\ restored' = TRUE /\ snap' = snap
      /\ "origin" \in DOMAIN mg /\ mg = [s \in DOMAIN mg |-> mg[s]]
  BY DEF Restore, Inv
<1>2. /\ restored \in BOOLEAN /\ Good("origin", cur, restored) /\ Good("origin", m, TRUE)
      /\ Later(m, cur) /\ snap = {m} /\ DOMAIN m = Fields
  BY DEF Inv, Good, Metagraph
<1>3. /\ Changes(m, now, {"insts", "watch"}) /\ now.insts = cur.insts
      /\ now.watch = [g \in m.graphs |-> IF g \in cur.graphs THEN cur.watch[g] ELSE {}]
  BY <1>2 DEF Changes, Fields
<1> HIDE DEF now
<1>4. Good("origin", now, TRUE) /\ Later(m, now)
  BY <1>2, <1>3, RestoreKeeps
<1>5. mg' = [s \in DOMAIN mg' |-> mg'[s]] /\ DOMAIN mg' = DOMAIN mg /\ mg'["origin"] = now
  BY <1>1
<1>6. \A s \in DOMAIN mg : Good(s, mg'[s], TRUE)
  <2>1. ASSUME NEW s \in DOMAIN mg, s # "origin"
        PROVE  Good(s, mg'[s], TRUE)
    <3>1. mg'[s] = mg[s] /\ Good(s, mg[s], restored)
      BY <1>1, <2>1 DEF Inv
    <3>2. s \in Sides
      BY DEF Inv
    <3>3. QED
      BY <2>1, <3>1, <3>2 DEF Good, Watched, Ids, Grounded
  <2>2. QED
    BY <1>4, <1>5, <2>1
<1>7. QED
  BY <1>1, <1>2, <1>4, <1>5, <1>6 DEF Inv

LEMMA ForkKeepsInv ==
  ASSUME Inv, Fork, ops' \in 0 .. MaxOps
  PROVE  Inv' /\ \A s \in DOMAIN mg : mg'[s] = mg[s]
<1> DEFINE m == mg["origin"]
           now == Regenerate(m)
<1>1. /\ mg' = With(mg, "fork", now) /\ "fork" \notin DOMAIN mg
      /\ snap' = snap /\ restored' = restored
  BY DEF Fork
<1>2. restored \in BOOLEAN /\ Good("origin", m, restored) /\ DOMAIN m = Fields
  BY DEF Inv, Good, Metagraph
<1>3. Good("fork", now, restored)
  BY <1>2, RegenerateIs, RegenerateKeeps
<1> HIDE DEF now
<1>4. /\ DOMAIN mg' = DOMAIN mg \cup {"fork"} /\ mg' = [s \in DOMAIN mg' |-> mg'[s]]
      /\ mg'["fork"] = now /\ \A s \in DOMAIN mg : mg'[s] = mg[s]
  BY <1>1 DEF With
<1>5. \A s \in DOMAIN mg' : Good(s, mg'[s], restored')
  BY <1>1, <1>3, <1>4 DEF Inv
<1>6. QED
  BY <1>1, <1>4, <1>5 DEF Inv, Sides

LEMMA CaptureKeepsInv ==
  ASSUME Inv, Capture, ops' = ops
  PROVE  Inv'
<1>1. mg' = mg /\ snap' = {mg["origin"]} /\ restored' = restored
  BY DEF Capture
<1>2. Good("origin", mg["origin"], TRUE)
  BY DEF Inv, Good, Watched, Ids, Grounded
<1>3. Later(mg["origin"], mg["origin"])
  BY LaterReflexive
<1>4. QED
  BY <1>1, <1>2, <1>3 DEF Inv

LEMMA InitGood == Good("origin", Fresh, FALSE)
<1> DEFINE m == Fresh
           gs == Graph \X {"origin"}
<1>1. /\ DOMAIN m = Fields /\ m.graphs = gs /\ m.place = [n \in Node |-> <<Home[n], "origin">>]
      /\ m.refprop = Empty /\ m.edges = Empty /\ m.metas = Empty /\ m.inters = Empty
      /\ m.xrefs = Empty /\ m.insts = Empty /\ m.bySource = {} /\ m.byTarget = {}
      /\ m.ids = gs \cup Node /\ m.schema = FALSE
      /\ m.watch = [g \in gs |-> Watchers("origin", g)]
  BY DEF Fresh, Fields
<1> HIDE DEF m
<1>2. DOMAIN Empty = {} /\ \A S, T : Table(Empty, S, T)
  BY DEF Empty, Table
<1>3. gs \subseteq GraphId /\ gs = MintedBy("origin")
  BY DEF GraphId, MintedBy, Sides
<1>4. Table(m.place, Node, GraphId) /\ DOMAIN m.place = Node /\ \A n \in Node : m.place[n] \in gs
  BY <1>1, <1>3, HomeAssumption DEF Table
<1>5. /\ Table(m.watch, GraphId, SUBSET Watcher) /\ DOMAIN m.watch = gs
      /\ \A g \in gs : m.watch[g] = Watchers("origin", g)
  <2>1. \A g \in gs : Watchers("origin", g) \in SUBSET Watcher
    BY <1>3 DEF Watchers, Watcher, Sides
  <2>2. QED
    BY <1>1, <1>3, <2>1 DEF Table
<1>6. Metagraph(m)
  <2>1. m.ids \subseteq CoreId \cup Inst /\ m.schema \in BOOLEAN
    BY <1>1, <1>3 DEF CoreId
  <2>2. /\ Table(m.refprop, Node, Node \cup Edge) /\ Table(m.edges, Edge, EdgeRow)
        /\ Table(m.metas, Meta, MetaRow) /\ Table(m.inters, Inter, InterRow)
        /\ Table(m.xrefs, XRef, XRefRow) /\ Table(m.insts, Inst, SUBSET Named)
    BY <1>1, <1>2
  <2>3. DOMAIN m = Fields /\ m.graphs \subseteq GraphId
    BY <1>1, <1>3
  <2>4. QED
    BY <1>4, <1>5, <2>1, <2>2, <2>3 DEF Metagraph
<1>7. Watched("origin", m, FALSE)
  BY <1>1, <1>3, <1>5 DEF Watched
<1>8. Ids(m, FALSE)
  <2>1. LiveCore(m) = gs \cup Node
    BY <1>1, <1>2, <1>4 DEF LiveCore
  <2>2. gs \cup Node \subseteq CoreId
    BY <1>3 DEF CoreId
  <2>3. QED
    BY <1>1, <1>2, <2>1, <2>2, KindsAssumption DEF Ids
<1>9. Placed("origin", m)
  BY <1>1, <1>2, <1>4 DEF Placed
<1>10. Guarded("origin", m)
  BY <1>1, <1>2 DEF Guarded
<1>11. Indexed(m) /\ Grounded("origin", m, FALSE) /\ Fitting(m)
  BY <1>1, <1>2 DEF Indexed, Grounded, Fitting
<1>12. Good("origin", m, FALSE)
  BY <1>6, <1>7, <1>8, <1>9, <1>10, <1>11 DEF Good
<1>13. QED
  BY <1>12 DEF m

LEMMA InitInv == Init => Inv
<1>1. SUFFICES ASSUME Init
               PROVE  Inv
  OBVIOUS
<1>2. mg = [s \in {"origin"} |-> Fresh] /\ snap = {} /\ restored = FALSE /\ ops = 0
  BY <1>1 DEF Init
<1>3. \A s \in DOMAIN mg : Good(s, mg[s], restored)
  BY <1>2, InitGood
<1>4. mg = [s \in DOMAIN mg |-> mg[s]]
  BY <1>2
<1>5. ops \in 0 .. MaxOps
  BY <1>2, MaxOpsAssumption
<1>6. DOMAIN mg \subseteq Sides /\ "origin" \in DOMAIN mg
  BY <1>2 DEF Sides
<1>7. restored \in BOOLEAN /\ snap = {}
  BY <1>2
<1>8. QED
  BY <1>3, <1>4, <1>5, <1>6, <1>7 DEF Inv

\* An operation either moves the metagraphs, or is a rollback or a fork.
LEMMA NextKeepsInv ==
  ASSUME Inv, [Next]_vars
  PROVE  Inv'
<1>1. ASSUME ops < MaxOps, ops' = ops + 1
      PROVE  ops' \in 0 .. MaxOps
  BY <1>1, MaxOpsAssumption DEF Inv
<1>2. ASSUME NEW s \in DOMAIN mg, Insert(s) \/ Delete(s), ops' \in 0 .. MaxOps
      PROVE  Inv'
  BY <1>2, InsertMoves, DeleteMoves, MovesKeep
<1>3. CASE UNCHANGED vars
  BY <1>3 DEF Inv, vars
<1>4. QED
  BY <1>1, <1>2, <1>3, RestoreKeepsInv, ForkKeepsInv, CaptureKeepsInv DEF Next

(* Type invariant, inductive invariant: whatever is done to it, rolled back *)
(* or forked, a metagraph is well-formed (models/metagraph.py).            *)
THEOREM MetagraphInvariant == Spec => []Inv
<1>1. Inv /\ [Next]_vars => Inv'
  BY NextKeepsInv
<1>2. QED
  BY InitInv, <1>1, PTL DEF Spec

(* Identity registry, ends of edges, XRef indexes and instances agree and  *)
(* edges fit the schema, after any operations on any number of elements    *)
(* (models/metagraph.py, mindsos_instances/registry.py).                   *)
THEOREM MetagraphIntegrity == Spec => []Integrity
<1>1. ASSUME Inv
      PROVE  Integrity
  <2>1. \A s \in DOMAIN mg : Good(s, mg[s], restored) /\ s \in Sides
    BY <1>1 DEF Inv
  <2>2. TypeOK
    BY <1>1, <2>1 DEF TypeOK, Inv, Good, Metagraph, Watched, Placed
  <2>3. SchemaHolds
    BY <2>1 DEF SchemaHolds, Good, Fitting
  <2>4. IdentityExact
    BY <2>1 DEF IdentityExact, Good, Ids
  <2>5. EndsAreThere
    BY <2>1 DEF EndsAreThere, Good, Placed, Guarded
  <2>6. IndexesExact
    BY <2>1 DEF IndexesExact, Good, Indexed
  <2>7. InstancesGrounded
    BY <1>1, <2>1 DEF InstancesGrounded, Inv, Good, Grounded
  <2>8. QED
    BY <2>2, <2>3, <2>4, <2>5, <2>6, <2>7 DEF Integrity
<1>2. Inv => Integrity
  BY <1>1
<1>3. QED
  BY MetagraphInvariant, <1>2, PTL

(* No removal of a graph leaves an XRef into it that looks good            *)
(* (models/metagraph.py).                                                  *)
THEOREM MetagraphRemovalMarksStale == Spec => RemovalMarksStale
<1> DEFINE Stale == \A s \in DOMAIN mg : \A g \in mg[s].graphs \ mg'[s].graphs :
                      \A x \in DOMAIN mg[s].xrefs :
                        mg[s].xrefs[x].tmg = s /\ mg[s].xrefs[x].tgt \in Contents(mg[s], g)
                          => mg'[s].xrefs[x].stale
<1>1. ASSUME Inv, [Next]_vars, vars' # vars
      PROVE  (\E m \in snap : Restore(m)) \/ Stale
  <2>1. ASSUME NEW s \in DOMAIN mg, Insert(s) \/ Delete(s)
        PROVE  Stale
    <3>1. Moves
      BY <1>1, <2>1, InsertMoves, DeleteMoves
    <3>2. QED
      BY <3>1 DEF Moves, Marks
  <2>2. CASE \A s \in DOMAIN mg : mg'[s] = mg[s]
    BY <2>2
  <2>3. ASSUME Fork
        PROVE  \A s \in DOMAIN mg : mg'[s] = mg[s]
    BY <2>3 DEF Fork, With
  <2>4. ASSUME Capture
        PROVE  \A s \in DOMAIN mg : mg'[s] = mg[s]
    BY <2>4 DEF Capture
  <2> HIDE DEF Stale
  <2>5. QED
    BY <1>1, <2>1, <2>2, <2>3, <2>4 DEF Next
<1>2. Inv /\ [Next]_vars => [(\E m \in snap : Restore(m)) \/ Stale]_vars
  BY <1>1
<1>3. QED
  BY MetagraphInvariant, <1>2, PTL DEF Spec, RemovalMarksStale
=============================================================================

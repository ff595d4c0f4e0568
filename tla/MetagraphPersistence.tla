------------------------ MODULE MetagraphPersistence ------------------------
(***************************************************************************)
(* How a Metagraph reaches the graph database and comes back               *)
(* (mindsos_core/persistence/metagraph_repository.py, xref_repository.py,  *)
(* wal.py, graph_repository.py, reconstruction/metagraph_loader.py and     *)
(* xref_loader.py).                                                        *)
(*                                                                         *)
(* The database has no transaction over statements.  One process holds the *)
(* metagraph; each of its statements is a step, and may fail without       *)
(* effect, fail after its effect (the answer is lost), or be the last one  *)
(* before a crash.  Rows of XRefs are written under an entry of the        *)
(* write-ahead log; a load replays the entries left.  An entry that is     *)
(* committed is left out of "log": only gc reads it again.                 *)
(***************************************************************************)
EXTENDS Naturals, FiniteSets, Sequences, SequencesExt

CONSTANTS Graph,      \* graphs, each the only one of its role
          MetaEdge,   \* metaedges
          Ends,       \* the two graphs of each metaedge
          XRef,       \* XRef ids, a fresh one for each add_xref
          MaxOps,     \* calls the program makes
          MaxFaults   \* statements that fail, and crashes
ASSUME KindsAssumption == MetaEdge \cap XRef = {}
ASSUME EndsAssumption == Ends \in [MetaEdge -> SUBSET Graph]
ASSUME BoundsAssumption == {MaxOps, MaxFaults} \subseteq Nat

VARIABLES mem,     \* the Metagraph object
          db,      \* the rows, and the uncommitted log entries in order
          pc,      \* the statement that comes next
          raised,  \* XRefs whose add_xref raised
          ops, faults
vars == <<mem, db, pc, raised, ops, faults>>

Idle == [at |-> "idle"]
NoObject == [up |-> FALSE, graphs |-> {}, edges |-> {}, xrefs |-> {}, marked |-> {},
             dirty |-> {}, soft |-> {}, attr |-> FALSE, attached |-> FALSE]

Entries == [op : {"add", "remove"}, x : XRef, n : Nat]
NextNumber(log) == IF log = <<>> THEN 1 ELSE Last(log).n + 1

(* marked holds the elements with a soft-delete mark: deprecated_at of a   *)
(* metaedge, target_stale of an XRef.                                      *)
TypeOK ==
  /\ mem \in [up : BOOLEAN, graphs : SUBSET Graph, edges : SUBSET MetaEdge,
              xrefs : SUBSET XRef, marked : SUBSET (MetaEdge \cup XRef),
              dirty : SUBSET XRef, soft : SUBSET (MetaEdge \cup XRef),
              attr : BOOLEAN, attached : BOOLEAN]
  /\ mem.dirty \subseteq mem.xrefs
  /\ db.anchor \in BOOLEAN /\ db.graphs \subseteq Graph /\ db.edges \subseteq MetaEdge
  /\ db.xrefs \subseteq XRef /\ db.marked \subseteq db.edges \cup db.xrefs
  /\ \A e \in db.edges : Ends[e] \subseteq db.graphs
  /\ db.log \in Seq(Entries)
  /\ raised \subseteq XRef

Init == /\ mem = [NoObject EXCEPT !.up = TRUE, !.attr = TRUE]
        /\ db = [anchor |-> FALSE, graphs |-> {}, edges |-> {}, xrefs |-> {},
                 marked |-> {}, log |-> <<>>]
        /\ pc = Idle
        /\ raised = {}
        /\ ops = 0 /\ faults = 0

(* One call of the program.                                                *)
Call == /\ pc = Idle
        /\ ops < MaxOps
        /\ ops' = ops + 1

(* One statement whose effect makes the rows d.  When it fails the         *)
(* exception goes up to the program, and next is where it ends.            *)
Statement(d, next, onError) ==
  /\ \/ db' = d /\ pc' = next /\ UNCHANGED faults
     \/ /\ faults < MaxFaults
        /\ faults' = faults + 1
        /\ db' \in {db, d}
        /\ pc' = onError
  /\ UNCHANGED <<mem, raised, ops>>

-----------------------------------------------------------------------------
(* Calls on the object: no statement.                                      *)

InMemory(m) == /\ Call
               /\ mem.up
               /\ mem' = m
               /\ UNCHANGED <<db, pc, faults>>

AddGraph(g) == /\ g \notin mem.graphs \cup db.graphs
               /\ InMemory([mem EXCEPT !.graphs = @ \cup {g}])
               /\ UNCHANGED raised

AddMetaEdge(e) == /\ e \notin mem.edges \cup db.edges
                  /\ Ends[e] \subseteq mem.graphs
                  /\ InMemory([mem EXCEPT !.edges = @ \cup {e}])
                  /\ UNCHANGED raised

(* add_xref registers the XRef and then reads _persist_client.  A persist  *)
(* or a load has deleted that attribute of the object: the read raises and *)
(* the XRef is not made dirty.                                             *)
AddXRef(x) ==
  /\ x \notin mem.xrefs \cup db.xrefs \cup raised \cup {db.log[i].x : i \in DOMAIN db.log}
  /\ InMemory([mem EXCEPT !.xrefs = @ \cup {x}, !.dirty = IF mem.attr THEN @ \cup {x} ELSE @])
  /\ raised' = IF mem.attr THEN raised ELSE raised \cup {x}

(* remove_xref that leaves the id in _xrefs_dirty.                         *)
MutRemoveXRefDirty(x) ==
  /\ x \in mem.xrefs
  /\ InMemory([mem EXCEPT !.xrefs = @ \ {x}, !.marked = @ \ {x}])
  /\ UNCHANGED raised

(* remove_xref forgets the XRef and says so to nobody.                     *)
RemoveXRef(x) == /\ x \in mem.xrefs
                 /\ InMemory([mem EXCEPT !.xrefs = @ \ {x}, !.dirty = @ \ {x}, !.marked = @ \ {x}])
                 /\ UNCHANGED raised

(* mark_xref_stale, deprecate_xref, deprecate_metaedge and their inverses. *)
Mark(e) == /\ e \in mem.edges \cup mem.xrefs
           /\ InMemory([mem EXCEPT !.marked = IF e \in @ THEN @ \ {e} ELSE @ \cup {e},
                                   !.soft = @ \cup {e}])
           /\ UNCHANGED raised

-----------------------------------------------------------------------------
(* WriteAheadLog.entry around the statement of one XRef: begin, the        *)
(* statement, commit; an exception leaves the entry uncommitted.           *)

Effect(d, e) ==
  IF e.op = "add" THEN [d EXCEPT !.xrefs = @ \cup {e.x}]
                  ELSE [d EXCEPT !.xrefs = @ \ {e.x}, !.marked = @ \ {e.x}]
Committed(d, e) == [d EXCEPT !.log = RemoveAt(@, CHOOSE i \in DOMAIN @ : @[i] = e)]

(* A write that is made without its log entry.                             *)
MutBeginUnlogged ==
  /\ pc.at = "begin"
  /\ pc' = [at |-> "write", then |-> pc.then,
            entry |-> [op |-> pc.op, x |-> pc.x, n |-> NextNumber(db.log)]]
  /\ UNCHANGED <<mem, db, raised, ops, faults>>

Begin == /\ pc.at = "begin"
         /\ LET e == [op |-> pc.op, x |-> pc.x, n |-> NextNumber(db.log)] IN
            Statement([db EXCEPT !.log = Append(@, e)],
                      [at |-> "write", entry |-> e, then |-> pc.then], Idle)

Write == /\ pc.at = "write"
         /\ Statement(Effect(db, pc.entry), [pc EXCEPT !.at = "commit"], Idle)

Commit == /\ pc.at = "commit"
          /\ Statement(Committed(db, pc.entry), pc.then, Idle)

(* XRefRepository.remove, called for an XRef the object no longer holds.   *)
RepositoryRemove(x) ==
  /\ Call
  /\ mem.up
  /\ x \in db.xrefs \ mem.xrefs
  /\ pc' = [at |-> "begin", op |-> "remove", x |-> x, then |-> Idle]
  /\ UNCHANGED <<mem, db, raised, faults>>

-----------------------------------------------------------------------------
(* MetagraphRepository.persist.                                            *)

(* _xrefs_dirty cleared before its XRefs are written.                      *)
MutPersistClearsFirst ==
  /\ Call
  /\ mem.up
  /\ mem' = [mem EXCEPT !.dirty = {}]
  /\ pc' = [at |-> "anchor"]
  /\ UNCHANGED <<db, raised, faults>>

Persist == /\ Call
           /\ mem.up
           /\ pc' = [at |-> "anchor"]
           /\ UNCHANGED <<mem, db, raised, faults>>

Anchor == /\ pc.at = "anchor"
          /\ Statement([db EXCEPT !.anchor = TRUE], [at |-> "graphs", todo |-> mem.graphs], Idle)

(* A graph that fails to be written is passed over.                        *)
MutGraphRowPassed(g) ==
  /\ pc.at = "graphs"
  /\ g \in pc.todo
  /\ Statement([db EXCEPT !.graphs = @ \cup {g}], [pc EXCEPT !.todo = @ \ {g}],
               [pc EXCEPT !.todo = @ \ {g}])

(* GraphRepository.persist of one graph; the last one leads to the edges.  *)
GraphRow(g) ==
  /\ pc.at = "graphs"
  /\ g \in pc.todo
  /\ Statement([db EXCEPT !.graphs = @ \cup {g}], [pc EXCEPT !.todo = @ \ {g}], Idle)

(* One MATCH over both ends of each metaedge: it skips an edge whose graph *)
(* has no row, and reports nothing.                                        *)
EdgeRows ==
  /\ pc.at = "graphs" /\ pc.todo = {}
  /\ Statement([db EXCEPT !.edges = @ \cup {e \in mem.edges : Ends[e] \subseteq db.graphs}],
               [at |-> "xrefs", todo |-> mem.dirty], Idle)

DirtyXRef(x) ==
  /\ pc.at = "xrefs"
  /\ x \in pc.todo
  /\ pc' = [at |-> "begin", op |-> "add", x |-> x, then |-> [pc EXCEPT !.todo = @ \ {x}]]
  /\ UNCHANGED <<mem, db, raised, ops, faults>>

(* _xrefs_dirty is cleared once all are written.                           *)
XRefsDone ==
  /\ pc.at = "xrefs" /\ pc.todo = {}
  /\ mem' = [mem EXCEPT !.dirty = {}]
  /\ pc' = [at |-> "marks", bucket |-> "edges", todo |-> mem.soft \cap MetaEdge]
  /\ UNCHANGED <<db, raised, ops, faults>>

(* The mark of one element; MATCH finds no row of an element never saved.  *)
Synced(d, e) == IF e \in d.edges \cup d.xrefs
                THEN [d EXCEPT !.marked = IF e \in mem.marked THEN @ \cup {e} ELSE @ \ {e}]
                ELSE d

(* _drain_soft_delete: an element gone from memory is skipped.             *)
DrainMark(e) ==
  /\ pc.at = "marks"
  /\ e \in pc.todo
  /\ Statement(IF e \in mem.edges \cup mem.xrefs THEN Synced(db, e) ELSE db,
               [pc EXCEPT !.todo = @ \ {e}], Idle)

(* Every bucket cleared with the first.                                    *)
MutMarksDoneAll ==
  /\ pc.at = "marks" /\ pc.todo = {}
  /\ IF pc.bucket = "edges"
     THEN /\ mem' = [mem EXCEPT !.soft = {}]
          /\ pc' = [at |-> "marks", bucket |-> "xrefs", todo |-> mem.soft \cap XRef]
     ELSE /\ mem' = [mem EXCEPT !.attr = FALSE]
          /\ pc' = Idle
  /\ UNCHANGED <<db, raised, ops, faults>>

(* A bucket is cleared at its end, metaedges before XRefs.                 *)
MarksDone ==
  /\ pc.at = "marks" /\ pc.todo = {}
  /\ IF pc.bucket = "edges"
     THEN /\ mem' = [mem EXCEPT !.soft = @ \ MetaEdge]
          /\ pc' = [at |-> "marks", bucket |-> "xrefs", todo |-> mem.soft \cap XRef]
     ELSE /\ mem' = [mem EXCEPT !.soft = @ \ XRef, !.attr = FALSE]
          /\ pc' = Idle
  /\ UNCHANGED <<db, raised, ops, faults>>

-----------------------------------------------------------------------------
(* MetagraphLoader.load in a process without the object.                   *)

(* The newest entry is replayed first.                                     *)
MutLoadNewestFirst(incl, attach) ==
  /\ Call
  /\ ~mem.up
  /\ pc' = [at |-> "recover", todo |-> Reverse(db.log), first |-> db.log, skipped |-> {},
            incl |-> incl, attach |-> attach]
  /\ UNCHANGED <<mem, db, raised, faults>>

Load(incl, attach) ==
  /\ Call
  /\ ~mem.up
  /\ pc' = [at |-> "recover", todo |-> db.log, first |-> db.log, skipped |-> {},
            incl |-> incl, attach |-> attach]
  /\ UNCHANGED <<mem, db, raised, faults>>

(* A replay that failed is committed all the same.                         *)
MutReplayCommits ==
  /\ pc.at = "recover" /\ pc.todo # <<>>
  /\ Statement(Effect(db, Head(pc.todo)), [pc EXCEPT !.at = "recommit"],
               [pc EXCEPT !.at = "recommit"])

(* A replayer that fails is skipped; a commit that fails ends the load.    *)
Replay ==
  /\ pc.at = "recover" /\ pc.todo # <<>>
  /\ Statement(Effect(db, Head(pc.todo)), [pc EXCEPT !.at = "recommit"],
               [pc EXCEPT !.todo = Tail(@), !.skipped = @ \cup {Head(pc.todo)}])

Recommit ==
  /\ pc.at = "recommit"
  /\ Statement(Committed(db, Head(pc.todo)),
               [pc EXCEPT !.at = "recover", !.todo = Tail(@)], Idle)

(* Deprecated metaedges are filtered out unless asked for.                 *)
EdgesRead(incl) == {e \in db.edges : incl \/ e \notin db.marked}

(* XRefs are loaded by an after-load observer, which a fresh object has    *)
(* only when the caller attaches it and dispatches once more.              *)
XRefsRead(attached, held) == IF attached THEN db.xrefs ELSE held

Read ==
  /\ pc.at = "recover" /\ pc.todo = <<>>
  /\ db.anchor
  /\ LET es == EdgesRead(pc.incl)
         xs == XRefsRead(pc.attach, {}) IN
     mem' = [NoObject EXCEPT !.up = TRUE, !.graphs = db.graphs, !.edges = es, !.xrefs = xs,
                             !.marked = db.marked \cap (es \cup xs), !.attached = pc.attach]
  /\ pc' = Idle
  /\ raised' = {}
  /\ UNCHANGED <<db, ops, faults>>

(* The anchor is not there, or a read fails.                               *)
ReadFails ==
  /\ pc.at = "recover" /\ pc.todo = <<>>
  /\ IF db.anchor THEN faults < MaxFaults /\ faults' = faults + 1 ELSE UNCHANGED faults
  /\ pc' = Idle
  /\ UNCHANGED <<mem, db, raised, ops>>

(* refresh of the role of graph g: the graph is removed, its metaedges     *)
(* with it, and loaded again alone; an attached loader reads the XRefs;    *)
(* every soft-delete bucket is cleared.                                    *)
Refresh(g) ==
  LET es == {e \in mem.edges : g \notin Ends[e]}
      xs == XRefsRead(mem.attached, mem.xrefs)
      ms == IF mem.attached THEN (mem.marked \cap es) \cup (db.marked \cap xs)
                            ELSE mem.marked \cap (es \cup xs) IN
  /\ g \in mem.graphs \cap db.graphs
  /\ InMemory([mem EXCEPT !.edges = es, !.xrefs = xs, !.marked = ms, !.soft = {},
                          !.dirty = IF mem.attached THEN {} ELSE @, !.attr = FALSE])
  /\ raised' = raised \cap xs

Crash == /\ faults < MaxFaults
         /\ mem.up \/ pc # Idle
         /\ faults' = faults + 1
         /\ mem' = NoObject
         /\ pc' = Idle
         /\ raised' = {}
         /\ UNCHANGED <<db, ops>>

-----------------------------------------------------------------------------
Next ==
  \/ \E g \in Graph : AddGraph(g) \/ GraphRow(g) \/ Refresh(g)
  \/ \E e \in MetaEdge : AddMetaEdge(e)
  \/ \E x \in XRef : AddXRef(x) \/ RemoveXRef(x) \/ RepositoryRemove(x) \/ DirtyXRef(x)
  \/ \E e \in MetaEdge \cup XRef : Mark(e) \/ DrainMark(e)
  \/ Begin \/ Write \/ Commit
  \/ Persist \/ Anchor \/ EdgeRows \/ XRefsDone \/ MarksDone
  \/ \E incl, attach \in BOOLEAN : Load(incl, attach)
  \/ Replay \/ Recommit \/ Read \/ ReadFails
  \/ Crash

Spec == Init /\ [][Next]_vars

-----------------------------------------------------------------------------
(* Safety.                                                                 *)

(* An XRef the program holds is in the database or will be: it is dirty,   *)
(* or its add_xref raised (metagraph.py:678).                              *)
HeldIsSavedOrDirty == mem.xrefs \subseteq db.xrefs \cup mem.dirty \cup raised

(* The row of an XRef comes and goes only under a log entry that says so   *)
(* and that a later recovery would find (xref_repository.py:82).           *)
WriteAhead ==
  [][\A x \in XRef : (x \in db.xrefs) # (x \in db'.xrefs) =>
       \E i \in DOMAIN db.log :
         db.log[i].x = x /\ db.log[i].op = IF x \in db.xrefs THEN "remove" ELSE "add"]_vars

(* An entry leaves the log only when the row is as it says (wal.py:145).   *)
CommittedHasHappened ==
  [][\A e \in ToSet(db.log) \ ToSet(db'.log) : (e.x \in db'.xrefs) = (e.op = "add")]_vars

(* A load in which no replay failed leaves each XRef of the log as the     *)
(* last of its entries says (wal.py:238).                                  *)
LastEntryWins ==
  [][mem.up # mem'.up /\ mem'.up /\ pc.skipped = {} =>
       \A i \in DOMAIN pc.first :
         (\A j \in DOMAIN pc.first : pc.first[j].x = pc.first[i].x => j <= i) =>
           (pc.first[i].x \in db.xrefs) = (pc.first[i].op = "add")]_vars

(* A persist that returns has saved what the object holds: its graphs,     *)
(* every metaedge between them, and every XRef whose add_xref returned     *)
(* (metagraph_repository.py:134).                                          *)
PersistSavesAll ==
  [][MarksDone /\ pc.bucket = "xrefs" =>
       /\ mem.graphs \subseteq db.graphs
       /\ mem.edges \subseteq db.edges
       /\ mem.xrefs \ raised \subseteq db.xrefs]_vars

(* A mark that the row has not got, or still has, is in a dirty bucket; no *)
(* step but a refresh, which clears every bucket and not only that of the  *)
(* role it reads, forgets one (metagraph_loader.py:457).                   *)
Unsaved(m, d) == {e \in (m.edges \cup m.xrefs) \ raised : (e \in m.marked) # (e \in d.marked)}
MarksAreDirty ==
  [][Unsaved(mem', db') \subseteq (Unsaved(mem, db) \ mem.soft) \cup mem'.soft
       \/ \E g \in Graph : Refresh(g)]_vars

(* What an object holds and the database lacks is not forgotten: a persist *)
(* that returns has written it, a mark waits in its bucket.                *)
UnsavedIsRemembered == PersistSavesAll /\ MarksAreDirty

(* The rows refer to rows that are there, and the XRefs an object holds    *)
(* are saved or still to be saved, between any two statements of a         *)
(* persist that may fail (metagraph_repository.py, persist).               *)
HeldIsSafe ==
  /\ TypeOK
  /\ HeldIsSavedOrDirty

(* A statement about an XRef is preceded by its log entry and an entry is  *)
(* dropped only after its statement happened, so that no write is lost     *)
(* between the two, and a replay leaves what the last entry says (wal.py,  *)
(* entry and recover; xref_repository.py).                                 *)
LogBracketsRows ==
  /\ WriteAhead
  /\ CommittedHasHappened
  /\ LastEntryWins
=============================================================================

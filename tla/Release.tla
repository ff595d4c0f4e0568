------------------------------- MODULE Release -------------------------------
(***************************************************************************)
(* Promotion into the Global: mindsos_admin/promotion.py, audit_gate.py,   *)
(* similarity.py and mindsos_server/release.py.  The ledger of mutations   *)
(* and releases is in SQLite, released nodes are in FalkorDB, and every    *)
(* command is a process that loads both before it acts (mindsos_cli        *)
(* commands/server.py, persistence/bootstrap.py).  A ship holds SQLite's   *)
(* write lock from BEGIN IMMEDIATE to its commit, while it copies node     *)
(* after node into FalkorDB, which no rollback undoes.                     *)
(***************************************************************************)
EXTENDS Naturals, Sequences, FiniteSets

CONSTANTS Role, Content,  \* role graphs; what the similarity of nodes compares
          Imported,       \* <<role, content>> of the nodes importers persisted
          Proc,           \* ship commands running at one time
          MaxRows,        \* mutations proposed
          MaxShips,       \* ship commands started
          MaxFaults       \* FalkorDB statements that fail, commands that die
ASSUME ImportedAssumption == Imported \subseteq Role \X Content
ASSUME BoundsAssumption == {MaxRows, MaxShips, MaxFaults} \subseteq Nat

VARIABLES rows,      \* pending_mutations, by mutation id; shipped is 0 for NULL
          releases,  \* the releases table, by release id
          falkor,    \* mutations whose node is in FalkorDB's canonical graph
          lock,      \* the commands in a write transaction of SQLite
          pc,        \* where each command is, and what it has in memory
          ships, faults
vars == <<rows, releases, falkor, lock, pc, ships, faults>>

Idle == [at |-> "idle"]

TypeOK ==
  /\ rows \in Seq([role : Role, content : Content, shipped : 0 .. Len(releases)])
  /\ releases \in Seq([status : {"SHIPPED", "FAILED"}, ids : SUBSET (1 .. Len(rows)),
                       parent : 0 .. Len(releases)])
  /\ falkor \subseteq 1 .. Len(rows)
  /\ lock \subseteq Proc /\ Cardinality(lock) <= 1
  /\ DOMAIN pc = Proc
  /\ ships \in 0 .. MaxShips /\ faults \in 0 .. MaxFaults

Unshipped == {m \in DOMAIN rows : rows[m].shipped = 0}
Shipped == {r \in DOMAIN releases : releases[r].status = "SHIPPED"}

(* _query_last_shipped_release_id, 0 when there is none.                   *)
LastShipped == CHOOSE r \in Shipped \cup {0} : \A s \in Shipped : s <= r

(* _build_suppression_set: what the failed releases since then had landed. *)
Suppression ==
  UNION {releases[r].ids : r \in {s \in DOMAIN releases : s > LastShipped} \ Shipped}

(* compute_similarity calls the pair blocking.  A node's id is a fresh     *)
(* uuid and adds nothing.                                                  *)
Similar(m, n) == rows[m].role = rows[n].role /\ rows[m].content = rows[n].content

(* audit_gate.run passes: no candidate the command knows is similar to     *)
(* another pending node of its memory, or to a node of the canonical graph *)
(* it loaded.  Of that graph only imported nodes can match: a node of an   *)
(* earlier release is stored with node_id and node_type where the loader   *)
(* reads id and type_name, and comes back under no type at all.            *)
GatePasses(p, snapshot) ==
  \A m \in snapshot \cap pc[p].pending :
    /\ \A n \in pc[p].pending \ {m} : ~Similar(m, n)
    /\ <<rows[m].role, rows[m].content>> \notin Imported

Init == /\ rows = <<>> /\ releases = <<>>
        /\ falkor = {} /\ lock = {}
        /\ pc = [p \in Proc |-> Idle]
        /\ ships = 0 /\ faults = 0

Goto(p, next) == pc' = [pc EXCEPT ![p] = next]
Ledger == <<rows, releases>>

(* propose_for_promotion, of one atom.  When it fails its transaction is   *)
(* rolled back; the node it leaves in FalkorDB's pending graph is read by  *)
(* nobody.                                                                 *)
Propose(r, c) ==
  /\ Len(rows) < MaxRows
  /\ lock = {}
  /\ rows' = Append(rows, [role |-> r, content |-> c, shipped |-> 0])
  /\ UNCHANGED <<releases, falkor, lock, pc, ships, faults>>

\* Mutant of Load: a node that is in the canonical graph is not pending any more.
MutLoadNotLanded(p) ==
  /\ pc[p] = Idle
  /\ ships < MaxShips
  /\ ships' = ships + 1
  /\ Goto(p, [at |-> "loaded", pending |-> Unshipped \ falkor, loaded |-> Len(rows)])
  /\ UNCHANGED <<Ledger, falkor, lock, faults>>

(* _build_global_metagraphs: the pending graph is rehydrated from the rows.*)
Load(p) ==
  /\ pc[p] = Idle
  /\ ships < MaxShips
  /\ ships' = ships + 1
  /\ Goto(p, [at |-> "loaded", pending |-> Unshipped, loaded |-> Len(rows)])
  /\ UNCHANGED <<Ledger, falkor, lock, faults>>

(* release_update reads the suppression before its transaction.            *)
ReadSuppression(p) ==
  /\ pc[p].at = "loaded"
  /\ Goto(p, [at |-> "begin", pending |-> pc[p].pending, loaded |-> pc[p].loaded,
              suppressed |-> Suppression])
  /\ UNCHANGED <<Ledger, falkor, lock, ships, faults>>

\* Mutant of Begin: the transaction is deferred and takes no lock.
MutBeginDeferred(p) ==
  LET snapshot == Unshipped IN
  /\ pc[p].at = "begin"
  /\ snapshot # {} /\ GatePasses(p, snapshot)
  /\ lock' = lock \cup {p}
  /\ Goto(p, [at |-> "copy", pending |-> pc[p].pending, loaded |-> pc[p].loaded,
              suppressed |-> pc[p].suppressed, snapshot |-> snapshot,
              todo |-> snapshot, landed |-> {}])
  /\ UNCHANGED <<Ledger, falkor, ships, faults>>

\* Mutant of Begin: what was loaded is shipped, whatever became of it.
MutBeginFromMemory(p) ==
  LET snapshot == pc[p].pending IN
  /\ pc[p].at = "begin"
  /\ lock = {}
  /\ snapshot # {} /\ GatePasses(p, snapshot)
  /\ lock' = {p}
  /\ Goto(p, [at |-> "copy", pending |-> pc[p].pending, loaded |-> pc[p].loaded,
              suppressed |-> pc[p].suppressed, snapshot |-> snapshot,
              todo |-> snapshot, landed |-> {}])
  /\ UNCHANGED <<Ledger, falkor, ships, faults>>

(* BEGIN IMMEDIATE, the snapshot and the gate.  EmptyReleaseError leaves   *)
(* no row; a blocked release rolls back and records its failure.           *)
Begin(p) ==
  LET snapshot == Unshipped IN
  /\ pc[p].at = "begin"
  /\ lock = {}
  /\ IF snapshot = {} THEN Goto(p, Idle) /\ UNCHANGED lock
     ELSE IF GatePasses(p, snapshot)
     THEN /\ lock' = {p}
          /\ Goto(p, [at |-> "copy", pending |-> pc[p].pending, loaded |-> pc[p].loaded,
                      suppressed |-> pc[p].suppressed, snapshot |-> snapshot,
                      todo |-> snapshot, landed |-> {}])
     ELSE /\ Goto(p, [at |-> "failed", error |-> "blocked", ids |-> {},
                      loaded |-> pc[p].loaded])
          /\ UNCHANGED lock
  /\ UNCHANGED <<Ledger, falkor, ships, faults>>

(* Role after role in the order of their first mutation, and in the order  *)
(* of mutations within a role.                                             *)
Least(S) == CHOOSE m \in S : \A n \in S : m <= n
NextRow(p) ==
  LET todo == pc[p].todo
      open == {m \in todo : \E n \in pc[p].snapshot \ todo : rows[n].role = rows[m].role}
  IN  Least(IF open = {} THEN todo ELSE open)

\* Mutant of Recorded: a role that was begun counts as copied.
MutRecordedRoles(p) ==
  {m \in pc[p].snapshot : \E n \in pc[p].landed : rows[n].role = rows[m].role}

(* The landed nodes of the roles that were copied to the end: what the     *)
(* manifest of a failed release names.                                     *)
Recorded(p) ==
  {m \in pc[p].landed : \A n \in pc[p].todo : rows[n].role # rows[m].role}

(* An exception rolls the transaction back.                                *)
Fail(p, error) ==
  /\ lock' = lock \ {p}
  /\ Goto(p, [at |-> "failed", error |-> error, ids |-> Recorded(p), loaded |-> pc[p].loaded])

\* Mutant of Copy: a row without a pending node is passed over.
MutCopySkipsMissing(p) ==
  LET m == NextRow(p)
      skip == m \in pc[p].suppressed \/ m \notin pc[p].pending
  IN
  /\ pc[p].at = "copy" /\ pc[p].todo # {}
  /\ falkor' = IF skip THEN falkor ELSE falkor \cup {m}
  /\ Goto(p, [pc[p] EXCEPT !.todo = @ \ {m}, !.landed = IF skip THEN @ ELSE @ \cup {m}])
  /\ UNCHANGED <<Ledger, lock, ships, faults>>

(* One row of _copy_role_pending_to_canonical.                             *)
Copy(p) ==
  LET m == NextRow(p)
      done(landed) == Goto(p, [pc[p] EXCEPT !.todo = @ \ {m}, !.landed = landed])
  IN
  /\ pc[p].at = "copy" /\ pc[p].todo # {}
  /\ \/ /\ m \in pc[p].suppressed
        /\ done(pc[p].landed)
        /\ UNCHANGED <<falkor, lock>>
     \/ /\ m \notin pc[p].suppressed \cup pc[p].pending
        /\ Fail(p, "drift")
        /\ UNCHANGED falkor
     \/ /\ m \in pc[p].pending \ pc[p].suppressed
        /\ falkor' = falkor \cup {m}
        /\ done(pc[p].landed \cup {m})
        /\ UNCHANGED lock
  /\ UNCHANGED <<Ledger, ships, faults>>

(* The MERGE raises, done or not.                                          *)
CopyFails(p) ==
  /\ pc[p].at = "copy" /\ pc[p].todo # {}
  /\ LET m == NextRow(p) IN
     /\ m \in pc[p].pending \ pc[p].suppressed
     /\ falkor' \in {falkor, falkor \cup {m}}
  /\ faults < MaxFaults /\ faults' = faults + 1
  /\ Fail(p, "client")
  /\ UNCHANGED <<Ledger, ships>>

(* The release row, the marks on the mutations, and the commit.            *)
Commit(p) ==
  /\ pc[p].at = "copy" /\ pc[p].todo = {}
  /\ releases' = Append(releases, [status |-> "SHIPPED", ids |-> pc[p].snapshot,
                                   parent |-> LastShipped])
  /\ rows' = [m \in DOMAIN rows |->
                IF m \in pc[p].snapshot THEN [rows[m] EXCEPT !.shipped = Len(releases')]
                                        ELSE rows[m]]
  /\ lock' = lock \ {p}
  /\ Goto(p, Idle)
  /\ UNCHANGED <<falkor, ships, faults>>

(* A transaction of its own for the row of a failed release.               *)
RecordFailure(p) ==
  /\ pc[p].at = "failed"
  /\ lock = {}
  /\ releases' = Append(releases, [status |-> "FAILED", ids |-> pc[p].ids, parent |-> 0])
  /\ Goto(p, Idle)
  /\ UNCHANGED <<rows, falkor, lock, ships, faults>>

(* The command dies; SQLite rolls its transaction back.                    *)
Die(p) ==
  /\ pc[p].at \in {"copy", "failed"}
  /\ faults < MaxFaults /\ faults' = faults + 1
  /\ lock' = lock \ {p}
  /\ Goto(p, Idle)
  /\ UNCHANGED <<Ledger, falkor, ships>>

Next == \/ \E r \in Role, c \in Content : Propose(r, c)
        \/ \E p \in Proc : \/ Load(p) \/ ReadSuppression(p) \/ Begin(p)
                           \/ Copy(p) \/ CopyFails(p) \/ Commit(p)
                           \/ RecordFailure(p) \/ Die(p)
Spec == Init /\ [][Next]_vars

-----------------------------------------------------------------------------
(* Safety.                                                                 *)

(* What the ledger calls shipped is in the canonical graph, also when a    *)
(* retry passed over it because an earlier, failed release had copied it   *)
(* (release.py:647).                                                       *)
ShippedIsStored == \A m \in DOMAIN rows : rows[m].shipped # 0 => m \in falkor

(* The ledger of mutations and the one of releases agree: a mutation is in *)
(* exactly the release it is marked with, and each shipped release has the *)
(* one before it as parent, whatever commands overlapped (release.py:257). *)
LedgersAgree ==
  /\ \A m \in DOMAIN rows, r \in Shipped : m \in releases[r].ids <=> rows[m].shipped = r
  /\ \A r, s \in Shipped : s < r => s <= releases[r].parent /\ releases[r].parent < r

(* What one release ships is dissimilar to what else it ships and to what  *)
(* was imported, although its command may have loaded before the half of   *)
(* it was proposed, and a suppressed row needs no pending node             *)
(* (release.py:647, audit_gate.py:297).                                    *)
NoTwinsTogether ==
  \A m, n \in DOMAIN rows : rows[m].shipped # 0 =>
    /\ <<rows[m].role, rows[m].content>> \notin Imported
    /\ m # n /\ rows[m].shipped = rows[n].shipped => ~Similar(m, n)

(* A release fails for drift between ledger and memory only when something *)
(* was proposed after its command had loaded: running it again is the cure *)
(* the message promises (release.py:655).                                  *)
DriftIsStaleness ==
  \A p \in Proc : pc[p].at = "failed" /\ pc[p].error = "drift" => Len(rows) > pc[p].loaded

(* What the ledger says was shipped is in the canonical graph, and the     *)
(* ledgers of mutations and of releases agree, over releases that fail     *)
(* half way and overlap, and no release ships twins (release.py:257, 647). *)
LedgersAreTrue ==
  /\ TypeOK
  /\ ShippedIsStored
  /\ LedgersAgree
  /\ NoTwinsTogether
=============================================================================

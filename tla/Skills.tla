------------------------------- MODULE Skills -------------------------------
(***************************************************************************)
(* The lifecycle of skill bundles: the commands install, uninstall and     *)
(* activate (mindsos_cli/commands/skill.py) over the driver, the records,  *)
(* the preflight and the activation (mindsos_server/skills/).              *)
(*                                                                         *)
(* A command is a process of its own.  It reads the Global graph by graph, *)
(* works on its copy and, with --persist, writes the whole copy back, one  *)
(* statement for each graph, without a transaction.  Nothing keeps two     *)
(* commands apart.  They run without a session, so that every record is    *)
(* Global; a manifest stands for a name, a version and a digest.           *)
(***************************************************************************)
EXTENDS Integers, FiniteSets, Sequences, Functions, FiniteSetsExt

CONSTANTS Shell,     \* processes, each with one command at a time
          Manifest,
          Name,      \* the bundle of a manifest
          Requires,  \* its requires_bundles
          Content,   \* its L2 nodes
          RoleOf,    \* the role-graph of each node
          Rank,      \* the order of the manifests' names and versions
          MaxOpened  \* how many commands are started
Bundle == {Name[m] : m \in Manifest}
Node == UNION {Content[m] : m \in Manifest}
Skills == "installed-skills"
None == "none"
Role == {Skills} \cup {RoleOf[n] : n \in Node}

ASSUME SkillsConstants ==
  /\ Requires \in [Manifest -> SUBSET Bundle]
  /\ \A m \in Manifest : Name[m] \notin Requires[m]
  /\ Rank \in [Manifest -> Nat] /\ IsInjective(Rank)
  /\ IsFiniteSet(Role) /\ Skills \notin {RoleOf[n] : n \in Node}
  /\ None \notin Manifest /\ MaxOpened \in Nat

VARIABLES order,     \* the role-graphs, in the order of their ids
          database,  \* the Global in the database
          memory,    \* the copy of each command
          at,        \* where each command is
          todo,      \* the graphs it has still to read or to write
          active,    \* the bundles it has activated
          opened,
          clock,     \* history: how many records have reached the database
          ever,      \* history: those records
          since,     \* history: the clock when the command read the records
          torn       \* history: nodes that a dying command left unwritten
skillsVars ==
  <<order, database, memory, at, todo, active, opened, clock, ever, since, torn>>

(* owner is the installed_by tag of a node, marked those with deprecated_at. *)
Empty == [records |-> {}, owner |-> [n \in Node |-> None], marked |-> {}]
(* since and when are history: what the author had seen, and when the      *)
(* record reached the database (0 until then).                             *)
Record == [manifest : Manifest, seq : Nat, when : Nat, since : Nat,
           status : {"installed", "uninstalled", "failed"}]
Global == [records : SUBSET Record, owner : [Node -> Manifest \cup {None}],
           marked : SUBSET Node]
(* The node id of a record                                                 *)
Key(r) == <<r.manifest, r.seq>>
BundleOf(r) == Name[r.manifest]

SkillsTypeOK ==
  /\ order \in [1 .. Cardinality(Role) -> Role] /\ IsInjective(order)
  /\ database \in Global /\ memory \in [Shell -> Global]
  /\ \A g \in {database} \cup {memory[p] : p \in Shell} :
       /\ \A r, s \in g.records : Key(r) = Key(s) => r = s
       /\ \A n \in Node : g.owner[n] # None => n \in Content[g.owner[n]]
  /\ at \in [Shell -> {"idle", "reading", "loaded", "writing", "raised", "active"}]
  /\ todo \in [Shell -> Seq(Role)] /\ active \in [Shell -> Seq(Bundle)]
  /\ \A p \in Shell : (todo[p] # <<>>) <=> at[p] \in {"reading", "writing"}
  /\ \A p \in Shell : active[p] # <<>> => at[p] \in {"active", "raised"}
  /\ opened \in 0 .. MaxOpened /\ clock \in Nat /\ ever \subseteq Record
  /\ since \in [Shell -> Nat] /\ torn \subseteq Node

SkillsInit ==
  /\ order \in {s \in [1 .. Cardinality(Role) -> Role] : IsInjective(s)}
  /\ database = Empty
  /\ memory = [p \in Shell |-> Empty]
  /\ at = [p \in Shell |-> "idle"]
  /\ todo = [p \in Shell |-> <<>>]
  /\ active = [p \in Shell |-> <<>>]
  /\ opened = 0 /\ clock = 0 /\ ever = {} /\ torn = {}
  /\ since = [p \in Shell |-> 0]

-----------------------------------------------------------------------------
(* The records: the views sorted by seq, those of one seq in the order of  *)
(* their ids; the last one of a bundle is its state.                       *)
Later(r, s) == \/ r.seq > s.seq
               \/ r.seq = s.seq /\ Rank[r.manifest] > Rank[s.manifest]
Of(records, b) == {r \in records : BundleOf(r) = b}
IsLatest(records, r) == \A s \in Of(records, BundleOf(r)) \ {r} : Later(r, s)
Installed(records) ==
  {r \in records : r.status = "installed" /\ IsLatest(records, r)}
InstalledBundles(records) == {BundleOf(r) : r \in Installed(records)}
NextSeq(records) == IF records = {} THEN 1 ELSE 1 + Max({r.seq : r \in records})

(* append_record on the copy of command p                                  *)
Appended(p, m, status) ==
  memory[p].records \cup
    {[manifest |-> m, seq |-> NextSeq(memory[p].records), status |-> status,
      since |-> since[p], when |-> 0]}

(* A mutant: an installed record of the required bundle is enough, even if *)
(* an uninstalled one follows.                                             *)
MutPreflightOkAnyRecord(p, m) ==
  \A b \in Requires[m] :
    \E r \in Of(memory[p].records, b) : r.status = "installed"

(* preflight: the required bundles; the prior state of the bundle itself   *)
(* allows it unless another manifest of it is installed.                   *)
PreflightOk(p, m) == Requires[m] \subseteq InstalledBundles(memory[p].records)
Prior(p, m) == {r \in Installed(memory[p].records) : BundleOf(r) = Name[m]}
Foreign(p, m) == {n \in Content[m] : memory[p].owner[n] \notin {None, m}}

(* apply_installed_skills: sorted by seq; bundles whose seq is the same    *)
(* stay in the order of their first records.                               *)
FirstOf(records, r) ==
  CHOOSE f \in Of(records, BundleOf(r)) :
    \A s \in Of(records, BundleOf(r)) \ {f} : Later(s, f)
(* A mutant: the newest first.                                             *)
MutBeforeNewest(records, r, s) == Later(r, s)

Before(records, r, s) ==
  \/ r.seq < s.seq
  \/ r.seq = s.seq /\ Later(FirstOf(records, s), FirstOf(records, r))
InOrder(records, chosen) ==
  CHOOSE q \in [1 .. Cardinality(chosen) -> chosen] :
    \A i, j \in DOMAIN q : i < j => Before(records, q[i], q[j])

-----------------------------------------------------------------------------
Become(p, place) == at' = [at EXCEPT ![p] = place]
Keep(p, graph) == memory' = [memory EXCEPT ![p] = graph]
Traces == <<clock, ever, since, torn>>

(* The process ends: without --persist, after a refusal or an exception,   *)
(* or at the end of its work.  Its copy of the Global goes with it.        *)
Forget(p) == /\ Become(p, "idle") /\ Keep(p, Empty)
             /\ todo' = [todo EXCEPT ![p] = <<>>]
             /\ active' = [active EXCEPT ![p] = <<>>]
             /\ since' = [since EXCEPT ![p] = 0]
Exit(p) == /\ at[p] \in {"loaded", "raised", "active"}
           /\ Forget(p)
           /\ UNCHANGED <<order, database, opened, clock, ever, torn>>

Open(p) ==
  /\ at[p] = "idle" /\ opened < MaxOpened
  /\ opened' = opened + 1
  /\ Become(p, "reading") /\ todo' = [todo EXCEPT ![p] = order]
  /\ UNCHANGED <<order, database, memory, active>> /\ UNCHANGED Traces

(* MetagraphLoader.load reads one graph after the other; the loader takes  *)
(* deprecated_at for a field of its own and drops it from the properties.  *)
ReadGraph(p) ==
  /\ at[p] = "reading"
  /\ LET role == Head(todo[p])
     IN IF role = Skills
        THEN /\ Keep(p, [memory[p] EXCEPT !.records = database.records])
             /\ since' = [since EXCEPT ![p] = clock]
        ELSE /\ Keep(p, [memory[p] EXCEPT !.owner =
                          [n \in Node |-> IF RoleOf[n] = role THEN database.owner[n]
                                                             ELSE @[n]]])
             /\ UNCHANGED since
  /\ todo' = [todo EXCEPT ![p] = Tail(@)]
  /\ Become(p, IF todo'[p] = <<>> THEN "loaded" ELSE "reading")
  /\ UNCHANGED <<order, database, active, opened, clock, ever, torn>>

(* The command has been given --persist.                                   *)
Persist(p) == Become(p, "writing") /\ todo' = [todo EXCEPT ![p] = order]

(* The manifest is installed already: nothing to do, but to persist.       *)
InstallAgain(p, m) ==
  /\ at[p] = "loaded" /\ \E r \in Prior(p, m) : r.manifest = m
  /\ Persist(p)
  /\ UNCHANGED <<order, database, memory, active, opened>> /\ UNCHANGED Traces

(* New nodes are added, nodes of the same tag claimed again; then the      *)
(* installers run and the record is appended.                              *)
Install(p, m) ==
  /\ at[p] = "loaded"
  /\ Prior(p, m) = {} /\ PreflightOk(p, m) /\ Foreign(p, m) = {}
  /\ Keep(p, [records |-> Appended(p, m, "installed"),
              owner |-> [n \in Node |-> IF n \in Content[m] THEN m
                                                           ELSE memory[p].owner[n]],
              marked |-> memory[p].marked \ Content[m]])
  /\ Persist(p)
  /\ UNCHANGED <<order, database, active, opened>> /\ UNCHANGED Traces

(* A node belongs to another tag, or an installer raises: the steps done   *)
(* stay, a failed record is appended, and the command exits before it      *)
(* would persist.                                                          *)
InstallFails(p, m) ==
  /\ at[p] = "loaded"
  /\ Prior(p, m) = {} /\ PreflightOk(p, m)
  /\ \E done \in SUBSET (Content[m] \ Foreign(p, m)) :
       /\ Foreign(p, m) = {} => done = Content[m]
       /\ Keep(p, [records |-> Appended(p, m, "failed"),
                   owner |-> [n \in Node |-> IF n \in done THEN m
                                                          ELSE memory[p].owner[n]],
                   marked |-> memory[p].marked \ done])
  /\ Become(p, "raised")
  /\ UNCHANGED <<order, database, todo, active, opened>> /\ UNCHANGED Traces

(* A mutant: nobody asks for the dependants.                               *)
MutUninstallUnasked(p, m) ==
  /\ at[p] = "loaded" /\ \E r \in Prior(p, m) : r.manifest = m
  /\ Keep(p, [memory[p] EXCEPT
                !.records = Appended(p, m, "uninstalled"),
                !.marked = @ \cup {n \in Node : memory[p].owner[n] = m}])
  /\ Persist(p)
  /\ UNCHANGED <<order, database, active, opened>> /\ UNCHANGED Traces

(* Refused if the bundle is not installed or another one requires it.  The *)
(* nodes of its tag are marked, and stay.                                  *)
Uninstall(p, m) ==
  /\ at[p] = "loaded" /\ \E r \in Prior(p, m) : r.manifest = m
  /\ \A r \in Installed(memory[p].records) : Name[m] \notin Requires[r.manifest]
  /\ Keep(p, [memory[p] EXCEPT
                !.records = Appended(p, m, "uninstalled"),
                !.marked = @ \cup {n \in Node : memory[p].owner[n] = m}])
  /\ Persist(p)
  /\ UNCHANGED <<order, database, active, opened>> /\ UNCHANGED Traces

(* The installers run again, in a process in which those of the bundles in *)
(* absent cannot be imported or raise: a boot, or activate --best-effort,  *)
(* skips them, a plain activate raises at the first.                       *)
Done(p, absent, strict) ==
  {r \in Installed(memory[p].records) :
     /\ BundleOf(r) \notin absent
     /\ strict => \A s \in Installed(memory[p].records) :
          Before(memory[p].records, s, r) => BundleOf(s) \notin absent}
Activate(p, absent, strict) ==
  /\ at[p] = "loaded" /\ absent \subseteq InstalledBundles(memory[p].records)
  /\ LET done == InOrder(memory[p].records, Done(p, absent, strict))
     IN active' = [active EXCEPT ![p] = [i \in DOMAIN done |-> BundleOf(done[i])]]
  /\ Become(p, IF strict /\ absent # {} THEN "raised" ELSE "active")
  /\ UNCHANGED <<order, database, memory, todo, opened>> /\ UNCHANGED Traces

-----------------------------------------------------------------------------
(* MetagraphRepository.persist merges row by row: it sets what the copy    *)
(* has, over whatever is there, and removes nothing - no row, no mark.     *)
Stamped(p) == {IF r.when = 0 THEN [r EXCEPT !.when = clock + 1] ELSE r
                 : r \in memory[p].records}
(* A mutant: the graph is replaced, and with it what others have appended. *)
MutMergedRecordsReplace(p) == Stamped(p)

MergedRecords(p) ==
  Stamped(p) \cup {r \in database.records : \A s \in Stamped(p) : Key(s) # Key(r)}
(* A mutant: MATCH in the place of MERGE, which finds no new row.          *)
MutMergedOwnerMatch(p, role) ==
  [n \in Node |-> IF RoleOf[n] = role /\ memory[p].owner[n] # None
                     /\ database.owner[n] # None
                  THEN memory[p].owner[n] ELSE database.owner[n]]

MergedOwner(p, role) ==
  [n \in Node |-> IF RoleOf[n] = role /\ memory[p].owner[n] # None
                  THEN memory[p].owner[n] ELSE database.owner[n]]
WriteGraph(p) ==
  /\ at[p] = "writing"
  /\ LET role == Head(todo[p])
     IN IF role = Skills
        THEN /\ database' = [database EXCEPT !.records = MergedRecords(p)]
             /\ clock' = IF Stamped(p) = memory[p].records THEN clock ELSE clock + 1
             /\ ever' = ever \cup Stamped(p)
        ELSE /\ database' = [database EXCEPT
                  !.owner = MergedOwner(p, role),
                  !.marked = @ \cup {n \in memory[p].marked : RoleOf[n] = role}]
             /\ UNCHANGED <<clock, ever>>
  /\ IF Len(todo[p]) > 1
     THEN /\ todo' = [todo EXCEPT ![p] = Tail(@)]
          /\ UNCHANGED <<memory, at, active, since>>
     ELSE Forget(p)
  /\ UNCHANGED <<order, opened, torn>>

(* The process dies, or the database refuses a statement.                  *)
Crash(p) ==
  /\ at[p] = "writing"
  /\ Forget(p)
  /\ torn' = torn \cup {n \in Node : /\ memory[p].owner[n] # None
                                     /\ database.owner[n] = None}
  /\ UNCHANGED <<order, database, opened, clock, ever>>

SkillsNext == \E p \in Shell :
  \/ Open(p) \/ ReadGraph(p) \/ WriteGraph(p) \/ Exit(p) \/ Crash(p)
  \/ \E m \in Manifest : \/ InstallAgain(p, m) \/ Install(p, m)
                         \/ InstallFails(p, m) \/ Uninstall(p, m)
  \/ \E absent \in SUBSET Bundle, strict \in BOOLEAN : Activate(p, absent, strict)
SkillsSpec == SkillsInit /\ [][SkillsNext]_skillsVars

-----------------------------------------------------------------------------
(* Neither author had seen the other's record; and another command has     *)
(* made a record of the same id, so that one of the two is lost.           *)
Raced(r, s) == r.when > s.since /\ s.when > r.since
Twin(r) == \E s \in ever : s # r /\ Key(s) = Key(r)

(* A bundle whose record says installed has each bundle it requires,       *)
(* installed before it, unless that one was installed or uninstalled in a  *)
(* command that overlapped, or a record of either was lost to another with *)
(* its id (preflight.py; the reverse-dependency check of driver.py).       *)
Disturbed(records, r, a) ==
  Twin(r) \/ \E s \in Of(records, a) : Raced(r, s) \/ Twin(s)
Met(records) ==
  \A r \in Installed(records) : \A a \in Requires[r.manifest] :
    \/ \E s \in Installed(records) : BundleOf(s) = a /\ s.seq < r.seq
    \/ Disturbed(records, r, a)
DependenciesAreMet == Met(database.records)

(* A process activates a bundle after those it requires, unless it skipped *)
(* one of them or commands overlapped (activation.py takes the order of    *)
(* the records for an order of the requirements).                          *)
ActivatedInOrder ==
  \A p \in Shell : \A i \in DOMAIN active[p] :
    LET records == memory[p].records
    IN \A r \in Installed(records) : \A a \in Requires[r.manifest] :
         BundleOf(r) = active[p][i] =>
           \/ \E j \in 1 .. i - 1 : active[p][j] = a
           \/ a \in InstalledBundles(records) \ Range(active[p])
           \/ Disturbed(records, r, a)

(* What the records say is installed has its content in the database, but  *)
(* for what a command is still to write or died before it wrote (driver.py *)
(* puts content before the record, a persist one graph after the other).   *)
ContentIsThere ==
  \A r \in Installed(database.records) : \A n \in Content[r.manifest] :
    \/ database.owner[n] # None
    \/ n \in torn
    \/ \E p \in Shell : at[p] = "writing" /\ memory[p].owner[n] # None

(* The database never forgets a record, and a record changes only into one *)
(* that a command which overlapped with its author minted under the same   *)
(* id (records.py: append-only, no record is ever mutated).                *)
HistoryGrows ==
  [][\A r \in database.records : \E s \in database'.records :
       Key(s) = Key(r) /\ (s.status = r.status \/ Raced(r, s))]_skillsVars

(* The roster can be relied on: what is installed stands on what it        *)
(* requires, in the database and in each process that activates it, and    *)
(* has its content (preflight.py, driver.py, activation.py).               *)
RosterIsSound ==
  /\ SkillsTypeOK
  /\ DependenciesAreMet
  /\ ActivatedInOrder
  /\ ContentIsThere
=============================================================================

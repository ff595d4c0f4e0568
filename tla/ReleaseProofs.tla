----------------------------- MODULE ReleaseProofs -----------------------------
(***************************************************************************)
(* Release for any roles, contents, imports, commands and bounds.          *)
(*                                                                         *)
(* The ledgers alone are not inductive: why a retry may pass over a row    *)
(* whose node it does not have in memory follows from what the earlier,    *)
(* failed command had in its memory.  Inv adds what a command knows        *)
(* (CommandOK: every row that was unshipped when it loaded and still is,   *)
(* is pending in its memory), and what a node in FalkorDB was tested       *)
(* against (Vetted: every older row that is not shipped yet).              *)
(***************************************************************************)
EXTENDS Release, FiniteSetTheorems, SequenceTheorems, WellFoundedInduction, TLAPS

\* The two tests of the ledger, over a table of mutations rs.
Open(rs) == {m \in 1 .. Len(rs) : rs[m].shipped = 0}
Twins(rs, m, n) == rs[m].role = rs[n].role /\ rs[m].content = rs[n].content
Alien(rs, m) == <<rs[m].role, rs[m].content>> \notin Imported

\* The records a command can be, over a table of mutations and the stored nodes.
Loaded(rs) == [at : {"loaded"}, pending : SUBSET (1 .. Len(rs)), loaded : 0 .. Len(rs)]
Ready(rs, fk) == [at : {"begin"}, pending : SUBSET (1 .. Len(rs)), loaded : 0 .. Len(rs),
                  suppressed : SUBSET fk]
Copies(rs, fk) == [at : {"copy"}, pending : SUBSET (1 .. Len(rs)), loaded : 0 .. Len(rs),
                   suppressed : SUBSET fk, snapshot : SUBSET (1 .. Len(rs)),
                   todo : SUBSET (1 .. Len(rs)), landed : SUBSET fk]
Failed(rs, fk) == [at : {"failed"}, error : {"blocked", "drift", "client"},
                   ids : SUBSET fk, loaded : 0 .. Len(rs)]
Command(rs, fk) == {Idle} \cup Loaded(rs) \cup Ready(rs, fk) \cup Copies(rs, fk) \cup Failed(rs, fk)

\* A command knows every row that is still open and was there when it loaded.
Knows(c, rs) ==
    /\ c.pending \subseteq 1 .. c.loaded
    /\ \A m \in Open(rs) : m <= c.loaded => m \in c.pending

\* A copy has the open rows as its snapshot; what it has done with is stored.
Copying(c, rs, fk) ==
    /\ c.snapshot = Open(rs) /\ c.todo \subseteq c.snapshot
    /\ c.snapshot \ c.todo \subseteq fk
    /\ \A m \in c.snapshot \cap c.pending :
         Alien(rs, m) /\ \A n \in c.pending \ {m} : ~Twins(rs, m, n)

CommandOK(c, rs, fk) ==
    /\ c \in Command(rs, fk)
    /\ c.at \in {"loaded", "begin", "copy"} => Knows(c, rs)
    /\ c.at = "copy" => Copying(c, rs, fk)
    /\ c.at = "failed" /\ c.error = "drift" => Len(rs) > c.loaded

Commands == /\ DOMAIN pc = Proc /\ pc = [p \in Proc |-> pc[p]]
            /\ \A p \in Proc : CommandOK(pc[p], rows, falkor)

\* SQLite's write lock is held by the command that copies.
Locked == /\ lock = {} \/ \E p \in Proc : lock = {p}
          /\ \A p \in Proc : p \in lock <=> pc[p].at = "copy"

\* A stored node was tested against the imports and every older row that is open.
Vetted == \A m \in falkor :
            Alien(rows, m) /\ \A n \in Open(rows) : n < m => ~Twins(rows, m, n)

\* The manifest of a failed release names stored nodes only.
Manifests == \A r \in DOMAIN releases \ Shipped : releases[r].ids \subseteq falkor

Ledgers == /\ rows \in Seq([role : Role, content : Content, shipped : 0 .. Len(releases)])
           /\ releases \in Seq([status : {"SHIPPED", "FAILED"}, ids : SUBSET (1 .. Len(rows)),
                                parent : 0 .. Len(releases)])
           /\ falkor \subseteq 1 .. Len(rows)
           /\ ShippedIsStored /\ LedgersAgree /\ NoTwinsTogether
           /\ Vetted /\ Manifests
Counts == ships \in 0 .. MaxShips /\ faults \in 0 .. MaxFaults
Inv == Ledgers /\ Commands /\ Locked /\ Counts

------------------------------------------------------------------------------
\* A set of naturals that is not empty has a least element.
LEMMA LeastExists ==
    ASSUME NEW S, \A s \in S : s \in Nat, S # {}
    PROVE  \E x \in S : \A y \in S : x <= y
<1> DEFINE R == OpToRel(<, Nat)
<1>1. IsWellFoundedOn(R, Nat)
  BY NatLessThanWellFounded, Zenon
<1>2. \A x, y \in Nat : y < x => <<y, x>> \in R
  BY DEF OpToRel
<1> HIDE DEF R
<1>3. S \subseteq Nat
  OBVIOUS
<1>4. PICK x \in S : \A y \in S : ~(<<y, x>> \in R)
  BY <1>1, <1>3, WFMin
<1>5. \A y \in S : ~(y < x)
  BY <1>2, <1>4
<1>6. ASSUME NEW y \in S
      PROVE  x <= y
  <2>1. x \in Nat /\ y \in Nat /\ ~(y < x)
    BY <1>5
  <2>2. QED
    BY <2>1
<1>7. QED
  BY <1>6

LEMMA LeastIsIn ==
    ASSUME NEW S, \A s \in S : s \in Nat, S # {}
    PROVE  Least(S) \in S
<1>1. \E x \in S : \A y \in S : x <= y
  BY LeastExists
<1>2. QED
  BY <1>1 DEF Least

\* A set of naturals with a bound has a greatest element.
LEMMA GreatestExists ==
    ASSUME NEW b \in Nat, NEW S, \A s \in S : s \in 0 .. b, S # {}
    PROVE  \E s \in S : \A t \in S : t <= s
<1> DEFINE T == {b - s : s \in S}
<1>1. \A t \in T : t \in Nat
  OBVIOUS
<1>2. T # {}
  <2>1. PICK s \in S : TRUE
    OBVIOUS
  <2>2. b - s \in T
    OBVIOUS
  <2>3. QED
    BY <2>2
<1>3. PICK x \in T : \A y \in T : x <= y
  BY <1>1, <1>2, LeastExists
<1>4. PICK s \in S : x = b - s
  OBVIOUS
<1>5. ASSUME NEW t \in S
      PROVE  t <= s
  <2>1. b - s <= b - t
    BY <1>3, <1>4
  <2>2. QED
    BY <2>1
<1>6. QED
  BY <1>5

\* One table of mutations is a later state of another.
Extends(rs, rs2) ==
    /\ Len(rs) \in Nat /\ Len(rs2) \in Nat /\ Len(rs) <= Len(rs2)
    /\ \A m \in 1 .. Len(rs) :
         /\ rs2[m].role = rs[m].role /\ rs2[m].content = rs[m].content
         /\ rs2[m].shipped = 0 => rs[m].shipped = 0

\* What holds of a command still holds of it in a later state of the table,
\* if the table stands still while it copies.
LEMMA CommandsKeep ==
    ASSUME NEW c, NEW rs, NEW rs2, NEW fk, NEW fk2,
           CommandOK(c, rs, fk), Extends(rs, rs2), fk \subseteq fk2,
           c.at = "copy" => rs2 = rs
    PROVE  CommandOK(c, rs2, fk2)
<1>1. c \in Command(rs2, fk2)
  <2>1. /\ 1 .. Len(rs) \subseteq 1 .. Len(rs2)
        /\ 0 .. Len(rs) \subseteq 0 .. Len(rs2)
    BY DEF Extends
  <2>2. CASE c = Idle
    BY <2>2 DEF Command
  <2>3. CASE c \in Loaded(rs)
    BY <2>1, <2>3 DEF Command, Loaded
  <2>4. CASE c \in Ready(rs, fk)
    BY <2>1, <2>4 DEF Command, Ready
  <2>5. CASE c \in Copies(rs, fk)
    BY <2>1, <2>5 DEF Command, Copies
  <2>6. CASE c \in Failed(rs, fk)
    BY <2>1, <2>6 DEF Command, Failed
  <2>7. QED
    BY <2>2, <2>3, <2>4, <2>5, <2>6 DEF CommandOK, Command
<1>2. c.at \in {"loaded", "begin", "copy"} => Knows(c, rs2)
  <2>1. SUFFICES ASSUME c.at \in {"loaded", "begin", "copy"}
                 PROVE  Knows(c, rs2)
    OBVIOUS
  <2>2. Knows(c, rs) /\ c.loaded \in 0 .. Len(rs)
    BY <2>1 DEF CommandOK, Command, Idle, Loaded, Ready, Copies, Failed
  <2>3. QED
    BY <2>2 DEF Knows, Open, Extends
<1>3. c.at = "copy" => Copying(c, rs2, fk2)
  BY DEF CommandOK, Copying
<1>4. c.at = "failed" /\ c.error = "drift" => Len(rs2) > c.loaded
  <2>1. c.at = "failed" => c.loaded \in 0 .. Len(rs)
    BY DEF CommandOK, Command, Idle, Loaded, Ready, Copies, Failed
  <2>2. QED
    BY <2>1 DEF CommandOK, Extends
<1>5. QED
  BY <1>1, <1>2, <1>3, <1>4 DEF CommandOK

\* The fields of a command at each of its steps.
LEMMA CommandIs ==
    ASSUME NEW c, NEW rs, NEW fk, CommandOK(c, rs, fk)
    PROVE  /\ c.at \in {"idle", "loaded", "begin", "copy", "failed"}
           /\ c.at = "loaded" => c \in Loaded(rs)
           /\ c.at = "begin" => c \in Ready(rs, fk)
           /\ c.at = "copy" => c \in Copies(rs, fk)
           /\ c.at = "failed" => c \in Failed(rs, fk)
BY DEF CommandOK, Command, Idle, Loaded, Ready, Copies, Failed

\* A step of one command: the others need only survive what it does to the table.
LEMMA StepOfOne ==
    ASSUME Commands, NEW p \in Proc,
           pc' = [pc EXCEPT ![p] = pc'[p]], CommandOK(pc'[p], rows', falkor'),
           Extends(rows, rows'), falkor \subseteq falkor',
           rows' = rows \/ \A q \in Proc \ {p} : pc[q].at # "copy"
    PROVE  Commands'
<1>1. ASSUME NEW q \in Proc \ {p}
      PROVE  CommandOK(pc'[q], rows', falkor')
  <2>1. pc'[q] = pc[q]
    BY DEF Commands
  <2>2. CommandOK(pc[q], rows, falkor)
    BY DEF Commands
  <2>3. CommandOK(pc[q], rows', falkor')
    BY <2>2, CommandsKeep
  <2>4. QED
    BY <2>1, <2>3
<1>2. DOMAIN pc' = Proc /\ pc' = [q \in Proc |-> pc'[q]]
  BY DEF Commands
<1>3. \A q \in Proc : CommandOK(pc'[q], rows', falkor')
  BY <1>1
<1>4. QED
  BY <1>2, <1>3 DEF Commands

\* A table that stands still is a later state of itself.
LEMMA SameRows == Ledgers /\ rows' = rows => Extends(rows, rows')
BY LenProperties DEF Ledgers, Extends

\* What earlier releases left suppressed is stored.
LEMMA SuppressedIsStored == Ledgers => Suppression \subseteq falkor
BY DEF Ledgers, Manifests, Suppression, Shipped

LEMMA RecordedIsStored ==
    ASSUME NEW p \in Proc, Commands, pc[p].at = "copy"
    PROVE  Recorded(p) \subseteq falkor
<1>1. pc[p] \in Copies(rows, falkor)
  BY CommandIs DEF Commands
<1>2. QED
  BY <1>1 DEF Recorded, Copies

\* The row a copy turns to is one it has still to do.
LEMMA NextIsToDo ==
    ASSUME NEW p \in Proc, Commands, pc[p].at = "copy", pc[p].todo # {}
    PROVE  NextRow(p) \in pc[p].todo
<1> DEFINE todo == pc[p].todo
           open == {m \in todo : \E n \in pc[p].snapshot \ todo : rows[n].role = rows[m].role}
           S == IF open = {} THEN todo ELSE open
<1>1. pc[p] \in Copies(rows, falkor)
  BY CommandIs DEF Commands
<1>2. \A m \in todo : m \in Nat
  BY <1>1 DEF Copies
<1>3. S \subseteq todo /\ S # {}
  OBVIOUS
<1>4. NextRow(p) = Least(S)
  BY DEF NextRow
<1> HIDE DEF S
<1>5. Least(S) \in S
  BY <1>2, <1>3, LeastIsIn
<1>6. QED
  BY <1>3, <1>4, <1>5

\* The parent of a new release is the greatest shipped one, or 0.
LEMMA LastIsLast ==
    ASSUME Ledgers
    PROVE  /\ LastShipped \in 0 .. Len(releases)
           /\ \A s \in Shipped : s <= LastShipped
<1> DEFINE S == Shipped \cup {0}
<1>1. Len(releases) \in Nat /\ DOMAIN releases = 1 .. Len(releases)
  BY LenProperties DEF Ledgers
<1>2. \A s \in S : s \in 0 .. Len(releases)
  BY <1>1 DEF Shipped
<1>3. \E s \in S : \A t \in S : t <= s
  BY <1>1, <1>2, GreatestExists
<1>4. \E s \in S : \A t \in Shipped : t <= s
  BY <1>3
<1>5. QED
  BY <1>2, <1>4 DEF LastShipped

------------------------------------------------------------------------------
LEMMA InvLocks ==
    ASSUME Inv, NEW p \in Proc
    PROVE  pc[p].at = "copy" => lock = {p} /\ \A q \in Proc \ {p} : pc[q].at # "copy"
BY DEF Inv, Locked

\* A step that leaves the table and the stored nodes alone.
LEMMA QuietStep ==
    ASSUME Inv, NEW p \in Proc, UNCHANGED <<rows, releases, falkor>>,
           pc' = [pc EXCEPT ![p] = pc'[p]], CommandOK(pc'[p], rows, falkor)
    PROVE  Ledgers' /\ Commands'
<1>1. Ledgers'
  BY DEF Inv, Ledgers, ShippedIsStored, LedgersAgree, NoTwinsTogether, Vetted, Manifests,
         Shipped, Open, Similar, Twins, Alien
<1>2. Extends(rows, rows')
  BY SameRows DEF Inv
<1>3. QED
  BY <1>1, <1>2, StepOfOne DEF Inv

\* A step of a command that neither takes nor gives up the lock.
LEMMA LockKeeps ==
    ASSUME Inv, NEW p \in Proc, lock' = lock, pc' = [pc EXCEPT ![p] = pc'[p]],
           pc[p].at = "copy" <=> pc'[p].at = "copy"
    PROVE  Locked'
BY DEF Inv, Locked, Commands

\* A step that ends a copy, or of a command that was not copying.
LEMMA LockGoes ==
    ASSUME Inv, NEW p \in Proc, lock' = lock \ {p}, pc' = [pc EXCEPT ![p] = pc'[p]],
           pc'[p].at # "copy"
    PROVE  Locked'
BY DEF Inv, Locked, Commands

LEMMA LoadKeeps == ASSUME Inv, NEW p \in Proc, Load(p) PROVE Inv'
<1>1. pc'[p] = [at |-> "loaded", pending |-> Unshipped, loaded |-> Len(rows)]
      /\ pc' = [pc EXCEPT ![p] = pc'[p]]
  BY DEF Load, Goto, Inv, Commands
<1>2. Len(rows) \in Nat /\ DOMAIN rows = 1 .. Len(rows)
  BY LenProperties DEF Inv, Ledgers
<1>3. CommandOK(pc'[p], rows, falkor)
  BY <1>1, <1>2 DEF CommandOK, Command, Loaded, Knows, Open, Unshipped
<1>4. Ledgers' /\ Commands'
  BY <1>1, <1>3, QuietStep DEF Load, Ledger
<1>5. Locked'
  BY <1>1, LockKeeps DEF Load, Idle
<1>6. Counts'
  BY BoundsAssumption DEF Load, Inv, Counts
<1>7. QED
  BY <1>4, <1>5, <1>6 DEF Inv

LEMMA ReadSuppressionKeeps == ASSUME Inv, NEW p \in Proc, ReadSuppression(p) PROVE Inv'
<1>1. pc'[p] = [at |-> "begin", pending |-> pc[p].pending, loaded |-> pc[p].loaded,
                suppressed |-> Suppression]
      /\ pc' = [pc EXCEPT ![p] = pc'[p]]
  BY DEF ReadSuppression, Goto, Inv, Commands
<1>2. pc[p] \in Loaded(rows) /\ Knows(pc[p], rows)
  BY CommandIs DEF ReadSuppression, Inv, Commands, CommandOK
<1>3. CommandOK(pc'[p], rows, falkor)
  <2>1. Suppression \subseteq falkor
    BY SuppressedIsStored DEF Inv
  <2>2. QED
    BY <1>1, <1>2, <2>1 DEF CommandOK, Command, Loaded, Ready, Knows
<1>4. Ledgers' /\ Commands'
  BY <1>1, <1>3, QuietStep DEF ReadSuppression, Ledger
<1>5. Locked'
  BY <1>1, LockKeeps DEF ReadSuppression
<1>6. QED
  BY <1>4, <1>5 DEF Inv, Counts, ReadSuppression

LEMMA BeginKeeps == ASSUME Inv, NEW p \in Proc, Begin(p) PROVE Inv'
<1>1. pc[p] \in Ready(rows, falkor) /\ Knows(pc[p], rows) /\ CommandOK(Idle, rows, falkor)
  BY CommandIs DEF Begin, Inv, Commands, CommandOK, Command, Idle
<1>2. Len(rows) \in Nat /\ DOMAIN rows = 1 .. Len(rows) /\ Unshipped = Open(rows)
  BY LenProperties DEF Inv, Ledgers, Unshipped, Open
<1>3. UNCHANGED <<rows, releases, falkor, ships, faults>> /\ lock = {} /\ pc[p].at = "begin"
  BY DEF Begin, Ledger
<1>4. CASE Goto(p, Idle) /\ UNCHANGED lock
  <2>1. pc'[p] = Idle /\ pc' = [pc EXCEPT ![p] = pc'[p]]
    BY <1>4 DEF Goto, Inv, Commands
  <2>2. Ledgers' /\ Commands'
    BY <1>1, <1>3, <2>1, QuietStep
  <2>3. Locked'
    BY <1>3, <1>4, <2>1, LockKeeps DEF Idle
  <2>4. QED
    BY <1>3, <2>2, <2>3 DEF Inv, Counts
<1>5. CASE /\ GatePasses(p, Unshipped)
           /\ lock' = {p}
           /\ Goto(p, [at |-> "copy", pending |-> pc[p].pending, loaded |-> pc[p].loaded,
                       suppressed |-> pc[p].suppressed, snapshot |-> Unshipped,
                       todo |-> Unshipped, landed |-> {}])
  <2>1. pc'[p] = [at |-> "copy", pending |-> pc[p].pending, loaded |-> pc[p].loaded,
                  suppressed |-> pc[p].suppressed, snapshot |-> Unshipped,
                  todo |-> Unshipped, landed |-> {}]
        /\ pc' = [pc EXCEPT ![p] = pc'[p]]
    BY <1>5 DEF Goto, Inv, Commands
  <2>2. pc'[p] \in Copies(rows, falkor)
    BY <1>1, <1>2, <2>1 DEF Ready, Copies, Open
  <2>3. Knows(pc'[p], rows)
    BY <1>1, <2>1 DEF Knows
  <2>4. Copying(pc'[p], rows, falkor)
    BY <1>2, <1>5, <2>1 DEF Copying, GatePasses, Similar, Twins, Alien
  <2>5. CommandOK(pc'[p], rows, falkor)
    BY <2>1, <2>2, <2>3, <2>4 DEF CommandOK, Command
  <2>6. Ledgers' /\ Commands'
    BY <1>3, <2>1, <2>5, QuietStep
  <2>7. Locked'
    BY <1>3, <1>5, <2>1 DEF Inv, Locked, Commands
  <2>8. QED
    BY <1>3, <2>6, <2>7 DEF Inv, Counts
<1>6. CASE /\ Goto(p, [at |-> "failed", error |-> "blocked", ids |-> {}, loaded |-> pc[p].loaded])
           /\ UNCHANGED lock
  <2>1. pc'[p] = [at |-> "failed", error |-> "blocked", ids |-> {}, loaded |-> pc[p].loaded]
        /\ pc' = [pc EXCEPT ![p] = pc'[p]]
    BY <1>6 DEF Goto, Inv, Commands
  <2>2. CommandOK(pc'[p], rows, falkor)
    BY <1>1, <2>1 DEF CommandOK, Command, Ready, Failed
  <2>3. Ledgers' /\ Commands'
    BY <1>3, <2>1, <2>2, QuietStep
  <2>4. Locked'
    BY <1>3, <1>6, <2>1, LockKeeps
  <2>5. QED
    BY <1>3, <2>3, <2>4 DEF Inv, Counts
<1>7. QED
  BY <1>4, <1>5, <1>6 DEF Begin

LEMMA DieKeeps == ASSUME Inv, NEW p \in Proc, Die(p) PROVE Inv'
<1>1. pc'[p] = Idle /\ pc' = [pc EXCEPT ![p] = pc'[p]]
  BY DEF Die, Goto, Inv, Commands
<1>2. CommandOK(Idle, rows, falkor)
  BY DEF CommandOK, Command, Idle
<1>3. Ledgers' /\ Commands'
  BY <1>1, <1>2, QuietStep DEF Die, Ledger
<1>4. Locked'
  BY <1>1, LockGoes DEF Die, Idle
<1>5. Counts'
  BY BoundsAssumption DEF Die, Inv, Counts
<1>6. QED
  BY <1>3, <1>4, <1>5 DEF Inv

\* A copy fails before or after it has stored nothing new.
LEMMA FailIs ==
    ASSUME Inv, NEW p \in Proc, pc[p].at = "copy", NEW error \in {"drift", "client"},
           Goto(p, [at |-> "failed", error |-> error, ids |-> Recorded(p), loaded |-> pc[p].loaded]),
           error = "drift" => Len(rows) > pc[p].loaded
    PROVE  /\ CommandOK(pc'[p], rows, falkor)
           /\ pc' = [pc EXCEPT ![p] = pc'[p]]
           /\ pc'[p].at # "copy"
<1>1. pc'[p] = [at |-> "failed", error |-> error, ids |-> Recorded(p), loaded |-> pc[p].loaded]
      /\ pc' = [pc EXCEPT ![p] = pc'[p]]
  BY DEF Goto, Inv, Commands
<1>2. pc[p] \in Copies(rows, falkor)
  BY CommandIs DEF Inv, Commands
<1>3. Recorded(p) \subseteq falkor
  BY RecordedIsStored DEF Inv
<1>4. pc'[p] \in Failed(rows, falkor)
  BY <1>1, <1>2, <1>3 DEF Copies, Failed
<1>5. QED
  BY <1>1, <1>4 DEF CommandOK, Command

\* A row with a pending node, of a command that copies, may be stored.
LEMMA StoringIsVetted ==
    ASSUME Inv, NEW p \in Proc, pc[p].at = "copy", NEW m \in pc[p].todo, m \in pc[p].pending,
           UNCHANGED <<rows, releases>>, falkor' = falkor \cup {m}
    PROVE  Ledgers'
<1>1. /\ pc[p] \in Copies(rows, falkor)
      /\ Knows(pc[p], rows)
      /\ Copying(pc[p], rows, falkor)
  BY CommandIs DEF Inv, Commands, CommandOK
<1>2. m \in 1 .. Len(rows) /\ m \in pc[p].snapshot
  BY <1>1 DEF Copies, Copying
<1>3. Alien(rows, m) /\ \A n \in Open(rows) : n < m => ~Twins(rows, m, n)
  <2>1. Alien(rows, m) /\ \A n \in pc[p].pending \ {m} : ~Twins(rows, m, n)
    BY <1>1, <1>2 DEF Copying
  <2>2. ASSUME NEW n \in Open(rows), n < m
        PROVE  n \in pc[p].pending \ {m}
    <3>1. m <= pc[p].loaded /\ pc[p].loaded \in Nat
      BY <1>1 DEF Knows, Copies
    <3>2. n <= pc[p].loaded /\ n # m
      BY <1>2, <2>2, <3>1 DEF Open
    <3>3. QED
      BY <1>1, <3>2 DEF Knows
  <2>3. QED
    BY <2>1, <2>2
<1>4. Vetted'
  BY <1>3 DEF Inv, Ledgers, Vetted, Open, Alien, Twins
<1>5. Manifests'
  BY DEF Inv, Ledgers, Manifests, Shipped
<1>6. LedgersAgree' /\ NoTwinsTogether' /\ ShippedIsStored'
  BY DEF Inv, Ledgers, LedgersAgree, NoTwinsTogether, ShippedIsStored, Shipped, Similar
<1>7. QED
  BY <1>2, <1>4, <1>5, <1>6 DEF Inv, Ledgers

\* A command that copies, with one field and with two fields changed.
LEMMA TodoExcept ==
    ASSUME NEW rs, NEW fk, NEW c \in Copies(rs, fk), NEW t
    PROVE  [c EXCEPT !.todo = t] =
             [at |-> c.at, pending |-> c.pending, loaded |-> c.loaded,
              suppressed |-> c.suppressed, snapshot |-> c.snapshot, todo |-> t,
              landed |-> c.landed]
BY DEF Copies

LEMMA RowExcept ==
    ASSUME NEW rs, NEW fk, NEW c \in Copies(rs, fk), NEW m, NEW l
    PROVE  [c EXCEPT !.todo = @ \ {m}, !.landed = l] =
             [at |-> c.at, pending |-> c.pending, loaded |-> c.loaded,
              suppressed |-> c.suppressed, snapshot |-> c.snapshot, todo |-> c.todo \ {m},
              landed |-> l]
<1> DEFINE t == c.todo \ {m}
           d == [c EXCEPT !.todo = t]
<1>1. [c EXCEPT !.todo = @ \ {m}, !.landed = l] = [d EXCEPT !.landed = l]
  BY DEF Copies
<1> HIDE DEF t
<1>2. d = [at |-> c.at, pending |-> c.pending, loaded |-> c.loaded,
           suppressed |-> c.suppressed, snapshot |-> c.snapshot, todo |-> t,
           landed |-> c.landed]
  BY TodoExcept
<1> HIDE DEF d
<1>3. [d EXCEPT !.landed = l] =
        [at |-> c.at, pending |-> c.pending, loaded |-> c.loaded,
         suppressed |-> c.suppressed, snapshot |-> c.snapshot, todo |-> t, landed |-> l]
  BY <1>2
<1>4. QED
  BY <1>1, <1>3 DEF t

\* A copy that has done with a row whose node is stored.
LEMMA OneRowLess ==
    ASSUME Commands, NEW p \in Proc, NEW m, NEW l, pc[p].at = "copy",
           Goto(p, [pc[p] EXCEPT !.todo = @ \ {m}, !.landed = l]),
           rows' = rows, falkor \subseteq falkor', m \in falkor', l \subseteq falkor'
    PROVE  /\ CommandOK(pc'[p], rows', falkor') /\ pc'[p].at = "copy"
           /\ pc' = [pc EXCEPT ![p] = pc'[p]]
<1> DEFINE c == pc[p]
           d == pc'[p]
<1>1. c \in Copies(rows, falkor) /\ Knows(c, rows) /\ Copying(c, rows, falkor)
  BY CommandIs DEF Commands, CommandOK
<1>2. d = [c EXCEPT !.todo = @ \ {m}, !.landed = l] /\ pc' = [pc EXCEPT ![p] = d]
  BY DEF Goto, Commands
<1> HIDE DEF c, d
<1>3. d = [at |-> c.at, pending |-> c.pending, loaded |-> c.loaded,
           suppressed |-> c.suppressed, snapshot |-> c.snapshot,
           todo |-> c.todo \ {m}, landed |-> l]
  BY <1>1, <1>2, RowExcept
<1>4. d \in Copies(rows, falkor')
  BY <1>1, <1>3 DEF Copies
<1>5. Knows(d, rows)
  BY <1>1, <1>3 DEF Knows
<1>6. Copying(d, rows, falkor')
  BY <1>1, <1>3 DEF Copying
<1>7. CommandOK(d, rows, falkor') /\ d.at = "copy"
  BY <1>3, <1>4, <1>5, <1>6 DEF CommandOK, Command, c
<1>8. QED
  BY <1>2, <1>7 DEF d

LEMMA CopyKeeps == ASSUME Inv, NEW p \in Proc, Copy(p) PROVE Inv'
<1> DEFINE m == NextRow(p)
           Done(landed) == Goto(p, [pc[p] EXCEPT !.todo = @ \ {m}, !.landed = landed])
<1>1. /\ pc[p].at = "copy" /\ pc[p].todo # {}
      /\ UNCHANGED <<rows, releases, ships, faults>>
  BY DEF Copy, Ledger
<1>2. /\ pc[p] \in Copies(rows, falkor)
      /\ CommandOK(pc[p], rows, falkor)
      /\ Knows(pc[p], rows) /\ Copying(pc[p], rows, falkor)
  BY <1>1, CommandIs DEF Inv, Commands, CommandOK
<1>3. m \in pc[p].todo
  BY <1>1, NextIsToDo DEF Inv
<1>4. /\ Extends(rows, rows')
      /\ pc = [q \in Proc |-> pc[q]]
      /\ falkor \subseteq 1 .. Len(rows)
  BY <1>1, SameRows DEF Inv, Ledgers, Commands
<1> HIDE DEF m
<1>5. CASE m \in pc[p].suppressed /\ Done(pc[p].landed) /\ UNCHANGED <<falkor, lock>>
  <2>1. m \in falkor /\ pc[p].landed \subseteq falkor
    BY <1>2, <1>5 DEF Copies
  <2>2. /\ CommandOK(pc'[p], rows', falkor') /\ pc'[p].at = "copy"
        /\ pc' = [pc EXCEPT ![p] = pc'[p]]
    BY <1>1, <1>5, <2>1, OneRowLess DEF Inv
  <2>3. CommandOK(pc'[p], rows, falkor)
    BY <1>1, <1>5, <2>2
  <2>4. Ledgers' /\ Commands'
    BY <1>1, <1>5, <2>2, <2>3, QuietStep
  <2>5. Locked'
    BY <1>1, <1>5, <2>2, LockKeeps
  <2>6. QED
    BY <1>1, <2>4, <2>5 DEF Inv, Counts
<1>6. CASE m \notin pc[p].suppressed \cup pc[p].pending /\ Fail(p, "drift") /\ UNCHANGED falkor
  <2>1. Len(rows) > pc[p].loaded
    <3>1. m \in Open(rows) /\ m \notin pc[p].pending
      BY <1>2, <1>3, <1>6 DEF Copying
    <3>2. ~(m <= pc[p].loaded)
      BY <1>2, <3>1 DEF Knows
    <3>3. m \in 1 .. Len(rows) /\ pc[p].loaded \in 0 .. Len(rows) /\ Len(rows) \in Nat
      BY <1>2, <1>3, <1>4 DEF Copies, Extends
    <3>4. QED
      BY <3>2, <3>3
  <2>2. /\ CommandOK(pc'[p], rows, falkor)
        /\ pc' = [pc EXCEPT ![p] = pc'[p]]
        /\ pc'[p].at # "copy"
    BY <1>1, <1>6, <2>1, FailIs DEF Fail
  <2>3. Ledgers' /\ Commands'
    BY <1>1, <1>6, <2>2, QuietStep
  <2>4. Locked'
    BY <1>6, <2>2, LockGoes DEF Fail
  <2>5. QED
    BY <1>1, <2>3, <2>4 DEF Inv, Counts
<1>7. CASE /\ m \in pc[p].pending \ pc[p].suppressed
           /\ falkor' = falkor \cup {m} /\ Done(pc[p].landed \cup {m}) /\ UNCHANGED lock
  <2> DEFINE l == pc[p].landed \cup {m}
  <2>1. m \in falkor' /\ l \subseteq falkor' /\ falkor \subseteq falkor'
    BY <1>2, <1>7 DEF Copies
  <2>2. /\ CommandOK(pc'[p], rows', falkor') /\ pc'[p].at = "copy"
        /\ pc' = [pc EXCEPT ![p] = pc'[p]]
    <3>1. Goto(p, [pc[p] EXCEPT !.todo = @ \ {m}, !.landed = l])
      BY <1>7
    <3> HIDE DEF l
    <3>2. QED
      BY <1>1, <2>1, <3>1, OneRowLess DEF Inv
  <2>4. Ledgers'
    BY <1>1, <1>3, <1>7, StoringIsVetted
  <2>5. Commands'
    BY <1>1, <1>4, <2>1, <2>2, StepOfOne DEF Inv
  <2>6. Locked'
    BY <1>1, <1>7, <2>2, LockKeeps
  <2>7. QED
    BY <1>1, <2>4, <2>5, <2>6 DEF Inv, Counts
<1>8. QED
  BY <1>5, <1>6, <1>7 DEF Copy, m

LEMMA CopyFailsKeeps == ASSUME Inv, NEW p \in Proc, CopyFails(p) PROVE Inv'
<1> DEFINE m == NextRow(p)
<1>1. /\ pc[p].at = "copy" /\ pc[p].todo # {} /\ m \in pc[p].pending
      /\ falkor' = falkor \/ falkor' = falkor \cup {m}
      /\ UNCHANGED <<rows, releases, ships>> /\ Fail(p, "client")
  BY DEF CopyFails, Ledger
<1>2. m \in pc[p].todo
  BY <1>1, NextIsToDo DEF Inv
<1>3. /\ CommandOK(pc'[p], rows, falkor)
      /\ pc' = [pc EXCEPT ![p] = pc'[p]]
      /\ pc'[p].at # "copy"
  BY <1>1, FailIs DEF Fail
<1>4. Locked'
  BY <1>1, <1>3, LockGoes DEF Fail
<1>5. Counts'
  BY <1>1, BoundsAssumption DEF CopyFails, Inv, Counts
<1> HIDE DEF m
<1>6. CASE falkor' = falkor
  <2>1. Ledgers' /\ Commands'
    BY <1>1, <1>3, <1>6, QuietStep
  <2>2. QED
    BY <1>4, <1>5, <2>1 DEF Inv
<1>7. CASE falkor' = falkor \cup {m}
  <2>1. Ledgers'
    BY <1>1, <1>2, <1>7, StoringIsVetted
  <2>2. Extends(rows, rows)
    BY <1>1, SameRows DEF Inv
  <2>3. CommandOK(pc'[p], rows, falkor')
    BY <1>3, <1>7, <2>2, CommandsKeep
  <2>4. Commands'
    BY <1>1, <1>3, <1>7, <2>2, <2>3, StepOfOne DEF Inv
  <2>5. QED
    BY <1>4, <1>5, <2>1, <2>4 DEF Inv
<1>8. QED
  BY <1>1, <1>6, <1>7

\* The tables keep their types when a release is added.
LEMMA TablesGrow ==
    ASSUME NEW n \in Nat, NEW k, NEW rs, NEW rel, NEW new,
           rs \in Seq([role : Role, content : Content, shipped : 0 .. n]),
           rel \in Seq([status : {"SHIPPED", "FAILED"}, ids : SUBSET k, parent : 0 .. n]),
           new \in [status : {"SHIPPED", "FAILED"}, ids : SUBSET k, parent : 0 .. n + 1]
    PROVE  /\ rs \in Seq([role : Role, content : Content, shipped : 0 .. n + 1])
           /\ Append(rel, new)
                \in Seq([status : {"SHIPPED", "FAILED"}, ids : SUBSET k, parent : 0 .. n + 1])
<1> DEFINE R1 == [role : Role, content : Content, shipped : 0 .. n]
           R2 == [role : Role, content : Content, shipped : 0 .. n + 1]
           S1 == [status : {"SHIPPED", "FAILED"}, ids : SUBSET k, parent : 0 .. n]
           S2 == [status : {"SHIPPED", "FAILED"}, ids : SUBSET k, parent : 0 .. n + 1]
<1>1. 0 .. n \subseteq 0 .. n + 1
  OBVIOUS
<1>2. R1 \subseteq R2 /\ S1 \subseteq S2
  BY <1>1
<1>3. rs \in Seq(R1) /\ rel \in Seq(S1) /\ new \in S2
  OBVIOUS
<1> HIDE DEF R1, R2, S1, S2
<1>4. rs \in Seq(R2) /\ rel \in Seq(S2)
  BY <1>2, <1>3, SeqMonotonic
<1>5. Append(rel, new) \in Seq(S2)
  BY <1>3, <1>4, AppendProperties
<1>6. QED
  BY <1>4, <1>5 DEF R2, S2

LEMMA RecordFailureKeeps == ASSUME Inv, NEW p \in Proc, RecordFailure(p) PROVE Inv'
<1> DEFINE new == [status |-> "FAILED", ids |-> pc[p].ids, parent |-> 0]
<1>1. /\ releases' = Append(releases, new) /\ lock' = lock
      /\ pc' = [pc EXCEPT ![p] = pc'[p]] /\ pc'[p] = Idle /\ pc[p].at = "failed"
      /\ UNCHANGED <<rows, falkor, ships, faults>>
  BY DEF RecordFailure, Goto, Inv, Commands
<1>2. pc[p] \in Failed(rows, falkor)
  BY <1>1, CommandIs DEF Inv, Commands
<1>3. pc[p].ids \subseteq falkor /\ falkor \subseteq 1 .. Len(rows)
  BY <1>2 DEF Inv, Ledgers, Failed
<1>4. /\ Len(releases) \in Nat /\ Len(releases') = Len(releases) + 1
      /\ DOMAIN releases = 1 .. Len(releases) /\ DOMAIN releases' = 1 .. Len(releases')
      /\ \A r \in DOMAIN releases : releases'[r] = releases[r]
      /\ releases'[Len(releases) + 1] = new
  BY <1>1, AppendProperties, LenProperties DEF Inv, Ledgers
<1>5. Shipped' = Shipped
  BY <1>4 DEF Shipped
<1>6. new \in [status : {"SHIPPED", "FAILED"}, ids : SUBSET (1 .. Len(rows)),
               parent : 0 .. Len(releases) + 1]
  <2>1. pc[p].ids \in SUBSET (1 .. Len(rows))
    BY <1>3, Zenon
  <2>2. 0 \in 0 .. Len(releases) + 1
    BY <1>4
  <2>3. QED
    BY <2>1, <2>2
<1>7. /\ rows' \in Seq([role : Role, content : Content, shipped : 0 .. Len(releases')])
      /\ releases' \in Seq([status : {"SHIPPED", "FAILED"}, ids : SUBSET (1 .. Len(rows')),
                            parent : 0 .. Len(releases')])
  <2> HIDE DEF new
  <2>1. /\ rows \in Seq([role : Role, content : Content, shipped : 0 .. Len(releases)])
        /\ releases \in Seq([status : {"SHIPPED", "FAILED"}, ids : SUBSET (1 .. Len(rows)),
                             parent : 0 .. Len(releases)])
    BY DEF Inv, Ledgers
  <2>2. /\ rows \in Seq([role : Role, content : Content, shipped : 0 .. Len(releases) + 1])
        /\ Append(releases, new)
             \in Seq([status : {"SHIPPED", "FAILED"}, ids : SUBSET (1 .. Len(rows)),
                      parent : 0 .. Len(releases) + 1])
    BY <1>4, <1>6, <2>1, TablesGrow
  <2>3. QED
    BY <1>1, <1>4, <2>2
<1>8. Manifests'
  BY <1>1, <1>3, <1>4, <1>5 DEF Inv, Ledgers, Manifests
<1>9. LedgersAgree'
  BY <1>1, <1>4, <1>5 DEF Inv, Ledgers, LedgersAgree, Shipped
<1>10. Ledgers'
  <2>1. ShippedIsStored' /\ NoTwinsTogether' /\ falkor' \subseteq 1 .. Len(rows')
    BY <1>1 DEF Inv, Ledgers, ShippedIsStored, NoTwinsTogether, Similar
  <2>2. Vetted'
    BY <1>1 DEF Inv, Ledgers, Vetted, Twins, Alien, Open
  <2>3. QED
    BY <1>7, <1>8, <1>9, <2>1, <2>2 DEF Ledgers
<1>11. Commands'
  <2>1. CommandOK(Idle, rows, falkor)
    BY DEF CommandOK, Command, Idle
  <2>2. QED
    BY <1>1, <2>1, StepOfOne, SameRows DEF Inv
<1>12. Locked'
  BY <1>1, LockKeeps DEF Idle
<1>13. QED
  BY <1>1, <1>10, <1>11, <1>12 DEF Inv, Counts

LEMMA ProposeKeeps == ASSUME Inv, NEW r \in Role, NEW c \in Content, Propose(r, c) PROVE Inv'
<1> DEFINE new == [role |-> r, content |-> c, shipped |-> 0]
           R == [role : Role, content : Content, shipped : 0 .. Len(releases)]
<1>1. /\ rows' = Append(rows, new) /\ lock = {}
      /\ UNCHANGED <<releases, falkor, lock, pc, ships, faults>>
  BY DEF Propose
<1>2. Len(releases) \in Nat /\ DOMAIN releases = 1 .. Len(releases)
  BY LenProperties DEF Inv, Ledgers
<1>3. rows \in Seq(R) /\ new \in R
  BY <1>2 DEF Inv, Ledgers
<1>4. /\ Len(rows) \in Nat /\ Len(rows') = Len(rows) + 1
      /\ DOMAIN rows = 1 .. Len(rows) /\ DOMAIN rows' = 1 .. Len(rows')
      /\ \A m \in 1 .. Len(rows) : rows'[m] = rows[m]
      /\ rows'[Len(rows) + 1] = new
      /\ rows' \in Seq(R)
  <2> HIDE DEF new, R
  <2>1. QED
    BY <1>1, <1>3, AppendProperties, LenProperties
<1>5. falkor' \subseteq 1 .. Len(rows') /\ falkor \subseteq 1 .. Len(rows)
  BY <1>1, <1>4 DEF Inv, Ledgers
<1>6. releases' \in Seq([status : {"SHIPPED", "FAILED"}, ids : SUBSET (1 .. Len(rows')),
                         parent : 0 .. Len(releases')])
  <2> DEFINE S == [status : {"SHIPPED", "FAILED"}, ids : SUBSET (1 .. Len(rows)),
                   parent : 0 .. Len(releases)]
             T == [status : {"SHIPPED", "FAILED"}, ids : SUBSET (1 .. Len(rows')),
                   parent : 0 .. Len(releases)]
  <2>1. 1 .. Len(rows) \subseteq 1 .. Len(rows')
    BY <1>4
  <2>2. S \subseteq T
    BY <2>1
  <2>3. releases \in Seq(S)
    BY DEF Inv, Ledgers
  <2> HIDE DEF S, T
  <2>4. releases \in Seq(T)
    BY <2>2, <2>3, SeqMonotonic
  <2>5. QED
    BY <1>1, <2>4 DEF T
<1>7. ShippedIsStored' /\ NoTwinsTogether'
  <2>1. ShippedIsStored'
    BY <1>1, <1>4 DEF Inv, Ledgers, ShippedIsStored
  <2>2. ASSUME NEW m \in DOMAIN rows', NEW n \in DOMAIN rows', rows'[m].shipped # 0,
               m # n => rows'[m].shipped = rows'[n].shipped
        PROVE  m \in DOMAIN rows /\ n \in DOMAIN rows
    BY <1>4, <2>2
  <2>3. ASSUME NEW m \in DOMAIN rows', NEW n \in DOMAIN rows', rows'[m].shipped # 0
        PROVE  <<rows'[m].role, rows'[m].content>> \notin Imported
    <3>1. m \in DOMAIN rows /\ rows'[m] = rows[m]
      BY <1>4, <2>3
    <3>2. QED
      BY <2>3, <3>1 DEF Inv, Ledgers, NoTwinsTogether
  <2>4. ASSUME NEW m \in DOMAIN rows', NEW n \in DOMAIN rows', rows'[m].shipped # 0,
               m # n, rows'[m].shipped = rows'[n].shipped
        PROVE  ~(rows'[m].role = rows'[n].role /\ rows'[m].content = rows'[n].content)
    BY <1>4, <2>2, <2>4 DEF Inv, Ledgers, NoTwinsTogether, Similar
  <2>5. QED
    BY <2>1, <2>3, <2>4 DEF NoTwinsTogether, Similar
<1>8. LedgersAgree'
  <2>1. Shipped' = Shipped
    BY <1>1 DEF Shipped
  <2>2. ASSUME NEW q \in Shipped
        PROVE  q # 0 /\ Len(rows) + 1 \notin releases[q].ids
    <3>1. q \in 1 .. Len(releases)
      BY <1>2 DEF Shipped
    <3>2. releases[q] \in [status : {"SHIPPED", "FAILED"}, ids : SUBSET (1 .. Len(rows)),
                           parent : 0 .. Len(releases)]
      BY <3>1, ElementOfSeq DEF Inv, Ledgers
    <3>3. releases[q].ids \subseteq 1 .. Len(rows)
      BY <3>2
    <3>4. QED
      BY <1>4, <3>1, <3>3
  <2>3. ASSUME NEW m \in DOMAIN rows', NEW q \in Shipped
        PROVE  m \in releases[q].ids <=> rows'[m].shipped = q
    <3>1. CASE m \in DOMAIN rows
      BY <1>4, <3>1 DEF Inv, Ledgers, LedgersAgree
    <3>2. CASE m = Len(rows) + 1
      BY <1>4, <2>2, <3>2
    <3>3. QED
      BY <1>4, <3>1, <3>2
  <2>4. QED
    BY <1>1, <2>1, <2>3 DEF Inv, Ledgers, LedgersAgree
<1>9. Vetted' /\ Manifests'
  <2>1. Manifests'
    BY <1>1 DEF Inv, Ledgers, Manifests, Shipped
  <2>2. ASSUME NEW m \in falkor
        PROVE  /\ Alien(rows', m)
               /\ \A n \in Open(rows') : n < m => ~Twins(rows', m, n)
    <3>1. m \in 1 .. Len(rows) /\ rows'[m] = rows[m]
      BY <1>4, <1>5
    <3>2. ASSUME NEW n \in Open(rows'), n < m
          PROVE  n \in Open(rows) /\ rows'[n] = rows[n]
      BY <1>4, <3>1, <3>2 DEF Open
    <3>3. QED
      BY <3>1, <3>2 DEF Inv, Ledgers, Vetted, Alien, Twins
  <2>3. QED
    BY <1>1, <2>1, <2>2 DEF Vetted
<1>10. Ledgers'
  BY <1>1, <1>4, <1>5, <1>6, <1>7, <1>8, <1>9 DEF Ledgers
<1>11. Extends(rows, rows')
  BY <1>4 DEF Extends
<1>12. Commands'
  <2>1. ASSUME NEW p \in Proc
        PROVE  CommandOK(pc'[p], rows', falkor')
    <3>1. pc[p].at # "copy" /\ CommandOK(pc[p], rows, falkor)
      BY <1>1 DEF Inv, Locked, Commands
    <3>2. CommandOK(pc[p], rows', falkor')
      BY <1>1, <1>11, <3>1, CommandsKeep
    <3>3. QED
      BY <1>1, <3>2
  <2>2. QED
    BY <1>1, <2>1 DEF Inv, Commands
<1>13. QED
  BY <1>1, <1>10, <1>12 DEF Inv, Locked, Counts

LEMMA CommitKeeps == ASSUME Inv, NEW p \in Proc, Commit(p) PROVE Inv'
<1> DEFINE k == Len(releases) + 1
           S == pc[p].snapshot
           new == [status |-> "SHIPPED", ids |-> S, parent |-> LastShipped]
<1>1. /\ pc[p].at = "copy" /\ pc[p].todo = {}
      /\ releases' = Append(releases, new)
      /\ rows' = [m \in DOMAIN rows |->
                    IF m \in S THEN [rows[m] EXCEPT !.shipped = Len(releases')] ELSE rows[m]]
      /\ lock' = lock \ {p} /\ pc' = [pc EXCEPT ![p] = pc'[p]] /\ pc'[p] = Idle
      /\ UNCHANGED <<falkor, ships, faults>>
  BY DEF Commit, Goto, Inv, Commands
<1>2. S = Open(rows) /\ S \subseteq falkor
  BY <1>1 DEF Inv, Commands, CommandOK, Copying
<1>3. /\ Len(releases) \in Nat /\ Len(releases') = k
      /\ DOMAIN releases = 1 .. Len(releases) /\ DOMAIN releases' = 1 .. k
      /\ \A r \in DOMAIN releases : releases'[r] = releases[r]
      /\ releases'[k] = new
  <2> HIDE DEF new
  <2>1. QED
    BY <1>1, AppendProperties, LenProperties DEF Inv, Ledgers
<1>4. Len(rows) \in Nat /\ DOMAIN rows = 1 .. Len(rows)
  BY LenProperties DEF Inv, Ledgers
<1>5. ASSUME NEW m \in 1 .. Len(rows)
      PROVE  /\ rows[m] \in [role : Role, content : Content, shipped : 0 .. Len(releases)]
             /\ rows'[m] \in [role : Role, content : Content, shipped : 0 .. k]
             /\ rows'[m].role = rows[m].role /\ rows'[m].content = rows[m].content
             /\ rows'[m].shipped = IF m \in S THEN k ELSE rows[m].shipped
             /\ m \in S <=> rows[m].shipped = 0
  <2>1. rows[m] \in [role : Role, content : Content, shipped : 0 .. Len(releases)]
    BY ElementOfSeq DEF Inv, Ledgers
  <2>2. rows'[m] = IF m \in S THEN [rows[m] EXCEPT !.shipped = k] ELSE rows[m]
    BY <1>1, <1>3, <1>4
  <2>3. m \in S <=> rows[m].shipped = 0
    BY <1>2 DEF Open
  <2>4. QED
    BY <1>3, <2>1, <2>2, <2>3
<1>6. /\ rows' \in Seq([role : Role, content : Content, shipped : 0 .. k])
      /\ Len(rows') = Len(rows) /\ DOMAIN rows' = 1 .. Len(rows)
  <2> DEFINE R == [role : Role, content : Content, shipped : 0 .. k]
  <2>1. rows' \in [1 .. Len(rows) -> R]
    BY <1>1, <1>4, <1>5
  <2> HIDE DEF R
  <2>2. rows' \in Seq(R)
    BY <1>4, <2>1, SeqDef
  <2>3. DOMAIN rows' = 1 .. Len(rows) /\ DOMAIN rows' = 1 .. Len(rows') /\ Len(rows') \in Nat
    BY <2>1, <2>2, LenProperties
  <2>4. Len(rows') = Len(rows)
    BY <1>4, <2>3
  <2>5. QED
    BY <2>2, <2>3, <2>4 DEF R
<1>7. LastShipped \in 0 .. Len(releases) /\ \A s \in Shipped : s <= LastShipped
  BY LastIsLast DEF Inv
<1>8. releases' \in Seq([status : {"SHIPPED", "FAILED"}, ids : SUBSET (1 .. Len(rows)),
                         parent : 0 .. k])
  <2>1. LastShipped \in 0 .. Len(releases) + 1
    BY <1>3, <1>7
  <2>2. S \in SUBSET (1 .. Len(rows))
    BY <1>2 DEF Open
  <2>3. new \in [status : {"SHIPPED", "FAILED"}, ids : SUBSET (1 .. Len(rows)),
                 parent : 0 .. Len(releases) + 1]
    BY <2>1, <2>2
  <2> HIDE DEF new
  <2>4. /\ rows \in Seq([role : Role, content : Content, shipped : 0 .. Len(releases)])
        /\ releases \in Seq([status : {"SHIPPED", "FAILED"}, ids : SUBSET (1 .. Len(rows)),
                             parent : 0 .. Len(releases)])
    BY DEF Inv, Ledgers
  <2>5. QED
    BY <1>1, <1>3, <2>3, <2>4, TablesGrow
<1>9. Shipped' = Shipped \cup {k} /\ Shipped \subseteq 1 .. Len(releases)
  BY <1>3 DEF Shipped
<1>10. ShippedIsStored'
  BY <1>1, <1>2, <1>4, <1>5, <1>6 DEF Inv, Ledgers, ShippedIsStored
<1>11. LedgersAgree'
  <2>1. ASSUME NEW m \in 1 .. Len(rows), NEW r \in Shipped'
        PROVE  m \in releases'[r].ids <=> rows'[m].shipped = r
    <3>1. rows[m].shipped \in 0 .. Len(releases)
      BY <1>5
    <3>2. CASE r = k
      BY <1>3, <1>5, <3>1, <3>2
    <3>3. CASE r \in Shipped
      <4>1. releases'[r] = releases[r] /\ r # k /\ r # 0
        BY <1>3, <1>9, <3>3
      <4>2. m \in releases[r].ids <=> rows[m].shipped = r
        BY <1>4, <3>3 DEF Inv, Ledgers, LedgersAgree
      <4>3. QED
        BY <1>5, <4>1, <4>2
    <3>4. QED
      BY <1>9, <3>2, <3>3
  <2>2. ASSUME NEW r \in Shipped', NEW s \in Shipped', s < r
        PROVE  s <= releases'[r].parent /\ releases'[r].parent < r
    <3>1. CASE r = k
      <4>1. s \in Shipped
        BY <1>3, <1>9, <2>2, <3>1
      <4>2. QED
        BY <1>3, <1>7, <3>1, <4>1
    <3>2. CASE r \in Shipped
      <4>1. s \in Shipped /\ releases'[r] = releases[r]
        BY <1>3, <1>9, <2>2, <3>2
      <4>2. QED
        BY <2>2, <3>2, <4>1 DEF Inv, Ledgers, LedgersAgree
    <3>3. QED
      BY <1>9, <3>1, <3>2
  <2>3. QED
    BY <1>6, <2>1, <2>2 DEF LedgersAgree
<1>12. NoTwinsTogether'
  <2>1. ASSUME NEW m \in 1 .. Len(rows), rows'[m].shipped # 0
        PROVE  <<rows'[m].role, rows'[m].content>> \notin Imported
    <3>1. CASE m \in S
      BY <1>2, <1>5, <3>1 DEF Inv, Ledgers, Vetted, Alien
    <3>2. CASE m \notin S
      BY <1>4, <1>5, <2>1, <3>2 DEF Inv, Ledgers, NoTwinsTogether
    <3>3. QED
      BY <3>1, <3>2
  <2>2. ASSUME NEW m \in S, NEW n \in S, m # n
        PROVE  ~Twins(rows, m, n)
    <3>1. m \in Nat /\ n \in Nat
      BY <1>2 DEF Open
    <3>2. CASE n < m
      BY <1>2, <3>2 DEF Inv, Ledgers, Vetted
    <3>3. CASE m < n
      <4>1. ~Twins(rows, n, m)
        BY <1>2, <3>3 DEF Inv, Ledgers, Vetted
      <4>2. QED
        BY <4>1 DEF Twins
    <3>4. QED
      BY <2>2, <3>1, <3>2, <3>3
  <2>3. ASSUME NEW m \in 1 .. Len(rows), NEW n \in 1 .. Len(rows), m # n,
               rows'[m].shipped # 0, rows'[m].shipped = rows'[n].shipped
        PROVE  ~Twins(rows, m, n)
    <3>1. rows[m].shipped \in 0 .. Len(releases) /\ rows[n].shipped \in 0 .. Len(releases)
      BY <1>5
    <3>2. (m \in S) = (n \in S)
      BY <1>3, <1>5, <2>3, <3>1
    <3>3. CASE m \in S
      BY <2>2, <2>3, <3>2, <3>3
    <3>4. CASE m \notin S
      <4>1. rows[m].shipped # 0 /\ rows[m].shipped = rows[n].shipped
        BY <1>5, <2>3, <3>2, <3>4
      <4>2. QED
        BY <1>4, <2>3, <4>1 DEF Inv, Ledgers, NoTwinsTogether, Similar, Twins
    <3>5. QED
      BY <3>3, <3>4
  <2>4. QED
    BY <1>5, <1>6, <2>1, <2>3 DEF NoTwinsTogether, Similar, Twins
<1>13. Open(rows') = {}
  BY <1>3, <1>5, <1>6 DEF Open
<1>14. Vetted'
  <2>1. ASSUME NEW m \in falkor
        PROVE  Alien(rows', m)
    <3>1. m \in 1 .. Len(rows)
      BY DEF Inv, Ledgers
    <3>2. QED
      BY <1>5, <3>1 DEF Inv, Ledgers, Vetted, Alien
  <2>2. QED
    BY <1>1, <1>13, <2>1 DEF Vetted
<1>15. Manifests'
  BY <1>1, <1>3, <1>9 DEF Inv, Ledgers, Manifests
<1>16. Ledgers'
  BY <1>1, <1>3, <1>6, <1>8, <1>10, <1>11, <1>12, <1>14, <1>15 DEF Inv, Ledgers
<1>17. Extends(rows, rows')
  <2>1. \A m \in 1 .. Len(rows) : rows'[m].shipped = 0 => rows[m].shipped = 0
    BY <1>3, <1>5
  <2>2. QED
    BY <1>4, <1>5, <1>6, <2>1 DEF Extends
<1>18. Commands'
  <2>1. CommandOK(Idle, rows', falkor')
    BY DEF CommandOK, Command, Idle
  <2>2. \A q \in Proc \ {p} : pc[q].at # "copy"
    BY <1>1, InvLocks
  <2>3. QED
    BY <1>1, <1>17, <2>1, <2>2, StepOfOne DEF Inv
<1>19. Locked'
  BY <1>1, LockGoes DEF Idle
<1>20. QED
  BY <1>1, <1>16, <1>18, <1>19 DEF Inv, Counts

------------------------------------------------------------------------------
\* What a ship knows and what the ledgers and the canonical graph hold agree after
\* every step (release.py, release_update, _copy_role_pending_to_canonical).
THEOREM ReleaseInvariant == Spec => []Inv
<1>1. Init => Inv
  <2> SUFFICES ASSUME Init
               PROVE  Inv
    OBVIOUS
  <2>1. /\ rows = <<>> /\ releases = <<>> /\ falkor = {} /\ lock = {}
        /\ pc = [p \in Proc |-> Idle] /\ ships = 0 /\ faults = 0
    BY DEF Init
  <2>2. Len(rows) = 0 /\ Len(releases) = 0 /\ DOMAIN rows = {} /\ DOMAIN releases = {}
    BY <2>1
  <2>3. Shipped = {} /\ falkor \subseteq 1 .. Len(rows)
    BY <2>1, <2>2 DEF Shipped
  <2>4. /\ rows \in Seq([role : Role, content : Content, shipped : 0 .. Len(releases)])
        /\ releases \in Seq([status : {"SHIPPED", "FAILED"}, ids : SUBSET (1 .. Len(rows)),
                             parent : 0 .. Len(releases)])
    BY <2>1, EmptySeq
  <2>5. Ledgers
    BY <2>1, <2>2, <2>3, <2>4
       DEF Ledgers, ShippedIsStored, LedgersAgree, NoTwinsTogether, Vetted, Manifests
  <2>6. Commands /\ Locked
    BY <2>1 DEF Commands, CommandOK, Command, Idle, Locked
  <2>7. Counts
    BY <2>1, BoundsAssumption DEF Counts
  <2>8. QED
    BY <2>5, <2>6, <2>7 DEF Inv
<1>2. Inv /\ [Next]_vars => Inv'
  <2> SUFFICES ASSUME Inv, [Next]_vars
               PROVE  Inv'
    OBVIOUS
  <2>1. CASE \E r \in Role, c \in Content : Propose(r, c)
    BY <2>1, ProposeKeeps
  <2>2. CASE \E p \in Proc : Load(p) \/ ReadSuppression(p) \/ Begin(p)
    BY <2>2, LoadKeeps, ReadSuppressionKeeps, BeginKeeps
  <2>3. CASE \E p \in Proc : Copy(p) \/ CopyFails(p) \/ Commit(p)
    BY <2>3, CopyKeeps, CopyFailsKeeps, CommitKeeps
  <2>4. CASE \E p \in Proc : RecordFailure(p) \/ Die(p)
    BY <2>4, RecordFailureKeeps, DieKeeps
  <2>5. CASE UNCHANGED vars
    BY <2>5 DEF vars, Inv, Ledgers, ShippedIsStored, LedgersAgree, NoTwinsTogether, Vetted,
           Manifests, Commands, Locked, Counts, Shipped, Open, Similar, Twins, Alien
  <2>6. QED
    BY <2>1, <2>2, <2>3, <2>4, <2>5 DEF Next
<1>3. QED
  BY <1>1, <1>2, PTL DEF Spec

\* Every mutation the ledger calls shipped is stored, the two ledgers agree, and no
\* release ships twins, for any number of commands (release.py:257, 647).
THEOREM ReleaseLedgersAreTrue == Spec => []LedgersAreTrue
<1>1. Inv => LedgersAreTrue
  <2> SUFFICES ASSUME Inv
               PROVE  LedgersAreTrue
    OBVIOUS
  <2>1. lock \subseteq Proc /\ Cardinality(lock) <= 1
    BY FS_EmptySet, FS_Singleton DEF Inv, Locked
  <2>2. TypeOK
    BY <2>1 DEF TypeOK, Inv, Ledgers, Commands, Counts
  <2>3. QED
    BY <2>2 DEF Inv, Ledgers, LedgersAreTrue
<1>2. QED
  BY <1>1, ReleaseInvariant, PTL

\* A release fails for drift only when something was proposed after its command
\* had loaded (release.py:655).
THEOREM ReleaseDriftIsStaleness == Spec => []DriftIsStaleness
<1>1. Inv => DriftIsStaleness
  BY DEF Inv, Commands, CommandOK, DriftIsStaleness
<1>2. QED
  BY <1>1, ReleaseInvariant, PTL
=============================================================================

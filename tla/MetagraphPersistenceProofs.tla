---------------------- MODULE MetagraphPersistenceProofs ----------------------
(***************************************************************************)
(* MetagraphPersistence for any graphs, metaedges, XRefs and bounds.       *)
(*                                                                         *)
(* What a persist has saved when it returns, and what a replay leaves, are *)
(* facts about many statements, any of which may fail.  Inv says at each   *)
(* statement how much is done: which of the graphs, XRefs and marks that   *)
(* are not in "todo" any more are in the rows (Saved), which entries of    *)
(* the log that was found are replayed, and that each replayed one that is *)
(* the last for its XRef so far agrees with the row (Replayed).  Logged    *)
(* says that the entry of the statement under way is in the log, whose     *)
(* numbers grow, so that a commit takes away that entry and no other.      *)
(***************************************************************************)
EXTENDS MetagraphPersistence, SequenceTheorems, TLAPS

\* The values of the variables.
Object == [up : BOOLEAN, graphs : SUBSET Graph, edges : SUBSET MetaEdge,
           xrefs : SUBSET XRef, marked : SUBSET (MetaEdge \cup XRef),
           dirty : SUBSET XRef, soft : SUBSET (MetaEdge \cup XRef),
           attr : BOOLEAN, attached : BOOLEAN]
Database == [anchor : BOOLEAN, graphs : SUBSET Graph, edges : SUBSET MetaEdge,
             xrefs : SUBSET XRef, marked : SUBSET (MetaEdge \cup XRef), log : Seq(Entries)]
Then == {Idle} \cup [at : {"xrefs"}, todo : SUBSET XRef]
Place == Then
    \cup [at : {"begin"}, op : {"add", "remove"}, x : XRef, then : Then]
    \cup [at : {"write", "commit"}, entry : Entries, then : Then]
    \cup [at : {"anchor"}]
    \cup [at : {"graphs"}, todo : SUBSET Graph]
    \cup [at : {"marks"}, bucket : {"edges", "xrefs"}, todo : SUBSET (MetaEdge \cup XRef)]
    \cup [at : {"recover", "recommit"}, todo : Seq(Entries), first : Seq(Entries),
          skipped : SUBSET Entries, incl : BOOLEAN, attach : BOOLEAN]

Ordered(log) == \A i, j \in DOMAIN log : i < j => log[i].n < log[j].n

ObjectOK(m) ==
    /\ m \in Object /\ m.dirty \subseteq m.xrefs
    /\ m.marked \subseteq m.edges \cup m.xrefs
    /\ \A e \in m.edges : Ends[e] \subseteq m.graphs
    /\ ~m.up => m = NoObject
DatabaseOK(d) ==
    /\ d \in Database /\ d.marked \subseteq d.edges \cup d.xrefs
    /\ \A e \in d.edges : Ends[e] \subseteq d.graphs
    /\ Ordered(d.log)
Types == ObjectOK(mem) /\ DatabaseOK(db) /\ raised \subseteq XRef /\ pc \in Place

Logging == pc.at \in {"write", "commit"}
Loading == pc.at \in {"recover", "recommit"}

\* The row of an entry's XRef is as the entry says.
Happened(d, e) == (e.x \in d.xrefs) = (e.op = "add")

Logged ==
    /\ pc.at = "begin" /\ pc.op = "remove" => pc.x \notin mem.xrefs
    /\ Logging => /\ pc.entry \in ToSet(db.log)
                  /\ pc.entry.op = "remove" => pc.entry.x \notin mem.xrefs
    /\ pc.at = "commit" => Happened(db, pc.entry)
    /\ Loading => /\ ~mem.up
                  /\ Ordered(pc.todo) /\ ToSet(pc.todo) \subseteq ToSet(db.log)
    /\ pc.at = "recommit" => pc.todo # <<>> /\ Happened(db, Head(pc.todo))

\* How many entries of the log that was found have been replayed.
Behind == IF pc.at = "recommit" THEN Len(pc.first) - Len(pc.todo) + 1
                                ELSE Len(pc.first) - Len(pc.todo)
LastOf(log, k, i) == \A j \in 1 .. k : log[j].x = log[i].x => j <= i
Replayed ==
    Loading =>
      /\ Len(pc.todo) <= Len(pc.first)
      /\ \A j \in 1 .. Len(pc.todo) : pc.todo[j] = pc.first[Len(pc.first) - Len(pc.todo) + j]
      /\ pc.skipped = {} =>
           \A i \in 1 .. Behind : LastOf(pc.first, Behind, i) => Happened(db, pc.first[i])

\* A persist that has come to the XRefs, and the ones it has still to write.
Within == pc.at = "xrefs" \/ ((pc.at = "begin" \/ Logging) /\ pc.then.at = "xrefs")
ToWrite == IF pc.at = "xrefs" THEN pc.todo
           ELSE pc.then.todo \cup {IF pc.at = "begin" THEN pc.x ELSE pc.entry.x}
Saved ==
    /\ HeldIsSavedOrDirty
    /\ pc.at = "graphs" => mem.graphs \ pc.todo \subseteq db.graphs
    /\ Within \/ pc.at = "marks" => mem.graphs \subseteq db.graphs /\ mem.edges \subseteq db.edges
    /\ Within => mem.dirty \ ToWrite \subseteq db.xrefs
    /\ pc.at = "marks" =>
         /\ mem.dirty = {}
         /\ \A e \in mem.soft \ pc.todo :
              e \in (IF pc.bucket = "edges" THEN MetaEdge ELSE XRef) => e \notin Unsaved(mem, db)

Inv == Types /\ Logged /\ Replayed /\ Saved

-----------------------------------------------------------------------------
\* Sequences of entries.
LEMMA RemoveAtIs ==
    ASSUME NEW S, NEW s \in Seq(S), NEW i \in 1 .. Len(s)
    PROVE  /\ RemoveAt(s, i) \in Seq(S)
           /\ Len(RemoveAt(s, i)) = Len(s) - 1
           /\ \A j \in 1 .. Len(s) - 1 : RemoveAt(s, i)[j] = IF j < i THEN s[j] ELSE s[j + 1]
<1> DEFINE a == SubSeq(s, 1, i - 1)
           b == SubSeq(s, i + 1, Len(s))
<1>1. /\ Len(s) \in Nat /\ i \in Nat /\ 1 <= i /\ i <= Len(s)
      /\ \A j \in 1 .. Len(s) : s[j] \in S
  BY LenProperties, ElementOfSeq
<1>2. /\ a \in Seq(S) /\ Len(a) = i - 1
      /\ \A j \in 1 .. i - 1 : a[j] = s[j]
  <2>1. \A j \in 1 .. i - 1 : s[j] \in S
    BY <1>1
  <2>2. 1 \in Int /\ i - 1 \in Int
    BY <1>1
  <2>3. /\ a \in Seq(S)
        /\ Len(a) = IF 1 <= i - 1 THEN (i - 1) - 1 + 1 ELSE 0
        /\ \A j \in 1 .. (i - 1) - 1 + 1 : a[j] = s[1 + j - 1]
    BY <2>1, <2>2, SubSeqProperties
  <2>4. QED
    BY <1>1, <2>3
<1>3. /\ b \in Seq(S) /\ Len(b) = Len(s) - i
      /\ \A j \in 1 .. Len(s) - i : b[j] = s[i + j]
  <2>1. \A j \in i + 1 .. Len(s) : s[j] \in S
    BY <1>1
  <2>2. i + 1 \in Int /\ Len(s) \in Int
    BY <1>1
  <2>3. /\ b \in Seq(S)
        /\ Len(b) = IF i + 1 <= Len(s) THEN Len(s) - (i + 1) + 1 ELSE 0
        /\ \A j \in 1 .. Len(s) - (i + 1) + 1 : b[j] = s[(i + 1) + j - 1]
    BY <2>1, <2>2, SubSeqProperties
  <2>4. QED
    BY <1>1, <2>3
<1> HIDE DEF a, b
<1>4. /\ a \o b \in Seq(S)
      /\ Len(a \o b) = Len(a) + Len(b)
      /\ \A j \in 1 .. Len(a) + Len(b) :
           (a \o b)[j] = IF j <= Len(a) THEN a[j] ELSE b[j - Len(a)]
  BY <1>2, <1>3, ConcatProperties
<1>5. RemoveAt(s, i) = a \o b
  BY DEF RemoveAt, a, b
<1>6. ASSUME NEW j \in 1 .. Len(s) - 1
      PROVE  (a \o b)[j] = IF j < i THEN s[j] ELSE s[j + 1]
  <2>1. CASE j < i
    <3>1. j \in 1 .. i - 1 /\ j <= Len(a) /\ j \in 1 .. Len(a) + Len(b)
      BY <1>1, <1>2, <1>3, <2>1
    <3>2. QED
      BY <3>1, <2>1, <1>2, <1>4
  <2>2. CASE ~(j < i)
    <3>1. /\ j - (i - 1) \in 1 .. Len(s) - i /\ ~(j <= Len(a)) /\ j \in 1 .. Len(a) + Len(b)
          /\ i + (j - (i - 1)) = j + 1
      BY <1>1, <1>2, <1>3, <2>2
    <3>2. (a \o b)[j] = b[j - (i - 1)]
      BY <3>1, <1>2, <1>4
    <3>3. b[j - (i - 1)] = s[i + (j - (i - 1))]
      BY <3>1, <1>3
    <3>4. QED
      BY <2>2, <3>1, <3>2, <3>3
  <2>3. QED
    BY <2>1, <2>2
<1>7. Len(a \o b) = Len(s) - 1
  BY <1>1, <1>2, <1>3, <1>4
<1>8. QED
  BY <1>4, <1>5, <1>6, <1>7, Zenon

\* A log without one of its entries: the numbers still grow, the others are still there.
LEMMA LogWithout ==
    ASSUME NEW log \in Seq(Entries), Ordered(log), NEW e \in ToSet(log)
    PROVE  LET rest == RemoveAt(log, CHOOSE i \in DOMAIN log : log[i] = e)
           IN  rest \in Seq(Entries) /\ Ordered(rest) /\ ToSet(rest) = ToSet(log) \ {e}
<1> DEFINE k == CHOOSE i \in DOMAIN log : log[i] = e
           rest == RemoveAt(log, k)
<1>1. DOMAIN log = 1 .. Len(log) /\ Len(log) \in Nat /\ \A i \in 1 .. Len(log) : log[i] \in Entries
  BY LenProperties, ElementOfSeq
<1>2. k \in 1 .. Len(log) /\ log[k] = e
  BY <1>1 DEF ToSet
<1> HIDE DEF k
<1>3. /\ rest \in Seq(Entries) /\ Len(rest) = Len(log) - 1
      /\ \A j \in 1 .. Len(log) - 1 : rest[j] = IF j < k THEN log[j] ELSE log[j + 1]
  BY <1>2, RemoveAtIs
<1> HIDE DEF rest
<1>4. DOMAIN rest = 1 .. Len(log) - 1
  BY <1>3, LenProperties
<1>5. \A i \in 1 .. Len(log) : log[i].n \in Nat
  BY <1>1 DEF Entries
<1>6. \A i, j \in 1 .. Len(log) : i < j => log[i].n < log[j].n
  BY <1>1 DEF Ordered
<1>7. Ordered(rest)
  <2> SUFFICES ASSUME NEW i \in 1 .. Len(log) - 1, NEW j \in 1 .. Len(log) - 1, i < j
               PROVE  rest[i].n < rest[j].n
    BY <1>4 DEF Ordered
  <2>1. PICK a \in 1 .. Len(log) : rest[i] = log[a] /\ a = IF i < k THEN i ELSE i + 1
    BY <1>1, <1>2, <1>3
  <2>2. PICK b \in 1 .. Len(log) : rest[j] = log[b] /\ b = IF j < k THEN j ELSE j + 1
    BY <1>1, <1>2, <1>3
  <2>3. a < b
    BY <1>1, <1>2, <2>1, <2>2
  <2>4. QED
    BY <1>6, <2>1, <2>2, <2>3
<1>8. ToSet(rest) \subseteq ToSet(log) \ {e}
  <2> SUFFICES ASSUME NEW j \in 1 .. Len(log) - 1
               PROVE  rest[j] \in ToSet(log) /\ rest[j] # e
    BY <1>4 DEF ToSet
  <2>1. PICK a \in 1 .. Len(log) : rest[j] = log[a] /\ a # k
    BY <1>1, <1>2, <1>3
  <2>2. log[a].n # log[k].n
    <3>1. a < k \/ k < a
      BY <1>1, <1>2, <2>1
    <3>2. log[a].n < log[k].n \/ log[k].n < log[a].n
      BY <1>2, <1>6, <3>1
    <3>3. QED
      BY <1>2, <1>5, <3>2
  <2>3. QED
    BY <1>1, <1>2, <2>1, <2>2 DEF ToSet
<1>9. ToSet(log) \ {e} \subseteq ToSet(rest)
  <2> SUFFICES ASSUME NEW a \in 1 .. Len(log), log[a] # e
               PROVE  log[a] \in ToSet(rest)
    BY <1>1 DEF ToSet
  <2>1. a # k
    BY <1>2
  <2>2. PICK j \in 1 .. Len(log) - 1 : rest[j] = log[a]
    <3>1. CASE a < k
      BY <3>1, <1>1, <1>2, <1>3
    <3>2. CASE k < a
      <4>1. a - 1 \in 1 .. Len(log) - 1 /\ ~(a - 1 < k) /\ (a - 1) + 1 = a
        BY <3>2, <1>1, <1>2
      <4>2. rest[a - 1] = log[a]
        BY <4>1, <1>3
      <4>3. QED
        BY <4>1, <4>2
    <3>3. QED
      BY <2>1, <3>1, <3>2, <1>1, <1>2
  <2>3. QED
    BY <1>4, <2>2 DEF ToSet
<1>10. rest \in Seq(Entries) /\ Ordered(rest) /\ ToSet(rest) = ToSet(log) \ {e}
  BY <1>3, <1>7, <1>8, <1>9
<1>11. QED
  BY <1>10 DEF rest, k

\* A log with a new entry.
LEMMA LogWith ==
    ASSUME NEW log \in Seq(Entries), Ordered(log), NEW op \in {"add", "remove"}, NEW x \in XRef
    PROVE  LET e == [op |-> op, x |-> x, n |-> NextNumber(log)]
           IN  /\ e \in Entries /\ Append(log, e) \in Seq(Entries)
               /\ Ordered(Append(log, e)) /\ ToSet(Append(log, e)) = ToSet(log) \cup {e}
<1> DEFINE e == [op |-> op, x |-> x, n |-> NextNumber(log)]
           more == Append(log, e)
<1>1. DOMAIN log = 1 .. Len(log) /\ Len(log) \in Nat /\ \A i \in 1 .. Len(log) : log[i] \in Entries
  BY LenProperties, ElementOfSeq
<1>2. \A i \in 1 .. Len(log) : log[i].n \in Nat
  BY <1>1 DEF Entries
<1>3. NextNumber(log) \in Nat /\ \A i \in 1 .. Len(log) : log[i].n < NextNumber(log)
  <2>1. CASE log = <<>>
    <3>1. Len(log) = 0
      BY <2>1
    <3>2. QED
      BY <2>1, <3>1 DEF NextNumber
  <2>2. CASE log # <<>>
    <3>1. Len(log) \in 1 .. Len(log) /\ NextNumber(log) = log[Len(log)].n + 1
      BY <2>2, <1>1, EmptySeq DEF NextNumber, Last
    <3>2. ASSUME NEW i \in 1 .. Len(log)
          PROVE  log[i].n <= log[Len(log)].n
      <4>1. CASE i = Len(log)
        BY <4>1, <1>2
      <4>2. CASE i < Len(log)
        BY <4>2, <3>1, <1>1, <1>2 DEF Ordered
      <4>3. i = Len(log) \/ i < Len(log)
        <5>1. Len(log) \in Nat
          BY <1>1
        <5>2. QED
          BY <5>1
      <4>4. QED
        BY <4>1, <4>2, <4>3
    <3>3. QED
      BY <1>2, <3>1, <3>2
  <2>3. QED
    BY <2>1, <2>2
<1>4. e \in Entries /\ e.n = NextNumber(log)
  BY <1>3 DEF Entries
<1> HIDE DEF e
<1>5. /\ more \in Seq(Entries) /\ Len(more) = Len(log) + 1
      /\ \A i \in 1 .. Len(log) : more[i] = log[i]
      /\ more[Len(log) + 1] = e
  BY <1>4, <1>1, AppendProperties
<1>6. DOMAIN more = 1 .. Len(log) + 1
  BY <1>5, LenProperties
<1> HIDE DEF more
<1>7. Ordered(more)
  <2> SUFFICES ASSUME NEW i \in 1 .. Len(log) + 1, NEW j \in 1 .. Len(log) + 1, i < j
               PROVE  more[i].n < more[j].n
    BY <1>6 DEF Ordered
  <2>1. i \in 1 .. Len(log)
    BY <1>1
  <2>2. CASE j = Len(log) + 1
    BY <2>1, <2>2, <1>3, <1>4, <1>5
  <2>3. CASE j \in 1 .. Len(log)
    BY <2>1, <2>3, <1>1, <1>5 DEF Ordered
  <2>4. QED
    BY <1>1, <2>2, <2>3
<1>8. ToSet(more) = ToSet(log) \cup {e}
  <2>1. ASSUME NEW f \in ToSet(more)
        PROVE  f \in ToSet(log) \cup {e}
    <3>1. PICK i \in 1 .. Len(log) + 1 : more[i] = f
      BY <1>6 DEF ToSet
    <3>2. i \in 1 .. Len(log) \/ i = Len(log) + 1
      BY <1>1
    <3>3. QED
      BY <1>1, <1>5, <3>1, <3>2 DEF ToSet
  <2>2. ASSUME NEW f \in ToSet(log)
        PROVE  f \in ToSet(more)
    <3>1. PICK i \in 1 .. Len(log) : log[i] = f
      BY <1>1 DEF ToSet
    <3>2. i \in 1 .. Len(log) + 1
      BY <1>1
    <3>3. QED
      BY <1>5, <1>6, <3>1, <3>2 DEF ToSet
  <2>3. e \in ToSet(more)
    <3>1. Len(log) + 1 \in 1 .. Len(log) + 1
      BY <1>1
    <3>2. QED
      BY <1>5, <1>6, <3>1 DEF ToSet
  <2>4. QED
    BY <2>1, <2>2, <2>3
<1>9. e \in Entries /\ more \in Seq(Entries) /\ Ordered(more) /\ ToSet(more) = ToSet(log) \cup {e}
  BY <1>4, <1>5, <1>7, <1>8
<1>10. QED
  BY <1>9 DEF e, more

\* The first entry to be replayed, and the others.
LEMMA TodoIs ==
    ASSUME NEW todo \in Seq(Entries), Ordered(todo), todo # <<>>
    PROVE  /\ Head(todo) \in ToSet(todo) /\ Head(todo) \in Entries /\ Head(todo) = todo[1]
           /\ Len(todo) \in Nat \ {0} /\ Len(Tail(todo)) = Len(todo) - 1
           /\ Tail(todo) \in Seq(Entries) /\ Ordered(Tail(todo))
           /\ \A j \in 1 .. Len(todo) - 1 : Tail(todo)[j] = todo[j + 1]
           /\ ToSet(Tail(todo)) \subseteq ToSet(todo) \ {Head(todo)}
<1>1. DOMAIN todo = 1 .. Len(todo) /\ Len(todo) \in Nat \ {0}
      /\ \A i \in 1 .. Len(todo) : todo[i] \in Entries
  BY LenProperties, ElementOfSeq, EmptySeq
<1>2. /\ Head(todo) \in Entries /\ Tail(todo) \in Seq(Entries)
      /\ Len(Tail(todo)) = Len(todo) - 1
      /\ \A j \in 1 .. Len(Tail(todo)) : Tail(todo)[j] = todo[j + 1]
  BY HeadTailProperties
<1>3. DOMAIN Tail(todo) = 1 .. Len(todo) - 1
  BY <1>2, LenProperties
<1>4. Head(todo) = todo[1]
  OBVIOUS
<1>5. Head(todo) \in ToSet(todo)
  BY <1>1, <1>4 DEF ToSet
<1>6. \A i, j \in 1 .. Len(todo) : i < j => todo[i].n < todo[j].n
  BY <1>1 DEF Ordered
<1>7. \A i \in 1 .. Len(todo) : todo[i].n \in Nat
  BY <1>1 DEF Entries
<1>8. Ordered(Tail(todo))
  <2> SUFFICES ASSUME NEW i \in 1 .. Len(todo) - 1, NEW j \in 1 .. Len(todo) - 1, i < j
               PROVE  Tail(todo)[i].n < Tail(todo)[j].n
    BY <1>3 DEF Ordered
  <2>1. i + 1 \in 1 .. Len(todo) /\ j + 1 \in 1 .. Len(todo) /\ i + 1 < j + 1
    BY <1>1
  <2>2. QED
    BY <1>2, <1>6, <2>1
<1>9. ASSUME NEW j \in 1 .. Len(todo) - 1
      PROVE  Tail(todo)[j] \in ToSet(todo) /\ Tail(todo)[j] # Head(todo)
  <2>1. j + 1 \in 1 .. Len(todo) /\ 1 \in 1 .. Len(todo) /\ 1 < j + 1
    BY <1>1
  <2>2. Tail(todo)[j] = todo[j + 1] /\ todo[1].n < todo[j + 1].n
    BY <1>2, <1>6, <2>1
  <2>3. todo[j + 1] # todo[1]
    BY <1>7, <2>1, <2>2
  <2>4. QED
    BY <1>1, <1>4, <2>1, <2>2, <2>3 DEF ToSet
<1>10. ToSet(Tail(todo)) \subseteq ToSet(todo) \ {Head(todo)}
  BY <1>3, <1>9 DEF ToSet
<1>11. QED
  BY <1>1, <1>2, <1>4, <1>5, <1>8, <1>10

-----------------------------------------------------------------------------
\* The effect of an entry: its XRef's row and nothing else.
LEMMA EffectIs ==
    ASSUME NEW d, DatabaseOK(d), NEW e \in Entries
    PROVE  /\ DatabaseOK(Effect(d, e)) /\ Happened(Effect(d, e), e)
           /\ Effect(d, e).log = d.log
           /\ Effect(d, e).graphs = d.graphs /\ Effect(d, e).edges = d.edges
           /\ e.op = "add" => /\ Effect(d, e).xrefs = d.xrefs \cup {e.x}
                              /\ Effect(d, e).marked = d.marked
           /\ e.op # "add" => /\ Effect(d, e).xrefs = d.xrefs \ {e.x}
                              /\ Effect(d, e).marked = d.marked \ {e.x}
<1>1. d \in Database /\ e.x \in XRef /\ e.op \in {"add", "remove"}
  BY DEF DatabaseOK, Entries
<1> DEFINE add == [d EXCEPT !.xrefs = d.xrefs \cup {e.x}]
           cut == [d EXCEPT !.xrefs = d.xrefs \ {e.x}]
           rem == [cut EXCEPT !.marked = d.marked \ {e.x}]
<1>2. /\ add \in Database /\ add.log = d.log /\ add.graphs = d.graphs /\ add.edges = d.edges
      /\ add.xrefs = d.xrefs \cup {e.x} /\ add.marked = d.marked
  BY <1>1 DEF Database
<1>3. /\ cut \in Database /\ cut.log = d.log /\ cut.graphs = d.graphs /\ cut.edges = d.edges
      /\ cut.xrefs = d.xrefs \ {e.x} /\ cut.marked = d.marked
  BY <1>1 DEF Database
<1>4. d.marked \subseteq MetaEdge \cup XRef
  BY <1>1 DEF Database
<1>5. [d EXCEPT !.xrefs = d.xrefs \ {e.x}, !.marked = d.marked \ {e.x}] = rem
  BY <1>1 DEF Database
<1> HIDE DEF cut
<1>6. /\ rem \in Database /\ rem.log = d.log /\ rem.graphs = d.graphs /\ rem.edges = d.edges
      /\ rem.xrefs = d.xrefs \ {e.x} /\ rem.marked = d.marked \ {e.x}
  BY <1>3, <1>4 DEF Database
<1> HIDE DEF add, rem
<1>7. CASE e.op = "add"
  <2>1. Effect(d, e) = add
    BY <1>7 DEF Effect, add
  <2>2. DatabaseOK(add) /\ Happened(add, e)
    BY <1>2, <1>7 DEF DatabaseOK, Happened
  <2>3. QED
    BY <1>2, <1>7, <2>1, <2>2
<1>8. CASE e.op # "add"
  <2>1. Effect(d, e) = rem
    BY <1>5, <1>8 DEF Effect
  <2>2. DatabaseOK(rem) /\ Happened(rem, e)
    BY <1>6, <1>8 DEF DatabaseOK, Happened
  <2>3. QED
    BY <1>6, <1>8, <2>1, <2>2
<1>9. QED
  BY <1>7, <1>8

\* A commit takes its entry out of the log and nothing else.
LEMMA CommittedIs ==
    ASSUME NEW d, DatabaseOK(d), NEW e \in ToSet(d.log)
    PROVE  /\ DatabaseOK(Committed(d, e))
           /\ ToSet(Committed(d, e).log) = ToSet(d.log) \ {e}
           /\ Committed(d, e).graphs = d.graphs /\ Committed(d, e).edges = d.edges
           /\ Committed(d, e).xrefs = d.xrefs /\ Committed(d, e).marked = d.marked
<1> DEFINE rest == RemoveAt(d.log, CHOOSE i \in DOMAIN d.log : d.log[i] = e)
<1>1. d \in Database /\ d.log \in Seq(Entries) /\ Ordered(d.log)
  BY DEF DatabaseOK, Database
<1>2. rest \in Seq(Entries) /\ Ordered(rest) /\ ToSet(rest) = ToSet(d.log) \ {e}
  BY <1>1, LogWithout
<1>3. Committed(d, e) = [d EXCEPT !.log = rest]
  BY DEF Committed
<1> HIDE DEF rest
<1>4. /\ [d EXCEPT !.log = rest] \in Database /\ [d EXCEPT !.log = rest].log = rest
      /\ [d EXCEPT !.log = rest].graphs = d.graphs /\ [d EXCEPT !.log = rest].edges = d.edges
      /\ [d EXCEPT !.log = rest].xrefs = d.xrefs /\ [d EXCEPT !.log = rest].marked = d.marked
  BY <1>1, <1>2 DEF Database
<1>5. DatabaseOK([d EXCEPT !.log = rest])
  BY <1>2, <1>4 DEF DatabaseOK
<1>6. QED
  BY <1>2, <1>3, <1>4, <1>5

\* A new entry of the log.
LEMMA BegunIs ==
    ASSUME NEW d, DatabaseOK(d), NEW op \in {"add", "remove"}, NEW x \in XRef
    PROVE  LET e == [op |-> op, x |-> x, n |-> NextNumber(d.log)]
               d2 == [d EXCEPT !.log = Append(d.log, e)]
           IN  /\ e \in Entries /\ DatabaseOK(d2) /\ ToSet(d2.log) = ToSet(d.log) \cup {e}
               /\ d2.graphs = d.graphs /\ d2.edges = d.edges
               /\ d2.xrefs = d.xrefs /\ d2.marked = d.marked
<1> DEFINE e == [op |-> op, x |-> x, n |-> NextNumber(d.log)]
           more == Append(d.log, e)
           d2 == [d EXCEPT !.log = more]
<1>1. d \in Database /\ d.log \in Seq(Entries) /\ Ordered(d.log)
  BY DEF DatabaseOK, Database
<1>2. e \in Entries /\ more \in Seq(Entries) /\ Ordered(more) /\ ToSet(more) = ToSet(d.log) \cup {e}
  BY <1>1, LogWith
<1> HIDE DEF e, more
<1>3. /\ d2 \in Database /\ d2.log = more
      /\ d2.graphs = d.graphs /\ d2.edges = d.edges
      /\ d2.xrefs = d.xrefs /\ d2.marked = d.marked
  BY <1>1, <1>2 DEF Database
<1> HIDE DEF d2
<1>4. DatabaseOK(d2)
  BY <1>2, <1>3 DEF DatabaseOK
<1>5. /\ e \in Entries /\ DatabaseOK(d2) /\ ToSet(d2.log) = ToSet(d.log) \cup {e}
      /\ d2.graphs = d.graphs /\ d2.edges = d.edges
      /\ d2.xrefs = d.xrefs /\ d2.marked = d.marked
  BY <1>2, <1>3, <1>4
<1>6. QED
  BY <1>5 DEF e, more, d2

\* The mark of one element.
LEMMA SyncedIs ==
    ASSUME Types, NEW e \in MetaEdge \cup XRef
    PROVE  /\ DatabaseOK(Synced(db, e))
           /\ Synced(db, e).log = db.log /\ Synced(db, e).graphs = db.graphs
           /\ Synced(db, e).edges = db.edges /\ Synced(db, e).xrefs = db.xrefs
           /\ \A f : f # e => (f \in Synced(db, e).marked <=> f \in db.marked)
           /\ e \in db.edges \cup db.xrefs => (e \in Synced(db, e).marked <=> e \in mem.marked)
<1>1. db \in Database /\ DatabaseOK(db)
  BY DEF Types, DatabaseOK
<1>2. CASE e \notin db.edges \cup db.xrefs
  BY <1>1, <1>2 DEF Synced
<1>3. CASE e \in db.edges \cup db.xrefs
  <2> DEFINE ms == IF e \in mem.marked THEN db.marked \cup {e} ELSE db.marked \ {e}
             d2 == [db EXCEPT !.marked = ms]
  <2>1. ms \in SUBSET (MetaEdge \cup XRef) /\ ms \subseteq db.edges \cup db.xrefs
    BY <1>1, <1>3 DEF DatabaseOK, Database
  <2>2. /\ \A f : f # e => (f \in ms <=> f \in db.marked)
        /\ e \in ms <=> e \in mem.marked
    OBVIOUS
  <2>3. Synced(db, e) = d2
    BY <1>3 DEF Synced
  <2> HIDE DEF ms
  <2>4. /\ d2 \in Database /\ d2.marked = ms /\ d2.log = db.log /\ d2.graphs = db.graphs
        /\ d2.edges = db.edges /\ d2.xrefs = db.xrefs
    BY <1>1, <2>1 DEF Database
  <2> HIDE DEF d2
  <2>5. DatabaseOK(d2)
    BY <1>1, <2>1, <2>4 DEF DatabaseOK
  <2>6. QED
    BY <2>2, <2>3, <2>4, <2>5
<1>4. QED
  BY <1>2, <1>3

\* The fields of each place.
LEMMA PlaceIs ==
    ASSUME pc \in Place
    PROVE  /\ pc.at = "begin" => pc.op \in {"add", "remove"} /\ pc.x \in XRef /\ pc.then \in Then
           /\ Logging => /\ pc \in [at : {"write", "commit"}, entry : Entries, then : Then]
                         /\ pc.entry \in Entries /\ pc.then \in Then
           /\ pc.at = "graphs" => pc \in [at : {"graphs"}, todo : SUBSET Graph]
           /\ pc.at = "xrefs" => pc \in [at : {"xrefs"}, todo : SUBSET XRef]
           /\ pc.at = "marks" => pc \in [at : {"marks"}, bucket : {"edges", "xrefs"},
                                         todo : SUBSET (MetaEdge \cup XRef)]
           /\ Loading => pc \in [at : {"recover", "recommit"}, todo : Seq(Entries),
                                 first : Seq(Entries), skipped : SUBSET Entries,
                                 incl : BOOLEAN, attach : BOOLEAN]
<1>1. CASE pc = Idle
  BY <1>1 DEF Idle, Logging, Loading
<1>2. CASE pc \in [at : {"xrefs"}, todo : SUBSET XRef]
  BY <1>2 DEF Logging, Loading
<1>3. CASE pc \in [at : {"begin"}, op : {"add", "remove"}, x : XRef, then : Then]
  BY <1>3 DEF Logging, Loading
<1>4. CASE pc \in [at : {"write", "commit"}, entry : Entries, then : Then]
  BY <1>4 DEF Logging, Loading
<1>5. CASE pc \in [at : {"anchor"}]
  BY <1>5 DEF Logging, Loading
<1>6. CASE pc \in [at : {"graphs"}, todo : SUBSET Graph]
  BY <1>6 DEF Logging, Loading
<1>7. CASE pc \in [at : {"marks"}, bucket : {"edges", "xrefs"}, todo : SUBSET (MetaEdge \cup XRef)]
  BY <1>7 DEF Logging, Loading
<1>8. CASE pc \in [at : {"recover", "recommit"}, todo : Seq(Entries), first : Seq(Entries),
                   skipped : SUBSET Entries, incl : BOOLEAN, attach : BOOLEAN]
  BY <1>8 DEF Logging, Loading
<1>9. QED
  BY <1>1, <1>2, <1>3, <1>4, <1>5, <1>6, <1>7, <1>8 DEF Place, Then

\* Where no statement is under way there is little to show.
LEMMA IdleKeeps ==
    ASSUME ObjectOK(mem'), DatabaseOK(db'), raised' \subseteq XRef, pc' = Idle,
           mem'.xrefs \subseteq db'.xrefs \cup mem'.dirty \cup raised'
    PROVE  Inv'
<1>1. pc'.at = "idle"
  BY DEF Idle
<1>2. Types'
  BY DEF Types, Place, Then
<1>3. Logged' /\ Replayed'
  BY <1>1 DEF Logged, Replayed, Logging, Loading
<1>4. Saved'
  BY <1>1 DEF Saved, Within, Logging, HeldIsSavedOrDirty
<1>5. QED
  BY <1>2, <1>3, <1>4 DEF Inv

\* A statement that fails, or is the last one of its call.
LEMMA EndKeeps ==
    ASSUME Inv, mem' = mem, raised' = raised, pc' = Idle, DatabaseOK(db'),
           db.xrefs \cap mem.xrefs \subseteq db'.xrefs
    PROVE  Inv'
<1>1. ObjectOK(mem') /\ raised' \subseteq XRef
  BY DEF Inv, Types
<1>2. mem'.xrefs \subseteq db'.xrefs \cup mem'.dirty \cup raised'
  BY DEF Inv, Saved, HeldIsSavedOrDirty
<1>3. QED
  BY <1>1, <1>2, IdleKeeps

-----------------------------------------------------------------------------
\* The calls on the object.
LEMMA ObjectIs ==
    ASSUME ObjectOK(mem)
    PROVE  /\ mem \in Object
           /\ mem.graphs \subseteq Graph /\ mem.edges \subseteq MetaEdge /\ mem.xrefs \subseteq XRef
           /\ mem.marked \subseteq MetaEdge \cup XRef /\ mem.soft \subseteq MetaEdge \cup XRef
           /\ mem.dirty \subseteq XRef /\ mem.up \in BOOLEAN /\ mem.attr \in BOOLEAN
           /\ mem.attached \in BOOLEAN
BY DEF ObjectOK, Object

LEMMA AddGraphKeeps ==
    ASSUME Inv, NEW g \in Graph, AddGraph(g)
    PROVE  Inv'
<1>1. /\ mem' = [mem EXCEPT !.graphs = mem.graphs \cup {g}]
      /\ mem.up /\ pc' = Idle /\ db' = db /\ raised' = raised
  BY DEF AddGraph, InMemory, Call
<1>2. ObjectOK(mem) /\ mem \in Object
  BY DEF Inv, Types, ObjectOK
<1>3. /\ mem' \in Object /\ mem'.up /\ mem'.graphs = mem.graphs \cup {g}
      /\ mem'.edges = mem.edges /\ mem'.xrefs = mem.xrefs /\ mem'.marked = mem.marked
      /\ mem'.dirty = mem.dirty
  BY <1>1, <1>2 DEF Object
<1>4. ObjectOK(mem')
  BY <1>2, <1>3 DEF ObjectOK
<1>5. QED
  BY <1>1, <1>3, <1>4, IdleKeeps DEF Inv, Types, Saved, HeldIsSavedOrDirty

LEMMA AddMetaEdgeKeeps ==
    ASSUME Inv, NEW e \in MetaEdge, AddMetaEdge(e)
    PROVE  Inv'
<1>1. /\ mem' = [mem EXCEPT !.edges = mem.edges \cup {e}]
      /\ mem.up /\ pc' = Idle /\ db' = db /\ raised' = raised
      /\ Ends[e] \subseteq mem.graphs
  BY DEF AddMetaEdge, InMemory, Call
<1>2. ObjectOK(mem) /\ mem \in Object
  BY DEF Inv, Types, ObjectOK
<1>3. /\ mem' \in Object /\ mem'.up /\ mem'.edges = mem.edges \cup {e}
      /\ mem'.graphs = mem.graphs /\ mem'.xrefs = mem.xrefs /\ mem'.marked = mem.marked
      /\ mem'.dirty = mem.dirty
  BY <1>1, <1>2 DEF Object
<1>4. ObjectOK(mem')
  BY <1>1, <1>2, <1>3 DEF ObjectOK
<1>5. QED
  BY <1>1, <1>3, <1>4, IdleKeeps DEF Inv, Types, Saved, HeldIsSavedOrDirty

LEMMA AddXRefKeeps ==
    ASSUME Inv, NEW x \in XRef, AddXRef(x)
    PROVE  Inv'
<1> DEFINE ds == IF mem.attr THEN mem.dirty \cup {x} ELSE mem.dirty
           m == [mem EXCEPT !.xrefs = mem.xrefs \cup {x}]
<1>1. /\ mem' = [mem EXCEPT !.xrefs = mem.xrefs \cup {x}, !.dirty = ds]
      /\ mem.up /\ pc' = Idle /\ db' = db
      /\ raised' = IF mem.attr THEN raised ELSE raised \cup {x}
  BY DEF AddXRef, InMemory, Call
<1>2. ObjectOK(mem) /\ mem \in Object
  BY DEF Inv, Types, ObjectOK
<1>3. mem' = [m EXCEPT !.dirty = ds]
  BY <1>1, <1>2 DEF Object
<1>4. ds \in SUBSET XRef
  BY <1>2 DEF Object
<1>5. /\ m \in Object /\ m.xrefs = mem.xrefs \cup {x}
      /\ m.up = mem.up /\ m.edges = mem.edges /\ m.graphs = mem.graphs /\ m.marked = mem.marked
  BY <1>2 DEF Object
<1> HIDE DEF m
<1>6. ds \subseteq mem.dirty \cup {x} /\ mem.dirty \subseteq ds /\ (x \in ds \/ x \in raised')
      /\ raised \subseteq raised' /\ raised' \subseteq raised \cup {x}
  BY <1>1
<1> HIDE DEF ds
<1>7. /\ mem' \in Object /\ mem'.up = mem.up /\ mem'.xrefs = mem.xrefs \cup {x}
      /\ mem'.edges = mem.edges /\ mem'.graphs = mem.graphs /\ mem'.marked = mem.marked
      /\ mem'.dirty = ds
  BY <1>3, <1>4, <1>5 DEF Object
<1>8. ObjectOK(mem')
  BY <1>1, <1>2, <1>6, <1>7 DEF ObjectOK
<1>9. raised' \subseteq XRef /\ DatabaseOK(db')
  BY <1>1, <1>6 DEF Inv, Types
<1>10. mem'.xrefs \subseteq db'.xrefs \cup mem'.dirty \cup raised'
  BY <1>1, <1>6, <1>7 DEF Inv, Saved, HeldIsSavedOrDirty
<1>11. QED
  BY <1>1, <1>8, <1>9, <1>10, IdleKeeps

LEMMA RemoveXRefKeeps ==
    ASSUME Inv, NEW x \in XRef, RemoveXRef(x)
    PROVE  Inv'
<1> DEFINE m == [mem EXCEPT !.xrefs = mem.xrefs \ {x}]
           n == [m EXCEPT !.dirty = mem.dirty \ {x}]
<1>1. /\ mem' = [mem EXCEPT !.xrefs = mem.xrefs \ {x}, !.dirty = mem.dirty \ {x},
                            !.marked = mem.marked \ {x}]
      /\ mem.up /\ pc' = Idle /\ db' = db /\ raised' = raised
  BY DEF RemoveXRef, InMemory, Call
<1>2. ObjectOK(mem) /\ mem \in Object
  BY DEF Inv, Types, ObjectOK
<1>3. mem' = [n EXCEPT !.marked = mem.marked \ {x}]
  BY <1>1, <1>2 DEF Object
<1>4. mem.dirty \ {x} \in SUBSET XRef /\ mem.marked \ {x} \in SUBSET (MetaEdge \cup XRef)
  BY <1>2 DEF Object
<1>5. /\ m \in Object /\ m.xrefs = mem.xrefs \ {x}
      /\ m.up = mem.up /\ m.edges = mem.edges /\ m.graphs = mem.graphs
  BY <1>2 DEF Object
<1> HIDE DEF m
<1>6. /\ n \in Object /\ n.xrefs = mem.xrefs \ {x} /\ n.dirty = mem.dirty \ {x}
      /\ n.up = mem.up /\ n.edges = mem.edges /\ n.graphs = mem.graphs
  BY <1>4, <1>5 DEF Object
<1> HIDE DEF n
<1>7. /\ mem' \in Object /\ mem'.up = mem.up /\ mem'.xrefs = mem.xrefs \ {x}
      /\ mem'.edges = mem.edges /\ mem'.graphs = mem.graphs
      /\ mem'.dirty = mem.dirty \ {x} /\ mem'.marked = mem.marked \ {x}
  BY <1>3, <1>4, <1>6 DEF Object
<1>8. ObjectOK(mem')
  BY <1>1, <1>2, <1>7 DEF ObjectOK
<1>9. QED
  BY <1>1, <1>7, <1>8, IdleKeeps DEF Inv, Types, Saved, HeldIsSavedOrDirty

LEMMA MarkKeeps ==
    ASSUME Inv, NEW e \in MetaEdge \cup XRef, Mark(e)
    PROVE  Inv'
<1> DEFINE ms == IF e \in mem.marked THEN mem.marked \ {e} ELSE mem.marked \cup {e}
           m == [mem EXCEPT !.marked = ms]
<1>1. /\ mem' = [mem EXCEPT !.marked = ms, !.soft = mem.soft \cup {e}]
      /\ mem.up /\ pc' = Idle /\ db' = db /\ raised' = raised
      /\ e \in mem.edges \cup mem.xrefs
  BY DEF Mark, InMemory, Call
<1>2. ObjectOK(mem) /\ mem \in Object
  BY DEF Inv, Types, ObjectOK
<1>3. mem' = [m EXCEPT !.soft = mem.soft \cup {e}]
  BY <1>1, <1>2 DEF Object
<1>4. ms \in SUBSET (MetaEdge \cup XRef) /\ mem.soft \cup {e} \in SUBSET (MetaEdge \cup XRef)
  BY <1>2 DEF Object
<1>5. ms \subseteq mem.marked \cup {e}
  OBVIOUS
<1> HIDE DEF ms
<1>6. /\ m \in Object /\ m.marked = ms /\ m.xrefs = mem.xrefs /\ m.dirty = mem.dirty
      /\ m.up = mem.up /\ m.edges = mem.edges /\ m.graphs = mem.graphs
  BY <1>2, <1>4 DEF Object
<1> HIDE DEF m
<1>7. /\ mem' \in Object /\ mem'.marked = ms /\ mem'.xrefs = mem.xrefs /\ mem'.dirty = mem.dirty
      /\ mem'.up = mem.up /\ mem'.edges = mem.edges /\ mem'.graphs = mem.graphs
  BY <1>3, <1>4, <1>6 DEF Object
<1>8. ObjectOK(mem')
  BY <1>1, <1>2, <1>5, <1>7 DEF ObjectOK
<1>9. QED
  BY <1>1, <1>7, <1>8, IdleKeeps DEF Inv, Types, Saved, HeldIsSavedOrDirty

LEMMA RefreshKeeps ==
    ASSUME Inv, NEW g \in Graph, Refresh(g)
    PROVE  Inv'
<1> DEFINE es == {e \in mem.edges : g \notin Ends[e]}
           xs == XRefsRead(mem.attached, mem.xrefs)
           ms == IF mem.attached THEN (mem.marked \cap es) \cup (db.marked \cap xs)
                                 ELSE mem.marked \cap (es \cup xs)
           ds == IF mem.attached THEN {} ELSE mem.dirty
<1>1. /\ mem' = [mem EXCEPT !.edges = es, !.xrefs = xs, !.marked = ms, !.soft = {},
                            !.dirty = ds, !.attr = FALSE]
      /\ mem.up /\ pc' = Idle /\ db' = db /\ raised' = raised \cap xs
  BY DEF Refresh, InMemory, Call
<1>2. ObjectOK(mem) /\ mem \in Object /\ db \in Database
  BY DEF Inv, Types, ObjectOK, DatabaseOK
<1>3. (xs = db.xrefs /\ ds = {}) \/ (xs = mem.xrefs /\ ds = mem.dirty)
  <2>1. CASE mem.attached
    BY <2>1 DEF XRefsRead
  <2>2. CASE ~mem.attached
    BY <2>2 DEF XRefsRead
  <2>3. QED
    BY <2>1, <2>2
<1>4. /\ es \in SUBSET MetaEdge /\ es \subseteq mem.edges /\ xs \in SUBSET XRef
      /\ ms \in SUBSET (MetaEdge \cup XRef) /\ ms \subseteq es \cup xs
      /\ ds \in SUBSET XRef /\ ds \subseteq xs
      /\ xs \subseteq db.xrefs \cup ds \cup (raised \cap xs)
  <2>1. mem.dirty \subseteq mem.xrefs /\ mem.xrefs \subseteq db.xrefs \cup mem.dirty \cup raised
    BY <1>2 DEF ObjectOK, Inv, Saved, HeldIsSavedOrDirty
  <2>2. xs \in SUBSET XRef /\ ds \subseteq xs
    BY <1>2, <1>3, <2>1 DEF Object, Database
  <2>3. ms \subseteq es \cup xs /\ es \in SUBSET MetaEdge
    BY <1>2 DEF Object
  <2>4. QED
    BY <1>3, <2>1, <2>2, <2>3
<1> HIDE DEF es, xs, ms, ds
<1>5. /\ mem' \in Object /\ mem'.up = mem.up /\ mem'.graphs = mem.graphs
      /\ mem'.edges = es /\ mem'.xrefs = xs /\ mem'.marked = ms /\ mem'.dirty = ds
  <2> DEFINE m1 == [mem EXCEPT !.edges = es]
             m2 == [m1 EXCEPT !.xrefs = xs]
             m3 == [m2 EXCEPT !.marked = ms]
             m4 == [m3 EXCEPT !.soft = {}]
             m5 == [m4 EXCEPT !.dirty = ds]
  <2>1. mem' = [m5 EXCEPT !.attr = FALSE]
    BY <1>1, <1>2 DEF Object
  <2>2. m1 \in Object /\ m1.up = mem.up /\ m1.graphs = mem.graphs /\ m1.edges = es
    BY <1>2, <1>4 DEF Object
  <2> HIDE DEF m1
  <2>3. m2 \in Object /\ m2.up = mem.up /\ m2.graphs = mem.graphs /\ m2.edges = es /\ m2.xrefs = xs
    BY <2>2, <1>4 DEF Object
  <2> HIDE DEF m2
  <2>4. /\ m3 \in Object /\ m3.up = mem.up /\ m3.graphs = mem.graphs
        /\ m3.edges = es /\ m3.xrefs = xs /\ m3.marked = ms
    BY <2>3, <1>4 DEF Object
  <2> HIDE DEF m3
  <2>5. /\ m4 \in Object /\ m4.up = mem.up /\ m4.graphs = mem.graphs
        /\ m4.edges = es /\ m4.xrefs = xs /\ m4.marked = ms
    BY <2>4 DEF Object
  <2> HIDE DEF m4
  <2>6. /\ m5 \in Object /\ m5.up = mem.up /\ m5.graphs = mem.graphs
        /\ m5.edges = es /\ m5.xrefs = xs /\ m5.marked = ms /\ m5.dirty = ds
    BY <2>5, <1>4 DEF Object
  <2> HIDE DEF m5
  <2>7. QED
    BY <2>1, <2>6 DEF Object
<1>6. ObjectOK(mem')
  BY <1>1, <1>2, <1>4, <1>5 DEF ObjectOK
<1>7. raised' \subseteq XRef /\ DatabaseOK(db')
  BY <1>1 DEF Inv, Types
<1>8. mem'.xrefs \subseteq db'.xrefs \cup mem'.dirty \cup raised'
  BY <1>1, <1>4, <1>5
<1>9. QED
  BY <1>1, <1>6, <1>7, <1>8, IdleKeeps

-----------------------------------------------------------------------------
\* The load: there is no object.
LEMMA LoadingIs ==
    ASSUME Inv, Loading
    PROVE  /\ mem = NoObject /\ mem.xrefs = {} /\ mem.edges = {} /\ ~mem.up
           /\ pc \in [at : {"recover", "recommit"}, todo : Seq(Entries), first : Seq(Entries),
                      skipped : SUBSET Entries, incl : BOOLEAN, attach : BOOLEAN]
           /\ pc.todo \in Seq(Entries) /\ pc.first \in Seq(Entries) /\ Ordered(pc.todo)
           /\ ToSet(pc.todo) \subseteq ToSet(db.log)
           /\ Len(pc.todo) \in Nat /\ Len(pc.first) \in Nat /\ Len(pc.todo) <= Len(pc.first)
           /\ \A i \in 1 .. Len(pc.first) : pc.first[i] \in Entries
<1>1. mem = NoObject /\ ~mem.up
  BY DEF Inv, Logged, Types, ObjectOK
<1>2. pc \in [at : {"recover", "recommit"}, todo : Seq(Entries), first : Seq(Entries),
              skipped : SUBSET Entries, incl : BOOLEAN, attach : BOOLEAN]
  BY PlaceIs DEF Inv, Types
<1>3. pc.todo \in Seq(Entries) /\ pc.first \in Seq(Entries)
  BY <1>2
<1>4. Len(pc.todo) \in Nat /\ Len(pc.first) \in Nat /\ \A i \in 1 .. Len(pc.first) : pc.first[i] \in Entries
  BY <1>3, LenProperties, ElementOfSeq
<1>5. Ordered(pc.todo) /\ ToSet(pc.todo) \subseteq ToSet(db.log) /\ Len(pc.todo) <= Len(pc.first)
  BY DEF Inv, Logged, Replayed
<1>6. mem.xrefs = {} /\ mem.edges = {}
  BY <1>1 DEF NoObject
<1>7. QED
  BY <1>1, <1>2, <1>3, <1>4, <1>5, <1>6

LEMMA LoadingKeeps ==
    ASSUME ObjectOK(mem), mem.xrefs = {}, mem' = mem, DatabaseOK(db'), raised' \subseteq XRef,
           Loading', Logged', Replayed',
           pc' \in [at : {"recover", "recommit"}, todo : Seq(Entries), first : Seq(Entries),
                    skipped : SUBSET Entries, incl : BOOLEAN, attach : BOOLEAN]
    PROVE  Inv'
<1>1. pc' \in Place
  BY DEF Place
<1>2. Types'
  BY <1>1 DEF Types
<1>3. pc'.at \in {"recover", "recommit"}
  BY DEF Loading
<1>4. Saved'
  BY <1>3 DEF Saved, Within, Logging, HeldIsSavedOrDirty
<1>5. QED
  BY <1>2, <1>4 DEF Inv

LEMMA LoadKeeps ==
    ASSUME Inv, NEW incl \in BOOLEAN, NEW attach \in BOOLEAN, Load(incl, attach)
    PROVE  Inv'
<1>1. /\ pc' = [at |-> "recover", todo |-> db.log, first |-> db.log, skipped |-> {},
                incl |-> incl, attach |-> attach]
      /\ ~mem.up /\ mem' = mem /\ db' = db /\ raised' = raised
  BY DEF Load, Call
<1>2. /\ ObjectOK(mem) /\ DatabaseOK(db) /\ raised \subseteq XRef /\ mem = NoObject
      /\ db.log \in Seq(Entries) /\ Ordered(db.log)
  BY <1>1 DEF Inv, Types, ObjectOK, DatabaseOK, Database
<1>3. mem.xrefs = {}
  BY <1>2 DEF NoObject
<1>4. /\ pc'.at = "recover" /\ pc'.todo = db.log /\ pc'.first = db.log /\ pc'.skipped = {}
      /\ pc' \in [at : {"recover", "recommit"}, todo : Seq(Entries), first : Seq(Entries),
                  skipped : SUBSET Entries, incl : BOOLEAN, attach : BOOLEAN]
  BY <1>1, <1>2
<1>5. Loading'
  BY <1>4 DEF Loading
<1>6. Logged'
  BY <1>1, <1>2, <1>4 DEF Logged, Logging
<1>7. Replayed'
  <2>1. Len(db.log) \in Nat
    BY <1>2, LenProperties
  <2>2. Behind' = 0
    BY <1>4, <2>1 DEF Behind
  <2>3. \A j \in 1 .. Len(db.log) : db.log[j] = db.log[Len(db.log) - Len(db.log) + j]
    BY <2>1
  <2>4. QED
    BY <1>4, <2>1, <2>2, <2>3 DEF Replayed
<1>8. QED
  BY <1>1, <1>2, <1>3, <1>4, <1>5, <1>6, <1>7, LoadingKeeps

\* The row of the entry replayed is right, and those of the ones replayed before are
\* still right, but for the entries it supersedes.
LEMMA ReplayedOne ==
    ASSUME NEW log \in Seq(Entries), NEW k \in Nat, k + 1 \in 1 .. Len(log),
           NEW d, DatabaseOK(d),
           \A i \in 1 .. k : LastOf(log, k, i) => Happened(d, log[i])
    PROVE  \A i \in 1 .. k + 1 : LastOf(log, k + 1, i) => Happened(Effect(d, log[k + 1]), log[i])
<1> SUFFICES ASSUME NEW i \in 1 .. k + 1, LastOf(log, k + 1, i)
             PROVE  Happened(Effect(d, log[k + 1]), log[i])
  OBVIOUS
<1>1. Len(log) \in Nat /\ log[k + 1] \in Entries /\ log[i] \in Entries
  BY LenProperties, ElementOfSeq
<1> DEFINE e == log[k + 1]
           d2 == Effect(d, e)
<1>2. Happened(d2, e) /\ \A x : x # e.x => (x \in d2.xrefs <=> x \in d.xrefs)
  <2>1. /\ Happened(d2, e)
        /\ e.op = "add" => d2.xrefs = d.xrefs \cup {e.x}
        /\ e.op # "add" => d2.xrefs = d.xrefs \ {e.x}
    BY <1>1, EffectIs
  <2>2. QED
    BY <2>1
<1> HIDE DEF d2
<1>3. ASSUME i = k + 1
      PROVE  Happened(d2, log[i])
  BY <1>2, <1>3
<1>4. ASSUME i \in 1 .. k
      PROVE  Happened(d2, log[i])
  <2>1. log[i].x # e.x
    <3>1. k + 1 \in 1 .. k + 1 /\ ~(k + 1 <= i)
      BY <1>4
    <3>2. QED
      BY <3>1 DEF LastOf
  <2>2. LastOf(log, k, i)
    <3>1. \A j \in 1 .. k : j \in 1 .. k + 1
      OBVIOUS
    <3>2. QED
      BY <3>1 DEF LastOf
  <2>3. Happened(d, log[i])
    BY <1>4, <2>2
  <2>4. QED
    BY <1>2, <2>1, <2>3 DEF Happened
<1>5. Happened(d2, log[i])
  BY <1>3, <1>4
<1>6. QED
  BY <1>5 DEF d2

LEMMA ReplayKeeps ==
    ASSUME Inv, Replay
    PROVE  Inv'
<1> DEFINE e == Head(pc.todo)
<1>1. /\ pc.at = "recover" /\ pc.todo # <<>> /\ mem' = mem /\ raised' = raised
      /\ \/ db' = Effect(db, e) /\ pc' = [pc EXCEPT !.at = "recommit"]
         \/ /\ db' \in {db, Effect(db, e)}
            /\ pc' = [pc EXCEPT !.todo = Tail(pc.todo), !.skipped = pc.skipped \cup {e}]
  BY DEF Replay, Statement
<1>2. Loading
  BY <1>1 DEF Loading
<1>3. /\ mem.xrefs = {} /\ ~mem.up
      /\ pc \in [at : {"recover", "recommit"}, todo : Seq(Entries), first : Seq(Entries),
                 skipped : SUBSET Entries, incl : BOOLEAN, attach : BOOLEAN]
      /\ pc.todo \in Seq(Entries) /\ pc.first \in Seq(Entries) /\ Ordered(pc.todo)
      /\ ToSet(pc.todo) \subseteq ToSet(db.log)
      /\ Len(pc.todo) \in Nat /\ Len(pc.first) \in Nat /\ Len(pc.todo) <= Len(pc.first)
  BY <1>2, LoadingIs
<1>4. /\ e \in ToSet(pc.todo) /\ e \in Entries /\ e = pc.todo[1]
      /\ Len(pc.todo) \in Nat \ {0} /\ Len(Tail(pc.todo)) = Len(pc.todo) - 1
      /\ Tail(pc.todo) \in Seq(Entries) /\ Ordered(Tail(pc.todo))
      /\ \A j \in 1 .. Len(pc.todo) - 1 : Tail(pc.todo)[j] = pc.todo[j + 1]
      /\ ToSet(Tail(pc.todo)) \subseteq ToSet(pc.todo) \ {e}
  BY <1>1, <1>3, TodoIs
<1>5. ObjectOK(mem) /\ DatabaseOK(db) /\ raised \subseteq XRef
  BY DEF Inv, Types
<1>6. /\ DatabaseOK(Effect(db, e)) /\ Happened(Effect(db, e), e)
      /\ Effect(db, e).log = db.log
  BY <1>4, <1>5, EffectIs
<1>7. DatabaseOK(db') /\ db'.log = db.log /\ raised' \subseteq XRef
  <2>1. db' = db \/ db' = Effect(db, e)
    BY <1>1
  <2>2. QED
    BY <2>1, <1>1, <1>5, <1>6
<1>8. /\ \A j \in 1 .. Len(pc.todo) : pc.todo[j] = pc.first[Len(pc.first) - Len(pc.todo) + j]
      /\ pc.skipped = {} =>
           \A i \in 1 .. Behind : LastOf(pc.first, Behind, i) => Happened(db, pc.first[i])
      /\ Behind = Len(pc.first) - Len(pc.todo)
  BY <1>1, <1>2 DEF Inv, Replayed, Behind
<1> HIDE DEF e
<1>9. CASE db' = Effect(db, e) /\ pc' = [pc EXCEPT !.at = "recommit"]
  <2>1. /\ pc'.at = "recommit" /\ pc'.todo = pc.todo /\ pc'.first = pc.first
        /\ pc'.skipped = pc.skipped
        /\ pc' \in [at : {"recover", "recommit"}, todo : Seq(Entries), first : Seq(Entries),
                    skipped : SUBSET Entries, incl : BOOLEAN, attach : BOOLEAN]
    BY <1>3, <1>9
  <2>2. Loading'
    BY <2>1 DEF Loading
  <2>3. Logged'
    <3>1. ~mem'.up /\ Ordered(pc'.todo) /\ ToSet(pc'.todo) \subseteq ToSet(db'.log)
      BY <1>1, <1>3, <1>7, <2>1
    <3>2. pc'.todo # <<>> /\ Happened(db', Head(pc'.todo))
      BY <1>1, <1>6, <1>9, <2>1 DEF e
    <3>3. QED
      BY <2>1, <3>1, <3>2 DEF Logged, Logging
  <2>4. Replayed'
    <3> DEFINE k == Len(pc.first) - Len(pc.todo)
    <3>1. k \in Nat /\ k + 1 \in 1 .. Len(pc.first) /\ Behind' = k + 1
      BY <1>3, <1>4, <2>1 DEF Behind
    <3>2. pc.first[k + 1] = e
      <4>1. 1 \in 1 .. Len(pc.todo)
        BY <1>4
      <4>2. QED
        BY <4>1, <1>4, <1>8
    <3>3. ASSUME pc.skipped = {}
          PROVE  \A i \in 1 .. k + 1 : LastOf(pc.first, k + 1, i) => Happened(Effect(db, e), pc.first[i])
      <4>1. \A i \in 1 .. k : LastOf(pc.first, k, i) => Happened(db, pc.first[i])
        BY <3>3, <1>8
      <4> HIDE DEF k
      <4>2. \A i \in 1 .. k + 1 : LastOf(pc.first, k + 1, i)
                                    => Happened(Effect(db, pc.first[k + 1]), pc.first[i])
        BY <3>1, <4>1, <1>3, <1>5, ReplayedOne
      <4>3. QED
        BY <3>2, <4>2
    <3> HIDE DEF k
    <3>4. /\ Len(pc'.todo) <= Len(pc'.first)
          /\ \A j \in 1 .. Len(pc'.todo) : pc'.todo[j] = pc'.first[Len(pc'.first) - Len(pc'.todo) + j]
      BY <1>3, <1>8, <2>1
    <3>5. pc'.skipped = {} =>
            \A i \in 1 .. Behind' : LastOf(pc'.first, Behind', i) => Happened(db', pc'.first[i])
      BY <1>9, <2>1, <3>1, <3>3
    <3>6. QED
      BY <3>4, <3>5 DEF Replayed
  <2>5. QED
    BY <1>1, <1>3, <1>5, <1>7, <2>1, <2>2, <2>3, <2>4, LoadingKeeps
<1>10. CASE pc' = [pc EXCEPT !.todo = Tail(pc.todo), !.skipped = pc.skipped \cup {e}]
  <2> DEFINE c == [pc EXCEPT !.todo = Tail(pc.todo)]
  <2>1. pc' = [c EXCEPT !.skipped = pc.skipped \cup {e}]
    BY <1>3, <1>10
  <2>2. /\ c.at = "recover" /\ c.todo = Tail(pc.todo) /\ c.first = pc.first
        /\ c \in [at : {"recover", "recommit"}, todo : Seq(Entries), first : Seq(Entries),
                  skipped : SUBSET Entries, incl : BOOLEAN, attach : BOOLEAN]
    BY <1>1, <1>3, <1>4
  <2> HIDE DEF c
  <2>3. pc.skipped \cup {e} \in SUBSET Entries
    BY <1>3, <1>4
  <2>4. /\ pc'.at = "recover" /\ pc'.todo = Tail(pc.todo) /\ pc'.first = pc.first
        /\ pc'.skipped # {}
        /\ pc' \in [at : {"recover", "recommit"}, todo : Seq(Entries), first : Seq(Entries),
                    skipped : SUBSET Entries, incl : BOOLEAN, attach : BOOLEAN]
    BY <2>1, <2>2, <2>3
  <2>5. Loading'
    BY <2>4 DEF Loading
  <2>6. Logged'
    BY <1>1, <1>3, <1>4, <1>7, <2>4 DEF Logged, Logging
  <2>7. Replayed'
    <3>1. Len(Tail(pc.todo)) <= Len(pc.first)
      BY <1>3, <1>4
    <3>2. ASSUME NEW j \in 1 .. Len(pc.todo) - 1
          PROVE  Tail(pc.todo)[j] = pc.first[Len(pc.first) - Len(Tail(pc.todo)) + j]
      <4>1. /\ j + 1 \in 1 .. Len(pc.todo)
            /\ Len(pc.first) - Len(pc.todo) + (j + 1) = Len(pc.first) - Len(Tail(pc.todo)) + j
        BY <1>3, <1>4
      <4>2. pc.todo[j + 1] = pc.first[Len(pc.first) - Len(pc.todo) + (j + 1)]
        BY <4>1, <1>8
      <4>3. QED
        BY <4>1, <4>2, <1>4
    <3>3. QED
      BY <3>1, <3>2, <1>4, <2>4 DEF Replayed
  <2>8. QED
    BY <1>1, <1>3, <1>5, <1>7, <2>4, <2>5, <2>6, <2>7, LoadingKeeps
<1>11. QED
  BY <1>1, <1>9, <1>10

LEMMA RecommitKeeps ==
    ASSUME Inv, Recommit
    PROVE  Inv'
<1> DEFINE e == Head(pc.todo)
<1>1. /\ pc.at = "recommit" /\ mem' = mem /\ raised' = raised
      /\ db' \in {db, Committed(db, e)}
      /\ \/ /\ db' = Committed(db, e)
            /\ pc' = [pc EXCEPT !.at = "recover", !.todo = Tail(pc.todo)]
         \/ pc' = Idle
  BY DEF Recommit, Statement
<1>2. Loading /\ pc.todo # <<>>
  BY <1>1 DEF Loading, Inv, Logged
<1>3. /\ mem.xrefs = {} /\ ~mem.up
      /\ pc \in [at : {"recover", "recommit"}, todo : Seq(Entries), first : Seq(Entries),
                 skipped : SUBSET Entries, incl : BOOLEAN, attach : BOOLEAN]
      /\ pc.todo \in Seq(Entries) /\ pc.first \in Seq(Entries) /\ Ordered(pc.todo)
      /\ ToSet(pc.todo) \subseteq ToSet(db.log)
      /\ Len(pc.todo) \in Nat /\ Len(pc.first) \in Nat /\ Len(pc.todo) <= Len(pc.first)
  BY <1>2, LoadingIs
<1>4. /\ e \in ToSet(pc.todo) /\ e \in Entries
      /\ Len(pc.todo) \in Nat \ {0} /\ Len(Tail(pc.todo)) = Len(pc.todo) - 1
      /\ Tail(pc.todo) \in Seq(Entries) /\ Ordered(Tail(pc.todo))
      /\ \A j \in 1 .. Len(pc.todo) - 1 : Tail(pc.todo)[j] = pc.todo[j + 1]
      /\ ToSet(Tail(pc.todo)) \subseteq ToSet(pc.todo) \ {e}
  BY <1>2, <1>3, TodoIs
<1>5. ObjectOK(mem) /\ DatabaseOK(db) /\ raised \subseteq XRef
  BY DEF Inv, Types
<1>6. /\ DatabaseOK(Committed(db, e)) /\ ToSet(Committed(db, e).log) = ToSet(db.log) \ {e}
      /\ Committed(db, e).xrefs = db.xrefs
  BY <1>3, <1>4, <1>5, CommittedIs
<1>7. DatabaseOK(db') /\ db'.xrefs = db.xrefs
  BY <1>1, <1>5, <1>6
<1> HIDE DEF e
<1>8. CASE pc' = Idle
  BY <1>1, <1>7, <1>8, EndKeeps
<1>9. CASE db' = Committed(db, e) /\ pc' = [pc EXCEPT !.at = "recover", !.todo = Tail(pc.todo)]
  <2> DEFINE c == [pc EXCEPT !.at = "recover"]
  <2>1. pc' = [c EXCEPT !.todo = Tail(pc.todo)]
    BY <1>3, <1>9
  <2>2. /\ c.at = "recover" /\ c.first = pc.first /\ c.skipped = pc.skipped
        /\ c \in [at : {"recover", "recommit"}, todo : Seq(Entries), first : Seq(Entries),
                  skipped : SUBSET Entries, incl : BOOLEAN, attach : BOOLEAN]
    BY <1>3
  <2> HIDE DEF c
  <2>3. /\ pc'.at = "recover" /\ pc'.todo = Tail(pc.todo) /\ pc'.first = pc.first
        /\ pc'.skipped = pc.skipped
        /\ pc' \in [at : {"recover", "recommit"}, todo : Seq(Entries), first : Seq(Entries),
                    skipped : SUBSET Entries, incl : BOOLEAN, attach : BOOLEAN]
    BY <2>1, <2>2, <1>4
  <2>4. Loading'
    BY <2>3 DEF Loading
  <2>5. Logged'
    BY <1>1, <1>3, <1>4, <1>6, <1>9, <2>3 DEF Logged, Logging
  <2>6. Replayed'
    <3>1. /\ \A j \in 1 .. Len(pc.todo) : pc.todo[j] = pc.first[Len(pc.first) - Len(pc.todo) + j]
          /\ pc.skipped = {} =>
               \A i \in 1 .. Behind : LastOf(pc.first, Behind, i) => Happened(db, pc.first[i])
          /\ Behind = Len(pc.first) - Len(pc.todo) + 1
      BY <1>1, <1>2 DEF Inv, Replayed, Behind
    <3>2. Behind' = Behind
      BY <1>3, <1>4, <2>3, <3>1 DEF Behind
    <3>3. ASSUME NEW j \in 1 .. Len(pc.todo) - 1
          PROVE  Tail(pc.todo)[j] = pc.first[Len(pc.first) - Len(Tail(pc.todo)) + j]
      <4>1. /\ j + 1 \in 1 .. Len(pc.todo)
            /\ Len(pc.first) - Len(pc.todo) + (j + 1) = Len(pc.first) - Len(Tail(pc.todo)) + j
        BY <1>3, <1>4
      <4>2. pc.todo[j + 1] = pc.first[Len(pc.first) - Len(pc.todo) + (j + 1)]
        BY <4>1, <3>1
      <4>3. QED
        BY <4>1, <4>2, <1>4
    <3>4. \A f : Happened(db, f) => Happened(db', f)
      BY <1>7 DEF Happened
    <3>5. Len(Tail(pc.todo)) <= Len(pc.first)
      BY <1>3, <1>4
    <3>6. pc'.skipped = {} =>
            \A i \in 1 .. Behind' : LastOf(pc'.first, Behind', i) => Happened(db', pc'.first[i])
      BY <2>3, <3>1, <3>2, <3>4
    <3>7. \A j \in 1 .. Len(pc'.todo) : pc'.todo[j] = pc'.first[Len(pc'.first) - Len(pc'.todo) + j]
      BY <1>4, <2>3, <3>3
    <3>8. QED
      BY <2>3, <3>5, <3>6, <3>7 DEF Replayed
  <2>7. QED
    BY <1>1, <1>3, <1>5, <1>7, <2>3, <2>4, <2>5, <2>6, LoadingKeeps
<1>10. QED
  BY <1>1, <1>8, <1>9

LEMMA ReadKeeps ==
    ASSUME Inv, Read
    PROVE  Inv'
<1> DEFINE es == EdgesRead(pc.incl)
           xs == XRefsRead(pc.attach, {})
           ms == db.marked \cap (es \cup xs)
<1>1. /\ pc.at = "recover" /\ pc' = Idle /\ raised' = {} /\ db' = db
      /\ mem' = [NoObject EXCEPT !.up = TRUE, !.graphs = db.graphs, !.edges = es, !.xrefs = xs,
                                 !.marked = ms, !.attached = pc.attach]
  BY DEF Read
<1>2. pc.attach \in BOOLEAN
  <2>1. Loading
    BY <1>1 DEF Loading
  <2>2. pc \in [at : {"recover", "recommit"}, todo : Seq(Entries), first : Seq(Entries),
                skipped : SUBSET Entries, incl : BOOLEAN, attach : BOOLEAN]
    BY <2>1, LoadingIs
  <2>3. QED
    BY <2>2
<1>3. mem' = [up |-> TRUE, graphs |-> db.graphs, edges |-> es, xrefs |-> xs, marked |-> ms,
              dirty |-> {}, soft |-> {}, attr |-> FALSE, attached |-> pc.attach]
  BY <1>1 DEF NoObject
<1>4. DatabaseOK(db) /\ db \in Database
  BY DEF Inv, Types, DatabaseOK
<1>5. es \subseteq db.edges /\ xs \subseteq db.xrefs /\ ms \subseteq es \cup xs
  BY DEF EdgesRead, XRefsRead
<1>6. /\ es \in SUBSET MetaEdge /\ xs \in SUBSET XRef /\ ms \in SUBSET (MetaEdge \cup XRef)
      /\ db.graphs \in SUBSET Graph
  BY <1>4, <1>5 DEF Database
<1> HIDE DEF es, xs, ms
<1>7. mem' \in Object
  BY <1>2, <1>3, <1>6 DEF Object
<1>8. ObjectOK(mem')
  BY <1>3, <1>4, <1>5, <1>7 DEF ObjectOK, DatabaseOK
<1>9. mem'.xrefs \subseteq db'.xrefs \cup mem'.dirty \cup raised'
  BY <1>1, <1>3, <1>5
<1>10. DatabaseOK(db') /\ raised' \subseteq XRef
  BY <1>1, <1>4
<1>11. QED
  BY <1>1, <1>8, <1>9, <1>10, IdleKeeps

LEMMA ReadFailsKeeps ==
    ASSUME Inv, ReadFails
    PROVE  Inv'
<1>1. pc' = Idle /\ mem' = mem /\ raised' = raised /\ db' = db
  BY DEF ReadFails
<1>2. DatabaseOK(db')
  BY <1>1 DEF Inv, Types
<1>3. QED
  BY <1>1, <1>2, EndKeeps

LEMMA CrashKeeps ==
    ASSUME Inv, Crash
    PROVE  Inv'
<1>1. pc' = Idle /\ mem' = NoObject /\ raised' = {} /\ db' = db
  BY DEF Crash
<1>2. DatabaseOK(db')
  BY <1>1 DEF Inv, Types
<1>3. ObjectOK(NoObject) /\ NoObject.xrefs = {}
  BY DEF ObjectOK, NoObject, Object
<1>4. mem'.xrefs \subseteq db'.xrefs \cup mem'.dirty \cup raised'
  BY <1>1, <1>3
<1>5. QED
  BY <1>1, <1>2, <1>3, <1>4, IdleKeeps

-----------------------------------------------------------------------------
\* The statements of one XRef, under its log entry.
LEMMA RepositoryRemoveKeeps ==
    ASSUME Inv, NEW x \in XRef, RepositoryRemove(x)
    PROVE  Inv'
<1>1. /\ pc' = [at |-> "begin", op |-> "remove", x |-> x, then |-> Idle]
      /\ mem' = mem /\ raised' = raised /\ db' = db /\ x \notin mem.xrefs
  BY DEF RepositoryRemove, Call
<1>2. pc'.at = "begin" /\ pc'.op = "remove" /\ pc'.x = x /\ pc'.then.at = "idle"
  BY <1>1 DEF Idle
<1>3. pc' \in Place
  BY <1>1 DEF Place, Then
<1>4. Types'
  BY <1>1, <1>3 DEF Inv, Types
<1>5. Logged' /\ Replayed'
  BY <1>1, <1>2 DEF Logged, Replayed, Loading, Logging
<1>6. Saved'
  BY <1>1, <1>2 DEF Inv, Saved, Within, HeldIsSavedOrDirty
<1>7. QED
  BY <1>4, <1>5, <1>6 DEF Inv

LEMMA BeginKeeps ==
    ASSUME Inv, Begin
    PROVE  Inv'
<1> DEFINE e == [op |-> pc.op, x |-> pc.x, n |-> NextNumber(db.log)]
           d == [db EXCEPT !.log = Append(db.log, e)]
<1>1. /\ pc.at = "begin" /\ mem' = mem /\ raised' = raised /\ db' \in {db, d}
      /\ \/ db' = d /\ pc' = [at |-> "write", entry |-> e, then |-> pc.then]
         \/ pc' = Idle
  BY DEF Begin, Statement
<1>2. /\ pc.op \in {"add", "remove"} /\ pc.x \in XRef /\ pc.then \in Then
      /\ DatabaseOK(db)
  BY <1>1, PlaceIs DEF Inv, Types
<1>3. /\ e \in Entries /\ DatabaseOK(d) /\ ToSet(d.log) = ToSet(db.log) \cup {e}
      /\ d.graphs = db.graphs /\ d.edges = db.edges
      /\ d.xrefs = db.xrefs /\ d.marked = db.marked
  BY <1>2, BegunIs
<1>4. e.op = pc.op /\ e.x = pc.x
  OBVIOUS
<1> HIDE DEF e, d
<1>5. DatabaseOK(db') /\ db'.xrefs = db.xrefs
  BY <1>1, <1>2, <1>3
<1>6. CASE pc' = Idle
  BY <1>1, <1>5, <1>6, EndKeeps
<1>7. CASE db' = d /\ pc' = [at |-> "write", entry |-> e, then |-> pc.then]
  <2>1. pc'.at = "write" /\ pc'.entry = e /\ pc'.then = pc.then
    BY <1>7
  <2>2. pc' \in Place
    BY <1>2, <1>3, <1>7 DEF Place
  <2>3. Types'
    BY <1>1, <1>5, <2>2 DEF Inv, Types
  <2>4. Replayed'
    BY <2>1 DEF Replayed, Loading
  <2>5. pc.op = "remove" => pc.x \notin mem.xrefs
    BY <1>1 DEF Inv, Logged
  <2>6. Logged'
    BY <1>1, <1>3, <1>4, <1>7, <2>1, <2>5 DEF Logged, Loading, Logging
  <2>7. Within' <=> Within
    BY <1>1, <2>1 DEF Within, Logging
  <2>8. ToWrite' = ToWrite
    BY <1>1, <1>4, <2>1 DEF ToWrite
  <2>9. Saved'
    <3>1. /\ mem.xrefs \subseteq db.xrefs \cup mem.dirty \cup raised
          /\ Within => /\ mem.graphs \subseteq db.graphs /\ mem.edges \subseteq db.edges
                       /\ mem.dirty \ ToWrite \subseteq db.xrefs
      BY DEF Inv, Saved, HeldIsSavedOrDirty
    <3>2. mem'.xrefs \subseteq db'.xrefs \cup mem'.dirty \cup raised'
      BY <1>1, <1>5, <3>1
    <3>3. Within' => /\ mem'.graphs \subseteq db'.graphs /\ mem'.edges \subseteq db'.edges
                     /\ mem'.dirty \ ToWrite' \subseteq db'.xrefs
      BY <1>1, <1>3, <1>7, <2>7, <2>8, <3>1
    <3>4. QED
      BY <2>1, <3>2, <3>3 DEF Saved, HeldIsSavedOrDirty
  <2>10. QED
    BY <2>3, <2>4, <2>6, <2>9 DEF Inv
<1>8. QED
  BY <1>1, <1>6, <1>7

LEMMA WriteKeeps ==
    ASSUME Inv, Write
    PROVE  Inv'
<1> DEFINE e == pc.entry
           d == Effect(db, e)
<1>1. /\ pc.at = "write" /\ mem' = mem /\ raised' = raised /\ db' \in {db, d}
      /\ \/ db' = d /\ pc' = [pc EXCEPT !.at = "commit"]
         \/ pc' = Idle
  BY DEF Write, Statement
<1>2. Logging
  BY <1>1 DEF Logging
<1>3. /\ pc \in [at : {"write", "commit"}, entry : Entries, then : Then]
      /\ e \in Entries /\ pc.then \in Then /\ DatabaseOK(db)
      /\ e \in ToSet(db.log) /\ (e.op = "remove" => e.x \notin mem.xrefs)
  BY <1>2, PlaceIs DEF Inv, Types, Logged
<1>4. /\ DatabaseOK(d) /\ Happened(d, e)
      /\ d.log = db.log /\ d.graphs = db.graphs /\ d.edges = db.edges
      /\ e.op = "add" => d.xrefs = db.xrefs \cup {e.x}
      /\ e.op # "add" => d.xrefs = db.xrefs \ {e.x}
  BY <1>3, EffectIs
<1>5. e.op \in {"add", "remove"}
  BY <1>3 DEF Entries
<1>6. db.xrefs \cap mem.xrefs \subseteq d.xrefs
  BY <1>3, <1>4, <1>5
<1>7. pc' # Idle => pc'.at = "commit" /\ pc'.entry = e /\ pc'.then = pc.then /\ pc' \in Place
  <2>1. CASE pc' = [pc EXCEPT !.at = "commit"]
    BY <1>3, <2>1 DEF Place
  <2>2. QED
    BY <1>1, <2>1
<1> HIDE DEF e, d
<1>8. DatabaseOK(db') /\ db.xrefs \cap mem.xrefs \subseteq db'.xrefs
  BY <1>1, <1>3, <1>4, <1>6
<1>9. CASE pc' = Idle
  BY <1>1, <1>8, <1>9, EndKeeps
<1>10. CASE pc' # Idle
  <2>1. db' = d /\ pc'.at = "commit" /\ pc'.entry = e /\ pc'.then = pc.then
    BY <1>1, <1>7, <1>10
  <2>2. Types'
    BY <1>1, <1>7, <1>8, <1>10 DEF Inv, Types
  <2>3. Replayed'
    BY <2>1 DEF Replayed, Loading
  <2>4. Logged'
    BY <1>1, <1>3, <1>4, <2>1 DEF Logged, Loading, Logging
  <2>5. Within' <=> Within
    BY <1>1, <2>1 DEF Within, Logging
  <2>6. ToWrite' = ToWrite
    BY <1>1, <2>1 DEF ToWrite, e
  <2>7. Saved'
    <3>1. /\ mem.xrefs \subseteq db.xrefs \cup mem.dirty \cup raised
          /\ mem.dirty \subseteq mem.xrefs
          /\ Within => /\ mem.graphs \subseteq db.graphs /\ mem.edges \subseteq db.edges
                       /\ mem.dirty \ ToWrite \subseteq db.xrefs
      BY DEF Inv, Saved, HeldIsSavedOrDirty, Types, ObjectOK
    <3>2. mem'.xrefs \subseteq db'.xrefs \cup mem'.dirty \cup raised'
      BY <1>1, <1>8, <3>1
    <3>3. Within' => /\ mem'.graphs \subseteq db'.graphs /\ mem'.edges \subseteq db'.edges
                     /\ mem'.dirty \ ToWrite' \subseteq db'.xrefs
      BY <1>1, <1>4, <1>8, <2>1, <2>5, <2>6, <3>1
    <3>4. QED
      BY <2>1, <3>2, <3>3 DEF Saved, HeldIsSavedOrDirty
  <2>8. QED
    BY <2>2, <2>3, <2>4, <2>7 DEF Inv
<1>11. QED
  BY <1>9, <1>10

LEMMA CommitKeeps ==
    ASSUME Inv, Commit
    PROVE  Inv'
<1> DEFINE e == pc.entry
           d == Committed(db, e)
<1>1. /\ pc.at = "commit" /\ mem' = mem /\ raised' = raised /\ db' \in {db, d}
      /\ pc' = pc.then \/ pc' = Idle
  BY DEF Commit, Statement
<1>2. Logging
  BY <1>1 DEF Logging
<1>3. /\ e \in Entries /\ pc.then \in Then /\ DatabaseOK(db)
      /\ e \in ToSet(db.log) /\ (e.op = "remove" => e.x \notin mem.xrefs) /\ Happened(db, e)
  BY <1>1, <1>2, PlaceIs DEF Inv, Types, Logged
<1>4. /\ DatabaseOK(d) /\ d.graphs = db.graphs /\ d.edges = db.edges
      /\ d.xrefs = db.xrefs
  BY <1>3, CommittedIs
<1> HIDE DEF e, d
<1>5. DatabaseOK(db') /\ db'.graphs = db.graphs /\ db'.edges = db.edges /\ db'.xrefs = db.xrefs
  <2>1. db' = db \/ db' = d
    BY <1>1
  <2>2. QED
    BY <2>1, <1>3, <1>4
<1>6. CASE pc' = Idle
  BY <1>1, <1>5, <1>6, EndKeeps
<1>7. CASE pc' = pc.then /\ pc.then \in [at : {"xrefs"}, todo : SUBSET XRef]
  <2>1. pc'.at = "xrefs" /\ pc'.todo = pc.then.todo /\ pc.then.at = "xrefs" /\ pc' \in Place
    BY <1>7 DEF Place, Then
  <2>2. Types'
    BY <1>1, <1>5, <2>1 DEF Inv, Types
  <2>3. Replayed' /\ Logged'
    BY <2>1 DEF Replayed, Logged, Loading, Logging
  <2>4. Within /\ ToWrite = pc.then.todo \cup {e.x} /\ ToWrite' = pc.then.todo
    BY <1>1, <1>2, <2>1 DEF Within, ToWrite, e
  <2>5. /\ mem.xrefs \subseteq db.xrefs \cup mem.dirty \cup raised
        /\ mem.dirty \subseteq mem.xrefs
        /\ mem.graphs \subseteq db.graphs /\ mem.edges \subseteq db.edges
        /\ mem.dirty \ ToWrite \subseteq db.xrefs
    BY <2>4 DEF Inv, Saved, HeldIsSavedOrDirty, Types, ObjectOK
  <2>6. e.x \in mem.dirty => e.x \in db.xrefs
    BY <1>3, <2>5 DEF Happened, Entries
  <2>7. Saved'
    <3>1. mem.dirty \ pc.then.todo \subseteq db.xrefs
      BY <2>4, <2>5, <2>6
    <3>2. QED
      BY <1>1, <1>5, <2>1, <2>4, <2>5, <3>1 DEF Saved, HeldIsSavedOrDirty
  <2>8. QED
    BY <2>2, <2>3, <2>7 DEF Inv
<1>8. QED
  BY <1>1, <1>3, <1>6, <1>7 DEF Then

-----------------------------------------------------------------------------
\* The persist: the object is left alone, the rows grow.
LEMMA PersistKeeps ==
    ASSUME Inv, Persist
    PROVE  Inv'
<1>1. pc' = [at |-> "anchor"] /\ mem' = mem /\ raised' = raised /\ db' = db
  BY DEF Persist, Call
<1>2. pc'.at = "anchor" /\ pc' \in Place
  BY <1>1 DEF Place
<1>3. Types'
  BY <1>1, <1>2 DEF Inv, Types
<1>4. Logged' /\ Replayed'
  BY <1>2 DEF Logged, Replayed, Loading, Logging
<1>5. Saved'
  BY <1>1, <1>2 DEF Inv, Saved, Within, Logging, HeldIsSavedOrDirty
<1>6. QED
  BY <1>3, <1>4, <1>5 DEF Inv

LEMMA AnchorKeeps ==
    ASSUME Inv, Anchor
    PROVE  Inv'
<1> DEFINE d == [db EXCEPT !.anchor = TRUE]
<1>1. /\ mem' = mem /\ raised' = raised /\ db' \in {db, d}
      /\ pc' = [at |-> "graphs", todo |-> mem.graphs] \/ pc' = Idle
  BY DEF Anchor, Statement
<1>2. DatabaseOK(db) /\ db \in Database /\ ObjectOK(mem)
  BY DEF Inv, Types, DatabaseOK
<1>3. /\ d \in Database /\ d.graphs = db.graphs /\ d.edges = db.edges /\ d.xrefs = db.xrefs
      /\ d.marked = db.marked /\ d.log = db.log
  BY <1>2 DEF Database
<1>4. DatabaseOK(d)
  BY <1>2, <1>3 DEF DatabaseOK
<1> HIDE DEF d
<1>5. DatabaseOK(db') /\ db'.xrefs = db.xrefs
  BY <1>1, <1>2, <1>3, <1>4
<1>6. CASE pc' = Idle
  BY <1>1, <1>5, <1>6, EndKeeps
<1>7. CASE pc' = [at |-> "graphs", todo |-> mem.graphs]
  <2>1. mem.graphs \in SUBSET Graph
    BY <1>2, ObjectIs
  <2>2. pc'.at = "graphs" /\ pc'.todo = mem.graphs /\ pc' \in Place
    BY <1>7, <2>1 DEF Place
  <2>3. Types'
    BY <1>1, <1>5, <2>2 DEF Inv, Types
  <2>4. Logged' /\ Replayed'
    BY <2>2 DEF Logged, Replayed, Loading, Logging
  <2>5. Saved'
    BY <1>1, <1>5, <2>2 DEF Inv, Saved, Within, Logging, HeldIsSavedOrDirty
  <2>6. QED
    BY <2>3, <2>4, <2>5 DEF Inv
<1>8. QED
  BY <1>1, <1>6, <1>7

LEMMA GraphRowKeeps ==
    ASSUME Inv, NEW g \in Graph, GraphRow(g)
    PROVE  Inv'
<1> DEFINE d == [db EXCEPT !.graphs = db.graphs \cup {g}]
<1>1. /\ pc.at = "graphs" /\ mem' = mem /\ raised' = raised /\ db' \in {db, d}
      /\ \/ db' = d /\ pc' = [pc EXCEPT !.todo = pc.todo \ {g}]
         \/ pc' = Idle
  BY DEF GraphRow, Statement
<1>2. DatabaseOK(db) /\ db \in Database
  BY DEF Inv, Types, DatabaseOK
<1>3. /\ d \in Database /\ d.graphs = db.graphs \cup {g} /\ d.edges = db.edges
      /\ d.xrefs = db.xrefs /\ d.marked = db.marked /\ d.log = db.log
  BY <1>2 DEF Database
<1>4. DatabaseOK(d)
  BY <1>2, <1>3 DEF DatabaseOK
<1> HIDE DEF d
<1>5. DatabaseOK(db') /\ db'.xrefs = db.xrefs
  BY <1>1, <1>2, <1>3, <1>4
<1>6. CASE pc' = Idle
  BY <1>1, <1>5, <1>6, EndKeeps
<1>7. CASE db' = d /\ pc' = [pc EXCEPT !.todo = pc.todo \ {g}]
  <2>1. pc \in [at : {"graphs"}, todo : SUBSET Graph]
    BY <1>1, PlaceIs DEF Inv, Types
  <2>2. pc'.at = "graphs" /\ pc'.todo = pc.todo \ {g} /\ pc' \in [at : {"graphs"}, todo : SUBSET Graph]
    BY <1>7, <2>1
  <2>3. Types'
    BY <1>1, <1>5, <2>2 DEF Inv, Types, Place
  <2>4. Logged' /\ Replayed'
    BY <2>2 DEF Logged, Replayed, Loading, Logging
  <2>5. mem.graphs \ pc.todo \subseteq db.graphs /\ HeldIsSavedOrDirty
    BY <1>1 DEF Inv, Saved
  <2>6. mem'.graphs \ pc'.todo \subseteq db'.graphs
    BY <1>1, <1>3, <1>7, <2>2, <2>5
  <2>7. Saved'
    BY <1>1, <1>5, <2>2, <2>5, <2>6 DEF Saved, Within, Logging, HeldIsSavedOrDirty
  <2>8. QED
    BY <2>3, <2>4, <2>7 DEF Inv
<1>8. QED
  BY <1>1, <1>6, <1>7

LEMMA EdgeRowsKeeps ==
    ASSUME Inv, EdgeRows
    PROVE  Inv'
<1> DEFINE es == db.edges \cup {e \in mem.edges : Ends[e] \subseteq db.graphs}
           d == [db EXCEPT !.edges = es]
<1>1. /\ pc.at = "graphs" /\ pc.todo = {} /\ mem' = mem /\ raised' = raised /\ db' \in {db, d}
      /\ \/ db' = d /\ pc' = [at |-> "xrefs", todo |-> mem.dirty]
         \/ pc' = Idle
  BY DEF EdgeRows, Statement
<1>2. DatabaseOK(db) /\ db \in Database /\ ObjectOK(mem)
  BY DEF Inv, Types, DatabaseOK
<1>3. es \in SUBSET MetaEdge /\ db.edges \subseteq es /\ \A e \in es : Ends[e] \subseteq db.graphs
  BY <1>2, ObjectIs DEF DatabaseOK, Database
<1>4. mem.graphs \subseteq db.graphs
  BY <1>1 DEF Inv, Saved
<1>5. mem.edges \subseteq es
  BY <1>2, <1>4 DEF ObjectOK
<1> HIDE DEF es
<1>6. /\ d \in Database /\ d.graphs = db.graphs /\ d.edges = es
      /\ d.xrefs = db.xrefs /\ d.marked = db.marked /\ d.log = db.log
  BY <1>2, <1>3 DEF Database
<1>7. DatabaseOK(d)
  BY <1>2, <1>3, <1>6 DEF DatabaseOK
<1> HIDE DEF d
<1>8. DatabaseOK(db') /\ db'.xrefs = db.xrefs
  BY <1>1, <1>2, <1>6, <1>7
<1>9. CASE pc' = Idle
  BY <1>1, <1>8, <1>9, EndKeeps
<1>10. CASE db' = d /\ pc' = [at |-> "xrefs", todo |-> mem.dirty]
  <2>1. mem.dirty \in SUBSET XRef
    BY <1>2, ObjectIs
  <2>2. pc'.at = "xrefs" /\ pc'.todo = mem.dirty /\ pc' \in Place
    BY <1>10, <2>1 DEF Place, Then
  <2>3. Types'
    BY <1>1, <1>8, <2>2 DEF Inv, Types
  <2>4. Logged' /\ Replayed'
    BY <2>2 DEF Logged, Replayed, Loading, Logging
  <2>5. ToWrite' = mem.dirty
    BY <2>2 DEF ToWrite
  <2>6. Saved'
    BY <1>1, <1>4, <1>5, <1>6, <1>8, <1>10, <2>2, <2>5 DEF Inv, Saved, HeldIsSavedOrDirty
  <2>7. QED
    BY <2>3, <2>4, <2>6 DEF Inv
<1>11. QED
  BY <1>1, <1>9, <1>10

LEMMA DirtyXRefKeeps ==
    ASSUME Inv, NEW x \in XRef, DirtyXRef(x)
    PROVE  Inv'
<1> DEFINE then == [pc EXCEPT !.todo = pc.todo \ {x}]
<1>1. /\ pc.at = "xrefs" /\ x \in pc.todo
      /\ pc' = [at |-> "begin", op |-> "add", x |-> x, then |-> then]
      /\ mem' = mem /\ raised' = raised /\ db' = db
  BY DEF DirtyXRef
<1>2. pc \in [at : {"xrefs"}, todo : SUBSET XRef]
  BY <1>1, PlaceIs DEF Inv, Types
<1>3. then \in [at : {"xrefs"}, todo : SUBSET XRef] /\ then.at = "xrefs" /\ then.todo = pc.todo \ {x}
  BY <1>2
<1> HIDE DEF then
<1>4. /\ pc'.at = "begin" /\ pc'.op = "add" /\ pc'.x = x /\ pc'.then = then /\ pc' \in Place
  BY <1>1, <1>3 DEF Place, Then
<1>5. Types'
  BY <1>1, <1>4 DEF Inv, Types
<1>6. Logged' /\ Replayed'
  BY <1>4 DEF Logged, Replayed, Loading, Logging
<1>7. Within /\ ToWrite = pc.todo /\ ToWrite' = (pc.todo \ {x}) \cup {x}
  BY <1>1, <1>3, <1>4 DEF Within, ToWrite
<1>8. /\ HeldIsSavedOrDirty /\ mem.graphs \subseteq db.graphs /\ mem.edges \subseteq db.edges
      /\ mem.dirty \ ToWrite \subseteq db.xrefs
  BY <1>7 DEF Inv, Saved
<1>9. mem'.dirty \ ToWrite' \subseteq db'.xrefs
  BY <1>1, <1>7, <1>8
<1>10. Saved'
  BY <1>1, <1>4, <1>8, <1>9 DEF Saved, HeldIsSavedOrDirty
<1>11. QED
  BY <1>5, <1>6, <1>10 DEF Inv

LEMMA XRefsDoneKeeps ==
    ASSUME Inv, XRefsDone
    PROVE  Inv'
<1>1. /\ pc.at = "xrefs" /\ pc.todo = {} /\ mem' = [mem EXCEPT !.dirty = {}]
      /\ pc' = [at |-> "marks", bucket |-> "edges", todo |-> mem.soft \cap MetaEdge]
      /\ raised' = raised /\ db' = db
  BY DEF XRefsDone
<1>2. ObjectOK(mem) /\ mem \in Object
  BY DEF Inv, Types, ObjectOK
<1>3. /\ mem' \in Object /\ mem'.up = mem.up /\ mem'.graphs = mem.graphs /\ mem'.edges = mem.edges
      /\ mem'.xrefs = mem.xrefs /\ mem'.marked = mem.marked /\ mem'.soft = mem.soft
      /\ mem'.dirty = {}
  BY <1>1, <1>2 DEF Object
<1>4. ObjectOK(mem')
  <2>1. ~mem.up => mem' = NoObject
    <3> SUFFICES ASSUME ~mem.up
                 PROVE  mem' = NoObject
      OBVIOUS
    <3>1. mem = NoObject
      BY <1>2 DEF ObjectOK
    <3>2. QED
      BY <1>1, <3>1 DEF NoObject
  <2>2. QED
    BY <1>2, <1>3, <2>1 DEF ObjectOK
<1>5. /\ pc'.at = "marks" /\ pc'.bucket = "edges" /\ pc'.todo = mem.soft \cap MetaEdge
      /\ pc' \in Place
  BY <1>1 DEF Place
<1>6. Types'
  BY <1>1, <1>4, <1>5 DEF Inv, Types
<1>7. Logged' /\ Replayed'
  BY <1>5 DEF Logged, Replayed, Loading, Logging
<1>8. Within /\ ToWrite = {}
  BY <1>1 DEF Within, ToWrite
<1>9. /\ mem.xrefs \subseteq db.xrefs \cup mem.dirty \cup raised
      /\ mem.graphs \subseteq db.graphs /\ mem.edges \subseteq db.edges
      /\ mem.dirty \ ToWrite \subseteq db.xrefs
  BY <1>8 DEF Inv, Saved, HeldIsSavedOrDirty
<1>10. Saved'
  <2>1. mem'.xrefs \subseteq db'.xrefs \cup mem'.dirty \cup raised'
    BY <1>1, <1>3, <1>8, <1>9
  <2>2. \A e \in mem'.soft \ pc'.todo : e \notin MetaEdge
    BY <1>3, <1>5
  <2>3. QED
    BY <1>1, <1>3, <1>5, <1>9, <2>1, <2>2 DEF Saved, Within, Logging, HeldIsSavedOrDirty
<1>11. QED
  BY <1>6, <1>7, <1>10 DEF Inv

\* At the marks, what the object holds has its row, but for what add_xref refused.
LEMMA RowsAreThere ==
    ASSUME Inv, pc.at = "marks"
    PROVE  \A e \in (mem.edges \cup mem.xrefs) \ raised : e \in db.edges \cup db.xrefs
BY DEF Inv, Saved, HeldIsSavedOrDirty

LEMMA DrainMarkKeeps ==
    ASSUME Inv, NEW e \in MetaEdge \cup XRef, DrainMark(e)
    PROVE  Inv'
<1> DEFINE d == IF e \in mem.edges \cup mem.xrefs THEN Synced(db, e) ELSE db
<1>1. /\ pc.at = "marks" /\ mem' = mem /\ raised' = raised /\ db' \in {db, d}
      /\ \/ db' = d /\ pc' = [pc EXCEPT !.todo = pc.todo \ {e}]
         \/ pc' = Idle
  BY DEF DrainMark, Statement
<1>2. DatabaseOK(db) /\ Types
  BY DEF Inv, Types
<1>3. /\ DatabaseOK(d) /\ d.graphs = db.graphs /\ d.edges = db.edges /\ d.xrefs = db.xrefs
      /\ \A f : f # e => (f \in d.marked <=> f \in db.marked)
      /\ e \in (mem.edges \cup mem.xrefs) \ raised => (e \in d.marked <=> e \in mem.marked)
  <2>1. CASE e \in mem.edges \cup mem.xrefs
    <3>1. d = Synced(db, e)
      BY <2>1
    <3>2. /\ DatabaseOK(Synced(db, e))
          /\ Synced(db, e).graphs = db.graphs
          /\ Synced(db, e).edges = db.edges /\ Synced(db, e).xrefs = db.xrefs
          /\ \A f : f # e => (f \in Synced(db, e).marked <=> f \in db.marked)
          /\ e \in db.edges \cup db.xrefs => (e \in Synced(db, e).marked <=> e \in mem.marked)
      BY <1>2, SyncedIs
    <3>3. e \notin raised => e \in db.edges \cup db.xrefs
      BY <1>1, <2>1, RowsAreThere
    <3> HIDE DEF d
    <3>4. QED
      BY <3>1, <3>2, <3>3
  <2>2. CASE e \notin mem.edges \cup mem.xrefs
    <3>1. d = db
      BY <2>2
    <3> HIDE DEF d
    <3>2. QED
      BY <1>2, <2>2, <3>1
  <2>3. QED
    BY <2>1, <2>2
<1> HIDE DEF d
<1>4. DatabaseOK(db') /\ db'.xrefs = db.xrefs
  BY <1>1, <1>2, <1>3
<1>5. CASE pc' = Idle
  BY <1>1, <1>4, <1>5, EndKeeps
<1>6. CASE db' = d /\ pc' = [pc EXCEPT !.todo = pc.todo \ {e}]
  <2>1. pc \in [at : {"marks"}, bucket : {"edges", "xrefs"}, todo : SUBSET (MetaEdge \cup XRef)]
    BY <1>1, <1>2, PlaceIs DEF Types
  <2>2. /\ pc'.at = "marks" /\ pc'.bucket = pc.bucket /\ pc'.todo = pc.todo \ {e}
        /\ pc' \in [at : {"marks"}, bucket : {"edges", "xrefs"}, todo : SUBSET (MetaEdge \cup XRef)]
    BY <1>6, <2>1
  <2>3. Types'
    BY <1>1, <1>4, <2>2 DEF Inv, Types, Place
  <2>4. Logged' /\ Replayed'
    BY <2>2 DEF Logged, Replayed, Loading, Logging
  <2> DEFINE Kind == IF pc.bucket = "edges" THEN MetaEdge ELSE XRef
  <2>5. /\ HeldIsSavedOrDirty /\ mem.graphs \subseteq db.graphs /\ mem.edges \subseteq db.edges
        /\ mem.dirty = {}
        /\ \A f \in mem.soft \ pc.todo : f \in Kind => f \notin Unsaved(mem, db)
    BY <1>1 DEF Inv, Saved
  <2> HIDE DEF Kind
  <2>6. ASSUME NEW f \in mem.soft \ (pc.todo \ {e}), f \in Kind
        PROVE  f \notin Unsaved(mem, d)
    <3>1. CASE f = e
      BY <1>3, <3>1 DEF Unsaved
    <3>2. CASE f # e
      <4>1. f \notin Unsaved(mem, db)
        BY <2>5, <2>6, <3>2
      <4>2. QED
        BY <1>3, <3>2, <4>1 DEF Unsaved
    <3>3. QED
      BY <3>1, <3>2
  <2>7. Unsaved(mem, d) = Unsaved(mem, db)' /\ Kind = IF pc'.bucket = "edges" THEN MetaEdge ELSE XRef
    BY <1>1, <1>6, <2>2 DEF Unsaved, Kind
  <2>8. Saved'
    <3>1. mem'.graphs \subseteq db'.graphs /\ mem'.edges \subseteq db'.edges /\ mem'.dirty = {}
      BY <1>1, <1>3, <1>6, <2>5
    <3>2. HeldIsSavedOrDirty'
      BY <1>1, <1>4, <2>5 DEF HeldIsSavedOrDirty
    <3>3. \A f \in mem'.soft \ pc'.todo :
            f \in (IF pc'.bucket = "edges" THEN MetaEdge ELSE XRef) => f \notin Unsaved(mem, db)'
      BY <1>1, <2>2, <2>6, <2>7
    <3>4. QED
      BY <2>2, <3>1, <3>2, <3>3 DEF Saved, Within, Logging
  <2>9. QED
    BY <2>3, <2>4, <2>8 DEF Inv
<1>7. QED
  BY <1>1, <1>5, <1>6

LEMMA MarksDoneKeeps ==
    ASSUME Inv, MarksDone
    PROVE  Inv'
<1>1. /\ pc.at = "marks" /\ raised' = raised /\ db' = db
      /\ \/ /\ mem' = [mem EXCEPT !.soft = mem.soft \ MetaEdge]
            /\ pc' = [at |-> "marks", bucket |-> "xrefs", todo |-> mem.soft \cap XRef]
         \/ /\ mem' = [mem EXCEPT !.soft = mem.soft \ XRef, !.attr = FALSE]
            /\ pc' = Idle
  BY DEF MarksDone
<1>2. ObjectOK(mem) /\ mem \in Object /\ DatabaseOK(db) /\ raised \subseteq XRef
  BY DEF Inv, Types, ObjectOK
<1>3. /\ HeldIsSavedOrDirty /\ mem.graphs \subseteq db.graphs /\ mem.edges \subseteq db.edges
      /\ mem.dirty = {}
  BY <1>1 DEF Inv, Saved
<1>4. CASE /\ mem' = [mem EXCEPT !.soft = mem.soft \ MetaEdge]
           /\ pc' = [at |-> "marks", bucket |-> "xrefs", todo |-> mem.soft \cap XRef]
  <2>1. /\ mem' \in Object /\ mem'.up = mem.up /\ mem'.graphs = mem.graphs /\ mem'.edges = mem.edges
        /\ mem'.xrefs = mem.xrefs /\ mem'.marked = mem.marked /\ mem'.dirty = mem.dirty
        /\ mem'.soft = mem.soft \ MetaEdge
    BY <1>2, <1>4 DEF Object
  <2>2. ~mem.up => mem' = NoObject
    <3> SUFFICES ASSUME ~mem.up
                 PROVE  mem' = NoObject
      OBVIOUS
    <3>1. mem = NoObject
      BY <1>2 DEF ObjectOK
    <3>2. QED
      BY <1>4, <3>1 DEF NoObject
  <2>3. ObjectOK(mem')
    BY <1>2, <2>1, <2>2 DEF ObjectOK
  <2>4. /\ pc'.at = "marks" /\ pc'.bucket = "xrefs" /\ pc'.todo = mem.soft \cap XRef /\ pc' \in Place
    BY <1>4 DEF Place
  <2>5. Types'
    BY <1>1, <1>2, <2>3, <2>4 DEF Types
  <2>6. Logged' /\ Replayed'
    BY <2>4 DEF Logged, Replayed, Loading, Logging
  <2>7. \A f \in mem'.soft \ pc'.todo : f \notin XRef
    BY <2>1, <2>4
  <2>8. Saved'
    BY <1>1, <1>3, <2>1, <2>4, <2>7 DEF Saved, Within, Logging, HeldIsSavedOrDirty
  <2>9. QED
    BY <2>5, <2>6, <2>8 DEF Inv
<1>5. CASE /\ mem' = [mem EXCEPT !.soft = mem.soft \ XRef, !.attr = FALSE]
           /\ pc' = Idle
  <2> DEFINE m == [mem EXCEPT !.soft = mem.soft \ XRef]
  <2>1. mem' = [m EXCEPT !.attr = FALSE]
    BY <1>2, <1>5 DEF Object
  <2>2. /\ m \in Object /\ m.up = mem.up /\ m.graphs = mem.graphs /\ m.edges = mem.edges
        /\ m.xrefs = mem.xrefs /\ m.marked = mem.marked /\ m.dirty = mem.dirty
    BY <1>2 DEF Object
  <2> HIDE DEF m
  <2>3. /\ mem' \in Object /\ mem'.up = mem.up /\ mem'.graphs = mem.graphs /\ mem'.edges = mem.edges
        /\ mem'.xrefs = mem.xrefs /\ mem'.marked = mem.marked /\ mem'.dirty = mem.dirty
    BY <2>1, <2>2 DEF Object
  <2>4. ~mem.up => mem' = NoObject
    <3> SUFFICES ASSUME ~mem.up
                 PROVE  mem' = NoObject
      OBVIOUS
    <3>1. mem = NoObject
      BY <1>2 DEF ObjectOK
    <3>2. QED
      BY <1>5, <3>1 DEF NoObject
  <2>5. ObjectOK(mem')
    BY <1>2, <2>3, <2>4 DEF ObjectOK
  <2>6. mem'.xrefs \subseteq db'.xrefs \cup mem'.dirty \cup raised'
    BY <1>1, <1>3, <2>3 DEF HeldIsSavedOrDirty
  <2>7. QED
    BY <1>1, <1>2, <1>5, <2>5, <2>6, IdleKeeps
<1>6. QED
  BY <1>1, <1>4, <1>5

-----------------------------------------------------------------------------
\* The inductive invariant: how much is done at each statement, whichever failed before.
THEOREM PersistenceInvariant == Spec => []Inv
<1>1. Init => Inv
  <2> SUFFICES ASSUME Init
               PROVE  Inv
    OBVIOUS
  <2>1. /\ pc = Idle /\ pc.at = "idle" /\ raised = {}
        /\ mem = [up |-> TRUE, graphs |-> {}, edges |-> {}, xrefs |-> {}, marked |-> {},
                  dirty |-> {}, soft |-> {}, attr |-> TRUE, attached |-> FALSE]
        /\ db = [anchor |-> FALSE, graphs |-> {}, edges |-> {}, xrefs |-> {},
                 marked |-> {}, log |-> <<>>]
    BY DEF Init, NoObject, Idle
  <2>2. ObjectOK(mem)
    BY <2>1 DEF ObjectOK, Object
  <2>3. DatabaseOK(db)
    <3>1. <<>> \in Seq(Entries) /\ Ordered(<<>>)
      BY EmptySeq DEF Ordered
    <3>2. db \in Database
      BY <2>1, <3>1 DEF Database
    <3>3. QED
      BY <2>1, <3>1, <3>2 DEF DatabaseOK
  <2>4. Types
    BY <2>1, <2>2, <2>3 DEF Types, Place, Then
  <2>5. Logged /\ Replayed /\ Saved
    BY <2>1 DEF Logged, Replayed, Saved, Loading, Logging, Within, HeldIsSavedOrDirty
  <2>6. QED
    BY <2>4, <2>5 DEF Inv
<1>2. Inv /\ [Next]_vars => Inv'
  <2> SUFFICES ASSUME Inv, [Next]_vars
               PROVE  Inv'
    OBVIOUS
  <2>1. CASE \E g \in Graph : AddGraph(g) \/ GraphRow(g) \/ Refresh(g)
    BY <2>1, AddGraphKeeps, GraphRowKeeps, RefreshKeeps
  <2>2. CASE \E e \in MetaEdge : AddMetaEdge(e)
    BY <2>2, AddMetaEdgeKeeps
  <2>3. CASE \E x \in XRef : AddXRef(x) \/ RemoveXRef(x) \/ RepositoryRemove(x) \/ DirtyXRef(x)
    BY <2>3, AddXRefKeeps, RemoveXRefKeeps, RepositoryRemoveKeeps, DirtyXRefKeeps
  <2>4. CASE \E e \in MetaEdge \cup XRef : Mark(e) \/ DrainMark(e)
    BY <2>4, MarkKeeps, DrainMarkKeeps
  <2>5. CASE Begin \/ Write \/ Commit
    BY <2>5, BeginKeeps, WriteKeeps, CommitKeeps
  <2>6. CASE Persist \/ Anchor \/ EdgeRows \/ XRefsDone \/ MarksDone
    BY <2>6, PersistKeeps, AnchorKeeps, EdgeRowsKeeps, XRefsDoneKeeps, MarksDoneKeeps
  <2>7. CASE \E incl, attach \in BOOLEAN : Load(incl, attach)
    BY <2>7, LoadKeeps
  <2>8. CASE Replay \/ Recommit \/ Read \/ ReadFails \/ Crash
    BY <2>8, ReplayKeeps, RecommitKeeps, ReadKeeps, ReadFailsKeeps, CrashKeeps
  <2>9. CASE UNCHANGED vars
    BY <2>9 DEF vars, Inv, Types, Logged, Replayed, Behind, Saved, Within, ToWrite, Loading, Logging,
                HeldIsSavedOrDirty, Unsaved, Happened
  <2>10. QED
    BY <2>1, <2>2, <2>3, <2>4, <2>5, <2>6, <2>7, <2>8, <2>9 DEF Next
<1>3. QED
  BY <1>1, <1>2, PTL DEF Spec

\* What the object holds is saved or known to be unsaved between any two statements
\* (metagraph_repository.py, persist; metagraph.py, add_xref).
THEOREM PersistenceHeldIsSafe == Spec => []HeldIsSafe
<1>1. Inv => HeldIsSafe
  <2> SUFFICES ASSUME Inv
               PROVE  HeldIsSafe
    OBVIOUS
  <2>1. ObjectOK(mem) /\ DatabaseOK(db) /\ raised \subseteq XRef /\ HeldIsSavedOrDirty
    BY DEF Inv, Types, Saved
  <2>2. mem \in Object /\ mem.dirty \subseteq mem.xrefs
    BY <2>1 DEF ObjectOK
  <2>3. /\ db.anchor \in BOOLEAN /\ db.graphs \subseteq Graph /\ db.edges \subseteq MetaEdge
        /\ db.xrefs \subseteq XRef /\ db.marked \subseteq db.edges \cup db.xrefs
        /\ \A e \in db.edges : Ends[e] \subseteq db.graphs
        /\ db.log \in Seq(Entries)
    BY <2>1 DEF DatabaseOK, Database
  <2>4. TypeOK
    BY <2>1, <2>2, <2>3 DEF TypeOK, Object
  <2>5. QED
    BY <2>1, <2>4 DEF HeldIsSafe
<1>2. QED
  BY <1>1, PersistenceInvariant, PTL

-----------------------------------------------------------------------------
\* What a step does to the rows of XRefs and to the log.
LEMMA RowsFollowLog ==
    ASSUME Inv, Next
    PROVE  \/ db'.xrefs = db.xrefs /\ ToSet(db.log) \subseteq ToSet(db'.log)
           \/ \E e \in ToSet(db.log) : e \in Entries /\ db' = Effect(db, e)
           \/ \E e \in ToSet(db.log) : db' = Committed(db, e) /\ Happened(db, e)
<1>1. DatabaseOK(db) /\ db \in Database /\ Types
  BY DEF Inv, Types, DatabaseOK
<1>2. CASE \E g \in Graph : AddGraph(g) \/ Refresh(g)
  BY <1>2 DEF AddGraph, Refresh, InMemory
<1>3. CASE \E g \in Graph : GraphRow(g)
  <2>1. PICK g \in Graph : db' \in {db, [db EXCEPT !.graphs = db.graphs \cup {g}]}
    BY <1>3 DEF GraphRow, Statement
  <2>2. db'.xrefs = db.xrefs /\ db'.log = db.log
    BY <1>1, <2>1 DEF Database
  <2>3. QED
    BY <2>2
<1>4. CASE \E e \in MetaEdge : AddMetaEdge(e)
  BY <1>4 DEF AddMetaEdge, InMemory
<1>5. CASE \E x \in XRef : AddXRef(x) \/ RemoveXRef(x) \/ RepositoryRemove(x) \/ DirtyXRef(x)
  BY <1>5 DEF AddXRef, RemoveXRef, RepositoryRemove, DirtyXRef, InMemory
<1>6. CASE \E e \in MetaEdge \cup XRef : Mark(e)
  BY <1>6 DEF Mark, InMemory
<1>7. CASE \E e \in MetaEdge \cup XRef : DrainMark(e)
  <2>1. PICK e \in MetaEdge \cup XRef : db' \in {db, Synced(db, e)}
    BY <1>7 DEF DrainMark, Statement
  <2>2. Synced(db, e).xrefs = db.xrefs /\ Synced(db, e).log = db.log
    BY <1>1, SyncedIs
  <2>3. QED
    BY <2>1, <2>2
<1>8. CASE Begin
  <2> DEFINE e == [op |-> pc.op, x |-> pc.x, n |-> NextNumber(db.log)]
             d == [db EXCEPT !.log = Append(db.log, e)]
  <2>1. pc.at = "begin" /\ db' \in {db, d}
    BY <1>8 DEF Begin, Statement
  <2>2. pc.op \in {"add", "remove"} /\ pc.x \in XRef
    BY <2>1, <1>1, PlaceIs DEF Types
  <2>3. ToSet(d.log) = ToSet(db.log) \cup {e} /\ d.xrefs = db.xrefs
    BY <2>2, <1>1, BegunIs
  <2> HIDE DEF d
  <2>4. QED
    BY <2>1, <2>3
<1>9. CASE Write
  <2>1. pc.at = "write" /\ db' \in {db, Effect(db, pc.entry)}
    BY <1>9 DEF Write, Statement
  <2>2. pc.entry \in ToSet(db.log) /\ pc.entry \in Entries
    BY <2>1, <1>1, PlaceIs DEF Inv, Types, Logged, Logging
  <2>3. QED
    BY <2>1, <2>2
<1>10. CASE Commit
  <2>1. pc.at = "commit" /\ db' \in {db, Committed(db, pc.entry)}
    BY <1>10 DEF Commit, Statement
  <2>2. pc.entry \in ToSet(db.log) /\ Happened(db, pc.entry)
    BY <2>1 DEF Inv, Logged, Logging
  <2>3. QED
    BY <2>1, <2>2
<1>11. CASE Anchor \/ EdgeRows
  <2>1. db' = db \/ db' = [db EXCEPT !.anchor = TRUE]
          \/ db' = [db EXCEPT !.edges = db.edges \cup {e \in mem.edges : Ends[e] \subseteq db.graphs}]
    BY <1>11 DEF Anchor, EdgeRows, Statement
  <2>2. db'.xrefs = db.xrefs /\ db'.log = db.log
    BY <1>1, <2>1 DEF Database
  <2>3. QED
    BY <2>2
<1>12. CASE Persist \/ XRefsDone \/ MarksDone
  BY <1>12 DEF Persist, XRefsDone, MarksDone
<1>13. CASE (\E incl, attach \in BOOLEAN : Load(incl, attach)) \/ Read \/ ReadFails \/ Crash
  BY <1>13 DEF Load, Read, ReadFails, Crash
<1>14. CASE Replay
  <2>1. pc.at = "recover" /\ pc.todo # <<>> /\ db' \in {db, Effect(db, Head(pc.todo))}
    BY <1>14 DEF Replay, Statement
  <2>2. Loading
    BY <2>1 DEF Loading
  <2>3. /\ pc.todo \in Seq(Entries) /\ Ordered(pc.todo) /\ ToSet(pc.todo) \subseteq ToSet(db.log)
    BY <2>2, LoadingIs
  <2>4. Head(pc.todo) \in ToSet(pc.todo) /\ Head(pc.todo) \in Entries
    BY <2>1, <2>3, TodoIs
  <2>5. QED
    BY <2>1, <2>3, <2>4
<1>15. CASE Recommit
  <2>1. pc.at = "recommit" /\ db' \in {db, Committed(db, Head(pc.todo))}
    BY <1>15 DEF Recommit, Statement
  <2>2. Loading /\ pc.todo # <<>> /\ Happened(db, Head(pc.todo))
    BY <2>1 DEF Loading, Inv, Logged
  <2>3. /\ pc.todo \in Seq(Entries) /\ Ordered(pc.todo) /\ ToSet(pc.todo) \subseteq ToSet(db.log)
    BY <2>2, LoadingIs
  <2>4. Head(pc.todo) \in ToSet(pc.todo)
    BY <2>2, <2>3, TodoIs
  <2>5. QED
    BY <2>1, <2>2, <2>3, <2>4
<1>16. QED
  BY <1>2, <1>3, <1>4, <1>5, <1>6, <1>7, <1>8, <1>9, <1>10, <1>11, <1>12, <1>13, <1>14, <1>15 DEF Next

\* Only a read brings an object up.
LEMMA ReadBringsUp ==
    ASSUME Inv, Next, mem.up # mem'.up, mem'.up
    PROVE  Read
<1>1. mem.up \in BOOLEAN /\ mem \in Object
  BY ObjectIs DEF Inv, Types
<1>2. ~mem.up
  BY <1>1
<1>3. CASE \E g \in Graph : AddGraph(g) \/ Refresh(g)
  BY <1>2, <1>3 DEF AddGraph, Refresh, InMemory
<1>4. CASE \E e \in MetaEdge : AddMetaEdge(e)
  BY <1>2, <1>4 DEF AddMetaEdge, InMemory
<1>5. CASE \E x \in XRef : AddXRef(x) \/ RemoveXRef(x) \/ RepositoryRemove(x) \/ DirtyXRef(x)
  BY <1>2, <1>5 DEF AddXRef, RemoveXRef, RepositoryRemove, DirtyXRef, InMemory
<1>6. CASE \E e \in MetaEdge \cup XRef : Mark(e) \/ DrainMark(e)
  BY <1>2, <1>6 DEF Mark, DrainMark, Statement, InMemory
<1>7. CASE (\E g \in Graph : GraphRow(g)) \/ Begin \/ Write \/ Commit \/ Anchor \/ EdgeRows \/ Replay
             \/ Recommit
  BY <1>7 DEF GraphRow, Begin, Write, Commit, Anchor, EdgeRows, Replay, Recommit, Statement
<1>8. CASE XRefsDone \/ MarksDone
  <2>1. \/ mem' = [mem EXCEPT !.dirty = {}]
        \/ mem' = [mem EXCEPT !.soft = mem.soft \ MetaEdge]
        \/ mem' = [mem EXCEPT !.soft = mem.soft \ XRef, !.attr = FALSE]
    BY <1>8 DEF XRefsDone, MarksDone
  <2>2. mem'.up = mem.up
    BY <1>1, <2>1 DEF Object
  <2>3. QED
    BY <2>2
<1>9. CASE Persist \/ ReadFails \/ \E incl, attach \in BOOLEAN : Load(incl, attach)
  BY <1>9 DEF Persist, ReadFails, Load
<1>10. CASE Crash
  BY <1>10 DEF Crash, NoObject
<1>11. QED
  BY <1>3, <1>4, <1>5, <1>6, <1>7, <1>8, <1>9, <1>10 DEF Next

\* No row of an XRef changes without its entry in the log, none is taken out before its
\* row is as it says, and a load leaves what the last entries say (wal.py, entry and recover).
THEOREM PersistenceLogBracketsRows == Spec => LogBracketsRows
<1>1. Inv /\ [Next]_vars =>
        [\A x \in XRef : (x \in db.xrefs) # (x \in db'.xrefs) =>
           \E i \in DOMAIN db.log :
             db.log[i].x = x /\ db.log[i].op = IF x \in db.xrefs THEN "remove" ELSE "add"]_vars
  <2> SUFFICES ASSUME Inv, Next, NEW x \in XRef, (x \in db.xrefs) # (x \in db'.xrefs)
               PROVE  \E i \in DOMAIN db.log :
                        db.log[i].x = x /\ db.log[i].op = IF x \in db.xrefs THEN "remove" ELSE "add"
    OBVIOUS
  <2>1. DatabaseOK(db)
    BY DEF Inv, Types
  <2>2. \A e \in ToSet(db.log) : Committed(db, e).xrefs = db.xrefs
    BY <2>1, CommittedIs
  <2>3. PICK e \in ToSet(db.log) : e \in Entries /\ db' = Effect(db, e)
    BY <2>2, RowsFollowLog
  <2>4. /\ e.op = "add" => db'.xrefs = db.xrefs \cup {e.x}
        /\ e.op # "add" => db'.xrefs = db.xrefs \ {e.x}
        /\ e.op \in {"add", "remove"}
    BY <2>1, <2>3, EffectIs DEF Entries
  <2>5. e.x = x /\ e.op = IF x \in db.xrefs THEN "remove" ELSE "add"
    BY <2>4
  <2>6. QED
    BY <2>5 DEF ToSet
<1>2. Inv /\ [Next]_vars =>
        [\A e \in ToSet(db.log) \ ToSet(db'.log) : (e.x \in db'.xrefs) = (e.op = "add")]_vars
  <2> SUFFICES ASSUME Inv, Next, NEW f \in ToSet(db.log) \ ToSet(db'.log)
               PROVE  (f.x \in db'.xrefs) = (f.op = "add")
    OBVIOUS
  <2>1. DatabaseOK(db)
    BY DEF Inv, Types
  <2>2. \A e \in Entries : Effect(db, e).log = db.log
    BY <2>1, EffectIs
  <2>3. PICK e \in ToSet(db.log) : db' = Committed(db, e) /\ Happened(db, e)
    BY <2>2, RowsFollowLog
  <2>4. ToSet(db'.log) = ToSet(db.log) \ {e} /\ db'.xrefs = db.xrefs
    BY <2>1, <2>3, CommittedIs
  <2>5. f = e
    BY <2>4
  <2>6. QED
    BY <2>3, <2>4, <2>5 DEF Happened
<1>3. Inv /\ [Next]_vars =>
        [mem.up # mem'.up /\ mem'.up /\ pc.skipped = {} =>
           \A i \in DOMAIN pc.first :
             (\A j \in DOMAIN pc.first : pc.first[j].x = pc.first[i].x => j <= i) =>
               (pc.first[i].x \in db.xrefs) = (pc.first[i].op = "add")]_vars
  <2> SUFFICES ASSUME Inv, Next, mem.up # mem'.up, mem'.up, pc.skipped = {},
                      NEW i \in DOMAIN pc.first,
                      \A j \in DOMAIN pc.first : pc.first[j].x = pc.first[i].x => j <= i
               PROVE  (pc.first[i].x \in db.xrefs) = (pc.first[i].op = "add")
    OBVIOUS
  <2>1. pc.at = "recover" /\ pc.todo = <<>> /\ Loading
    BY ReadBringsUp DEF Read, Loading
  <2>2. Len(pc.first) \in Nat /\ DOMAIN pc.first = 1 .. Len(pc.first)
    BY <2>1, LoadingIs, LenProperties
  <2>3. Behind = Len(pc.first)
    BY <2>1, <2>2, EmptySeq DEF Behind
  <2>4. LastOf(pc.first, Behind, i)
    BY <2>2, <2>3 DEF LastOf
  <2>5. Happened(db, pc.first[i])
    BY <2>1, <2>2, <2>3, <2>4 DEF Inv, Replayed
  <2>6. QED
    BY <2>5 DEF Happened
<1>4. QED
  BY <1>1, <1>2, <1>3, PersistenceInvariant, PTL
     DEF Spec, LogBracketsRows, WriteAhead, CommittedHasHappened, LastEntryWins

-----------------------------------------------------------------------------
\* A step that leaves the marks as they are, in memory and in the rows.
LEMMA MarksLeftAlone ==
    ASSUME mem'.edges = mem.edges, mem'.xrefs = mem.xrefs, mem'.marked = mem.marked,
           mem'.soft = mem.soft, db'.marked = db.marked
    PROVE  Unsaved(mem', db') \subseteq (Unsaved(mem, db) \ mem.soft) \cup mem'.soft
BY DEF Unsaved

\* A call on the object that gives it an element, takes an XRef from it or sets a mark.
LEMMA ObjectMarks ==
    ASSUME Inv, \/ \E g \in Graph : AddGraph(g)
                \/ \E e \in MetaEdge : AddMetaEdge(e)
                \/ \E x \in XRef : AddXRef(x) \/ RemoveXRef(x)
                \/ \E e \in MetaEdge \cup XRef : Mark(e)
    PROVE  Unsaved(mem', db') \subseteq (Unsaved(mem, db) \ mem.soft) \cup mem'.soft
<1>1. /\ mem \in Object /\ mem.marked \subseteq mem.edges \cup mem.xrefs
      /\ mem.edges \subseteq MetaEdge /\ mem.xrefs \subseteq XRef
      /\ db.marked \subseteq db.edges \cup db.xrefs /\ db.edges \subseteq MetaEdge /\ db.xrefs \subseteq XRef
  BY DEF Inv, Types, ObjectOK, DatabaseOK, Object, Database
<1>2. CASE \E g \in Graph : AddGraph(g)
  <2>1. PICK g \in Graph : mem' = [mem EXCEPT !.graphs = mem.graphs \cup {g}] /\ db' = db
    BY <1>2 DEF AddGraph, InMemory
  <2>2. QED
    BY <1>1, <2>1, MarksLeftAlone DEF Object
<1>3. CASE \E e \in MetaEdge : AddMetaEdge(e)
  <2>1. PICK e \in MetaEdge : /\ mem' = [mem EXCEPT !.edges = mem.edges \cup {e}] /\ db' = db
                              /\ e \notin mem.edges \cup db.edges
    BY <1>3 DEF AddMetaEdge, InMemory
  <2>2. /\ mem'.edges = mem.edges \cup {e} /\ mem'.xrefs = mem.xrefs
        /\ mem'.marked = mem.marked /\ mem'.soft = mem.soft
    BY <1>1, <2>1 DEF Object
  <2>3. e \notin mem.marked /\ e \notin db.marked
    BY <1>1, <2>1, KindsAssumption
  <2>4. QED
    BY <2>1, <2>2, <2>3 DEF Unsaved
<1>4. CASE \E x \in XRef : AddXRef(x)
  <2>1. PICK x \in XRef : AddXRef(x)
    BY <1>4
  <2> DEFINE ds == IF mem.attr THEN mem.dirty \cup {x} ELSE mem.dirty
  <2>2. /\ mem' = [mem EXCEPT !.xrefs = mem.xrefs \cup {x}, !.dirty = ds] /\ db' = db
        /\ x \notin mem.xrefs \cup db.xrefs
    BY <2>1 DEF AddXRef, InMemory
  <2> HIDE DEF ds
  <2>3. /\ mem'.xrefs = mem.xrefs \cup {x} /\ mem'.edges = mem.edges
        /\ mem'.marked = mem.marked /\ mem'.soft = mem.soft
    BY <1>1, <2>2 DEF Object
  <2>4. x \notin mem.marked /\ x \notin db.marked
    BY <1>1, <2>2, KindsAssumption
  <2>5. QED
    BY <2>2, <2>3, <2>4 DEF Unsaved
<1>5. CASE \E x \in XRef : RemoveXRef(x)
  <2>1. PICK x \in XRef :
          /\ mem' = [mem EXCEPT !.xrefs = mem.xrefs \ {x}, !.dirty = mem.dirty \ {x},
                                !.marked = mem.marked \ {x}]
          /\ db' = db
    BY <1>5 DEF RemoveXRef, InMemory
  <2>2. /\ mem'.xrefs = mem.xrefs \ {x} /\ mem'.edges = mem.edges
        /\ mem'.marked = mem.marked \ {x} /\ mem'.soft = mem.soft
    BY <1>1, <2>1 DEF Object
  <2>3. x \notin mem.edges
    BY <1>1, KindsAssumption
  <2>4. QED
    BY <2>1, <2>2, <2>3 DEF Unsaved
<1>6. CASE \E e \in MetaEdge \cup XRef : Mark(e)
  <2>1. PICK e \in MetaEdge \cup XRef :
          /\ mem' = [mem EXCEPT !.marked = IF e \in mem.marked THEN mem.marked \ {e}
                                                               ELSE mem.marked \cup {e},
                                !.soft = mem.soft \cup {e}]
          /\ db' = db
    BY <1>6 DEF Mark, InMemory
  <2> DEFINE ms == IF e \in mem.marked THEN mem.marked \ {e} ELSE mem.marked \cup {e}
  <2>2. \A f : f # e => (f \in ms <=> f \in mem.marked)
    OBVIOUS
  <2> HIDE DEF ms
  <2>3. mem' = [mem EXCEPT !.marked = ms, !.soft = mem.soft \cup {e}]
    BY <2>1 DEF ms
  <2>4. /\ mem'.xrefs = mem.xrefs /\ mem'.edges = mem.edges
        /\ mem'.marked = ms /\ mem'.soft = mem.soft \cup {e}
    BY <1>1, <2>3 DEF Object
  <2>5. QED
    BY <2>1, <2>2, <2>4 DEF Unsaved
<1>7. QED
  BY <1>2, <1>3, <1>4, <1>5, <1>6

\* A statement that reaches the rows of XRefs or their marks.
LEMMA RowMarks ==
    ASSUME Inv, Write \/ Replay \/ \E e \in MetaEdge \cup XRef : DrainMark(e)
    PROVE  Unsaved(mem', db') \subseteq (Unsaved(mem, db) \ mem.soft) \cup mem'.soft
<1>1. /\ Types /\ DatabaseOK(db)
      /\ mem.edges \subseteq MetaEdge /\ mem.xrefs \subseteq XRef
  BY DEF Inv, Types, ObjectOK, Object
<1>2. SUFFICES mem' = mem /\ Unsaved(mem, db') \subseteq Unsaved(mem, db)
  BY DEF Unsaved
<1>3. CASE Write
  <2>1. pc.at = "write" /\ mem' = mem /\ db' \in {db, Effect(db, pc.entry)}
    BY <1>3 DEF Write, Statement
  <2>2. pc.entry \in Entries /\ (pc.entry.op = "remove" => pc.entry.x \notin mem.xrefs)
    BY <2>1, <1>1, PlaceIs DEF Inv, Types, Logged, Logging
  <2>3. /\ pc.entry.op = "add" => Effect(db, pc.entry).marked = db.marked
        /\ pc.entry.op # "add" => Effect(db, pc.entry).marked = db.marked \ {pc.entry.x}
    BY <1>1, <2>2, EffectIs
  <2>4. pc.entry.op # "add" => pc.entry.x \notin mem.edges \cup mem.xrefs
    BY <1>1, <2>2, KindsAssumption DEF Entries
  <2>5. \A f \in mem.edges \cup mem.xrefs : f \in db'.marked <=> f \in db.marked
    BY <2>1, <2>3, <2>4
  <2>6. QED
    BY <2>1, <2>5 DEF Unsaved
<1>4. CASE Replay
  <2>1. pc.at = "recover" /\ mem' = mem
    BY <1>4 DEF Replay, Statement
  <2>2. Loading
    BY <2>1 DEF Loading
  <2>3. mem.edges = {} /\ mem.xrefs = {}
    BY <2>2, LoadingIs
  <2>4. QED
    BY <2>1, <2>3 DEF Unsaved
<1>5. CASE \E e \in MetaEdge \cup XRef : DrainMark(e)
  <2>1. PICK e \in MetaEdge \cup XRef : mem' = mem /\ db' \in {db, Synced(db, e)}
    BY <1>5 DEF DrainMark, Statement
  <2>2. /\ \A f : f # e => (f \in Synced(db, e).marked <=> f \in db.marked)
        /\ e \in db.edges \cup db.xrefs => (e \in Synced(db, e).marked <=> e \in mem.marked)
    BY <1>1, SyncedIs
  <2>3. e \notin db.edges \cup db.xrefs => Synced(db, e) = db
    BY DEF Synced
  <2>4. CASE db' = db
    BY <2>1, <2>4
  <2>5. CASE db' = Synced(db, e) /\ e \in db.edges \cup db.xrefs
    BY <2>1, <2>2, <2>5 DEF Unsaved
  <2>6. QED
    BY <2>1, <2>3, <2>4, <2>5
<1>6. QED
  BY <1>3, <1>4, <1>5

\* The end of a bucket, of which every mark is in its row.
LEMMA BucketMarks ==
    ASSUME Inv, MarksDone
    PROVE  Unsaved(mem', db') \subseteq (Unsaved(mem, db) \ mem.soft) \cup mem'.soft
<1>1. mem \in Object /\ mem.soft \subseteq MetaEdge \cup XRef
  BY ObjectIs DEF Inv, Types
<1>2. /\ pc.at = "marks" /\ pc.todo = {} /\ db' = db
      /\ \/ pc.bucket = "edges" /\ mem' = [mem EXCEPT !.soft = mem.soft \ MetaEdge]
         \/ pc.bucket # "edges" /\ mem' = [mem EXCEPT !.soft = mem.soft \ XRef, !.attr = FALSE]
  BY DEF MarksDone
<1> DEFINE Kind == IF pc.bucket = "edges" THEN MetaEdge ELSE XRef
<1>3. \A e \in mem.soft : e \in Kind => e \notin Unsaved(mem, db)
  BY <1>2 DEF Inv, Saved
<1>4. /\ mem'.edges = mem.edges /\ mem'.xrefs = mem.xrefs /\ mem'.marked = mem.marked
      /\ mem'.soft = mem.soft \ Kind
  <2>1. CASE pc.bucket = "edges"
    BY <1>1, <1>2, <2>1 DEF Object
  <2>2. CASE pc.bucket # "edges"
    <3> DEFINE m == [mem EXCEPT !.soft = mem.soft \ XRef]
    <3>1. mem' = [m EXCEPT !.attr = FALSE]
      BY <1>1, <1>2, <2>2 DEF Object
    <3>2. /\ m.edges = mem.edges /\ m.xrefs = mem.xrefs /\ m.marked = mem.marked
          /\ m.soft = mem.soft \ XRef /\ m \in Object
      BY <1>1 DEF Object
    <3> HIDE DEF m
    <3>3. QED
      BY <2>2, <3>1, <3>2 DEF Object
  <2>3. QED
    BY <2>1, <2>2
<1> HIDE DEF Kind
<1>5. Unsaved(mem', db') = Unsaved(mem, db)
  BY <1>2, <1>4 DEF Unsaved
<1>6. QED
  BY <1>3, <1>4, <1>5

\* A persist that returns has saved what the object holds, and no step but a refresh
\* forgets a mark that is not in its row (metagraph_repository.py, persist and
\* _drain_soft_delete).
THEOREM PersistenceUnsavedIsRemembered == Spec => UnsavedIsRemembered
<1>1. Inv /\ [Next]_vars =>
        [MarksDone /\ pc.bucket = "xrefs" =>
           /\ mem.graphs \subseteq db.graphs
           /\ mem.edges \subseteq db.edges
           /\ mem.xrefs \ raised \subseteq db.xrefs]_vars
  <2> SUFFICES ASSUME Inv, MarksDone
               PROVE  /\ mem.graphs \subseteq db.graphs
                      /\ mem.edges \subseteq db.edges
                      /\ mem.xrefs \ raised \subseteq db.xrefs
    OBVIOUS
  <2>1. pc.at = "marks"
    BY DEF MarksDone
  <2>2. QED
    BY <2>1 DEF Inv, Saved, HeldIsSavedOrDirty
<1>2. Inv /\ [Next]_vars =>
        [Unsaved(mem', db') \subseteq (Unsaved(mem, db) \ mem.soft) \cup mem'.soft
           \/ \E g \in Graph : Refresh(g)]_vars
  <2> SUFFICES ASSUME Inv, Next, ~ \E g \in Graph : Refresh(g)
               PROVE  Unsaved(mem', db') \subseteq (Unsaved(mem, db) \ mem.soft) \cup mem'.soft
    OBVIOUS
  <2>1. DatabaseOK(db) /\ db \in Database /\ mem \in Object /\ Types
    BY DEF Inv, Types, DatabaseOK, ObjectOK
  <2>2. CASE \/ \E g \in Graph : AddGraph(g)
             \/ \E e \in MetaEdge : AddMetaEdge(e)
             \/ \E x \in XRef : AddXRef(x) \/ RemoveXRef(x)
             \/ \E e \in MetaEdge \cup XRef : Mark(e)
    BY <2>2, ObjectMarks
  <2>3. CASE Write \/ Replay \/ \E e \in MetaEdge \cup XRef : DrainMark(e)
    BY <2>3, RowMarks
  <2>4. CASE MarksDone
    BY <2>4, BucketMarks
  <2>5. CASE XRefsDone
    <3>1. mem' = [mem EXCEPT !.dirty = {}] /\ db' = db
      BY <2>5 DEF XRefsDone
    <3>2. /\ mem'.edges = mem.edges /\ mem'.xrefs = mem.xrefs
          /\ mem'.marked = mem.marked /\ mem'.soft = mem.soft
      BY <2>1, <3>1 DEF Object
    <3>3. QED
      BY <3>1, <3>2, MarksLeftAlone
  <2>6. CASE (\E g \in Graph : GraphRow(g)) \/ Anchor \/ EdgeRows \/ Begin
    <3>1. /\ mem' = mem
          /\ \/ db' = db
             \/ \E g \in Graph : db' = [db EXCEPT !.graphs = db.graphs \cup {g}]
             \/ db' = [db EXCEPT !.anchor = TRUE]
             \/ db' = [db EXCEPT !.edges = db.edges \cup {e \in mem.edges : Ends[e] \subseteq db.graphs}]
             \/ \E e : db' = [db EXCEPT !.log = Append(db.log, e)]
      BY <2>6 DEF GraphRow, Anchor, EdgeRows, Begin, Statement
    <3>2. db'.marked = db.marked
      BY <2>1, <3>1 DEF Database
    <3>3. QED
      BY <3>1, <3>2, MarksLeftAlone
  <2>7. CASE Commit
    <3>1. pc.at = "commit" /\ mem' = mem /\ db' \in {db, Committed(db, pc.entry)}
      BY <2>7 DEF Commit, Statement
    <3>2. pc.entry \in ToSet(db.log)
      BY <3>1 DEF Inv, Logged, Logging
    <3>3. Committed(db, pc.entry).marked = db.marked
      BY <2>1, <3>2, CommittedIs
    <3>4. db'.marked = db.marked
      BY <3>1, <3>3
    <3>5. QED
      BY <3>1, <3>4, MarksLeftAlone
  <2>8. CASE Recommit
    <3>1. pc.at = "recommit" /\ mem' = mem
      BY <2>8 DEF Recommit, Statement
    <3>2. Loading
      BY <3>1 DEF Loading
    <3>3. mem.edges = {} /\ mem.xrefs = {}
      BY <3>2, LoadingIs
    <3>4. QED
      BY <3>1, <3>3 DEF Unsaved
  <2>9. CASE \/ \E x \in XRef : RepositoryRemove(x) \/ DirtyXRef(x)
             \/ Persist \/ ReadFails
             \/ \E incl, attach \in BOOLEAN : Load(incl, attach)
    <3>1. mem' = mem /\ db' = db
      BY <2>9 DEF RepositoryRemove, DirtyXRef, Persist, ReadFails, Load
    <3>2. QED
      BY <3>1, MarksLeftAlone
  <2>10. CASE Read
    <3> DEFINE xs == XRefsRead(pc.attach, {})
               es == EdgesRead(pc.incl)
    <3>1. /\ db' = db
          /\ mem' = [NoObject EXCEPT !.up = TRUE, !.graphs = db.graphs, !.edges = es, !.xrefs = xs,
                                     !.marked = db.marked \cap (es \cup xs), !.attached = pc.attach]
      BY <2>10 DEF Read
    <3> HIDE DEF xs, es
    <3>2. mem'.edges = es /\ mem'.xrefs = xs /\ mem'.marked = db.marked \cap (es \cup xs)
      BY <3>1 DEF NoObject
    <3>3. QED
      BY <3>1, <3>2 DEF Unsaved
  <2>11. CASE Crash
    BY <2>11 DEF Crash, NoObject, Unsaved
  <2>12. QED
    BY <2>2, <2>3, <2>4, <2>5, <2>6, <2>7, <2>8, <2>9, <2>10, <2>11 DEF Next
<1>3. QED
  BY <1>1, <1>2, PersistenceInvariant, PTL
     DEF Spec, UnsavedIsRemembered, PersistSavesAll, MarksAreDirty
=============================================================================

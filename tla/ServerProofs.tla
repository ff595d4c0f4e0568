---------------------------- MODULE ServerProofs ----------------------------
(***************************************************************************)
(* Sessions for any users, commands, time limits and bounds.               *)
(*                                                                         *)
(* TypeOK is not inductive: a command writes what it has read before, so   *)
(* the invariant has to say what that is (Read) and how the past it was    *)
(* true of bounds the present (Command).  Evolves is what every step does  *)
(* to the sessions seen from the other commands; it keeps theirs.  The     *)
(* four properties of the run follow from that, RowsOf and UsersOf.        *)
(*                                                                         *)
(* And skills for any bundles, nodes and processes, in the second half.    *)
(* RosterIsSound is not inductive either: a command judges by what it has  *)
(* read and writes later.  The invariant keeps, for each record there ever *)
(* was, a Snapshot its author can have read and by which it was Allowed;   *)
(* that a Snapshot is Met then follows by induction on its time, from the  *)
(* records and their authors alone.                                        *)
(***************************************************************************)
EXTENDS Sessions, Skills, FiniteSetTheorems, WellFoundedInduction, TLAPS

Row == [user : User, created : Nat, seen : Nat, used : Nat, password : Nat, raced : BOOLEAN]

(* What a command keeps between two of its steps.                          *)
Read ==
  [at : {"idle", "admin"}]
    \cup [at : {"login", "own"}, user : User, password : Nat]
    \cup [at : {"check", "expire", "mint"}, user : User, password : Nat, ids : SUBSET Nat]
    \cup [at : {"found"}, id : Nat, row : Row, role : {"user", "admin"}]
    \cup [at : {"drop", "logout"}, id : Nat]
    \cup [at : {"slide"}, id : Nat, time : Nat, role : {"user", "admin"}]
    \cup [at : {"reset"}, user : User]
    \cup [at : {"kill", "rotate"}, user : User, ids : SUBSET Nat, since : Nat]

(* What it has read is true of the past and bounds what is there now.      *)
Command(p) ==
  /\ pc[p] \in Read
  /\ pc[p].at = "found" =>
       /\ pc[p].id \in 1 .. minted /\ pc[p].row.created <= now
       /\ pc[p].id \in DOMAIN sessions =>
            /\ sessions[pc[p].id].created = pc[p].row.created
            /\ pc[p].row.seen <= sessions[pc[p].id].used
  /\ pc[p].at = "slide" =>
       /\ pc[p].id \in 1 .. minted /\ pc[p].time <= now
       /\ pc[p].id \in DOMAIN sessions =>
            /\ sessions[pc[p].id].created <= pc[p].time
            /\ pc[p].time < sessions[pc[p].id].created + Absolute
            /\ pc[p].time < sessions[pc[p].id].used + Sliding
  /\ pc[p].at = "logout" => pc[p].id \in 1 .. minted
  /\ pc[p].at \in {"kill", "rotate"} =>
       /\ pc[p].since <= minted
       /\ pc[p].ids \subseteq 1 .. minted
       /\ \A i \in SessionsOf(pc[p].user) : i <= pc[p].since => i \in pc[p].ids

Commands == calls \in Nat /\ \A p \in Proc : Command(p)

Types == TypeOK /\ Commands

(* A step keeps rows, deletes some, makes some seen later, or adds one.    *)
Evolves ==
  /\ minted' \in {minted, minted + 1}
  /\ now' \in {now, now + 1}
  /\ \A i \in DOMAIN sessions' :
       \/ /\ i \in DOMAIN sessions /\ sessions'[i] \in Row
          /\ sessions'[i].user = sessions[i].user
          /\ sessions'[i].created = sessions[i].created
          /\ sessions[i].used <= sessions'[i].used
       \/ i = minted + 1 /\ minted' = minted + 1

LEMMA TypesGive ==
  ASSUME TypeOK
  PROVE  /\ minted \in Nat /\ now \in Nat
         /\ \A i \in DOMAIN sessions :
              /\ i \in Nat /\ i <= minted
              /\ sessions[i] \in Row
              /\ {sessions[i].created, sessions[i].seen, sessions[i].used} \subseteq Nat
              /\ sessions[i].user \in DOMAIN users
              /\ sessions[i].created <= sessions[i].seen
              /\ sessions[i].seen <= sessions[i].used
              /\ sessions[i].used <= now
         /\ \A u \in DOMAIN users :
              /\ u \in User
              /\ users[u] \in [role : {"user", "admin"}, disabled : BOOLEAN, password : Nat]
  BY BoundsAssumption DEF TypeOK, Row

LEMMA OthersKeep ==
  ASSUME TypeOK, Evolves, NEW q \in Proc, Command(q), pc'[q] = pc[q]
  PROVE  Command(q)'
  <1>1. /\ minted \in Nat /\ now \in Nat
        /\ \A i \in DOMAIN sessions : i \in Nat /\ i <= minted /\ sessions[i] \in Row
    BY TypesGive
  <1>2. pc[q] \in Read
    BY DEF Command
  <1>3. CASE pc[q].at = "found"
    <2>1. pc[q].id \in 1 .. minted' /\ pc[q].row.created <= now' /\ pc[q].row \in Row
      BY <1>1, <1>2, <1>3 DEF Command, Evolves, Read, Row
    <2>2. ASSUME pc[q].id \in DOMAIN sessions'
          PROVE  /\ sessions'[pc[q].id].created = pc[q].row.created
                 /\ pc[q].row.seen <= sessions'[pc[q].id].used
      BY <2>2, <1>1, <1>2, <1>3, <2>1 DEF Command, Evolves, Row
    <2> QED
      BY <1>2, <1>3, <2>1, <2>2 DEF Command
  <1>4. CASE pc[q].at = "slide"
    <2>1. pc[q].time \in Nat /\ pc[q].time <= now' /\ Absolute \in Nat /\ Sliding \in Nat
      BY <1>1, <1>2, <1>4, BoundsAssumption DEF Command, Evolves, Read
    <2>2. ASSUME pc[q].id \in DOMAIN sessions'
          PROVE  /\ sessions'[pc[q].id].created <= pc[q].time
                 /\ pc[q].time < sessions'[pc[q].id].created + Absolute
                 /\ pc[q].time < sessions'[pc[q].id].used + Sliding
      <3>1. pc[q].id \in 1 .. minted
        BY <1>4 DEF Command
      <3>2. /\ pc[q].id \in DOMAIN sessions /\ sessions'[pc[q].id] \in Row
            /\ sessions'[pc[q].id].created = sessions[pc[q].id].created
            /\ sessions[pc[q].id].used <= sessions'[pc[q].id].used
        BY <2>2, <3>1, <1>1 DEF Evolves
      <3> QED
        BY <1>1, <1>4, <2>1, <3>2 DEF Command, Row
    <2> QED
      BY <1>1, <1>2, <1>4, <2>1, <2>2 DEF Command, Evolves
  <1>5. CASE pc[q].at \in {"kill", "rotate"}
    BY <1>1, <1>2, <1>5 DEF Command, Evolves, Read, SessionsOf
  <1>6. CASE pc[q].at = "logout"
    BY <1>1, <1>2, <1>6 DEF Command, Evolves, Read
  <1>7. QED
    BY <1>2, <1>3, <1>4, <1>5, <1>6 DEF Command

Same(p) == DOMAIN pc' = Proc /\ \A q \in Proc \ {p} : pc'[q] = pc[q]

(* What is to be shown of a step of one command.                           *)
Keeps(p) == TypeOK' /\ Evolves /\ Same(p) /\ Command(p)' /\ calls' \in Nat

LEMMA GotoIs ==
  ASSUME TypeOK, NEW p \in Proc, NEW next, Goto(p, next)
  PROVE  Same(p) /\ pc'[p] = next
  BY DEF TypeOK, Goto, Same

LEMMA ReadOnlyKeeps ==
  ASSUME TypeOK, ReadOnly, DOMAIN pc' = Proc
  PROVE  TypeOK' /\ Evolves
  <1>1. TypeOK'
    BY DEF TypeOK, ReadOnly
  <1>2. QED
    BY <1>1, TypesGive DEF ReadOnly, Evolves

LEMMA WithoutIs ==
  ASSUME TypeOK, NEW X, sessions' = Without(X)
  PROVE  /\ DOMAIN sessions' = DOMAIN sessions \ X
         /\ \A i \in DOMAIN sessions' : sessions'[i] = sessions[i]
  BY DEF Without, Restrict

(* Rows go, and those left have their user.                                *)
LEMMA DeletionKeeps ==
  ASSUME TypeOK, NEW X, sessions' = Without(X), UNCHANGED <<minted, now>>,
         DOMAIN pc' = Proc, audited' \subseteq 1 .. minted, DOMAIN users' \subseteq User,
         \A u \in DOMAIN users' :
           users'[u] \in [role : {"user", "admin"}, disabled : BOOLEAN, password : Nat],
         \A i \in DOMAIN sessions \ X : sessions[i].user \in DOMAIN users'
  PROVE  TypeOK' /\ Evolves
  <1>1. /\ DOMAIN sessions' = DOMAIN sessions \ X
        /\ \A i \in DOMAIN sessions' : sessions'[i] = sessions[i]
    BY WithoutIs
  <1>2. TypeOK'
    BY <1>1 DEF TypeOK
  <1>3. QED
    <2>1. /\ minted \in Nat /\ now \in Nat
          /\ \A i \in DOMAIN sessions : sessions[i] \in Row /\ sessions[i].used \in Nat
      BY TypesGive
    <2>2. \A i \in DOMAIN sessions' : /\ i \in DOMAIN sessions /\ sessions'[i] \in Row
                                      /\ sessions'[i] = sessions[i]
      BY <1>1, <2>1
    <2> QED
      BY <1>2, <2>1, <2>2 DEF Evolves

-----------------------------------------------------------------------------
(* login                                                                   *)
LEMMA VerifyKeeps ==
  ASSUME Types, NEW p \in Proc, NEW u \in User, NEW then \in {"login", "own"},
         Verify(p, u, then)
  PROVE  Keeps(p)
  <1> DEFINE next == [at |-> then, user |-> u, password |-> users[u].password]
  <1>1. Same(p) /\ pc'[p] = next
    BY GotoIs DEF Verify, Types
  <1>2. next \in Read
    BY TypesGive DEF Types, Verify, Read
  <1>3. Command(p)'
    BY <1>1, <1>2 DEF Command
  <1>4. TypeOK' /\ Evolves
    BY <1>1, ReadOnlyKeeps DEF Verify, Types, Same
  <1>5. QED
    BY <1>1, <1>3, <1>4 DEF Keeps, Verify, Start, Types, Commands

LEMMA SelectLapsedKeeps ==
  ASSUME Types, NEW p \in Proc, SelectLapsed(p)
  PROVE  Keeps(p)
  <1> DEFINE ids == {i \in SessionsOf(pc[p].user) : Lapsed(sessions[i], now)}
             next == [at |-> IF ids = {} THEN "check" ELSE "expire", user |-> pc[p].user,
                      password |-> pc[p].password, ids |-> ids]
  <1>1. Same(p) /\ pc'[p] = next
    BY GotoIs DEF SelectLapsed, Types
  <1>2. next \in Read
    <2>1. pc[p] \in Read /\ pc[p].at = "login"
      BY DEF Types, Commands, Command, SelectLapsed
    <2>2. pc[p].user \in User /\ pc[p].password \in Nat
      BY <2>1 DEF Read
    <2>3. ids \in SUBSET Nat
      BY TypesGive DEF Types, SessionsOf
    <2> HIDE DEF ids
    <2> QED
      BY <2>2, <2>3 DEF Read
  <1>3. Command(p)'
    BY <1>1, <1>2 DEF Command
  <1>4. TypeOK' /\ Evolves
    BY <1>1, ReadOnlyKeeps DEF SelectLapsed, Types, Same
  <1>5. QED
    BY <1>1, <1>3, <1>4 DEF Keeps, SelectLapsed, Types, Commands

LEMMA SelectExistingKeeps ==
  ASSUME Types, NEW p \in Proc, SelectExisting(p)
  PROVE  Keeps(p)
  <1> DEFINE next == IF SessionsOf(pc[p].user) = {} THEN [pc[p] EXCEPT !.at = "mint"] ELSE Idle
  <1>1. Same(p) /\ pc'[p] = next
    BY GotoIs DEF SelectExisting, Types
  <1>2. next \in Read /\ next.at \in {"mint", "idle"}
    <2>1. pc[p] \in Read /\ pc[p].at = "check"
      BY DEF Types, Commands, Command, SelectExisting
    <2>2. pc[p] \in [at : {"check", "expire", "mint"}, user : User, password : Nat, ids : SUBSET Nat]
      BY <2>1 DEF Read
    <2>3. [pc[p] EXCEPT !.at = "mint"] \in Read /\ [pc[p] EXCEPT !.at = "mint"].at = "mint"
      BY <2>2 DEF Read
    <2>4. Idle \in Read /\ Idle.at = "idle"
      BY DEF Read, Idle
    <2> QED
      BY <2>3, <2>4
  <1>3. Command(p)'
    BY <1>1, <1>2 DEF Command
  <1>4. TypeOK' /\ Evolves
    BY <1>1, ReadOnlyKeeps DEF SelectExisting, Types, Same
  <1>5. QED
    BY <1>1, <1>3, <1>4 DEF Keeps, SelectExisting, Types, Commands

(* INSERT over the rows that are left.                                     *)
LEMMA InsertKeeps ==
  ASSUME Types, NEW p \in Proc, NEW left, pc[p].at \in {"mint", "expire"},
         DOMAIN left \subseteq DOMAIN sessions,
         \A i \in DOMAIN left : left[i] = sessions[i],
         Insert(p, left)
  PROVE  /\ Same(p) /\ pc'[p] = Idle
         /\ pc[p].user \in DOMAIN users => TypeOK' /\ Evolves
         /\ pc[p].user \in DOMAIN users =>
              /\ minted' = minted + 1
              /\ DOMAIN sessions' = DOMAIN left \cup {minted + 1}
              /\ sessions'[minted + 1].user = pc[p].user
              /\ sessions'[minted + 1].password = pc[p].password
              /\ ~sessions'[minted + 1].raced =>
                   ~users[pc[p].user].disabled /\ users[pc[p].user].password = pc[p].password
              /\ \A i \in DOMAIN left : sessions'[i] = sessions[i]
         /\ pc[p].user \notin DOMAIN users => UNCHANGED <<minted, sessions>>
  <1> DEFINE u == pc[p].user
             new == [user |-> u, created |-> now, seen |-> now, used |-> now,
                     password |-> pc[p].password,
                     raced |-> users[u].disabled \/ users[u].password # pc[p].password]
  <1>1. Same(p) /\ pc'[p] = Idle
    BY GotoIs DEF Insert, Types
  <1>2. pc[p].user \in User /\ pc[p].password \in Nat
    BY DEF Types, Commands, Command, Read
  <1>4. CASE u \in DOMAIN users
    <2>1. /\ minted < MaxSessions /\ minted' = minted + 1
          /\ sessions' = [i \in DOMAIN left \cup {minted + 1} |->
                            IF i \in DOMAIN left THEN left[i] ELSE new]
          /\ UNCHANGED <<users, audited, now, calls>>
      BY <1>4 DEF Insert
    <2>2. minted \in Nat /\ now \in Nat /\ minted + 1 \notin DOMAIN sessions
      BY TypesGive DEF Types
    <2>3. /\ new \in [user : User, created : 0 .. now, seen : 0 .. now,
                      used : 0 .. now, password : Nat, raced : BOOLEAN]
          /\ new.user = u /\ new.created <= new.seen /\ new.seen <= new.used
          /\ new.password = pc[p].password
      BY <1>2, <2>2
    <2>4. ~new.raced => ~users[u].disabled /\ users[u].password = pc[p].password
      OBVIOUS
    <2> HIDE DEF new
    <2>5. /\ DOMAIN sessions' = DOMAIN left \cup {minted + 1}
          /\ sessions'[minted + 1] = new
          /\ \A i \in DOMAIN left : sessions'[i] = sessions[i]
      BY <2>1, <2>2
    <2>6. TypeOK'
      BY <1>1, <1>4, <2>1, <2>2, <2>3, <2>5, BoundsAssumption DEF TypeOK, Types, Same
    <2>7. Evolves
      <3>1. \A i \in DOMAIN sessions : sessions[i] \in Row /\ sessions[i].used \in Nat
        BY TypesGive DEF Types
      <3>2. \A i \in DOMAIN sessions' \ {minted + 1} :
              i \in DOMAIN sessions /\ sessions'[i] = sessions[i]
        BY <2>5
      <3> QED
        BY <2>1, <3>1, <3>2, <2>2 DEF Evolves
    <2> QED
      BY <1>1, <1>4, <2>1, <2>3, <2>4, <2>5, <2>6, <2>7
  <1>5. CASE u \notin DOMAIN users
    BY <1>1, <1>5 DEF Insert
  <1>6. QED
    BY <1>4, <1>5

LEMMA IdleCommand ==
  ASSUME NEW p \in Proc, pc'[p] = Idle
  PROVE  Command(p)'
  BY DEF Command, Read, Idle

LEMMA MintKeeps ==
  ASSUME Types, NEW p \in Proc, Mint(p)
  PROVE  Keeps(p)
  <1>1. pc[p].at = "mint" /\ Insert(p, sessions)
    BY DEF Mint
  <1>2. CASE pc[p].user \in DOMAIN users
    BY <1>1, <1>2, InsertKeeps, IdleCommand DEF Mint, Keeps, Insert, Types, Commands
  <1>3. CASE pc[p].user \notin DOMAIN users
    <2>0. Same(p) /\ pc'[p] = Idle /\ UNCHANGED <<minted, sessions>>
      BY <1>1, <1>3, GotoIs DEF Insert, Types
    <2>1. ReadOnly /\ calls' = calls
      BY <1>1, <2>0 DEF Insert, ReadOnly
    <2> QED
      BY <2>0, <2>1, ReadOnlyKeeps, IdleCommand DEF Keeps, Types, Commands, Same
  <1>4. QED
    BY <1>2, <1>3

LEMMA ExpireAndMintKeeps ==
  ASSUME Types, NEW p \in Proc, ExpireAndMint(p)
  PROVE  Keeps(p)
  <1> DEFINE left == Without(pc[p].ids)
  <1>1. pc[p].at = "expire"
    BY DEF ExpireAndMint
  <1>2. DOMAIN left = DOMAIN sessions \ pc[p].ids /\ \A i \in DOMAIN left : left[i] = sessions[i]
    BY DEF Without, Restrict
  <1>3. CASE Insert(p, left)
    <2> HIDE DEF left
    <2>1. CASE pc[p].user \in DOMAIN users
      BY <1>1, <1>2, <1>3, <2>1, InsertKeeps, IdleCommand DEF Keeps, Insert, Types, Commands
    <2>2. CASE pc[p].user \notin DOMAIN users
      <3>1. Same(p) /\ pc'[p] = Idle /\ UNCHANGED <<minted, sessions>>
        BY <1>3, <2>2, GotoIs DEF Insert, Types
      <3>2. ReadOnly /\ calls' = calls
        BY <1>3, <3>1 DEF Insert, ReadOnly
      <3> QED
        BY <3>1, <3>2, ReadOnlyKeeps, IdleCommand DEF Keeps, Types, Commands, Same
    <2> QED
      BY <2>1, <2>2
  <1>4. CASE /\ sessions' = left /\ Goto(p, Idle)
             /\ UNCHANGED <<users, audited, minted, now, calls>>
    <2>1. Same(p) /\ pc'[p] = Idle
      BY <1>4, GotoIs DEF Types
    <2>2. TypeOK' /\ Evolves
      BY <1>4, <2>1, DeletionKeeps, TypesGive DEF Types, Same, TypeOK
    <2> QED
      BY <1>4, <2>1, <2>2, IdleCommand DEF Keeps, Types, Commands
  <1>5. QED
    BY <1>3, <1>4 DEF ExpireAndMint

-----------------------------------------------------------------------------
(* session_from_token                                                      *)
LEMMA SelectTokenKeeps ==
  ASSUME Types, NEW p \in Proc, NEW i \in Ids, SelectToken(p, i)
  PROVE  Keeps(p)
  <1> DEFINE next == [at |-> "found", id |-> i, row |-> sessions[i],
                      role |-> users[sessions[i].user].role]
  <1>1. Same(p) /\ pc'[p] = next
    BY GotoIs DEF SelectToken, Types
  <1>2. /\ i \in 1 .. minted /\ sessions[i] \in Row /\ sessions[i].created <= now
        /\ sessions[i].seen <= sessions[i].used
        /\ users[sessions[i].user].role \in {"user", "admin"}
    <2>1. i \in DOMAIN sessions /\ i \in Nat /\ i >= 1 /\ i <= minted /\ minted \in Nat
      BY TypesGive DEF SelectToken, Types, TypeOK
    <2> QED
      BY <2>1, TypesGive DEF Types
  <1>3. next \in Read
    BY <1>2 DEF Read
  <1>4. Command(p)'
    BY <1>1, <1>2, <1>3 DEF Command, SelectToken, ReadOnly
  <1>5. TypeOK' /\ Evolves
    BY <1>1, ReadOnlyKeeps DEF SelectToken, Types, Same
  <1>6. QED
    BY <1>1, <1>4, <1>5 DEF Keeps, SelectToken, Start, Types, Commands

LEMMA ClassifyKeeps ==
  ASSUME Types, NEW p \in Proc, Classify(p)
  PROVE  Keeps(p)
  <1> DEFINE row == pc[p].row
             drop == [at |-> "drop", id |-> pc[p].id]
             slide == [at |-> "slide", id |-> pc[p].id, time |-> now, role |-> pc[p].role]
  <1>1. Same(p) /\ pc'[p] = IF Lapsed(row, now) THEN drop ELSE slide
    BY GotoIs DEF Classify, Types
  <1>2. /\ pc[p].id \in 1 .. minted /\ minted \in Nat /\ now \in Nat
        /\ row \in Row /\ row.created \in Nat /\ row.seen \in Nat /\ row.created <= now
        /\ pc[p].role \in {"user", "admin"}
        /\ pc[p].id \in DOMAIN sessions =>
             /\ sessions[pc[p].id].created = row.created
             /\ row.seen <= sessions[pc[p].id].used
             /\ sessions[pc[p].id].used \in Nat
    BY TypesGive DEF Types, Commands, Command, Classify, Read, Row
  <1>3. drop \in Read /\ slide \in Read
    BY <1>2 DEF Read
  <1>4. Command(p)'
    <2>1. CASE Lapsed(row, now)
      BY <1>1, <1>3, <2>1 DEF Command
    <2>2. CASE ~Lapsed(row, now)
      <3>1. now < row.created + Absolute /\ now < row.seen + Sliding
        BY <1>2, <2>2, BoundsAssumption DEF Lapsed
      <3>2. pc[p].id \in DOMAIN sessions =>
              /\ sessions[pc[p].id].created <= now
              /\ now < sessions[pc[p].id].created + Absolute
              /\ now < sessions[pc[p].id].used + Sliding
        BY <1>2, <3>1, BoundsAssumption
      <3> QED
        BY <1>1, <1>2, <1>3, <2>2, <3>2 DEF Command, Classify, ReadOnly
    <2> QED
      BY <2>1, <2>2
  <1>5. TypeOK' /\ Evolves
    BY <1>1, ReadOnlyKeeps DEF Classify, Types, Same
  <1>6. QED
    BY <1>1, <1>4, <1>5 DEF Keeps, Classify, Types, Commands

LEMMA DropLapsedKeeps ==
  ASSUME Types, NEW p \in Proc, DropLapsed(p)
  PROVE  Keeps(p)
  <1>1. Same(p) /\ pc'[p] = Idle
    BY GotoIs DEF DropLapsed, Types
  <1>2. TypeOK' /\ Evolves
    BY <1>1, DeletionKeeps, TypesGive DEF DropLapsed, Types, Same, TypeOK
  <1>3. QED
    BY <1>1, <1>2, IdleCommand DEF Keeps, DropLapsed, Types, Commands

(* The one step that changes a row.                                        *)
LEMMA SlideIs ==
  ASSUME Types, NEW p \in Proc, Slide(p)
  PROVE  /\ DOMAIN sessions' = DOMAIN sessions
         /\ \A i \in DOMAIN sessions \ {pc[p].id} : sessions'[i] = sessions[i]
         /\ pc[p].id \in DOMAIN sessions =>
              LET old == sessions[pc[p].id]
                  new == sessions'[pc[p].id] IN
              /\ new \in [user : User, created : 0 .. now, seen : 0 .. now,
                          used : 0 .. now, password : Nat, raced : BOOLEAN]
              /\ new.user = old.user /\ new.created = old.created
              /\ new.password = old.password /\ new.raced = old.raced
              /\ new.created <= new.seen /\ new.seen <= new.used /\ old.used <= new.used
              /\ new \in Row
  <1> DEFINE id == pc[p].id
             time == pc[p].time
  <1>1. /\ DOMAIN sessions' = DOMAIN sessions
        /\ \A i \in DOMAIN sessions \ {id} : sessions'[i] = sessions[i]
        /\ id \in DOMAIN sessions =>
             sessions'[id] = [sessions[id] EXCEPT !.seen = time,
                                                  !.used = IF @ < time THEN time ELSE @]
    BY DEF Slide
  <1>2. ASSUME id \in DOMAIN sessions
        PROVE  /\ sessions[id] \in [user : User, created : 0 .. now, seen : 0 .. now,
                                    used : 0 .. now, password : Nat, raced : BOOLEAN]
               /\ now \in Nat /\ time \in Nat
               /\ sessions[id].created <= time /\ time <= now
    <2>1. pc[p] \in Read /\ pc[p].at = "slide" /\ Command(p)
      BY DEF Types, Commands, Command, Slide
    <2>2. time \in Nat
      BY <2>1 DEF Read
    <2> QED
      BY <1>2, <2>1, <2>2 DEF Types, TypeOK, Command
  <1>3. ASSUME id \in DOMAIN sessions,
               NEW old, old = sessions[id], NEW new, new = sessions'[id]
        PROVE  /\ new \in [user : User, created : 0 .. now, seen : 0 .. now,
                          used : 0 .. now, password : Nat, raced : BOOLEAN]
               /\ new.user = old.user /\ new.created = old.created
               /\ new.password = old.password /\ new.raced = old.raced
               /\ new.created <= new.seen /\ new.seen <= new.used /\ old.used <= new.used
               /\ new \in Row
    <2> DEFINE t == time
               latest == IF old.used < t THEN t ELSE old.used
    <2>1. /\ old \in [user : User, created : 0 .. now, seen : 0 .. now,
                      used : 0 .. now, password : Nat, raced : BOOLEAN]
          /\ now \in Nat /\ t \in Nat /\ old.created <= t /\ t <= now
      BY <1>2, <1>3
    <2>2. new = [old EXCEPT !.seen = t, !.used = latest]
      BY <1>1, <1>3
    <2>3. /\ latest \in 0 .. now /\ t \in 0 .. now /\ t <= latest /\ old.used <= latest
      BY <2>1
    <2> HIDE DEF t, latest
    <2>4. /\ new \in [user : User, created : 0 .. now, seen : 0 .. now,
                      used : 0 .. now, password : Nat, raced : BOOLEAN]
          /\ new.user = old.user /\ new.created = old.created
          /\ new.password = old.password /\ new.raced = old.raced
          /\ new.seen = t /\ new.used = latest
      BY <2>1, <2>2, <2>3
    <2> QED
      BY <2>1, <2>3, <2>4 DEF Row
  <1>4. QED
    BY <1>1, <1>3

LEMMA SlideKeeps ==
  ASSUME Types, NEW p \in Proc, Slide(p)
  PROVE  Keeps(p)
  <1>1. Same(p) /\ pc'[p] = IF pc[p].role = "admin" THEN [at |-> "admin"] ELSE Idle
    BY GotoIs DEF Slide, Types
  <1>2. Command(p)'
    <2>1. pc'[p] \in [at : {"idle", "admin"}]
      BY <1>1 DEF Idle
    <2> QED
      BY <2>1 DEF Command, Read
  <1>3. UNCHANGED <<users, audited, minted, now, calls>>
    BY DEF Slide
  <1>4. TypeOK'
    <2>1. TypeOK
      BY DEF Types
    <2> QED
      BY <1>1, <1>3, <2>1, SlideIs DEF TypeOK, Same
  <1>5. Evolves
    <2>1. /\ minted \in Nat /\ now \in Nat
          /\ \A i \in DOMAIN sessions : sessions[i] \in Row /\ sessions[i].used \in Nat
      BY TypesGive DEF Types
    <2> QED
      BY <1>3, <2>1, SlideIs DEF Evolves
  <1>6. QED
    BY <1>1, <1>2, <1>3, <1>4, <1>5 DEF Keeps, Types, Commands

-----------------------------------------------------------------------------
(* The ends of a session.                                                  *)
LEMMA SelectLogoutKeeps ==
  ASSUME Types, NEW p \in Proc, NEW i \in Ids, SelectLogout(p, i)
  PROVE  Keeps(p)
  <1>1. Same(p) /\ pc'[p] = [at |-> "logout", id |-> i]
    BY GotoIs DEF SelectLogout, Types
  <1>2. i \in 1 .. minted /\ minted \in Nat /\ minted' = minted
    BY TypesGive DEF SelectLogout, ReadOnly, Types, TypeOK
  <1>3. [at |-> "logout", id |-> i] \in Read
    BY <1>2 DEF Read
  <1>4. Command(p)'
    BY <1>1, <1>2, <1>3 DEF Command
  <1>5. TypeOK' /\ Evolves
    BY <1>1, ReadOnlyKeeps DEF SelectLogout, Types, Same
  <1>6. QED
    BY <1>1, <1>4, <1>5 DEF Keeps, SelectLogout, Start, Types, Commands

LEMMA LogoutKeeps ==
  ASSUME Types, NEW p \in Proc, Logout(p)
  PROVE  Keeps(p)
  <1>1. Same(p) /\ pc'[p] = Idle
    BY GotoIs DEF Logout, Types
  <1>2. audited' \subseteq 1 .. minted
    BY DEF Logout, Types, TypeOK, Commands, Command
  <1>3. TypeOK' /\ Evolves
    BY <1>1, <1>2, DeletionKeeps, TypesGive DEF Logout, Types, Same, TypeOK
  <1>4. QED
    BY <1>1, <1>3, IdleCommand DEF Keeps, Logout, Types, Commands

(* What a command that kills all sessions of a user has to know of them.   *)
LEMMA NamingIs ==
  ASSUME Types, NEW p \in Proc, NEW u \in User, NEW step \in {"kill", "rotate"}, ReadOnly,
         pc'[p] = [at |-> step, user |-> u, ids |-> SessionsOf(u), since |-> minted]
  PROVE  Command(p)'
  <1> DEFINE ids == SessionsOf(u)
             next == [at |-> step, user |-> u, ids |-> ids, since |-> minted]
  <1>1. ids \subseteq 1 .. minted /\ minted \in Nat /\ ids \subseteq Nat
    BY TypesGive DEF Types, SessionsOf, TypeOK
  <1>2. SessionsOf(u)' = ids /\ minted' = minted
    BY DEF ReadOnly, SessionsOf
  <1> HIDE DEF ids
  <1>3. next \in Read
    BY <1>1 DEF Read
  <1>4. pc'[p] = next
    BY DEF ids
  <1>5. SessionsOf(pc[p].user)' = ids
    BY <1>2, <1>4 DEF SessionsOf
  <1>6. QED
    BY <1>1, <1>2, <1>3, <1>4, <1>5 DEF Command

LEMMA SelectOwnKeeps ==
  ASSUME Types, NEW p \in Proc, SelectOwn(p)
  PROVE  Keeps(p)
  <1> DEFINE u == pc[p].user
             next == [at |-> "kill", user |-> u, ids |-> SessionsOf(u), since |-> minted]
  <1>1. Same(p) /\ pc'[p] = IF SessionsOf(u) = {} THEN Idle ELSE next
    BY GotoIs DEF SelectOwn, Types
  <1>2. u \in User
    BY DEF Types, Commands, Command, SelectOwn, Read
  <1>3. Command(p)'
    BY <1>1, <1>2, NamingIs, IdleCommand DEF SelectOwn
  <1>4. TypeOK' /\ Evolves
    BY <1>1, ReadOnlyKeeps DEF SelectOwn, Types, Same
  <1>5. QED
    BY <1>1, <1>3, <1>4 DEF Keeps, SelectOwn, Types, Commands

LEMMA KillOwnKeeps ==
  ASSUME Types, NEW p \in Proc, KillOwn(p)
  PROVE  Keeps(p)
  <1>1. Same(p) /\ pc'[p] = Idle
    BY GotoIs DEF KillOwn, Types
  <1>2. audited' \subseteq 1 .. minted
    BY DEF KillOwn, Types, TypeOK, Commands, Command
  <1>3. TypeOK' /\ Evolves
    BY <1>1, <1>2, DeletionKeeps, TypesGive DEF KillOwn, Types, Same, TypeOK
  <1>4. QED
    BY <1>1, <1>3, IdleCommand DEF Keeps, KillOwn, Types, Commands

LEMMA SelectAdminKeeps ==
  ASSUME Types, NEW p \in Proc, NEW u \in User, SelectAdmin(p, u)
  PROVE  Keeps(p)
  <1>1. Same(p) /\ pc'[p] = [at |-> "reset", user |-> u]
    BY GotoIs DEF SelectAdmin, Types
  <1>2. [at |-> "reset", user |-> u] \in Read
    BY DEF Read
  <1>3. Command(p)'
    BY <1>1, <1>2 DEF Command
  <1>4. TypeOK' /\ Evolves
    BY <1>1, ReadOnlyKeeps DEF SelectAdmin, Types, Same
  <1>5. QED
    BY <1>1, <1>3, <1>4 DEF Keeps, SelectAdmin, Start, Types, Commands

LEMMA SelectAdminSessionsKeeps ==
  ASSUME Types, NEW p \in Proc, SelectAdminSessions(p)
  PROVE  Keeps(p)
  <1> DEFINE u == pc[p].user
  <1>1. Same(p) /\ pc'[p] = [at |-> "rotate", user |-> u, ids |-> SessionsOf(u), since |-> minted]
    BY GotoIs DEF SelectAdminSessions, Types
  <1>2. u \in User
    BY DEF Types, Commands, Command, SelectAdminSessions, Read
  <1>3. Command(p)'
    BY <1>1, <1>2, NamingIs DEF SelectAdminSessions
  <1>4. TypeOK' /\ Evolves
    BY <1>1, ReadOnlyKeeps DEF SelectAdminSessions, Types, Same
  <1>5. QED
    BY <1>1, <1>3, <1>4 DEF Keeps, SelectAdminSessions, Types, Commands

LEMMA ResetAdminKeeps ==
  ASSUME Types, NEW p \in Proc, ResetAdmin(p)
  PROVE  Keeps(p)
  <1>1. Same(p) /\ pc'[p] = Idle
    BY GotoIs DEF ResetAdmin, Types
  <1>2. audited' \subseteq 1 .. minted
    BY DEF ResetAdmin, Types, TypeOK, Commands, Command
  <1>3. /\ DOMAIN users' = DOMAIN users
        /\ \A u \in DOMAIN users' :
             users'[u] \in [role : {"user", "admin"}, disabled : BOOLEAN, password : Nat]
    <2>1. \A u \in DOMAIN users :
            /\ users[u] \in [role : {"user", "admin"}, disabled : BOOLEAN, password : Nat]
            /\ users[u].password \in Nat
      BY TypesGive DEF Types
    <2>2. /\ DOMAIN users' = DOMAIN users
          /\ \A u \in DOMAIN users : \/ users'[u] = users[u]
                                     \/ users'[u] = [users[u] EXCEPT !.password = @ + 1,
                                                                     !.disabled = FALSE]
      BY DEF ResetAdmin
    <2>3. ASSUME NEW u \in DOMAIN users
          PROVE  [users[u] EXCEPT !.password = @ + 1, !.disabled = FALSE]
                   \in [role : {"user", "admin"}, disabled : BOOLEAN, password : Nat]
      <3>1. users[u].password + 1 \in Nat
        BY <2>1
      <3> QED
        BY <2>1, <3>1
    <2> QED
      BY <2>1, <2>2, <2>3
  <1>4. TypeOK' /\ Evolves
    BY <1>1, <1>2, <1>3, DeletionKeeps, TypesGive DEF ResetAdmin, Types, Same
  <1>5. QED
    BY <1>1, <1>4, IdleCommand DEF Keeps, ResetAdmin, Types, Commands

-----------------------------------------------------------------------------
(* insert_user and the verbs of an admin.                                  *)
LEMMA InsertUserKeeps ==
  ASSUME Types, NEW p \in Proc, NEW u \in User, NEW role \in {"user", "admin"},
         InsertUser(p, u, role)
  PROVE  Keeps(p)
  <1>1. /\ pc[p] = Idle /\ pc' = pc /\ calls' = calls + 1 /\ calls' \in Nat
        /\ UNCHANGED <<sessions, audited, minted, now>>
    BY DEF InsertUser, Start, Types, Commands
  <1>2. Same(p) /\ pc'[p] = Idle
    BY <1>1 DEF Same, Types, TypeOK
  <1> DEFINE new == [role |-> role, disabled |-> FALSE, password |-> MaxCalls + calls']
  <1>3. new \in [role : {"user", "admin"}, disabled : BOOLEAN, password : Nat]
    BY <1>1, BoundsAssumption
  <1>4. /\ DOMAIN users' = DOMAIN users \cup {u}
        /\ users'[u] = new /\ \A v \in DOMAIN users \ {u} : users'[v] = users[v]
    BY DEF InsertUser
  <1> HIDE DEF new
  <1>5. TypeOK'
    BY <1>1, <1>3, <1>4 DEF Types, TypeOK
  <1>6. Evolves
    BY <1>1, TypesGive DEF Evolves, Types
  <1>7. QED
    BY <1>1, <1>2, <1>5, <1>6, IdleCommand DEF Keeps

LEMMA PromoteKeeps ==
  ASSUME Types, NEW p \in Proc, NEW u \in User, Promote(p, u)
  PROVE  Keeps(p)
  <1>1. Same(p) /\ pc'[p] = Idle
    BY GotoIs DEF Promote, AdminTx, Types
  <1>2. /\ UNCHANGED <<sessions, audited, minted, now, calls>>
        /\ u \in DOMAIN users /\ users' = [users EXCEPT ![u].role = "admin"]
    BY DEF Promote, AdminTx
  <1>3. /\ DOMAIN users' = DOMAIN users
        /\ users'[u] = [users[u] EXCEPT !.role = "admin"]
        /\ \A v \in DOMAIN users \ {u} : users'[v] = users[v]
    BY <1>2
  <1>4. [users[u] EXCEPT !.role = "admin"]
          \in [role : {"user", "admin"}, disabled : BOOLEAN, password : Nat]
    BY <1>2 DEF Types, TypeOK
  <1>5. TypeOK'
    BY <1>1, <1>2, <1>3, <1>4 DEF Types, TypeOK, Same
  <1>6. Evolves
    BY <1>2, TypesGive DEF Evolves, Types
  <1>7. QED
    BY <1>1, <1>2, <1>5, <1>6, IdleCommand DEF Keeps, Types, Commands

LEMMA EnableKeeps ==
  ASSUME Types, NEW p \in Proc, NEW u \in User, Enable(p, u)
  PROVE  Keeps(p)
  <1>1. Same(p) /\ pc'[p] = Idle
    BY GotoIs DEF Enable, AdminTx, Types
  <1>2. /\ UNCHANGED <<sessions, audited, minted, now, calls>>
        /\ u \in DOMAIN users /\ users' = [users EXCEPT ![u].disabled = FALSE]
    BY DEF Enable, AdminTx
  <1>3. /\ DOMAIN users' = DOMAIN users
        /\ users'[u] = [users[u] EXCEPT !.disabled = FALSE]
        /\ \A v \in DOMAIN users \ {u} : users'[v] = users[v]
    BY <1>2
  <1>4. [users[u] EXCEPT !.disabled = FALSE]
          \in [role : {"user", "admin"}, disabled : BOOLEAN, password : Nat]
    BY <1>2 DEF Types, TypeOK
  <1>5. TypeOK'
    BY <1>1, <1>2, <1>3, <1>4 DEF Types, TypeOK, Same
  <1>6. Evolves
    BY <1>2, TypesGive DEF Evolves, Types
  <1>7. QED
    BY <1>1, <1>2, <1>5, <1>6, IdleCommand DEF Keeps, Types, Commands

LEMMA KillSessionKeeps ==
  ASSUME Types, NEW p \in Proc, NEW i \in Ids, KillSession(p, i)
  PROVE  Keeps(p)
  <1>1. Same(p) /\ pc'[p] = Idle
    BY GotoIs DEF KillSession, AdminTx, Types
  <1>2. audited' \subseteq 1 .. minted
    BY DEF KillSession, Types, TypeOK
  <1>3. TypeOK' /\ Evolves
    BY <1>1, <1>2, DeletionKeeps, TypesGive DEF KillSession, AdminTx, Types, Same, TypeOK
  <1>4. QED
    BY <1>1, <1>3, IdleCommand DEF Keeps, KillSession, AdminTx, Types, Commands

(* The verbs that end all sessions of a user.                              *)
LEMMA KillAllKeeps ==
  ASSUME Types, NEW p \in Proc, NEW u \in User, AdminTx(p), KillAll(u),
         DOMAIN users \ {u} \subseteq DOMAIN users', DOMAIN users' \subseteq DOMAIN users,
         \A v \in DOMAIN users' :
           users'[v] \in [role : {"user", "admin"}, disabled : BOOLEAN, password : Nat]
  PROVE  Keeps(p)
  <1>1. Same(p) /\ pc'[p] = Idle
    BY GotoIs DEF AdminTx, Types
  <1>2. audited' \subseteq 1 .. minted
    BY DEF KillAll, Types, TypeOK, SessionsOf
  <1>3. \A i \in DOMAIN sessions \ SessionsOf(u) : sessions[i].user \in DOMAIN users'
    BY DEF SessionsOf, Types, TypeOK
  <1>4. TypeOK' /\ Evolves
    BY <1>1, <1>2, <1>3, DeletionKeeps, TypesGive DEF KillAll, AdminTx, Types, Same
  <1>5. QED
    BY <1>1, <1>4, IdleCommand DEF Keeps, AdminTx, Types, Commands

LEMMA DemoteKeeps ==
  ASSUME Types, NEW p \in Proc, NEW u \in User, Demote(p, u)
  PROVE  Keeps(p)
  <1>1. u \in DOMAIN users /\ users' = [users EXCEPT ![u].role = "user"]
    BY DEF Demote
  <1>2. /\ DOMAIN users' = DOMAIN users
        /\ users'[u] = [users[u] EXCEPT !.role = "user"]
        /\ \A v \in DOMAIN users \ {u} : users'[v] = users[v]
    BY <1>1
  <1>3. \A v \in DOMAIN users :
          users[v] \in [role : {"user", "admin"}, disabled : BOOLEAN, password : Nat]
    BY DEF Types, TypeOK
  <1>4. [users[u] EXCEPT !.role = "user"]
          \in [role : {"user", "admin"}, disabled : BOOLEAN, password : Nat]
    BY <1>1, <1>3
  <1>5. QED
    BY <1>2, <1>3, <1>4, KillAllKeeps DEF Demote

LEMMA DisableKeeps ==
  ASSUME Types, NEW p \in Proc, NEW u \in User, Disable(p, u)
  PROVE  Keeps(p)
  <1>1. u \in DOMAIN users /\ users' = [users EXCEPT ![u].disabled = TRUE]
    BY DEF Disable
  <1>2. /\ DOMAIN users' = DOMAIN users
        /\ users'[u] = [users[u] EXCEPT !.disabled = TRUE]
        /\ \A v \in DOMAIN users \ {u} : users'[v] = users[v]
    BY <1>1
  <1>3. \A v \in DOMAIN users :
          users[v] \in [role : {"user", "admin"}, disabled : BOOLEAN, password : Nat]
    BY DEF Types, TypeOK
  <1>4. [users[u] EXCEPT !.disabled = TRUE]
          \in [role : {"user", "admin"}, disabled : BOOLEAN, password : Nat]
    BY <1>1, <1>3
  <1>5. QED
    BY <1>2, <1>3, <1>4, KillAllKeeps DEF Disable

LEMMA HardDeleteKeeps ==
  ASSUME Types, NEW p \in Proc, NEW u \in User, HardDelete(p, u)
  PROVE  Keeps(p)
  <1>1. DOMAIN users' = DOMAIN users \ {u} /\ \A v \in DOMAIN users' : users'[v] = users[v]
    BY DEF HardDelete, Restrict
  <1>2. \A v \in DOMAIN users :
          users[v] \in [role : {"user", "admin"}, disabled : BOOLEAN, password : Nat]
    BY DEF Types, TypeOK
  <1>3. QED
    BY <1>1, <1>2, KillAllKeeps DEF HardDelete

-----------------------------------------------------------------------------
(* Types, and what commands know, of every step.                           *)
LEMMA TickEvolves ==
  ASSUME Types, Tick
  PROVE  TypeOK' /\ Evolves /\ UNCHANGED <<users, sessions, audited, minted, pc, calls>>
  <1>1. /\ now \in Nat /\ now' = now + 1 /\ now' \in 0 .. MaxTime
        /\ UNCHANGED <<users, sessions, audited, minted, pc, calls>>
    BY TypesGive, BoundsAssumption DEF Types, Tick
  <1>2. \A n \in 0 .. now : n \in 0 .. now'
    BY <1>1
  <1>3. TypeOK'
    BY <1>1, <1>2 DEF Types, TypeOK
  <1>4. Evolves
    BY <1>1, TypesGive DEF Evolves, Types
  <1>5. QED
    BY <1>1, <1>3, <1>4

LEMMA StepKeeps ==
  ASSUME Types, Next
  PROVE  Types' /\ Evolves
  <1>1. CASE Tick
    <2>1. TypeOK' /\ Evolves /\ UNCHANGED <<pc, calls>>
      BY <1>1, TickEvolves
    <2> QED
      BY <2>1, OthersKeep DEF Types, Commands
  <1>2. CASE \E p \in Proc : Keeps(p)
    <2>1. PICK p \in Proc : Keeps(p)
      BY <1>2
    <2>2. \A q \in Proc \ {p} : Command(q)'
      BY <2>1, OthersKeep DEF Keeps, Same, Types, Commands
    <2> QED
      BY <2>1, <2>2 DEF Keeps, Types, Commands
  <1>3. CASE Next /\ ~Tick
    <2>1. PICK p \in Proc :
            \/ SelectLapsed(p) \/ SelectExisting(p) \/ Mint(p) \/ ExpireAndMint(p)
            \/ Classify(p) \/ DropLapsed(p) \/ Slide(p)
            \/ Logout(p) \/ SelectOwn(p) \/ KillOwn(p) \/ SelectAdminSessions(p) \/ ResetAdmin(p)
            \/ \E u \in User :
                 \/ Verify(p, u, "login") \/ Verify(p, u, "own") \/ SelectAdmin(p, u)
                 \/ \E r \in {"user", "admin"} : InsertUser(p, u, r)
                 \/ Promote(p, u) \/ Demote(p, u) \/ Disable(p, u) \/ Enable(p, u)
                 \/ HardDelete(p, u)
            \/ \E i \in Ids : SelectToken(p, i) \/ SelectLogout(p, i) \/ KillSession(p, i)
      BY <1>3 DEF Next
    <2>2. CASE \/ SelectLapsed(p) \/ SelectExisting(p) \/ Mint(p) \/ ExpireAndMint(p)
               \/ Classify(p) \/ DropLapsed(p) \/ Slide(p)
      BY <2>2, SelectLapsedKeeps, SelectExistingKeeps, MintKeeps, ExpireAndMintKeeps,
         ClassifyKeeps, DropLapsedKeeps, SlideKeeps, <1>2
    <2>3. CASE Logout(p) \/ SelectOwn(p) \/ KillOwn(p) \/ SelectAdminSessions(p) \/ ResetAdmin(p)
      BY <2>3, LogoutKeeps, SelectOwnKeeps, KillOwnKeeps, SelectAdminSessionsKeeps,
         ResetAdminKeeps, <1>2
    <2>4. ASSUME NEW u \in User,
                 \/ Verify(p, u, "login") \/ Verify(p, u, "own") \/ SelectAdmin(p, u)
                 \/ \E r \in {"user", "admin"} : InsertUser(p, u, r)
                 \/ Promote(p, u) \/ Demote(p, u) \/ Disable(p, u) \/ Enable(p, u)
                 \/ HardDelete(p, u)
          PROVE  Types' /\ Evolves
      BY <2>4, VerifyKeeps, SelectAdminKeeps, InsertUserKeeps, PromoteKeeps, DemoteKeeps,
         DisableKeeps, EnableKeeps, HardDeleteKeeps, <1>2
    <2>5. ASSUME NEW i \in Ids, SelectToken(p, i) \/ SelectLogout(p, i) \/ KillSession(p, i)
          PROVE  Types' /\ Evolves
      BY <2>5, SelectTokenKeeps, SelectLogoutKeeps, KillSessionKeeps, <1>2
    <2> QED
      BY <2>1, <2>2, <2>3, <2>4, <2>5
  <1>4. QED
    BY <1>1, <1>3

(* Every step finds the types, and what commands know of the past, as the  *)
(* step before left them.                                                  *)
THEOREM SessionsTypes == Spec => []Types
  <1>1. Init => Types
    <2> SUFFICES ASSUME Init
                 PROVE  Types
      OBVIOUS
    <2>1. TypeOK
      <3>1. /\ DOMAIN users \subseteq User
            /\ \A u \in DOMAIN users :
                 users[u] \in [role : {"user", "admin"}, disabled : BOOLEAN, password : Nat]
        <4>1. DOMAIN users = User
          BY DEF Init
        <4>2. ASSUME NEW u \in User
              PROVE  users[u] \in [role : {"user", "admin"}, disabled : {FALSE}, password : {1}]
          BY DEF Init
        <4>3. ASSUME NEW r \in [role : {"user", "admin"}, disabled : {FALSE}, password : {1}]
              PROVE  r \in [role : {"user", "admin"}, disabled : BOOLEAN, password : Nat]
          <5>1. /\ r = [role |-> r.role, disabled |-> r.disabled, password |-> r.password]
                /\ r.role \in {"user", "admin"} /\ r.disabled \in {FALSE} /\ r.password \in {1}
            OBVIOUS
          <5>2. r.disabled \in BOOLEAN
            BY <5>1, Zenon
          <5>3. r.password \in Nat
            BY <5>1
          <5> QED
            BY <5>1, <5>2, <5>3
        <4> QED
          BY <4>1, <4>2, <4>3
      <3>2. DOMAIN sessions = {}
        BY DEF Init
      <3> QED
        BY <3>1, <3>2, BoundsAssumption DEF Init, TypeOK
    <2>2. \A p \in Proc : pc[p] = Idle
      BY DEF Init
    <2>3. Commands
      BY <2>2 DEF Commands, Command, Read, Idle, Init
    <2> QED
      BY <2>1, <2>3 DEF Types
  <1>2. Types /\ [Next]_vars => Types'
    <2>1. Types /\ UNCHANGED vars => Types'
      BY DEF vars, Types, TypeOK, Commands, Command, SessionsOf
    <2> QED
      BY <2>1, StepKeeps
  <1>3. QED
    BY <1>1, <1>2, PTL DEF Spec

-----------------------------------------------------------------------------
(* AdminRemains.                                                           *)
LEMMA AnotherAdmin ==
  ASSUME AdminRemains, NEW u,
         users[u].role = "admin" /\ ~users[u].disabled => NotSoleAdmin(u)
  PROVE  \E v \in DOMAIN users \ {u} : users[v].role = "admin" /\ ~users[v].disabled
  BY DEF AdminRemains, ActiveAdmins, NotSoleAdmin

LEMMA AdminKept ==
  ASSUME Types, AdminRemains, Next
  PROVE  AdminRemains'
  <1>1. CASE UNCHANGED users
    BY <1>1 DEF AdminRemains, ActiveAdmins
  <1>2. \A u \in DOMAIN users :
          users[u] \in [role : {"user", "admin"}, disabled : BOOLEAN, password : Nat]
    BY DEF Types, TypeOK
  <1>3. ASSUME NEW p \in Proc, ResetAdmin(p)
        PROVE  AdminRemains'
    <2>1. /\ DOMAIN users' = DOMAIN users
          /\ \A v \in DOMAIN users :
               users'[v] = IF v = pc[p].user
                           THEN [users[v] EXCEPT !.password = @ + 1, !.disabled = FALSE]
                           ELSE users[v]
      BY <1>3 DEF ResetAdmin
    <2>2. \A v \in DOMAIN users :
            /\ users'[v].role = users[v].role
            /\ ~users[v].disabled => ~users'[v].disabled
      BY <1>2, <2>1
    <2> QED
      BY <2>1, <2>2 DEF AdminRemains, ActiveAdmins
  <1>4. ASSUME NEW p \in Proc, NEW u \in User, NEW r \in {"user", "admin"}, InsertUser(p, u, r)
        PROVE  AdminRemains'
    BY <1>4 DEF InsertUser, AdminRemains, ActiveAdmins
  <1>5. ASSUME NEW p \in Proc, NEW u \in User, Promote(p, u) \/ Enable(p, u)
        PROVE  AdminRemains'
    <2>1. /\ DOMAIN users' = DOMAIN users
          /\ \A v \in DOMAIN users :
               /\ users[v].role = "admin" => users'[v].role = "admin"
               /\ ~users[v].disabled => ~users'[v].disabled
      BY <1>2, <1>5 DEF Promote, Enable
    <2> QED
      BY <2>1 DEF AdminRemains, ActiveAdmins
  <1>6. ASSUME NEW p \in Proc, NEW u \in User,
               Demote(p, u) \/ Disable(p, u) \/ HardDelete(p, u)
        PROVE  AdminRemains'
    <2>1. PICK v \in DOMAIN users \ {u} : users[v].role = "admin" /\ ~users[v].disabled
      BY <1>6, AnotherAdmin DEF Demote, Disable, HardDelete
    <2>2. v \in DOMAIN users' /\ users'[v] = users[v]
      BY <1>6, <2>1 DEF Demote, Disable, HardDelete, Restrict
    <2> QED
      BY <2>1, <2>2 DEF AdminRemains, ActiveAdmins
  <1>7. QED
    BY <1>1, <1>3, <1>4, <1>5, <1>6
       DEF Next, Tick, SelectLapsed, SelectExisting, Mint, ExpireAndMint, Insert, Classify,
           DropLapsed, Slide, Logout, SelectOwn, KillOwn, SelectAdminSessions, Verify,
           SelectAdmin, SelectToken, SelectLogout, KillSession, ReadOnly

(* There is always an enabled admin (_assert_not_sole_admin, admin.py).    *)
THEOREM SessionsAdminRemains == Spec => []AdminRemains
  <1>1. Init => AdminRemains
    BY DEF Init, AdminRemains
  <1>2. Types /\ AdminRemains /\ [Next]_vars => AdminRemains'
    <2>1. AdminRemains /\ UNCHANGED vars => AdminRemains'
      BY DEF vars, AdminRemains, ActiveAdmins
    <2> QED
      BY <2>1, AdminKept
  <1>3. QED
    BY <1>1, <1>2, SessionsTypes, PTL DEF Spec

-----------------------------------------------------------------------------
(* What a step does to the sessions.                                       *)

(* Why a row may go (EndsAreAudited).                                      *)
Excused(i) ==
  \/ i \in audited'
  \/ Lapsed(sessions[i], now)
  \/ \E p \in Proc :
       \/ pc[p].at \in {"kill", "rotate"} /\ i > pc[p].since
       \/ pc[p].at = "drop" /\ pc[p].id = i
       \/ pc[p].at = "expire" /\ i \in pc[p].ids

(* The user's login found no session, or what it found has lapsed.         *)
Inserts(p) ==
  /\ \/ pc[p].at = "mint" /\ DOMAIN sessions \subseteq DOMAIN sessions'
     \/ pc[p].at = "expire" /\ SessionsOf(pc[p].user) \cap DOMAIN sessions' = {}
  /\ pc[p].user \in DOMAIN users /\ users' = users
  /\ Same(p) /\ pc'[p] = Idle
  /\ minted' = minted + 1 /\ minted + 1 \in DOMAIN sessions'
  /\ sessions'[minted + 1].user = pc[p].user
  /\ sessions'[minted + 1].password = pc[p].password
  /\ ~sessions'[minted + 1].raced =>
       ~users[pc[p].user].disabled /\ users[pc[p].user].password = pc[p].password
  /\ \A i \in DOMAIN sessions' \ {minted + 1} :
       i \in DOMAIN sessions /\ sessions'[i] = sessions[i]
  /\ \A i \in DOMAIN sessions \ DOMAIN sessions' : Excused(i)

Deletes(X) == sessions' = Without(X) /\ \A i \in X \cap DOMAIN sessions : Excused(i)

LEMMA MintInserts ==
  ASSUME Types, NEW p \in Proc, Mint(p), ~UNCHANGED sessions
  PROVE  Inserts(p)
  <1>1. pc[p].at = "mint" /\ Insert(p, sessions) /\ users' = users
    BY DEF Mint, Insert
  <1>2. pc[p].user \in DOMAIN users
    BY <1>1 DEF Insert
  <1>3. minted \in Nat
    BY TypesGive DEF Types
  <1>4. QED
    BY <1>1, <1>2, <1>3, InsertKeeps DEF Inserts, Insert

LEMMA ExpireRows ==
  ASSUME Types, NEW p \in Proc, ExpireAndMint(p)
  PROVE  UNCHANGED sessions \/ Inserts(p) \/ \E X : Deletes(X)
  <1> DEFINE left == Without(pc[p].ids)
  <1>1. pc[p].at = "expire" /\ users' = users /\ minted \in Nat
    BY TypesGive DEF ExpireAndMint, Insert, Types
  <1>2. DOMAIN left = DOMAIN sessions \ pc[p].ids /\ \A i \in DOMAIN left : left[i] = sessions[i]
    BY DEF Without, Restrict
  <1>3. \A i \in pc[p].ids : Excused(i)
    BY <1>1 DEF Excused
  <1>4. CASE sessions' = left
    BY <1>3, <1>4 DEF Deletes
  <1>5. CASE SessionsOf(pc[p].user) \subseteq pc[p].ids /\ Insert(p, left)
    <2> HIDE DEF left
    <2>1. CASE pc[p].user \notin DOMAIN users
      BY <1>5, <2>1 DEF Insert
    <2>2. CASE pc[p].user \in DOMAIN users
      <3>1. /\ Same(p) /\ pc'[p] = Idle
            /\ minted' = minted + 1
            /\ DOMAIN sessions' = DOMAIN left \cup {minted + 1}
            /\ sessions'[minted + 1].user = pc[p].user
            /\ sessions'[minted + 1].password = pc[p].password
            /\ ~sessions'[minted + 1].raced =>
                 ~users[pc[p].user].disabled /\ users[pc[p].user].password = pc[p].password
            /\ \A i \in DOMAIN left : sessions'[i] = sessions[i]
        BY <1>1, <1>2, <1>5, <2>2, InsertKeeps DEF Insert
      <3>2. minted + 1 \notin DOMAIN sessions
        BY TypesGive DEF Types
      <3>3. SessionsOf(pc[p].user) \cap DOMAIN sessions' = {}
        BY <1>2, <1>5, <3>1, <3>2 DEF SessionsOf
      <3> QED
        BY <1>1, <1>2, <1>3, <2>2, <3>1, <3>3 DEF Inserts
    <2> QED
      BY <2>1, <2>2
  <1>6. QED
    BY <1>4, <1>5 DEF ExpireAndMint

(* A command that kills all sessions of a user names those it had found.   *)
LEMMA KillDeletes ==
  ASSUME Types, NEW p \in Proc, pc[p].at \in {"kill", "rotate"},
         sessions' = Without(SessionsOf(pc[p].user)), audited' = audited \cup pc[p].ids
  PROVE  Deletes(SessionsOf(pc[p].user))
  <1> SUFFICES ASSUME NEW i \in SessionsOf(pc[p].user)
               PROVE  Excused(i)
    BY DEF Deletes
  <1>1. pc[p].since \in Nat /\ i \in Nat
    BY TypesGive DEF Types, Commands, Command, Read, SessionsOf
  <1>2. i <= pc[p].since => i \in pc[p].ids
    BY DEF Types, Commands, Command
  <1>3. QED
    BY <1>1, <1>2 DEF Excused

LEMMA RowsOf ==
  ASSUME Types, Next
  PROVE  \/ UNCHANGED sessions
         \/ \E X : Deletes(X)
         \/ \E p \in Proc : Inserts(p)
         \/ \E p \in Proc : Slide(p)
  <1>1. ASSUME NEW p \in Proc, Mint(p) \/ ExpireAndMint(p)
        PROVE  UNCHANGED sessions \/ Inserts(p) \/ \E X : Deletes(X)
    BY <1>1, MintInserts, ExpireRows
  <1>2. ASSUME NEW p \in Proc, DropLapsed(p)
        PROVE  Deletes({pc[p].id})
    BY <1>2 DEF DropLapsed, Deletes, Excused
  <1>3. ASSUME NEW p \in Proc, Logout(p)
        PROVE  Deletes({pc[p].id})
    BY <1>3 DEF Logout, Deletes, Excused
  <1>4. ASSUME NEW p \in Proc, KillOwn(p) \/ ResetAdmin(p)
        PROVE  Deletes(SessionsOf(pc[p].user))
    BY <1>4, KillDeletes DEF KillOwn, ResetAdmin
  <1>5. ASSUME NEW p \in Proc, NEW u \in User,
               Demote(p, u) \/ Disable(p, u) \/ HardDelete(p, u)
        PROVE  Deletes(SessionsOf(u))
    BY <1>5 DEF Demote, Disable, HardDelete, KillAll, Deletes, Excused
  <1>6. ASSUME NEW p \in Proc, NEW i \in Ids, KillSession(p, i)
        PROVE  Deletes({i})
    BY <1>6 DEF KillSession, Deletes, Excused
  <1>7. QED
    BY <1>1, <1>2, <1>3, <1>4, <1>5, <1>6
       DEF Next, Tick, SelectLapsed, SelectExisting, Classify, SelectOwn, SelectAdminSessions,
           Verify, SelectAdmin, InsertUser, Promote, Enable, SelectToken, SelectLogout, ReadOnly

-----------------------------------------------------------------------------
(* LapsedIsOver and EndsAreAudited.                                        *)

(* A lookup that slides has read a clock before the end of its session.    *)
LEMMA SlideIsEarly ==
  ASSUME Types, NEW p \in Proc, pc[p].at = "slide", pc[p].id \in DOMAIN sessions
  PROVE  ~Over(pc[p].id, pc[p].time)
  <1> DEFINE row == sessions[pc[p].id]
             time == pc[p].time
             last == [row EXCEPT !.seen = row.used]
  <1>1. /\ pc[p] \in Read
        /\ time < row.created + Absolute /\ time < row.used + Sliding
    BY DEF Types, Commands, Command
  <1>2. time \in Nat /\ row \in Row /\ row.created \in Nat /\ row.used \in Nat
    BY <1>1, TypesGive DEF Types, Read
  <1>3. last.created = row.created /\ last.seen = row.used
    BY <1>2 DEF Row
  <1>4. ~(time >= last.created + Absolute) /\ ~(time >= last.seen + Sliding)
    BY <1>1, <1>2, <1>3, BoundsAssumption
  <1>5. QED
    BY <1>4 DEF Over, Lapsed

(* Once a session's time is over, only a lookup that read the clock before *)
(* refreshes it (session_from_token, sessions.py).                         *)
THEOREM SessionsLapsedIsOver == Spec => LapsedIsOver
  <1> DEFINE Stays ==
        \A i \in DOMAIN sessions \cap DOMAIN sessions' :
          /\ Over(i, now)
          /\ \A p \in Proc : pc[p].at = "slide" /\ pc[p].id = i => Over(i, pc[p].time)
          => sessions'[i] = sessions[i]
  <1>1. Types /\ [Next]_vars => [Stays]_vars
    <2> SUFFICES ASSUME Types, Next
                 PROVE  Stays
      OBVIOUS
    <2>1. CASE UNCHANGED sessions
      BY <2>1
    <2>2. CASE \E X : Deletes(X)
      BY <2>2, WithoutIs DEF Deletes, Types
    <2>3. ASSUME NEW p \in Proc, Inserts(p)
          PROVE  Stays
      <3>1. minted + 1 \notin DOMAIN sessions
        BY TypesGive DEF Types
      <3> QED
        BY <2>3, <3>1 DEF Inserts
    <2>4. ASSUME NEW p \in Proc, Slide(p)
          PROVE  Stays
      <3>1. pc[p].at = "slide" /\ \A i \in DOMAIN sessions \ {pc[p].id} : sessions'[i] = sessions[i]
        BY <2>4, SlideIs DEF Slide
      <3>2. pc[p].id \in DOMAIN sessions => ~Over(pc[p].id, pc[p].time)
        BY <3>1, SlideIsEarly
      <3> QED
        BY <3>1, <3>2
    <2>5. QED
      BY <2>1, <2>2, <2>3, <2>4, RowsOf
  <1>2. QED
    BY <1>1, SessionsTypes, PTL DEF Spec, LapsedIsOver

(* A session that has not lapsed ends with an audit row that names it, but *)
(* for the races the property names (sessions.py, admin.py).               *)
THEOREM SessionsEndsAreAudited == Spec => EndsAreAudited
  <1> DEFINE Ends == \A i \in DOMAIN sessions \ DOMAIN sessions' : Excused(i)
  <1>1. Types /\ [Next]_vars => [Ends]_vars
    <2> SUFFICES ASSUME Types, Next
                 PROVE  Ends
      OBVIOUS
    <2>1. CASE \E X : Deletes(X)
      BY <2>1, WithoutIs DEF Deletes, Types
    <2>2. CASE \E p \in Proc : Inserts(p)
      BY <2>2 DEF Inserts
    <2>3. CASE \E p \in Proc : Slide(p)
      BY <2>3, SlideIs
    <2>4. QED
      BY <2>1, <2>2, <2>3, RowsOf
  <1>2. QED
    BY <1>1, SessionsTypes, PTL DEF Spec, EndsAreAudited, Excused

-----------------------------------------------------------------------------
(* SessionsAreEarned.                                                      *)

(* A verb that changes a user against a session ends the user's sessions.  *)
LEMMA UsersOf ==
  ASSUME Types, Next, NEW i \in DOMAIN sessions \cap DOMAIN sessions'
  PROVE  LET u == sessions[i].user IN
         /\ ~users[u].disabled => ~users'[u].disabled
         /\ users'[u].password = users[u].password
  <1> DEFINE u == sessions[i].user
             Fine == /\ ~users[u].disabled => ~users'[u].disabled
                     /\ users'[u].password = users[u].password
  <1>1. /\ u \in DOMAIN users /\ i \in SessionsOf(u)
        /\ users[u] \in [role : {"user", "admin"}, disabled : BOOLEAN, password : Nat]
    BY TypesGive DEF Types, SessionsOf
  <1>2. CASE users' = users
    BY <1>2
  <1>3. ASSUME NEW p \in Proc, ResetAdmin(p)
        PROVE  Fine
    <2>1. u # pc[p].user
      BY <1>1, <1>3, WithoutIs DEF ResetAdmin, Types
    <2> QED
      BY <1>1, <1>3, <2>1 DEF ResetAdmin
  <1>4. ASSUME NEW p \in Proc, NEW v \in User, NEW r \in {"user", "admin"}, InsertUser(p, v, r)
        PROVE  Fine
    BY <1>1, <1>4 DEF InsertUser
  <1>5. ASSUME NEW p \in Proc, NEW v \in User, Promote(p, v)
        PROVE  Fine
    BY <1>1, <1>5 DEF Promote
  <1>6. ASSUME NEW p \in Proc, NEW v \in User, Enable(p, v)
        PROVE  Fine
    BY <1>1, <1>6 DEF Enable
  <1>7. ASSUME NEW p \in Proc, NEW v \in User,
               Demote(p, v) \/ Disable(p, v) \/ HardDelete(p, v)
        PROVE  Fine
    <2>1. u # v
      BY <1>1, <1>7, WithoutIs DEF Demote, Disable, HardDelete, KillAll, Types
    <2> QED
      BY <1>1, <1>7, <2>1 DEF Demote, Disable, HardDelete, Restrict
  <1>8. QED
    BY <1>2, <1>3, <1>4, <1>5, <1>6, <1>7
       DEF Next, Tick, SelectLapsed, SelectExisting, Mint, ExpireAndMint, Insert, Classify,
           DropLapsed, Slide, Logout, SelectOwn, KillOwn, SelectAdminSessions, Verify,
           SelectAdmin, SelectToken, SelectLogout, KillSession, ReadOnly

LEMMA EarnedKept ==
  ASSUME Types, SessionsAreEarned, Next
  PROVE  SessionsAreEarned'
  <1>1. ASSUME NEW i \in DOMAIN sessions \cap DOMAIN sessions',
               sessions'[i].user = sessions[i].user,
               sessions'[i].password = sessions[i].password,
               sessions'[i].raced = sessions[i].raced,
               ~sessions'[i].raced
        PROVE  /\ ~users'[sessions'[i].user].disabled
               /\ users'[sessions'[i].user].password = sessions'[i].password
    BY <1>1, UsersOf DEF SessionsAreEarned
  <1>2. CASE UNCHANGED sessions
    BY <1>1, <1>2 DEF SessionsAreEarned
  <1>3. CASE \E X : Deletes(X)
    <2>1. \A i \in DOMAIN sessions' : i \in DOMAIN sessions /\ sessions'[i] = sessions[i]
      BY <1>3, WithoutIs DEF Deletes, Types
    <2> QED
      BY <1>1, <2>1 DEF SessionsAreEarned
  <1>4. ASSUME NEW p \in Proc, Inserts(p)
        PROVE  SessionsAreEarned'
    BY <1>1, <1>4 DEF Inserts, SessionsAreEarned
  <1>5. ASSUME NEW p \in Proc, Slide(p)
        PROVE  SessionsAreEarned'
    BY <1>1, <1>5, SlideIs DEF SessionsAreEarned
  <1>6. QED
    BY <1>2, <1>3, <1>4, <1>5, RowsOf

-----------------------------------------------------------------------------
(* OneSessionPerRacer.                                                     *)

(* The logins that found no session and have not inserted theirs yet.      *)
Minting(u) == {p \in Proc : pc[p].at = "mint" /\ pc[p].user = u}

RacersBounded ==
  \A u \in User : Cardinality(SessionsOf(u)) + Cardinality(Minting(u)) <= Cardinality(Proc)

LEMMA RacersAreFinite ==
  ASSUME NEW n \in Nat, NEW rows, rows \subseteq 1 .. n, NEW logins, logins \subseteq Proc
  PROVE  /\ IsFiniteSet(rows) /\ Cardinality(rows) \in Nat
         /\ IsFiniteSet(logins) /\ Cardinality(logins) \in Nat
         /\ Cardinality(Proc) \in Nat /\ Cardinality(logins) <= Cardinality(Proc)
  <1>1. IsFiniteSet(1 .. n)
    BY FS_Interval
  <1>2. IsFiniteSet(rows)
    BY <1>1, FS_Subset
  <1>3. IsFiniteSet(logins) /\ Cardinality(logins) <= Cardinality(Proc)
    BY ProcAssumption, FS_Subset
  <1>4. QED
    BY <1>2, <1>3, ProcAssumption, FS_CardinalityType

(* A login that finds no session is the one new racer of a step.           *)
LEMMA MintingOf ==
  ASSUME Types, Next
  PROVE  \/ \A u \in User : Minting(u)' \subseteq Minting(u)
         \/ \E p \in Proc : SelectExisting(p)
  <1>1. ASSUME NEW p \in Proc, Same(p), pc'[p].at # "mint", NEW u \in User
        PROVE  Minting(u)' \subseteq Minting(u)
    BY <1>1 DEF Minting, Same
  <1>2. CASE pc' = pc
    BY <1>2 DEF Minting
  <1>3. ASSUME NEW p \in Proc, NEW next, Goto(p, next), next.at # "mint"
        PROVE  \A u \in User : Minting(u)' \subseteq Minting(u)
    BY <1>1, <1>3, GotoIs DEF Types
  <1>4. ASSUME NEW p \in Proc, Goto(p, Idle)
        PROVE  \A u \in User : Minting(u)' \subseteq Minting(u)
    BY <1>3, <1>4 DEF Idle
  <1>5. ASSUME NEW p \in Proc, SelectLapsed(p)
        PROVE  \A u \in User : Minting(u)' \subseteq Minting(u)
    <2> DEFINE ids == {i \in SessionsOf(pc[p].user) : Lapsed(sessions[i], now)}
               next == [at |-> IF ids = {} THEN "check" ELSE "expire", user |-> pc[p].user,
                        password |-> pc[p].password, ids |-> ids]
    <2>1. Goto(p, next) /\ next.at # "mint"
      BY <1>5 DEF SelectLapsed
    <2> QED
      BY <2>1, <1>3
  <1>6. ASSUME NEW p \in Proc,
               \/ Mint(p) \/ ExpireAndMint(p) \/ DropLapsed(p) \/ Logout(p) \/ KillOwn(p)
               \/ ResetAdmin(p)
        PROVE  \A u \in User : Minting(u)' \subseteq Minting(u)
    BY <1>4, <1>6 DEF Mint, ExpireAndMint, Insert, DropLapsed, Logout, KillOwn, ResetAdmin
  <1>7. ASSUME NEW p \in Proc, Classify(p) \/ Slide(p) \/ SelectOwn(p) \/ SelectAdminSessions(p)
        PROVE  \A u \in User : Minting(u)' \subseteq Minting(u)
    <2>1. CASE Classify(p)
      <3> DEFINE drop == [at |-> "drop", id |-> pc[p].id]
                 slide == [at |-> "slide", id |-> pc[p].id, time |-> now, role |-> pc[p].role]
      <3>1. Same(p) /\ pc'[p] = IF Lapsed(pc[p].row, now) THEN drop ELSE slide
        BY <2>1, GotoIs DEF Classify, Types
      <3>2. drop.at # "mint" /\ slide.at # "mint"
        OBVIOUS
      <3>3. pc'[p].at # "mint"
        BY <3>1, <3>2
      <3> QED
        BY <1>1, <3>1, <3>3
    <2>2. CASE Slide(p)
      <3>1. Same(p) /\ pc'[p] = IF pc[p].role = "admin" THEN [at |-> "admin"] ELSE Idle
        BY <2>2, GotoIs DEF Slide, Types
      <3>2. pc'[p].at # "mint"
        BY <3>1 DEF Idle
      <3> QED
        BY <1>1, <3>1, <3>2
    <2>3. CASE SelectOwn(p)
      BY <1>1, <2>3, GotoIs DEF SelectOwn, Idle, Types
    <2>4. CASE SelectAdminSessions(p)
      BY <1>1, <2>4, GotoIs DEF SelectAdminSessions, Types
    <2> QED
      BY <1>7, <2>1, <2>2, <2>3, <2>4
  <1>8. ASSUME NEW p \in Proc, NEW u \in User,
               \/ Verify(p, u, "login") \/ Verify(p, u, "own") \/ SelectAdmin(p, u)
               \/ Promote(p, u) \/ Demote(p, u) \/ Disable(p, u) \/ Enable(p, u) \/ HardDelete(p, u)
        PROVE  \A v \in User : Minting(v)' \subseteq Minting(v)
    <2>1. Same(p) /\ pc'[p].at # "mint"
      BY <1>8, GotoIs DEF Verify, SelectAdmin, Promote, Demote, Disable, Enable, HardDelete,
                          AdminTx, Idle, Types
    <2> QED
      BY <1>1, <2>1
  <1>9. ASSUME NEW p \in Proc, NEW i \in Ids,
               SelectToken(p, i) \/ SelectLogout(p, i) \/ KillSession(p, i)
        PROVE  \A v \in User : Minting(v)' \subseteq Minting(v)
    <2>1. Same(p) /\ pc'[p].at # "mint"
      BY <1>9, GotoIs DEF SelectToken, SelectLogout, KillSession, AdminTx, Idle, Types
    <2> QED
      BY <1>1, <2>1
  <1>10. QED
    BY <1>2, <1>5, <1>6, <1>7, <1>8, <1>9 DEF Next, Tick, InsertUser

LEMMA RacersKept ==
  ASSUME Types, RacersBounded, Next
  PROVE  RacersBounded'
  <1> SUFFICES ASSUME NEW u \in User
               PROVE  Cardinality(SessionsOf(u))' + Cardinality(Minting(u))' <= Cardinality(Proc)
    BY DEF RacersBounded
  <1> DEFINE rows == SessionsOf(u)
             logins == Minting(u)
  <1>1. /\ IsFiniteSet(rows) /\ Cardinality(rows) \in Nat
        /\ IsFiniteSet(logins) /\ Cardinality(logins) \in Nat
        /\ Cardinality(Proc) \in Nat
        /\ Cardinality(rows) + Cardinality(logins) <= Cardinality(Proc)
    <2>1. minted \in Nat /\ rows \subseteq 1 .. minted /\ logins \subseteq Proc
      BY TypesGive DEF Types, TypeOK, SessionsOf, Minting
    <2> QED
      BY <2>1, RacersAreFinite DEF RacersBounded
  <1>2. Types'
    BY StepKeeps
  <1>3. /\ IsFiniteSet(rows') /\ Cardinality(rows') \in Nat
        /\ IsFiniteSet(logins') /\ Cardinality(logins') \in Nat
        /\ Cardinality(logins') <= Cardinality(Proc)
    <2>1. minted' \in Nat /\ rows' \subseteq 1 .. minted' /\ logins' \subseteq Proc
      BY <1>2, BoundsAssumption DEF Types, TypeOK, SessionsOf, Minting
    <2> QED
      BY <2>1, RacersAreFinite
  <1>4. CASE rows' \subseteq rows /\ logins' \subseteq logins
    <2>1. Cardinality(rows') <= Cardinality(rows) /\ Cardinality(logins') <= Cardinality(logins)
      BY <1>1, <1>4, FS_Subset
    <2> QED
      BY <1>1, <1>3, <2>1
  <1>5. CASE rows' = {}
    BY <1>3, <1>5, FS_EmptySet
  <1>6. CASE \A p \in Proc : ~Inserts(p)
    <2>1. rows' \subseteq rows
      <3>1. CASE UNCHANGED sessions
        BY <3>1 DEF SessionsOf
      <3>2. CASE \E X : Deletes(X)
        <4>1. \A i \in DOMAIN sessions' : i \in DOMAIN sessions /\ sessions'[i] = sessions[i]
          BY <3>2, WithoutIs DEF Deletes, Types
        <4> QED
          BY <4>1 DEF SessionsOf
      <3>3. CASE \E p \in Proc : Slide(p)
        <4>1. DOMAIN sessions' = DOMAIN sessions
              /\ \A i \in DOMAIN sessions : sessions'[i].user = sessions[i].user
          BY <3>3, SlideIs
        <4> QED
          BY <4>1 DEF SessionsOf
      <3> QED
        BY <1>6, <3>1, <3>2, <3>3, RowsOf
    <2>2. ASSUME NEW p \in Proc, SelectExisting(p), ~(logins' \subseteq logins)
          PROVE  rows' = {}
      <3>1. /\ Same(p) /\ sessions' = sessions
            /\ pc'[p] = IF SessionsOf(pc[p].user) = {} THEN [pc[p] EXCEPT !.at = "mint"] ELSE Idle
        BY <2>2, GotoIs DEF SelectExisting, ReadOnly, Types
      <3>2. p \in logins'
        BY <2>2, <3>1 DEF Minting, Same
      <3>3. pc'[p].at = "mint" /\ pc'[p].user = u
        BY <3>2 DEF Minting
      <3>4. SessionsOf(pc[p].user) = {} /\ pc'[p] = [pc[p] EXCEPT !.at = "mint"]
        BY <3>1, <3>3 DEF Idle
      <3>5. pc[p] \in [at : {"check", "expire", "mint"}, user : User, password : Nat,
                       ids : SUBSET Nat]
        BY <2>2 DEF SelectExisting, Types, Commands, Command, Read
      <3>6. pc[p].user = u
        BY <3>3, <3>4, <3>5
      <3> QED
        BY <3>1, <3>4, <3>6 DEF SessionsOf
    <2>3. QED
      BY <1>4, <1>5, <2>1, <2>2, MintingOf
  <1>7. ASSUME NEW p \in Proc, Inserts(p)
        PROVE  Cardinality(rows') + Cardinality(logins') <= Cardinality(Proc)
    <2>1. logins' = logins \ {p}
      BY <1>7 DEF Inserts, Minting, Same, Idle
    <2>2. minted + 1 \notin DOMAIN sessions
      BY TypesGive DEF Types
    <2>3. CASE pc[p].user # u
      <3>1. rows' \subseteq rows
        BY <1>7, <2>3 DEF Inserts, SessionsOf
      <3> QED
        BY <1>4, <2>1, <3>1
    <2>4. CASE pc[p].user = u /\ pc[p].at = "mint"
      <3>1. rows' \subseteq rows \cup {minted + 1}
        BY <1>7 DEF Inserts, SessionsOf
      <3>2. p \in logins
        BY <2>4 DEF Minting
      <3>3. Cardinality(logins') = Cardinality(logins) - 1
        BY <1>1, <2>1, <3>2, FS_RemoveElement
      <3>4. /\ IsFiniteSet(rows \cup {minted + 1})
            /\ Cardinality(rows \cup {minted + 1}) = Cardinality(rows) + 1
        BY <1>1, <2>2, FS_AddElement DEF SessionsOf
      <3>5. Cardinality(rows') <= Cardinality(rows) + 1
        BY <3>1, <3>4, FS_Subset
      <3> QED
        BY <1>1, <1>3, <3>3, <3>5
    <2>5. CASE pc[p].user = u /\ pc[p].at = "expire"
      <3>1. rows' = {minted + 1}
        BY <1>7, <2>2, <2>5 DEF Inserts, SessionsOf
      <3>2. Cardinality(rows') = 1
        BY <3>1, FS_Singleton
      <3>3. logins' \subseteq Proc \ {p}
        BY <2>1 DEF Minting
      <3>4. IsFiniteSet(Proc \ {p}) /\ Cardinality(Proc \ {p}) = Cardinality(Proc) - 1
        BY ProcAssumption, FS_RemoveElement
      <3>5. Cardinality(logins') <= Cardinality(Proc) - 1
        BY <3>3, <3>4, FS_Subset
      <3> QED
        BY <1>1, <1>3, <3>2, <3>5
    <2>6. QED
      BY <1>7, <2>3, <2>4, <2>5 DEF Inserts
  <1>8. QED
    BY <1>6, <1>7

(* A session row belongs to a user that exists and was earned by a login   *)
(* its password allowed, and a user has no more sessions than logins that  *)
(* raced for one (sessions.py, admin.py).                                  *)
THEOREM SessionsSound == Spec => []SessionsAreSound
  <1>1. Init => SessionsAreEarned /\ RacersBounded
    <2> SUFFICES ASSUME Init
                 PROVE  SessionsAreEarned /\ RacersBounded
      OBVIOUS
    <2>1. DOMAIN sessions = {} /\ \A p \in Proc : pc[p].at # "mint"
      BY DEF Init, Idle
    <2>2. \A u \in User : SessionsOf(u) = {} /\ Minting(u) = {}
      BY <2>1 DEF SessionsOf, Minting
    <2>3. Cardinality({}) = 0 /\ Cardinality(Proc) \in Nat
      BY FS_EmptySet, FS_CardinalityType, ProcAssumption
    <2> QED
      <3>1. \A u \in User : Cardinality(SessionsOf(u)) = 0 /\ Cardinality(Minting(u)) = 0
        BY <2>2, <2>3
      <3> QED
        BY <2>1, <2>3, <3>1 DEF SessionsAreEarned, RacersBounded
  <1>2. Types /\ SessionsAreEarned /\ RacersBounded /\ [Next]_vars
          => SessionsAreEarned' /\ RacersBounded'
    <2>1. SessionsAreEarned /\ RacersBounded /\ UNCHANGED vars
            => SessionsAreEarned' /\ RacersBounded'
      BY DEF vars, SessionsAreEarned, RacersBounded, SessionsOf, Minting
    <2> QED
      BY <2>1, EarnedKept, RacersKept
  <1>3. Types /\ SessionsAreEarned /\ RacersBounded => SessionsAreSound
    <2> SUFFICES ASSUME Types, RacersBounded
                 PROVE  OneSessionPerRacer
      BY DEF SessionsAreSound, Types
    <2>1. /\ minted \in Nat
          /\ \A u \in User : SessionsOf(u) \subseteq 1 .. minted /\ Minting(u) \subseteq Proc
      BY TypesGive DEF Types, TypeOK, SessionsOf, Minting
    <2> QED
      BY <2>1, RacersAreFinite DEF RacersBounded, OneSessionPerRacer
  <1>4. QED
    BY <1>1, <1>2, <1>3, SessionsTypes, PTL DEF Spec

-----------------------------------------------------------------------------
(* Records of different ids.                                               *)
Unique(V) == \A x, y \in V : Key(x) = Key(y) => x = y
(* What a command can have read at time c: of each id that had reached the *)
(* database by then one record, the one that was there.                    *)
Snapshot(V, c) ==
  /\ V \subseteq ever /\ \A x \in V : x.when <= c
  /\ Unique(V)
  /\ \A x \in ever : x.when <= c => \E y \in V : Key(y) = Key(x)
(* Who had read V could make the record x.                                 *)
Allowed(V, x) ==
  /\ \A y \in V : y.seq < x.seq
  /\ x.status = "installed" => /\ Requires[x.manifest] \subseteq InstalledBundles(V)
                               /\ BundleOf(x) \notin InstalledBundles(V)
  /\ x.status = "uninstalled" => \A r \in Installed(V) : BundleOf(x) \notin Requires[r.manifest]
(* Each record that has reached the database was allowed by what its author*)
(* had read.                                                               *)
Written ==
  /\ IsFiniteSet(ever)
  /\ \A x \in ever :
       /\ x.since < x.when /\ x.when <= clock /\ x.seq <= x.when /\ x.status # "failed"
       /\ \E V \in SUBSET ever : Snapshot(V, x.since) /\ Allowed(V, x)
(* The records a command has read, and those it has made.                  *)
Loaded(p) == {x \in memory[p].records : x.when > 0}
Own(p) == {x \in memory[p].records : x.when = 0}
HasRead(p) == \/ at[p] \in {"loaded", "active", "writing", "raised"}
              \/ at[p] = "reading" /\ Skills \notin Range(todo[p])
(* What it has read is what there was when it did, and it has made one     *)
(* record at most, allowed by that.                                        *)
Copy(p) ==
  /\ since[p] <= clock /\ IsInjective(todo[p])
  /\ IF HasRead(p) THEN Snapshot(Loaded(p), since[p]) ELSE memory[p].records = {}
  /\ Own(p) # {} => at[p] \in {"writing", "raised"}
  /\ \A x \in Own(p) :
       /\ Own(p) = {x} /\ x.since = since[p] /\ Allowed(Loaded(p), x) /\ x.seq <= since[p] + 1
       /\ at[p] = "writing" => x.status # "failed"
(* The content is in the database, or a command is to write it or is known *)
(* to have died before it did.                                             *)
There(n) == \/ database.owner[n] # None
            \/ n \in torn
            \/ \E p \in Shell : at[p] = "writing" /\ memory[p].owner[n] # None
(* The content that goes with a record, and the graphs still to write.     *)
Carried(p) ==
  at[p] = "writing" =>
    /\ \A x \in Own(p) : x.status = "installed" =>
         \A n \in Content[x.manifest] : memory[p].owner[n] # None
    /\ \A n \in Node : memory[p].owner[n] # None =>
         database.owner[n] # None \/ RoleOf[n] \in Range(todo[p])
(* The inductive invariant of the skills.                                  *)
SkillsInv ==
  /\ SkillsTypeOK /\ Written /\ Snapshot(database.records, clock)
  /\ \A p \in Shell : Copy(p) /\ Carried(p)
  /\ \A x \in ever : x.status = "installed" => \A n \in Content[x.manifest] : There(n)
  /\ ActivatedInOrder

-----------------------------------------------------------------------------
(* In a finite set with a strict order, an element has fewer below it than *)
(* those that it is below.                                                 *)
LEMMA HasPositions ==
    ASSUME NEW S, IsFiniteSet(S), NEW R,
           \A s \in S : <<s, s>> \notin R,
           \A s, t, u \in S : <<s, t>> \in R /\ <<t, u>> \in R => <<s, u>> \in R
    PROVE  \E pos \in [S -> Nat] :
             /\ \A s, t \in S : <<s, t>> \in R => pos[s] < pos[t]
             /\ \A s \in S : pos[s] < Cardinality(S)
<1> DEFINE Below(t) == {s \in S : <<s, t>> \in R}
           pos == [t \in S |-> Cardinality(Below(t))]
<1>1. \A A, B : A \subseteq B /\ B \subseteq S /\ A # B =>
        /\ Cardinality(A) \in Nat /\ Cardinality(B) \in Nat
        /\ Cardinality(A) < Cardinality(B)
  <2> SUFFICES ASSUME NEW A, NEW B, A \subseteq B, B \subseteq S, A # B
               PROVE  /\ Cardinality(A) \in Nat /\ Cardinality(B) \in Nat
                      /\ Cardinality(A) < Cardinality(B)
    OBVIOUS
  <2>1. IsFiniteSet(B)
    BY FS_Subset
  <2>2. IsFiniteSet(A) /\ Cardinality(A) <= Cardinality(B) /\ Cardinality(A) # Cardinality(B)
    BY <2>1, FS_Subset
  <2>3. QED
    BY <2>1, <2>2, FS_CardinalityType
<1>2. \A t \in S : pos[t] \in Nat /\ pos[t] < Cardinality(S)
  BY <1>1
<1>3. \A s, t \in S : <<s, t>> \in R => pos[s] < pos[t]
  <2> SUFFICES ASSUME NEW s \in S, NEW t \in S, <<s, t>> \in R
               PROVE  pos[s] < pos[t]
    OBVIOUS
  <2>1. Below(s) \subseteq Below(t) /\ s \in Below(t) /\ s \notin Below(s) /\ Below(t) \subseteq S
    OBVIOUS
  <2>2. Below(s) # Below(t)
    BY <2>1
  <2>3. Cardinality(Below(s)) < Cardinality(Below(t))
    BY <1>1, <2>1, <2>2
  <2>4. QED
    BY <2>3
<1>4. QED
  BY <1>2, <1>3

(* It has an element with none below it.                                   *)
LEMMA HasLeast ==
    ASSUME NEW S, IsFiniteSet(S), S # {}, NEW R,
           \A s \in S : <<s, s>> \notin R,
           \A s, t, u \in S : <<s, t>> \in R /\ <<t, u>> \in R => <<s, u>> \in R
    PROVE  \E t \in S : \A s \in S : <<s, t>> \notin R
<1> DEFINE L == OpToRel(<, Nat)
<1>1. PICK pos \in [S -> Nat] : /\ \A s, t \in S : <<s, t>> \in R => pos[s] < pos[t]
                               /\ \A s \in S : pos[s] < Cardinality(S)
  BY HasPositions
<1>2. IsWellFoundedOn(L, Nat)
  BY NatLessThanWellFounded, Zenon
<1>3. \A x, y \in Nat : y < x => <<y, x>> \in L
  BY DEF OpToRel
<1> HIDE DEF L
<1> DEFINE T == {pos[t] : t \in S}
<1>4. T \subseteq Nat /\ T # {}
  OBVIOUS
<1>5. PICK n \in T : \A m \in T : <<m, n>> \notin L
  BY <1>2, <1>4, WFMin
<1>6. PICK t \in S : n = pos[t]
  OBVIOUS
<1>7. \A s \in S : <<s, t>> \notin R
  <2> SUFFICES ASSUME NEW s \in S, <<s, t>> \in R
               PROVE  FALSE
    OBVIOUS
  <2>1. pos[s] \in Nat /\ pos[t] \in Nat /\ pos[s] < pos[t] /\ pos[s] \in T
    BY <1>1
  <2>2. <<pos[s], pos[t]>> \in L
    BY <1>3, <2>1
  <2>3. QED
    BY <1>5, <1>6, <2>1, <2>2
<1>8. QED
  BY <1>7

(* If the order is total, the set can be put into a sequence.              *)
LEMMA HasSequence ==
    ASSUME NEW S, IsFiniteSet(S), NEW R,
           \A s \in S : <<s, s>> \notin R,
           \A s, t, u \in S : <<s, t>> \in R /\ <<t, u>> \in R => <<s, u>> \in R,
           \A s, t \in S : s # t => <<s, t>> \in R \/ <<t, s>> \in R
    PROVE  \E q \in [1 .. Cardinality(S) -> S] :
             \A i, j \in 1 .. Cardinality(S) : i < j => <<q[i], q[j]>> \in R
<1>1. PICK pos \in [S -> Nat] : /\ \A s, t \in S : <<s, t>> \in R => pos[s] < pos[t]
                               /\ \A s \in S : pos[s] < Cardinality(S)
  BY HasPositions
<1> DEFINE n == Cardinality(S)
           place == [s \in S |-> pos[s] + 1]
           q == [i \in 1 .. n |-> CHOOSE t \in S : place[t] = i]
<1>2. n \in Nat
  BY FS_CardinalityType
<1>3. place \in [S -> 1 .. n]
  BY <1>1, <1>2
<1>4. \A s, t \in S : <<s, t>> \in R => place[s] < place[t]
  BY <1>1
<1> HIDE DEF place
<1>5. \A s, t \in S : place[s] = place[t] => s = t
  <2> SUFFICES ASSUME NEW s \in S, NEW t \in S, place[s] = place[t], s # t
               PROVE  FALSE
    OBVIOUS
  <2>1. place[s] < place[t] \/ place[t] < place[s]
    BY <1>4
  <2>2. place[s] \in Nat /\ place[t] \in Nat
    BY <1>2, <1>3
  <2>3. QED
    BY <2>1, <2>2
<1>6. place \in Injection(S, 1 .. n)
  BY <1>3, <1>5 DEF Injection, IsInjective
<1>7. IsFiniteSet(1 .. n) /\ Cardinality(1 .. n) = n
  BY <1>2, FS_Interval
<1>8. place \in Surjection(S, 1 .. n)
  BY <1>6, <1>7, FS_Injection
<1>9. \A i \in 1 .. n : \E t \in S : place[t] = i
  BY <1>8 DEF Surjection
<1>10. \A i \in 1 .. n : q[i] \in S /\ place[q[i]] = i
  BY <1>9
<1> HIDE DEF q
<1>11. \A i, j \in 1 .. n : i < j => <<q[i], q[j]>> \in R
  <2> SUFFICES ASSUME NEW i \in 1 .. n, NEW j \in 1 .. n, i < j
               PROVE  <<q[i], q[j]>> \in R
    OBVIOUS
  <2>1. q[i] \in S /\ q[j] \in S /\ place[q[i]] = i /\ place[q[j]] = j
    BY <1>10
  <2>2. i # j /\ ~(j < i)
    BY <1>2
  <2>3. <<q[j], q[i]>> \notin R
    BY <1>4, <2>1, <2>2
  <2>4. QED
    BY <2>1, <2>2, <2>3
<1>12. q \in [1 .. n -> S]
  BY <1>10 DEF q
<1>13. QED
  BY <1>11, <1>12

(* Such a sequence leaves nothing out.                                     *)
LEMMA SequenceIsAll ==
    ASSUME NEW S, IsFiniteSet(S), NEW q \in [1 .. Cardinality(S) -> S], IsInjective(q)
    PROVE  \A s \in S : \E i \in DOMAIN q : q[i] = s
<1>1. Cardinality(S) \in Nat
  BY FS_CardinalityType
<1>2. IsFiniteSet(1 .. Cardinality(S)) /\ Cardinality(1 .. Cardinality(S)) = Cardinality(S)
  BY <1>1, FS_Interval
<1>3. q \in Injection(1 .. Cardinality(S), S)
  BY DEF Injection
<1>4. q \in Surjection(1 .. Cardinality(S), S)
  BY <1>2, <1>3, FS_Injection
<1>5. QED
  BY <1>4 DEF Surjection

-----------------------------------------------------------------------------
(* Later orders the records of different ids.                              *)
LEMMA LaterOrders ==
    ASSUME NEW r \in Record, NEW s \in Record
    PROVE  /\ ~Later(r, r)
           /\ Later(r, s) => ~Later(s, r)
           /\ \A t \in Record : Later(r, s) /\ Later(s, t) => Later(r, t)
           /\ Key(r) # Key(s) => Later(r, s) \/ Later(s, r)
<1>1. /\ r.seq \in Nat /\ s.seq \in Nat /\ r.manifest \in Manifest /\ s.manifest \in Manifest
      /\ Rank[r.manifest] \in Nat /\ Rank[s.manifest] \in Nat
  BY SkillsConstants DEF Record
<1>2. \A t \in Record : t.seq \in Nat /\ Rank[t.manifest] \in Nat
  BY SkillsConstants DEF Record
<1>3. r.manifest # s.manifest => Rank[r.manifest] # Rank[s.manifest]
  BY <1>1, SkillsConstants DEF IsInjective
<1>4. ~Later(r, r) /\ (Later(r, s) => ~Later(s, r))
  BY <1>1 DEF Later
<1>5. \A t \in Record : Later(r, s) /\ Later(s, t) => Later(r, t)
  BY <1>1, <1>2 DEF Later
<1>6. Key(r) # Key(s) => Later(r, s) \/ Later(s, r)
  BY <1>1, <1>3 DEF Later, Key
<1>7. QED
  BY <1>4, <1>5, <1>6


(* Of records of different ids one is the latest, and one the first.       *)
LEMMA HasLatest ==
    ASSUME NEW V \in SUBSET Record, IsFiniteSet(V), V # {}, Unique(V)
    PROVE  /\ \E t \in V : \A s \in V \ {t} : Later(t, s)
           /\ \E t \in V : \A s \in V \ {t} : Later(s, t)
<1> DEFINE Down == {e \in V \X V : Later(e[1], e[2])}
           Up == {e \in V \X V : Later(e[2], e[1])}
<1>1. \A s, t \in V : s # t => Later(s, t) \/ Later(t, s)
  BY LaterOrders DEF Unique
<1>2. \A s \in V : <<s, s>> \notin Down /\ <<s, s>> \notin Up
  BY LaterOrders
<1>3. \A s, t, u \in V : <<s, t>> \in Down /\ <<t, u>> \in Down => <<s, u>> \in Down
  BY LaterOrders
<1>4. \A s, t, u \in V : <<s, t>> \in Up /\ <<t, u>> \in Up => <<s, u>> \in Up
  BY LaterOrders
<1>5. PICK t \in V : \A s \in V : <<s, t>> \notin Down
  BY <1>2, <1>3, HasLeast
<1>6. PICK u \in V : \A s \in V : <<s, u>> \notin Up
  BY <1>2, <1>4, HasLeast
<1>7. QED
  BY <1>1, <1>5, <1>6

(* Before orders the installed records of a roster.                        *)
LEMMA BeforeOrders ==
    ASSUME NEW V \in SUBSET Record, IsFiniteSet(V), Unique(V)
    PROVE  /\ \A r \in Installed(V) : ~Before(V, r, r)
           /\ \A r, s, t \in Installed(V) : Before(V, r, s) /\ Before(V, s, t) => Before(V, r, t)
           /\ \A r, s \in Installed(V) : r # s => Before(V, r, s) \/ Before(V, s, r)
<1> DEFINE F(r) == FirstOf(V, r)
<1>1. \A r \in Installed(V) : F(r) \in Of(V, BundleOf(r))
  <2> TAKE r \in Installed(V)
  <2>1. /\ Of(V, BundleOf(r)) \subseteq V /\ r \in Of(V, BundleOf(r))
        /\ Of(V, BundleOf(r)) \in SUBSET Record
    BY DEF Installed, Of
  <2>2. IsFiniteSet(Of(V, BundleOf(r))) /\ Unique(Of(V, BundleOf(r)))
    BY <2>1, FS_Subset DEF Unique
  <2>3. \E f \in Of(V, BundleOf(r)) : \A s \in Of(V, BundleOf(r)) \ {f} : Later(s, f)
    BY <2>1, <2>2, HasLatest
  <2>4. QED
    BY <2>3 DEF FirstOf
<1>2. \A r \in Installed(V) : F(r) \in Record /\ r \in Record /\ r.seq \in Nat
  BY <1>1 DEF Of, Installed, Record
<1>3. \A r, s \in Installed(V) : r # s => BundleOf(r) # BundleOf(s)
  <2> SUFFICES ASSUME NEW r \in Installed(V), NEW s \in Installed(V), r # s,
                      BundleOf(r) = BundleOf(s)
               PROVE  FALSE
    OBVIOUS
  <2>1. Later(r, s) /\ Later(s, r)
    BY DEF Installed, IsLatest, Of
  <2>2. QED
    BY <1>2, <2>1, LaterOrders
<1>4. \A r, s \in Installed(V) : r # s => Key(F(r)) # Key(F(s))
  BY <1>1, <1>3 DEF Of, Key, BundleOf
<1> HIDE DEF F
<1>5. \A r, s \in Installed(V) :
        Before(V, r, s) <=> r.seq < s.seq \/ (r.seq = s.seq /\ Later(F(s), F(r)))
  BY DEF Before, F
<1>6. \A r \in Installed(V) : ~Before(V, r, r)
  BY <1>2, <1>5, LaterOrders
<1>7. ASSUME NEW r \in Installed(V), NEW s \in Installed(V), NEW t \in Installed(V),
             Before(V, r, s), Before(V, s, t)
      PROVE  Before(V, r, t)
  <2>1. Later(F(t), F(s)) /\ Later(F(s), F(r)) => Later(F(t), F(r))
    BY <1>2, LaterOrders
  <2>2. QED
    BY <1>2, <1>5, <1>7, <2>1
<1>8. ASSUME NEW r \in Installed(V), NEW s \in Installed(V), r # s
      PROVE  Before(V, r, s) \/ Before(V, s, r)
  <2>1. Later(F(r), F(s)) \/ Later(F(s), F(r))
    BY <1>2, <1>4, <1>8, LaterOrders
  <2>2. QED
    BY <1>2, <1>5, <2>1
<1>9. QED
  BY <1>6, <1>7, <1>8

(* A command that goes through installed records reaches each, in their    *)
(* order.                                                                  *)
LEMMA InOrderIs ==
    ASSUME NEW V \in SUBSET Record, IsFiniteSet(V), Unique(V), NEW W \in SUBSET Installed(V)
    PROVE  /\ InOrder(V, W) \in [1 .. Cardinality(W) -> W]
           /\ \A i, j \in 1 .. Cardinality(W) :
                i < j => Before(V, InOrder(V, W)[i], InOrder(V, W)[j])
           /\ \A w \in W : \E i \in 1 .. Cardinality(W) : InOrder(V, W)[i] = w
           /\ Cardinality(W) \in Nat
<1> DEFINE R == {e \in W \X W : Before(V, e[1], e[2])}
           q == InOrder(V, W)
<1>1. IsFiniteSet(W) /\ Cardinality(W) \in Nat
  BY FS_Subset, FS_CardinalityType DEF Installed
<1>2. \A s, t \in W : <<s, t>> \in R <=> Before(V, s, t)
  OBVIOUS
<1>3. /\ \A s \in W : <<s, s>> \notin R
      /\ \A s, t, u \in W : <<s, t>> \in R /\ <<t, u>> \in R => <<s, u>> \in R
      /\ \A s, t \in W : s # t => <<s, t>> \in R \/ <<t, s>> \in R
  <2> HIDE DEF R
  <2>1. QED
    BY <1>2, BeforeOrders
<1> HIDE DEF R
<1>4. \E f \in [1 .. Cardinality(W) -> W] :
        \A i, j \in 1 .. Cardinality(W) : i < j => <<f[i], f[j]>> \in R
  <2>1. IsFiniteSet(W)
    BY <1>1
  <2>2. \A s \in W : <<s, s>> \notin R
    BY <1>3
  <2>3. \A s, t, u \in W : <<s, t>> \in R /\ <<t, u>> \in R => <<s, u>> \in R
    BY <1>3
  <2>4. \A s, t \in W : s # t => <<s, t>> \in R \/ <<t, s>> \in R
    BY <1>3
  <2>5. QED
    BY <2>1, <2>2, <2>3, <2>4, HasSequence
<1>5. \E f \in [1 .. Cardinality(W) -> W] :
        \A i, j \in DOMAIN f : i < j => Before(V, f[i], f[j])
  BY <1>2, <1>4
<1>6. /\ q \in [1 .. Cardinality(W) -> W]
      /\ \A i, j \in DOMAIN q : i < j => Before(V, q[i], q[j])
  BY <1>5 DEF InOrder
<1> HIDE DEF q
<1>7. IsInjective(q)
  <2> SUFFICES ASSUME NEW i \in 1 .. Cardinality(W), NEW j \in 1 .. Cardinality(W),
                      q[i] = q[j], i # j
               PROVE  FALSE
    BY <1>6 DEF IsInjective
  <2>1. i < j \/ j < i
    BY <1>1
  <2>2. q[i] \in Installed(V)
    BY <1>6
  <2>3. Before(V, q[i], q[i])
    BY <1>6, <2>1
  <2>4. QED
    BY <2>2, <2>3, BeforeOrders
<1>8. \A w \in W : \E i \in 1 .. Cardinality(W) : q[i] = w
  BY <1>1, <1>6, <1>7, SequenceIsAll
<1>9. QED
  BY <1>1, <1>6, <1>8 DEF q

-----------------------------------------------------------------------------
(* A roster as a command could have read it meets its dependencies, if the *)
(* earlier ones did.                                                       *)
LEMMA MetStep ==
    ASSUME ever \in SUBSET Record, Written, NEW c \in Nat, NEW V, Snapshot(V, c),
           \A d \in Nat : \A U : d < c /\ Snapshot(U, d) => Met(U)
    PROVE  Met(V)
<1> SUFFICES ASSUME NEW r \in Installed(V), NEW a \in Requires[r.manifest], ~Disturbed(V, r, a)
             PROVE  \E s \in Installed(V) : BundleOf(s) = a /\ s.seq < r.seq
  BY DEF Met
<1>1. \A x \in ever : /\ x \in Record /\ x.since \in Nat /\ x.when \in Nat /\ x.seq \in Nat
                       /\ x.since < x.when
  BY DEF Written, Record
<1>2. r \in V /\ r \in ever /\ r.status = "installed" /\ r.when <= c /\ IsLatest(V, r) /\ ~Twin(r)
  BY DEF Installed, Snapshot, Disturbed
<1>3. \A x \in ever : x.when <= c => \E z \in V : z \in ever /\ Key(z) = Key(x)
  BY DEF Snapshot
<1>4. \A z \in V : BundleOf(z) = a => ~Raced(r, z) /\ ~Twin(z)
  BY DEF Disturbed, Of
<1>5. \A x, z \in ever : Key(z) = Key(x) /\ ~Twin(z) => x = z
  BY DEF Twin
<1>6. \A x, z \in ever : Key(z) = Key(x) =>
        BundleOf(z) = BundleOf(x) /\ z.seq = x.seq /\ z.manifest = x.manifest
  BY DEF Key, BundleOf
<1>7. PICK Vr \in SUBSET ever : Snapshot(Vr, r.since) /\ Allowed(Vr, r)
  BY <1>2 DEF Written
<1>8. PICK o \in Installed(Vr) : BundleOf(o) = a
  BY <1>2, <1>7 DEF Allowed, InstalledBundles
<1>9. o \in Vr /\ o \in ever /\ o.when <= r.since /\ o.status = "installed" /\ IsLatest(Vr, o)
  BY <1>7, <1>8 DEF Installed, Snapshot
<1>10. o.when <= c
  BY <1>1, <1>2, <1>9
<1>11. o \in V
  BY <1>3, <1>4, <1>5, <1>6, <1>8, <1>9, <1>10
<1>12. PICK t \in Of(V, a) : \A s \in Of(V, a) \ {t} : Later(t, s)
  <2>1. Of(V, a) \in SUBSET Record /\ Of(V, a) # {} /\ Of(V, a) \subseteq ever
    BY <1>8, <1>11 DEF Of, Snapshot
  <2>2. IsFiniteSet(Of(V, a))
    BY <2>1, FS_Subset DEF Written
  <2>3. Unique(Of(V, a))
    BY DEF Unique, Of, Snapshot
  <2>4. QED
    BY <2>1, <2>2, <2>3, HasLatest
<1>13. t \in V /\ t \in ever /\ BundleOf(t) = a /\ t.when <= c /\ IsLatest(V, t)
  BY <1>12 DEF Of, Snapshot, IsLatest
<1>14. CASE t.when <= r.since
  <2>1. t \in Vr
    BY <1>4, <1>5, <1>7, <1>13, <1>14 DEF Snapshot
  <2>2. t = o
    <3> SUFFICES ASSUME t # o
                 PROVE  FALSE
      OBVIOUS
    <3>1. Later(o, t)
      BY <1>8, <1>9, <1>13, <2>1 DEF IsLatest, Of
    <3>2. Later(t, o)
      BY <1>8, <1>11, <1>12 DEF Of
    <3>3. QED
      BY <1>1, <1>9, <1>13, <3>1, <3>2, LaterOrders
  <2>3. t \in Installed(V) /\ t.seq < r.seq
    BY <1>7, <1>9, <1>13, <2>1, <2>2 DEF Installed, Allowed
  <2>4. QED
    BY <1>13, <2>3
<1>15. CASE r.when <= t.since
  <2>1. PICK Vt \in SUBSET ever : Snapshot(Vt, t.since) /\ Allowed(Vt, t)
    BY <1>13 DEF Written
  <2>2. t.since < c
    BY <1>1, <1>13
  <2>3. r \in Vt
    BY <1>2, <1>5, <1>15, <2>1 DEF Snapshot
  <2>4. \A s \in Vt : s \in ever /\ \E z \in V : z \in ever /\ Key(z) = Key(s)
    <3> TAKE s \in Vt
    <3>1. s \in ever /\ s.when <= t.since
      BY <2>1 DEF Snapshot
    <3>2. s.when <= c
      BY <1>1, <1>13, <2>2, <3>1
    <3>3. QED
      BY <1>3, <3>1, <3>2
  <2>5. IsLatest(Vt, r)
    <3> SUFFICES ASSUME NEW s \in Vt, BundleOf(s) = BundleOf(r), s # r
                 PROVE  Later(r, s)
      BY DEF IsLatest, Of
    <3>1. PICK z \in V : z \in ever /\ Key(z) = Key(s)
      BY <2>4
    <3>2. Key(s) # Key(r)
      BY <2>1, <2>3 DEF Snapshot, Unique
    <3>3. Later(r, z)
      BY <1>2, <1>6, <2>4, <3>1, <3>2 DEF IsLatest, Of
    <3>4. QED
      BY <1>6, <2>4, <3>1, <3>3 DEF Later
  <2>6. r \in Installed(Vt)
    BY <1>2, <2>3, <2>5 DEF Installed
  <2>7. t.status = "installed"
    <3>1. t.status # "uninstalled"
      BY <1>13, <2>1, <2>6 DEF Allowed
    <3>2. QED
      BY <1>13, <3>1 DEF Written, Record
  <2>8. Disturbed(Vt, r, a)
    <3>1. Met(Vt)
      BY <1>1, <1>13, <2>1, <2>2
    <3>2. ~\E s \in Installed(Vt) : BundleOf(s) = a
      BY <1>13, <2>1, <2>7 DEF Allowed, InstalledBundles
    <3>3. QED
      BY <2>6, <3>1, <3>2 DEF Met
  <2>9. PICK s \in Vt : BundleOf(s) = a /\ (Raced(r, s) \/ Twin(s))
    BY <1>2, <2>8 DEF Disturbed, Of
  <2>10. PICK z \in V : z \in ever /\ Key(z) = Key(s)
    BY <2>4
  <2>11. BundleOf(z) = a
    BY <1>6, <2>4, <2>9, <2>10
  <2>12. s = z
    BY <1>4, <1>5, <2>4, <2>10, <2>11
  <2>13. QED
    BY <1>4, <2>9, <2>11, <2>12
<1>16. t.when <= r.since \/ r.when <= t.since
  BY <1>1, <1>2, <1>4, <1>13 DEF Raced
<1>17. QED
  BY <1>14, <1>15, <1>16

(* A roster as a command could have read it meets its dependencies.        *)
LEMMA SnapshotsAreMet ==
    ASSUME ever \in SUBSET Record, Written
    PROVE  \A c \in Nat : \A V : Snapshot(V, c) => Met(V)
<1> DEFINE Bad == {c \in Nat : \E V : Snapshot(V, c) /\ ~Met(V)}
           L == OpToRel(<, Nat)
<1> SUFFICES ASSUME Bad # {}
             PROVE  FALSE
  OBVIOUS
<1>1. IsWellFoundedOn(L, Nat)
  BY NatLessThanWellFounded, Zenon
<1>2. \A x, y \in Nat : y < x => <<y, x>> \in L
  BY DEF OpToRel
<1> HIDE DEF L
<1>3. Bad \subseteq Nat
  OBVIOUS
<1>4. PICK c \in Bad : \A d \in Bad : <<d, c>> \notin L
  <2> HIDE DEF Bad
  <2>1. QED
    BY <1>1, <1>3, WFMin
<1>5. \A d \in Nat : \A U : d < c /\ Snapshot(U, d) => Met(U)
  BY <1>2, <1>4
<1>6. QED
  BY <1>5, MetStep

-----------------------------------------------------------------------------
(* A step of command p.                                                    *)
Act(p) ==
  \/ Open(p) \/ ReadGraph(p) \/ WriteGraph(p) \/ Exit(p) \/ Crash(p)
  \/ \E m \in Manifest : \/ InstallAgain(p, m) \/ Install(p, m)
                         \/ InstallFails(p, m) \/ Uninstall(p, m)
  \/ \E absent \in SUBSET Bundle, strict \in BOOLEAN : Activate(p, absent, strict)

(* The other commands are where they were.                                 *)
LEMMA OthersStay ==
    ASSUME SkillsTypeOK, NEW q \in Shell, Act(q)
    PROVE  /\ \A p \in Shell \ {q} :
                /\ memory'[p] = memory[p] /\ at'[p] = at[p] /\ todo'[p] = todo[p]
                /\ active'[p] = active[p] /\ since'[p] = since[p]
           /\ order' = order
<1>1. CASE Open(q) \/ Exit(q) \/ Crash(q)
  BY <1>1 DEF Open, Exit, Crash, Forget, Become, Keep, Traces, SkillsTypeOK
<1>2. CASE ReadGraph(q)
  BY <1>2 DEF ReadGraph, Become, Keep, SkillsTypeOK
<1>3. CASE WriteGraph(q)
  BY <1>3 DEF WriteGraph, Forget, Become, Keep, SkillsTypeOK
<1>4. ASSUME NEW m \in Manifest,
             InstallAgain(q, m) \/ Install(q, m) \/ InstallFails(q, m) \/ Uninstall(q, m)
      PROVE  /\ \A p \in Shell \ {q} :
                  /\ memory'[p] = memory[p] /\ at'[p] = at[p] /\ todo'[p] = todo[p]
                  /\ active'[p] = active[p] /\ since'[p] = since[p]
             /\ order' = order
  BY <1>4 DEF InstallAgain, Install, InstallFails, Uninstall, Persist, Become, Keep, Traces,
              SkillsTypeOK
<1>5. ASSUME NEW absent, NEW strict, Activate(q, absent, strict)
      PROVE  /\ \A p \in Shell \ {q} :
                  /\ memory'[p] = memory[p] /\ at'[p] = at[p] /\ todo'[p] = todo[p]
                  /\ active'[p] = active[p] /\ since'[p] = since[p]
             /\ order' = order
  BY <1>5 DEF Activate, Become, Traces, SkillsTypeOK
<1>6. QED
  BY <1>1, <1>2, <1>3, <1>4, <1>5 DEF Act

(* Only the write of the roster touches the records of the database.       *)
Rosters(q) == WriteGraph(q) /\ Head(todo[q]) = Skills
LEMMA RecordsStay ==
    ASSUME SkillsTypeOK, NEW q \in Shell, Act(q), ~Rosters(q)
    PROVE  ever' = ever /\ clock' = clock /\ database'.records = database.records
<1>1. CASE Open(q) \/ Exit(q) \/ Crash(q)
  BY <1>1 DEF Open, Exit, Crash, Traces
<1>2. CASE ReadGraph(q)
  BY <1>2 DEF ReadGraph
<1>3. CASE WriteGraph(q)
  <2>1. /\ ever' = ever /\ clock' = clock
        /\ \E o, m : database' = [database EXCEPT !.owner = o, !.marked = m]
    BY <1>3 DEF WriteGraph, Rosters
  <2>2. QED
    BY <2>1 DEF SkillsTypeOK, Global
<1>4. ASSUME NEW m \in Manifest,
             InstallAgain(q, m) \/ Install(q, m) \/ InstallFails(q, m) \/ Uninstall(q, m)
      PROVE  ever' = ever /\ clock' = clock /\ database' = database
  BY <1>4 DEF InstallAgain, Install, InstallFails, Uninstall, Traces
<1>5. ASSUME NEW absent, NEW strict, Activate(q, absent, strict)
      PROVE  ever' = ever /\ clock' = clock /\ database' = database
  BY <1>5 DEF Activate, Traces
<1>6. QED
  BY <1>1, <1>2, <1>3, <1>4, <1>5 DEF Act

(* What a command that writes puts into the roster: what it has read, and  *)
(* the record it has made, with the time.                                  *)
Minted(x) == [x EXCEPT !.when = clock + 1]
LEMMA StampedIs ==
    ASSUME SkillsInv, NEW p \in Shell, at[p] = "writing"
    PROVE  /\ Loaded(p) \subseteq ever /\ Snapshot(Loaded(p), since[p])
           /\ memory[p].records = Loaded(p) \cup Own(p)
           /\ Stamped(p) = Loaded(p) \cup {Minted(x) : x \in Own(p)}
           /\ memory[p].records \subseteq Record
           /\ \A x \in Own(p) : /\ x \in Record /\ Own(p) = {x} /\ Minted(x) \in Record
                               /\ Minted(x).since = x.since /\ Minted(x).seq = x.seq
                               /\ Minted(x).status = x.status /\ Minted(x).manifest = x.manifest
                               /\ Minted(x).when = clock + 1 /\ Key(Minted(x)) = Key(x)
                               /\ BundleOf(Minted(x)) = BundleOf(x)
<1>1. Copy(p) /\ HasRead(p) /\ clock \in Nat
  BY DEF SkillsInv, HasRead, SkillsTypeOK
<1>2. Snapshot(Loaded(p), since[p]) /\ \A x \in Own(p) : Own(p) = {x}
  BY <1>1 DEF Copy
<1>3. memory[p].records \subseteq Record
  BY DEF SkillsInv, SkillsTypeOK, Global
<1>4. memory[p].records = Loaded(p) \cup Own(p)
  BY <1>3 DEF Loaded, Own, Record
<1>5. \A x \in Record : /\ Minted(x) \in Record
                       /\ Minted(x).since = x.since /\ Minted(x).seq = x.seq
                       /\ Minted(x).status = x.status /\ Minted(x).manifest = x.manifest
                       /\ Minted(x).when = clock + 1
  BY <1>1 DEF Minted, Record
<1>6. Stamped(p) = Loaded(p) \cup {Minted(x) : x \in Own(p)}
  BY <1>3, <1>4 DEF Stamped, Loaded, Own, Minted, Record
<1>7. QED
  BY <1>2, <1>3, <1>4, <1>5, <1>6 DEF Snapshot, Own, Key, BundleOf

(* What the write of the roster does to the records.                       *)
LEMMA RosterIs ==
    ASSUME SkillsInv, NEW q \in Shell, Rosters(q)
    PROVE  /\ at[q] = "writing" /\ database'.records = MergedRecords(q)
           /\ \/ Own(q) = {} /\ ever' = ever /\ clock' = clock
              \/ \E x \in Own(q) : ever' = ever \cup {Minted(x)} /\ clock' = clock + 1
<1>1. /\ at[q] = "writing" /\ database' = [database EXCEPT !.records = MergedRecords(q)]
      /\ clock' = IF Stamped(q) = memory[q].records THEN clock ELSE clock + 1
      /\ ever' = ever \cup Stamped(q)
  BY DEF Rosters, WriteGraph
<1>2. database'.records = MergedRecords(q)
  BY <1>1 DEF SkillsInv, SkillsTypeOK, Global
<1>3. CASE Own(q) = {}
  <2>1. /\ memory[q].records = Loaded(q) \cup Own(q)
        /\ Stamped(q) = Loaded(q) \cup {Minted(x) : x \in Own(q)}
        /\ Loaded(q) \subseteq ever
    BY <1>1, StampedIs
  <2>2. Stamped(q) = memory[q].records /\ Stamped(q) \subseteq ever
    BY <1>3, <2>1
  <2>3. QED
    BY <1>1, <1>2, <1>3, <2>2
<1>4. CASE Own(q) # {}
  <2>1. PICK x \in Own(q) : TRUE
    BY <1>4
  <2>2. Own(q) = {x} /\ Minted(x).when = clock + 1 /\ clock \in Nat
    BY <1>1, <2>1, StampedIs DEF SkillsInv, SkillsTypeOK
  <2>3. ever' = ever \cup {Minted(x)}
    BY <1>1, <2>2, StampedIs
  <2>4. x \in memory[q].records /\ x \notin Stamped(q)
    <3>1. x \in memory[q].records /\ x.when = 0
      BY <2>1 DEF Own
    <3>2. Stamped(q) = Loaded(q) \cup {Minted(x)}
      BY <1>1, <2>2, StampedIs
    <3>3. Minted(x) # x
      BY <2>2, <3>1
    <3>4. QED
      BY <3>1, <3>2, <3>3 DEF Loaded
  <2>5. QED
    BY <1>1, <1>2, <2>1, <2>3, <2>4
<1>5. QED
  BY <1>3, <1>4

-----------------------------------------------------------------------------
(* The history grows: what is new in it has the time of its write.         *)
LEMMA EverStep ==
    ASSUME SkillsInv, NEW q \in Shell, Act(q)
    PROVE  /\ clock \in Nat /\ clock' \in Nat /\ clock <= clock'
           /\ ever \subseteq Record /\ ever' \subseteq Record /\ ever \subseteq ever'
           /\ \A x \in ever' : x.when <= clock => x \in ever
<1>1. clock \in Nat /\ ever \subseteq Record
  BY DEF SkillsInv, SkillsTypeOK
<1>2. CASE ~Rosters(q)
  BY <1>1, <1>2, RecordsStay DEF SkillsInv
<1>3. CASE Rosters(q)
  <2>1. at[q] = "writing"
    BY <1>3, RosterIs
  <2>2. CASE ever' = ever /\ clock' = clock
    BY <1>1, <2>2
  <2>3. ASSUME NEW x \in Own(q), ever' = ever \cup {Minted(x)}, clock' = clock + 1
        PROVE  /\ clock' \in Nat /\ clock <= clock'
               /\ ever' \subseteq Record /\ ever \subseteq ever'
               /\ \A y \in ever' : y.when <= clock => y \in ever
    <3>1. Minted(x) \in Record /\ Minted(x).when = clock + 1
      BY <2>1, StampedIs
    <3>2. ~(clock + 1 <= clock)
      BY <1>1
    <3>3. QED
      BY <1>1, <2>3, <3>1, <3>2
  <2>4. QED
    BY <1>1, <1>3, <2>2, <2>3, RosterIs
<1>4. QED
  BY <1>2, <1>3

(* What could have been read at some time is the same for ever.            *)
LEMMA SnapshotStep ==
    ASSUME SkillsInv, NEW q \in Shell, Act(q)
    PROVE  \A c \in Nat : \A V : (c <= clock /\ Snapshot(V, c)) => Snapshot(V, c)'
<1> SUFFICES ASSUME NEW c \in Nat, NEW V, c <= clock, Snapshot(V, c)
             PROVE  Snapshot(V, c)'
  OBVIOUS
<1>1. /\ ever \subseteq ever' /\ ever' \subseteq Record /\ clock \in Nat
      /\ \A x \in ever' : x.when <= clock => x \in ever
  BY EverStep
<1>2. \A x \in ever' : x.when <= c => x \in ever
  BY <1>1 DEF Record
<1>3. QED
  BY <1>1, <1>2 DEF Snapshot, Unique, Key

(* A twin stays a twin.                                                    *)
LEMMA DisturbedStays ==
    ASSUME SkillsInv, NEW q \in Shell, Act(q)
    PROVE  \A V, r, a : Disturbed(V, r, a) => Disturbed(V, r, a)'
<1>1. ever \subseteq ever'
  BY EverStep
<1>2. \A r : Twin(r) => Twin(r)'
  BY <1>1 DEF Twin, Key
<1>3. QED
  BY <1>2 DEF Disturbed, Of, Raced, BundleOf

(* The records that a command has read, and the seq of the one it will     *)
(* make.                                                                   *)
LEMMA NextSeqIs ==
    ASSUME SkillsInv, NEW p \in Shell, at[p] = "loaded"
    PROVE  /\ memory[p].records = Loaded(p) /\ Own(p) = {}
           /\ Snapshot(memory[p].records, since[p])
           /\ NextSeq(memory[p].records) \in Nat
           /\ NextSeq(memory[p].records) <= since[p] + 1
           /\ \A y \in memory[p].records : y.seq < NextSeq(memory[p].records)
<1> DEFINE V == memory[p].records
<1>1. Copy(p) /\ HasRead(p) /\ since[p] \in Nat /\ V \in SUBSET Record
  BY DEF SkillsInv, HasRead, SkillsTypeOK, Global
<1>2. Own(p) = {}
  BY <1>1 DEF Copy
<1>3. V = Loaded(p)
  BY <1>1, <1>2 DEF Loaded, Own, Record
<1>4. Snapshot(V, since[p])
  BY <1>1, <1>3 DEF Copy
<1>5. IsFiniteSet(V) /\ Unique(V)
  BY <1>4, FS_Subset DEF Snapshot, SkillsInv, Written
<1>6. \A y \in V : y.seq \in Nat /\ y.seq <= since[p]
  <2> TAKE y \in V
  <2>1. y.seq <= y.when /\ y.when <= since[p]
    BY <1>4 DEF SkillsInv, Written, Snapshot
  <2>2. y.seq \in Nat /\ y.when \in Nat
    BY <1>1 DEF Record
  <2>3. QED
    BY <1>1, <2>1, <2>2
<1>7. CASE V = {}
  BY <1>1, <1>2, <1>3, <1>4, <1>7 DEF NextSeq
<1>8. CASE V # {}
  <2> DEFINE S == {y.seq : y \in V}
  <2>1. PICK t \in V : \A s \in V \ {t} : Later(t, s)
    BY <1>1, <1>5, <1>8, HasLatest
  <2>2. \A s \in V : t.seq >= s.seq
    BY <1>6, <2>1 DEF Later
  <2>3. \E n \in S : \A k \in S : n >= k
    BY <2>2
  <2>4. Max(S) \in S /\ \A k \in S : Max(S) >= k
    BY <2>3 DEF Max
  <2>5. Max(S) \in Nat /\ Max(S) <= since[p] /\ \A y \in V : Max(S) >= y.seq
    BY <1>6, <2>4
  <2>6. NextSeq(V) = 1 + Max(S)
    BY <1>8 DEF NextSeq
  <2> HIDE DEF S
  <2>7. NextSeq(V) \in Nat /\ NextSeq(V) <= since[p] + 1
    BY <1>1, <2>5, <2>6
  <2>8. \A y \in V : y.seq < NextSeq(V)
    BY <1>6, <2>5, <2>6
  <2>9. QED
    BY <1>2, <1>3, <1>4, <2>7, <2>8
<1>9. QED
  BY <1>7, <1>8

-----------------------------------------------------------------------------
(* The records that are written were allowed by what their authors had     *)
(* read.                                                                   *)
LEMMA WrittenKept ==
    ASSUME SkillsInv, NEW q \in Shell, Act(q)
    PROVE  Written'
<1>1. /\ clock \in Nat /\ clock' \in Nat /\ clock <= clock' /\ ever \subseteq ever'
      /\ ever \subseteq Record
  BY EverStep
<1>2. \A x \in ever : /\ x.since \in Nat /\ x.when \in Nat /\ x.since < x.when /\ x.when <= clock
                       /\ x.seq <= x.when /\ x.status # "failed"
                       /\ \E V \in SUBSET ever : Snapshot(V, x.since) /\ Allowed(V, x)
  BY <1>1 DEF SkillsInv, Written, Record
<1>3. \A V, x : Allowed(V, x) => Allowed(V, x)'
  BY DEF Allowed, InstalledBundles, Installed, IsLatest, Of, BundleOf, Later
<1>4. ASSUME NEW x \in ever
      PROVE  /\ x.since < x.when /\ x.when <= clock' /\ x.seq <= x.when /\ x.status # "failed"
             /\ \E V \in SUBSET ever' : Snapshot(V, x.since)' /\ Allowed(V, x)'
  <2>1. x.since <= clock /\ x.when <= clock'
    BY <1>1, <1>2
  <2>2. PICK V \in SUBSET ever : Snapshot(V, x.since) /\ Allowed(V, x)
    BY <1>2
  <2>3. Snapshot(V, x.since)'
    BY <1>2, <2>1, <2>2, SnapshotStep
  <2>4. QED
    BY <1>1, <1>2, <1>3, <2>1, <2>2, <2>3
<1>5. IsFiniteSet(ever)
  BY DEF SkillsInv, Written
<1>6. CASE ever' = ever
  BY <1>4, <1>5, <1>6 DEF Written
<1>7. ASSUME Rosters(q), NEW x \in Own(q), ever' = ever \cup {Minted(x)}, clock' = clock + 1
      PROVE  Written'
  <2>1. at[q] = "writing" /\ Copy(q) /\ since[q] \in Nat
    BY <1>7, RosterIs DEF SkillsInv, SkillsTypeOK
  <2>2. /\ x.since = since[q] /\ since[q] <= clock /\ x.seq <= since[q] + 1
        /\ x.status # "failed" /\ Allowed(Loaded(q), x)
    BY <1>7, <2>1 DEF Copy
  <2>3. /\ Minted(x) \in Record /\ x \in Record
        /\ Minted(x).since = x.since /\ Minted(x).seq = x.seq /\ Minted(x).status = x.status
        /\ Minted(x).manifest = x.manifest /\ Minted(x).when = clock + 1
    BY <1>7, <2>1, StampedIs
  <2>4. x.seq \in Nat
    BY <2>3 DEF Record
  <2>5. /\ Minted(x).since < Minted(x).when /\ Minted(x).when <= clock'
        /\ Minted(x).seq <= Minted(x).when /\ Minted(x).status # "failed"
    BY <1>1, <1>7, <2>1, <2>2, <2>3, <2>4
  <2>6. PICK V : V = Loaded(q)
    OBVIOUS
  <2>7. Snapshot(V, since[q])
    BY <1>7, <2>1, <2>6, StampedIs
  <2>8. PICK y : y = Minted(x)
    OBVIOUS
  <2>9. Allowed(V, y)
    BY <2>2, <2>3, <2>6, <2>8 DEF Allowed, BundleOf
  <2>10. PICK c : c = since[q]
    OBVIOUS
  <2>11. Snapshot(V, c)' /\ V \in SUBSET ever'
    BY <1>1, <2>1, <2>2, <2>7, <2>10, SnapshotStep DEF Snapshot
  <2>12. \E W \in SUBSET ever' : Snapshot(W, y.since)' /\ Allowed(W, y)'
    BY <1>3, <2>2, <2>3, <2>8, <2>9, <2>10, <2>11
  <2>13. IsFiniteSet(ever')
    BY <1>5, <1>7, FS_AddElement
  <2>14. QED
    BY <1>4, <1>7, <2>5, <2>8, <2>12, <2>13 DEF Written
<1>8. QED
  BY <1>6, <1>7, RecordsStay, RosterIs DEF SkillsInv

(* The roster in the database has a record of each id there ever was.      *)
LEMMA StoreKept ==
    ASSUME SkillsInv, NEW q \in Shell, Act(q)
    PROVE  Snapshot(database.records, clock)'
<1>1. /\ clock \in Nat /\ clock' \in Nat /\ clock <= clock' /\ ever \subseteq ever'
      /\ ever \subseteq Record /\ ever' \subseteq Record
      /\ \A x \in ever' : x.when <= clock => x \in ever
  BY EverStep
<1>2. Snapshot(database.records, clock)
  BY DEF SkillsInv
<1>3. CASE ~Rosters(q)
  BY <1>2, <1>3, RecordsStay DEF Snapshot, Unique, Key, SkillsInv
<1>4. CASE Rosters(q)
  <2> DEFINE D == database.records
             S == Stamped(q)
             M == MergedRecords(q)
  <2>1. at[q] = "writing" /\ database'.records = M /\ Copy(q)
    BY <1>4, RosterIs DEF SkillsInv
  <2>2. M = S \cup {r \in D : \A s \in S : Key(s) # Key(r)}
    BY DEF MergedRecords
  <2>3. /\ Loaded(q) \subseteq ever /\ Unique(Loaded(q))
        /\ S = Loaded(q) \cup {Minted(x) : x \in Own(q)}
    BY <2>1, StampedIs DEF Snapshot
  <2>4. \A x \in Own(q) : /\ Own(q) = {x} /\ Key(Minted(x)) = Key(x) /\ x \in Record
                          /\ \A y \in Loaded(q) : y.seq < x.seq
    BY <2>1, StampedIs DEF Copy, Allowed
  <2>5. \A x \in Own(q) : \A y \in Loaded(q) : Key(y) # Key(Minted(x))
    <3> TAKE x \in Own(q)
    <3> TAKE y \in Loaded(q)
    <3>1. y.seq < x.seq /\ y.seq \in Nat /\ x.seq \in Nat
      BY <1>1, <2>3, <2>4 DEF Record
    <3>2. y.seq # x.seq
      BY <3>1
    <3>3. QED
      BY <2>4, <3>2 DEF Key
  <2>6. Unique(S)
    BY <2>3, <2>4, <2>5 DEF Unique
  <2> HIDE DEF S, M
  <2>7. Unique(M)
    BY <1>2, <2>2, <2>6 DEF Unique, Snapshot
  <2>8. S \subseteq ever' /\ ever' \subseteq ever \cup S /\ \A x \in ever' : x.when <= clock'
    <3>1. CASE Own(q) = {} /\ ever' = ever /\ clock' = clock
      BY <2>3, <3>1 DEF SkillsInv, Written
    <3>2. ASSUME NEW x \in Own(q), ever' = ever \cup {Minted(x)}, clock' = clock + 1
          PROVE  S \subseteq ever' /\ ever' \subseteq ever \cup S /\ \A y \in ever' : y.when <= clock'
      <4>1. Minted(x).when = clock + 1 /\ Own(q) = {x}
        BY <2>1, StampedIs
      <4>2. \A y \in ever : y.when <= clock /\ y.when \in Nat
        BY <1>1 DEF SkillsInv, Written, Record
      <4>3. \A y \in ever' : y.when <= clock'
        BY <1>1, <3>2, <4>1, <4>2
      <4>4. QED
        BY <2>3, <3>2, <4>1, <4>3
    <3>3. QED
      BY <1>4, <3>1, <3>2, RosterIs
  <2>9. \A x \in ever : x.when <= clock /\ \E y \in D : Key(y) = Key(x)
    BY <1>2 DEF Snapshot, SkillsInv, Written
  <2>10. \A x \in ever' : \E y \in M : Key(y) = Key(x)
    <3> TAKE x \in ever'
    <3>1. CASE x \in S
      BY <2>2, <3>1
    <3>2. CASE x \in ever
      <4>1. PICK y \in D : Key(y) = Key(x)
        BY <2>9, <3>2
      <4>2. CASE \E s \in S : Key(s) = Key(y)
        BY <2>2, <4>1, <4>2
      <4>3. CASE \A s \in S : Key(s) # Key(y)
        BY <2>2, <4>1, <4>3
      <4>4. QED
        BY <4>2, <4>3
    <3>3. QED
      BY <2>8, <3>1, <3>2
  <2>11. M \subseteq ever'
    BY <1>1, <1>2, <2>2, <2>8 DEF Snapshot
  <2>12. QED
    BY <2>1, <2>7, <2>8, <2>10, <2>11 DEF Snapshot, Unique, Key
<1>5. QED
  BY <1>3, <1>4

-----------------------------------------------------------------------------
(* The rest of the graphs that a command has to read or write.             *)
LEMMA RestIs ==
    ASSUME NEW S, NEW t \in Seq(S), t # <<>>, IsInjective(t)
    PROVE  /\ Head(t) \in S /\ Tail(t) \in Seq(S) /\ IsInjective(Tail(t))
           /\ Range(Tail(t)) = Range(t) \ {Head(t)}
           /\ Len(t) > 1 <=> Tail(t) # <<>>
<1>1. /\ Len(t) \in Nat /\ Len(t) >= 1 /\ DOMAIN t = 1 .. Len(t)
      /\ \A i \in 1 .. Len(t) : t[i] \in S
  OBVIOUS
<1>2. /\ Head(t) = t[1] /\ Tail(t) \in Seq(S) /\ Len(Tail(t)) = Len(t) - 1
      /\ \A i \in 1 .. Len(t) - 1 : Tail(t)[i] = t[i + 1]
  BY <1>1
<1>3. DOMAIN Tail(t) = 1 .. Len(t) - 1
  BY <1>2
<1> DEFINE u == Tail(t)
<1> HIDE DEF u
<1>4. IsInjective(u)
  <2> SUFFICES ASSUME NEW i \in 1 .. Len(t) - 1, NEW j \in 1 .. Len(t) - 1, u[i] = u[j]
               PROVE  i = j
    BY <1>3 DEF IsInjective, u
  <2>1. u[i] = t[i + 1] /\ u[j] = t[j + 1] /\ i + 1 \in 1 .. Len(t) /\ j + 1 \in 1 .. Len(t)
    BY <1>1, <1>2 DEF u
  <2>2. i + 1 = j + 1
    BY <1>1, <2>1 DEF IsInjective
  <2>3. QED
    BY <2>2
<1>5. \A i \in 1 .. Len(t) - 1 : u[i] \in Range(t) \ {t[1]}
  <2> TAKE i \in 1 .. Len(t) - 1
  <2>1. u[i] = t[i + 1] /\ i + 1 \in 1 .. Len(t) /\ 1 \in 1 .. Len(t) /\ i + 1 # 1
    BY <1>1, <1>2 DEF u
  <2>2. QED
    BY <1>1, <2>1 DEF Range, IsInjective
<1>6. \A j \in 1 .. Len(t) : j # 1 => t[j] \in Range(u)
  <2> TAKE j \in 1 .. Len(t)
  <2>1. ASSUME j # 1
        PROVE  t[j] = u[j - 1] /\ j - 1 \in DOMAIN u
    BY <1>1, <1>2, <1>3, <2>1 DEF u
  <2>2. QED
    BY <2>1 DEF Range
<1>7. Range(u) = Range(t) \ {t[1]}
  <2>1. Range(u) \subseteq Range(t) \ {t[1]}
    BY <1>3, <1>5 DEF Range, u
  <2>2. \A y \in Range(t) \ {t[1]} : y \in Range(u)
    BY <1>1, <1>6 DEF Range
  <2>3. QED
    BY <2>1, <2>2
<1>8. Head(t) \in S
  BY <1>1, <1>2
<1>9. Len(t) > 1 <=> Tail(t) # <<>>
  <2>1. \A v \in Seq(S) : v # <<>> <=> Len(v) > 0
    OBVIOUS
  <2>2. u # <<>> <=> Len(u) > 0
    BY <1>2, <2>1 DEF u
  <2>3. QED
    BY <1>1, <1>2, <2>2 DEF u
<1>10. QED
  BY <1>2, <1>4, <1>7, <1>8, <1>9 DEF u

(* Every graph has its turn.                                               *)
LEMMA OrderIsAll ==
    ASSUME SkillsTypeOK
    PROVE  order \in Seq(Role) /\ Range(order) = Role /\ IsInjective(order) /\ order # <<>>
<1>1. Cardinality(Role) \in Nat /\ IsFiniteSet(Role)
  BY SkillsConstants, FS_CardinalityType
<1>2. order \in [1 .. Cardinality(Role) -> Role] /\ IsInjective(order)
  BY DEF SkillsTypeOK
<1>3. \A s \in Role : \E i \in DOMAIN order : order[i] = s
  BY <1>1, <1>2, SequenceIsAll
<1>4. Range(order) = Role
  BY <1>2, <1>3 DEF Range
<1>5. Skills \in Role
  BY DEF Role
<1>6. order \in Seq(Role)
  BY <1>1, <1>2
<1>7. order # <<>>
  BY <1>4, <1>5 DEF Range
<1>8. QED
  BY <1>2, <1>4, <1>6, <1>7

(* The copy of a command whose records stay.                               *)
LEMMA CopySame ==
    ASSUME SkillsInv, NEW q \in Shell, Act(q), NEW p \in Shell,
           memory'[p].records = memory[p].records, since'[p] = since[p],
           HasRead(p)' <=> HasRead(p), IsInjective(todo'[p]),
           Own(p) # {} => at'[p] = at[p]
    PROVE  Copy(p)'
<1>1. Copy(p) /\ since[p] \in Nat
  BY DEF SkillsInv, SkillsTypeOK
<1>2. clock \in Nat /\ clock' \in Nat /\ clock <= clock'
  BY EverStep
<1>3. Loaded(p)' = Loaded(p) /\ Own(p)' = Own(p)
  BY DEF Loaded, Own
<1>4. \A V, x : Allowed(V, x) => Allowed(V, x)'
  BY DEF Allowed, InstalledBundles, Installed, IsLatest, Of, BundleOf, Later
<1>5. since'[p] <= clock'
  BY <1>1, <1>2 DEF Copy
<1>6. PICK V : V = Loaded(p)
  OBVIOUS
<1>7. PICK c : c = since[p]
  OBVIOUS
<1>8. HasRead(p) => Snapshot(V, c)'
  BY <1>1, <1>6, <1>7, SnapshotStep DEF Copy
<1>9. HasRead(p)' => Snapshot(Loaded(p), since[p])'
  BY <1>3, <1>6, <1>7, <1>8 DEF Snapshot, Unique
<1>10. ~HasRead(p)' => memory'[p].records = {}
  BY <1>1 DEF Copy
<1>11. Own(p)' # {} => at'[p] \in {"writing", "raised"}
  BY <1>1, <1>3 DEF Copy
<1>12. \A x \in Own(p) : /\ Own(p) = {x} /\ x.since = since[p] /\ Allowed(V, x)'
                         /\ x.seq <= since[p] + 1
                         /\ at'[p] = "writing" => x.status # "failed"
  BY <1>1, <1>4, <1>6 DEF Copy
<1>13. \A x \in Own(p) : Allowed(V, x)' => Allowed(Loaded(p), x)'
  BY <1>3, <1>6 DEF Allowed, InstalledBundles, Installed, IsLatest
<1>14. \A x \in Own(p)' : /\ Own(p)' = {x} /\ x.since = since'[p] /\ Allowed(Loaded(p), x)'
                          /\ x.seq <= since'[p] + 1
                          /\ at'[p] = "writing" => x.status # "failed"
  BY <1>3, <1>12, <1>13
<1>15. QED
  BY <1>5, <1>9, <1>10, <1>11, <1>14 DEF Copy

(* The copy of a process that ends.                                        *)
LEMMA CopyGone ==
    ASSUME SkillsInv, NEW q \in Shell, Act(q), Forget(q)
    PROVE  Copy(q)'
<1>1. /\ at'[q] = "idle" /\ memory'[q].records = {} /\ todo'[q] = <<>> /\ since'[q] = 0
  BY DEF Forget, Become, Keep, Empty, SkillsInv, SkillsTypeOK
<1>2. clock' \in Nat
  BY EverStep
<1>3. ~HasRead(q)' /\ Own(q)' = {}
  BY <1>1 DEF HasRead, Own
<1>4. IsInjective(todo'[q])
  BY <1>1 DEF IsInjective
<1>5. QED
  BY <1>1, <1>2, <1>3, <1>4 DEF Copy

(* The records that a command has appended one to.                         *)
LEMMA AppendedIs ==
    ASSUME SkillsInv, NEW q \in Shell, at[q] = "loaded", NEW m \in Manifest, NEW status,
           status \in {"installed", "uninstalled", "failed"}
    PROVE  \E x \in Record :
             /\ Appended(q, m, status) = memory[q].records \cup {x}
             /\ x.manifest = m /\ x.status = status /\ x.when = 0 /\ x.since = since[q]
             /\ x.seq = NextSeq(memory[q].records) /\ x \notin memory[q].records
             /\ \A y \in memory[q].records : y.when > 0 /\ Key(y) # Key(x)
<1> DEFINE x == [manifest |-> m, seq |-> NextSeq(memory[q].records), status |-> status,
                 since |-> since[q], when |-> 0]
<1>1. Appended(q, m, status) = memory[q].records \cup {x}
  BY DEF Appended
<1>2. /\ x.manifest = m /\ x.status = status /\ x.when = 0 /\ x.since = since[q]
      /\ x.seq = NextSeq(memory[q].records)
  OBVIOUS
<1>3. /\ NextSeq(memory[q].records) \in Nat /\ memory[q].records = Loaded(q)
      /\ \A y \in memory[q].records : y.seq < NextSeq(memory[q].records)
  BY NextSeqIs
<1>4. since[q] \in Nat /\ memory[q].records \subseteq Record
  BY DEF SkillsInv, SkillsTypeOK, Global
<1>5. x \in Record
  BY <1>3, <1>4 DEF Record
<1> HIDE DEF x
<1>6. \A y \in memory[q].records : y.when > 0 /\ y.seq # x.seq
  <2> TAKE y \in memory[q].records
  <2>1. y.seq \in Nat /\ y.seq < x.seq /\ x.seq \in Nat
    BY <1>2, <1>3, <1>4 DEF Record
  <2>2. y.seq # x.seq
    BY <2>1
  <2>3. QED
    BY <1>3, <2>2 DEF Loaded
<1>7. QED
  BY <1>1, <1>2, <1>5, <1>6 DEF Key

(* The copy of a command that has made its record.                         *)
LEMMA CopyMade ==
    ASSUME SkillsInv, NEW q \in Shell, Act(q), at[q] = "loaded", NEW x \in Record,
           memory'[q].records = memory[q].records \cup {x},
           x.when = 0, x.since = since[q], x.seq = NextSeq(memory[q].records),
           at'[q] \in {"writing", "raised"}, at'[q] = "writing" => x.status # "failed",
           since'[q] = since[q], IsInjective(todo'[q]), Allowed(memory[q].records, x)
    PROVE  Copy(q)'
<1> DEFINE V == memory[q].records
<1>1. /\ V = Loaded(q) /\ Own(q) = {} /\ Snapshot(V, since[q]) /\ x.seq <= since[q] + 1
  BY NextSeqIs
<1>2. clock \in Nat /\ clock' \in Nat /\ clock <= clock' /\ since[q] \in Nat
  BY EverStep DEF SkillsInv, SkillsTypeOK
<1>3. since[q] <= clock
  BY DEF SkillsInv, Copy
<1>4. Loaded(q)' = V /\ Own(q)' = {x}
  <2>1. \A y \in V : y.when > 0 /\ y.when # 0
    BY <1>1 DEF Loaded
  <2>2. QED
    BY <2>1 DEF Loaded, Own
<1>5. PICK W : W = V
  OBVIOUS
<1>6. PICK c : c = since[q]
  OBVIOUS
<1>7. Snapshot(W, c)'
  BY <1>1, <1>2, <1>3, <1>5, <1>6, SnapshotStep
<1>8. Snapshot(Loaded(q), since[q])'
  BY <1>4, <1>5, <1>6, <1>7 DEF Snapshot, Unique
<1>9. Allowed(Loaded(q), x)'
  BY <1>4 DEF Allowed, InstalledBundles, Installed, IsLatest, Of, BundleOf, Later
<1>10. HasRead(q)'
  BY DEF HasRead
<1>11. since'[q] <= clock'
  BY <1>2, <1>3
<1>12. QED
  BY <1>1, <1>4, <1>8, <1>9, <1>10, <1>11 DEF Copy

(* What a command may install or uninstall.                                *)
LEMMA InstallAllowed ==
    ASSUME SkillsInv, NEW q \in Shell, at[q] = "loaded", NEW m \in Manifest, NEW x \in Record,
           x.manifest = m, x.seq = NextSeq(memory[q].records),
           \/ x.status = "failed"
           \/ x.status = "installed" /\ Prior(q, m) = {} /\ PreflightOk(q, m)
           \/ /\ x.status = "uninstalled"
              /\ \A r \in Installed(memory[q].records) : Name[m] \notin Requires[r.manifest]
    PROVE  Allowed(memory[q].records, x)
<1>1. \A y \in memory[q].records : y.seq < x.seq
  BY NextSeqIs
<1>2. x.status = "installed" => /\ Requires[x.manifest] \subseteq InstalledBundles(memory[q].records)
                                /\ BundleOf(x) \notin InstalledBundles(memory[q].records)
  BY DEF PreflightOk, Prior, BundleOf, InstalledBundles
<1>3. x.status = "uninstalled" =>
        \A r \in Installed(memory[q].records) : BundleOf(x) \notin Requires[r.manifest]
  BY DEF BundleOf
<1>4. QED
  BY <1>1, <1>2, <1>3 DEF Allowed

(* The copies: what a command has read, and the record that it has made of *)
(* it.                                                                     *)
LEMMA CopyKept ==
    ASSUME SkillsInv, NEW q \in Shell, Act(q), NEW p \in Shell
    PROVE  Copy(p)'
<1>1. /\ Copy(q) /\ Copy(p) /\ SkillsTypeOK /\ IsInjective(order) /\ IsInjective(todo[q])
      /\ todo[q] \in Seq(Role)
      /\ memory[q] \in Global /\ database \in Global
      /\ todo[q] # <<>> <=> at[q] \in {"reading", "writing"}
  BY DEF SkillsInv, SkillsTypeOK, Copy
<1>2. CASE p # q
  <2>1. /\ memory'[p] = memory[p] /\ at'[p] = at[p] /\ todo'[p] = todo[p] /\ since'[p] = since[p]
    BY <1>1, <1>2, OthersStay
  <2>2. (HasRead(p)' <=> HasRead(p)) /\ IsInjective(todo'[p])
    BY <1>1, <2>1 DEF HasRead, Range, Copy, IsInjective
  <2>3. QED
    BY <2>1, <2>2, CopySame
<1> SUFFICES ASSUME p = q
             PROVE  Copy(q)'
  BY <1>2
<1>3. CASE Exit(q) \/ Crash(q)
  BY <1>3, CopyGone DEF Exit, Crash
<1>4. CASE Open(q)
  <2>1. /\ at[q] = "idle" /\ at'[q] = "reading" /\ todo'[q] = order
        /\ memory'[q] = memory[q] /\ since'[q] = since[q]
    BY <1>4 DEF Open, Become, Traces, SkillsInv, SkillsTypeOK
  <2>2. Skills \in Range(order)
    BY <1>1, OrderIsAll DEF Role
  <2>3. ~HasRead(q) /\ ~HasRead(q)'
    BY <2>1, <2>2 DEF HasRead, Range
  <2>4. Own(q) = {}
    BY <1>1, <2>1 DEF Copy
  <2>5. QED
    BY <1>1, <2>1, <2>3, <2>4, CopySame
<1>5. CASE ReadGraph(q)
  <2>1. /\ at[q] = "reading" /\ todo'[q] = Tail(todo[q])
        /\ at'[q] = IF todo'[q] = <<>> THEN "loaded" ELSE "reading"
    BY <1>5 DEF ReadGraph, Become, SkillsInv, SkillsTypeOK
  <2>2. /\ IsInjective(todo'[q]) /\ Range(todo'[q]) = Range(todo[q]) \ {Head(todo[q])}
    BY <1>1, <2>1, RestIs
  <2>3. CASE Head(todo[q]) = Skills
    <3>1. /\ memory'[q].records = database.records /\ since'[q] = clock
          /\ ever' = ever /\ clock' = clock
      BY <1>1, <1>5, <2>3 DEF ReadGraph, Keep, SkillsTypeOK, Global
    <3>2. HasRead(q)'
      <4>1. Skills \notin Range(todo'[q])
        BY <2>2, <2>3
      <4>2. (Skills \notin Range(todo[q]))'
        BY <4>1 DEF Range
      <4>3. QED
        BY <2>1, <4>2 DEF HasRead
    <3>3. \A x \in database.records : x.when > 0 /\ x.when # 0
      BY DEF SkillsInv, SkillsTypeOK, Snapshot, Written, Record
    <3>4. Loaded(q)' = database.records /\ Own(q)' = {}
      BY <3>1, <3>3 DEF Loaded, Own
    <3>5. Snapshot(Loaded(q), since[q])'
      BY <3>1, <3>4 DEF SkillsInv, Snapshot, Unique
    <3>6. clock' \in Nat
      BY EverStep
    <3>7. QED
      BY <2>2, <3>1, <3>2, <3>4, <3>5, <3>6 DEF Copy
  <2>4. CASE Head(todo[q]) # Skills
    <3>1. \E o : memory' = [memory EXCEPT ![q] = [memory[q] EXCEPT !.owner = o]] /\ since' = since
      BY <1>5, <2>4 DEF ReadGraph, Keep
    <3>2. memory'[q].records = memory[q].records /\ since'[q] = since[q]
      BY <1>1, <3>1 DEF SkillsTypeOK, Global
    <3>3. Skills \in Range(todo[q]) <=> Skills \in Range(todo'[q])
      BY <2>2, <2>4
    <3>4. (Skills \in Range(todo[q]))' <=> Skills \in Range(todo[q])
      BY <3>3 DEF Range
    <3>5. todo'[q] = <<>> => Skills \notin Range(todo'[q])
      BY DEF Range
    <3>6. HasRead(q)' <=> HasRead(q)
      BY <2>1, <3>3, <3>4, <3>5 DEF HasRead
    <3>7. Own(q) = {}
      BY <1>1, <2>1 DEF Copy
    <3>8. QED
      BY <2>2, <3>2, <3>6, <3>7, CopySame
  <2>5. QED
    BY <2>3, <2>4
<1>6. CASE WriteGraph(q)
  <2>1. CASE Len(todo[q]) > 1
    <3>1. /\ at[q] = "writing" /\ todo'[q] = Tail(todo[q]) /\ memory' = memory /\ at' = at
          /\ since' = since
      BY <1>6, <2>1 DEF WriteGraph, SkillsInv, SkillsTypeOK
    <3>2. IsInjective(todo'[q])
      BY <1>1, <3>1, RestIs
    <3>3. HasRead(q)' <=> HasRead(q)
      BY <3>1 DEF HasRead
    <3>4. QED
      BY <3>1, <3>2, <3>3, CopySame
  <2>2. CASE ~(Len(todo[q]) > 1)
    BY <1>6, <2>2, CopyGone DEF WriteGraph
  <2>3. QED
    BY <2>1, <2>2
<1>7. ASSUME NEW m \in Manifest, InstallAgain(q, m)
      PROVE  Copy(q)'
  <2>1. /\ at[q] = "loaded" /\ at'[q] = "writing" /\ todo'[q] = order /\ memory' = memory
        /\ since' = since
    BY <1>7 DEF InstallAgain, Persist, Become, Traces, SkillsInv, SkillsTypeOK
  <2>2. (HasRead(q)' <=> HasRead(q)) /\ Own(q) = {}
    BY <2>1, NextSeqIs DEF HasRead
  <2>3. QED
    BY <1>1, <2>1, <2>2, CopySame
<1>8. ASSUME NEW absent, NEW strict, Activate(q, absent, strict)
      PROVE  Copy(q)'
  <2>1. /\ at[q] = "loaded" /\ at'[q] \in {"raised", "active"} /\ todo' = todo
        /\ memory' = memory /\ since' = since
    BY <1>8 DEF Activate, Become, Traces, SkillsInv, SkillsTypeOK
  <2>2. (HasRead(q)' <=> HasRead(q)) /\ Own(q) = {}
    BY <2>1, NextSeqIs DEF HasRead
  <2>3. QED
    BY <1>1, <2>1, <2>2, CopySame
<1>9. ASSUME NEW m \in Manifest, Install(q, m)
      PROVE  Copy(q)'
  <2>1. /\ at[q] = "loaded" /\ at'[q] = "writing" /\ todo'[q] = order /\ since' = since
        /\ memory'[q].records = Appended(q, m, "installed")
        /\ Prior(q, m) = {} /\ PreflightOk(q, m)
    BY <1>9 DEF Install, Persist, Become, Keep, Traces, SkillsInv, SkillsTypeOK
  <2>2. PICK x \in Record : /\ Appended(q, m, "installed") = memory[q].records \cup {x}
                            /\ x.manifest = m /\ x.status = "installed" /\ x.when = 0
                            /\ x.since = since[q] /\ x.seq = NextSeq(memory[q].records)
    BY <2>1, AppendedIs
  <2>3. Allowed(memory[q].records, x)
    BY <2>1, <2>2, InstallAllowed
  <2>4. QED
    BY <1>1, <2>1, <2>2, <2>3, CopyMade
<1>10. ASSUME NEW m \in Manifest, InstallFails(q, m)
       PROVE  Copy(q)'
  <2>1. /\ at[q] = "loaded" /\ at'[q] = "raised" /\ todo' = todo /\ since' = since
        /\ memory'[q].records = Appended(q, m, "failed")
    BY <1>10 DEF InstallFails, Become, Keep, Traces, SkillsInv, SkillsTypeOK
  <2>2. PICK x \in Record : /\ Appended(q, m, "failed") = memory[q].records \cup {x}
                            /\ x.manifest = m /\ x.status = "failed" /\ x.when = 0
                            /\ x.since = since[q] /\ x.seq = NextSeq(memory[q].records)
    BY <2>1, AppendedIs
  <2>3. Allowed(memory[q].records, x)
    BY <2>1, <2>2, InstallAllowed
  <2>4. QED
    BY <1>1, <2>1, <2>2, <2>3, CopyMade
<1>11. ASSUME NEW m \in Manifest, Uninstall(q, m)
       PROVE  Copy(q)'
  <2>1. /\ at[q] = "loaded" /\ at'[q] = "writing" /\ todo'[q] = order /\ since' = since
        /\ \E k : memory' = [memory EXCEPT ![q] = [memory[q] EXCEPT
                     !.records = Appended(q, m, "uninstalled"), !.marked = k]]
        /\ \A r \in Installed(memory[q].records) : Name[m] \notin Requires[r.manifest]
    BY <1>11 DEF Uninstall, Persist, Become, Keep, Traces, SkillsInv, SkillsTypeOK
  <2>2. memory'[q].records = Appended(q, m, "uninstalled")
    BY <1>1, <2>1 DEF SkillsTypeOK, Global
  <2>3. PICK x \in Record : /\ Appended(q, m, "uninstalled") = memory[q].records \cup {x}
                            /\ x.manifest = m /\ x.status = "uninstalled" /\ x.when = 0
                            /\ x.since = since[q] /\ x.seq = NextSeq(memory[q].records)
    BY <2>1, AppendedIs
  <2>4. Allowed(memory[q].records, x)
    BY <2>1, <2>3, InstallAllowed
  <2>5. QED
    BY <1>1, <2>1, <2>2, <2>3, <2>4, CopyMade
<1>12. QED
  BY <1>3, <1>4, <1>5, <1>6, <1>7, <1>8, <1>9, <1>10, <1>11 DEF Act

-----------------------------------------------------------------------------
(* A write of content puts there what the command has; nothing leaves.     *)
LEMMA OwnersStay ==
    ASSUME SkillsInv, NEW q \in Shell, Act(q)
    PROVE  /\ \A n \in Node : database.owner[n] # None => database'.owner[n] # None
           /\ \A n \in Node : (/\ WriteGraph(q) /\ memory[q].owner[n] # None
                               /\ RoleOf[n] = Head(todo[q])) => database'.owner[n] # None
           /\ torn \subseteq torn'
<1>1. database \in Global
  BY DEF SkillsInv, SkillsTypeOK
<1>2. CASE ~WriteGraph(q) /\ (Open(q) \/ ReadGraph(q) \/ Exit(q) \/ Crash(q))
  BY <1>2 DEF Open, ReadGraph, Exit, Crash, Traces
<1>3. CASE WriteGraph(q) /\ Head(todo[q]) # Skills
  <2>1. /\ torn' = torn
        /\ \E k : database' = [database EXCEPT !.owner = MergedOwner(q, Head(todo[q])),
                                               !.marked = k]
    BY <1>3 DEF WriteGraph
  <2>2. database'.owner = MergedOwner(q, Head(todo[q]))
    BY <1>1, <2>1 DEF Global
  <2>3. QED
    BY <2>1, <2>2 DEF MergedOwner
<1>4. CASE WriteGraph(q) /\ Head(todo[q]) = Skills
  <2>1. torn' = torn /\ database' = [database EXCEPT !.records = MergedRecords(q)]
    BY <1>4 DEF WriteGraph
  <2>2. database'.owner = database.owner
    BY <1>1, <2>1 DEF Global
  <2>3. \A n \in Node : RoleOf[n] # Skills
    BY SkillsConstants
  <2>4. QED
    BY <1>4, <2>1, <2>2, <2>3
<1>5. CASE ~WriteGraph(q) /\ torn' = torn /\ database' = database
  BY <1>5
<1>6. ASSUME NEW m \in Manifest,
             InstallAgain(q, m) \/ Install(q, m) \/ InstallFails(q, m) \/ Uninstall(q, m)
      PROVE  ~WriteGraph(q) /\ torn' = torn /\ database' = database
  BY <1>6 DEF InstallAgain, Install, InstallFails, Uninstall, Traces, WriteGraph
<1>7. ASSUME NEW absent, NEW strict, Activate(q, absent, strict)
      PROVE  ~WriteGraph(q) /\ torn' = torn /\ database' = database
  BY <1>7 DEF Activate, Traces, WriteGraph
<1>8. QED
  BY <1>2, <1>3, <1>4, <1>5, <1>6, <1>7 DEF Act

(* A command that writes goes on, or ends after the last graph, or dies.   *)
LEMMA WritingIs ==
    ASSUME SkillsInv, NEW q \in Shell, Act(q), at[q] = "writing"
    PROVE  \/ /\ WriteGraph(q) /\ memory' = memory /\ at' = at /\ todo'[q] = Tail(todo[q])
              /\ Range(todo'[q]) = Range(todo[q]) \ {Head(todo[q])}
           \/ WriteGraph(q) /\ Range(todo[q]) = {Head(todo[q])} /\ at'[q] = "idle"
           \/ Crash(q) /\ at'[q] = "idle"
<1>1. /\ todo[q] \in Seq(Role) /\ todo[q] # <<>> /\ IsInjective(todo[q]) /\ DOMAIN at = Shell
  BY DEF SkillsInv, SkillsTypeOK, Copy
<1>2. CASE Crash(q)
  BY <1>2 DEF Crash, Forget, Become, SkillsInv, SkillsTypeOK
<1>3. CASE WriteGraph(q) /\ Len(todo[q]) > 1
  <2>1. memory' = memory /\ at' = at /\ todo'[q] = Tail(todo[q])
    BY <1>3 DEF WriteGraph, SkillsInv, SkillsTypeOK
  <2>2. QED
    BY <1>1, <1>3, <2>1, RestIs
<1>4. CASE WriteGraph(q) /\ ~(Len(todo[q]) > 1)
  <2>1. at'[q] = "idle"
    BY <1>4 DEF WriteGraph, Forget, Become, SkillsInv, SkillsTypeOK
  <2>2. Len(todo[q]) = 1 /\ DOMAIN todo[q] = {1} /\ Head(todo[q]) = todo[q][1]
    <3>1. \A t \in Seq(Role) : t # <<>> => /\ Len(t) \in Nat \ {0} /\ DOMAIN t = 1 .. Len(t)
                                          /\ Head(t) = t[1]
      OBVIOUS
    <3>2. /\ Len(todo[q]) \in Nat \ {0} /\ DOMAIN todo[q] = 1 .. Len(todo[q])
          /\ Head(todo[q]) = todo[q][1]
      BY <1>1, <3>1
    <3>3. Len(todo[q]) = 1
      <4>1. \A k \in Nat \ {0} : ~(k > 1) => k = 1
        OBVIOUS
      <4>2. QED
        BY <1>4, <3>2, <4>1
    <3>4. QED
      BY <3>2, <3>3
  <2>3. Range(todo[q]) = {Head(todo[q])}
    BY <2>2 DEF Range
  <2>4. QED
    BY <1>4, <2>1, <2>3
<1>5. WriteGraph(q) \/ Crash(q)
  BY DEF Act, Open, ReadGraph, Exit, InstallAgain, Install, InstallFails, Uninstall, Activate
<1>6. QED
  BY <1>2, <1>3, <1>4, <1>5

(* Content that is there, or on its way, stays so or is known to be torn.  *)
LEMMA ThereStays ==
    ASSUME SkillsInv, NEW q \in Shell, Act(q), NEW n \in Node, There(n)
    PROVE  There(n)'
<1>1. CASE database.owner[n] # None \/ n \in torn
  BY <1>1, OwnersStay DEF There
<1>2. ASSUME NEW p \in Shell, at[p] = "writing", memory[p].owner[n] # None
      PROVE  There(n)'
  <2>1. CASE p # q
    <3>1. at'[p] = "writing" /\ memory'[p].owner[n] # None
      BY <1>2, <2>1, OthersStay DEF SkillsInv
    <3>2. QED
      BY <3>1 DEF There
  <2>2. CASE p = q /\ WriteGraph(q) /\ memory' = memory /\ at' = at
    <3>1. at'[p] = "writing" /\ memory'[p].owner[n] # None
      BY <1>2, <2>2
    <3>2. QED
      BY <3>1 DEF There
  <2>3. CASE p = q /\ WriteGraph(q) /\ Range(todo[q]) = {Head(todo[q])}
    <3>1. database.owner[n] # None \/ RoleOf[n] = Head(todo[q])
      BY <1>2, <2>3 DEF SkillsInv, Carried
    <3>2. database'.owner[n] # None
      BY <1>2, <2>3, <3>1, OwnersStay
    <3>3. QED
      BY <3>2 DEF There
  <2>4. CASE p = q /\ Crash(q)
    <3>1. n \in torn' \/ database'.owner[n] # None
      BY <1>2, <2>4 DEF Crash
    <3>2. QED
      BY <3>1 DEF There
  <2>5. QED
    BY <1>2, <2>1, <2>2, <2>3, <2>4, WritingIs
<1>3. QED
  BY <1>1, <1>2 DEF There

(* The content of each record that ever said installed.                    *)
LEMMA ContentKept ==
    ASSUME SkillsInv, NEW q \in Shell, Act(q)
    PROVE  \A x \in ever' : x.status = "installed" => \A n \in Content[x.manifest] : There(n)'
<1>1. ever \subseteq Record /\ \A m \in Manifest : Content[m] \subseteq Node
  BY DEF SkillsInv, SkillsTypeOK, Node
<1>2. ASSUME NEW x \in ever, x.status = "installed", NEW n \in Content[x.manifest]
      PROVE  There(n)'
  BY <1>1, <1>2, ThereStays DEF SkillsInv, Record
<1>3. ASSUME Rosters(q), NEW x \in Own(q), x.status = "installed", NEW n \in Content[x.manifest]
      PROVE  There(n)'
  <2>1. at[q] = "writing" /\ x.manifest \in Manifest /\ n \in Node
    <3>1. at[q] = "writing"
      BY <1>3, RosterIs
    <3>2. QED
      BY <1>1, <3>1, StampedIs DEF Record
  <2>2. memory[q].owner[n] # None
    BY <1>3, <2>1 DEF SkillsInv, Carried
  <2>3. There(n)
    BY <2>1, <2>2 DEF There
  <2>4. QED
    BY <2>1, <2>3, ThereStays
<1>4. CASE ever' = ever
  BY <1>2, <1>4
<1>5. ASSUME Rosters(q), NEW x \in Own(q), ever' = ever \cup {Minted(x)}
      PROVE  \A y \in ever' : y.status = "installed" => \A n \in Content[y.manifest] : There(n)'
  <2>1. Minted(x).status = x.status /\ Minted(x).manifest = x.manifest
    BY <1>5, RosterIs, StampedIs
  <2>2. QED
    BY <1>2, <1>3, <1>5, <2>1
<1>6. QED
  BY <1>4, <1>5, RecordsStay, RosterIs DEF SkillsInv

(* What a command has still to write is content that is not there yet.     *)
LEMMA CarriedKept ==
    ASSUME SkillsInv, NEW q \in Shell, Act(q), NEW p \in Shell
    PROVE  Carried(p)'
<1>1. SkillsTypeOK /\ Carried(p) /\ \A m \in Manifest : Content[m] \subseteq Node
  BY DEF SkillsInv, Node
<1>2. \A n \in Node : database.owner[n] # None => database'.owner[n] # None
  BY OwnersStay
<1>3. ASSUME at[p] = "writing", memory'[p] = memory[p],
             \A n \in Node : memory[p].owner[n] # None =>
               database'.owner[n] # None \/ RoleOf[n] \in Range(todo'[p])
      PROVE  Carried(p)'
  <2>1. Own(p)' = Own(p)
    BY <1>3 DEF Own
  <2>2. \A x \in Own(p) : x.status = "installed" =>
          \A n \in Content[x.manifest] : memory'[p].owner[n] # None
    BY <1>1, <1>3 DEF Carried
  <2>3. QED
    BY <1>3, <2>1, <2>2 DEF Carried, Range
<1>4. CASE at'[p] # "writing"
  BY <1>4 DEF Carried
<1>5. CASE p # q /\ at'[p] = "writing"
  <2>1. at[p] = "writing" /\ memory'[p] = memory[p] /\ todo'[p] = todo[p]
    BY <1>1, <1>5, OthersStay
  <2>2. QED
    BY <1>1, <1>2, <1>3, <2>1 DEF Carried
<1>6. CASE p = q /\ at[q] = "writing" /\ at'[q] = "writing"
  <2>1. /\ WriteGraph(q) /\ memory' = memory
        /\ Range(todo'[q]) = Range(todo[q]) \ {Head(todo[q])}
    BY <1>6, WritingIs DEF Crash
  <2>2. ASSUME NEW n \in Node, memory[q].owner[n] # None
        PROVE  database'.owner[n] # None \/ RoleOf[n] \in Range(todo'[q])
    <3>1. database.owner[n] # None \/ RoleOf[n] \in Range(todo[q])
      BY <1>1, <1>6, <2>2 DEF Carried
    <3>2. RoleOf[n] = Head(todo[q]) => database'.owner[n] # None
      BY <2>1, <2>2, OwnersStay
    <3>3. QED
      BY <1>2, <2>1, <3>1, <3>2
  <2>3. QED
    BY <1>3, <1>6, <2>1, <2>2
<1>7. ASSUME at'[q] = "writing", todo'[q] = order,
             \A x \in Own(q)' : x.status = "installed" =>
               \A n \in Content[x.manifest] : memory'[q].owner[n] # None
      PROVE  Carried(q)'
  <2>1. Range(order) = Role
    BY <1>1, OrderIsAll
  <2>2. \A n \in Node : RoleOf[n] \in Range(todo'[q])
    BY <1>7, <2>1 DEF Role
  <2>3. QED
    BY <1>7, <2>2 DEF Carried, Range
<1>8. ASSUME NEW m \in Manifest, InstallAgain(q, m)
      PROVE  Carried(q)'
  <2>1. at[q] = "loaded" /\ at'[q] = "writing" /\ todo'[q] = order /\ memory' = memory
    BY <1>1, <1>8 DEF InstallAgain, Persist, Become, SkillsTypeOK
  <2>2. Own(q)' = {}
    BY <2>1, NextSeqIs DEF Own
  <2>3. QED
    BY <1>7, <2>1, <2>2
<1>9. ASSUME NEW m \in Manifest, Install(q, m)
      PROVE  Carried(q)'
  <2>1. /\ at[q] = "loaded" /\ at'[q] = "writing" /\ todo'[q] = order
        /\ memory'[q].records = Appended(q, m, "installed")
        /\ memory'[q].owner = [n \in Node |-> IF n \in Content[m] THEN m
                                                               ELSE memory[q].owner[n]]
    BY <1>1, <1>9 DEF Install, Persist, Become, Keep, SkillsTypeOK
  <2>2. PICK x \in Record : /\ Appended(q, m, "installed") = memory[q].records \cup {x}
                            /\ x.manifest = m
                            /\ \A y \in memory[q].records : y.when > 0
    BY <2>1, AppendedIs
  <2>3. \A y \in memory[q].records : y.when # 0
    BY <2>2
  <2>4. Own(q)' \subseteq {x}
    BY <2>1, <2>2, <2>3 DEF Own
  <2>5. \A n \in Content[m] : memory'[q].owner[n] # None
    BY <1>1, <2>1, SkillsConstants
  <2>6. QED
    BY <1>7, <2>1, <2>2, <2>4, <2>5
<1>10. ASSUME NEW m \in Manifest, Uninstall(q, m)
       PROVE  Carried(q)'
  <2>1. /\ at[q] = "loaded" /\ at'[q] = "writing" /\ todo'[q] = order
        /\ \E k : memory' = [memory EXCEPT ![q] = [memory[q] EXCEPT
                     !.records = Appended(q, m, "uninstalled"), !.marked = k]]
    BY <1>1, <1>10 DEF Uninstall, Persist, Become, Keep, SkillsTypeOK
  <2>2. memory'[q].records = Appended(q, m, "uninstalled")
    BY <1>1, <2>1 DEF SkillsTypeOK, Global
  <2>3. PICK x \in Record : /\ Appended(q, m, "uninstalled") = memory[q].records \cup {x}
                            /\ x.status = "uninstalled"
                            /\ \A y \in memory[q].records : y.when > 0
    BY <2>1, AppendedIs
  <2>4. \A y \in memory[q].records : y.when # 0
    BY <2>3
  <2>5. Own(q)' \subseteq {x}
    BY <2>2, <2>3, <2>4 DEF Own
  <2>6. QED
    BY <1>7, <2>1, <2>3, <2>5
<1>11. CASE p = q /\ at[q] # "writing" /\ at'[q] = "writing"
  <2>1. \/ \E m \in Manifest : InstallAgain(q, m) \/ Install(q, m) \/ Uninstall(q, m)
        \/ at'[q] # "writing"
    BY <1>1, <1>11 DEF Act, Open, ReadGraph, WriteGraph, Exit, Crash, Forget, Become,
                       InstallFails, Activate, SkillsTypeOK
  <2>2. QED
    BY <1>8, <1>9, <1>10, <1>11, <2>1
<1>12. QED
  BY <1>4, <1>5, <1>6, <1>11

-----------------------------------------------------------------------------
(* One record of a bundle at most is its state.                            *)
LEMMA OneLatest ==
    ASSUME NEW V \in SUBSET Record, NEW r \in Installed(V), NEW s \in Installed(V),
           BundleOf(r) = BundleOf(s)
    PROVE  r = s
<1> SUFFICES ASSUME r # s
             PROVE  FALSE
  OBVIOUS
<1>1. r \in Record /\ s \in Record
  BY DEF Installed
<1>2. Later(r, s) /\ Later(s, r)
  BY DEF Installed, IsLatest, Of
<1>3. QED
  BY <1>1, <1>2, LaterOrders

(* The order of the records is an order of the requirements, but where     *)
(* commands overlapped.                                                    *)
LEMMA OrderMeets ==
    ASSUME NEW V \in SUBSET Record, IsFiniteSet(V), Unique(V), Met(V),
           NEW W \in SUBSET Installed(V), NEW i \in 1 .. Cardinality(W),
           NEW r \in Installed(V), NEW a \in Requires[r.manifest],
           BundleOf(r) = BundleOf(InOrder(V, W)[i]), ~Disturbed(V, r, a)
    PROVE  /\ a \in InstalledBundles(V)
           /\ \A j \in 1 .. Cardinality(W) : BundleOf(InOrder(V, W)[j]) = a => j \in 1 .. i - 1
<1> DEFINE q == InOrder(V, W)
<1>1. /\ q \in [1 .. Cardinality(W) -> W] /\ Cardinality(W) \in Nat
      /\ \A j, k \in 1 .. Cardinality(W) : j < k => Before(V, q[j], q[k])
  BY InOrderIs
<1> HIDE DEF q
<1>2. r = q[i]
  BY <1>1, OneLatest DEF q
<1>3. PICK s \in Installed(V) : BundleOf(s) = a /\ s.seq < r.seq
  BY DEF Met
<1>4. s.seq \in Nat /\ r.seq \in Nat
  BY DEF Installed, Record
<1>5. ASSUME NEW j \in 1 .. Cardinality(W), BundleOf(q[j]) = a
      PROVE  j \in 1 .. i - 1
  <2>1. q[j] = s
    BY <1>1, <1>3, <1>5, OneLatest
  <2>2. Before(V, s, r) /\ s # r
    BY <1>3, <1>4 DEF Before
  <2>3. ~Before(V, r, s)
    BY <2>2, BeforeOrders
  <2>4. ~(i < j)
    BY <1>1, <1>2, <2>1, <2>3
  <2>5. i # j
    BY <1>2, <2>1, <2>2
  <2>6. QED
    BY <1>1, <2>4, <2>5
<1>6. QED
  BY <1>3, <1>5 DEF InstalledBundles, q

(* What a process has activated is in order.                               *)
LEMMA ActivatedKept ==
    ASSUME SkillsInv, NEW q \in Shell, Act(q)
    PROVE  ActivatedInOrder'
<1> DEFINE Ordered(V, act) ==
             \A i \in DOMAIN act : \A r \in Installed(V) : \A a \in Requires[r.manifest] :
               BundleOf(r) = act[i] =>
                 \/ \E j \in 1 .. i - 1 : act[j] = a
                 \/ a \in InstalledBundles(V) \ Range(act)
                 \/ Disturbed(V, r, a)
<1>1. SkillsTypeOK /\ \A p \in Shell : Ordered(memory[p].records, active[p])
  BY DEF SkillsInv, ActivatedInOrder
<1>2. \A V, act : Ordered(V, act) => Ordered(V, act)'
  BY DisturbedStays DEF InstalledBundles, Installed, IsLatest, Of, BundleOf, Later, Range
<1>3. \A p \in Shell \ {q} : Ordered(memory[p].records, active[p])'
  <2> TAKE p \in Shell \ {q}
  <2>1. memory'[p] = memory[p] /\ active'[p] = active[p]
    BY <1>1, OthersStay
  <2>2. PICK V, act : V = memory[p].records /\ act = active[p]
    OBVIOUS
  <2>3. Ordered(V, act)'
    BY <1>1, <1>2, <2>2
  <2>4. QED
    BY <2>1, <2>2, <2>3
<1>4. CASE active'[q] = <<>>
  <2>1. Ordered(memory[q].records, active[q])'
    BY <1>4
  <2>2. QED
    BY <1>3, <2>1 DEF ActivatedInOrder
<1>5. ASSUME NEW absent, NEW strict, Activate(q, absent, strict)
      PROVE  ActivatedInOrder'
  <2>1. PICK V : V = memory[q].records
    OBVIOUS
  <2>2. PICK W : W = Done(q, absent, strict)
    OBVIOUS
  <2>3. /\ at[q] = "loaded" /\ memory'[q].records = V
        /\ active'[q] = [i \in DOMAIN InOrder(V, W) |-> BundleOf(InOrder(V, W)[i])]
    BY <1>1, <1>5, <2>1, <2>2 DEF Activate, SkillsTypeOK
  <2>4. V \in SUBSET Record /\ Unique(V) /\ V \subseteq ever /\ Snapshot(V, since[q])
    BY <2>1, <2>3, NextSeqIs DEF Snapshot, SkillsInv, SkillsTypeOK, Global
  <2>5. IsFiniteSet(V) /\ ever \in SUBSET Record /\ since[q] \in Nat
    BY <2>4, FS_Subset DEF SkillsInv, Written, SkillsTypeOK
  <2>6. Met(V)
    BY <2>4, <2>5, SnapshotsAreMet DEF SkillsInv
  <2>7. W \in SUBSET Installed(V)
    BY <2>1, <2>2 DEF Done
  <2>8. DOMAIN InOrder(V, W) = 1 .. Cardinality(W) /\ Cardinality(W) \in Nat
    BY <2>4, <2>5, <2>7, InOrderIs
  <2>9. PICK act : act = active'[q]
    OBVIOUS
  <2>10. /\ DOMAIN act = 1 .. Cardinality(W)
         /\ \A i \in 1 .. Cardinality(W) : act[i] = BundleOf(InOrder(V, W)[i])
    BY <2>3, <2>8, <2>9
  <2>11. ASSUME NEW i \in DOMAIN act, NEW r \in Installed(V), NEW a \in Requires[r.manifest],
                BundleOf(r) = act[i], ~Disturbed(V, r, a)
         PROVE  \/ \E j \in 1 .. i - 1 : act[j] = a
                \/ a \in InstalledBundles(V) \ Range(act)
    <3>1. i \in 1 .. Cardinality(W) /\ BundleOf(r) = BundleOf(InOrder(V, W)[i])
      BY <2>10, <2>11
    <3>2. /\ a \in InstalledBundles(V)
          /\ \A j \in 1 .. Cardinality(W) :
               BundleOf(InOrder(V, W)[j]) = a => j \in 1 .. i - 1
      BY <2>4, <2>5, <2>6, <2>7, <2>11, <3>1, OrderMeets
    <3>3. \A j \in DOMAIN act : act[j] = a => j \in 1 .. i - 1
      BY <2>10, <3>2
    <3>4. QED
      BY <3>2, <3>3 DEF Range
  <2>12. Ordered(V, act)
    BY <2>11
  <2>13. Ordered(V, act)'
    BY <1>2, <2>12
  <2>14. Ordered(memory[q].records, active[q])'
    BY <2>3, <2>9, <2>13
  <2>15. QED
    BY <1>3, <2>14 DEF ActivatedInOrder
<1>6. (\E absent, strict : Activate(q, absent, strict)) \/ active'[q] = <<>>
  <2>1. at[q] \notin {"active", "raised"} => active[q] = <<>>
    BY <1>1 DEF SkillsTypeOK
  <2>2. CASE Open(q) \/ ReadGraph(q) \/ Exit(q) \/ Crash(q)
    BY <1>1, <2>1, <2>2 DEF Open, ReadGraph, Exit, Crash, Forget, SkillsTypeOK
  <2>3. CASE WriteGraph(q)
    BY <1>1, <2>1, <2>3 DEF WriteGraph, Forget, SkillsTypeOK
  <2>4. CASE \E m \in Manifest : \/ InstallAgain(q, m) \/ Install(q, m)
                                 \/ InstallFails(q, m) \/ Uninstall(q, m)
    BY <2>1, <2>4 DEF InstallAgain, Install, InstallFails, Uninstall
  <2>5. QED
    BY <2>2, <2>3, <2>4 DEF Act
<1>7. QED
  BY <1>4, <1>5, <1>6

-----------------------------------------------------------------------------
(* A graph whose nodes have their ids, and their tags, to themselves.      *)
Sound(g) == /\ g \in Global /\ Unique(g.records)
            /\ \A n \in Node : g.owner[n] # None => n \in Content[g.owner[n]]

(* The Global in the database stays so, and below the copies of it.        *)
LEMMA DatabaseKept ==
    ASSUME SkillsInv, NEW q \in Shell, Act(q)
    PROVE  Sound(database')
<1>1. Sound(database) /\ Sound(memory[q])
  BY DEF SkillsInv, SkillsTypeOK, Sound, Unique
<1>2. database'.records \in SUBSET Record /\ Unique(database'.records)
  BY StoreKept, EverStep DEF Snapshot, Unique, Key
<1>3. CASE WriteGraph(q) /\ Head(todo[q]) = Skills
  <2>1. database' = [database EXCEPT !.records = MergedRecords(q)]
    BY <1>3 DEF WriteGraph
  <2>2. /\ database'.owner = database.owner /\ database'.marked = database.marked
        /\ database' = [records |-> database'.records, owner |-> database'.owner,
                        marked |-> database'.marked]
    BY <1>1, <2>1 DEF Sound, Global
  <2>3. database' \in Global
    BY <1>1, <1>2, <2>2 DEF Sound, Global
  <2>4. QED
    BY <1>1, <1>2, <2>2, <2>3 DEF Sound
<1>4. CASE WriteGraph(q) /\ Head(todo[q]) # Skills
  <2> DEFINE o == MergedOwner(q, Head(todo[q]))
             k == database.marked \cup {n \in memory[q].marked : RoleOf[n] = Head(todo[q])}
  <2>1. database' = [database EXCEPT !.owner = o, !.marked = k]
    BY <1>4 DEF WriteGraph
  <2>2. o \in [Node -> Manifest \cup {None}] /\ \A n \in Node : o[n] # None => n \in Content[o[n]]
    BY <1>1 DEF MergedOwner, Sound, Global
  <2>3. k \in SUBSET Node
    BY <1>1 DEF Sound, Global
  <2> HIDE DEF o, k
  <2>4. database' \in Global /\ database'.owner = o
    BY <1>1, <2>1, <2>2, <2>3 DEF Sound, Global
  <2>5. QED
    BY <1>2, <2>2, <2>4 DEF Sound
<1>5. CASE database' = database
  BY <1>1, <1>5
<1>6. WriteGraph(q) \/ database' = database
  BY DEF Act, Open, ReadGraph, Exit, Crash, InstallAgain, Install, InstallFails, Uninstall,
         Activate, Traces
<1>7. QED
  BY <1>3, <1>4, <1>5, <1>6

(* A command makes of its copy a graph of that kind.                       *)
LEMMA MemoryKept ==
    ASSUME SkillsInv, NEW q \in Shell, Act(q)
    PROVE  DOMAIN memory' = Shell /\ memory' = [memory EXCEPT ![q] = memory'[q]] /\ Sound(memory'[q])
<1>1. Sound(database) /\ Sound(memory[q]) /\ memory \in [Shell -> Global]
  BY DEF SkillsInv, SkillsTypeOK, Sound, Unique
<1>2. CASE memory' = memory
  BY <1>1, <1>2
<1>3. ASSUME NEW g, Keep(q, g), Sound(g)
      PROVE  /\ DOMAIN memory' = Shell /\ memory' = [memory EXCEPT ![q] = memory'[q]]
             /\ Sound(memory'[q])
  BY <1>1, <1>3 DEF Keep
<1>4. Sound(Empty)
  BY DEF Sound, Empty, Global, Unique
<1>5. CASE Forget(q)
  BY <1>3, <1>4, <1>5 DEF Forget
<1>6. CASE ReadGraph(q)
  <2>1. CASE Head(todo[q]) = Skills
    <3>1. Keep(q, [memory[q] EXCEPT !.records = database.records])
      BY <1>6, <2>1 DEF ReadGraph
    <3>2. Sound([memory[q] EXCEPT !.records = database.records])
      BY <1>1 DEF Sound, Global
    <3>3. QED
      BY <1>3, <3>1, <3>2
  <2>2. CASE Head(todo[q]) # Skills
    <3> DEFINE o == [n \in Node |-> IF RoleOf[n] = Head(todo[q]) THEN database.owner[n]
                                                                ELSE memory[q].owner[n]]
    <3>1. Keep(q, [memory[q] EXCEPT !.owner = o])
      BY <1>6, <2>2 DEF ReadGraph
    <3>2. o \in [Node -> Manifest \cup {None}] /\ \A n \in Node : o[n] # None => n \in Content[o[n]]
      BY <1>1 DEF Sound, Global
    <3> HIDE DEF o
    <3>3. Sound([memory[q] EXCEPT !.owner = o])
      BY <1>1, <3>2 DEF Sound, Global
    <3>4. QED
      BY <1>3, <3>1, <3>3
  <2>3. QED
    BY <2>1, <2>2
<1>7. ASSUME at[q] = "loaded", NEW m \in Manifest,
             NEW status \in {"installed", "uninstalled", "failed"}
      PROVE  Appended(q, m, status) \in SUBSET Record /\ Unique(Appended(q, m, status))
  <2>1. PICK x \in Record : /\ Appended(q, m, status) = memory[q].records \cup {x}
                            /\ \A y \in memory[q].records : Key(y) # Key(x)
    BY <1>7, AppendedIs
  <2>2. memory[q].records \in SUBSET Record /\ Unique(memory[q].records)
    BY <1>1 DEF Sound, Global
  <2>3. QED
    BY <2>1, <2>2 DEF Unique
<1>8. ASSUME at[q] = "loaded", NEW m \in Manifest, NEW status \in {"installed", "failed"},
             NEW done \in SUBSET Content[m],
             Keep(q, [records |-> Appended(q, m, status),
                      owner |-> [n \in Node |-> IF n \in done THEN m ELSE memory[q].owner[n]],
                      marked |-> memory[q].marked \ done])
      PROVE  /\ DOMAIN memory' = Shell /\ memory' = [memory EXCEPT ![q] = memory'[q]]
             /\ Sound(memory'[q])
  <2> DEFINE o == [n \in Node |-> IF n \in done THEN m ELSE memory[q].owner[n]]
             V == Appended(q, m, status)
             k == memory[q].marked \ done
  <2>1. o \in [Node -> Manifest \cup {None}] /\ \A n \in Node : o[n] # None => n \in Content[o[n]]
    BY <1>1 DEF Sound, Global
  <2>2. V \in SUBSET Record /\ Unique(V) /\ k \in SUBSET Node
    BY <1>1, <1>7, <1>8 DEF Sound, Global
  <2> HIDE DEF o, V, k
  <2>3. Sound([records |-> V, owner |-> o, marked |-> k])
    BY <2>1, <2>2 DEF Sound, Global
  <2>4. QED
    BY <1>3, <1>8, <2>3 DEF o, V, k
<1>9. ASSUME NEW m \in Manifest, Install(q, m)
      PROVE  /\ DOMAIN memory' = Shell /\ memory' = [memory EXCEPT ![q] = memory'[q]]
             /\ Sound(memory'[q])
  BY <1>8, <1>9 DEF Install
<1>10. ASSUME NEW m \in Manifest, InstallFails(q, m)
       PROVE  /\ DOMAIN memory' = Shell /\ memory' = [memory EXCEPT ![q] = memory'[q]]
              /\ Sound(memory'[q])
  BY <1>8, <1>10 DEF InstallFails
<1>11. ASSUME NEW m \in Manifest, Uninstall(q, m)
       PROVE  /\ DOMAIN memory' = Shell /\ memory' = [memory EXCEPT ![q] = memory'[q]]
              /\ Sound(memory'[q])
  <2> DEFINE V == Appended(q, m, "uninstalled")
             k == memory[q].marked \cup {n \in Node : memory[q].owner[n] = m}
  <2>1. at[q] = "loaded" /\ Keep(q, [memory[q] EXCEPT !.records = V, !.marked = k])
    BY <1>11 DEF Uninstall
  <2>2. V \in SUBSET Record /\ Unique(V) /\ k \in SUBSET Node
    BY <1>1, <1>7, <2>1 DEF Sound, Global
  <2> HIDE DEF V, k
  <2>3. Sound([memory[q] EXCEPT !.records = V, !.marked = k])
    BY <1>1, <2>2 DEF Sound, Global
  <2>4. QED
    BY <1>3, <2>1, <2>3
<1>12. \/ memory' = memory \/ Forget(q) \/ ReadGraph(q)
       \/ \E m \in Manifest : Install(q, m) \/ InstallFails(q, m) \/ Uninstall(q, m)
  BY DEF Act, Open, WriteGraph, Exit, Crash, InstallAgain, Activate
<1>13. QED
  BY <1>2, <1>5, <1>6, <1>9, <1>10, <1>11, <1>12

(* Where the commands are.                                                 *)
LEMMA ControlKept ==
    ASSUME SkillsInv, NEW q \in Shell, Act(q)
    PROVE  /\ at' = [at EXCEPT ![q] = at'[q]] /\ todo' = [todo EXCEPT ![q] = todo'[q]]
           /\ active' = [active EXCEPT ![q] = active'[q]] /\ since' = [since EXCEPT ![q] = since'[q]]
           /\ at'[q] \in {"idle", "reading", "loaded", "writing", "raised", "active"}
           /\ todo'[q] \in Seq(Role) /\ active'[q] \in Seq(Bundle) /\ since'[q] \in Nat
           /\ todo'[q] # <<>> <=> at'[q] \in {"reading", "writing"}
           /\ active'[q] # <<>> => at'[q] \in {"active", "raised"}
           /\ opened' \in 0 .. MaxOpened /\ torn' \subseteq Node
<1> DEFINE Goal ==
           /\ at' = [at EXCEPT ![q] = at'[q]] /\ todo' = [todo EXCEPT ![q] = todo'[q]]
           /\ active' = [active EXCEPT ![q] = active'[q]] /\ since' = [since EXCEPT ![q] = since'[q]]
           /\ at'[q] \in {"idle", "reading", "loaded", "writing", "raised", "active"}
           /\ todo'[q] \in Seq(Role) /\ active'[q] \in Seq(Bundle) /\ since'[q] \in Nat
           /\ todo'[q] # <<>> <=> at'[q] \in {"reading", "writing"}
           /\ active'[q] # <<>> => at'[q] \in {"active", "raised"}
           /\ opened' \in 0 .. MaxOpened /\ torn' \subseteq Node
<1>1. /\ DOMAIN at = Shell /\ DOMAIN todo = Shell /\ DOMAIN active = Shell /\ DOMAIN since = Shell
      /\ at[q] \in {"idle", "reading", "loaded", "writing", "raised", "active"}
      /\ todo[q] \in Seq(Role) /\ active[q] \in Seq(Bundle) /\ since[q] \in Nat
      /\ todo[q] # <<>> <=> at[q] \in {"reading", "writing"}
      /\ active[q] # <<>> => at[q] \in {"active", "raised"}
      /\ opened \in 0 .. MaxOpened /\ torn \subseteq Node /\ clock \in Nat /\ MaxOpened \in Nat
  BY SkillsConstants DEF SkillsInv, SkillsTypeOK
<1>2. at = [at EXCEPT ![q] = at[q]] /\ todo = [todo EXCEPT ![q] = todo[q]]
  BY DEF SkillsInv, SkillsTypeOK
<1>3. active = [active EXCEPT ![q] = active[q]] /\ since = [since EXCEPT ![q] = since[q]]
  BY DEF SkillsInv, SkillsTypeOK
<1>4. order \in Seq(Role) /\ order # <<>>
  BY OrderIsAll DEF SkillsInv
<1>5. ASSUME Forget(q), opened' = opened, torn' \subseteq Node
      PROVE  Goal
  <2>1. /\ at' = [at EXCEPT ![q] = "idle"] /\ todo' = [todo EXCEPT ![q] = <<>>]
        /\ active' = [active EXCEPT ![q] = <<>>] /\ since' = [since EXCEPT ![q] = 0]
    BY <1>5 DEF Forget, Become
  <2>2. at'[q] = "idle" /\ todo'[q] = <<>> /\ active'[q] = <<>> /\ since'[q] = 0
    BY <1>1, <2>1
  <2>3. <<>> \in Seq(Role) /\ <<>> \in Seq(Bundle)
    OBVIOUS
  <2>4. QED
    BY <1>1, <1>5, <2>1, <2>2, <2>3
<1>6. CASE Exit(q) \/ Crash(q)
  BY <1>1, <1>5, <1>6 DEF Exit, Crash
<1>7. CASE Open(q)
  <2>1. /\ at[q] = "idle" /\ at' = [at EXCEPT ![q] = "reading"]
        /\ todo' = [todo EXCEPT ![q] = order] /\ active' = active /\ since' = since
        /\ opened' = opened + 1 /\ opened < MaxOpened /\ torn' = torn
    BY <1>7 DEF Open, Become, Traces
  <2>2. at'[q] = "reading" /\ todo'[q] = order
    BY <1>1, <2>1
  <2>3. opened' \in 0 .. MaxOpened
    BY <1>1, <2>1
  <2>4. QED
    BY <1>1, <1>3, <1>4, <2>1, <2>2, <2>3
<1>8. CASE ReadGraph(q)
  <2>1. /\ at[q] = "reading" /\ todo' = [todo EXCEPT ![q] = Tail(todo[q])]
        /\ at' = [at EXCEPT ![q] = IF todo'[q] = <<>> THEN "loaded" ELSE "reading"]
        /\ active' = active /\ opened' = opened /\ torn' = torn
        /\ (since' = since \/ since' = [since EXCEPT ![q] = clock])
    BY <1>8 DEF ReadGraph, Become
  <2>2. /\ todo'[q] = Tail(todo[q]) /\ at'[q] = IF todo'[q] = <<>> THEN "loaded" ELSE "reading"
        /\ since'[q] \in Nat
    BY <1>1, <2>1
  <2>3. since' = [since EXCEPT ![q] = since'[q]]
    BY <1>1, <1>3, <2>1
  <2>4. todo'[q] \in Seq(Role)
    BY <1>1, <2>1, <2>2
  <2>5. QED
    BY <1>1, <1>3, <2>1, <2>2, <2>3, <2>4
<1>9. CASE WriteGraph(q)
  <2>1. CASE Len(todo[q]) > 1
    <3>1. /\ at[q] = "writing" /\ todo' = [todo EXCEPT ![q] = Tail(todo[q])] /\ at' = at
          /\ active' = active /\ since' = since /\ opened' = opened /\ torn' = torn
      BY <1>9, <2>1 DEF WriteGraph
    <3>2. todo'[q] = Tail(todo[q])
      BY <1>1, <3>1
    <3>3. IsInjective(todo[q])
      BY DEF SkillsInv, Copy
    <3>4. todo'[q] \in Seq(Role) /\ todo'[q] # <<>>
      BY <1>1, <2>1, <3>1, <3>2, <3>3, RestIs
    <3>5. QED
      BY <1>1, <1>2, <1>3, <3>1, <3>2, <3>4
  <2>2. CASE ~(Len(todo[q]) > 1)
    BY <1>1, <1>5, <1>9, <2>2 DEF WriteGraph
  <2>3. QED
    BY <2>1, <2>2
<1>10. ASSUME at[q] = "loaded", Persist(q), active' = active, since' = since, opened' = opened,
              torn' = torn
       PROVE  Goal
  <2>1. at' = [at EXCEPT ![q] = "writing"] /\ todo' = [todo EXCEPT ![q] = order]
    BY <1>10 DEF Persist, Become
  <2>2. at'[q] = "writing" /\ todo'[q] = order
    BY <1>1, <2>1
  <2>3. QED
    BY <1>1, <1>3, <1>4, <1>10, <2>1, <2>2
<1>11. ASSUME NEW m \in Manifest, InstallAgain(q, m) \/ Install(q, m) \/ Uninstall(q, m)
       PROVE  Goal
  BY <1>10, <1>11 DEF InstallAgain, Install, Uninstall, Traces
<1>12. ASSUME NEW m \in Manifest, InstallFails(q, m)
       PROVE  Goal
  <2>1. /\ at[q] = "loaded" /\ at' = [at EXCEPT ![q] = "raised"] /\ todo' = todo
        /\ active' = active /\ since' = since /\ opened' = opened /\ torn' = torn
    BY <1>12 DEF InstallFails, Become, Traces
  <2>2. at'[q] = "raised"
    BY <1>1, <2>1
  <2>3. QED
    BY <1>1, <1>2, <1>3, <2>1, <2>2
<1>13. ASSUME NEW absent, NEW strict, Activate(q, absent, strict)
       PROVE  Goal
  <2>1. PICK V : V = memory[q].records
    OBVIOUS
  <2>2. PICK W : W = Done(q, absent, strict)
    OBVIOUS
  <2>3. /\ at[q] = "loaded" /\ todo' = todo /\ since' = since /\ opened' = opened /\ torn' = torn
        /\ at' = [at EXCEPT ![q] = IF strict /\ absent # {} THEN "raised" ELSE "active"]
        /\ active' = [active EXCEPT ![q] =
             [i \in DOMAIN InOrder(V, W) |-> BundleOf(InOrder(V, W)[i])]]
    BY <1>13, <2>1, <2>2 DEF Activate, Become, Traces
  <2>4. at'[q] \in {"raised", "active"} /\ at' = [at EXCEPT ![q] = at'[q]]
    BY <1>1, <2>3
  <2>5. active'[q] = [i \in DOMAIN InOrder(V, W) |-> BundleOf(InOrder(V, W)[i])]
    BY <1>1, <2>3
  <2>6. V \in SUBSET Record /\ Unique(V) /\ V \subseteq ever
    BY <2>1, <2>3, NextSeqIs DEF Snapshot, SkillsInv, SkillsTypeOK, Global
  <2>7. IsFiniteSet(V)
    BY <2>6, FS_Subset DEF SkillsInv, Written
  <2>8. W \in SUBSET Installed(V)
    BY <2>1, <2>2 DEF Done
  <2>9. InOrder(V, W) \in [1 .. Cardinality(W) -> W] /\ Cardinality(W) \in Nat
    BY <2>6, <2>7, <2>8, InOrderIs
  <2>10. \A w \in W : BundleOf(w) \in Bundle
    BY <2>6, <2>8 DEF Installed, Record, BundleOf, Bundle
  <2>11. active'[q] \in [1 .. Cardinality(W) -> Bundle]
    BY <2>5, <2>9, <2>10
  <2>12. active'[q] \in Seq(Bundle)
    BY <2>9, <2>11
  <2>13. active' = [active EXCEPT ![q] = active'[q]]
    BY <2>3, <2>5
  <2>14. QED
    BY <1>1, <1>2, <1>3, <2>3, <2>4, <2>12, <2>13
<1>14. QED
  BY <1>6, <1>7, <1>8, <1>9, <1>11, <1>12, <1>13 DEF Act

(* So the types are kept.                                                  *)
LEMMA TypesKept ==
    ASSUME SkillsInv, NEW q \in Shell, Act(q)
    PROVE  SkillsTypeOK'
<1>1. SkillsTypeOK /\ order' = order
  BY OthersStay DEF SkillsInv
<1>2. \A p \in Shell : memory'[p] = IF p = q THEN memory'[q] ELSE memory[p]
  BY OthersStay DEF SkillsInv
<1>3. \A p \in Shell : Sound(memory'[p])
  BY <1>1, <1>2, MemoryKept DEF SkillsTypeOK, Sound, Unique
<1>4. database' \in Global /\ memory' \in [Shell -> Global]
  BY <1>3, DatabaseKept, MemoryKept DEF Sound
<1>5. \A g \in {database'} \cup {memory'[p] : p \in Shell} :
        /\ \A r, s \in g.records : Key(r) = Key(s) => r = s
        /\ \A n \in Node : g.owner[n] # None => n \in Content[g.owner[n]]
  BY <1>3, DatabaseKept DEF Sound, Unique
<1>6. /\ at' \in [Shell -> {"idle", "reading", "loaded", "writing", "raised", "active"}]
      /\ todo' \in [Shell -> Seq(Role)] /\ active' \in [Shell -> Seq(Bundle)]
      /\ since' \in [Shell -> Nat]
  BY <1>1, ControlKept DEF SkillsTypeOK
<1>7. /\ \A p \in Shell : (todo'[p] # <<>>) <=> at'[p] \in {"reading", "writing"}
      /\ \A p \in Shell : active'[p] # <<>> => at'[p] \in {"active", "raised"}
  <2> SUFFICES ASSUME NEW p \in Shell
               PROVE  /\ (todo'[p] # <<>>) <=> at'[p] \in {"reading", "writing"}
                      /\ active'[p] # <<>> => at'[p] \in {"active", "raised"}
    OBVIOUS
  <2>1. CASE p = q
    BY <2>1, ControlKept
  <2>2. CASE p # q
    <3>1. at'[p] = at[p] /\ todo'[p] = todo[p] /\ active'[p] = active[p]
      BY <1>1, <2>2, OthersStay
    <3>2. QED
      BY <1>1, <3>1 DEF SkillsTypeOK
  <2>3. QED
    BY <2>1, <2>2
<1>8. opened' \in 0 .. MaxOpened /\ torn' \subseteq Node /\ clock' \in Nat /\ ever' \subseteq Record
  BY ControlKept, EverStep
<1>9. QED
  BY <1>1, <1>4, <1>5, <1>6, <1>7, <1>8 DEF SkillsTypeOK, Key

-----------------------------------------------------------------------------
(* Nothing is installed at first.                                          *)
LEMMA InitIsSound == SkillsInit => SkillsInv
<1> SUFFICES ASSUME SkillsInit
             PROVE  SkillsInv
  OBVIOUS
<1>1. Empty \in Global /\ Empty.records = {} /\ \A n \in Node : Empty.owner[n] = None
  BY DEF Empty, Global
<1>2. MaxOpened \in Nat
  BY SkillsConstants
<1>3. \A g \in {database} \cup {memory[p] : p \in Shell} : g = Empty
  BY DEF SkillsInit
<1>4. <<>> \in Seq(Role) /\ <<>> \in Seq(Bundle)
  OBVIOUS
<1>5. SkillsTypeOK
  BY <1>1, <1>2, <1>3, <1>4 DEF SkillsInit, SkillsTypeOK
<1>6. Written
  BY FS_EmptySet DEF SkillsInit, Written
<1>7. Snapshot(database.records, clock)
  BY <1>1 DEF SkillsInit, Snapshot, Unique
<1>8. \A p \in Shell : Copy(p) /\ Carried(p)
  BY <1>1 DEF SkillsInit, Copy, Carried, HasRead, Own, IsInjective
<1>9. \A x \in ever : x.status = "installed" => \A n \in Content[x.manifest] : There(n)
  BY DEF SkillsInit
<1>10. ActivatedInOrder
  BY DEF SkillsInit, ActivatedInOrder
<1>11. QED
  BY <1>5, <1>6, <1>7, <1>8, <1>9, <1>10 DEF SkillsInv

(* Nothing changes when no command moves.                                  *)
LEMMA StutterIsSound == SkillsInv /\ UNCHANGED skillsVars => SkillsInv'
<1> SUFFICES ASSUME SkillsInv, UNCHANGED skillsVars
             PROVE  SkillsInv'
  OBVIOUS
<1>1. /\ order' = order /\ database' = database /\ memory' = memory /\ at' = at /\ todo' = todo
      /\ active' = active /\ opened' = opened /\ clock' = clock /\ ever' = ever
      /\ since' = since /\ torn' = torn
  BY DEF skillsVars
<1>2. SkillsTypeOK'
  BY <1>1 DEF SkillsInv, SkillsTypeOK, Key
<1>3. \A V, c : Snapshot(V, c) => Snapshot(V, c)'
  BY <1>1 DEF Snapshot, Unique, Key
<1>4. \A V, x : Allowed(V, x) => Allowed(V, x)'
  BY DEF Allowed, InstalledBundles, Installed, IsLatest, Of, BundleOf, Later
<1>5. Written'
  BY <1>1, <1>3, <1>4 DEF SkillsInv, Written
<1>6. Snapshot(database.records, clock)'
  BY <1>1 DEF SkillsInv, Snapshot, Unique, Key
<1>7. ASSUME NEW p \in Shell
      PROVE  Copy(p)' /\ Carried(p)'
  <2>1. Copy(p) /\ Carried(p)
    BY DEF SkillsInv
  <2>2. Carried(p)'
    BY <1>1, <2>1 DEF Carried, Own, Range
  <2>3. Loaded(p)' = Loaded(p) /\ Own(p)' = Own(p) /\ (HasRead(p)' <=> HasRead(p))
    BY <1>1 DEF Loaded, Own, HasRead, Range
  <2>4. Snapshot(Loaded(p), since[p]) => Snapshot(Loaded(p), since[p])'
    BY <1>1, <2>3 DEF Snapshot, Unique, Key
  <2>5. \A x : Allowed(Loaded(p), x) => Allowed(Loaded(p), x)'
    BY <2>3 DEF Allowed, InstalledBundles, Installed, IsLatest, Of, BundleOf, Later
  <2>6. Copy(p)'
    BY <1>1, <2>1, <2>3, <2>4, <2>5 DEF Copy, IsInjective
  <2>7. QED
    BY <2>2, <2>6
<1>8. (\A x \in ever : x.status = "installed" => \A n \in Content[x.manifest] : There(n))'
  BY <1>1 DEF SkillsInv, There
<1>9. \A V, r, a : Disturbed(V, r, a) => Disturbed(V, r, a)'
  BY <1>1 DEF Disturbed, Twin, Of, Raced, BundleOf, Key
<1>10. ActivatedInOrder'
  BY <1>1, <1>9 DEF SkillsInv, ActivatedInOrder, InstalledBundles, Installed, IsLatest, Of,
                    BundleOf, Later, Range
<1>11. QED
  BY <1>2, <1>5, <1>6, <1>7, <1>8, <1>10 DEF SkillsInv

(* The invariant holds in every state of every run of the commands.        *)
THEOREM SkillsInvariant == SkillsSpec => []SkillsInv
<1>1. SkillsInit => SkillsInv
  BY InitIsSound
<1>2. SkillsInv /\ [SkillsNext]_skillsVars => SkillsInv'
  <2> SUFFICES ASSUME SkillsInv, [SkillsNext]_skillsVars
               PROVE  SkillsInv'
    OBVIOUS
  <2>1. ASSUME NEW q \in Shell, Act(q)
        PROVE  SkillsInv'
    <3>1. SkillsTypeOK' /\ Written' /\ Snapshot(database.records, clock)' /\ ActivatedInOrder'
      BY <2>1, TypesKept, WrittenKept, StoreKept, ActivatedKept
    <3>2. \A p \in Shell : Copy(p)' /\ Carried(p)'
      BY <2>1, CopyKept, CarriedKept
    <3>3. (\A x \in ever : x.status = "installed" => \A n \in Content[x.manifest] : There(n))'
      BY <2>1, ContentKept
    <3>4. QED
      BY <3>1, <3>2, <3>3 DEF SkillsInv
  <2>2. CASE SkillsNext
    BY <2>1, <2>2 DEF SkillsNext, Act
  <2>3. CASE UNCHANGED skillsVars
    BY <2>3, StutterIsSound
  <2>4. QED
    BY <2>2, <2>3
<1>3. QED
  BY <1>1, <1>2, PTL DEF SkillsSpec

(* The roster can be relied on: what is installed stands on what it        *)
(* requires, in the database and in each process that activates it, and    *)
(* has its content (driver.py, preflight.py, activation.py).               *)
THEOREM SkillsRosterIsSound == SkillsSpec => []RosterIsSound
<1>1. SkillsInv => RosterIsSound
  <2> SUFFICES ASSUME SkillsInv
               PROVE  RosterIsSound
    OBVIOUS
  <2>1. clock \in Nat /\ ever \in SUBSET Record /\ Written /\ Snapshot(database.records, clock)
    BY DEF SkillsInv, SkillsTypeOK
  <2>2. DependenciesAreMet
    BY <2>1, SnapshotsAreMet DEF DependenciesAreMet
  <2>3. ContentIsThere
    <3>1. \A r \in Installed(database.records) : r \in ever /\ r.status = "installed"
      BY <2>1 DEF Installed, Snapshot
    <3>2. QED
      BY <3>1 DEF ContentIsThere, SkillsInv, There
  <2>4. QED
    BY <2>2, <2>3 DEF RosterIsSound, SkillsInv
<1>2. QED
  BY <1>1, SkillsInvariant, PTL

(* Two records of one id come from commands that overlapped.               *)
LEMMA TwinsRaced ==
    ASSUME SkillsInv, NEW r \in ever, NEW s \in ever, Key(r) = Key(s), r # s
    PROVE  Raced(r, s)
<1>1. \A x \in ever : x.since \in Nat /\ x.when \in Nat /\ x.seq \in Nat
  BY DEF SkillsInv, SkillsTypeOK, Record
<1>2. \A x, y \in ever : Key(x) = Key(y) => x.when > y.since
  <2> SUFFICES ASSUME NEW x \in ever, NEW y \in ever, Key(x) = Key(y), x.when <= y.since
               PROVE  FALSE
    BY <1>1
  <2>1. PICK V \in SUBSET ever : Snapshot(V, y.since) /\ Allowed(V, y)
    BY DEF SkillsInv, Written
  <2>2. PICK z \in V : Key(z) = Key(x)
    BY <2>1 DEF Snapshot
  <2>3. z.seq < y.seq /\ z.seq = y.seq
    BY <2>1, <2>2 DEF Allowed, Key
  <2>4. QED
    BY <1>1, <2>3
<1>3. QED
  BY <1>2 DEF Raced

(* No write takes a record away, and another one with its id takes its     *)
(* place only if the authors of the two overlapped (records.py).           *)
THEOREM SkillsHistoryGrows == SkillsSpec => HistoryGrows
<1> DEFINE Grows == \A r \in database.records : \E s \in database'.records :
                      Key(s) = Key(r) /\ (s.status = r.status \/ Raced(r, s))
<1>1. ASSUME SkillsInv, NEW q \in Shell, Act(q)
      PROVE  Grows
  <2>1. CASE ~Rosters(q)
    BY <1>1, <2>1, RecordsStay DEF SkillsInv
  <2>2. CASE Rosters(q)
    <3>1. at[q] = "writing" /\ database'.records = MergedRecords(q)
      BY <1>1, <2>2, RosterIs
    <3>2. database.records \subseteq ever /\ clock \in Nat /\ ever \subseteq Record
      BY <1>1 DEF SkillsInv, Snapshot, SkillsTypeOK
    <3>3. ASSUME NEW r \in database.records, NEW s \in Stamped(q), Key(s) = Key(r)
          PROVE  s.status = r.status \/ Raced(r, s)
      <4>1. CASE s \in Loaded(q)
        <5>1. s \in ever
          BY <1>1, <3>1, <4>1, StampedIs
        <5>2. QED
          BY <1>1, <3>2, <3>3, <5>1, TwinsRaced
      <4>2. ASSUME NEW x \in Own(q), s = Minted(x)
            PROVE  Raced(r, s)
        <5>1. /\ Key(s) = Key(x) /\ s.since = x.since /\ s.when = clock + 1 /\ x \in Record
              /\ Snapshot(Loaded(q), since[q])
          BY <1>1, <3>1, <4>2, StampedIs
        <5>2. x.since = since[q] /\ Allowed(Loaded(q), x)
          BY <1>1, <4>2 DEF SkillsInv, Copy
        <5>3. /\ r.since \in Nat /\ r.when \in Nat /\ r.since < r.when /\ r.when <= clock
              /\ x.since \in Nat
          BY <1>1, <3>2, <5>1 DEF SkillsInv, Written, Record
        <5>4. r.when > x.since
          <6> SUFFICES ASSUME r.when <= x.since
                       PROVE  FALSE
            BY <5>3
          <6>1. PICK y \in Loaded(q) : Key(y) = Key(r)
            BY <3>2, <5>1, <5>2 DEF Snapshot
          <6>2. y.seq < x.seq /\ y.seq = x.seq
            BY <3>3, <5>1, <5>2, <6>1 DEF Allowed, Key
          <6>3. x.seq \in Nat
            BY <5>1 DEF Record
          <6>4. QED
            BY <6>2, <6>3
        <5>5. s.when > r.since
          BY <3>2, <5>1, <5>3
        <5>6. QED
          BY <5>1, <5>4, <5>5 DEF Raced
      <4>3. s \in Loaded(q) \cup {Minted(x) : x \in Own(q)}
        BY <1>1, <3>1, StampedIs
      <4>4. QED
        BY <4>1, <4>2, <4>3
    <3>4. QED
      BY <3>1, <3>3 DEF MergedRecords
  <2>3. QED
    BY <2>1, <2>2
<1>2. SkillsInv /\ [SkillsNext]_skillsVars => [Grows]_skillsVars
  BY <1>1 DEF SkillsNext, Act
<1>3. QED
  BY <1>2, SkillsInvariant, PTL DEF SkillsSpec, HistoryGrows

=============================================================================

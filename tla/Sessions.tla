------------------------------ MODULE Sessions ------------------------------
(***************************************************************************)
(* Users and sessions of the server: mindsos_server/sessions.py, users.py, *)
(* admin.py.  Every command is a process of its own on one SQLite file,    *)
(* opened with isolation_level DEFERRED (_db.py): a SELECT outside a       *)
(* transaction is a step of its own, and the statements from the first     *)
(* write to the commit are one step, because the writer's lock keeps other *)
(* writers out and readers see the state before.  The admin verbs begin    *)
(* with BEGIN IMMEDIATE, so that their reads are inside as well.           *)
(***************************************************************************)
EXTENDS Naturals, FiniteSets, Functions

CONSTANTS User,         \* user ids
          History,      \* the users that have proposed a promotion
          Proc,         \* commands running at one time
          Sliding,      \* SessionTTL.sliding_seconds
          Absolute,     \* SessionTTL.absolute_seconds
          MaxTime,      \* the clock stops here
          MaxSessions,  \* sessions opened
          MaxCalls      \* calls started
ASSUME HistoryAssumption == History \subseteq User
ASSUME ProcAssumption == IsFiniteSet(Proc)
ASSUME BoundsAssumption ==
  {Sliding, Absolute, MaxTime, MaxSessions, MaxCalls} \subseteq Nat

VARIABLES users,     \* the users table
          sessions,  \* the sessions table, by session id
          audited,   \* session ids that EVT_LOGOUT or EVT_KILL_SESSION name
          minted,    \* session ids handed out
          now,       \* the clock
          pc,        \* where each command is
          calls
vars == <<users, sessions, audited, minted, now, pc, calls>>

Idle == [at |-> "idle"]
Ids == 1 .. MaxSessions

(* password counts the passwords a user id has had; a session keeps the    *)
(* one its login verified, and whether the user still had it, enabled,     *)
(* when the row went in.  used is the latest seen the row has had, because *)
(* a slow lookup may write an earlier one over it.                         *)
TypeOK ==
  /\ DOMAIN users \subseteq User
  /\ \A u \in DOMAIN users :
       users[u] \in [role : {"user", "admin"}, disabled : BOOLEAN, password : Nat]
  /\ DOMAIN sessions \subseteq 1 .. minted
  /\ \A i \in DOMAIN sessions :
       /\ sessions[i] \in [user : User, created : 0 .. now, seen : 0 .. now,
                           used : 0 .. now, password : Nat, raced : BOOLEAN]
       /\ sessions[i].user \in DOMAIN users
       /\ sessions[i].created <= sessions[i].seen /\ sessions[i].seen <= sessions[i].used
  /\ audited \subseteq 1 .. minted
  /\ minted \in 0 .. MaxSessions
  /\ now \in 0 .. MaxTime
  /\ DOMAIN pc = Proc

ActiveAdmins == {u \in DOMAIN users : users[u].role = "admin" /\ ~users[u].disabled}
SessionsOf(u) == {i \in DOMAIN sessions : sessions[i].user = u}
Without(X) == Restrict(sessions, DOMAIN sessions \ X)
Lapsed(row, t) == t >= row.created + Absolute \/ t >= row.seen + Sliding

Init == /\ users \in [User -> [role : {"user", "admin"}, disabled : {FALSE}, password : {1}]]
        /\ ActiveAdmins # {}
        /\ sessions = <<>>
        /\ audited = {}
        /\ minted = 0
        /\ now = 0
        /\ pc = [p \in Proc |-> Idle]
        /\ calls = 0

Start(p) == /\ pc[p] = Idle
            /\ calls < MaxCalls
            /\ calls' = calls + 1
Goto(p, next) == pc' = [pc EXCEPT ![p] = next]
ReadOnly == UNCHANGED <<users, sessions, audited, minted, now>>

Tick == /\ now < MaxTime
        /\ now' = now + 1
        /\ UNCHANGED <<users, sessions, audited, minted, pc, calls>>

-----------------------------------------------------------------------------
(* login.                                                                  *)

(* verify: the password is right and the user enabled; a refusal leaves an *)
(* audit row and no other trace.  then is the caller.                      *)
Verify(p, u, then) ==
  /\ Start(p)
  /\ u \in DOMAIN users
  /\ ~users[u].disabled
  /\ Goto(p, [at |-> then, user |-> u, password |-> users[u].password])
  /\ ReadOnly

(* _lazy_expire_user_sessions, the SELECT and the clock.                   *)
SelectLapsed(p) ==
  /\ pc[p].at = "login"
  /\ LET ids == {i \in SessionsOf(pc[p].user) : Lapsed(sessions[i], now)} IN
     Goto(p, [at |-> IF ids = {} THEN "check" ELSE "expire", user |-> pc[p].user,
              password |-> pc[p].password, ids |-> ids])
  /\ ReadOnly
  /\ UNCHANGED calls

\* Mutant of SelectExisting: the session there is does not refuse the login.
MutSelectExistingMints(p) ==
  /\ pc[p].at = "check"
  /\ Goto(p, [pc[p] EXCEPT !.at = "mint"])
  /\ ReadOnly
  /\ UNCHANGED calls

(* Nothing lapsed: the look for an active session is outside a transaction.*)
SelectExisting(p) ==
  /\ pc[p].at = "check"
  /\ Goto(p, IF SessionsOf(pc[p].user) = {} THEN [pc[p] EXCEPT !.at = "mint"] ELSE Idle)
  /\ ReadOnly
  /\ UNCHANGED calls

(* INSERT of the session over the rows left; the foreign key refuses a     *)
(* user who is gone, and the transaction is rolled back.                   *)
Insert(p, left) ==
  LET u == pc[p].user IN
  /\ IF u \in DOMAIN users
     THEN /\ minted < MaxSessions
          /\ minted' = minted + 1
          /\ sessions' = [i \in DOMAIN left \cup {minted + 1} |->
                IF i \in DOMAIN left THEN left[i]
                ELSE [user |-> u, created |-> now, seen |-> now, used |-> now,
                      password |-> pc[p].password,
                      raced |-> users[u].disabled \/ users[u].password # pc[p].password]]
     ELSE UNCHANGED <<minted, sessions>>
  /\ Goto(p, Idle)
  /\ UNCHANGED <<users, audited, now, calls>>

Mint(p) == /\ pc[p].at = "mint"
           /\ Insert(p, sessions)

(* Something lapsed: its DELETE opens the transaction in which the look    *)
(* and the INSERT follow.                                                  *)
ExpireAndMint(p) ==
  /\ pc[p].at = "expire"
  /\ IF SessionsOf(pc[p].user) \subseteq pc[p].ids
     THEN Insert(p, Without(pc[p].ids))
     ELSE /\ sessions' = Without(pc[p].ids)
          /\ Goto(p, Idle)
          /\ UNCHANGED <<users, audited, minted, now, calls>>

-----------------------------------------------------------------------------
(* session_from_token, the gate of every other command.                    *)

SelectToken(p, i) ==
  /\ Start(p)
  /\ i \in DOMAIN sessions
  /\ Goto(p, [at |-> "found", id |-> i, row |-> sessions[i],
              role |-> users[sessions[i].user].role])
  /\ ReadOnly

\* Mutant of Classify: only the absolute limit ends a session.
MutClassifyAbsolute(p) ==
  /\ pc[p].at = "found"
  /\ Goto(p, IF now >= pc[p].row.created + Absolute
             THEN [at |-> "drop", id |-> pc[p].id]
             ELSE [at |-> "slide", id |-> pc[p].id, time |-> now, role |-> pc[p].role])
  /\ ReadOnly
  /\ UNCHANGED calls

(* The clock, read after the row.                                          *)
Classify(p) ==
  /\ pc[p].at = "found"
  /\ Goto(p, IF Lapsed(pc[p].row, now)
             THEN [at |-> "drop", id |-> pc[p].id]
             ELSE [at |-> "slide", id |-> pc[p].id, time |-> now, role |-> pc[p].role])
  /\ ReadOnly
  /\ UNCHANGED calls

DropLapsed(p) ==
  /\ pc[p].at = "drop"
  /\ sessions' = Without({pc[p].id})
  /\ Goto(p, Idle)
  /\ UNCHANGED <<users, audited, minted, now, calls>>

(* UPDATE of no row, when the session has gone meanwhile, is no error.     *)
Slide(p) ==
  /\ pc[p].at = "slide"
  /\ sessions' = [i \in DOMAIN sessions |->
                    IF i = pc[p].id
                    THEN [sessions[i] EXCEPT !.seen = pc[p].time,
                                             !.used = IF @ < pc[p].time THEN pc[p].time ELSE @]
                    ELSE sessions[i]]
  /\ Goto(p, IF pc[p].role = "admin" THEN [at |-> "admin"] ELSE Idle)
  /\ UNCHANGED <<users, audited, minted, now, calls>>

-----------------------------------------------------------------------------
(* The ends of a session.                                                  *)

SelectLogout(p, i) ==
  /\ Start(p)
  /\ i \in DOMAIN sessions
  /\ Goto(p, [at |-> "logout", id |-> i])
  /\ ReadOnly

Logout(p) ==
  /\ pc[p].at = "logout"
  /\ sessions' = Without({pc[p].id})
  /\ audited' = audited \cup {pc[p].id}
  /\ Goto(p, Idle)
  /\ UNCHANGED <<users, minted, now, calls>>

(* kill_my_own_sessions and reset_admin name the sessions before the write *)
(* that deletes them.  since is the last session id there was.             *)
SelectOwn(p) ==
  /\ pc[p].at = "own"
  /\ LET ids == SessionsOf(pc[p].user) IN
     Goto(p, IF ids = {} THEN Idle
             ELSE [at |-> "kill", user |-> pc[p].user, ids |-> ids, since |-> minted])
  /\ ReadOnly
  /\ UNCHANGED calls

\* Mutant of KillOwn: no row names the sessions it ends.
MutKillOwnUnaudited(p) ==
  /\ pc[p].at = "kill"
  /\ sessions' = Without(SessionsOf(pc[p].user))
  /\ Goto(p, Idle)
  /\ UNCHANGED <<users, audited, minted, now, calls>>

KillOwn(p) ==
  /\ pc[p].at = "kill"
  /\ sessions' = Without(SessionsOf(pc[p].user))
  /\ audited' = audited \cup pc[p].ids
  /\ Goto(p, Idle)
  /\ UNCHANGED <<users, minted, now, calls>>

SelectAdmin(p, u) ==
  /\ Start(p)
  /\ u \in DOMAIN users
  /\ users[u].role = "admin"
  /\ Goto(p, [at |-> "reset", user |-> u])
  /\ ReadOnly

SelectAdminSessions(p) ==
  /\ pc[p].at = "reset"
  /\ Goto(p, [at |-> "rotate", user |-> pc[p].user, ids |-> SessionsOf(pc[p].user),
              since |-> minted])
  /\ ReadOnly
  /\ UNCHANGED calls

\* Mutant of ResetAdmin: the sessions of the old password stay.
MutResetAdminKeepsSessions(p) ==
  LET u == pc[p].user IN
  /\ pc[p].at = "rotate"
  /\ users' = [v \in DOMAIN users |->
                 IF v = u THEN [users[v] EXCEPT !.password = @ + 1, !.disabled = FALSE]
                          ELSE users[v]]
  /\ Goto(p, Idle)
  /\ UNCHANGED <<sessions, audited, minted, now, calls>>

(* An UPDATE of a user who is gone meanwhile touches no row.               *)
ResetAdmin(p) ==
  LET u == pc[p].user IN
  /\ pc[p].at = "rotate"
  /\ sessions' = Without(SessionsOf(u))
  /\ users' = [v \in DOMAIN users |->
                 IF v = u THEN [users[v] EXCEPT !.password = @ + 1, !.disabled = FALSE]
                          ELSE users[v]]
  /\ audited' = audited \cup pc[p].ids
  /\ Goto(p, Idle)
  /\ UNCHANGED <<minted, now, calls>>

-----------------------------------------------------------------------------
(* insert_user, and the verbs of a command whose session is an admin's.    *)

InsertUser(p, u, role) ==
  /\ Start(p)
  /\ u \notin DOMAIN users
  /\ users' = [v \in DOMAIN users \cup {u} |->
                 IF v = u THEN [role |-> role, disabled |-> FALSE, password |-> MaxCalls + calls']
                          ELSE users[v]]
  /\ UNCHANGED <<sessions, audited, minted, now, pc>>

AdminTx(p) == /\ pc[p].at = "admin"
              /\ Goto(p, Idle)
              /\ UNCHANGED <<minted, now, calls>>

\* Mutant of NotSoleAdmin: disabled admins count.
MutNotSoleAdminDisabled(u) == {v \in DOMAIN users : users[v].role = "admin"} # {u}

(* _assert_not_sole_admin.                                                 *)
NotSoleAdmin(u) == ActiveAdmins # {u}

KillAll(u) == /\ sessions' = Without(SessionsOf(u))
              /\ audited' = audited \cup SessionsOf(u)

Promote(p, u) ==
  /\ AdminTx(p)
  /\ u \in DOMAIN users /\ users[u].role = "user"
  /\ users' = [users EXCEPT ![u].role = "admin"]
  /\ UNCHANGED <<sessions, audited>>

Demote(p, u) ==
  /\ AdminTx(p)
  /\ u \in DOMAIN users /\ users[u].role = "admin"
  /\ NotSoleAdmin(u)
  /\ KillAll(u)
  /\ users' = [users EXCEPT ![u].role = "user"]

Disable(p, u) ==
  /\ AdminTx(p)
  /\ u \in DOMAIN users
  /\ users[u].role = "admin" /\ ~users[u].disabled => NotSoleAdmin(u)
  /\ KillAll(u)
  /\ users' = [users EXCEPT ![u].disabled = TRUE]

Enable(p, u) ==
  /\ AdminTx(p)
  /\ u \in DOMAIN users
  /\ users' = [users EXCEPT ![u].disabled = FALSE]
  /\ UNCHANGED <<sessions, audited>>

KillSession(p, i) ==
  /\ AdminTx(p)
  /\ i \in DOMAIN sessions
  /\ sessions' = Without({i})
  /\ audited' = audited \cup {i}
  /\ UNCHANGED users

\* Mutant of HardDelete: the rows of the user's sessions stay.
MutHardDeleteNoCascade(p, u) ==
  /\ AdminTx(p)
  /\ u \in DOMAIN users \ History
  /\ users[u].role = "admin" /\ ~users[u].disabled => NotSoleAdmin(u)
  /\ users' = Restrict(users, DOMAIN users \ {u})
  /\ UNCHANGED <<sessions, audited>>

(* The rows of sessions go with the user (ON DELETE CASCADE).              *)
HardDelete(p, u) ==
  /\ AdminTx(p)
  /\ u \in DOMAIN users \ History
  /\ users[u].role = "admin" /\ ~users[u].disabled => NotSoleAdmin(u)
  /\ KillAll(u)
  /\ users' = Restrict(users, DOMAIN users \ {u})

-----------------------------------------------------------------------------
Next ==
  \/ Tick
  \/ \E p \in Proc :
       \/ SelectLapsed(p) \/ SelectExisting(p) \/ Mint(p) \/ ExpireAndMint(p)
       \/ Classify(p) \/ DropLapsed(p) \/ Slide(p)
       \/ Logout(p) \/ SelectOwn(p) \/ KillOwn(p) \/ SelectAdminSessions(p) \/ ResetAdmin(p)
       \/ \E u \in User :
            \/ Verify(p, u, "login") \/ Verify(p, u, "own") \/ SelectAdmin(p, u)
            \/ \E r \in {"user", "admin"} : InsertUser(p, u, r)
            \/ Promote(p, u) \/ Demote(p, u) \/ Disable(p, u) \/ Enable(p, u) \/ HardDelete(p, u)
       \/ \E i \in Ids : SelectToken(p, i) \/ SelectLogout(p, i) \/ KillSession(p, i)

Spec == Init /\ [][Next]_vars

-----------------------------------------------------------------------------
(* Safety.                                                                 *)

(* There is always an enabled admin, whatever verbs run against one        *)
(* another, also one whose caller is no admin any more (admin.py:640).     *)
AdminRemains == ActiveAdmins # {}

(* A session belongs to an enabled user and was opened with the password   *)
(* the user has, unless its login had verified before the change           *)
(* (admin.py:1076, admin.py:205).                                          *)
SessionsAreEarned ==
  \A i \in DOMAIN sessions : ~sessions[i].raced =>
    /\ ~users[sessions[i].user].disabled
    /\ users[sessions[i].user].password = sessions[i].password

(* Concurrent login is refused up to the race of logins that all found no  *)
(* session: a user has never more than one session for each of them        *)
(* (sessions.py:366).                                                      *)
OneSessionPerRacer == \A u \in User : Cardinality(SessionsOf(u)) <= Cardinality(Proc)

(* Once a session's time is over, by its latest use, only a lookup that    *)
(* read the clock before can refresh it: no later login, lookup or admin   *)
(* verb brings it back (sessions.py:557).                                  *)
Over(i, t) == Lapsed([sessions[i] EXCEPT !.seen = sessions[i].used], t)
LapsedIsOver ==
  [][\A i \in DOMAIN sessions \cap DOMAIN sessions' :
       /\ Over(i, now)
       /\ \A p \in Proc : pc[p].at = "slide" /\ pc[p].id = i => Over(i, pc[p].time)
       => sessions'[i] = sessions[i]]_vars

(* A session that has not lapsed ends with an audit row that names it,     *)
(* unless it is opened between the SELECT of a command that kills all      *)
(* sessions of the user and its DELETE, or is refreshed under the eyes of  *)
(* a lookup or a login that found it lapsed (sessions.py:697, admin.py:193).*)
EndsAreAudited ==
  [][\A i \in DOMAIN sessions \ DOMAIN sessions' :
       \/ i \in audited'
       \/ Lapsed(sessions[i], now)
       \/ \E p \in Proc :
            \/ pc[p].at \in {"kill", "rotate"} /\ i > pc[p].since
            \/ pc[p].at = "drop" /\ pc[p].id = i
            \/ pc[p].at = "expire" /\ i \in pc[p].ids]_vars

(* A session row belongs to a user that exists and was earned by a login   *)
(* its password allowed, and only racing logins hold two (sessions.py,     *)
(* admin.py).                                                              *)
SessionsAreSound ==
  /\ TypeOK
  /\ SessionsAreEarned
  /\ OneSessionPerRacer
=============================================================================

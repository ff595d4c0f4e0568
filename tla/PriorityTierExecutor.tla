------------------------ MODULE PriorityTierExecutor ------------------------
(***************************************************************************)
(* The priority-tier executor, mindsos_intelligence/executor.py: a heap    *)
(* with lazy deletion, the pending and running tables keyed by request id, *)
(* and worker threads that share one lock and one condition variable.      *)
(*                                                                         *)
(* What a method does under the lock is one step.  A worker's passage is   *)
(* split where the code leaves the lock: it looks (and pops or waits), it  *)
(* starts the future, it runs the body and sets the result, it takes the   *)
(* lock again to leave the running table.                                  *)
(*                                                                         *)
(* Left out: the resource ledger (SubMindArbiter has it), what a body      *)
(* does, and the exception of a failing body, which settles the future as  *)
(* a result does.  A future is numbered by its submission and its cancel   *)
(* token is named by the same number.                                      *)
(***************************************************************************)
EXTENDS Integers, FiniteSets

CONSTANTS Workers,      \* the worker threads
          Requests,     \* request ids callers use
          Priorities,   \* the [tier, score] of submissions, a set
          DefaultScore, \* [tier -> its cold-start score]
          Hysteresis,   \* score margin of a same-tier preemption
          UniqueIds,    \* callers never submit an id that is pending or running
          MaxSubmits,   \* bound: submissions
          MaxWrites,    \* bound: calls of write_priority
          None

Tiers == {p.tier : p \in Priorities}

ASSUME ExecutorAssumption ==
    /\ IsFiniteSet(Workers)
    /\ Priorities \subseteq [tier : Nat, score : Nat]
    /\ DefaultScore \in [Tiers -> Nat]
    /\ Hysteresis \in Nat /\ UniqueIds \in BOOLEAN
    /\ MaxSubmits \in Nat /\ MaxWrites \in Nat

Futures == 0..(MaxSubmits - 1)

VARIABLES
    heap,       \* _heap: the set of its entries
    pending,    \* _pending: request id -> entry
    running,    \* _running: request id -> entry
    future,     \* the state of each submission's future
    cancelled,  \* futures whose cancel token is set
    pc,         \* where each worker is
    job,        \* the entry a worker has popped
    isShutdown, \* _shutdown
    nextSeq,    \* _seq
    submits, writes,  \* bounds; submits numbers the futures
    rewritten   \* history: sequence numbers of running entries write_priority changed

vars == <<heap, pending, running, future, cancelled, pc, job, isShutdown, nextSeq,
          submits, writes, rewritten>>

Priority == [tier : Nat, score : Nat]
Entry == [req : Requests, prio : Priority, seq : Nat, fut : Futures,
          preempt : BOOLEAN, live : BOOLEAN]

\* "looking": about to take the lock; "waiting": in the condition's queue;
\* "claimed": popped; "busy": running the body; "leaving": the future is
\* settled; "exited": returned; "dead": killed by an exception.
PC == {"looking", "waiting", "claimed", "busy", "leaving", "exited", "dead"}

At(S) == {w \in Workers : pc[w] \in S}

TypeOK ==
    /\ heap \subseteq Entry
    /\ DOMAIN pending \subseteq Requests /\ \A r \in DOMAIN pending : pending[r] \in Entry
    /\ DOMAIN running \subseteq Requests /\ \A r \in DOMAIN running : running[r] \in Entry
    /\ future \in [Futures -> {"none", "pending", "running", "done", "cancelled"}]
    /\ cancelled \subseteq Futures
    /\ pc \in [Workers -> PC]
    /\ job \in [Workers -> Entry \cup {None}]
    /\ isShutdown \in BOOLEAN
    /\ nextSeq \in Nat /\ submits \in 0..MaxSubmits /\ writes \in 0..MaxWrites
    /\ rewritten \subseteq Nat

Init ==
    /\ heap = {} /\ cancelled = {} /\ rewritten = {}
    /\ pending = [r \in {} |-> None] /\ running = [r \in {} |-> None]
    /\ future = [f \in Futures |-> "none"]
    /\ pc = [w \in Workers |-> "looking"]
    /\ job = [w \in Workers |-> None]
    /\ isShutdown = FALSE
    /\ nextSeq = 0 /\ submits = 0 /\ writes = 0
-----------------------------------------------------------------------------
With(f, x, v) == [y \in DOMAIN f \cup {x} |-> IF y = x THEN v ELSE f[y]]
Without(f, x) == [y \in DOMAIN f \ {x} |-> f[y]]

\* The heap's order: tier, then descending score, then submission.
Before(d, e) ==
    \/ d.prio.tier < e.prio.tier
    \/ d.prio.tier = e.prio.tier /\ d.prio.score > e.prio.score
    \/ d.prio = e.prio /\ d.seq < e.seq

Outranks(p, q) ==
    p.tier < q.tier \/ (p.tier = q.tier /\ p.score > q.score + Hysteresis)

\* _maybe_preempt_locked: the tokens an arrival of priority p sets.
Preempted(p) == {running[r].fut : r \in {q \in DOMAIN running : Outranks(p, running[q].prio)}}

\* _top_of_tier_locked.
TopOfTier(tier) ==
    LET scores == {e.prio.score : e \in {d \in {pending[r] : r \in DOMAIN pending}
                                            \cup {running[r] : r \in DOMAIN running} :
                                         d.prio.tier = tier}}
    IN  IF scores = {} THEN DefaultScore[tier]
        ELSE (CHOOSE s \in scores : \A t \in scores : t <= s) + 1

\* Condition.notify: one waiting worker, if there is one, goes back to look.
Notify ==
    IF At({"waiting"}) = {} THEN pc' = pc
    ELSE \E w \in At({"waiting"}) : pc' = [pc EXCEPT ![w] = "looking"]

\* Mutant of Submit: nobody is notified.
MutSubmitSilently(r, p, preempt) ==
    /\ ~isShutdown
    /\ submits < MaxSubmits
    /\ UniqueIds => r \notin DOMAIN pending \cup DOMAIN running
    /\ LET e == [req |-> r, prio |-> p, seq |-> nextSeq, fut |-> submits,
                 preempt |-> preempt, live |-> TRUE]
       IN  /\ pending' = With(pending, r, e)
           /\ heap' = heap \cup {e}
    /\ future' = [future EXCEPT ![submits] = "pending"]
    /\ cancelled' = IF preempt THEN cancelled \cup Preempted(p) ELSE cancelled
    /\ nextSeq' = nextSeq + 1 /\ submits' = submits + 1
    /\ UNCHANGED <<running, pc, job, isShutdown, writes, rewritten>>

Submit(r, p, preempt) ==
    /\ ~isShutdown
    /\ submits < MaxSubmits
    /\ UniqueIds => r \notin DOMAIN pending \cup DOMAIN running
    /\ LET e == [req |-> r, prio |-> p, seq |-> nextSeq, fut |-> submits,
                 preempt |-> preempt, live |-> TRUE]
       IN  /\ pending' = With(pending, r, e)
           /\ heap' = heap \cup {e}
    /\ future' = [future EXCEPT ![submits] = "pending"]
    /\ cancelled' = IF preempt THEN cancelled \cup Preempted(p) ELSE cancelled
    /\ Notify
    /\ nextSeq' = nextSeq + 1 /\ submits' = submits + 1
    /\ UNCHANGED <<running, job, isShutdown, writes, rewritten>>

\* Mutant of WritePriority: an omitted tier is written to the running task.
MutWriteNone(r, tier, score) ==
    /\ writes < MaxWrites /\ writes' = writes + 1
    /\ r \in DOMAIN running \ DOMAIN pending
    /\ running' = [running EXCEPT ![r].prio = [tier |-> tier, score |-> score]]
    /\ rewritten' = rewritten \cup {running[r].seq}
    /\ UNCHANGED <<heap, pending, cancelled, pc, nextSeq, future, job, isShutdown, submits>>

\* Mutant of WritePriority: the replacement preempts nobody.
MutWriteNoPreempt(r, tier, score) ==
    /\ writes < MaxWrites /\ writes' = writes + 1
    /\ r \in DOMAIN pending
    /\ LET old   == pending[r]
           tier2 == IF tier = None THEN old.prio.tier ELSE tier
           new   == [old EXCEPT !.prio = [tier |-> tier2, score |-> IF score = None
                                          THEN @.score ELSE score],
                                !.seq = nextSeq, !.preempt = TRUE]
       IN  /\ heap' = (heap \ {old}) \cup {[old EXCEPT !.live = FALSE], new}
           /\ pending' = [pending EXCEPT ![r] = new]
    /\ nextSeq' = nextSeq + 1
    /\ Notify
    /\ UNCHANGED <<running, cancelled, rewritten, future, job, isShutdown, submits>>

\* write_priority: a pending entry is struck out and entered again; a running
\* one is changed in place; any other id is ignored.
WritePriority(r, tier, score) ==
    /\ writes < MaxWrites /\ writes' = writes + 1
    /\ \/ /\ r \in DOMAIN pending
          /\ LET old   == pending[r]
                 tier2 == IF tier = None THEN old.prio.tier ELSE tier
                 prio  == [tier |-> tier2,
                           score |-> IF score # None THEN score
                                     ELSE IF tier # None THEN TopOfTier(tier2)
                                     ELSE old.prio.score]
                 new   == [old EXCEPT !.prio = prio, !.seq = nextSeq, !.preempt = TRUE]
             IN  /\ heap' = (heap \ {old}) \cup {[old EXCEPT !.live = FALSE], new}
                 /\ pending' = [pending EXCEPT ![r] = new]
                 /\ cancelled' = cancelled \cup Preempted(prio)
          /\ nextSeq' = nextSeq + 1
          /\ Notify
          /\ UNCHANGED <<running, rewritten>>
       \/ /\ r \in DOMAIN running \ DOMAIN pending
          /\ running' = [running EXCEPT
               ![r].prio = [tier  |-> IF tier = None THEN @.tier ELSE tier,
                            score |-> IF score = None THEN @.score ELSE score]]
          /\ rewritten' = rewritten \cup {running[r].seq}
          /\ UNCHANGED <<heap, pending, cancelled, pc, nextSeq>>
    /\ UNCHANGED <<future, job, isShutdown, submits>>

\* A caller cancels its future: only a pending one can be.
CancelFuture(f) ==
    /\ future[f] = "pending"
    /\ future' = [future EXCEPT ![f] = "cancelled"]
    /\ UNCHANGED <<heap, pending, running, cancelled, pc, job, isShutdown, nextSeq,
                   submits, writes, rewritten>>

\* Mutant of Shutdown: one waiting worker is notified, not all.
MutShutdownNotifiesOne ==
    /\ ~isShutdown
    /\ isShutdown' = TRUE
    /\ Notify
    /\ UNCHANGED <<heap, pending, running, future, cancelled, job, nextSeq, submits,
                   writes, rewritten>>

\* shutdown, up to the join: every waiting worker is notified.
Shutdown ==
    /\ ~isShutdown
    /\ isShutdown' = TRUE
    /\ pc' = [w \in Workers |-> IF pc[w] = "waiting" THEN "looking" ELSE pc[w]]
    /\ UNCHANGED <<heap, pending, running, future, cancelled, job, nextSeq, submits,
                   writes, rewritten>>
-----------------------------------------------------------------------------
\* Mutant of Current: a struck-out or superseded entry may be popped.
MutCurrentAny == {e \in heap : e.req \in DOMAIN pending}

\* The entries a pop may return: not struck out and not superseded.
Current == {e \in heap : e.live /\ e.req \in DOMAIN pending /\ pending[e.req] = e}

\* Mutant of HasLive: only the heap's top is asked.
MutHasLiveNever == FALSE

\* _has_live_locked.
HasLive == \E r \in DOMAIN pending : pending[r].live

\* Mutant of Take: the popped entry stays in the running table's place only.
MutTakeKeepsPending(w) ==
    /\ pc[w] = "looking"
    /\ ~(isShutdown /\ ~HasLive)
    /\ \E e \in Current :
         /\ \A d \in Current \ {e} : Before(e, d)
         /\ heap' = {d \in heap : Before(e, d)}
         /\ running' = With(running, e.req, e)
         /\ job' = [job EXCEPT ![w] = e]
    /\ pc' = [pc EXCEPT ![w] = "claimed"]
    /\ UNCHANGED <<pending, future, cancelled, isShutdown, nextSeq, submits, writes,
                   rewritten>>

\* The worker has the lock and pops: entries that are not current and come
\* before the one it takes (all of them, if there is none) are discarded.
Take(w) ==
    /\ pc[w] = "looking"
    /\ ~(isShutdown /\ ~HasLive)
    /\ \E e \in Current :
         /\ \A d \in Current \ {e} : Before(e, d)
         /\ heap' = {d \in heap : Before(e, d)}
         /\ pending' = Without(pending, e.req)
         /\ running' = With(running, e.req, e)
         /\ job' = [job EXCEPT ![w] = e]
    /\ pc' = [pc EXCEPT ![w] = "claimed"]
    /\ UNCHANGED <<future, cancelled, isShutdown, nextSeq, submits, writes, rewritten>>

Wait(w) ==
    /\ pc[w] = "looking"
    /\ ~(isShutdown /\ ~HasLive)
    /\ Current = {}
    /\ heap' = {}
    /\ pc' = [pc EXCEPT ![w] = "waiting"]
    /\ UNCHANGED <<pending, running, future, cancelled, job, isShutdown, nextSeq, submits,
                   writes, rewritten>>

Exit(w) ==
    /\ pc[w] = "looking"
    /\ isShutdown /\ ~HasLive
    /\ pc' = [pc EXCEPT ![w] = "exited"]
    /\ UNCHANGED <<heap, pending, running, future, cancelled, job, isShutdown, nextSeq,
                   submits, writes, rewritten>>

\* Mutant of Begin: whether the future was cancelled is not asked.
MutBeginAnyway(w) ==
    /\ pc[w] = "claimed"
    /\ future' = [future EXCEPT ![job[w].fut] = "running"]
    /\ pc' = [pc EXCEPT ![w] = "busy"]
    /\ UNCHANGED <<heap, pending, running, cancelled, job, isShutdown, nextSeq, submits,
                   writes, rewritten>>

\* set_running_or_notify_cancel: a cancelled future is passed over, and one that
\* is neither pending nor cancelled raises, which ends the thread.
Begin(w) ==
    /\ pc[w] = "claimed"
    /\ LET f == job[w].fut
       IN  \/ /\ future[f] = "pending"
              /\ future' = [future EXCEPT ![f] = "running"]
              /\ pc' = [pc EXCEPT ![w] = "busy"]
           \/ /\ future[f] = "cancelled"
              /\ pc' = [pc EXCEPT ![w] = "leaving"]
              /\ UNCHANGED future
           \/ /\ future[f] \notin {"pending", "cancelled"}
              /\ pc' = [pc EXCEPT ![w] = "dead"]
              /\ UNCHANGED future
    /\ UNCHANGED <<heap, pending, running, cancelled, job, isShutdown, nextSeq, submits,
                   writes, rewritten>>

\* The body returns or raises; the future is settled before the lock is taken.
Settle(w) ==
    /\ pc[w] = "busy"
    /\ future' = [future EXCEPT ![job[w].fut] = "done"]
    /\ pc' = [pc EXCEPT ![w] = "leaving"]
    /\ UNCHANGED <<heap, pending, running, cancelled, job, isShutdown, nextSeq, submits,
                   writes, rewritten>>

\* _running.pop(request_id), whichever entry is there.
Leave(w) ==
    /\ pc[w] = "leaving"
    /\ running' = Without(running, job[w].req)
    /\ job' = [job EXCEPT ![w] = None]
    /\ pc' = [pc EXCEPT ![w] = "looking"]
    /\ UNCHANGED <<heap, pending, future, cancelled, isShutdown, nextSeq, submits, writes,
                   rewritten>>

Look(w) == Take(w) \/ Wait(w) \/ Exit(w)
Serve(w) == Begin(w) \/ Settle(w) \/ Leave(w)

Next ==
    \/ \E r \in Requests, p \in Priorities, preempt \in BOOLEAN : Submit(r, p, preempt)
    \/ \E r \in Requests, tier \in Tiers \cup {None},
          score \in {p.score : p \in Priorities} \cup {None} : WritePriority(r, tier, score)
    \/ \E f \in Futures : CancelFuture(f)
    \/ Shutdown
    \/ \E w \in Workers : Look(w)
    \/ \E w \in Workers : Serve(w)

Spec == Init /\ [][Next]_vars

\* Threads go on: a worker that can take the lock does, and bodies end.
Fairness == \A w \in Workers : WF_vars(Look(w)) /\ WF_vars(Serve(w))

FairSpec == Spec /\ Fairness
-----------------------------------------------------------------------------
\* No lost wake-up, and no idle worker beside a queued task: if workers sleep,
\* at least as many are on their way to look as there are tasks to take.
WorkConserving ==
    At({"waiting"}) # {} => Cardinality(Current) <= Cardinality(At({"looking"}))

\* Lazy deletion loses nothing: the entry of a pending request is in the heap.
PendingIsQueued == \A r \in DOMAIN pending : pending[r] \in Current

\* shutdown drains: no worker has left while a request was pending.
DrainedBeforeExit == At({"exited"}) # {} => isShutdown /\ DOMAIN pending = {}

\* A re-prioritised request is still one submission: no two workers hold the
\* same future, and no worker ever meets one that has been run.
RunsOnce ==
    /\ At({"dead"}) = {}
    /\ \A v, w \in At({"claimed", "busy", "leaving"}) :
          v # w => job[v].fut # job[w].fut /\ job[v].req # job[w].req

\* Cooperative preemption misses nobody: a running task that a queued one
\* outranks has been asked to stop (unless its own priority was rewritten, or
\* the queued one was submitted with preempt=False).
OutrankedIsAsked ==
    \A q \in DOMAIN pending, r \in DOMAIN running :
        /\ pending[q].preempt /\ running[r].seq \notin rewritten
        /\ Outranks(pending[q].prio, running[r].prio)
        => running[r].fut \in cancelled

\* Every future a caller holds is settled, and shutdown ends every worker.
FuturesSettle == \A f \in Futures : future[f] # "none" ~> future[f] \in {"done", "cancelled"}
ShutdownEnds  == isShutdown ~> At({"exited"}) = Workers
EverythingEnds == FuturesSettle /\ ShutdownEnds

\* The executor implements the pool of futures.
Pool == INSTANCE FuturePool WITH status <- future
ImplementsPool == Pool!Spec

\* Heap, running table, workers and futures agree: no worker sleeps while work is
\* queued, nothing pending is out of the heap, no body runs twice, and no worker
\* leaves work behind (executor.py, submit, _worker_loop, write_priority, shutdown).
QueueIsSound ==
  /\ TypeOK
  /\ WorkConserving
  /\ PendingIsQueued
  /\ DrainedBeforeExit
  /\ RunsOnce
=============================================================================

--------------------------- MODULE SubMindArbiter ---------------------------
(***************************************************************************)
(* The arbitration of SubMind needs: mindsos_intelligence/                 *)
(* submind_arbiter.py (the arbiter), resources.py (the ledger of exclusive *)
(* resources) and the part of executor.py the two meet in (the job queue   *)
(* and the worker that wraps a resolver in acquire and release).           *)
(*                                                                         *)
(* Threads and steps.  The triage thread calls on_need, the scheduler      *)
(* thread clear, timer threads _retry, and a worker thread takes a job,    *)
(* acquires its resources in the ledger, runs it, runs the future's done   *)
(* callback and releases.  A decision on one need under the arbiter's     *)
(* RLock is one step: it reads the ledger once, and a worker's acquire or  *)
(* release that falls between the read and the unlock does not look at the *)
(* arbiter, so it may as well come after.  The resume hook decides on      *)
(* several needs under one lock and is a step for each (`waking'), because *)
(* a worker may take the first one's job before the second is looked at.   *)
(*                                                                         *)
(* Left out: what a resolver plans and runs (its outcome is chosen), the   *)
(* length of a timer (it fires some time), and write_priority, which only  *)
(* the executor's own module has.  A resolver is taken to outlast the few  *)
(* instructions between submit and add_done_callback.                      *)
(***************************************************************************)
EXTENDS Integers, FiniteSets

CONSTANTS SubMinds,           \* names of the endowed SubMinds
          Resources,          \* exclusive resources (actuators, locks)
          ResolverResources,  \* [SubMinds -> SUBSET Resources], per definition
          SignalPriorities,   \* [SubMinds -> set of the [tier, score] of its signals]
          TaskPriorities,     \* the [tier, score] of enqueued tasks
          Hysteresis,         \* score margin of a same-tier preemption
          Workers,            \* number of worker threads
          MaxAttempts,        \* the cap on retries of one need
          None,               \* no job, no need
          MaxSignals,         \* bound: calls of on_need
          MaxTasks            \* bound: tasks enqueued beside the resolvers

ASSUME ArbiterAssumption ==
    /\ ResolverResources \in [SubMinds -> SUBSET Resources]
    /\ SignalPriorities \in [SubMinds -> SUBSET [tier : Nat, score : Nat]]
    /\ TaskPriorities \subseteq [tier : Nat, score : Nat]
    /\ Hysteresis \in Nat /\ Workers \in Nat \ {0} /\ MaxAttempts \in Nat
    /\ None \notin SubMinds /\ None \notin Nat
    /\ MaxSignals \in Nat /\ MaxTasks \in Nat

VARIABLES
    pending,     \* _pending: name -> the need, on the names that have one
    jobs,        \* request id -> the job, from submit until the worker is done with it
    nextId,      \* the executor's and the arbiter's sequence numbers
    byResource,  \* the ledger's _by_resource
    timers,      \* retry timers that have not fired
    waking,      \* the resume hook that holds the arbiter's lock, and what it has to do
    serviced,    \* history: names whose current signal a resolver has resolved
    stopped,     \* IntelligenceLayer.stop has run
    signals, tasks, gen   \* bounds, and the identity of the next need

vars == <<pending, jobs, nextId, byResource, timers, waking, serviced, stopped, signals, tasks, gen>>
bounds == <<stopped, signals, tasks>>

\* A job is "queued", then "started" (a worker has it), "running" (resources
\* acquired), "returned" (done callback run, resources still held) and
\* "released" (ledger entry gone, the resume hook still to run).
Priority == [tier : Nat, score : Nat]

Job == [name : SubMinds \cup {None}, gen : Nat, prio : Priority,
        res : SUBSET Resources, cancelled : BOOLEAN,
        state : {"queued", "started", "running", "returned", "released"}]

Need == [gen : Nat, prio : Priority, blockedOn : SUBSET Resources,
         attempts : Nat, running : Nat \cup {None}, timer : Nat \cup {None}]

\* The retry timer armed by the attempt-th failure of the need with that gen.
Timer == [name : SubMinds, gen : Nat, attempt : Nat]

TimerOf(n) == [name |-> n, gen |-> pending[n].gen, attempt |-> pending[n].timer]

InFlight(j) == j \in DOMAIN jobs /\ jobs[j].state \in {"queued", "started", "running"}

\* The ledger's _by_task is the set of jobs between acquire and release.
Holding == {j \in DOMAIN jobs : jobs[j].state \in {"running", "returned"}}

TypeOK ==
    /\ DOMAIN pending \subseteq SubMinds
    /\ \A n \in DOMAIN pending : pending[n] \in Need
    /\ DOMAIN jobs \subseteq 0..(nextId - 1)
    /\ \A j \in DOMAIN jobs : jobs[j] \in Job
    /\ nextId \in Nat /\ gen \in Nat
    /\ byResource \in [Resources -> Nat \cup {None}]
    /\ timers \subseteq Timer
    /\ waking \in {None} \cup [job : Nat, names : SUBSET SubMinds]
    /\ serviced \subseteq SubMinds
    /\ stopped \in BOOLEAN
    /\ signals \in 0..MaxSignals /\ tasks \in 0..MaxTasks

Init ==
    /\ pending = [n \in {} |-> None]
    /\ jobs = [j \in {} |-> None]
    /\ nextId = 0 /\ gen = 0
    /\ byResource = [r \in Resources |-> None]
    /\ timers = {} /\ serviced = {} /\ stopped = FALSE /\ waking = None
    /\ signals = 0 /\ tasks = 0
-----------------------------------------------------------------------------
\* Tier first (a lower number is more urgent), then score.
MoreUrgent(p, q) == p.tier < q.tier \/ (p.tier = q.tier /\ p.score > q.score)

\* arbiter._outranks and executor._maybe_preempt_locked: the margin applies
\* within a tier only.
Outranks(p, q) ==
    p.tier < q.tier \/ (p.tier = q.tier /\ p.score > q.score + Hysteresis)

\* ledger.contention: the recorded holders of the resources.
Conflicts(rs) == {byResource[r] : r \in rs} \ {None}

Cancelled(js, victims) ==
    [j \in DOMAIN js |-> IF j \in victims THEN [js[j] EXCEPT !.cancelled = TRUE] ELSE js[j]]

Added(f, x, v) == [y \in DOMAIN f \cup {x} |-> IF y = x THEN v ELSE f[y]]
Without(f, x)  == [y \in DOMAIN f \ {x} |-> f[y]]

\* Mutant of Victims: every conflicting holder is asked to stop, outranked or not.
MutVictimsAll(n, p) == Conflicts(ResolverResources[n])

\* The holders a parked need with priority p asks to stop.
Victims(n, p) == {j \in Conflicts(ResolverResources[n]) : Outranks(p, jobs[j].prio)}

\* _dispatch_locked: the job a need n submits.
Submission(n, need) ==
    [name |-> n, gen |-> need.gen, prio |-> need.prio, res |-> ResolverResources[n],
     cancelled |-> FALSE, state |-> "queued"]

\* _evaluate_locked for name n among the needs `needs': its resolver is in
\* flight already; or nothing holds its resources, submit its resolver; or
\* park it and ask the holders it outranks to stop.
Evaluate(n, needs) ==
    \/ /\ needs[n].running # None
       /\ pending' = needs
       /\ UNCHANGED <<jobs, nextId>>
    \/ /\ needs[n].running = None /\ Conflicts(ResolverResources[n]) = {}
       /\ pending' = [needs EXCEPT ![n].blockedOn = {}, ![n].running = nextId]
       /\ jobs' = Added(jobs, nextId, Submission(n, needs[n]))
       /\ nextId' = nextId + 1
    \/ /\ needs[n].running = None /\ Conflicts(ResolverResources[n]) # {}
       /\ pending' = [needs EXCEPT ![n].blockedOn = ResolverResources[n]]
       /\ jobs' = Cancelled(jobs, Victims(n, needs[n].prio))
       /\ UNCHANGED nextId

-----------------------------------------------------------------------------
\* The triage thread: a signal of SubMind n, classified to priority p.  A need
\* that is already there is updated in place.
OnNeed(n, p) ==
    /\ waking = None /\ signals < MaxSignals
    /\ signals' = signals + 1
    /\ LET fresh == [gen |-> gen, prio |-> p, blockedOn |-> {}, attempts |-> 0,
                     running |-> None, timer |-> None]
           need  == IF n \in DOMAIN pending THEN [pending[n] EXCEPT !.prio = p] ELSE fresh
       IN  /\ gen' = IF n \in DOMAIN pending THEN gen ELSE gen + 1
           /\ Evaluate(n, Added(pending, n, need))
    /\ serviced' = serviced \ {n}
    /\ UNCHANGED <<byResource, timers, waking, stopped, tasks>>

\* _cancel_timer: a timer that has fired and waits for the lock is too late to
\* cancel, so the cancel may be lost.
CancelTimer(n) == timers' \in {timers, timers \ {TimerOf(n)}}

\* The scheduler thread: the vital recovered (FIRED -> ARMED).  The in-flight
\* resolver is looked up through the ledger, by the resources of the need.
Clear(n) ==
    /\ waking = None /\ ~stopped
    /\ n \in DOMAIN pending
    /\ CancelTimer(n)
    /\ jobs' = Cancelled(jobs, {pending[n].running} \cap Conflicts(ResolverResources[n]))
    /\ pending' = Without(pending, n)
    /\ serviced' = serviced \ {n}
    /\ UNCHANGED <<nextId, byResource, waking, bounds, gen>>

\* A timer thread: _retry looks the need up by name.
Retry(t) ==
    /\ waking = None /\ t \in timers
    /\ timers' = timers \ {t}
    /\ IF t.name \in DOMAIN pending /\ pending[t.name].running = None
       THEN Evaluate(t.name, [pending EXCEPT ![t.name].timer = None])
       ELSE UNCHANGED <<pending, jobs, nextId>>
    /\ UNCHANGED <<byResource, waking, serviced, bounds, gen>>

\* Mutant of Enqueue: the task takes no sequence number of its own.
MutEnqueueNoSeq(p, rs) ==
    /\ ~stopped /\ tasks < MaxTasks
    /\ tasks' = tasks + 1
    /\ jobs' = Added(jobs, nextId,
           [name |-> None, gen |-> 0, prio |-> p, res |-> rs, cancelled |-> FALSE,
            state |-> "queued"])
    /\ UNCHANGED <<pending, nextId, byResource, timers, waking, serviced, stopped, signals, gen>>

\* IntelligenceLayer.enqueue: an ordinary task that declares resources.  Unlike
\* a resolver it preempts: running jobs it outranks are asked to stop.
Enqueue(p, rs) ==
    /\ ~stopped /\ tasks < MaxTasks
    /\ tasks' = tasks + 1
    /\ LET outranked == {j \in DOMAIN jobs : /\ jobs[j].state \in {"started", "running"}
                                             /\ Outranks(p, jobs[j].prio)}
           task == [name |-> None, gen |-> 0, prio |-> p, res |-> rs,
                    cancelled |-> FALSE, state |-> "queued"]
       IN  jobs' = Added(Cancelled(jobs, outranked), nextId, task)
    /\ nextId' = nextId + 1
    /\ UNCHANGED <<pending, byResource, timers, waking, serviced, stopped, signals, gen>>

\* IntelligenceLayer.stop, up to the arbiter's: the tokens of enqueued tasks
\* are set, the scheduler has ended, the needs and their timers are dropped.
\* The triage thread still runs for a moment, and may bring one more signal.
Stop ==
    /\ waking = None /\ ~stopped
    /\ stopped' = TRUE
    /\ jobs' = Cancelled(jobs, {j \in DOMAIN jobs : jobs[j].name = None})
    /\ \E intime \in SUBSET {TimerOf(n) : n \in DOMAIN pending} : timers' = timers \ intime
    /\ pending' = [n \in {} |-> None]
    /\ serviced' = {}
    /\ UNCHANGED <<nextId, byResource, waking, signals, tasks, gen>>
-----------------------------------------------------------------------------
SetState(j, s) == [jobs EXCEPT ![j].state = s]

\* A free worker takes the first queued job: (tier, -score, submission).
Start(j) ==
    /\ j \in DOMAIN jobs /\ jobs[j].state = "queued"
    /\ Cardinality({k \in DOMAIN jobs : jobs[k].state # "queued"}) < Workers
    /\ \A k \in DOMAIN jobs : jobs[k].state = "queued" /\ k # j =>
          \/ MoreUrgent(jobs[j].prio, jobs[k].prio)
          \/ ~MoreUrgent(jobs[k].prio, jobs[j].prio) /\ j < k
    /\ jobs' = SetState(j, "started")
    /\ UNCHANGED <<pending, nextId, byResource, timers, waking, serviced, bounds, gen>>

\* ledger.acquire records the holder unconditionally: the last writer stays.
Acquire(j) ==
    /\ j \in DOMAIN jobs /\ jobs[j].state = "started"
    /\ jobs' = SetState(j, "running")
    /\ byResource' = [r \in Resources |-> IF r \in jobs[j].res THEN j ELSE byResource[r]]
    /\ UNCHANGED <<pending, nextId, timers, waking, serviced, bounds, gen>>

\* Mutant of Backoff: the last attempt the cap allows gets no timer.
MutBackoffOffByOne(n) ==
    LET attempt == pending[n].attempts + 1
        again   == attempt < MaxAttempts
    IN  /\ pending' = [pending EXCEPT ![n].running = None,
                                      ![n].attempts = attempt,
                                      ![n].timer = IF again THEN attempt ELSE @]
        /\ timers' = timers \cup
             IF again THEN {[name |-> n, gen |-> pending[n].gen, attempt |-> attempt]} ELSE {}

\* Mutant of Backoff: a failure leaves running_request_id set.
MutBackoffKeepsRunning(n) ==
    /\ pending' = [pending EXCEPT ![n].attempts = @ + 1]
    /\ UNCHANGED timers

\* _schedule_backoff_locked: past the cap there is no timer.
Backoff(n) ==
    LET attempt == pending[n].attempts + 1
        again   == attempt <= MaxAttempts
    IN  /\ pending' = [pending EXCEPT ![n].running = None,
                                      ![n].attempts = attempt,
                                      ![n].timer = IF again THEN attempt ELSE @]
        /\ timers' = timers \cup
             IF again THEN {[name |-> n, gen |-> pending[n].gen, attempt |-> attempt]} ELSE {}

\* The resolver returns and the worker runs the done callback, which looks the
\* need up by name.  A resolver may finish although it was asked to stop.
\* The callback takes the arbiter's lock; a task has no such callback.  A job
\* without resources has nothing to release.
Finish(j, outcome) ==
    /\ j \in DOMAIN jobs /\ jobs[j].state = "running"
    /\ jobs[j].name # None => waking = None
    /\ outcome = "cancelled" => jobs[j].cancelled
    /\ jobs' = IF jobs[j].res = {} THEN Without(jobs, j) ELSE SetState(j, "returned")
    /\ LET n == jobs[j].name
       IN  \/ /\ n \notin DOMAIN pending       \* a task, or the need was cleared
              /\ UNCHANGED <<pending, timers, serviced>>
           \/ /\ n \in DOMAIN pending /\ outcome = "cancelled"
              /\ pending' = [pending EXCEPT ![n].running = None,
                                            ![n].blockedOn = ResolverResources[n]]
              /\ UNCHANGED <<timers, serviced>>
           \/ /\ n \in DOMAIN pending /\ outcome = "resolved"
              /\ pending' = [pending EXCEPT ![n].running = None, ![n].blockedOn = {}]
              /\ serviced' = serviced \cup {n}
              /\ UNCHANGED timers
           \/ /\ n \in DOMAIN pending /\ outcome = "failed"
              /\ Backoff(n)
              /\ UNCHANGED serviced
    /\ UNCHANGED <<nextId, byResource, waking, bounds, gen>>

\* Mutant of Release: the entry is dropped and the resume hook is not called.
MutReleaseNoHook(j) ==
    /\ j \in DOMAIN jobs /\ jobs[j].state = "returned"
    /\ jobs' = Without(jobs, j)
    /\ byResource' = [r \in Resources |-> IF byResource[r] = j THEN None ELSE byResource[r]]
    /\ UNCHANGED <<pending, nextId, timers, waking, serviced, bounds, gen>>

\* Mutant of Release: only the task is forgotten, not its resources.
MutReleaseKeepsEntry(j) ==
    /\ j \in DOMAIN jobs /\ jobs[j].state = "returned"
    /\ jobs' = SetState(j, "released")
    /\ UNCHANGED <<pending, nextId, byResource, timers, waking, serviced, bounds, gen>>

\* ledger.release: an entry overwritten by another holder is left alone.
Release(j) ==
    /\ j \in DOMAIN jobs /\ jobs[j].state = "returned"
    /\ jobs' = SetState(j, "released")
    /\ byResource' = [r \in Resources |-> IF byResource[r] = j THEN None ELSE byResource[r]]
    /\ UNCHANGED <<pending, nextId, timers, waking, serviced, bounds, gen>>

\* arbiter._on_release: the idle needs parked on a freed resource, collected
\* once under the lock ...
Candidates(j) == {n \in DOMAIN pending : /\ pending[n].running = None
                                         /\ pending[n].blockedOn \cap jobs[j].res # {}}

\* ... and evaluated one after the other, the most urgent first (needs of one
\* priority in the order they were created).  Then the worker is free again.
Resume(j) ==
    /\ j \in DOMAIN jobs /\ jobs[j].state = "released"
    /\ waking # None => waking.job = j
    /\ LET todo == IF waking = None THEN Candidates(j) ELSE waking.names
       IN  \/ /\ todo = {}
              /\ jobs' = Without(jobs, j)
              /\ waking' = None
              /\ UNCHANGED <<pending, nextId>>
           \/ \E n \in todo :
                 /\ \A m \in todo \ {n} :
                      \/ MoreUrgent(pending[n].prio, pending[m].prio)
                      \/ /\ pending[n].prio = pending[m].prio
                         /\ pending[n].gen < pending[m].gen
                 /\ Evaluate(n, pending)
                 /\ waking' = [job |-> j, names |-> todo \ {n}]
    /\ UNCHANGED <<byResource, timers, serviced, bounds, gen>>

Work == \E j \in DOMAIN jobs :
    \/ Start(j)
    \/ Acquire(j)
    \/ \E outcome \in {"cancelled", "resolved", "failed"} : Finish(j, outcome)
    \/ Release(j)
    \/ Resume(j)

Next ==
    \/ \E n \in SubMinds : \E p \in SignalPriorities[n] : OnNeed(n, p)
    \/ \E n \in SubMinds : Clear(n)
    \/ \E p \in TaskPriorities, rs \in SUBSET Resources : Enqueue(p, rs)
    \/ \E t \in timers : Retry(t)
    \/ Stop
    \/ Work

Spec == Init /\ [][Next]_vars

\* The workers go on with their jobs, and one that is free takes a queued job.
\* (Nothing below rests on the timers firing.)
Fairness == WF_vars(Work)

FairSpec == Spec /\ Fairness
-----------------------------------------------------------------------------
\* A need that says it has a resolver in flight has: the callback that clears
\* running_request_id is still to come.  Otherwise on_need, _retry and
\* _on_release would all pass the need by for ever.
RunningIsInFlight ==
    \A n \in DOMAIN pending : pending[n].running # None =>
        InFlight(pending[n].running) /\ jobs[pending[n].running].name = n

\* No wake-up is lost: a need parked on resources has a job that will still
\* release one of them and run the resume hook.
ParkedWillBeResumed ==
    \A n \in DOMAIN pending :
        pending[n].running = None /\ pending[n].blockedOn # {} =>
            \E j \in DOMAIN jobs :
                /\ jobs[j].state \in {"running", "returned", "released"}
                /\ jobs[j].res \cap pending[n].blockedOn # {}

\* The ledger never names a task that no longer runs, so a resource cannot stay
\* taken by nobody.
LedgerNamesRunningTasks ==
    \A r \in Resources : byResource[r] # None =>
        byResource[r] \in Holding /\ r \in jobs[byResource[r]].res

\* Standing pressure: a need nobody works on and no resource holds back has been
\* resolved, waits for its retry timer, or has used up its retries ("never
\* auto-give-up", module docstring).
StandingPressure ==
    \A n \in DOMAIN pending :
        pending[n].running = None /\ pending[n].blockedOn = {} =>
            \/ n \in serviced
            \/ pending[n].attempts > MaxAttempts
            \/ TimerOf(n) \in timers

\* Tier is decoupled from preemption (ADR-0189, 1): a signal, a retry or a
\* resume asks a job to stop only if a need that outranks it is parked on a
\* resource that job holds.
PreemptOnlyOnContention ==
    [][\A j \in DOMAIN jobs \cap DOMAIN jobs' :
         /\ ~jobs[j].cancelled /\ jobs'[j].cancelled
         /\ stopped' = stopped /\ tasks' = tasks
         /\ DOMAIN pending \subseteq DOMAIN pending'
         => \E n \in DOMAIN pending' :
              /\ Outranks(pending'[n].prio, jobs[j].prio)
              /\ pending'[n].running = None
              /\ j \in Holding /\ jobs[j].res \cap pending'[n].blockedOn # {}]_vars

\* Event-driven resume: a need does not stay parked on a resource for ever.
ParkedIsResumed ==
    \A n \in SubMinds :
        (n \in DOMAIN pending /\ pending[n].running = None /\ pending[n].blockedOn # {})
          ~> (n \in DOMAIN pending => pending[n].running # None \/ pending[n].blockedOn = {})

\* The arbiter's accounts agree with the threads: a need that says a resolver of it
\* runs has one in flight, and the ledger names holders that hold (submind_arbiter.py,
\* _dispatch_locked and _on_resolver_done; submind_resource_ledger.py).
Accounts ==
  /\ TypeOK
  /\ RunningIsInFlight
  /\ LedgerNamesRunningTasks
=============================================================================

------------------------ MODULE SubMindArbiterProofs ------------------------
(***************************************************************************)
(* SubMindArbiter for every set of SubMinds, resources and priorities, and *)
(* any number of workers and signals: a need that waits for a resolver has *)
(* one, the ledger names only tasks that run, and a parked need has a job  *)
(* whose release will wake it.  One inductive invariant gives the three:   *)
(* parking is safe because the ledger entry that makes a need park belongs *)
(* to a job that still has to release, and the resume hook drops its job   *)
(* only when every need it might have woken has been looked at.            *)
(***************************************************************************)
EXTENDS SubMindArbiter, TLAPS

\* A resolver's job holds what its SubMind's definition declares.
ResolverHoldsItsOwn ==
    \A j \in DOMAIN jobs :
        jobs[j].name # None => jobs[j].res = ResolverResources[jobs[j].name]

\* Job k still has a release and a resume hook ahead that concern need n.
WillWake(k, n) ==
    /\ k \in DOMAIN jobs
    /\ jobs[k].state \in {"running", "returned", "released"}
    /\ jobs[k].res \cap pending[n].blockedOn # {}

\* A need whose resolver is submitted is not parked.
DispatchedIsNotBlocked ==
    \A n \in DOMAIN pending : pending[n].running # None => pending[n].blockedOn = {}

Parked(n) == pending[n].running = None /\ pending[n].blockedOn # {}

\* While the resume hook works through its needs, the ones it is done with
\* do not rely on its own job any more.
WakingCovers ==
    waking # None =>
        /\ waking.job \in DOMAIN jobs /\ jobs[waking.job].state = "released"
        /\ waking.names \subseteq DOMAIN pending
        /\ \A n \in DOMAIN pending \ waking.names :
              Parked(n) => \E k : k # waking.job /\ WillWake(k, n)

IInv == /\ TypeOK /\ RunningIsInFlight /\ LedgerNamesRunningTasks
        /\ ResolverHoldsItsOwn /\ DispatchedIsNotBlocked
        /\ WakingCovers /\ ParkedWillBeResumed
-----------------------------------------------------------------------------
\* The jobs of a step that adds at most the job nextId and otherwise only
\* cancels: what the invariant says of the others is untouched.
JobsKept ==
    /\ DOMAIN jobs \subseteq DOMAIN jobs'
    /\ \A j \in DOMAIN jobs : /\ jobs'[j].name = jobs[j].name
                              /\ jobs'[j].res = jobs[j].res
                              /\ jobs'[j].state = jobs[j].state
    /\ DOMAIN jobs' \subseteq DOMAIN jobs \cup {nextId}

\* What the step cancels it cancels because need n is parked on it.
CancelsFor(n) ==
    \A j \in DOMAIN jobs : ~jobs[j].cancelled /\ jobs'[j].cancelled =>
        /\ Outranks(pending'[n].prio, jobs[j].prio)
        /\ pending'[n].running = None
        /\ j \in Holding /\ jobs[j].res \cap pending'[n].blockedOn # {}

LEMMA CancelledKeeps ==
    ASSUME NEW js, NEW V, \A j \in DOMAIN js : js[j] \in Job
    PROVE  /\ DOMAIN Cancelled(js, V) = DOMAIN js
           /\ \A j \in DOMAIN js : /\ Cancelled(js, V)[j] \in Job
                                   /\ Cancelled(js, V)[j].name = js[j].name
                                   /\ Cancelled(js, V)[j].res = js[j].res
                                   /\ Cancelled(js, V)[j].state = js[j].state
  <1>1. DOMAIN Cancelled(js, V) = DOMAIN js
    BY DEF Cancelled
  <1>2. ASSUME NEW j \in DOMAIN js
        PROVE  /\ Cancelled(js, V)[j] \in Job
               /\ Cancelled(js, V)[j].name = js[j].name
               /\ Cancelled(js, V)[j].res = js[j].res
               /\ Cancelled(js, V)[j].state = js[j].state
    <2>1. Cancelled(js, V)[j] = IF j \in V THEN [js[j] EXCEPT !.cancelled = TRUE] ELSE js[j]
      BY DEF Cancelled
    <2>2. js[j] \in Job
      OBVIOUS
    <2>3. \A J \in Job : LET K == [J EXCEPT !.cancelled = TRUE]
                        IN  K \in Job /\ K.name = J.name /\ K.res = J.res /\ K.state = J.state
      BY DEF Job
    <2>4. QED
      BY <2>1, <2>2, <2>3
  <1>3. QED
    BY <1>1, <1>2

\* What _evaluate_locked leaves behind, whichever way it decides.
LEMMA EvaluateDecides ==
    ASSUME TypeOK, LedgerNamesRunningTasks,
           NEW n \in SubMinds, NEW needs, n \in DOMAIN needs,
           \A m \in DOMAIN needs : needs[m] \in Need,
           Evaluate(n, needs)
    PROVE  /\ DOMAIN pending' = DOMAIN needs
           /\ \A m \in DOMAIN needs : pending'[m] \in Need /\ (m # n => pending'[m] = needs[m])
           /\ JobsKept /\ CancelsFor(n)
           /\ nextId' \in Nat /\ DOMAIN jobs' \subseteq 0..(nextId' - 1)
           /\ \A j \in DOMAIN jobs' : jobs'[j] \in Job
           /\ \A j \in DOMAIN jobs' \ DOMAIN jobs :
                 jobs'[j].name = n /\ jobs'[j].res = ResolverResources[n]
           /\ \/ needs[n].running # None /\ pending'[n] = needs[n]
              \/ /\ pending'[n].running \in DOMAIN jobs'
                 /\ jobs'[pending'[n].running].name = n
                 /\ jobs'[pending'[n].running].state = "queued"
                 /\ pending'[n].blockedOn = {}
              \/ /\ pending'[n].running = None
                 /\ pending'[n].blockedOn = ResolverResources[n]
                 /\ \E r \in ResolverResources[n] : byResource[r] # None
  <1>1. CASE needs[n].running # None
    <2>1. pending' = needs /\ UNCHANGED <<jobs, nextId>>
      BY <1>1 DEF Evaluate
    <2>2. QED
      BY <1>1, <2>1 DEF TypeOK, JobsKept, CancelsFor
  <1>2. CASE needs[n].running = None /\ Conflicts(ResolverResources[n]) = {}
    <2> DEFINE job == Submission(n, needs[n])
    <2>1. /\ pending' = [needs EXCEPT ![n].blockedOn = {}, ![n].running = nextId]
          /\ jobs' = Added(jobs, nextId, job)
          /\ nextId' = nextId + 1
      BY <1>2 DEF Evaluate
    <2>2. nextId \in Nat /\ nextId \notin DOMAIN jobs /\ DOMAIN jobs \subseteq 0..(nextId - 1)
      BY DEF TypeOK
    <2>3. job \in Job /\ job.name = n /\ job.res = ResolverResources[n] /\ job.state = "queued"
      BY ArbiterAssumption DEF Submission, Job, Need, Priority
    <2>4. /\ DOMAIN jobs' = DOMAIN jobs \cup {nextId} /\ jobs'[nextId] = job
          /\ \A j \in DOMAIN jobs : jobs'[j] = jobs[j]
      BY <2>1, <2>2 DEF Added
    <2>5. /\ DOMAIN pending' = DOMAIN needs
          /\ pending'[n] \in Need /\ pending'[n].running = nextId /\ pending'[n].blockedOn = {}
          /\ \A m \in DOMAIN needs : m # n => pending'[m] = needs[m]
      <3>1. /\ DOMAIN pending' = DOMAIN needs
            /\ \A m \in DOMAIN needs : m # n => pending'[m] = needs[m]
            /\ pending'[n] = [needs[n] EXCEPT !.blockedOn = {}, !.running = nextId]
        BY <2>1
      <3>2. needs[n] \in Need
        OBVIOUS
      <3>3. QED
        BY <3>1, <3>2, <2>2 DEF Need
    <2>6. JobsKept /\ CancelsFor(n)
      BY <2>4 DEF JobsKept, CancelsFor
    <2>7. \A j \in DOMAIN jobs : jobs[j] \in Job
      BY DEF TypeOK
    <2>8. nextId' \in Nat /\ DOMAIN jobs' \subseteq 0..(nextId' - 1)
      BY <2>1, <2>2, <2>4
    <2>9. QED
      BY <2>3, <2>4, <2>5, <2>6, <2>7, <2>8
  <1>3. CASE needs[n].running = None /\ Conflicts(ResolverResources[n]) # {}
    <2>1. /\ pending' = [needs EXCEPT ![n].blockedOn = ResolverResources[n]]
          /\ jobs' = Cancelled(jobs, Victims(n, needs[n].prio))
          /\ nextId' = nextId
      BY <1>3 DEF Evaluate
    <2>2. \A j \in DOMAIN jobs : jobs[j] \in Job
      BY DEF TypeOK
    <2>3. DOMAIN jobs' = DOMAIN jobs /\ JobsKept /\ \A j \in DOMAIN jobs : jobs'[j] \in Job
      BY <2>1, <2>2, CancelledKeeps DEF JobsKept
    <2>4. ResolverResources[n] \in SUBSET Resources
      BY ArbiterAssumption
    <2>5. /\ DOMAIN pending' = DOMAIN needs
          /\ pending'[n] \in Need
          /\ pending'[n].running = None /\ pending'[n].blockedOn = ResolverResources[n]
          /\ pending'[n].prio = needs[n].prio
          /\ \A m \in DOMAIN needs : m # n => pending'[m] = needs[m]
      <3>1. /\ DOMAIN pending' = DOMAIN needs
            /\ \A m \in DOMAIN needs : m # n => pending'[m] = needs[m]
            /\ pending'[n] = [needs[n] EXCEPT !.blockedOn = ResolverResources[n]]
        BY <2>1
      <3>2. needs[n] \in Need
        OBVIOUS
      <3>3. QED
        BY <3>1, <3>2, <2>4, <1>3 DEF Need
    <2>6. \E r \in ResolverResources[n] : byResource[r] # None
      BY <1>3 DEF Conflicts
    <2>7. nextId' \in Nat /\ DOMAIN jobs' \subseteq 0..(nextId' - 1)
      BY <2>1, <2>3 DEF TypeOK
    <2>8. CancelsFor(n)
      <3> SUFFICES ASSUME NEW j \in DOMAIN jobs, ~jobs[j].cancelled, jobs'[j].cancelled
                   PROVE  /\ Outranks(pending'[n].prio, jobs[j].prio)
                          /\ pending'[n].running = None
                          /\ j \in Holding /\ jobs[j].res \cap pending'[n].blockedOn # {}
        BY DEF CancelsFor
      <3>1. j \in Victims(n, needs[n].prio)
        BY <2>1 DEF Cancelled
      <3>2. /\ Outranks(needs[n].prio, jobs[j].prio)
            /\ j # None /\ \E r \in ResolverResources[n] : byResource[r] = j
        BY <3>1 DEF Victims, Conflicts
      <3>3. PICK r \in ResolverResources[n] : byResource[r] = j
        BY <3>2
      <3>4. j \in Holding /\ r \in jobs[j].res
        BY <2>4, <3>2, <3>3 DEF LedgerNamesRunningTasks
      <3>5. QED
        BY <2>5, <3>2, <3>4
    <2>9. QED
      BY <2>3, <2>5, <2>6, <2>7, <2>8
  <1>4. QED
    BY <1>1, <1>2, <1>3

\* A decision on need n keeps what the invariant says of jobs and ledger, wakes
\* no other need, and parks n only on a resource some job still has to release.
LEMMA EvaluateKeeps ==
    ASSUME IInv, NEW n \in SubMinds, NEW needs,
           DOMAIN needs = DOMAIN pending \cup {n},
           \A m \in DOMAIN needs : needs[m] \in Need,
           \A m \in DOMAIN pending : m # n => needs[m] = pending[m],
           needs[n].running = IF n \in DOMAIN pending THEN pending[n].running ELSE None,
           n \in DOMAIN pending => needs[n].blockedOn = pending[n].blockedOn,
           Evaluate(n, needs), byResource' = byResource
    PROVE  /\ DOMAIN pending' = DOMAIN pending \cup {n}
           /\ \A m \in DOMAIN pending' : pending'[m] \in Need
           /\ \A m \in DOMAIN pending : m # n => pending'[m] = pending[m]
           /\ JobsKept /\ CancelsFor(n)
           /\ nextId' \in Nat /\ DOMAIN jobs' \subseteq 0..(nextId' - 1)
           /\ \A j \in DOMAIN jobs' : jobs'[j] \in Job
           /\ RunningIsInFlight' /\ LedgerNamesRunningTasks' /\ ResolverHoldsItsOwn'
           /\ DispatchedIsNotBlocked'
           /\ pending'[n].running = None =>
                \E k \in Holding : jobs[k].res \cap pending'[n].blockedOn # {}
  <1> n \in DOMAIN needs /\ TypeOK /\ LedgerNamesRunningTasks
    BY DEF IInv
  <1>1. /\ DOMAIN pending' = DOMAIN needs
        /\ \A m \in DOMAIN needs : pending'[m] \in Need /\ (m # n => pending'[m] = needs[m])
        /\ JobsKept /\ CancelsFor(n)
        /\ nextId' \in Nat /\ DOMAIN jobs' \subseteq 0..(nextId' - 1)
        /\ \A j \in DOMAIN jobs' : jobs'[j] \in Job
        /\ \A j \in DOMAIN jobs' \ DOMAIN jobs :
              jobs'[j].name = n /\ jobs'[j].res = ResolverResources[n]
        /\ \/ needs[n].running # None /\ pending'[n] = needs[n]
           \/ /\ pending'[n].running \in DOMAIN jobs'
              /\ jobs'[pending'[n].running].name = n
              /\ jobs'[pending'[n].running].state = "queued"
              /\ pending'[n].blockedOn = {}
           \/ /\ pending'[n].running = None
              /\ pending'[n].blockedOn = ResolverResources[n]
              /\ \E r \in ResolverResources[n] : byResource[r] # None
    BY EvaluateDecides
  <1>2. RunningIsInFlight'
    <2> SUFFICES ASSUME NEW m \in DOMAIN pending', pending'[m].running # None
                 PROVE  /\ pending'[m].running \in DOMAIN jobs'
                        /\ jobs'[pending'[m].running].state \in {"queued", "started", "running"}
                        /\ jobs'[pending'[m].running].name = m
      BY DEF RunningIsInFlight, InFlight
    <2>1. CASE m \in DOMAIN pending /\ pending'[m].running = pending[m].running
      BY <1>1, <2>1 DEF IInv, RunningIsInFlight, InFlight, JobsKept
    <2>2. CASE m = n /\ ~(m \in DOMAIN pending /\ pending'[m].running = pending[m].running)
      BY <1>1, <2>2
    <2>3. QED
      BY <1>1, <2>1, <2>2
  <1>3. LedgerNamesRunningTasks'
    BY <1>1 DEF IInv, LedgerNamesRunningTasks, Holding, JobsKept
  <1>4. ResolverHoldsItsOwn'
    BY <1>1 DEF IInv, ResolverHoldsItsOwn, JobsKept
  <1>4a. DispatchedIsNotBlocked'
    BY <1>1 DEF IInv, DispatchedIsNotBlocked
  <1>5. pending'[n].running = None =>
          \E k \in Holding : jobs[k].res \cap pending'[n].blockedOn # {}
    <2> SUFFICES ASSUME pending'[n].running = None
                 PROVE  \E k \in Holding : jobs[k].res \cap pending'[n].blockedOn # {}
      OBVIOUS
    <2>1. pending'[n].blockedOn = ResolverResources[n]
      BY <1>1, ArbiterAssumption
    <2>2. PICK r \in ResolverResources[n] : byResource[r] # None
      BY <1>1, ArbiterAssumption
    <2>3. r \in Resources
      BY ArbiterAssumption
    <2>4. byResource[r] \in Holding /\ r \in jobs[byResource[r]].res
      BY <2>2, <2>3 DEF IInv, LedgerNamesRunningTasks
    <2>5. QED
      BY <2>1, <2>4
  <1>6. QED
    BY <1>1, <1>2, <1>3, <1>4, <1>4a, <1>5
-----------------------------------------------------------------------------
LEMMA InitInv == Init => IInv
  <1> SUFFICES ASSUME Init PROVE IInv
    OBVIOUS
  <1>1. TypeOK
    <2>1. DOMAIN pending = {} /\ DOMAIN jobs = {}
      BY DEF Init
    <2>2. byResource \in [Resources -> Nat \cup {None}]
      BY DEF Init
    <2>3. nextId \in Nat /\ gen \in Nat /\ signals \in 0..MaxSignals /\ tasks \in 0..MaxTasks
      BY ArbiterAssumption DEF Init
    <2>4. timers \subseteq Timer /\ serviced \subseteq SubMinds /\ stopped \in BOOLEAN
      BY DEF Init
    <2>5. waking \in {None} \cup [job : Nat, names : SUBSET SubMinds]
      BY DEF Init
    <2>6. QED
      BY <2>1, <2>2, <2>3, <2>4, <2>5 DEF TypeOK
  <1>2. /\ RunningIsInFlight /\ LedgerNamesRunningTasks
        /\ ResolverHoldsItsOwn /\ DispatchedIsNotBlocked /\ WakingCovers /\ ParkedWillBeResumed
    BY DEF Init, RunningIsInFlight, LedgerNamesRunningTasks, ResolverHoldsItsOwn,
           DispatchedIsNotBlocked, WakingCovers, ParkedWillBeResumed
  <1>3. QED
    BY <1>1, <1>2 DEF IInv

LEMMA OnNeedDecides ==
    ASSUME IInv, NEW n \in SubMinds, NEW p \in SignalPriorities[n], OnNeed(n, p)
    PROVE  /\ waking = None /\ signals < MaxSignals
           /\ signals' = signals + 1 /\ gen' \in {gen, gen + 1} /\ serviced' = serviced \ {n}
           /\ UNCHANGED <<byResource, timers, waking, stopped, tasks>>
           /\ DOMAIN pending' = DOMAIN pending \cup {n}
           /\ \A m \in DOMAIN pending' : pending'[m] \in Need
           /\ \A m \in DOMAIN pending : m # n => pending'[m] = pending[m]
           /\ JobsKept /\ CancelsFor(n)
           /\ nextId' \in Nat /\ DOMAIN jobs' \subseteq 0..(nextId' - 1)
           /\ \A j \in DOMAIN jobs' : jobs'[j] \in Job
           /\ RunningIsInFlight' /\ LedgerNamesRunningTasks' /\ ResolverHoldsItsOwn'
           /\ DispatchedIsNotBlocked'
           /\ pending'[n].running = None =>
                \E k \in Holding : jobs[k].res \cap pending'[n].blockedOn # {}
  <1> DEFINE fresh == [gen |-> gen, prio |-> p, blockedOn |-> {}, attempts |-> 0,
                       running |-> None, timer |-> None]
             need  == IF n \in DOMAIN pending THEN [pending[n] EXCEPT !.prio = p] ELSE fresh
             needs == Added(pending, n, need)
  <1>1. TypeOK /\ p \in Priority
    BY ArbiterAssumption DEF IInv, Priority
  <1>2. /\ need \in Need /\ need.running = IF n \in DOMAIN pending THEN pending[n].running ELSE None
        /\ n \in DOMAIN pending => need.blockedOn = pending[n].blockedOn
    <2>1. n \in DOMAIN pending => pending[n] \in Need
      BY <1>1 DEF TypeOK
    <2>2. gen \in Nat
      BY <1>1 DEF TypeOK
    <2>3. QED
      BY <1>1, <2>1, <2>2 DEF Need
  <1>3. /\ DOMAIN needs = DOMAIN pending \cup {n}
        /\ needs[n] = need
        /\ \A m \in DOMAIN pending : m # n => needs[m] = pending[m]
    BY DEF Added
  <1>4. \A m \in DOMAIN needs : needs[m] \in Need
    BY <1>1, <1>2, <1>3 DEF TypeOK
  <1>5. /\ Evaluate(n, needs) /\ waking = None /\ signals < MaxSignals
        /\ signals' = signals + 1 /\ gen' \in {gen, gen + 1} /\ serviced' = serviced \ {n}
        /\ UNCHANGED <<byResource, timers, waking, stopped, tasks>>
    BY DEF OnNeed
  <1> HIDE DEF need, needs
  <1>6. QED
    BY <1>2, <1>3, <1>4, <1>5, EvaluateKeeps

LEMMA OnNeedInv ==
    ASSUME IInv, NEW n \in SubMinds, NEW p \in SignalPriorities[n], OnNeed(n, p)
    PROVE  IInv'
  <1>1. TypeOK
    BY DEF IInv
  <1>5. /\ waking = None /\ signals < MaxSignals
        /\ signals' = signals + 1 /\ gen' \in {gen, gen + 1} /\ serviced' = serviced \ {n}
        /\ UNCHANGED <<byResource, timers, waking, stopped, tasks>>
    BY OnNeedDecides
  <1>6. /\ DOMAIN pending' = DOMAIN pending \cup {n}
        /\ \A m \in DOMAIN pending' : pending'[m] \in Need
        /\ \A m \in DOMAIN pending : m # n => pending'[m] = pending[m]
        /\ JobsKept /\ CancelsFor(n)
        /\ nextId' \in Nat /\ DOMAIN jobs' \subseteq 0..(nextId' - 1)
        /\ \A j \in DOMAIN jobs' : jobs'[j] \in Job
        /\ RunningIsInFlight' /\ LedgerNamesRunningTasks' /\ ResolverHoldsItsOwn'
        /\ DispatchedIsNotBlocked'
        /\ pending'[n].running = None =>
             \E k \in Holding : jobs[k].res \cap pending'[n].blockedOn # {}
    BY OnNeedDecides
  <1>7. TypeOK'
    BY <1>1, <1>5, <1>6, ArbiterAssumption DEF TypeOK
  <1>8. WakingCovers'
    BY <1>5 DEF WakingCovers
  <1>9. ParkedWillBeResumed'
    BY <1>6 DEF IInv, ParkedWillBeResumed, Holding, JobsKept
  <1>10. QED
    BY <1>6, <1>7, <1>8, <1>9 DEF IInv

LEMMA RetryDecides ==
    ASSUME IInv, NEW t \in timers, NEW n, n = t.name, Retry(t),
           n \in DOMAIN pending, pending[n].running = None
    PROVE  /\ waking = None /\ timers' = timers \ {t}
           /\ UNCHANGED <<byResource, waking, serviced, bounds, gen>>
           /\ DOMAIN pending' = DOMAIN pending \cup {n}
           /\ \A m \in DOMAIN pending' : pending'[m] \in Need
           /\ \A m \in DOMAIN pending : m # n => pending'[m] = pending[m]
           /\ JobsKept /\ CancelsFor(n)
           /\ nextId' \in Nat /\ DOMAIN jobs' \subseteq 0..(nextId' - 1)
           /\ \A j \in DOMAIN jobs' : jobs'[j] \in Job
           /\ RunningIsInFlight' /\ LedgerNamesRunningTasks' /\ ResolverHoldsItsOwn'
           /\ DispatchedIsNotBlocked'
           /\ pending'[n].running = None =>
                \E k \in Holding : jobs[k].res \cap pending'[n].blockedOn # {}
  <1> DEFINE needs == [pending EXCEPT ![n].timer = None]
  <1>0. TypeOK
    BY DEF IInv
  <1>1. n \in SubMinds
    BY <1>0 DEF TypeOK
  <1>2. /\ DOMAIN needs = DOMAIN pending
        /\ \A m \in DOMAIN pending : m # n => needs[m] = pending[m]
        /\ needs[n] = [pending[n] EXCEPT !.timer = None]
    OBVIOUS
  <1>3. pending[n] \in Need
    BY <1>0 DEF TypeOK
  <1>4. /\ needs[n] \in Need /\ needs[n].running = pending[n].running
        /\ needs[n].blockedOn = pending[n].blockedOn
    BY <1>2, <1>3 DEF Need
  <1>5. \A m \in DOMAIN needs : needs[m] \in Need
    BY <1>0, <1>2, <1>4 DEF TypeOK
  <1>6. /\ Evaluate(n, needs) /\ waking = None /\ timers' = timers \ {t}
        /\ UNCHANGED <<byResource, waking, serviced, bounds, gen>>
    BY DEF Retry
  <1> HIDE DEF needs
  <1>7. /\ DOMAIN needs = DOMAIN pending \cup {n} /\ byResource' = byResource
        /\ needs[n].running = IF n \in DOMAIN pending THEN pending[n].running ELSE None
    BY <1>2, <1>4, <1>6
  <1>8. /\ DOMAIN pending' = DOMAIN pending \cup {n}
        /\ \A m \in DOMAIN pending' : pending'[m] \in Need
        /\ \A m \in DOMAIN pending : m # n => pending'[m] = pending[m]
        /\ JobsKept /\ CancelsFor(n)
        /\ nextId' \in Nat /\ DOMAIN jobs' \subseteq 0..(nextId' - 1)
        /\ \A j \in DOMAIN jobs' : jobs'[j] \in Job
        /\ RunningIsInFlight' /\ LedgerNamesRunningTasks' /\ ResolverHoldsItsOwn'
        /\ DispatchedIsNotBlocked'
        /\ pending'[n].running = None =>
             \E k \in Holding : jobs[k].res \cap pending'[n].blockedOn # {}
    BY <1>1, <1>2, <1>4, <1>5, <1>6, <1>7, EvaluateKeeps
  <1>9. QED
    BY <1>6, <1>8

LEMMA RetryInv ==
    ASSUME IInv, NEW t \in timers, Retry(t)
    PROVE  IInv'
  <1> DEFINE n == t.name
  <1>1. TypeOK
    BY DEF IInv
  <1>2. CASE n \in DOMAIN pending /\ pending[n].running = None
    <2>1. n \in SubMinds
      BY <1>1, <1>2 DEF TypeOK
    <2>6. /\ waking = None /\ timers' = timers \ {t}
          /\ UNCHANGED <<byResource, waking, serviced, bounds, gen>>
      BY <1>2, RetryDecides
    <2>7. /\ DOMAIN pending' = DOMAIN pending \cup {n}
          /\ \A m \in DOMAIN pending' : pending'[m] \in Need
          /\ \A m \in DOMAIN pending : m # n => pending'[m] = pending[m]
          /\ JobsKept /\ CancelsFor(n)
          /\ nextId' \in Nat /\ DOMAIN jobs' \subseteq 0..(nextId' - 1)
          /\ \A j \in DOMAIN jobs' : jobs'[j] \in Job
          /\ RunningIsInFlight' /\ LedgerNamesRunningTasks' /\ ResolverHoldsItsOwn'
          /\ DispatchedIsNotBlocked'
          /\ pending'[n].running = None =>
               \E k \in Holding : jobs[k].res \cap pending'[n].blockedOn # {}
      BY <1>2, RetryDecides
    <2>8. TypeOK'
      BY <1>1, <1>2, <2>1, <2>6, <2>7 DEF TypeOK, bounds
    <2>9. WakingCovers'
      BY <2>6 DEF WakingCovers
    <2>10. ParkedWillBeResumed'
      BY <1>2, <2>7 DEF IInv, ParkedWillBeResumed, Holding, JobsKept
    <2>11. QED
      BY <2>7, <2>8, <2>9, <2>10 DEF IInv
  <1>3. CASE ~(n \in DOMAIN pending /\ pending[n].running = None)
    <2>1. /\ UNCHANGED <<pending, jobs, nextId, byResource, waking, serviced, bounds, gen>>
          /\ timers' \subseteq timers
      BY <1>3 DEF Retry
    <2>2. TypeOK'
      BY <1>1, <2>1 DEF TypeOK, bounds
    <2>3. /\ RunningIsInFlight' /\ LedgerNamesRunningTasks' /\ ResolverHoldsItsOwn'
          /\ DispatchedIsNotBlocked' /\ WakingCovers' /\ ParkedWillBeResumed'
      BY <2>1 DEF IInv, RunningIsInFlight, InFlight, LedgerNamesRunningTasks, Holding,
                  ResolverHoldsItsOwn, DispatchedIsNotBlocked, WakingCovers, WillWake, Parked, ParkedWillBeResumed
    <2>4. QED
      BY <2>2, <2>3 DEF IInv
  <1>4. QED
    BY <1>2, <1>3

\* Steps that leave the needs and the ledger alone and only cancel jobs, add a
\* job of no SubMind, or take a queued one.
LEMMA ClearInv ==
    ASSUME IInv, NEW n \in SubMinds, Clear(n)
    PROVE  IInv'
  <1> DEFINE V == {pending[n].running} \cap Conflicts(ResolverResources[n])
  <1>1. TypeOK /\ \A j \in DOMAIN jobs : jobs[j] \in Job
    BY DEF IInv, TypeOK
  <1>2. /\ waking = None /\ n \in DOMAIN pending
        /\ jobs' = Cancelled(jobs, V)
        /\ pending' = Without(pending, n)
        /\ serviced' = serviced \ {n}
        /\ timers' \subseteq timers
        /\ UNCHANGED <<nextId, byResource, waking, bounds, gen>>
    BY DEF Clear, CancelTimer
  <1> HIDE DEF V
  <1>3. /\ DOMAIN jobs' = DOMAIN jobs
        /\ \A j \in DOMAIN jobs : /\ jobs'[j] \in Job
                                  /\ jobs'[j].name = jobs[j].name
                                  /\ jobs'[j].res = jobs[j].res
                                  /\ jobs'[j].state = jobs[j].state
    BY <1>1, <1>2, CancelledKeeps
  <1>4. /\ DOMAIN pending' = DOMAIN pending \ {n}
        /\ \A m \in DOMAIN pending' : pending'[m] = pending[m]
    BY <1>2 DEF Without
  <1>5. TypeOK'
    BY <1>1, <1>2, <1>3, <1>4 DEF TypeOK, bounds
  <1>6. /\ RunningIsInFlight' /\ LedgerNamesRunningTasks' /\ ResolverHoldsItsOwn'
        /\ DispatchedIsNotBlocked'
        /\ WakingCovers' /\ ParkedWillBeResumed'
    BY <1>2, <1>3, <1>4 DEF IInv, RunningIsInFlight, InFlight, LedgerNamesRunningTasks,
       Holding, ResolverHoldsItsOwn, DispatchedIsNotBlocked, WakingCovers, ParkedWillBeResumed
  <1>7. QED
    BY <1>5, <1>6 DEF IInv

LEMMA EnqueueInv ==
    ASSUME IInv, NEW p \in TaskPriorities, NEW rs \in SUBSET Resources, Enqueue(p, rs)
    PROVE  IInv'
  <1> DEFINE V == {j \in DOMAIN jobs : jobs[j].state \in {"started", "running"}
                                        /\ Outranks(p, jobs[j].prio)}
             task == [name |-> None, gen |-> 0, prio |-> p, res |-> rs,
                      cancelled |-> FALSE, state |-> "queued"]
  <1>1. TypeOK /\ \A j \in DOMAIN jobs : jobs[j] \in Job
    BY DEF IInv, TypeOK
  <1>2. /\ jobs' = Added(Cancelled(jobs, V), nextId, task)
        /\ nextId' = nextId + 1 /\ tasks < MaxTasks /\ tasks' = tasks + 1
        /\ UNCHANGED <<pending, byResource, timers, waking, serviced, stopped, signals, gen>>
    BY DEF Enqueue
  <1>3. task \in Job /\ task.name = None
    BY ArbiterAssumption DEF Job, Priority
  <1> HIDE DEF V, task
  <1>4. nextId \in Nat /\ DOMAIN jobs \subseteq 0..(nextId - 1) /\ nextId \notin DOMAIN jobs
    BY <1>1 DEF TypeOK
  <1>5. /\ DOMAIN jobs' = DOMAIN jobs \cup {nextId} /\ jobs'[nextId] = task
        /\ \A j \in DOMAIN jobs : /\ jobs'[j] \in Job
                                  /\ jobs'[j].name = jobs[j].name
                                  /\ jobs'[j].res = jobs[j].res
                                  /\ jobs'[j].state = jobs[j].state
    <2>1. /\ DOMAIN jobs' = DOMAIN jobs \cup {nextId} /\ jobs'[nextId] = task
          /\ \A j \in DOMAIN jobs : jobs'[j] = Cancelled(jobs, V)[j]
      <3>1. DOMAIN Cancelled(jobs, V) = DOMAIN jobs
        BY <1>1, CancelledKeeps
      <3>2. QED
        BY <1>2, <1>4, <3>1 DEF Added
    <2>2. QED
      BY <1>1, <2>1, CancelledKeeps
  <1>6. nextId' \in Nat /\ DOMAIN jobs' \subseteq 0..(nextId' - 1)
    BY <1>2, <1>4, <1>5
  <1>7. TypeOK'
    BY <1>1, <1>2, <1>3, <1>5, <1>6, ArbiterAssumption DEF TypeOK
  <1>8. /\ RunningIsInFlight' /\ LedgerNamesRunningTasks' /\ ResolverHoldsItsOwn'
        /\ DispatchedIsNotBlocked'
    BY <1>2, <1>3, <1>5 DEF IInv, RunningIsInFlight, InFlight, LedgerNamesRunningTasks,
       Holding, ResolverHoldsItsOwn, DispatchedIsNotBlocked
  <1>9. WakingCovers' /\ ParkedWillBeResumed'
    BY <1>2, <1>5 DEF IInv, WakingCovers, WillWake, Parked, ParkedWillBeResumed
  <1>10. QED
    BY <1>7, <1>8, <1>9 DEF IInv

LEMMA StopInv ==
    ASSUME IInv, Stop
    PROVE  IInv'
  <1> DEFINE V == {j \in DOMAIN jobs : jobs[j].name = None}
  <1>1. TypeOK /\ \A j \in DOMAIN jobs : jobs[j] \in Job
    BY DEF IInv, TypeOK
  <1>2. /\ waking = None /\ stopped' = TRUE
        /\ jobs' = Cancelled(jobs, V)
        /\ DOMAIN pending' = {} /\ serviced' = {} /\ timers' \subseteq timers
        /\ UNCHANGED <<nextId, byResource, waking, signals, tasks, gen>>
    BY DEF Stop
  <1> HIDE DEF V
  <1>3. /\ DOMAIN jobs' = DOMAIN jobs
        /\ \A j \in DOMAIN jobs : /\ jobs'[j] \in Job
                                  /\ jobs'[j].name = jobs[j].name
                                  /\ jobs'[j].res = jobs[j].res
                                  /\ jobs'[j].state = jobs[j].state
    BY <1>1, <1>2, CancelledKeeps
  <1>4. TypeOK'
    BY <1>1, <1>2, <1>3 DEF TypeOK
  <1>5. /\ RunningIsInFlight' /\ LedgerNamesRunningTasks' /\ ResolverHoldsItsOwn'
        /\ DispatchedIsNotBlocked'
        /\ WakingCovers' /\ ParkedWillBeResumed'
    BY <1>2, <1>3 DEF IInv, RunningIsInFlight, LedgerNamesRunningTasks,
       Holding, ResolverHoldsItsOwn, DispatchedIsNotBlocked, WakingCovers, ParkedWillBeResumed
  <1>6. QED
    BY <1>4, <1>5 DEF IInv
-----------------------------------------------------------------------------
\* What SetState does to the jobs.
LEMMA SetStateKeeps ==
    ASSUME TypeOK, NEW j \in DOMAIN jobs,
           NEW s \in {"queued", "started", "running", "returned", "released"},
           jobs' = SetState(j, s)
    PROVE  /\ DOMAIN jobs' = DOMAIN jobs
           /\ \A k \in DOMAIN jobs : /\ jobs'[k] \in Job
                                     /\ jobs'[k].name = jobs[k].name
                                     /\ jobs'[k].res = jobs[k].res
                                     /\ jobs'[k].state = IF k = j THEN s ELSE jobs[k].state
  <1>1. DOMAIN jobs' = DOMAIN jobs
    BY DEF SetState
  <1>2. ASSUME NEW k \in DOMAIN jobs
        PROVE  /\ jobs'[k] \in Job
               /\ jobs'[k].name = jobs[k].name
               /\ jobs'[k].res = jobs[k].res
               /\ jobs'[k].state = IF k = j THEN s ELSE jobs[k].state
    <2>1. jobs[k] \in Job
      BY DEF TypeOK
    <2>2. jobs'[k] = IF k = j THEN [jobs[k] EXCEPT !.state = s] ELSE jobs[k]
      BY DEF SetState
    <2>3. \A J \in Job : LET K == [J EXCEPT !.state = s]
                        IN  K \in Job /\ K.name = J.name /\ K.res = J.res /\ K.state = s
      BY DEF Job
    <2>4. QED
      BY <2>1, <2>2, <2>3
  <1>3. QED
    BY <1>1, <1>2

LEMMA StartInv ==
    ASSUME IInv, NEW j \in DOMAIN jobs, Start(j)
    PROVE  IInv'
  <1>1. /\ TypeOK /\ jobs[j].state = "queued" /\ jobs' = SetState(j, "started")
        /\ UNCHANGED <<pending, nextId, byResource, timers, waking, serviced, bounds, gen>>
    BY DEF IInv, Start
  <1>2. /\ DOMAIN jobs' = DOMAIN jobs
        /\ \A k \in DOMAIN jobs : /\ jobs'[k] \in Job
                                  /\ jobs'[k].name = jobs[k].name
                                  /\ jobs'[k].res = jobs[k].res
                                  /\ jobs'[k].state = IF k = j THEN "started" ELSE jobs[k].state
    BY <1>1, SetStateKeeps
  <1>3. TypeOK'
    BY <1>1, <1>2 DEF TypeOK, bounds
  <1>4. /\ RunningIsInFlight' /\ LedgerNamesRunningTasks' /\ ResolverHoldsItsOwn'
        /\ DispatchedIsNotBlocked'
    BY <1>1, <1>2 DEF IInv, RunningIsInFlight, InFlight, LedgerNamesRunningTasks,
       Holding, ResolverHoldsItsOwn, DispatchedIsNotBlocked
  <1>5. WakingCovers' /\ ParkedWillBeResumed'
    BY <1>1, <1>2 DEF IInv, WakingCovers, WillWake, Parked, ParkedWillBeResumed
  <1>6. QED
    BY <1>3, <1>4, <1>5 DEF IInv

LEMMA AcquireInv ==
    ASSUME IInv, NEW j \in DOMAIN jobs, Acquire(j)
    PROVE  IInv'
  <1>1. /\ TypeOK /\ jobs[j].state = "started" /\ jobs' = SetState(j, "running")
        /\ byResource' = [r \in Resources |-> IF r \in jobs[j].res THEN j ELSE byResource[r]]
        /\ UNCHANGED <<pending, nextId, timers, waking, serviced, bounds, gen>>
    BY DEF IInv, Acquire
  <1>2. /\ DOMAIN jobs' = DOMAIN jobs
        /\ \A k \in DOMAIN jobs : /\ jobs'[k] \in Job
                                  /\ jobs'[k].name = jobs[k].name
                                  /\ jobs'[k].res = jobs[k].res
                                  /\ jobs'[k].state = IF k = j THEN "running" ELSE jobs[k].state
    BY <1>1, SetStateKeeps
  <1>3. TypeOK'
    <2>1. byResource' \in [Resources -> Nat \cup {None}]
      BY <1>1 DEF TypeOK
    <2>2. QED
      BY <1>1, <1>2, <2>1 DEF TypeOK, bounds
  <1>4. /\ RunningIsInFlight' /\ LedgerNamesRunningTasks' /\ ResolverHoldsItsOwn'
        /\ DispatchedIsNotBlocked'
    BY <1>1, <1>2 DEF IInv, RunningIsInFlight, InFlight, LedgerNamesRunningTasks,
       Holding, ResolverHoldsItsOwn, DispatchedIsNotBlocked
  <1>5. WakingCovers' /\ ParkedWillBeResumed'
    BY <1>1, <1>2 DEF IInv, WakingCovers, WillWake, Parked, ParkedWillBeResumed
  <1>6. QED
    BY <1>3, <1>4, <1>5 DEF IInv

LEMMA ReleaseInv ==
    ASSUME IInv, NEW j \in DOMAIN jobs, Release(j)
    PROVE  IInv'
  <1>1. /\ TypeOK /\ jobs[j].state = "returned" /\ jobs' = SetState(j, "released")
        /\ byResource' = [r \in Resources |-> IF byResource[r] = j THEN None ELSE byResource[r]]
        /\ UNCHANGED <<pending, nextId, timers, waking, serviced, bounds, gen>>
    BY DEF IInv, Release
  <1>2. /\ DOMAIN jobs' = DOMAIN jobs
        /\ \A k \in DOMAIN jobs : /\ jobs'[k] \in Job
                                  /\ jobs'[k].name = jobs[k].name
                                  /\ jobs'[k].res = jobs[k].res
                                  /\ jobs'[k].state = IF k = j THEN "released" ELSE jobs[k].state
    BY <1>1, SetStateKeeps
  <1>3. TypeOK'
    <2>1. byResource' \in [Resources -> Nat \cup {None}]
      BY <1>1 DEF TypeOK
    <2>2. QED
      BY <1>1, <1>2, <2>1 DEF TypeOK, bounds
  <1>4. /\ RunningIsInFlight' /\ LedgerNamesRunningTasks' /\ ResolverHoldsItsOwn'
        /\ DispatchedIsNotBlocked'
    BY <1>1, <1>2 DEF IInv, RunningIsInFlight, InFlight, LedgerNamesRunningTasks,
       Holding, ResolverHoldsItsOwn, DispatchedIsNotBlocked
  <1>5. WakingCovers' /\ ParkedWillBeResumed'
    BY <1>1, <1>2 DEF IInv, WakingCovers, WillWake, Parked, ParkedWillBeResumed
  <1>6. QED
    BY <1>3, <1>4, <1>5 DEF IInv

\* The done callback: the need of the job's name, if there is one, is idle
\* again; parked only after a cancel, on what the job itself still holds.
LEMMA FinishInv ==
    ASSUME IInv, NEW j \in DOMAIN jobs, NEW outcome, Finish(j, outcome)
    PROVE  IInv'
  <1> DEFINE n == jobs[j].name
  <1>1. /\ TypeOK /\ jobs[j].state = "running" /\ (n # None => waking = None)
        /\ jobs' = IF jobs[j].res = {} THEN Without(jobs, j) ELSE SetState(j, "returned")
        /\ UNCHANGED <<nextId, byResource, waking, bounds, gen>>
    BY DEF IInv, Finish
  <1>2. jobs[j] \in Job /\ n \in SubMinds \cup {None}
    BY <1>1 DEF TypeOK, Job
  <1>3. /\ DOMAIN jobs' = IF jobs[j].res = {} THEN DOMAIN jobs \ {j} ELSE DOMAIN jobs
        /\ \A k \in DOMAIN jobs' : /\ jobs'[k] \in Job
                                   /\ jobs'[k].name = jobs[k].name
                                   /\ jobs'[k].res = jobs[k].res
                                   /\ k # j => jobs'[k].state = jobs[k].state
                                   /\ k = j => jobs'[k].state = "returned"
    <2>1. CASE jobs[j].res = {}
      BY <1>1, <2>1 DEF Without, TypeOK
    <2>2. CASE jobs[j].res # {}
      BY <1>1, <2>2, SetStateKeeps
    <2>3. QED
      BY <2>1, <2>2
  <1>4. /\ DOMAIN pending' = DOMAIN pending
        /\ \A m \in DOMAIN pending : m # n => pending'[m] = pending[m]
        /\ n \in DOMAIN pending =>
             /\ pending'[n] \in Need /\ pending'[n].running = None
             /\ pending'[n].blockedOn \in {{}, pending[n].blockedOn, ResolverResources[n]}
        /\ timers' \subseteq Timer /\ serviced' \subseteq SubMinds
    <2>1. CASE n \notin DOMAIN pending
      BY <1>1, <2>1 DEF Finish, TypeOK
    <2>2. CASE n \in DOMAIN pending
      <3>1. pending[n] \in Need /\ n \in SubMinds /\ ResolverResources[n] \in SUBSET Resources
        BY <1>1, <2>2, ArbiterAssumption DEF TypeOK
      <3>2. CASE outcome = "cancelled"
        <4>1. /\ pending' = [pending EXCEPT ![n].running = None,
                                            ![n].blockedOn = ResolverResources[n]]
              /\ UNCHANGED <<timers, serviced>>
          BY <2>2, <3>2 DEF Finish
        <4>2. pending'[n] = [pending[n] EXCEPT !.running = None, !.blockedOn = ResolverResources[n]]
          BY <2>2, <4>1
        <4>3. /\ pending'[n] \in Need /\ pending'[n].running = None
              /\ pending'[n].blockedOn = ResolverResources[n]
          BY <3>1, <4>2 DEF Need
        <4>4. QED
          BY <1>1, <2>2, <4>1, <4>3 DEF TypeOK
      <3>3. CASE outcome = "resolved"
        <4>1. /\ pending' = [pending EXCEPT ![n].running = None, ![n].blockedOn = {}]
              /\ serviced' = serviced \cup {n} /\ UNCHANGED timers
          BY <2>2, <3>3 DEF Finish
        <4>2. pending'[n] = [pending[n] EXCEPT !.running = None, !.blockedOn = {}]
          BY <2>2, <4>1
        <4>3. /\ pending'[n] \in Need /\ pending'[n].running = None
              /\ pending'[n].blockedOn = {}
          BY <3>1, <4>2 DEF Need
        <4>4. QED
          BY <1>1, <2>2, <3>1, <4>1, <4>3 DEF TypeOK
      <3>4. CASE outcome = "failed"
        <4> DEFINE attempt == pending[n].attempts + 1
                   again   == attempt <= MaxAttempts
                   timer   == IF again THEN attempt ELSE pending[n].timer
        <4>1. Backoff(n) /\ UNCHANGED serviced
          BY <2>2, <3>4 DEF Finish
        <4>2. attempt \in Nat /\ timer \in Nat \cup {None} /\ pending[n].gen \in Nat
          BY <3>1 DEF Need
        <4>3. pending'[n] = [pending[n] EXCEPT !.running = None, !.attempts = attempt, !.timer = timer]
          BY <2>2, <4>1 DEF Backoff
        <4>4. /\ DOMAIN pending' = DOMAIN pending
              /\ \A m \in DOMAIN pending : m # n => pending'[m] = pending[m]
              /\ timers' = timers \cup
                   IF again THEN {[name |-> n, gen |-> pending[n].gen, attempt |-> attempt]} ELSE {}
          BY <4>1 DEF Backoff
        <4> HIDE DEF attempt, again, timer
        <4>5. /\ pending'[n] \in Need /\ pending'[n].running = None
              /\ pending'[n].blockedOn = pending[n].blockedOn
          BY <3>1, <4>2, <4>3 DEF Need
        <4>6. timers' \subseteq Timer
          BY <1>1, <3>1, <4>2, <4>4 DEF TypeOK, Timer
        <4>7. QED
          BY <1>1, <2>2, <4>1, <4>4, <4>5, <4>6 DEF TypeOK
      <3>5. QED
        BY <2>2, <3>2, <3>3, <3>4 DEF Finish
    <2>3. QED
      BY <2>1, <2>2
  <1> HIDE DEF n
  <1>5. TypeOK'
    BY <1>1, <1>3, <1>4 DEF TypeOK, bounds
  <1>6. RunningIsInFlight'
    <2> SUFFICES ASSUME NEW m \in DOMAIN pending', pending'[m].running # None
                 PROVE  /\ pending'[m].running \in DOMAIN jobs'
                        /\ jobs'[pending'[m].running].state \in {"queued", "started", "running"}
                        /\ jobs'[pending'[m].running].name = m
      BY DEF RunningIsInFlight, InFlight
    <2>1. m # n /\ m \in DOMAIN pending /\ pending'[m] = pending[m]
      BY <1>4
    <2>2. /\ pending[m].running \in DOMAIN jobs
          /\ jobs[pending[m].running].state \in {"queued", "started", "running"}
          /\ jobs[pending[m].running].name = m
      BY <2>1 DEF IInv, RunningIsInFlight, InFlight
    <2>3. pending[m].running # j
      BY <2>1, <2>2 DEF n
    <2>4. QED
      BY <1>3, <2>1, <2>2, <2>3
  <1>7. LedgerNamesRunningTasks' /\ ResolverHoldsItsOwn' /\ DispatchedIsNotBlocked'
    BY <1>1, <1>3, <1>4 DEF IInv, LedgerNamesRunningTasks, Holding, ResolverHoldsItsOwn,
       DispatchedIsNotBlocked
  <1>8. WakingCovers'
    <2>1. CASE waking = None
      BY <1>1, <2>1 DEF WakingCovers
    <2>2. CASE waking # None
      <3>1. n = None /\ n \notin DOMAIN pending
        BY <1>1, <1>2, <2>2, ArbiterAssumption DEF n, TypeOK
      <3>2. /\ DOMAIN pending' = DOMAIN pending
            /\ \A m \in DOMAIN pending : pending'[m] = pending[m]
        BY <1>4, <3>1
      <3>3. \A k \in DOMAIN jobs, m \in DOMAIN pending :
              WillWake(k, m) => /\ k \in DOMAIN jobs'
                                /\ jobs'[k].state \in {"running", "returned", "released"}
                                /\ jobs'[k].res \cap pending'[m].blockedOn # {}
        BY <1>3, <3>2 DEF WillWake
      <3>4. waking.job \in DOMAIN jobs' /\ jobs'[waking.job].state = "released"
        BY <1>1, <1>3, <2>2 DEF IInv, WakingCovers
      <3>5. QED
        BY <1>1, <2>2, <3>2, <3>3, <3>4 DEF IInv, WakingCovers, WillWake, Parked
    <2>3. QED
      BY <2>1, <2>2
  <1>9. ParkedWillBeResumed'
    <2> SUFFICES ASSUME NEW m \in DOMAIN pending',
                        pending'[m].running = None, pending'[m].blockedOn # {}
                 PROVE  \E k \in DOMAIN jobs' :
                          /\ jobs'[k].state \in {"running", "returned", "released"}
                          /\ jobs'[k].res \cap pending'[m].blockedOn # {}
      BY DEF ParkedWillBeResumed
    <2>1. CASE m = n /\ pending'[n].blockedOn = ResolverResources[n]
      <3>1. n \in SubMinds /\ jobs[j].res = ResolverResources[n] /\ jobs[j].res # {}
        BY <1>1, <1>4, <2>1, ArbiterAssumption DEF IInv, ResolverHoldsItsOwn, n, TypeOK
      <3>2. j \in DOMAIN jobs' /\ jobs'[j].state = "returned" /\ jobs'[j].res = jobs[j].res
        BY <1>3, <3>1
      <3>3. QED
        BY <2>1, <3>1, <3>2
    <2>2. CASE m # n \/ (m = n /\ pending'[n].blockedOn = pending[n].blockedOn)
      <3>1. /\ m \in DOMAIN pending /\ pending'[m].blockedOn = pending[m].blockedOn
            /\ pending[m].running = None
        BY <1>4, <2>2 DEF IInv, DispatchedIsNotBlocked
      <3>2. PICK k \in DOMAIN jobs :
              /\ jobs[k].state \in {"running", "returned", "released"}
              /\ jobs[k].res \cap pending[m].blockedOn # {}
        BY <3>1 DEF IInv, ParkedWillBeResumed
      <3>3. QED
        BY <1>3, <3>1, <3>2
    <2>3. QED
      BY <1>4, <2>1, <2>2
  <1>10. QED
    BY <1>5, <1>6, <1>7, <1>8, <1>9 DEF IInv

\* The resume hook.  A parked need it has looked at, or need not look at, waits
\* for another job than the hook's own, so the hook may drop that job at the end.
LEMMA ResumeInv ==
    ASSUME IInv, NEW j \in DOMAIN jobs, Resume(j)
    PROVE  IInv'
  <1> DEFINE todo == IF waking = None THEN Candidates(j) ELSE waking.names
  <1>1. /\ TypeOK /\ jobs[j].state = "released" /\ (waking # None => waking.job = j)
        /\ UNCHANGED <<byResource, timers, serviced, bounds, gen>>
        /\ \/ /\ todo = {} /\ jobs' = Without(jobs, j) /\ waking' = None
              /\ UNCHANGED <<pending, nextId>>
           \/ \E n \in todo : /\ Evaluate(n, pending)
                              /\ waking' = [job |-> j, names |-> todo \ {n}]
    BY DEF IInv, Resume
  <1>2. todo \subseteq DOMAIN pending
    BY DEF IInv, WakingCovers, Candidates
  <1>3. ASSUME NEW m \in DOMAIN pending, m \notin todo, Parked(m)
        PROVE  \E k : k # j /\ WillWake(k, m)
    <2>1. CASE waking = None
      <3>1. PICK k \in DOMAIN jobs :
              /\ jobs[k].state \in {"running", "returned", "released"}
              /\ jobs[k].res \cap pending[m].blockedOn # {}
        BY <1>3 DEF IInv, ParkedWillBeResumed, Parked
      <3>2. jobs[j].res \cap pending[m].blockedOn = {}
        BY <1>3, <2>1 DEF Candidates, Parked
      <3>3. QED
        BY <3>1, <3>2 DEF WillWake
    <2>2. CASE waking # None
      BY <1>1, <1>3, <2>2 DEF IInv, WakingCovers
    <2>3. QED
      BY <2>1, <2>2
  <1>4. j \in Nat
    BY <1>1 DEF TypeOK
  <1> HIDE DEF todo
  <1>5. CASE todo = {} /\ jobs' = Without(jobs, j) /\ waking' = None /\ UNCHANGED <<pending, nextId>>
    <2>1. /\ DOMAIN jobs' = DOMAIN jobs \ {j}
          /\ \A k \in DOMAIN jobs' : jobs'[k] = jobs[k]
      BY <1>5 DEF Without
    <2>2. TypeOK'
      BY <1>1, <1>5, <2>1 DEF TypeOK, bounds
    <2>3. /\ RunningIsInFlight' /\ LedgerNamesRunningTasks' /\ ResolverHoldsItsOwn'
          /\ DispatchedIsNotBlocked' /\ WakingCovers'
      BY <1>1, <1>5, <2>1 DEF IInv, RunningIsInFlight, InFlight, LedgerNamesRunningTasks,
         Holding, ResolverHoldsItsOwn, DispatchedIsNotBlocked, WakingCovers
    <2>4. ParkedWillBeResumed'
      BY <1>3, <1>5, <2>1 DEF ParkedWillBeResumed, Parked, WillWake
    <2>5. QED
      BY <2>2, <2>3, <2>4 DEF IInv
  <1>6. CASE \E n \in todo : Evaluate(n, pending) /\ waking' = [job |-> j, names |-> todo \ {n}]
    <2>1. PICK n \in todo : Evaluate(n, pending) /\ waking' = [job |-> j, names |-> todo \ {n}]
      BY <1>6
    <2>2. /\ n \in SubMinds /\ n \in DOMAIN pending /\ DOMAIN pending = DOMAIN pending \cup {n}
          /\ \A m \in DOMAIN pending : pending[m] \in Need
      BY <1>1, <1>2 DEF TypeOK
    <2>3. /\ DOMAIN pending' = DOMAIN pending
          /\ \A m \in DOMAIN pending' : pending'[m] \in Need
          /\ \A m \in DOMAIN pending : m # n => pending'[m] = pending[m]
          /\ JobsKept
          /\ nextId' \in Nat /\ DOMAIN jobs' \subseteq 0..(nextId' - 1)
          /\ \A i \in DOMAIN jobs' : jobs'[i] \in Job
          /\ RunningIsInFlight' /\ LedgerNamesRunningTasks' /\ ResolverHoldsItsOwn'
          /\ DispatchedIsNotBlocked'
          /\ pending'[n].running = None =>
               \E k \in Holding : jobs[k].res \cap pending'[n].blockedOn # {}
      BY <1>1, <2>1, <2>2, EvaluateKeeps
    <2>4. TypeOK'
      <3>1. waking' \in [job : Nat, names : SUBSET SubMinds]
        BY <1>1, <1>2, <1>4, <2>1 DEF TypeOK
      <3>2. QED
        BY <1>1, <2>3, <3>1 DEF TypeOK, bounds
    <2>5. ASSUME NEW m \in DOMAIN pending', m \notin todo \ {n},
                 pending'[m].running = None, pending'[m].blockedOn # {}
          PROVE  \E k \in DOMAIN jobs' :
                   /\ k # j
                   /\ jobs'[k].state \in {"running", "returned", "released"}
                   /\ jobs'[k].res \cap pending'[m].blockedOn # {}
      <3>1. CASE m = n
        <4>1. PICK k \in Holding : jobs[k].res \cap pending'[n].blockedOn # {}
          BY <2>3, <2>5, <3>1
        <4>2. k \in DOMAIN jobs /\ k # j /\ jobs[k].state \in {"running", "returned"}
          BY <1>1 DEF Holding
        <4>3. QED
          BY <2>3, <3>1, <4>1, <4>2 DEF JobsKept
      <3>2. CASE m # n
        <4>1. m \in DOMAIN pending /\ m \notin todo /\ pending'[m] = pending[m]
          BY <2>3, <2>5, <3>2
        <4>2. PICK k : k # j /\ WillWake(k, m)
          BY <1>3, <2>5, <4>1 DEF Parked
        <4>3. QED
          BY <2>3, <4>1, <4>2 DEF WillWake, JobsKept
      <3>3. QED
        BY <3>1, <3>2
    <2>6. WakingCovers'
      <3>1. /\ waking'.job = j /\ waking'.names = todo \ {n}
            /\ j \in DOMAIN jobs' /\ jobs'[j].state = "released"
            /\ todo \ {n} \subseteq DOMAIN pending'
        BY <1>1, <1>2, <2>1, <2>3 DEF JobsKept
      <3>2. QED
        BY <2>5, <3>1 DEF WakingCovers, Parked, WillWake
    <2>7. ParkedWillBeResumed'
      <3>1. ASSUME NEW m \in todo \ {n}, pending'[m].running = None, pending'[m].blockedOn # {}
            PROVE  \E k \in DOMAIN jobs' :
                     /\ jobs'[k].state \in {"running", "returned", "released"}
                     /\ jobs'[k].res \cap pending'[m].blockedOn # {}
        <4>1. m \in DOMAIN pending /\ pending'[m] = pending[m]
          BY <1>2, <2>3
        <4>2. PICK k \in DOMAIN jobs :
                /\ jobs[k].state \in {"running", "returned", "released"}
                /\ jobs[k].res \cap pending[m].blockedOn # {}
          BY <3>1, <4>1 DEF IInv, ParkedWillBeResumed
        <4>3. QED
          BY <2>3, <4>1, <4>2 DEF JobsKept
      <3>2. QED
        BY <2>5, <3>1 DEF ParkedWillBeResumed
    <2>8. QED
      BY <2>3, <2>4, <2>6, <2>7 DEF IInv
  <1>7. QED
    BY <1>1, <1>5, <1>6
-----------------------------------------------------------------------------
LEMMA NextInv == IInv /\ [Next]_vars => IInv'
  <1> SUFFICES ASSUME IInv, [Next]_vars PROVE IInv'
    OBVIOUS
  <1>1. ASSUME NEW n \in SubMinds, NEW p \in SignalPriorities[n], OnNeed(n, p) PROVE IInv'
    BY <1>1, OnNeedInv
  <1>2. ASSUME NEW n \in SubMinds, Clear(n) PROVE IInv'
    BY <1>2, ClearInv
  <1>3. ASSUME NEW p \in TaskPriorities, NEW rs \in SUBSET Resources, Enqueue(p, rs) PROVE IInv'
    BY <1>3, EnqueueInv
  <1>4. ASSUME NEW t \in timers, Retry(t) PROVE IInv'
    BY <1>4, RetryInv
  <1>5. CASE Stop
    BY <1>5, StopInv
  <1>6. ASSUME NEW j \in DOMAIN jobs, Start(j) PROVE IInv'
    BY <1>6, StartInv
  <1>7. ASSUME NEW j \in DOMAIN jobs, Acquire(j) PROVE IInv'
    BY <1>7, AcquireInv
  <1>8. ASSUME NEW j \in DOMAIN jobs, NEW outcome, Finish(j, outcome) PROVE IInv'
    BY <1>8, FinishInv
  <1>9. ASSUME NEW j \in DOMAIN jobs, Release(j) PROVE IInv'
    BY <1>9, ReleaseInv
  <1>10. ASSUME NEW j \in DOMAIN jobs, Resume(j) PROVE IInv'
    BY <1>10, ResumeInv
  <1>11. CASE UNCHANGED vars
    BY <1>11 DEF vars, IInv, TypeOK, RunningIsInFlight, InFlight, LedgerNamesRunningTasks,
       Holding, ResolverHoldsItsOwn, DispatchedIsNotBlocked, WakingCovers, WillWake, Parked,
       ParkedWillBeResumed
  <1>12. QED
    BY <1>1, <1>2, <1>3, <1>4, <1>5, <1>6, <1>7, <1>8, <1>9, <1>10, <1>11 DEF Next, Work

\* The inductive invariant holds in every state of the arbiter, the ledger and
\* the executor's queue.
THEOREM ArbiterInvariant == Spec => []IInv
  <1>1. QED
    BY InitInv, NextInv, PTL DEF Spec

\* Type correctness, for every set of SubMinds and resources.
THEOREM ArbiterTyped == Spec => []TypeOK
  <1>1. IInv => TypeOK
    BY DEF IInv
  <1>2. QED
    BY <1>1, ArbiterInvariant, PTL

\* running_request_id is never left on a need whose resolver is done: the need
\* could not be served again.
THEOREM ArbiterRunningIsInFlight == Spec => []RunningIsInFlight
  <1>1. IInv => RunningIsInFlight
    BY DEF IInv
  <1>2. QED
    BY <1>1, ArbiterInvariant, PTL

\* The ledger never keeps a resource for a task that has ended.
THEOREM ArbiterLedgerExact == Spec => []LedgerNamesRunningTasks
  <1>1. IInv => LedgerNamesRunningTasks
    BY DEF IInv
  <1>2. QED
    BY <1>1, ArbiterInvariant, PTL

\* Event-driven resume loses no wake-up: what a need is parked on, some job will
\* still release, and its resume hook has not looked at the need yet.
THEOREM ArbiterNoLostWakeup == Spec => []ParkedWillBeResumed
  <1>1. IInv => ParkedWillBeResumed
    BY DEF IInv
  <1>2. QED
    BY <1>1, ArbiterInvariant, PTL
-----------------------------------------------------------------------------
\* Standing pressure survives a step: a decision on a need leaves it with a
\* resolver or parked, and the others and their timers alone; an outcome leaves
\* it parked, serviced, with a timer or past the cap.
LEMMA StandingPressureStep ==
    ASSUME IInv, StandingPressure, [Next]_vars,
           \A n \in SubMinds : ResolverResources[n] # {}
    PROVE  StandingPressure'
  <1>0. TypeOK
    BY DEF IInv
  <1>1. ASSUME NEW n \in SubMinds, NEW p \in SignalPriorities[n], OnNeed(n, p)
        PROVE  StandingPressure'
    <2>1. /\ DOMAIN pending' = DOMAIN pending \cup {n}
          /\ \A m \in DOMAIN pending : m # n => pending'[m] = pending[m]
          /\ pending'[n].running = None => pending'[n].blockedOn # {}
          /\ serviced' = serviced \ {n} /\ timers' = timers
      BY <1>1, OnNeedDecides
    <2>2. QED
      BY <2>1 DEF StandingPressure, TimerOf
  <1>2. ASSUME NEW n \in SubMinds, Clear(n)
        PROVE  StandingPressure'
    <2>1. /\ pending' = Without(pending, n) /\ serviced' = serviced \ {n}
          /\ timers' \in {timers, timers \ {TimerOf(n)}}
      BY <1>2 DEF Clear, CancelTimer
    <2>2. \A m \in DOMAIN pending' : m # n /\ m \in DOMAIN pending /\ pending'[m] = pending[m]
      BY <2>1 DEF Without
    <2>3. \A m : m # n => TimerOf(m) # TimerOf(n)
      BY DEF TimerOf
    <2>4. QED
      BY <2>1, <2>2, <2>3 DEF StandingPressure, TimerOf
  <1>3. ASSUME NEW t \in timers, Retry(t)
        PROVE  StandingPressure'
    <2>1. \A m : m # t.name => TimerOf(m) # t
      BY DEF TimerOf
    <2>2. CASE t.name \in DOMAIN pending /\ pending[t.name].running = None
      <3>1. /\ DOMAIN pending' = DOMAIN pending \cup {t.name}
            /\ \A m \in DOMAIN pending : m # t.name => pending'[m] = pending[m]
            /\ pending'[t.name].running = None => pending'[t.name].blockedOn # {}
            /\ serviced' = serviced /\ timers' = timers \ {t}
        BY <1>3, <2>2, RetryDecides
      <3>2. QED
        BY <2>1, <3>1 DEF StandingPressure, TimerOf
    <2>3. CASE ~(t.name \in DOMAIN pending /\ pending[t.name].running = None)
      <3>1. UNCHANGED <<pending, serviced>> /\ timers' = timers \ {t}
        BY <1>3, <2>3 DEF Retry
      <3>2. QED
        BY <2>1, <2>3, <3>1 DEF StandingPressure, TimerOf
    <2>4. QED
      BY <2>2, <2>3
  <1>4. ASSUME NEW j \in DOMAIN jobs, NEW outcome, Finish(j, outcome)
        PROVE  StandingPressure'
    <2> DEFINE n == jobs[j].name
    <2>1. CASE n \notin DOMAIN pending
      BY <1>4, <2>1 DEF Finish, StandingPressure, TimerOf
    <2>2. CASE n \in DOMAIN pending
      <3>1. pending[n] \in Need /\ n \in SubMinds
        BY <1>0, <2>2 DEF TypeOK
      <3>2. CASE outcome = "cancelled"
        <4>1. /\ pending' = [pending EXCEPT ![n].running = None,
                                            ![n].blockedOn = ResolverResources[n]]
              /\ UNCHANGED <<timers, serviced>>
          BY <2>2, <3>2, <1>4 DEF Finish
        <4>2. /\ DOMAIN pending' = DOMAIN pending
              /\ \A m \in DOMAIN pending : m # n => pending'[m] = pending[m]
              /\ pending'[n] = [pending[n] EXCEPT !.running = None, !.blockedOn = ResolverResources[n]]
          BY <2>2, <4>1
        <4>3. pending'[n].blockedOn # {}
          BY <3>1, <4>2 DEF Need
        <4>4. QED
          BY <4>1, <4>2, <4>3 DEF StandingPressure, TimerOf
      <3>3. CASE outcome = "resolved"
        <4>1. /\ DOMAIN pending' = DOMAIN pending
              /\ \A m \in DOMAIN pending : m # n => pending'[m] = pending[m]
              /\ serviced' = serviced \cup {n} /\ UNCHANGED timers
          BY <2>2, <3>3, <1>4 DEF Finish
        <4>2. QED
          BY <4>1 DEF StandingPressure, TimerOf
      <3>4. CASE outcome = "failed"
        <4> DEFINE attempt == pending[n].attempts + 1
                   again   == attempt <= MaxAttempts
        <4>1. Backoff(n) /\ UNCHANGED serviced
          BY <2>2, <3>4, <1>4 DEF Finish
        <4>2. attempt \in Nat /\ MaxAttempts \in Nat
          BY <3>1, ArbiterAssumption DEF Need
        <4>3. /\ DOMAIN pending' = DOMAIN pending
              /\ \A m \in DOMAIN pending : m # n => pending'[m] = pending[m]
              /\ pending'[n] = [pending[n] EXCEPT !.running = None, !.attempts = attempt,
                                  !.timer = IF again THEN attempt ELSE @]
              /\ timers' = timers \cup
                   IF again THEN {[name |-> n, gen |-> pending[n].gen, attempt |-> attempt]} ELSE {}
          BY <2>2, <4>1 DEF Backoff
        <4>4. /\ pending'[n].attempts = attempt /\ pending'[n].gen = pending[n].gen
              /\ again => pending'[n].timer = attempt
          BY <3>1, <4>3 DEF Need
        <4>5. pending'[n].attempts > MaxAttempts \/
              [name |-> n, gen |-> pending'[n].gen, attempt |-> pending'[n].timer] \in timers'
          BY <4>2, <4>3, <4>4
        <4>6. QED
          BY <4>1, <4>3, <4>5 DEF StandingPressure, TimerOf
      <3>5. QED
        BY <2>2, <3>2, <3>3, <3>4, <1>4 DEF Finish
    <2>3. QED
      BY <2>1, <2>2
  <1>5. ASSUME NEW j \in DOMAIN jobs, Resume(j)
        PROVE  StandingPressure'
    <2>1. UNCHANGED <<timers, serviced>>
      BY <1>5 DEF Resume
    <2>2. CASE pending' = pending
      BY <2>1, <2>2 DEF StandingPressure, TimerOf
    <2>3. CASE \E n \in DOMAIN pending : Evaluate(n, pending)
      <3>1. PICK n \in DOMAIN pending : Evaluate(n, pending)
        BY <2>3
      <3>2. n \in SubMinds /\ byResource' = byResource /\ DOMAIN pending = DOMAIN pending \cup {n}
            /\ \A m \in DOMAIN pending : pending[m] \in Need
        BY <1>0, <1>5 DEF TypeOK, Resume
      <3>3. /\ DOMAIN pending' = DOMAIN pending
            /\ \A m \in DOMAIN pending : m # n => pending'[m] = pending[m]
            /\ pending'[n].running = None => pending'[n].blockedOn # {}
        BY <3>1, <3>2, EvaluateKeeps
      <3>4. QED
        BY <2>1, <3>3 DEF StandingPressure, TimerOf
    <2>4. QED
      BY <1>5, <2>2, <2>3 DEF Resume, IInv, WakingCovers, Candidates
  <1>6. CASE Stop
    BY <1>6 DEF Stop, StandingPressure
  <1>7. CASE UNCHANGED <<pending, timers, serviced>>
    BY <1>7 DEF StandingPressure, TimerOf
  <1>8. QED
    BY <1>1, <1>2, <1>3, <1>4, <1>5, <1>6, <1>7
       DEF Next, Work, vars, Enqueue, Start, Acquire, Release

\* Which steps ask a job to stop, and for whom.
LEMMA PreemptStep ==
    ASSUME IInv, [Next]_vars,
           NEW j \in DOMAIN jobs \cap DOMAIN jobs', ~jobs[j].cancelled, jobs'[j].cancelled,
           stopped' = stopped, tasks' = tasks, DOMAIN pending \subseteq DOMAIN pending'
    PROVE  \E n \in DOMAIN pending' :
              /\ Outranks(pending'[n].prio, jobs[j].prio)
              /\ pending'[n].running = None
              /\ j \in Holding /\ jobs[j].res \cap pending'[n].blockedOn # {}
  <1>0. TypeOK
    BY DEF IInv
  <1>1. ASSUME NEW n \in DOMAIN pending', CancelsFor(n)
        PROVE  \E m \in DOMAIN pending' :
                  /\ Outranks(pending'[m].prio, jobs[j].prio)
                  /\ pending'[m].running = None
                  /\ j \in Holding /\ jobs[j].res \cap pending'[m].blockedOn # {}
    BY <1>1 DEF CancelsFor
  <1>2. ASSUME NEW n \in SubMinds, NEW p \in SignalPriorities[n], OnNeed(n, p)
        PROVE  \E m \in DOMAIN pending' : CancelsFor(m)
    BY <1>2, OnNeedDecides
  <1>3. ASSUME NEW t \in timers, Retry(t)
        PROVE  \E m \in DOMAIN pending' : CancelsFor(m)
    <2>1. CASE t.name \in DOMAIN pending /\ pending[t.name].running = None
      BY <1>3, <2>1, RetryDecides
    <2>2. CASE ~(t.name \in DOMAIN pending /\ pending[t.name].running = None)
      BY <1>3, <2>2 DEF Retry
    <2>3. QED
      BY <2>1, <2>2
  <1>4. ASSUME NEW k \in DOMAIN jobs, Resume(k)
        PROVE  \E m \in DOMAIN pending' : CancelsFor(m)
    <2>1. CASE \E n \in DOMAIN pending : Evaluate(n, pending)
      <3>1. PICK n \in DOMAIN pending : Evaluate(n, pending)
        BY <2>1
      <3>2. n \in SubMinds /\ byResource' = byResource /\ DOMAIN pending = DOMAIN pending \cup {n}
            /\ \A m \in DOMAIN pending : pending[m] \in Need
        BY <1>0, <1>4 DEF TypeOK, Resume
      <3>3. DOMAIN pending' = DOMAIN pending /\ CancelsFor(n)
        BY <3>1, <3>2, EvaluateKeeps
      <3>4. QED
        BY <3>3
    <2>2. CASE jobs' = Without(jobs, k)
      BY <2>2 DEF Without
    <2>3. QED
      BY <1>4, <2>1, <2>2 DEF Resume, IInv, WakingCovers, Candidates
  <1>5. ASSUME NEW n \in SubMinds, Clear(n)
        PROVE  FALSE
    BY <1>5 DEF Clear, Without
  <1>6. ~Stop /\ \A p \in TaskPriorities, rs \in SUBSET Resources : ~Enqueue(p, rs)
    BY <1>0 DEF Stop, Enqueue, TypeOK
  <1>7. ASSUME NEW k \in DOMAIN jobs, NEW s, jobs' = SetState(k, s)
        PROVE  FALSE
    <2>1. jobs[j] \in Job /\ jobs'[j] = IF j = k THEN [jobs[j] EXCEPT !.state = s] ELSE jobs[j]
      BY <1>0, <1>7 DEF TypeOK, SetState
    <2>2. QED
      BY <2>1 DEF Job
  <1>8. ASSUME NEW k \in DOMAIN jobs, NEW outcome, Finish(k, outcome)
        PROVE  FALSE
    <2>1. jobs' = Without(jobs, k) \/ jobs' = SetState(k, "returned")
      BY <1>8 DEF Finish
    <2>2. jobs' # Without(jobs, k)
      BY DEF Without
    <2>3. QED
      BY <1>7, <2>1, <2>2
  <1>9. jobs' # jobs
    OBVIOUS
  <1>10. QED
    BY <1>1, <1>2, <1>3, <1>4, <1>5, <1>6, <1>7, <1>8, <1>9
       DEF Next, Work, vars, Start, Acquire, Release

\* "Never auto-give-up": when every resolver declares a resource, a need nobody
\* works on is parked on a resource, serviced, awaits its retry timer or is past
\* the cap.  (A resolver with no resources breaks it.)
THEOREM ArbiterStandingPressure ==
    ASSUME \A n \in SubMinds : ResolverResources[n] # {}
    PROVE  Spec => []StandingPressure
  <1>1. Init => StandingPressure
    BY DEF Init, StandingPressure
  <1>2. IInv /\ StandingPressure /\ [Next]_vars => StandingPressure'
    BY StandingPressureStep
  <1>3. QED
    BY <1>1, <1>2, ArbiterInvariant, PTL DEF Spec

\* ADR-0189: only a need that is parked on what a job holds, and outranks it,
\* asks the job to stop (enqueue, clear and stop aside).
THEOREM ArbiterPreemptsOnlyOnContention == Spec => PreemptOnlyOnContention
  <1>1. IInv /\ [Next]_vars =>
          [\A j \in DOMAIN jobs \cap DOMAIN jobs' :
             /\ ~jobs[j].cancelled /\ jobs'[j].cancelled
             /\ stopped' = stopped /\ tasks' = tasks
             /\ DOMAIN pending \subseteq DOMAIN pending'
             => \E n \in DOMAIN pending' :
                  /\ Outranks(pending'[n].prio, jobs[j].prio)
                  /\ pending'[n].running = None
                  /\ j \in Holding /\ jobs[j].res \cap pending'[n].blockedOn # {}]_vars
    BY PreemptStep
  <1>2. QED
    BY <1>1, ArbiterInvariant, PTL DEF Spec, PreemptOnlyOnContention

\* The accounts of the arbiter and the ledger are true of the threads, for any
\* number of SubMinds, workers, signals, tasks and retries.
THEOREM ArbiterAccounts == Spec => []Accounts
  <1>1. IInv => Accounts
    BY DEF IInv, Accounts
  <1>2. QED
    BY <1>1, ArbiterInvariant, PTL
=============================================================================

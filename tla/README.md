# MindsOS verification project

TLA+ models of MindsOS, the TLC runs that check them, and TLAPS proofs about
them. Every definition is translated from the Python source; `PROJECT.json`
names, for each definition, the lines it stands for ("map"), for each run what
it checks ("runs"), and for each property a plausible bug of the code that breaks it
("mutants"). Where the code disagrees with its documentation is in section 6.

MindsOS is a layered system over a graph database (FalkorDB): L1 the metagraph
model and its persistence, L2 knowledge, L3 capacities, L4 the intelligence
layer that runs requests and background "SubMinds" on threads, and around them
an L0 server (users, sessions, releases, skills), admin tools, an LLM seam and a
command line. The project models where things can interleave, fail half way or
go wrong after a long sequence of calls: the threads of L4, the metagraph in
memory, its way into the database and back, the server's commands, which are processes
on one SQLite file and one graph database, and the run of a request, whose steps fail
one by one and are run again.

## 1. Running it

    tlc -workers 2 -config RWLock.cfg MCRWLock
    tlc -workers 2 -config Episodes.cfg Episodes
    tlapm IntelligenceProofs.tla
    tlapm SubMindArbiterProofs.tla      (and the other ...Proofs modules)

`PROJECT.json` "runs" pairs each cfg with its module. A property in a module is
preceded by a comment that states it; operators named `Mut...` are mutated forms
of a definition and are used by no specification.

## 2. Inventory

### 2.1 Modelled

**Reader-writer lock of the Mental Model** (`mindsos_intelligence/rwlock.py`).
*State*: the number of readers, whether a writer is inside, the number of waiting
writers, one condition variable. *Operations*: acquire and release for reading
and for writing. *Interactions*: every thread of L4 reads or writes the shared
Mental Model under it. *Hard*: one condition variable for two kinds of waiters, a
notify only when the last reader leaves, none when a waiting writer gives up.
*Correct if* a writer is alone, a waiting writer holds new readers back, nobody
sleeps for ever, the counters stay exact.

**SubMind arbitration** (`submind_arbiter.py`, `resources.py`,
`cancellation.py`, and what `executor.py` does around a resolver). *State*: the
parked or running needs by SubMind name, the retry timers, the ledger of exclusive
resources, the executor's jobs. *Operations*: `on_need` (triage thread), `clear`
(scheduler thread), `_retry` (timer threads), `_on_resolver_done` and
`_on_release` (worker threads), `stop`. *Hard*: the ledger is read at submission
and written at the start of the run; the done callback runs before the release;
needs are found by name by callbacks and timers of a predecessor. *Correct if* no
wake-up is lost, no need is left with nothing that brings it back, the ledger
names only running tasks, only contention preempts.

**Priority-tier executor** (`executor.py`). *State*: a heap with lazily
deleted entries, the pending and running tables, the futures, the worker threads,
the shutdown flag. *Operations*: `submit`, `write_priority`, `Future.cancel`,
`shutdown`, the worker loop. *Hard*: one `notify` for each submission, entries
struck out while a worker pops, a future started outside the lock, shutdown while
entries are re-queued. *Correct if* each submission runs at most once and
settles, no worker sleeps beside a queued task, shutdown drains and ends, a
running task that is outranked is asked to stop.

**SubMind sensing and triage** (`submind.py`, `submind_registry.py`,
`submind_scheduler.py`, `signal_triage.py`). *State*: each SubMind's armed or
fired state and last emitted tier, the scheduler's heap, the triage queue, the
sink. *Operations*: tick, emission and recovery, `endow`, `start`, `stop`,
`set_activation`, the two threads. *Hard*: a signal goes through a queue, the
recovery that undoes it does not; `start` and `endow` take different paths to the
heap; `stop` unwires a sink the other thread has tested. *Correct if* the
arbiter's need is the one last emitted, escalations arrive in order, no endowed
SubMind is forgotten, stop returns.

**Lifecycle of the layer** (`intelligence_layer.py`). *State*: the started and
stopped flags, the table of cancel tokens, the dream timer, the executor's
shutdown. *Operations*: `start`, `enqueue`, `stop`, the timer. *Hard*: `enqueue`
takes no lock; `stop` iterates a table `enqueue` inserts into and waits for
bodies that end only when asked. *Correct if* an abort reaches every task in
flight, nothing runs after stop, stop returns.

**Metagraph, identity registry, instances, snapshots** (`mindsos_core/models/`,
`mindsos_core/metagraph_snapshot.py`, `mindsos_instances/`, the fork of
`mindsos_intelligence/mm.py`). *State*: graphs, nodes, edges inside a graph and
between graphs, XRefs with two inverse indexes, the identity registry, an attached
schema, instances and composites, the observers on each graph. *Operations*: add and
remove of each kind with its cascades, `attach_schema`, `regenerate_ids`, capture and
restore, `deep_copy`. *Hard*: observers are closures that a rollback loses and a
fork shares; removals cascade through several tables. *Correct if* no reference
dangles, the indexes agree with the elements, a schema once checked goes on to hold,
what pointed into a removed graph is marked stale.

**Persistence of a metagraph** (`metagraph_repository.py`, `xref_repository.py`,
`wal.py`, `soft_delete.py`, `graph_repository.py`, `reconstruction/`). *State*: the
object with its dirty sets and its transient client, the rows, the log. *Operations*:
`persist`, `load`, `refresh`, add and remove of an XRef under its log entry, marks and
their drain. *Hard*: no transaction spans two statements, a statement can fail after
its effect, a load replays what a crash left. *Correct if* what the object holds is
saved or known to be unsaved, rows refer to rows, and replay does what the log says.

**Sessions, users, administration** (`mindsos_server/sessions.py`, `users.py`,
`admin.py`). *State*: the users and sessions tables, the audit rows, the clock.
*Operations*: login, lookup of a token, logout, the two ways of killing sessions,
insertion of a user, `reset_admin`, the admin verbs. *Hard*: SQLite's deferred
transactions leave a SELECT and the write that relies on it apart. *Correct if* a
session was earned and ends when it lapses, its end is audited, and an enabled
administrator always remains.

**Release and promotion** (`release.py`, `mindsos_admin/promotion.py`,
`audit_gate.py`). *State*: the ledgers of mutations and releases in SQLite, the
canonical graph in FalkorDB, what each command has loaded. *Operations*: propose,
load, gate, ship with its copies, failure and its record. *Hard*: two stores, one of
which rolls back; commands that loaded before others wrote. *Correct if* what the
ledger calls shipped is stored, and nothing ships uncompared.

**Episodes and crash recovery** (`orchestrator.py`, `consolidation.py`,
`crash_recovery.py`, `consolidate.py`, `local_persister.py`). *State*: the Episodes
and the Memory in memory and in the database, the phase of each request. *Operations*:
the lifecycle of a request, its flushes, crash, boot, scan. *Hard*: a flush writes the
whole Local, its failure is swallowed, several workers share the Local. *Correct if*
what a request was told is what is stored, and a boot closes exactly what a crash left
open.

**Request execution** (`execution.py`, `pipeline_execution.py`, `replan_check.py`,
`run_lifecycle` of `orchestrator.py`). *State*: the blackboard with its carriers (the
members' mask, graph ids and origins), the runs in the record of the request, the
graphs collected, the number of replans. *Operations*: leaf, map with its members and
their sub_plans, fold, the judgement after an attempt, replan of the whole or of one
member. *Hard*: any step fails, asks or raises; what completed is kept in lists of
different lengths that a member run again must be spliced into; a targeted replan keeps
the blackboard and cuts the record by position. *Correct if* what one step hands to the
next agrees with what was run, a fold concludes from all there is, nothing downstream is
stale, the outcome is read from a true record, the request ends.

**Skills** (`mindsos_server/skills/`, `mindsos_cli/commands/skill.py`). *State*: the
records of installs, the content of bundles, what a process has activated.
*Operations*: install, uninstall, activate, the load before and the persist after.
*Hard*: every command works on its own copy and writes all of it back, graph by graph;
sequence numbers stand for the order of dependencies. *Correct if* what is installed
has its content and stands on what it requires, and no record is lost.

### 2.2 Not modelled

The table of `PROJECT.json` "components" has them one by one. They fall in four kinds.

| Kind | Components | Why |
|---|---|---|
| No state of their own | schema and migration tables, Cypher builders, context gating and dispatch, pipelines and route finders, boot (wiring), command line, importers and similarity scores | a pure function of text or tables: no order of steps to check. Where another component relies on one, the model has its result (what a schema refuses, what the gate compares). |
| One thread, private data | interpretation and plan construction, capacity layer, dream cycle, monitors and ALS registry, LLM reading and its recordings | nobody else sees the data while it changes. What such a body does is a chosen outcome in the modules that run it. |
| Stateless | credential broker | its properties concern secrecy. |
| Left for the plan (section 8) | Locals of other users (`mindsos_server/orchestrator.py`) with `KnowledgeLayer.install_local`; the order in which composite capacities come back (`reactivation.py`) | small: the bump of a count that is already there is taken by tests alone (`mindsos_server/orchestrator.py:31`), so that what is left is one install, one flush and one uninstall under a mutex. |

**Parts left out of a modelled component.** Of `MetagraphModel`: properties of elements
other than `ref:` ones, materialisation and overrides of instances. Of
`MetagraphPersistence`: versioned updates of single elements (`expected_version`,
`graph_repository.py:151`, which nothing outside the repository passes), tombstones, the instance repository. Of `Sessions`: the audit query, the first
administrator's bootstrap, migrations of the tables. Of `Release`: the numbers behind
similarity, rehydration of the canonical graph (which nothing calls). Of `Skills`:
records in a user's own Local. Of `RequestExecution`: interpretation and the making of the
plan, simplified mode, cancellation (`run_lifecycle` passes no token down), a pipeline
without steps, a blackboard from before the masks existed. Of `IntelligenceLayer`: what
`start` wires.

**Coverage.** The map names about 10% of the 89,593 lines of the implementation. The
command line is 16,000 of the rest; the capacities, the knowledge schemas, the LLM seam
and the importers, some 25,000 together, are text, tables and functions of one thread;
and documentation strings make up half of many of the modules modelled, which the map
leaves out where a definition does not translate them. Most of what has steps that can
come in more than one order is in the map.

## 3. The modules

How a thread or a process is cut into steps is the same everywhere. Under a lock, or
inside a transaction that excludes others, a method is one step; it is split where it
gives the lock up (a wait, a callback, a call into another component), where it issues a
statement to a database without a transaction, and wherever it never took a lock. A
module keeps the names of the source's fields; histories and bounds are marked as such
where they are declared.

| Module | Stands for | How state and actions correspond |
|---|---|---|
| `RWLock` | `rwlock.py` | `pc[t]` is where a thread is; `sleepR`/`sleepW` are the condition's wait set, `wokenR`/`wokenW` the notified threads that have to test their loop condition again. `WriteInterrupted` and `ReadInterrupted` are an exception out of `wait()`, for the threads in `MayInterrupt`. |
| `SharedExclusiveLock` | what the lock promises | implemented by `RWLock` with `holds` read off `pc` |
| `SubMindArbiter` | `submind_arbiter.py`, `resources.py`, the worker's use of the ledger | a job is queued, started (taken by a worker), running (resources acquired), returned (done callback run), released (ledger entry gone, resume hook to run). `Evaluate` is `_evaluate_locked`; `OnNeed`, `Clear`, `Retry`, `Finish` (with `Backoff`), `Resume` are its callers. `waking` is the resume hook, one need at a time. `gen` tells a need from the one that had its name before; the code has no such thing. |
| `PriorityTierExecutor` | `executor.py` | the heap is the set of its entries, ordered by `Before`; `Take` discards what `_pop_live_locked` pops on its way; `Begin`, `Settle` and `Leave` are the worker outside the lock. |
| `FuturePool` | what a caller's futures promise | implemented by the executor |
| `SubMindSensing` | `submind.py`, `submind_registry.py`, `submind_scheduler.py`, `signal_triage.py` | a reading is a number of severity steps past the threshold. `Tick` takes a SubMind off the heap; `Put` and `Clear` are the two ways its result reaches the arbiter. The triage thread is `TriageTop`, `TriageGet`, `TriageCheck`, `TriageCall`; the test of the sink and its call are two steps, as in the code. |
| `IntelligenceLayer` | `intelligence_layer.py` | `Admit`, `InsertToken`, `Submit` are `enqueue`; `StopBegins`, `StopWalks`, `StopTearsDown` are `stop`; a dict that changes size under an iteration raises. |
| `MetagraphModel` | `models/`, `metagraph_snapshot.py`, `registry.py` of instances, `mm.py` | a metagraph is a record and an operation a function from records to records; a call that raises is no step. `watch` holds the observers of each graph with the registry and the graph id they close over, `place`, `edges`, `metas`, `inters`, `xrefs`, `insts` the tables, `ids` the identity registry. A fork is a second record, the ids of whose graphs carry its side. |
| `MetagraphPersistence` | `metagraph_repository.py`, `xref_repository.py`, `wal.py`, `soft_delete.py`, the loaders | `mem` is the object, `db` the rows and the uncommitted entries of the log, `pc` the statement that comes next. `Statement` gives each its three outcomes: done, refused, done with the answer lost; `Crash` may come between any two. |
| `Sessions` | `sessions.py`, `users.py`, `admin.py` | `pc[p]` holds what a command has read and not yet acted on; the admin verbs are one step because they begin with BEGIN IMMEDIATE. A session keeps the password it was opened with and whether its login was overtaken (`raced`). |
| `Release` | `promotion.py`, `audit_gate.py`, `release.py`, `bootstrap.py` | `Load`, `ReadSuppression`, `Begin`, `Copy` per node, `Commit`, `RecordFailure` are one ship command; `lock` is SQLite's write lock, which `falkor` knows nothing of. |
| `Episodes` | `orchestrator.py` (run_lifecycle, flush), `consolidation.py`, `consolidate.py`, `crash_recovery.py`, `local_boot.py` | `episodes` and `members` are in memory, `stored`, `storedMembers` and `chains` in the database. A flush is `ReadRows`, `WriteNodes`, `WriteEdges`, `FlushEnds`; `Recover` is the scan, `FinishBoot` its flush. |
| `RequestExecution` | `execution.py`, `pipeline_execution.py`, `replan_check.py`, `orchestrator.py` | `frames` is the stack of milestone sequences being run, each with its `board` (the blackboard) and `carriers`; `fan` is the map being fanned out, up to member `at`. A value is where it comes from: the runs that made it (`by`) and each of its members (`items`), beside what the blackboard says of that (`said`). A dispatch is one step with its outcome; a `ValueError` or another exception is `Uncaught`. `record` is `request_run.pipeline_runs`; `last`, `since` and `lost` are histories. The definitions a module in common with `Episodes` would define twice carry the request's name (`RequestInit`, `RequestSpec`). |
| `Skills` | `driver.py`, `records.py`, `preflight.py`, `activation.py`, `skill.py` | `memory[p]` is the copy a command loaded; `ReadGraph` and `WriteGraph` are one role-graph each, in the order of the graphs' ids, which is random. `clock`, `ever` and `since` are histories: what has reached the roster, and what its authors had seen of that. |
| `IntelligenceProofs`, `SubMindArbiterProofs`, `PriorityTierExecutorProofs`, `MetagraphModelProofs`, `MetagraphPersistenceProofs`, `ServerProofs`, `ReleaseProofs`, `LifecycleProofs` | | the theorems (section 5) |
| `MC...` | | values of the constants for TLC |

**How they fit together.** `SubMindSensing` ends where a need is created or
cleared, `SubMindArbiter` begins there (`OnNeed`, `Clear`) and ends where a
resolver is submitted; it carries the part of the executor it interacts with
(queue order, worker count, preemption by an enqueued task), and
`PriorityTierExecutor` has the rest. `IntelligenceLayer` puts a shutdown of the
executor, seen as the states of its tasks, below `stop`. `Episodes` is what a worker of
that executor runs, with the outcome of a request as a choice; `RequestExecution` is how
that outcome comes about. `MetagraphPersistence` is about one metagraph of the kind
`MetagraphModel` describes, reduced to what a persist tells apart; `Release` and
`Skills` use its persist and load as the sequences of statements it shows them to be,
and `Sessions` guards the commands that run them.

**Abstractions that matter.**
- What a resolver, a task or a request does is a chosen outcome. In `SubMindArbiter` a
  resolver outlasts the few instructions between `submit` and `add_done_callback`.
- In `PriorityTierExecutor` the exception of a body settles the future as a result
  does, and with `UniqueIds = TRUE` no id is submitted while it is pending or
  running: `submit` assumes it and does not enforce it (section 7).
- Time: a timer fires some time or never; any SubMind on the heap may be due. Only
  `Sessions` has a clock, because its rows carry times.
- Tier and score are `[tier, score]` with tier 0 the most urgent, as in the code.
- One process holds a metagraph in `MetagraphPersistence`; several commands over one
  metagraph are in `Skills` and `Release`.
- The similarity of two nodes is equality of role and content in `Release`; a manifest
  stands for name, version and digest in `Skills`.

## 4. The runs

Calls are bounded in number, so most systems come to an end and `CHECK_DEADLOCK FALSE`
is set. The lock, which runs for ever, and the request, which stops nowhere but at its
end (`Over`), are checked for deadlock.

| Run | Instance | States | Question |
|---|---|---|---|
| `rwlock` | 4 threads, one may be interrupted | 1.9 k | does the lock exclude, prefer writers, lose no wake-up, and implement the abstract lock? |
| `arbiter` | 2 SubMinds (one more urgent) on 1 resource, 2 workers, 2 signals, 1 task of a tier in between, 1 retry | 1.04 M | is a need ever wedged, forgotten, or parked on something nobody will release? |
| `executor` | 2 workers, 2 ids, 2 submissions over 3 priorities in 2 tiers, 1 priority write, cancels, shutdown | 369 k | is a task lost, run twice, slept over, or left behind by shutdown? |
| `sensing` | 2 SubMinds with 3 and 2 severity bands, readings -2..3, 2 signals, 1 change of activation, endow, start and stop | 578 k | is the arbiter's need the one last emitted; does everything reach it; does stop return? |
| `layer` | 3 enqueue calls over 2 ids, 2 stop calls, 2 workers, 1 turn of the timer | 744 k | what does an abort miss; does anything run on; does stop return? |
| `metagraph` | 2 graphs, 2 nodes, 1 id of each other kind, 4 operations and any captures | 2.26 M | is a metagraph well-formed after any calls, rollback and fork included? |
| `persistence` | 2 graphs, 1 metaedge, 2 XRefs, 10 calls, 3 faults | 776 k | what do the database and the object know of each other after failures and crashes? |
| `sessions` | 2 users, 2 commands at a time, 5 calls, 3 sessions, a clock of 4 ticks with windows of 2 and 3 | 4.89 M | are sessions earned, ended in time, audited; does an administrator remain? |
| `release` | 2 roles, 2 contents, 3 mutations, 4 ships of which 2 overlap, 2 faults | 764 k | do ledger and graph agree; is anything shipped uncompared? |
| `episodes` | 2 requests, 2 workers, 2 crashes, 2 faults | 1.16 M | is what a request was told what the store keeps; does a boot close what a crash left open, and only that? |
| `request` | 6 plans (leaf, map, fold, leaf; a map and its fold in a map; a map over a map; a sub_plan that ends with a map; a sub_plan over what a map has made; a sub_plan that outlives a map that stopped), collections of at most 2, 2 tries per member, 1 replan | 781 k | does what a step hands on agree with what ran; do folds and outcomes tell the truth; does it end? |
| `skills` | 2 versions of a bundle over 1 node, 1 that requires it, 1 without content, 3 processes, 4 commands, any crash | 615 k | does what is installed have its content and its requirements; is a record ever lost? |

*Why these bounds are enough.* A lost wake-up of the lock needs a reader, a
waiting writer and a third thread; a fourth lets two of a kind wait. The hazards
of the arbiter need two needs on one resource (so one can be parked), a third
party to preempt the holder, and one retry beside the cap; two signals give a need
and its escalation or a need cleared and raised again. The executor's need one
worker that sleeps while another pops, and an entry struck out beside a live one.
The sensing ones need a signal in the queue while another is being ticked. In the
layer, three calls are one before, one during and one after the walk, two of them
under one id. A dangling reference in a metagraph needs two graphs, one element and its
removal, and four operations allow a setup of three or a rollback in between.
Persistence needs an add, a persist, a removal and a load for one XRef, and three
faults to fail twice and crash. For sessions, two commands are one that has read and
one that acts; three sessions let both be overtaken; the windows differ by one tick so
that each can lapse first. A release that fails, is repeated and overlaps another takes
three ships and two faults. An Episode needs a second request to change the Local under
its flush, and a second crash to interrupt a recovery. A skill needs an install, an
uninstall and a second install of what another one requires, which four commands give,
two of them overlapping; with two processes and five commands (1.8 M states) the same
properties hold. A request needs two members (one that stopped before one that did not)
and one replan: the code allows five, and each begins with what the one before left.
`MEMBER_RETRY_CAP` is the code's own 2.

### What the properties say

Several are conjunctions of named parts, each with a comment and a mutant of its own.

- **`RWLock`**: `Exclusion` (the counters are exact, a writer is alone);
  `SleeperHasWaker` (as long as somebody sleeps, somebody is inside or on the way in
  who will notify); `ImplementsSharedExclusiveLock`; `WritersNotStarvedByReaders`. The
  second and the last end with the first exception out of a writer's wait, because
  `acquire_write` then lowers the count of waiting writers and notifies nobody.
- **`SubMindArbiter`**: `Accounts` (`RunningIsInFlight`: a need that counts a resolver
  as in flight has one, or it would be passed over for ever; `LedgerNamesRunningTasks`),
  `ParkedWillBeResumed` (a parked need has a job that still has to release what it waits
  for; true although the done callback runs before the release and the ledger may be
  overwritten), `StandingPressure` (a need nobody works on is parked, serviced, awaits
  a timer or is past the cap), `PreemptOnlyOnContention`, `ParkedIsResumed`.
- **`PriorityTierExecutor`**: `QueueIsSound` (`WorkConserving`: if workers sleep, as
  many are on their way to look as there are tasks to take; `PendingIsQueued`,
  `DrainedBeforeExit`, `RunsOnce`), `OutrankedIsAsked` (cooperative preemption misses
  no running task, unless its own priority was rewritten), `ImplementsPool`,
  `EverythingEnds` (futures settle, shutdown ends).
- **`SubMindSensing`**: `NeedsAndSchedule` (`NeedIsCurrent`: once nothing is on its way,
  a fired SubMind's need has the tier last emitted; `EscalationWorsens`;
  `EndowedIsScheduled`), `NothingHangs`.
- **`IntelligenceLayer`**: `AbortMissesOnlyRacers` (an abort misses only the
  calls that were past `enqueue`'s guard without a token when `stop` began, and
  tokens another call replaced), `StopIsSound` (one call acts, nothing runs on),
  `StopReturns`.
- **`MetagraphModel`**: `Integrity` (`IdentityExact`: the registry holds the ids of
  what is there; `EndsAreThere`, `IndexesExact`, `InstancesGrounded`, the last and a part of
  the first only until the first rollback, which forgets the registry of instances;
  `SchemaHolds`), `RemovalMarksStale`.
- **`MetagraphPersistence`**: `HeldIsSafe` (an XRef the object holds is saved or dirty,
  unless its `add_xref` raised), `LogBracketsRows` (an entry is there before its
  statement and committed only after it; `LastEntryWins`: replay), `UnsavedIsRemembered`
  (a persist that returns has saved what the object holds; a mark not yet written is in a
  bucket, but for a refresh).
- **`Sessions`**: `SessionsAreSound` (`SessionsAreEarned`, `OneSessionPerRacer`),
  `AdminRemains`, `LapsedIsOver` (a lapsed session is never refreshed, but by a lookup
  that read the clock in time), `EndsAreAudited`.
- **`Release`**: `LedgersAreTrue` (`ShippedIsStored`, `LedgersAgree`, `NoTwinsTogether`:
  what one release ships is dissimilar to the rest of it and to what was imported),
  `DriftIsStaleness` (the error that tells the user to run again is right).
- **`Episodes`**: `StoreIsSound` (a request at work has an Episode for a boot to find; a
  decision's chain is stored; `RecordsTell`: what a request was told is stored, unless
  one of its own writes failed), `RecoveryIsExact`, `DecidedIsFinal`, `CrashedCloses`.
- **`RequestExecution`**: `CarriersAreSound` (`CarriersAgree`: values, mask, graph ids and
  origins of a map are in step, also after a splice, and position i is the member's own
  graph; `OriginsAreTrue`: what the blackboard says of where a value came from is true,
  and of what a member was given, true of its collection),
  `ConclusionsAreWhole` (a fold has concluded from all its map's members), `ChainIsCurrent`
  (of two completed milestones the reader has read what the other made last, and a new
  blackboard has nothing old), `RecordIsSound` (`RecordTells`: the list of runs is the
  last run of each milestone; `OutcomeIsEarned`: conceded means that something stopped, be it
  in a sub_plan, and nothing failed), `RequestEnds`.
- **`Skills`**: `RosterIsSound` (`DependenciesAreMet`, `ActivatedInOrder`,
  `ContentIsThere`: content before record, but for a command that died between them),
  `HistoryGrows` (records are neither lost nor changed, unless two commands that
  overlapped minted one id). What is installed may miss what it requires if the two
  were installed or uninstalled by commands that overlapped (`Raced`), or if a record of
  either was lost to another with its id (`Twin`): the second takes more commands than
  the run has, and was found by the attempt to prove the first alone (section 7).

Where a property has an exemption, the exemption names the steps that race, and the
behaviour behind it is listed in section 7.

### Fairness, and why the code justifies it

All of it is weak fairness of threads the operating system schedules, and of a service
manager that starts a dead brain again. No fairness is put on callers, signals, timers,
commands, failures or exceptions.

- `RWLock`: holders release (the context managers do so in a `finally`, and
  what they run never waits for the lock again); a woken thread tests again.
- `SubMindArbiter`: the workers go on with their jobs, and resolvers end.
- `PriorityTierExecutor`: a worker that can take the lock does; bodies end.
- `SubMindSensing`: the scheduler thread finishes a tick it has begun and sees the
  stop flag; the triage thread goes on; whoever called stop goes on. A tick itself
  is not promised.
- `IntelligenceLayer`: a body ends once its token is set and need not end before
  (cancellation is cooperative); a queued task begins when a worker is free; a
  dream driver ends.
- `Episodes`: a brain that is down is booted, and a boot goes on; a request is not
  promised to end.
- `RequestExecution`: one thread, which goes on: every capacity that is dispatched returns
  or raises.

The other modules are about safety: a command may stop at any statement for ever.

## 5. What is proved

TLAPS checks each theorem for every value of the constants that satisfies the
assumptions of its module. TLC checked each inductive invariant on the instance of the
component's run before it was proved.

| Module | Theorems | Properties of a run they state |
|---|---|---|
| `IntelligenceProofs` (`RWLock`) | `RWLockInvariant`, `RWLockExclusion`, `RWLockWriterPreference`, `RWLockNoLostWakeup`, `RWLockImplements` | all but liveness |
| `IntelligenceProofs` (`IntelligenceLayer`) | `LayerInvariant`, `LayerAbortMissesOnlyRacers`, `LayerStopIsSound` | all but liveness |
| `IntelligenceProofs` (`SubMindSensing`) | `SensingInvariant`, `SensingNeedsAndSchedule` | all but liveness |
| `SubMindArbiterProofs` | `ArbiterInvariant`, `ArbiterAccounts`, `ArbiterNoLostWakeup`, `ArbiterStandingPressure`, `ArbiterPreemptsOnlyOnContention` | all but liveness |
| `PriorityTierExecutorProofs` | `ExecutorInvariant`, `ExecutorOutrankedIsAsked`, `ExecutorQueueIsSound`, `ExecutorImplements` | all but liveness |
| `ServerProofs` (`Sessions`) | `SessionsTypes`, `SessionsSound`, `SessionsAdminRemains`, `SessionsLapsedIsOver`, `SessionsEndsAreAudited` | all |
| `ServerProofs` (`Skills`) | `SkillsInvariant`, `SkillsRosterIsSound`, `SkillsHistoryGrows` | all |
| `ReleaseProofs` | `ReleaseInvariant`, `ReleaseLedgersAreTrue`, `ReleaseDriftIsStaleness` | all |
| `LifecycleProofs` (`Episodes`) | `EpisodesInvariant`, `EpisodesStoreIsSound`, `EpisodesRecoveryIsExact`, `EpisodesDecidedIsFinal` | all but liveness |
| `LifecycleProofs` (`RequestExecution`) | `RequestInvariant`, `CarriersAlwaysSound`, `ConclusionsAlwaysWhole`, `ChainAlwaysCurrent`, `RecordAlwaysSound` | all but liveness |
| `MetagraphModelProofs` | `MetagraphInvariant`, `MetagraphIntegrity`, `MetagraphRemovalMarksStale` | all |
| `MetagraphPersistenceProofs` | `PersistenceInvariant`, `PersistenceHeldIsSafe`, `PersistenceLogBracketsRows`, `PersistenceUnsavedIsRemembered` | all |

**Assumptions.** Sets of threads, workers and processes are finite, bounds are natural
numbers, and the values that stand for "nobody" are none of the real ones
(`LayerAssumption`: `NoCall` is neither an id nor a call; `SensingAssumption`: `None` is
no SubMind, and bands are sorted by their floors, as `SubMind.__init__` requires;
`EpisodesNames`: the Memory is
no request and the owner of no rows is no worker). `KindsAssumption` of
`MetagraphPersistence`: no id is both a metaedge's and an XRef's (both are fresh uuids);
the bucket of a mark says its kind, and a mark of both kinds would be written to one
row only. `KindsAssumption` of `MetagraphModel` says the same of all kinds of elements:
`IdentityRegistry.register` refuses an id in use, so that one id is one element.
`ProcAssumption` of `Sessions` says
that finitely many commands are under way, which is what `OneSessionPerRacer` counts
a user's sessions against. `SkillsConstants` says that the names and versions of
manifests can be ordered, that no node of content is in the graph of the records, that
there are finitely many graphs, and that no bundle requires itself. `PlansAssumption` of
`RequestExecution` says what a plan is. A map and a fold write one data state, a milestone
that runs writes at least one, and the last of a sub_plan is one that runs. `Layered` is the order
of a planner: nothing is written by a milestone at or after one that needs it, and what is
given, or written once, is not written again. The first half is the contract of
`_build_from_milestones` (`plan_construction.py:327-330`: "preserves planner order (the
executor's value bus depends on it ...)"); neither half is enforced by the code, which
takes the planner's list as it is. Where a planner breaks it, the theorems about
`RequestExecution` say nothing. Sub_plans may be nested to any depth. Two theorems have a hypothesis of their own:
`ExecutorQueueIsSound` has `UniqueIds` (callers do not submit an id that is pending or
running; `submit` assumes it and does not enforce it, section 7), and
`ArbiterStandingPressure` that every resolver declares a resource.

**`IntelligenceProofs`, the lock.** The inductive invariant is `TypeOK /\ CountersExact /\
WriterAlone`: none is inductive alone, since exclusion rests on the counters being
what the loop conditions read, and the counters' meaning on cardinalities of sets of
threads that gain or lose one. Three lemmas say how `At(S)` and its cardinality
change in a step. From it follow `RWLockExclusion` (the run's `Exclusion`),
`RWLockWriterPreference` (an action property), `RWLockNoLostWakeup` (an invariant on
top of the first) and `RWLockImplements`, by showing that every step of the lock is
a step or a stutter of `SharedExclusiveLock` under `Holds`.

**`SubMindArbiterProofs`.** `IInv` adds to the types, `RunningIsInFlight`,
`LedgerNamesRunningTasks` and `ParkedWillBeResumed` three facts the code keeps
without saying so: a resolver's job holds the resources its SubMind's definition
declares; a need whose resolver was dispatched is parked on nothing; and, in the
middle of a resume hook, every need the hook has already looked at has another job
than the hook's own to wake it (`WakingCovers`). Without the last one, the release
that ends the hook would take away the only witness of `ParkedWillBeResumed`. One
lemma per action shows it is kept. `ArbiterAccounts` and `ArbiterNoLostWakeup` are
parts of it. `ArbiterStandingPressure` is proved under its hypothesis; without it the
property is false (section 7, `submind_arbiter.py:278`).
`ArbiterPreemptsOnlyOnContention` is the action property.

**`PriorityTierExecutorProofs`.** That a future is run once does not follow from what
the tables say of requests: `Futs` says that a future has one place, not submitted,
pending, in the hands of one worker, or settled, and that no two places share one.
`Queued` (a pending entry is in the heap under its own id) is what the lazy deletion
keeps. `Works` compares the workers that are awake with the tasks to take; the
proofs of the steps count the set of current entries before and after. `Bounded` is
there for a write that puts a task above all others of its tier: the greatest score
of the tables, plus one, exists only because they have an upper bound. `ExecutorImplements` maps each step to a
step or a stutter of `FuturePool`.

**`IntelligenceProofs`, the layer.** `Walk` says, of every position of the token table that
the abort's walk has passed, that the token is set or belongs to a racer, and after the
walk the same of the whole table, into which calls still put tokens. `Teardown` says
that one stop acts, and in which order its steps come. `AbortMissesOnlyRacers` is what
`Walk` says once the layer has shut down.

**`IntelligenceProofs`, sensing.** `NeedIsCurrent` speaks of the moments when nothing of a
SubMind is on its way. To get there the invariant has to follow the signal: `Current` says
that the newest signal of a fired SubMind has the tier it last emitted, in the scheduler's
hand, at the end of the queue, or in the hand of the triage thread, and that what is older
comes before it. `Worsens` says of a signal not yet queued that it is more urgent than the
newest one before it; `Added` that no tick takes from the heap what `start` has put there
before `start` has ended; `Started` that nothing is sensed before that. A tick emits the
tier of the last band the severity reaches: that there is a last one (`HasMax`) is taken from the
well-foundedness of the naturals, without induction.

**`ServerProofs`, sessions.** A command acts on what it has read and others have since changed.
`Command` says of each step of a command how what it holds bounds the present: a row it
found was opened when it says and used no earlier, a session to be refreshed had not
lapsed at the time the command read the clock. `Evolves` is what any step does to the
sessions as the others see it (ids are not used again, times only grow); one lemma shows
that every action is such a step, another that such a step keeps the other commands'
facts, so that each action needs only be shown to keep its own. `AdminRemains` is a
count that the transaction makes before it acts, and a cardinality lemma.

**`ServerProofs`, skills.** That what is installed stands on what it requires cannot be
kept step by step: the write of one command can break it for a record of another, in
ways that depend on what both had read. The invariant says nothing of the present roster but that it is a
`Snapshot`, with one record of each id there ever was; and of each record that its author
can have read a `Snapshot`, earlier than the record, by which the preflight and the look
for dependants `Allowed` it (`Written`). The dependencies follow from this alone, for
every Snapshot (`MetStep`): take an installed record and the latest record of a bundle
it requires; if neither author saw the other's they raced; if the first saw the second, its
preflight had it installed; if the second saw the first, its look for dependants
had the first installed without what it requires, which an earlier Snapshot cannot
have. The last step is an induction on the time of the Snapshot, done as
a least counterexample in the naturals. The order of activation follows from the same fact, with
lemmas on the sequence that sorts a finite set (`HasSequence`). For the content, `Carried`
says what a persist under way still has to write. `HistoryGrows` holds because the
sequence number of a record is above those its author had read.

**`ReleaseProofs`.** The ledgers alone are not inductive. A retry passes over a row that
an earlier, failed release has copied, without looking for its node in memory and so
without comparing it; why that is right follows from what the failed command had
compared. `CommandOK` carries it: a command that loaded knows every row that was open
then and still is (`Knows`), a copy in progress has the open rows as its snapshot and
what it has done is in FalkorDB (`Copying`); `Vetted` says that a node in FalkorDB
was tested against the imports and against each older row that is not shipped yet.
`CommandOK` is a predicate of a command and the two stores, so that one lemma frames
all the commands that do not move.

**`LifecycleProofs`, Episodes.** There are three views of an Episode: in memory, in the rows a
flush has read, and in the store. `Agrees` says that a final state in an older view is
the state in every newer one, which makes `DecidedIsFinal` hold of a write of old rows.
`Carried` says how far each step of a lifecycle has brought its Episode in each view,
unless a write of its own was refused; `Decisions` that a decision has its chain and
nobody will work on its request again; `Causes` who answers for an Episode that is
open or failed in any view; `Ghosts` what a boot has passed. `RecordsTell`,
`RecoveryIsExact` and the roots follow.

**`LifecycleProofs`, the execution of a request.** None of the four invariants is inductive, for they
speak of maps that have ended and milestones that have completed, and a step may leave a
map half done in a sub_plan of a sub_plan. `RequestInv` says it of what is under way.
`FrameOK` is about one frame of the stack: the fan's and the carriers' values, marks,
graphs and origins are in step (`InStep`), a map that has been passed has a mark for
each member of what it read (`MapsDone`). `Within` is about a frame and the one below, which
runs a member for it: what the sub_plan was given is as true as what the member's frame
has, it has written nothing ahead (`Unwritten`), and if it has completed with a target, the
last graph collected made that target (`Terminal`), which is what `EndSubPlan` relies on when
it takes that graph for the member's. `GraphsOK` says that the graphs of this attempt lie
`Behind` what is being run, in the order of paths, so that the next one is new: that is why
no two runs share a graph. `TopOK` and `LastOK` tie the plan's own frame to the last run of each
milestone; a targeted replan keeps that frame's blackboard, and `LastOK` with `Layered` is why
nothing before the map has to be run again. `RecordOK` says where in the list of runs each
milestone is: no earlier than its index, and at its index as long as no map with a
sub_plan came before; a cut at the index of a map therefore takes away all that it should,
and too much only after such a map (`lost`). `InStep` counts the members that completed
(`Count`), and lemmas say how a splice changes the counts (`CountChanged`) and that what the
blackboard says of a collection, `FlattenSeq` of its members' origins, is what its members
are made of (`CollectionIsTrue`). `FlattenSeq` is a recursive function of the community modules; the lemma
`FlattenIs` shows that there is such a function, over the naturals up to the length,
by a least counterexample. Each way in which a milestone ends is an instance of one lemma
(`EndingKeeps`), and so is each way in which a member does (`MemberKeeps`).

**`MetagraphModelProofs`.** `Integrity` is not inductive for two reasons. Whether a node
may go is asked of its graph's observers, so that the invariant has to say which ones a
graph can have (`Watched`): its own guard and subscription together, none after a
rollback has rebuilt it, and in a fork those of the graph it was copied from; before a
rollback every graph of the origin has its own. And a rollback pairs the elements of the
past with the observers of the present: that a compositional edge of the past then has
its nodes wherever it is guarded needs a relation between the snapshot and the present
(`Later`): a compositional edge stays where it is, and its graphs gain no observer. `Good` is a
predicate of a record, as the operations are functions of records. Each operation has a
lemma that says of a well-formed record and of one that differs in the fields it names
that the other is well-formed too; `Frame` does the parts that are not about these
fields. `Moves` collects them for either side. The lemmas on the cascade say that what it
takes away is closed: nothing left refers to it. `MetagraphRemovalMarksStale` is shown from
the same lemmas, and of a fork, which changes no record there was.

**`MetagraphPersistenceProofs`.** What a persist has written when it returns is a fact
about many statements, any of which may be refused, done, or done with the answer lost.
`Saved` says it at each statement: of the graphs, the dirty XRefs and the marks, those
that are not among the ones to do are in the rows. For a load, `Replayed` says the same
of the log that was found: its entries up to the one that comes next have been replayed,
and each that is the last for its XRef among them agrees with the row, unless a replayer
failed; at the end of the log that is `LastEntryWins`. `Logged` says that the entry of the
statement under way is in the log and that the log's numbers grow, so that a commit takes
away that entry and no other. `RowsFollowLog` shows once, for all actions, that a row of
an XRef changes only under its entry. The invariant is about states; `WriteAhead`,
`CommittedHasHappened`, `PersistSavesAll` and `MarksAreDirty` are about steps, and each
is shown action by action from it.

**Model-checked only.** All liveness, because fairness and ENABLED are out of the
prover's reach: `WritersNotStarvedByReaders`, `ParkedIsResumed`, `EverythingEnds`,
`StopReturns`, `CrashedCloses`, `RequestEnds`, `NothingHangs`. Every safety invariant and
every action property of a run is a theorem. No module uses a recursive operator. Where a proof
goes by induction over the naturals (a count, the length of a flattened sequence, a time), it takes
a least counterexample, from the theorem that the naturals are well-founded.

## 6. Where the code and its documentation disagree

Each of these was seen in a trace of the model, which has the behaviour; the property
named leaves it out and holds for the rest.

- **Fork.** `mm.py:8` says that `deep_copy` makes an independent Mental Model. The observers
  a graph carries are closures, which `copy.deepcopy` shares (`registry.py:218`): a removal
  in the fork cascades through the origin's registry of instances and asks the origin's
  compositional edges, and the fork's own instances stay (`InstancesGrounded` asks less of
  a fork).
- **A fold over less than everything.** `execution.py:65-66` and 1440 say that a fold over
  a truncated domain stops. Only the fold that reads the map itself looks at its mask: a map
  over the compact list of a map with stopped members has a mask that is all true, and
  its fold concludes (`ConclusionsAreWhole`, `short`).
- **"Nothing raises"** (`execution.py:1091-1095`). A sub_plan that ends with a map raises
  ValueError (1143) when a member of that map has stopped, because the collection is there
  although its milestone is not completed. A plain leaf without a route inside a
  sub_plan raises out of the whole request (`Uncaught`).
- **The record after a targeted replan.** `replan_check.py:45-52` keeps the prefix and
  `execution.py:269` calls the list "always exactly the terminal attempt's live runs". The
  cut is by index, and a map with a sub_plan before the target has put its members' runs
  into the list: runs of the prefix are lost, and conceded can become dont_know
  (`RecordTells`, `lost`).
- **Stale reads after a targeted replan** (`execution.py:33-34`). When the fold that is run
  again stops or fails, the earlier conclusion stays on the blackboard, and a leaf
  downstream completes from it (`ChainIsCurrent` speaks of milestones that completed). A
  leaf of several steps that fails leaves values whose recorded origin names an earlier
  run (`OriginsAreTrue`).

## 7. Also observed

Found while modelling, or as a counterexample to a stronger form of a property; the
models have the behaviour, and the property says what is left.

*Layer 4.*
- An exclusive resource can have two holders: the ledger is read when a resolver is
  submitted (`submind_arbiter.py:164`) and written when a worker starts it. An
  escalation can dispatch a second resolver after the callback of a cleared predecessor
  has reset `running_request_id` (319). `clear` (360) cancels a resolver only once it has
  acquired its resources; a queued one runs for a vital that has recovered. A preempted
  resolver that declares no resource leaves its need parked on nothing, with no timer
  (278). Success does not cancel a retry timer armed by an earlier failure (283-286).
- An `enqueue` during `stop`'s walk over the tokens makes `stop` raise after it has set
  its once-only flag, and the executor is never shut down (`intelligence_layer.py:289`);
  a token inserted after the walk (260) is never set. The tokens of resolvers are in no
  table `stop` walks (ADR-0167:36 says all in-flight tasks). The table is never pruned.
- A recovery overtakes the signal it undoes, and the need stays although the vital has
  recovered (`submind_registry.py:162`). An `endow` between start's creation of the
  scheduler and its loop puts the SubMind on the heap twice (122; ADR-0188:29). The
  hysteresis compares with the floor of the band chosen, the docstring with that of the
  band left (`submind.py:281`). The sink is tested and loaded again
  (`signal_triage.py:66-71`); unwired in between, the triage thread ends with an exception,
  as it does when the sink raises.
- Submitting an id again while it is pending replaces the first entry, whose future
  never settles (`executor.py:137`). The top-of-tier score has no cap (198; ADR-0163:54
  says 0-9999). An interrupted writer of the lock wakes nobody (`rwlock.py:42`).
  `update_priority` (`orchestrator.py:163`) writes the score in two places under two locks.

*Requests.*
- The member of a collection that a sub_plan is given carries the origin of the whole
  collection (`execution.py:946-952`, as its comment says), and that of an earlier attempt where a leaf of several steps
  has failed since: found when `OriginsAreTrue` of the four first plans, which said of
  every frame that origins are true, was checked on a plan with a sub_plan over what a
  map has made and on two replans.
- A sub_plan whose map stopped goes on to its next milestone and may complete; its
  stopped run is in the record of the request, which is conceded although no milestone of
  the plan has stopped (`execution.py:261-293`; `OutcomeIsEarned`, `within`).
- A targeted replan checks that the milestone is there, and not that the member is: an
  index past the collection raises IndexError out of the request (`execution.py:962`).
- A capacity that cannot be resolved raises from `dispatch` and ends the request, siblings
  included, where `execution.py:1354` expects a stop in the graph.

*Metagraph.*
- `regenerate_ids` leaves metaedges and metahyperedges with the old graph ids. A graph
  rebuilt by a rollback has no composition guard and no subscription of the registry.
  `remove_node` leaves the intergraph edges at the node that are not compositional, and
  a later `attach_schema` raises KeyError on them.

*Persistence.*
- A removed XRef comes back: an entry whose operation failed stays in the log and is
  replayed at the next load, after newer committed ones (`wal.py:294`;
  `metagraph_repository.py:39-40` excludes it).
- After a persist or a load the metagraph has no `_persist_client` attribute
  (`metagraph_repository.py:285-287`), and the next `add_xref` (`metagraph.py:678`) raises
  after it has registered the XRef, which no later persist saves. `remove_xref` with a
  client calls the repository without a required keyword (783).
- The refresh of a role clears the marks of elements it did not reload
  (`metagraph_loader.py:457`). `persist` writes properties over newer ones without
  raising `_version`, and never deletes the rows of removed elements.

*Sessions.*
- ADR-0005's "refuse concurrent login" does not hold for two logins that race
  (`sessions.py:366`). A login verified before `admin_disable` or `reset_admin` inserts its
  session after it, and `session_from_token` does not look at `disabled`.
  `kill_my_own_sessions` (697) and `reset_admin` (`admin.py:193`) may delete a session opened
  after they named those to audit. A lookup may delete a session just refreshed, or write
  an earlier `last_seen_at` (557).

*Release.*
- Two similar atoms proposed one release apart are both shipped. The MERGE of a release
  writes `node_id` and `node_type` (`release.py:566`), the loader reads `id` and `type_name`
  (`graph_loader.py:526`): a released node comes back under a fresh id and no type, and no
  candidate is compared with it, although `audit_gate.py:32-33` says that the pass catches
  collisions with what was shipped.
- Nodes that landed in the role whose copy failed are not in the failed manifest
  (`release.py:307`). `rehydrate_canonical_global` is called by nobody.

*Episodes.*
- A flush walks the dicts of the Local while other workers insert into them
  (`graph_repository.py:76`): it fails with "dictionary changed size", the failure is
  swallowed (`orchestrator.py:183`), and after a crash a request that was told "succeeded"
  is recorded as "failed".
- A request that comes back under its id after NeedsInput finds its Episode suspended,
  and `open` leaves it so (`consolidate.py:229-231`): a crash in its second run leaves it
  suspended for ever, although `crash_recovery.py:9-17` says that a crash leaves it open.
- An exception in a phase leaves the Episode open until the next boot; `start` of a layer
  with a persister of its own scans while requests are live and would close theirs.

*Skills.*
- A record is overwritten when two commands that overlap mint one id
  (`records.py:230`; line 7 says that none is ever mutated). If the one lost said
  "installed" and the other not, a third command may uninstall what the first requires,
  and a fourth, which had read the first, writes it back: the roster then has a bundle
  without what it requires, although no two of the records raced
  (`activation.py:126` takes sequence numbers for an order of the requirements). `failed` records are never
  durable on the command line, because it exits before it persists (`skill.py:133`).
- `deprecated_at` is written to the row and dropped by the loader (`graph_loader.py:122`):
  after a load, uninstalled content looks like installed content, and a re-install never
  takes the mark off the row.
- A death between two statements of a persist can leave "installed" without content,
  and a repeated install is then a no-op (`driver.py:249`). An upgrade by de-install and
  install fails when the new version reuses a node (318). A best-effort activation
  activates a bundle whose requirement it has skipped. `boot.py:232` activates before the
  user's Local is there (245), so a bundle in it is never activated at boot.

*Not modelled.* The audit row at `mindsos_server/orchestrator.py:214` is written after the
reference count is raised and before the `try` whose `finally` lowers it.

## 8. Plan

1. **Request execution**: cancellation, once a token is handed down to `execution.run`;
   larger plans (a map three deep). `Episodes` with `RequestExecution` as the request.
2. **Composition**: `SubMindSensing` with the arbiter's table replaced by
   `SubMindArbiter`; `Skills` over records in two realms.
3. **`LocalInstall`** (with `KnowledgeLayer.install_local`): the user mutexes, the audit
   write that fails, save, load and delete; and the re-activation of capacities.
4. **Proofs**: the safety of the runs is proved. What is left goes with the models above:
   that `RequestExecution` implements what `Episodes` takes a request to be.

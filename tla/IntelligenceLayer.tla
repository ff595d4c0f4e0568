-------------------------- MODULE IntelligenceLayer --------------------------
(***************************************************************************)
(* The lifecycle of a session's layer,                                     *)
(* mindsos_intelligence/intelligence_layer.py: start, enqueue, stop and    *)
(* the dream-cycle timer.  start and stop hold the layer's lock; enqueue   *)
(* takes none, and only the executor's lock orders it after a shutdown.    *)
(*                                                                         *)
(* The executor is here its states of a task and its shutdown flag (its    *)
(* own module is PriorityTierExecutor).  stop walks the table of tokens    *)
(* while enqueue inserts into it, as a Python dict allows: the walk raises *)
(* when the table's size has changed.  Left out: the SubMind registry and  *)
(* the triage thread (SubMindSensing has their stop), and what start wires.*)
(***************************************************************************)
EXTENDS Integers, Sequences, FiniteSets

CONSTANTS Calls,      \* enqueue calls, one task each
          Stoppers,   \* stop calls
          Ids,        \* request ids
          Workers,    \* the executor's worker count
          MaxTicks,   \* bound: turns of the dream timer
          NoCall      \* nobody's token

ASSUME LayerAssumption ==
    /\ IsFiniteSet(Calls) /\ IsFiniteSet(Stoppers)
    /\ Workers \in Nat \ {0} /\ MaxTicks \in Nat
    /\ NoCall \notin Ids \cup Calls

VARIABLES
    started, stopped,  \* _started, _stopped
    callPc,     \* where each enqueue call is
    req,        \* the request id of each call
    order,      \* the keys of _cancel_tokens, in the order of their insertion
    token,      \* _cancel_tokens: request id -> the call whose token it is
    cancelled,  \* calls whose token is set
    task,       \* the executor's state of each call's task
    isShutdown, \* the executor's _shutdown
    stopPc,     \* where each stop call is
    walk,       \* the walk over the tokens: keys visited, and the table's size
    dream,      \* the dream timer's thread
    ticks,      \* bound
    racers      \* history: calls past enqueue's guard, with no token yet, when stop began

layerVars == <<started, stopped, callPc, req, order, token, cancelled, task, isShutdown,
               stopPc, walk, dream, ticks, racers>>

callVars == <<callPc, req, order, token, task>>
stopVars == <<stopped, stopPc, walk, racers>>

LayerTypeOK ==
    /\ started \in BOOLEAN /\ stopped \in BOOLEAN /\ isShutdown \in BOOLEAN
    /\ callPc \in [Calls -> {"idle", "admitted", "inserted", "accepted", "refused", "raised"}]
    /\ req \in [Calls -> Ids \cup {NoCall}]
    /\ order \in Seq(Ids) /\ token \in [Ids -> Calls \cup {NoCall}]
    /\ cancelled \subseteq Calls /\ racers \subseteq Calls
    /\ task \in [Calls -> {"none", "queued", "running", "done"}]
    /\ stopPc \in [Stoppers -> {"idle", "walking", "dream", "shutdown", "join", "returned",
                                "raised"}]
    /\ walk \in [seen : 0..Len(order), size : 0..Len(order)]
    /\ dream \in {"off", "waiting", "driving", "exited"} /\ ticks \in 0..MaxTicks

LayerInit ==
    /\ started = FALSE /\ stopped = FALSE /\ isShutdown = FALSE
    /\ callPc = [c \in Calls |-> "idle"] /\ req = [c \in Calls |-> NoCall]
    /\ order = <<>> /\ token = [r \in Ids |-> NoCall]
    /\ cancelled = {} /\ racers = {}
    /\ task = [c \in Calls |-> "none"]
    /\ stopPc = [s \in Stoppers |-> "idle"] /\ walk = [seen |-> 0, size |-> 0]
    /\ dream = "off" /\ ticks = 0
-----------------------------------------------------------------------------
InLock == {"walking", "dream", "shutdown", "join"}
LockFree == \A s \in Stoppers : stopPc[s] \notin InLock

Start ==
    /\ LockFree /\ ~started /\ ~stopped
    /\ started' = TRUE
    /\ dream' = "waiting"
    /\ UNCHANGED <<callVars, cancelled, isShutdown, stopVars, ticks>>

\* enqueue: the flags are read; then the token enters the table; then the
\* executor's lock is taken.
Admit(c) ==
    /\ callPc[c] = "idle"
    /\ callPc' = [callPc EXCEPT ![c] = IF started /\ ~stopped THEN "admitted" ELSE "refused"]
    /\ UNCHANGED <<req, order, token, task, started, cancelled, isShutdown, stopVars, dream, ticks>>

InsertToken(c, r) ==
    /\ callPc[c] = "admitted"
    /\ req' = [req EXCEPT ![c] = r]
    /\ order' = IF token[r] = NoCall THEN Append(order, r) ELSE order
    /\ token' = [token EXCEPT ![r] = c]
    /\ callPc' = [callPc EXCEPT ![c] = "inserted"]
    /\ UNCHANGED <<task, started, cancelled, isShutdown, stopVars, dream, ticks>>

Submit(c) ==
    /\ callPc[c] = "inserted"
    /\ IF isShutdown
       THEN callPc' = [callPc EXCEPT ![c] = "raised"] /\ UNCHANGED task
       ELSE callPc' = [callPc EXCEPT ![c] = "accepted"] /\ task' = [task EXCEPT ![c] = "queued"]
    /\ UNCHANGED <<req, order, token, started, cancelled, isShutdown, stopVars, dream, ticks>>

Begin(c) ==
    /\ task[c] = "queued"
    /\ Cardinality({d \in Calls : task[d] = "running"}) < Workers
    /\ task' = [task EXCEPT ![c] = "running"]
    /\ UNCHANGED <<callPc, req, order, token, started, cancelled, isShutdown, stopVars, dream,
                   ticks>>

Finish(c) ==
    /\ task[c] = "running"
    /\ task' = [task EXCEPT ![c] = "done"]
    /\ UNCHANGED <<callPc, req, order, token, started, cancelled, isShutdown, stopVars, dream,
                   ticks>>
-----------------------------------------------------------------------------
\* The dream timer waits for its interval or for the stop event, and drives.
DreamStops == \E s \in Stoppers : stopPc[s] = "dream"

\* Mutant of DreamStep: the timer does not look at the stop event.
MutDreamStepDeaf ==
    /\ \/ dream = "waiting" /\ ticks < MaxTicks /\ dream' = "driving" /\ ticks' = ticks + 1
       \/ dream = "driving" /\ dream' = "waiting" /\ UNCHANGED ticks
    /\ UNCHANGED <<callVars, started, cancelled, isShutdown, stopVars>>

DreamStep ==
    /\ \/ dream = "waiting" /\ ~DreamStops /\ ticks < MaxTicks
          /\ dream' = "driving" /\ ticks' = ticks + 1
       \/ dream = "driving" /\ dream' = "waiting" /\ UNCHANGED ticks
       \/ dream = "waiting" /\ DreamStops /\ dream' = "exited" /\ UNCHANGED ticks
    /\ UNCHANGED <<callVars, started, cancelled, isShutdown, stopVars>>
-----------------------------------------------------------------------------
\* Mutant of StopBegins: the walk counts one token too many.
MutStopBeginsOffByOne(s) ==
    /\ stopPc[s] = "idle" /\ LockFree /\ ~stopped
    /\ stopped' = TRUE
    /\ stopPc' = [stopPc EXCEPT ![s] = "walking"]
    /\ walk' = [seen |-> 0, size |-> Len(order) + 1]
    /\ racers' = {c \in Calls : callPc[c] = "admitted"}
    /\ UNCHANGED <<callVars, started, cancelled, isShutdown, dream, ticks>>

\* Mutant of StopBegins: stop takes no lock.
MutStopBeginsUnlocked(s) ==
    /\ stopPc[s] = "idle"
    /\ stopped' = TRUE
    /\ stopPc' = [stopPc EXCEPT ![s] = "walking"]
    /\ walk' = [seen |-> 0, size |-> Len(order)]
    /\ racers' = {c \in Calls : callPc[c] = "admitted"}
    /\ UNCHANGED <<callVars, started, cancelled, isShutdown, dream, ticks>>

StopBegins(s) ==
    /\ stopPc[s] = "idle" /\ LockFree
    /\ \/ /\ stopped
          /\ stopPc' = [stopPc EXCEPT ![s] = "returned"]
          /\ UNCHANGED <<stopped, walk, racers>>
       \/ /\ ~stopped
          /\ stopped' = TRUE
          /\ stopPc' = [stopPc EXCEPT ![s] = "walking"]
          /\ walk' = [seen |-> 0, size |-> Len(order)]
          /\ racers' = {c \in Calls : callPc[c] = "admitted"}
    /\ UNCHANGED <<callVars, started, cancelled, isShutdown, dream, ticks>>

\* Mutant of StopWalks: the walk leaves out the last token.
MutStopWalksShort(s) ==
    /\ stopPc[s] = "walking"
    /\ \/ /\ Len(order) # walk.size
          /\ stopPc' = [stopPc EXCEPT ![s] = "raised"]
          /\ UNCHANGED <<cancelled, walk>>
       \/ /\ Len(order) = walk.size /\ walk.seen + 1 < walk.size
          /\ cancelled' = cancelled \cup {token[order[walk.seen + 1]]}
          /\ walk' = [walk EXCEPT !.seen = @ + 1]
          /\ UNCHANGED stopPc
       \/ /\ Len(order) = walk.size /\ walk.seen + 1 >= walk.size
          /\ stopPc' = [stopPc EXCEPT ![s] = "dream"]
          /\ UNCHANGED <<cancelled, walk>>
    /\ UNCHANGED <<callVars, started, stopped, isShutdown, dream, ticks, racers>>

\* One turn of the loop over _cancel_tokens.values().
StopWalks(s) ==
    /\ stopPc[s] = "walking"
    /\ \/ /\ Len(order) # walk.size
          /\ stopPc' = [stopPc EXCEPT ![s] = "raised"]
          /\ UNCHANGED <<cancelled, walk>>
       \/ /\ Len(order) = walk.size /\ walk.seen < walk.size
          /\ cancelled' = cancelled \cup {token[order[walk.seen + 1]]}
          /\ walk' = [walk EXCEPT !.seen = @ + 1]
          /\ UNCHANGED stopPc
       \/ /\ Len(order) = walk.size /\ walk.seen = walk.size
          /\ stopPc' = [stopPc EXCEPT ![s] = "dream"]
          /\ UNCHANGED <<cancelled, walk>>
    /\ UNCHANGED <<callVars, started, stopped, isShutdown, dream, ticks, racers>>

\* Mutant of StopTearsDown: the executor's shutdown does not wait.
MutStopNoWait(s) ==
    /\ \/ /\ stopPc[s] = "dream" /\ dream \in {"off", "exited"}
          /\ stopPc' = [stopPc EXCEPT ![s] = "shutdown"] /\ UNCHANGED isShutdown
       \/ /\ stopPc[s] = "shutdown"
          /\ stopPc' = [stopPc EXCEPT ![s] = "returned"] /\ isShutdown' = TRUE
    /\ UNCHANGED <<callVars, started, stopped, cancelled, walk, dream, ticks, racers>>

\* The timer's join, the executor's shutdown, and its join of the workers, who
\* drain the queue.
StopTearsDown(s) ==
    /\ \/ /\ stopPc[s] = "dream" /\ dream \in {"off", "exited"}
          /\ stopPc' = [stopPc EXCEPT ![s] = "shutdown"] /\ UNCHANGED isShutdown
       \/ /\ stopPc[s] = "shutdown"
          /\ stopPc' = [stopPc EXCEPT ![s] = "join"] /\ isShutdown' = TRUE
       \/ /\ stopPc[s] = "join"
          /\ \A c \in Calls : task[c] \notin {"queued", "running"}
          /\ stopPc' = [stopPc EXCEPT ![s] = "returned"] /\ UNCHANGED isShutdown
    /\ UNCHANGED <<callVars, started, stopped, cancelled, walk, dream, ticks, racers>>

StopStep(s) == StopWalks(s) \/ StopTearsDown(s)

LayerNext ==
    \/ Start
    \/ \E c \in Calls : Admit(c) \/ Submit(c) \/ Begin(c) \/ Finish(c)
    \/ \E c \in Calls, r \in Ids : InsertToken(c, r)
    \/ DreamStep
    \/ \E s \in Stoppers : StopBegins(s) \/ StopStep(s)

LayerSpec == LayerInit /\ [][LayerNext]_layerVars

\* Threads go on, and cancellation is cooperative: a body ends once its token
\* is set, and need not end before.  A dream driver ends.
LayerFairness ==
    /\ \A s \in Stoppers : WF_layerVars(StopStep(s))
    /\ WF_layerVars(DreamStep)
    /\ \A c \in Calls : WF_layerVars(Begin(c)) /\ WF_layerVars(c \in cancelled /\ Finish(c))

LayerFairSpec == LayerSpec /\ LayerFairness
-----------------------------------------------------------------------------
InFlight == {c \in Calls : task[c] \in {"queued", "running"}}

\* Calls whose token was replaced by that of a later call with the same id.
Replaced == {c \in Calls : req[c] # NoCall /\ token[req[c]] # c}

\* An abort misses nobody but the calls it raced and the tokens that were
\* replaced: once the executor is shut down, any other task in flight has been
\* asked to stop.  (A racer was past its guard, without a token, when stop began.)
AbortMissesOnlyRacers == isShutdown => InFlight \ cancelled \subseteq racers \cup Replaced

\* Nothing of a stopped layer runs on: when the call that tore it down has
\* returned, no task is in flight and the timer is gone, and it stays so.
TornDown == isShutdown /\ \A s \in Stoppers : stopPc[s] # "join"
NothingRunsOn == TornDown => InFlight = {} /\ dream \in {"off", "exited"}

\* Of the calls of stop at most one tears the layer down or fails doing so.
OneStopActs ==
    /\ Cardinality({s \in Stoppers : stopPc[s] \in InLock \cup {"raised"}}) <= 1
    /\ \A s \in Stoppers : stopPc[s] = "raised" => ~isShutdown

\* A stop that raced no enqueue returns although bodies run until they are asked
\* to stop.
StopReturns ==
    \A s \in Stoppers : (stopPc[s] = "walking" /\ racers \cup Replaced = {})
                           ~> stopPc[s] = "returned"

\* A stop is one teardown and leaves nothing behind: of racing calls one acts, and
\* after it no task and no dream timer runs (intelligence_layer.py, stop).
StopIsSound ==
  /\ LayerTypeOK
  /\ OneStopActs
  /\ NothingRunsOn
=============================================================================

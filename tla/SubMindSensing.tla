--------------------------- MODULE SubMindSensing ---------------------------
(***************************************************************************)
(* How a vital becomes a need (mindsos_intelligence): the scheduler thread *)
(* ticks SubMinds and either queues a signal or clears the arbiter's need; *)
(* the triage thread takes signals off the queue and hands them to the     *)
(* arbiter; the registry endows, starts and stops; the layer's stop joins  *)
(* both threads.  The arbiter is here only the table of its needs (what it *)
(* does with them is SubMindArbiter).                                      *)
(*                                                                         *)
(* A reading is a whole number of severity steps past the threshold:       *)
(* negative on the safe side, Top at the failure boundary.  Left out: the  *)
(* clock (any SubMind on the heap may be due), the cadence law (FLOORED    *)
(* ticks as ACTIVE does, less often), a check that raises (the scheduler   *)
(* ignores it), and the score.                                             *)
(***************************************************************************)
EXTENDS Integers, Sequences, FiniteSets

CONSTANTS SubMinds,
          Top,          \* severity steps between threshold and failure
          Low,          \* the lowest reading, as far below the threshold
          Bands,        \* severity_tier_bands, [SubMinds -> Seq(<<floor, tier>>)]
          Hysteresis,   \* tier_hysteresis
          ResetMargin,  \* reset_margin
          MaxSignals,   \* bound: signals emitted
          MaxToggles,   \* bound: activation changes
          None

ASSUME SensingAssumption ==
    /\ IsFiniteSet(SubMinds) /\ None \notin SubMinds
    /\ Top \in Nat /\ Low \in Nat /\ Hysteresis \in Nat /\ ResetMargin \in Nat
    /\ MaxSignals \in Nat /\ MaxToggles \in Nat
    /\ \A s \in SubMinds :
         /\ Bands[s] \in Seq(Nat \X Nat) /\ Bands[s] # <<>>
         /\ \A i, j \in DOMAIN Bands[s] :
              i < j => Bands[s][i][1] <= Bands[s][j][1] /\ Bands[s][i][2] >= Bands[s][j][2]

VARIABLES
    members,     \* the registry's _subminds
    starting,    \* "no", "made" (the scheduler), "adding" (the loop), "yes", "failed"
    startSize,   \* the table's size when the loop began
    added,       \* members the loop of start has added
    endowing,    \* the SubMind an endow call is about to put on the heap
    scheduled,   \* [SubMinds -> entries on the scheduler's heap]
    sched,       \* the scheduler thread: what it is doing, and for whom
    fired,       \* SubMinds in state FIRED
    lastTier,    \* _last_emitted_tier
    off,         \* SubMinds whose activation is OFF
    queue,       \* the triage queue
    triage,      \* the triage thread: where it is, and the signal it has
    wired,       \* on_classified is set
    need,        \* the arbiter's need of each SubMind: its tier, or None
    stopping,    \* how far stop has come
    serviced,    \* history: SubMinds whose need was met since they last fired
    signals, toggles  \* bounds

sensingVars == <<members, starting, startSize, added, endowing, scheduled, sched, fired,
                 lastTier, off, queue, triage, wired, need, stopping, serviced, signals, toggles>>

registryVars == <<members, starting, startSize, added, endowing>>
senseVars    == <<fired, lastTier, off, serviced, signals, toggles>>
triageVars   == <<queue, triage, wired>>

Tiers  == UNION {{Bands[s][i][2] : i \in DOMAIN Bands[s]} : s \in SubMinds}
Signal == [name : SubMinds, tier : Tiers, kind : {"signal", "escalation"}]

SensingTypeOK ==
    /\ members \subseteq SubMinds /\ added \subseteq members /\ off \subseteq SubMinds
    /\ starting \in {"no", "made", "adding", "yes", "failed"}
    /\ startSize \in 0..Cardinality(SubMinds)
    /\ endowing \in SubMinds \cup {None}
    /\ scheduled \in [SubMinds -> Nat]
    /\ sched \in [at : {"off", "idle", "exited"}, job : {None}]
               \cup [at : {"put"}, job : Signal] \cup [at : {"clear"}, job : SubMinds]
    /\ \A s \in SubMinds : IF s \in fired THEN lastTier[s] \in Tiers ELSE lastTier[s] = None
    /\ fired \subseteq SubMinds /\ serviced \subseteq SubMinds
    /\ queue \in Seq(Signal)
    /\ triage \in [at : {"top", "blocked", "exited", "dead"}, job : {None}]
                \cup [at : {"got", "calling"}, job : Signal]
    /\ wired \in BOOLEAN
    /\ need \in [SubMinds -> Tiers \cup {None}]
    /\ stopping \in {"no", "scheduler", "arbiter", "unwire", "triage", "join", "done"}
    /\ signals \in 0..MaxSignals /\ toggles \in 0..MaxToggles

Idle(at) == [at |-> at, job |-> None]

SensingInit ==
    /\ members = {} /\ added = {} /\ fired = {} /\ off = {} /\ serviced = {}
    /\ starting = "no" /\ startSize = 0 /\ endowing = None
    /\ scheduled = [s \in SubMinds |-> 0] /\ sched = Idle("off")
    /\ lastTier = [s \in SubMinds |-> None]
    /\ queue = <<>> /\ triage = Idle("top") /\ wired = FALSE
    /\ need = [s \in SubMinds |-> None]
    /\ stopping = "no" /\ signals = 0 /\ toggles = 0
-----------------------------------------------------------------------------
Clamp(r) == IF r < 0 THEN 0 ELSE IF r > Top THEN Top ELSE r

Past(r)      == r >= 0
Recovered(r) == r <= -ResetMargin

\* tier_for: the last band whose floor is reached; a less urgent one than the
\* last emitted is not taken within the margin above its own floor.
TierFor(s, severity) ==
    LET reached == {i \in DOMAIN Bands[s] : Bands[s][i][1] <= severity} \cup {1}
        chosen  == Bands[s][CHOOSE i \in reached : \A j \in reached : j <= i]
    IN  IF /\ Hysteresis > 0 /\ lastTier[s] # None
           /\ chosen[2] > lastTier[s]
           /\ severity < chosen[1] + Hysteresis
        THEN lastTier[s] ELSE chosen[2]

Emit(s, r, kind) ==
    LET tier == TierFor(s, Clamp(r))
    IN  /\ signals < MaxSignals /\ signals' = signals + 1
        /\ fired' = fired \cup {s}
        /\ lastTier' = [lastTier EXCEPT ![s] = tier]
        /\ serviced' = IF kind = "signal" THEN serviced \ {s} ELSE serviced
        /\ sched' = [at |-> "put", job |-> [name |-> s, tier |-> tier, kind |-> kind]]

\* Mutant of Rearm: the last emitted tier is kept.
MutRearmKeepsTier(s) ==
    /\ fired' = fired \ {s}
    /\ sched' = [at |-> "clear", job |-> s]
    /\ UNCHANGED <<lastTier, serviced, signals>>

Rearm(s) ==
    /\ fired' = fired \ {s}
    /\ lastTier' = [lastTier EXCEPT ![s] = None]
    /\ sched' = [at |-> "clear", job |-> s]
    /\ UNCHANGED <<serviced, signals>>

\* Mutant of Tick: any other tier is an escalation.
MutTickAnyChange(s, r) ==
    /\ sched.at = "idle" /\ stopping = "no"
    /\ scheduled[s] > 0 /\ s \notin off
    /\ \/ s \notin fired /\ Past(r) /\ Emit(s, r, "signal")
       \/ s \in fired /\ Past(r) /\ TierFor(s, Clamp(r)) # lastTier[s] /\ Emit(s, r, "escalation")
       \/ s \in fired /\ ~Past(r) /\ Recovered(r) /\ Rearm(s)
    /\ scheduled' = [scheduled EXCEPT ![s] = @ - 1]
    /\ UNCHANGED <<registryVars, off, triageVars, need, stopping, toggles>>

\* One turn of the scheduler's loop: the entry is off the heap until the signal
\* is queued or the need is cleared.  A tick without either leaves no trace.
Tick(s, r) ==
    /\ sched.at = "idle" /\ stopping = "no"
    /\ scheduled[s] > 0 /\ s \notin off
    /\ \/ s \notin fired /\ Past(r) /\ Emit(s, r, "signal")
       \/ s \in fired /\ Past(r) /\ TierFor(s, Clamp(r)) < lastTier[s] /\ Emit(s, r, "escalation")
       \/ s \in fired /\ ~Past(r) /\ Recovered(r) /\ Rearm(s)
    /\ scheduled' = [scheduled EXCEPT ![s] = @ - 1]
    /\ UNCHANGED <<registryVars, off, triageVars, need, stopping, toggles>>

\* submit_signal, then the scheduler re-adds the SubMind.
Put ==
    /\ sched.at = "put"
    /\ queue' = Append(queue, sched.job)
    /\ scheduled' = [scheduled EXCEPT ![sched.job.name] = @ + 1]
    /\ sched' = Idle("idle")
    /\ UNCHANGED <<registryVars, senseVars, triage, wired, need, stopping>>

\* Mutant of Clear: the scheduler does not re-add the SubMind.
MutClearForgets ==
    /\ sched.at = "clear"
    /\ need' = [need EXCEPT ![sched.job] = None]
    /\ sched' = Idle("idle")
    /\ UNCHANGED <<registryVars, scheduled, senseVars, triageVars, stopping>>

\* arbiter.clear, then the scheduler re-adds the SubMind.
Clear ==
    /\ sched.at = "clear"
    /\ need' = [need EXCEPT ![sched.job] = None]
    /\ scheduled' = [scheduled EXCEPT ![sched.job] = @ + 1]
    /\ sched' = Idle("idle")
    /\ UNCHANGED <<registryVars, senseVars, triageVars, stopping>>

SchedulerExits ==
    /\ sched.at = "idle" /\ stopping # "no"
    /\ sched' = Idle("exited")
    /\ UNCHANGED <<registryVars, scheduled, senseVars, triageVars, need, stopping>>
-----------------------------------------------------------------------------
\* Mutant of TriageTop: the stop flag is not read.
MutTriageTopDeaf ==
    /\ triage.at = "top"
    /\ triage' = Idle("blocked")
    /\ UNCHANGED <<registryVars, scheduled, sched, senseVars, queue, wired, need, stopping>>

\* The triage thread: it looks at the stop flag, waits for a signal (or for its
\* 50 ms), looks whether a sink is wired, and loads the sink again to call it.
TriageTop ==
    /\ triage.at = "top"
    /\ triage' = Idle(IF stopping \in {"join", "done"} THEN "exited" ELSE "blocked")
    /\ UNCHANGED <<registryVars, scheduled, sched, senseVars, queue, wired, need, stopping>>

\* Mutant of TriageGet: the newest signal first.
MutTriageGetLast ==
    /\ triage.at = "blocked" /\ queue # <<>>
    /\ triage' = [at |-> "got", job |-> queue[Len(queue)]]
    /\ queue' = SubSeq(queue, 1, Len(queue) - 1)
    /\ UNCHANGED <<registryVars, scheduled, sched, senseVars, wired, need, stopping>>

\* Mutant of TriageGet: an empty queue ends the thread.
MutTriageGetOnce ==
    /\ triage.at = "blocked"
    /\ \/ /\ queue # <<>>
          /\ triage' = [at |-> "got", job |-> Head(queue)]
          /\ queue' = Tail(queue)
       \/ /\ queue = <<>>
          /\ triage' = Idle("exited")
          /\ UNCHANGED queue
    /\ UNCHANGED <<registryVars, scheduled, sched, senseVars, wired, need, stopping>>

TriageGet ==
    /\ triage.at = "blocked"
    /\ \/ /\ queue # <<>>
          /\ triage' = [at |-> "got", job |-> Head(queue)]
          /\ queue' = Tail(queue)
       \/ /\ queue = <<>>
          /\ triage' = Idle("top")
          /\ UNCHANGED queue
    /\ UNCHANGED <<registryVars, scheduled, sched, senseVars, wired, need, stopping>>

TriageCheck ==
    /\ triage.at = "got"
    /\ triage' = IF wired THEN [triage EXCEPT !.at = "calling"] ELSE Idle("top")
    /\ UNCHANGED <<registryVars, scheduled, sched, senseVars, queue, wired, need, stopping>>

\* on_need makes the need or updates it; calling None ends the thread.
TriageCall ==
    /\ triage.at = "calling"
    /\ \/ /\ wired
          /\ need' = [need EXCEPT ![triage.job.name] = triage.job.tier]
          /\ triage' = Idle("top")
       \/ /\ ~wired
          /\ triage' = Idle("dead")
          /\ UNCHANGED need
    /\ UNCHANGED <<registryVars, scheduled, sched, senseVars, queue, wired, stopping>>

TriageStep == TriageTop \/ TriageGet \/ TriageCheck \/ TriageCall
-----------------------------------------------------------------------------
\* endow: into the table, and the scheduler (if there is one by then) is read,
\* under the lock; the heap is reached after it.
Endow(s) ==
    /\ endowing = None /\ s \notin members
    /\ members' = members \cup {s}
    /\ endowing' = IF starting = "no" THEN None ELSE s
    /\ UNCHANGED <<starting, startSize, added, scheduled, sched, senseVars, triageVars, need,
                   stopping>>

EndowAdds ==
    /\ endowing # None
    /\ scheduled' = [scheduled EXCEPT ![endowing] = @ + 1]
    /\ endowing' = None
    /\ UNCHANGED <<members, starting, startSize, added, sched, senseVars, triageVars, need,
                   stopping>>

\* start: the sink is wired and the scheduler made; then the table is walked,
\* without the lock: an endow that falls into the walk makes it raise.
StartMakes ==
    /\ starting = "no" /\ stopping = "no"
    /\ starting' = "made"
    /\ wired' = TRUE
    /\ UNCHANGED <<members, startSize, added, endowing, scheduled, sched, senseVars, queue,
                   triage, need, stopping>>

StartWalks ==
    /\ starting = "made"
    /\ starting' = "adding" /\ startSize' = Cardinality(members)
    /\ UNCHANGED <<members, added, endowing, scheduled, sched, senseVars, triageVars, need,
                   stopping>>

StartAdds(s) ==
    /\ starting = "adding" /\ Cardinality(members) = startSize
    /\ s \in members \ added
    /\ added' = added \cup {s}
    /\ scheduled' = [scheduled EXCEPT ![s] = @ + 1]
    /\ UNCHANGED <<members, starting, startSize, endowing, sched, senseVars, triageVars, need,
                   stopping>>

StartEnds ==
    /\ starting = "adding"
    /\ \/ /\ Cardinality(members) # startSize /\ starting' = "failed"
          /\ UNCHANGED sched
       \/ /\ Cardinality(members) = startSize /\ added = members
          /\ starting' = "yes"
          /\ sched' = Idle("idle")
    /\ UNCHANGED <<members, startSize, added, endowing, scheduled, senseVars, triageVars, need,
                   stopping>>

\* set_activation, from another thread.
SetActivation(s) ==
    /\ toggles < MaxToggles /\ toggles' = toggles + 1
    /\ s \in members
    /\ off' = IF s \in off THEN off \ {s} ELSE off \cup {s}
    /\ UNCHANGED <<registryVars, scheduled, sched, fired, lastTier, serviced, signals,
                   triageVars, need, stopping>>

\* A resolver that succeeds drops the need (the worker's done callback).
Serviced(s) ==
    /\ need[s] # None
    /\ need' = [need EXCEPT ![s] = None]
    /\ serviced' = serviced \cup {s}
    /\ UNCHANGED <<registryVars, scheduled, sched, fired, lastTier, off, signals, toggles,
                   triageVars, stopping>>

\* The registry's stop (scheduler, join, arbiter, unwire), then triage's.
RegistryStopStep ==
    /\ \/ stopping = "no" /\ starting = "yes" /\ stopping' = "scheduler"
          /\ UNCHANGED <<need, wired>>
       \/ stopping = "scheduler" /\ sched.at = "exited" /\ stopping' = "arbiter"
          /\ UNCHANGED <<need, wired>>
       \/ stopping = "arbiter" /\ stopping' = "unwire"
          /\ need' = [s \in SubMinds |-> None] /\ UNCHANGED wired
       \/ stopping = "unwire" /\ stopping' = "triage" /\ wired' = FALSE /\ UNCHANGED need
       \/ stopping = "triage" /\ stopping' = "join" /\ UNCHANGED <<need, wired>>
       \/ stopping = "join" /\ triage.at \in {"exited", "dead"} /\ stopping' = "done"
          /\ UNCHANGED <<need, wired>>
    /\ UNCHANGED <<registryVars, scheduled, sched, senseVars, queue, triage>>

SensingNext ==
    \/ \E s \in SubMinds : Endow(s) \/ StartAdds(s) \/ SetActivation(s) \/ Serviced(s)
    \/ EndowAdds \/ StartMakes \/ StartWalks \/ StartEnds
    \/ \E s \in SubMinds, r \in -Low..Top : Tick(s, r)
    \/ Put \/ Clear \/ SchedulerExits
    \/ TriageStep
    \/ RegistryStopStep

SensingSpec == SensingInit /\ [][SensingNext]_sensingVars

\* Threads go on: the scheduler's, the triage thread, and whoever called stop.
SensingFairness ==
    /\ WF_sensingVars(Put \/ Clear \/ SchedulerExits)
    /\ WF_sensingVars(TriageStep)
    /\ WF_sensingVars(stopping # "no" /\ RegistryStopStep)

SensingFairSpec == SensingSpec /\ SensingFairness
-----------------------------------------------------------------------------
InQueue(s) == \E i \in DOMAIN queue : queue[i].name = s

\* A signal of s, or the clearing of its need, is on its way to the arbiter.
OnItsWay(s) ==
    \/ sched.at = "put" /\ sched.job.name = s
    \/ sched.at = "clear" /\ sched.job = s
    \/ InQueue(s)
    \/ triage.at \in {"got", "calling"} /\ triage.job.name = s

\* No signal is lost and none is applied out of order: once nothing is on its
\* way, a fired SubMind whose need has not been met has a need, at the tier it
\* last emitted, although signals pass through a queue and clears do not.
NeedIsCurrent ==
    \A s \in fired : stopping = "no" /\ ~OnItsWay(s) =>
        need[s] = lastTier[s] \/ (need[s] = None /\ s \in serviced)

\* Storm suppression: of two signals of one SubMind next to each other in the
\* queue, an escalation is strictly more urgent than the one before it.
EscalationWorsens ==
    \A i, j \in DOMAIN queue :
        /\ i < j /\ queue[i].name = queue[j].name /\ queue[j].kind = "escalation"
        /\ \A k \in i+1..j-1 : queue[k].name # queue[i].name
        => queue[j].tier < queue[i].tier

\* Every endowed SubMind of a started registry is on the heap, or being ticked,
\* or about to be put there by the endow that made it a member.
EndowedIsScheduled ==
    starting = "yes" => \A s \in members :
        \/ scheduled[s] > 0 \/ s = endowing
        \/ sched.at = "put" /\ sched.job.name = s
        \/ sched.at = "clear" /\ sched.job = s

\* Queued signals reach the arbiter, unless the registry stops first.
SignalsAreTriaged == starting = "yes" /\ queue # <<>> ~> queue = <<>> \/ stopping # "no"

\* stop returns: both joins end.
RegistryStopReturns == stopping # "no" ~> stopping = "done"

\* What is sensed reaches the arbiter as it is: a fired SubMind has the need it last
\* signalled, and every endowed SubMind stays on the schedule (submind_registry.py,
\* submind_scheduler.py, signal_triage.py).
NeedsAndSchedule ==
  /\ SensingTypeOK
  /\ NeedIsCurrent
  /\ EscalationWorsens
  /\ EndowedIsScheduled

\* Nothing hangs: signals that came in are triaged, and stop ends both threads
\* although a sink may be taken away under the triage thread (submind_registry.py, stop).
NothingHangs == SignalsAreTriaged /\ RegistryStopReturns
=============================================================================

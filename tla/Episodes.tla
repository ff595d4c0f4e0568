------------------------------ MODULE Episodes ------------------------------
(***************************************************************************)
(* The Episode of a request: opened when the request starts, suspended or  *)
(* closed when it ends, and closed as failed by the scan of the next boot  *)
(* when the brain died in between.  Orchestrator.run_lifecycle and its     *)
(* flushes (mindsos_intelligence/orchestrator.py, consolidation.py), the   *)
(* capacity that writes the Episode (mindsos_capacity/builtins/            *)
(* consolidate.py), the scan (crash_recovery.py) where boot.py calls it,   *)
(* and the persister of the user's Local.                                  *)
(*                                                                         *)
(* Several requests of one user run on worker threads over one Local in    *)
(* memory.  A flush writes the whole Local, statement after statement,     *)
(* under the user's mutex; its failure is swallowed.                       *)
(***************************************************************************)
EXTENDS Naturals, FiniteSets

CONSTANTS Request,     \* request ids; the Episode has the id of its request
          Worker,      \* threads that run lifecycles
          MaxCrashes,  \* how often the brain dies
          MaxFaults    \* statements and writes refused by the environment
ASSUME EpisodesBounds == {MaxCrashes, MaxFaults} \subseteq Nat

VARIABLES brain,     \* "down", "booting" (scanning) or "up"
          episodes,  \* the Episodes in memory: state, and outcome once closed
          members,   \* in memory: Episodes a Memory contains
          stored,    \* the Episodes in the database
          storedMembers,
          chains,    \* requests whose chain graph is in the database
          pc,        \* where the lifecycle of each worker is
          rows,      \* the rows the flush in progress has read, or Nobody's
          told,      \* what the caller of each request was told
          faults, crashes,
          missed,    \* history: requests one of whose writes or flushes failed
          cut,       \* history: requests a crash interrupted
          here       \* history: requests this brain has worked on
vars == <<brain, episodes, members, stored, storedMembers, chains, pc, rows,
          told, faults, crashes, missed, cut, here>>

(* A closed Episode is named by its outcome_classification.                *)
Decided == {"succeeded", "dont_know", "conceded"}
State == Decided \cup {"absent", "open", "suspended", "failed"}
(* The nodes of the role-graph: the Episodes, and the Memory of the one    *)
(* request pattern they all have, "absent" or "kept".                      *)
Memory == "memory"
Node == Request \cup {Memory}
(* _OUTCOME_BY_STATUS, on RequestRun.status                                *)
Status == {"completed", "dont_know", "conceded"}
OutcomeOf(status) == IF status = "completed" THEN "succeeded" ELSE status

Idle == [at |-> "idle"]
Nobody == [owner |-> "nobody"]
(* A Memory's id is its own, and the mutex has no owner or a thread.       *)
ASSUME EpisodesNames == Memory \notin Request /\ Nobody.owner \notin Worker
(* outcome is what the caller will be told, "nothing" until it is decided. *)
Run(at, r, outcome) == [at |-> at, request |-> r, outcome |-> outcome]
Flushing == {"flush", "nodes", "edges"}
Working == {"interpret", "execute", "consolidate"}
Told == Decided \cup {"nothing", "pending", "raised"}

TypeOK ==
  /\ brain \in {"down", "booting", "up"}
  /\ \A graph \in {episodes, stored} :
       DOMAIN graph = Node /\ \A r \in Request : graph[r] \in State
  /\ members \subseteq Request /\ storedMembers \subseteq Request
  /\ members # {} => episodes[Memory] = "kept"
  /\ chains \subseteq Request
  /\ \A w \in Worker : pc[w] # Idle =>
       pc[w] \in [at : {"open", "close"} \cup Working \cup Flushing,
                 request : Request, outcome : Told \ {"raised"}]
  /\ \A v, w \in Worker :
       v # w /\ pc[v] # Idle /\ pc[w] # Idle => pc[v].request # pc[w].request
  /\ \A w \in Worker : pc[w].at \in {"nodes", "edges"} <=> rows.owner = w
  /\ told \in [Request -> Told]
  /\ faults \in 0 .. MaxFaults /\ crashes \in 0 .. MaxCrashes

Init == /\ brain = "down"
        /\ episodes = [n \in Node |-> "absent"]
        /\ stored = episodes
        /\ members = {} /\ storedMembers = {} /\ chains = {}
        /\ pc = [w \in Worker |-> Idle]
        /\ rows = Nobody
        /\ told = [r \in Request |-> "nothing"]
        /\ faults = 0 /\ crashes = 0
        /\ missed = {} /\ cut = {} /\ here = {}

Store == <<stored, storedMembers, chains>>
Local == <<episodes, members>>
History == <<crashes, cut, here>>

Goto(w, place) == pc' = [pc EXCEPT ![w] = place]
At(w, place) == brain = "up" /\ pc[w].at = place
Fault == faults < MaxFaults /\ faults' = faults + 1
Miss(r) == missed' = missed \cup {r}
Sound == UNCHANGED <<faults, missed>>
(* A dispatch of consolidate:mm on the Episode of r.  dispatch returns a   *)
(* failure instead of raising, and the lifecycle does not look at it.      *)
Write(r, state) == episodes' = [episodes EXCEPT ![r] = state]
Refused(r) == Fault /\ Miss(r) /\ UNCHANGED <<episodes, members>>
(* The first two closes of a pattern both find no Memory and create one;   *)
(* the second is refused.                                                  *)
Outrun(w) == /\ episodes[Memory] = "absent"
             /\ \E v \in Worker \ {w} : pc[v].at = "close"
             /\ UNCHANGED faults

-----------------------------------------------------------------------------
(* A request starts: a new one, or one that was told to give more input    *)
(* and comes back under its id.                                            *)
Submit(w, r) ==
  /\ brain = "up" /\ pc[w] = Idle
  /\ \A v \in Worker : pc[v] # Idle => pc[v].request # r
  /\ told[r] = "pending" \/ (told[r] = "nothing" /\ r \notin cut)
  /\ Goto(w, Run("open", r, "nothing"))
  /\ told' = [told EXCEPT ![r] = "nothing"]
  /\ here' = here \cup {r}
  /\ UNCHANGED <<brain, rows, crashes, cut>>
  /\ UNCHANGED Local /\ UNCHANGED Store /\ Sound

(* Bookmarked: the open is left to the flush of the close.                 *)
MutOpenEpisodeUnflushed(w) ==
  /\ At(w, "open")
  /\ LET r == pc[w].request
     IN /\ Write(r, IF episodes[r] = "absent" THEN "open" ELSE episodes[r])
        /\ UNCHANGED members /\ Sound
        /\ Goto(w, Run("interpret", r, "nothing"))
  /\ UNCHANGED <<brain, rows, told>> /\ UNCHANGED Store /\ UNCHANGED History

(* The op "open" leaves an Episode that exists alone.                      *)
OpenEpisode(w) ==
  /\ At(w, "open")
  /\ LET r == pc[w].request
     IN /\ \/ Refused(r)
           \/ Write(r, IF episodes[r] = "absent" THEN "open" ELSE episodes[r])
              /\ UNCHANGED members /\ Sound
        /\ Goto(w, Run("flush", r, "nothing"))
  /\ UNCHANGED <<brain, rows, told>> /\ UNCHANGED Store /\ UNCHANGED History

(* Phase 1 asks the user: the Episode waits.                               *)
SuspendEpisode(w) ==
  /\ At(w, "interpret")
  /\ LET r == pc[w].request
     IN /\ \/ Refused(r)
           \/ Write(r, IF episodes[r] = "absent" THEN "absent" ELSE "suspended")
              /\ UNCHANGED members /\ Sound
        /\ Goto(w, Run("flush", r, "pending"))
  /\ UNCHANGED <<brain, rows, told>> /\ UNCHANGED Store /\ UNCHANGED History

(* Phase 1, the plan and the RequestRun; then _flush_chain, best effort.   *)
Plan(w) ==
  /\ At(w, "interpret")
  /\ \/ Fault /\ UNCHANGED <<chains, missed>>
     \/ chains' = chains \cup {pc[w].request} /\ Sound
  /\ Goto(w, Run("execute", pc[w].request, "nothing"))
  /\ UNCHANGED <<brain, stored, storedMembers, rows, told>>
  /\ UNCHANGED Local /\ UNCHANGED History

(* The loop of executions, verdicts and replans ends in a status.          *)
Decide(w, status) ==
  /\ At(w, "execute")
  /\ Goto(w, Run("consolidate", pc[w].request, OutcomeOf(status)))
  /\ UNCHANGED <<brain, rows, told>>
  /\ UNCHANGED Local /\ UNCHANGED Store /\ UNCHANGED History /\ Sound

(* An exception goes to the caller; nothing closes the Episode.            *)
Raise(w) ==
  /\ Goto(w, Idle)
  /\ told' = [told EXCEPT ![pc[w].request] = "raised"]
  /\ UNCHANGED <<brain, rows>>
  /\ UNCHANGED Local /\ UNCHANGED Store /\ UNCHANGED History
PhaseRaises(w) ==
  /\ brain = "up" /\ pc[w].at \in {"interpret", "execute"}
  /\ Raise(w) /\ Sound

(* RootsAreThere: the failure of the chain graph is swallowed too.         *)
MutPersistChainSwallows(w) ==
  /\ At(w, "consolidate")
  /\ \/ chains' = chains \cup {pc[w].request} /\ Sound
     \/ UNCHANGED chains /\ Fault /\ Miss(pc[w].request)
  /\ Goto(w, [pc[w] EXCEPT !.at = "close"])
  /\ UNCHANGED <<brain, stored, storedMembers, rows, told>>
  /\ UNCHANGED Local /\ UNCHANGED History

(* The chain graph is persisted before the Episode that points at it       *)
(* closes; here a failure is not swallowed.                                *)
PersistChain(w) ==
  /\ At(w, "consolidate")
  /\ \/ /\ chains' = chains \cup {pc[w].request}
        /\ Goto(w, [pc[w] EXCEPT !.at = "close"])
        /\ UNCHANGED <<brain, stored, storedMembers, rows, told>>
        /\ UNCHANGED Local /\ UNCHANGED History /\ Sound
     \/ Raise(w) /\ Fault /\ Miss(pc[w].request)

(* The op "close" updates or creates the Episode, and then adds it to the  *)
(* Memory of its pattern, which it creates if there is none.               *)
CloseEpisode(w) ==
  /\ At(w, "close")
  /\ LET r == pc[w].request
     IN /\ \/ Refused(r)
           \/ /\ Write(r, pc[w].outcome) /\ UNCHANGED members
              /\ Fault \/ Outrun(w)
              /\ Miss(r)
           \/ /\ episodes' = [episodes EXCEPT ![r] = pc[w].outcome, ![Memory] = "kept"]
              /\ members' = members \cup {r} /\ Sound
        /\ Goto(w, [pc[w] EXCEPT !.at = "flush"])
  /\ UNCHANGED <<brain, rows, told>> /\ UNCHANGED Store /\ UNCHANGED History

-----------------------------------------------------------------------------
(* A flush: the persister takes the user's mutex and reads the nodes,      *)
(* writes them, reads the edges, writes those whose ends it finds.  The    *)
(* loops run over dictionaries that other workers may extend.              *)
Present(graph) == {n \in Node : graph[n] # "absent"}
(* TypeOK: the persister does not take the mutex.                          *)
MutReadRowsUnlocked(w) ==
  /\ At(w, "flush")
  /\ rows' = [owner |-> w, nodes |-> episodes, edges |-> members]
  /\ Goto(w, [pc[w] EXCEPT !.at = "nodes"])
  /\ UNCHANGED <<brain, told>>
  /\ UNCHANGED Local /\ UNCHANGED Store /\ UNCHANGED History /\ Sound

ReadRows(w) ==
  /\ At(w, "flush") /\ rows = Nobody
  /\ rows' = [owner |-> w, nodes |-> episodes, edges |-> members]
  /\ Goto(w, [pc[w] EXCEPT !.at = "nodes"])
  /\ UNCHANGED <<brain, told>>
  /\ UNCHANGED Local /\ UNCHANGED Store /\ UNCHANGED History /\ Sound

(* RecordsTell: the statement sets properties only when it creates a node. *)
MutWriteNodesOnCreate(w) ==
  /\ At(w, "nodes")
  /\ stored' = [n \in Node |-> IF stored[n] = "absent" THEN rows.nodes[n] ELSE stored[n]]
  /\ rows' = [rows EXCEPT !.nodes = episodes, !.edges = members]
  /\ Goto(w, [pc[w] EXCEPT !.at = "edges"])
  /\ UNCHANGED <<brain, storedMembers, chains, told>>
  /\ UNCHANGED Local /\ UNCHANGED History /\ Sound

WriteNodes(w) ==
  /\ At(w, "nodes")
  /\ stored' = [n \in Node |->
                  IF n \in Present(rows.nodes) THEN rows.nodes[n] ELSE stored[n]]
  /\ rows' = [rows EXCEPT !.nodes = episodes, !.edges = members]
  /\ Goto(w, [pc[w] EXCEPT !.at = "edges"])
  /\ UNCHANGED <<brain, storedMembers, chains, told>>
  /\ UNCHANGED Local /\ UNCHANGED History /\ Sound

(* The flush is over, well or not, and the lifecycle goes on.              *)
FlushEnds(w) ==
  LET r == pc[w].request
  IN /\ rows' = Nobody
     /\ IF pc[w].outcome = "nothing"
        THEN Goto(w, Run("interpret", r, "nothing")) /\ UNCHANGED told
        ELSE Goto(w, Idle) /\ told' = [told EXCEPT ![r] = pc[w].outcome]
     /\ UNCHANGED <<brain, stored, chains>>
     /\ UNCHANGED Local /\ UNCHANGED History
WriteEdges(w) ==
  /\ At(w, "edges")
  /\ storedMembers' = storedMembers \cup
       {r \in rows.edges : {r, Memory} \subseteq Present(stored)}
  /\ FlushEnds(w) /\ Sound
(* A statement fails, or a dictionary has changed size under the loop.     *)
Grown(w) == IF pc[w].at = "nodes" THEN Present(rows.nodes) # Present(episodes)
                                  ELSE rows.edges # members
FlushFails(w) ==
  /\ brain = "up" /\ rows.owner = w
  /\ IF Grown(w) THEN UNCHANGED faults ELSE Fault
  /\ Miss(pc[w].request)
  /\ FlushEnds(w) /\ UNCHANGED storedMembers

-----------------------------------------------------------------------------
(* The brain dies, or is stopped, at any moment.                           *)
Crash ==
  /\ brain # "down" /\ crashes < MaxCrashes
  /\ crashes' = crashes + 1
  /\ brain' = "down"
  /\ cut' = cut \cup {pc[w].request : w \in {v \in Worker : pc[v] # Idle}}
  /\ pc' = [w \in Worker |-> Idle]
  /\ rows' = Nobody
  /\ episodes' = [n \in Node |-> "absent"] /\ members' = {}
  /\ here' = {}
  /\ UNCHANGED told /\ UNCHANGED Store /\ Sound

(* boot loads the Local, and scans it before it hands out the Stack.       *)
Boot ==
  /\ brain = "down"
  /\ brain' = "booting"
  /\ episodes' = stored /\ members' = storedMembers
  /\ UNCHANGED <<pc, rows, told>> /\ UNCHANGED Store /\ UNCHANGED History /\ Sound

(* FailedHasCause: the scan takes a suspended Episode for a crash.         *)
MutRecoverSuspended(r) ==
  /\ brain = "booting" /\ episodes[r] \in {"open", "suspended"} /\ r \notin here
  /\ Write(r, "failed") /\ UNCHANGED members /\ Sound
  /\ here' = here \cup {r}
  /\ UNCHANGED <<brain, pc, rows, told, crashes, cut>> /\ UNCHANGED Store

(* DecidedIsFinal: the scan takes every Episode that does not wait.        *)
MutRecoverClosed(r) ==
  /\ brain = "booting" /\ episodes[r] \notin {"absent", "suspended"} /\ r \notin here
  /\ Write(r, "failed") /\ UNCHANGED members /\ Sound
  /\ here' = here \cup {r}
  /\ UNCHANGED <<brain, pc, rows, told, crashes, cut>> /\ UNCHANGED Store

(* recover_unconsolidated closes one open Episode after the other.         *)
Recover(r) ==
  /\ brain = "booting" /\ episodes[r] = "open" /\ r \notin here
  /\ \/ Refused(r)
     \/ Write(r, "failed") /\ UNCHANGED members /\ Sound
  /\ here' = here \cup {r}
  /\ UNCHANGED <<brain, pc, rows, told, crashes, cut>> /\ UNCHANGED Store

(* NoGhosts: the first refusal ends the scan.                              *)
MutFinishBootEarly ==
  /\ brain = "booting"
  /\ stored' = episodes /\ Sound
  /\ brain' = "up" /\ here' = {}
  /\ UNCHANGED <<storedMembers, chains, pc, rows, told, crashes, cut>>
  /\ UNCHANGED Local

(* CrashedCloses: the recovered Episodes are saved by nobody.              *)
MutFinishBootUnsaved ==
  /\ brain = "booting"
  /\ \A r \in Request : episodes[r] = "open" => r \in here
  /\ brain' = "up" /\ here' = {}
  /\ UNCHANGED <<stored, storedMembers, chains, pc, rows, told, crashes, cut>>
  /\ UNCHANGED Local /\ Sound

(* Then it saves the Local, best effort, if it has recovered any.          *)
FinishBoot ==
  /\ brain = "booting"
  /\ \A r \in Request : episodes[r] = "open" => r \in here
  /\ \/ stored' = episodes /\ Sound
     \/ Fault /\ episodes # stored /\ UNCHANGED <<stored, missed>>
  /\ brain' = "up" /\ here' = {}
  /\ UNCHANGED <<storedMembers, chains, pc, rows, told, crashes, cut>>
  /\ UNCHANGED Local

Lifecycle(w) ==
  \/ \E r \in Request : Submit(w, r)
  \/ OpenEpisode(w) \/ SuspendEpisode(w) \/ Plan(w)
  \/ \E status \in Status : Decide(w, status)
  \/ PhaseRaises(w) \/ PersistChain(w) \/ CloseEpisode(w)
  \/ ReadRows(w) \/ WriteNodes(w) \/ WriteEdges(w) \/ FlushFails(w)
Next == \/ \E w \in Worker : Lifecycle(w)
        \/ Crash \/ Boot \/ FinishBoot
        \/ \E r \in Request : Recover(r)

(* A brain that is down is started again, and its boot goes on.            *)
Fairness == WF_vars(Boot) /\ WF_vars(FinishBoot)
            /\ \A r \in Request : WF_vars(Recover(r))
Spec == Init /\ [][Next]_vars /\ Fairness

-----------------------------------------------------------------------------
(* A request that was told an outcome has it in the store, in an Episode   *)
(* that its Memory contains, from then on and over every crash - unless    *)
(* one of its own writes or flushes failed, which nobody was told.         *)
RecordsTell ==
  \A r \in Request : told[r] \in Decided /\ r \notin missed =>
    stored[r] = told[r] /\ r \in storedMembers

(* A request at work has an Episode in the store for a boot to find.       *)
Bookmarked ==
  \A w \in Worker : pc[w] # Idle /\ pc[w].at \in Working =>
    stored[pc[w].request] # "absent" \/ pc[w].request \in missed

(* An Episode is recorded as failed because a crash or an exception ended  *)
(* its request, or because a write or a flush of it had failed; never on   *)
(* account of another request.                                             *)
FailedHasCause ==
  \A r \in Request : "failed" \in {episodes[r], stored[r]} =>
    r \in cut \cup missed \/ told[r] = "raised"

(* A brain that is up holds no open Episode of an earlier one, but for one *)
(* whose close the capacity refused.                                       *)
NoGhosts ==
  brain = "up" => \A r \in Request : episodes[r] = "open" => r \in here \cup missed

(* An Episode in the store that records a decision points at a chain graph *)
(* that is there.                                                          *)
RootsAreThere == \A r \in Request : stored[r] \in Decided => r \in chains

(* A decision in the store is never replaced: no flush writes an older     *)
(* view over it, no scan takes it for a crash.                             *)
DecidedIsFinal ==
  [][\A r \in Request : stored[r] \in Decided => stored'[r] = stored[r]]_vars

(* An Episode that a dead brain left open is closed in the end, once the   *)
(* environment refuses no more.                                            *)
CrashedCloses ==
  \A r \in Request : brain = "down" /\ stored[r] = "open" /\ faults = MaxFaults
                       ~> stored[r] # "open"

(* The store never lies about a request: its Episode is there for a boot   *)
(* to find while it works, what it was told is there, and a decision in    *)
(* the store points at a chain that is there (orchestrator.py,             *)
(* consolidate.py, graph_repository.py).                                   *)
StoreIsSound ==
  /\ TypeOK
  /\ RecordsTell
  /\ Bookmarked
  /\ RootsAreThere

(* The recovery of a boot closes exactly what a crash left open: none that *)
(* is not one's fault is failed, and no ghost stays open in a brain that   *)
(* is up (crash_recovery.py).                                              *)
RecoveryIsExact ==
  /\ FailedHasCause
  /\ NoGhosts
=============================================================================

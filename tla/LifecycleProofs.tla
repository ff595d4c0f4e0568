-------------------------- MODULE LifecycleProofs --------------------------
(***************************************************************************)
(* The lifecycle of a request (Orchestrator.run_lifecycle): its Episode,   *)
(* for any requests, workers and numbers of crashes and faults; and its    *)
(* execution, for any plans whose order is the planner's, any sizes of     *)
(* collections, caps and budgets.                                          *)
(*                                                                         *)
(* The Episode.  What the store says is not inductive by itself: a flush   *)
(* writes a view of the Local that was read earlier.  Inv relates the      *)
(* three views there are of an Episode - in memory, in the rows the flush  *)
(* has read, and in the store (Agrees: a final state in an older view is   *)
(* the state in every newer one) - and says how far each lifecycle has     *)
(* carried its Episode (Carried), and who answers for an open or a failed  *)
(* one (Causes).                                                           *)
(*                                                                         *)
(* The execution.  RequestInv says of every frame, of a map that is under  *)
(* way as well, that values, masks, graphs and origins are in step         *)
(* (FrameOK); of a frame and the one it runs a member for, what it was     *)
(* given and what it promises (Within); of the graphs there are, that they *)
(* lie behind what is being run (Behind), so that no reference is used     *)
(* twice; and of the record, where in it each milestone is (RecordOK).     *)
(***************************************************************************)
EXTENDS Episodes, RequestExecution, FiniteSetTheorems, WellFoundedInduction, TLAPS

Busy(w) == pc[w] # Idle
Doing(r) == \E w \in Worker : Busy(w) /\ pc[w].request = r
Cause(r) == r \in cut \cup missed \/ told[r] = "raised"
Final == Decided \cup {"kept"}

\* The role-graphs of Episodes and the Memory.
Graph == {g \in [Node -> State \cup {"kept"}] :
            g[Memory] \in {"absent", "kept"} /\ \A r \in Request : g[r] \in State}
Place == [at : {"open", "interpret", "execute"}, request : Request, outcome : {"nothing"}]
    \cup [at : {"consolidate", "close"}, request : Request, outcome : Decided]
    \cup [at : Flushing, request : Request, outcome : Decided \cup {"nothing", "pending"}]

Types ==
    /\ brain \in {"down", "booting", "up"}
    /\ episodes \in Graph /\ stored \in Graph
    /\ members \subseteq Request /\ storedMembers \subseteq Request /\ chains \subseteq Request
    /\ pc \in [Worker -> Place \cup {Idle}]
    /\ rows \in [owner : Worker, nodes : Graph, edges : SUBSET Request] \cup {Nobody}
    /\ told \in [Request -> Told]
    /\ faults \in 0 .. MaxFaults /\ crashes \in 0 .. MaxCrashes
    /\ missed \subseteq Request /\ cut \subseteq Request /\ here \subseteq Request

\* Lifecycles run in a brain that is up, one for a request, which was not told yet.
Lives ==
    /\ \A w \in Worker : Busy(w) =>
         /\ brain = "up" /\ told[pc[w].request] = "nothing"
         /\ pc[w].request \in here \ cut
    /\ \A v, w \in Worker : v # w /\ Busy(v) /\ Busy(w) => pc[v].request # pc[w].request
    /\ \A w \in Worker : pc[w].at \in {"nodes", "edges"} <=> rows.owner = w
    /\ \A r \in cut : told[r] = "nothing"

\* A decision that is recorded has its chain, and nobody will work on its request again.
Settled(r, state) ==
    r \in chains /\ (\/ r \in cut
                     \/ told[r] = state
                     \/ \E w \in Worker : /\ pc[w].at \in Flushing
                                          /\ pc[w].request = r /\ pc[w].outcome = state)
Decisions ==
    /\ \A r \in Request : /\ episodes[r] \in Decided => Settled(r, episodes[r])
                          /\ stored[r] \in Decided => Settled(r, stored[r])
    /\ \A w \in Worker : pc[w].at = "close" => pc[w].request \in chains

\* A final state is never behind in a newer view.
Agrees ==
    /\ brain # "down" => \A n \in Node : stored[n] \in Final => episodes[n] = stored[n]
    /\ rows # Nobody => \A n \in Node :
         /\ rows.nodes[n] \in Final => episodes[n] = rows.nodes[n]
         /\ stored[n] \in Final => rows.nodes[n] = stored[n]
    /\ members # {} => episodes[Memory] = "kept"
    /\ storedMembers # {} => stored[Memory] = "kept"

\* Who answers for an Episode that is open or failed.
Answered(r, state) ==
    /\ state = "failed" => Cause(r)
    /\ state = "open" => Cause(r) \/ Doing(r)
Causes ==
    \A r \in Request : /\ Answered(r, episodes[r]) /\ Answered(r, stored[r])
                       /\ rows # Nobody => Answered(r, rows.nodes[r])

\* How far a lifecycle has carried its Episode, if nothing of it was refused.
Shows(state, outcome) ==
    /\ outcome = "nothing" => state # "absent"
    /\ outcome = "pending" => state = "suspended"
    /\ outcome \in Decided => state = outcome
CarriedBy(w) ==
    LET r == pc[w].request
        o == pc[w].outcome
    IN  /\ pc[w].at \in Working => episodes[r] # "absent" /\ stored[r] # "absent"
        /\ pc[w].at \in Flushing => Shows(episodes[r], o) /\ (o \in Decided => r \in members)
        /\ pc[w].at = "nodes" =>
             Shows(rows.nodes[r], o) /\ (o \in Decided => rows.nodes[Memory] = "kept")
        /\ pc[w].at = "edges" =>
             /\ Shows(stored[r], o)
             /\ o \in Decided => stored[Memory] = "kept" /\ r \in rows.edges
Carried == \A w \in Worker : Busy(w) /\ pc[w].request \notin missed => CarriedBy(w)

\* What a boot has passed, and what is open in a brain that is up.
Ghosts ==
    /\ brain = "down" => here = {}
    /\ brain = "booting" => \A r \in here : episodes[r] = "open" => r \in missed
    /\ NoGhosts

Inv == Types /\ Lives /\ Decisions /\ Agrees /\ Causes /\ Carried /\ RecordsTell /\ Ghosts

------------------------------------------------------------------------------
\* The fields of a lifecycle at each of its steps.
LEMMA PlaceIs ==
    ASSUME Types, NEW w \in Worker
    PROVE  /\ Busy(w) <=> pc[w].at # "idle"
           /\ Busy(w) => pc[w] \in Place /\ pc[w].request \in Request
           /\ pc[w].at \in {"open", "interpret", "execute"} => pc[w].outcome = "nothing"
           /\ pc[w].at \in {"consolidate", "close"} => pc[w].outcome \in Decided
           /\ pc[w].at \in Flushing => pc[w].outcome \in Decided \cup {"nothing", "pending"}
<1>1. CASE pc[w] = Idle
  BY <1>1 DEF Busy, Idle, Flushing
<1>2. CASE pc[w] \in [at : {"open", "interpret", "execute"}, request : Request, outcome : {"nothing"}]
  BY <1>2 DEF Busy, Idle, Place, Flushing
<1>3. CASE pc[w] \in [at : {"consolidate", "close"}, request : Request, outcome : Decided]
  BY <1>3 DEF Busy, Idle, Place, Flushing
<1>4. CASE pc[w] \in [at : Flushing, request : Request, outcome : Decided \cup {"nothing", "pending"}]
  BY <1>4 DEF Busy, Idle, Place, Flushing
<1>5. QED
  BY <1>1, <1>2, <1>3, <1>4 DEF Types, Place

\* Places a lifecycle goes to.
LEMMA PlacesAre ==
    ASSUME NEW r \in Request
    PROVE  /\ \A at \in {"open", "interpret", "execute"} : Run(at, r, "nothing") \in Place
           /\ \A at \in {"consolidate", "close"}, o \in Decided : Run(at, r, o) \in Place
           /\ \A at \in Flushing, o \in Decided \cup {"nothing", "pending"} : Run(at, r, o) \in Place
           /\ \A at, o : Run(at, r, o).at = at /\ Run(at, r, o).request = r /\ Run(at, r, o).outcome = o
           /\ \A at, o : at # "idle" => Run(at, r, o) # Idle
BY DEF Run, Place, Idle

LEMMA MovedIs ==
    ASSUME Types, NEW w \in Worker, NEW at,
           pc' = [pc EXCEPT ![w] = [pc[w] EXCEPT !.at = at]], Busy(w)
    PROVE  pc'[w] = Run(at, pc[w].request, pc[w].outcome)
<1>1. pc'[w] = [pc[w] EXCEPT !.at = at]
  BY DEF Types
<1>2. pc[w] \in Place
  BY PlaceIs
<1>3. QED
  BY <1>1, <1>2 DEF Place, Run

\* The state of one Episode in each view.
LEMMA StatesAre ==
    ASSUME Types, NEW r \in Request
    PROVE  /\ episodes[r] \in State /\ stored[r] \in State
           /\ rows # Nobody => rows.nodes[r] \in State
           /\ episodes[Memory] \in {"absent", "kept"} /\ stored[Memory] \in {"absent", "kept"}
           /\ rows # Nobody => rows.nodes[Memory] \in {"absent", "kept"}
           /\ r # Memory /\ r \in Node /\ Memory \in Node
BY EpisodesNames DEF Types, Graph, Node

\* The rows of a flush are somebody's.
LEMMA RowsAre ==
    ASSUME Types
    PROVE  /\ rows = Nobody <=> rows.owner \notin Worker
           /\ rows # Nobody => rows \in [owner : Worker, nodes : Graph, edges : SUBSET Request]
BY EpisodesNames DEF Types, Nobody

LEMMA OneLifecycle ==
    ASSUME Lives, NEW w \in Worker, Busy(w), NEW v \in Worker, Busy(v),
           pc[v].request = pc[w].request
    PROVE  v = w
BY DEF Lives

\* Nothing that is final stands under the request of a lifecycle before it flushes.
LEMMA NotYetDecided ==
    ASSUME Inv, NEW w \in Worker, Busy(w),
           pc[w].at \notin Flushing \/ pc[w].outcome \notin Decided
    PROVE  /\ episodes[pc[w].request] \notin Decided
           /\ stored[pc[w].request] \notin Decided
           /\ rows # Nobody => rows.nodes[pc[w].request] \notin Decided
<1> DEFINE r == pc[w].request
<1>1. r \in Request /\ told[r] = "nothing" /\ r \notin cut
  BY PlaceIs DEF Inv, Lives
<1>2. ASSUME NEW s \in Decided, Settled(r, s)
      PROVE  FALSE
  <2>1. s # "nothing"
    BY DEF Decided
  <2>2. PICK v \in Worker : pc[v].at \in Flushing /\ pc[v].request = r /\ pc[v].outcome = s
    BY <1>1, <1>2, <2>1 DEF Settled
  <2>3. Busy(v)
    BY <2>2 DEF Busy, Idle, Flushing
  <2>4. v = w
    BY <2>2, <2>3, OneLifecycle DEF Inv
  <2>5. QED
    BY <2>2, <2>4
<1>3. episodes[r] \notin Decided /\ stored[r] \notin Decided
  BY <1>1, <1>2 DEF Inv, Decisions
<1>4. rows # Nobody => rows.nodes[r] \notin Decided
  BY <1>1, <1>3 DEF Inv, Agrees, Final, Node
<1>5. QED
  BY <1>3, <1>4

\* An answer stays: causes stay, and a lifecycle that goes leaves one.
LEMMA AnswersStay ==
    ASSUME NEW r, NEW state, Answered(r, state), Cause(r) => Cause(r)',
           Doing(r) => Doing(r)' \/ Cause(r)'
    PROVE  Answered(r, state)'
BY DEF Answered

\* A lifecycle that goes on with its request, or is over.
LEMMA LivesGoOn ==
    ASSUME Inv, NEW w \in Worker, Busy(w), pc' = [pc EXCEPT ![w] = pc'[w]],
           UNCHANGED <<brain, cut, here>>,
           Busy(w)' => pc'[w].request = pc[w].request /\ told' = told,
           \A q \in Request \ {pc[w].request} : told'[q] = told[q],
           pc'[w].at \in {"nodes", "edges"} <=> rows'.owner = w,
           \A v \in Worker \ {w} : rows'.owner = v <=> rows.owner = v
    PROVE  Lives'
<1> DEFINE r == pc[w].request
<1>1. /\ r \in Request /\ r \in here \ cut /\ brain = "up" /\ told[r] = "nothing"
      /\ pc \in [Worker -> Place \cup {Idle}]
  BY PlaceIs DEF Inv, Lives, Types
<1>2. \A v \in Worker \ {w} : pc'[v] = pc[v] /\ (Busy(v)' <=> Busy(v))
  BY <1>1 DEF Busy
<1>3. \A v \in Worker \ {w} : Busy(v) =>
        pc[v].request \in Request \ {r} /\ pc[v].request \in here \ cut /\ told[pc[v].request] = "nothing"
  BY PlaceIs DEF Inv, Lives
<1>4. \A v \in Worker : Busy(v)' =>
        brain' = "up" /\ told'[pc'[v].request] = "nothing" /\ pc'[v].request \in here' \ cut'
  BY <1>1, <1>2, <1>3
<1>5. \A u, v \in Worker : u # v /\ Busy(u)' /\ Busy(v)' => pc'[u].request # pc'[v].request
  BY <1>2, <1>3 DEF Inv, Lives
<1>6. \A v \in Worker : pc'[v].at \in {"nodes", "edges"} <=> rows'.owner = v
  BY <1>2 DEF Inv, Lives
<1>7. \A q \in cut' : told'[q] = "nothing"
  <2>1. \A q \in cut : q \in Request \ {r}
    BY <1>1 DEF Inv, Types
  <2>2. QED
    BY <2>1 DEF Inv, Lives
<1>8. QED
  BY <1>4, <1>5, <1>6, <1>7 DEF Lives

\* A step of a lifecycle that is not in a flush and leaves the Episodes alone.
LEMMA PaperStep ==
    ASSUME Inv, NEW w \in Worker, Busy(w), pc' = [pc EXCEPT ![w] = pc'[w]], Types',
           UNCHANGED <<brain, episodes, members, stored, storedMembers, rows, cut, here>>,
           chains \subseteq chains', missed \subseteq missed',
           pc[w].at \notin Flushing, pc'[w].at \notin Flushing,
           Busy(w)' => pc'[w].request = pc[w].request /\ told' = told,
           told' = told \/ told' = [told EXCEPT ![pc[w].request] = "raised"],
           ~Busy(w)' => told'[pc[w].request] = "raised",
           pc'[w].at \in Working => pc[w].at \in Working,
           pc'[w].at = "close" => pc[w].request \in chains'
    PROVE  Inv'
<1> DEFINE r == pc[w].request
<1>1. /\ r \in Request /\ r \notin cut /\ told[r] = "nothing"
      /\ told \in [Request -> Told] /\ pc \in [Worker -> Place \cup {Idle}]
  BY PlaceIs DEF Inv, Lives, Types
<1>2. \A v \in Worker \ {w} : pc'[v] = pc[v] /\ (Busy(v)' <=> Busy(v))
  BY <1>1 DEF Busy
<1>3. \A q \in Request \ {r} : told'[q] = told[q]
  BY <1>1
<1>4. Lives'
  <2>1. pc'[w].at \in {"nodes", "edges"} <=> rows'.owner = w
    BY DEF Inv, Lives, Flushing
  <2>2. QED
    BY <1>3, <2>1, LivesGoOn
<1>5. ASSUME NEW q \in Request, NEW s \in Decided, Settled(q, s)
      PROVE  Settled(q, s)'
  <2>1. CASE \E v \in Worker : pc[v].at \in Flushing /\ pc[v].request = q /\ pc[v].outcome = s
    <3>1. PICK v \in Worker : pc[v].at \in Flushing /\ pc[v].request = q /\ pc[v].outcome = s
      BY <2>1
    <3>2. pc'[v] = pc[v]
      BY <1>2, <3>1
    <3>3. QED
      BY <1>5, <3>1, <3>2 DEF Settled
  <2>2. CASE q \in cut \/ told[q] = s
    <3>1. s # "nothing"
      BY DEF Decided
    <3>2. QED
      BY <1>1, <1>3, <1>5, <2>2, <3>1 DEF Settled
  <2>3. QED
    BY <1>5, <2>1, <2>2 DEF Settled
<1>6. Decisions'
  <2>1. \A v \in Worker : pc'[v].at = "close" => pc'[v].request \in chains'
    BY <1>2 DEF Inv, Decisions, Busy, Idle
  <2>2. QED
    BY <1>5, <2>1 DEF Inv, Decisions
<1>7. Agrees'
  BY DEF Inv, Agrees
<1>8. ASSUME NEW q \in Request
      PROVE  (Cause(q) => Cause(q)') /\ (Doing(q) => Doing(q)' \/ Cause(q)')
  <2>1. Cause(q) => Cause(q)'
    BY <1>1, <1>3 DEF Cause
  <2>2. ASSUME NEW v \in Worker, Busy(v), pc[v].request = q
        PROVE  Doing(q)' \/ Cause(q)'
    BY <1>2, <2>2 DEF Doing, Cause
  <2>3. QED
    BY <2>1, <2>2 DEF Doing
<1>9. Causes'
  BY <1>8, AnswersStay DEF Inv, Causes
<1>10. ASSUME NEW v \in Worker, Busy(v)', pc'[v].request \notin missed'
       PROVE  CarriedBy(v)'
  <2>1. CASE v = w
    <3>1. pc'[v].request = r /\ r \notin missed
      BY <1>10, <2>1
    <3>2. pc[w].at \in Working => episodes[r] # "absent" /\ stored[r] # "absent"
      BY <3>1 DEF Inv, Carried, CarriedBy
    <3>3. QED
      BY <2>1, <3>1, <3>2 DEF CarriedBy, Flushing
  <2>2. CASE v # w
    <3>1. Busy(v) /\ pc'[v] = pc[v] /\ pc[v].request \notin missed
      BY <1>2, <1>10, <2>2
    <3>2. CarriedBy(v)
      BY <3>1 DEF Inv, Carried
    <3>3. QED
      BY <3>1, <3>2 DEF CarriedBy
  <2>3. QED
    BY <2>1, <2>2
<1>11. Carried'
  BY <1>10 DEF Carried
<1>12. RecordsTell'
  <2>1. "raised" \notin Decided
    BY DEF Decided
  <2>2. QED
    BY <1>1, <1>3, <2>1 DEF Inv, RecordsTell
<1>13. Ghosts'
  BY DEF Inv, Ghosts, NoGhosts
<1>14. QED
  BY <1>4, <1>6, <1>7, <1>9, <1>11, <1>12, <1>13 DEF Inv

\* What the environment refuses is counted.
LEMMA FaultsAre ==
    ASSUME Types, Fault \/ UNCHANGED faults
    PROVE  faults' \in 0 .. MaxFaults
BY EpisodesBounds DEF Types, Fault

LEMMA PlanKeeps == ASSUME Inv, NEW w \in Worker, Plan(w) PROVE Inv'
<1> DEFINE r == pc[w].request
<1>1. /\ pc[w].at = "interpret"
      /\ pc' = [pc EXCEPT ![w] = Run("execute", r, "nothing")]
      /\ UNCHANGED <<brain, stored, storedMembers, rows, told, episodes, members, crashes, cut, here>>
      /\ chains \subseteq chains' /\ chains' \subseteq chains \cup {r}
      /\ missed' = missed /\ (Fault \/ UNCHANGED faults)
  BY DEF Plan, At, Goto, Local, History, Sound
<1>2. Busy(w) /\ r \in Request
  BY <1>1, PlaceIs DEF Inv
<1>3. /\ pc' = [pc EXCEPT ![w] = pc'[w]] /\ pc'[w] = Run("execute", r, "nothing")
      /\ pc' \in [Worker -> Place \cup {Idle}]
  BY <1>1, <1>2, PlacesAre DEF Inv, Types
<1>4. Types'
  BY <1>1, <1>2, <1>3, FaultsAre DEF Inv, Types
<1>5. pc'[w].at = "execute" /\ pc'[w].request = r
  BY <1>2, <1>3, PlacesAre
<1>6. Busy(w)'
  BY <1>5 DEF Busy, Idle
<1>7. QED
  BY <1>1, <1>2, <1>3, <1>4, <1>5, <1>6, PaperStep DEF Flushing, Working

LEMMA DecideKeeps == ASSUME Inv, NEW w \in Worker, NEW answer \in Status, Decide(w, answer) PROVE Inv'
<1> DEFINE r == pc[w].request
           o == OutcomeOf(answer)
<1>1. /\ pc[w].at = "execute" /\ pc' = [pc EXCEPT ![w] = Run("consolidate", r, o)]
      /\ UNCHANGED <<brain, stored, storedMembers, chains, rows, told, episodes, members, crashes,
                     cut, here, missed, faults>>
  BY DEF Decide, At, Goto, Local, Store, History, Sound
<1>2. Busy(w) /\ r \in Request
  BY <1>1, PlaceIs DEF Inv
<1>3. o \in Decided
  BY DEF OutcomeOf, Status, Decided
<1>4. /\ pc' = [pc EXCEPT ![w] = pc'[w]] /\ pc'[w] = Run("consolidate", r, o)
      /\ pc' \in [Worker -> Place \cup {Idle}]
  BY <1>1, <1>2, <1>3, PlacesAre DEF Inv, Types
<1>5. Types'
  BY <1>1, <1>4 DEF Inv, Types
<1>6. pc'[w].at = "consolidate" /\ pc'[w].request = r
  BY <1>2, <1>4, PlacesAre
<1>7. Busy(w)'
  BY <1>6 DEF Busy, Idle
<1>8. QED
  BY <1>1, <1>2, <1>4, <1>5, <1>6, <1>7, PaperStep DEF Flushing, Working

\* An exception reaches the caller.
LEMMA RaiseKeeps ==
    ASSUME Inv, NEW w \in Worker, pc[w].at \in {"interpret", "execute", "consolidate"}, Raise(w),
           (UNCHANGED <<faults, missed>>) \/ (Fault /\ Miss(pc[w].request))
    PROVE  Inv'
<1> DEFINE r == pc[w].request
<1>1. /\ pc' = [pc EXCEPT ![w] = Idle] /\ told' = [told EXCEPT ![r] = "raised"]
      /\ UNCHANGED <<brain, stored, storedMembers, chains, rows, episodes, members, crashes, cut, here>>
      /\ missed \subseteq missed' /\ missed' \subseteq missed \cup {r} /\ (Fault \/ UNCHANGED faults)
  BY DEF Raise, Goto, Local, Store, History, Miss
<1>2. Busy(w) /\ r \in Request
  BY PlaceIs DEF Inv
<1>3. /\ pc' = [pc EXCEPT ![w] = pc'[w]] /\ pc'[w] = Idle
      /\ pc' \in [Worker -> Place \cup {Idle}] /\ told' \in [Request -> Told] /\ told'[r] = "raised"
  BY <1>1, <1>2 DEF Inv, Types, Told
<1>4. Types'
  BY <1>1, <1>2, <1>3, FaultsAre DEF Inv, Types
<1>5. ~Busy(w)' /\ pc'[w].at = "idle"
  BY <1>3 DEF Busy, Idle
<1>6. QED
  BY <1>1, <1>2, <1>3, <1>4, <1>5, PaperStep DEF Flushing, Working

LEMMA PersistChainKeeps == ASSUME Inv, NEW w \in Worker, PersistChain(w) PROVE Inv'
<1> DEFINE r == pc[w].request
<1>1. pc[w].at = "consolidate"
  BY DEF PersistChain, At
<1>2. CASE Raise(w) /\ Fault /\ Miss(r)
  BY <1>1, <1>2, RaiseKeeps
<1>3. CASE /\ chains' = chains \cup {r} /\ Goto(w, [pc[w] EXCEPT !.at = "close"])
           /\ UNCHANGED <<brain, stored, storedMembers, rows, told>>
           /\ UNCHANGED Local /\ UNCHANGED History /\ Sound
  <2>1. /\ pc' = [pc EXCEPT ![w] = [pc[w] EXCEPT !.at = "close"]] /\ chains' = chains \cup {r}
        /\ UNCHANGED <<brain, stored, storedMembers, rows, told, episodes, members, crashes,
                       cut, here, missed, faults>>
    BY <1>3 DEF Goto, Local, History, Sound
  <2>2. Busy(w) /\ r \in Request /\ pc[w].outcome \in Decided
    BY <1>1, PlaceIs DEF Inv
  <2>3. pc'[w] = Run("close", r, pc[w].outcome)
    BY <2>1, <2>2, MovedIs DEF Inv
  <2>4. pc' = [pc EXCEPT ![w] = pc'[w]] /\ pc' \in [Worker -> Place \cup {Idle}]
    BY <2>1, <2>2, <2>3, PlacesAre DEF Inv, Types
  <2>5. Types'
    BY <2>1, <2>2, <2>4 DEF Inv, Types
  <2>6. pc'[w].at = "close" /\ pc'[w].request = r
    BY <2>2, <2>3, PlacesAre
  <2>7. Busy(w)'
    BY <2>6 DEF Busy, Idle
  <2>8. QED
    BY <1>1, <2>1, <2>2, <2>4, <2>5, <2>6, <2>7, PaperStep DEF Flushing, Working
<1>4. QED
  BY <1>2, <1>3 DEF PersistChain

LEMMA SubmitKeeps == ASSUME Inv, NEW w \in Worker, NEW r \in Request, Submit(w, r) PROVE Inv'
<1>1. /\ brain = "up" /\ pc[w] = Idle
      /\ \A v \in Worker : pc[v] # Idle => pc[v].request # r
      /\ told[r] = "pending" \/ (told[r] = "nothing" /\ r \notin cut)
      /\ pc' = [pc EXCEPT ![w] = Run("open", r, "nothing")]
      /\ told' = [told EXCEPT ![r] = "nothing"] /\ here' = here \cup {r}
      /\ UNCHANGED <<brain, rows, crashes, cut, episodes, members, stored, storedMembers, chains,
                     faults, missed>>
  BY DEF Submit, Goto, Local, Store, Sound
<1>2. /\ pc'[w] = Run("open", r, "nothing") /\ pc' \in [Worker -> Place \cup {Idle}]
      /\ told' \in [Request -> Told] /\ told'[r] = "nothing"
      /\ \A q \in Request \ {r} : told'[q] = told[q]
      /\ \A v \in Worker \ {w} : pc'[v] = pc[v]
  BY <1>1, PlacesAre DEF Inv, Types, Told
<1>3. pc'[w].at = "open" /\ pc'[w].request = r /\ Busy(w)'
  BY <1>2, PlacesAre DEF Busy
<1>4. Types'
  BY <1>1, <1>2 DEF Inv, Types
<1>5. r \notin cut
  BY <1>1 DEF Inv, Lives
<1>6. \A v \in Worker \ {w} : Busy(v)' => Busy(v) /\ pc[v].request \in Request \ {r}
  BY <1>1, <1>2, PlaceIs DEF Inv, Busy
<1>7. Lives'
  <2>1. \A v \in Worker : Busy(v)' =>
          brain' = "up" /\ told'[pc'[v].request] = "nothing" /\ pc'[v].request \in here' \ cut'
    BY <1>1, <1>2, <1>3, <1>5, <1>6 DEF Inv, Lives
  <2>2. \A u, v \in Worker : u # v /\ Busy(u)' /\ Busy(v)' => pc'[u].request # pc'[v].request
    BY <1>2, <1>3, <1>6 DEF Inv, Lives
  <2>3. \A v \in Worker : pc'[v].at \in {"nodes", "edges"} <=> rows'.owner = v
    BY <1>1, <1>2, <1>3 DEF Inv, Lives, Idle
  <2>4. \A q \in cut' : told'[q] = "nothing"
    BY <1>1 DEF Inv, Lives, Types
  <2>5. QED
    BY <2>1, <2>2, <2>3, <2>4 DEF Lives
<1>8. ASSUME NEW q \in Request, NEW s \in Decided, Settled(q, s)
      PROVE  Settled(q, s)'
  <2>1. CASE \E v \in Worker : pc[v].at \in Flushing /\ pc[v].request = q /\ pc[v].outcome = s
    <3>1. PICK v \in Worker : pc[v].at \in Flushing /\ pc[v].request = q /\ pc[v].outcome = s
      BY <2>1
    <3>2. pc'[v] = pc[v]
      BY <1>1, <1>2, <3>1 DEF Flushing, Idle
    <3>3. QED
      BY <1>1, <1>8, <3>1, <3>2 DEF Settled
  <2>2. CASE q \in cut \/ told[q] = s
    <3>1. s # "nothing" /\ s # "pending"
      BY DEF Decided
    <3>2. QED
      BY <1>1, <1>2, <1>8, <2>2, <3>1 DEF Settled
  <2>3. QED
    BY <1>8, <2>1, <2>2 DEF Settled
<1>9. Decisions'
  <2>1. \A v \in Worker : pc'[v].at = "close" => pc'[v].request \in chains'
    BY <1>1, <1>2, <1>3 DEF Inv, Decisions
  <2>2. QED
    BY <1>1, <1>8, <2>1 DEF Inv, Decisions
<1>10. Agrees'
  BY <1>1 DEF Inv, Agrees
<1>11. ASSUME NEW q \in Request
       PROVE  (Cause(q) => Cause(q)') /\ (Doing(q) => Doing(q)' \/ Cause(q)')
  <2>1. Cause(q) => Cause(q)'
    BY <1>1, <1>2 DEF Cause
  <2>2. Doing(q) => Doing(q)'
    BY <1>1, <1>2 DEF Doing, Busy
  <2>3. QED
    BY <2>1, <2>2
<1>12. Causes'
  BY <1>1, <1>11, AnswersStay DEF Inv, Causes
<1>13. ASSUME NEW v \in Worker, Busy(v)', pc'[v].request \notin missed'
       PROVE  CarriedBy(v)'
  <2>1. CASE v = w
    BY <1>3, <2>1 DEF CarriedBy, Working, Flushing
  <2>2. CASE v # w
    <3>1. Busy(v) /\ pc'[v] = pc[v] /\ pc[v].request \notin missed
      BY <1>1, <1>2, <1>13, <2>2 DEF Busy
    <3>2. CarriedBy(v)
      BY <3>1 DEF Inv, Carried
    <3>3. QED
      BY <1>1, <3>1, <3>2 DEF CarriedBy
  <2>3. QED
    BY <2>1, <2>2
<1>14. Carried'
  BY <1>13 DEF Carried
<1>15. RecordsTell'
  <2>1. "nothing" \notin Decided
    BY DEF Decided
  <2>2. QED
    BY <1>1, <1>2, <2>1 DEF Inv, RecordsTell
<1>16. Ghosts'
  BY <1>1 DEF Inv, Ghosts, NoGhosts
<1>17. QED
  BY <1>4, <1>7, <1>9, <1>10, <1>12, <1>14, <1>15, <1>16 DEF Inv

\* A step that writes the Episode in memory and goes to the flush.
LEMMA MemoryStep ==
    ASSUME Inv, NEW w \in Worker, Busy(w), pc[w].at \in {"open", "interpret", "close"}, NEW o,
           pc' = [pc EXCEPT ![w] = pc'[w]], pc'[w] = Run("flush", pc[w].request, o), Types',
           UNCHANGED <<brain, stored, storedMembers, chains, rows, told, cut, here>>,
           \A q \in Request \ {pc[w].request} : episodes'[q] = episodes[q],
           episodes'[Memory] = episodes[Memory] \/ episodes'[Memory] = "kept",
           episodes'[pc[w].request] \in Decided =>
             episodes'[pc[w].request] = o /\ pc[w].request \in chains,
           episodes'[pc[w].request] = "failed" => episodes[pc[w].request] = "failed",
           members \subseteq members', members' # {} => episodes'[Memory] = "kept",
           missed \subseteq missed',
           pc[w].request \notin missed' =>
             Shows(episodes'[pc[w].request], o) /\ (o \in Decided => pc[w].request \in members')
    PROVE  Inv'
<1>1. PICK r \in Request : /\ r = pc[w].request /\ r \notin cut /\ r \in here
                           /\ told[r] = "nothing" /\ pc \in [Worker -> Place \cup {Idle}]
  BY PlaceIs DEF Inv, Lives, Types
<1>2. \A v \in Worker \ {w} : pc'[v] = pc[v] /\ (Busy(v)' <=> Busy(v))
  BY <1>1 DEF Busy
<1>3. pc'[w].at = "flush" /\ pc'[w].request = r /\ pc'[w].outcome = o
  BY <1>1, PlacesAre
<1>4. Busy(w)'
  BY <1>3 DEF Busy, Idle
<1>5. Lives'
  <2>1. pc'[w].at \in {"nodes", "edges"} <=> rows'.owner = w
    BY <1>3 DEF Inv, Lives
  <2>2. QED
    BY <1>1, <1>3, <1>4, <2>1, LivesGoOn
<1>6. ASSUME NEW q \in Request, NEW s \in Decided, Settled(q, s)
      PROVE  Settled(q, s)'
  <2>1. \A v \in Worker : pc[v].at \in Flushing => pc'[v] = pc[v]
    BY <1>2 DEF Flushing
  <2>2. QED
    BY <1>6, <2>1 DEF Settled
<1>7. Decisions'
  <2>1. \A s \in Decided : episodes'[r] = s => Settled(r, s)'
    BY <1>1, <1>3 DEF Settled, Flushing
  <2>2. \A q \in Request \ {r}, s \in Decided : episodes'[q] = s => Settled(q, s)'
    BY <1>1, <1>6 DEF Inv, Decisions
  <2>3. \A q \in Request, s \in Decided : stored'[q] = s => Settled(q, s)'
    BY <1>6 DEF Inv, Decisions
  <2>4. \A v \in Worker : pc'[v].at = "close" => pc'[v].request \in chains'
    BY <1>2, <1>3 DEF Inv, Decisions
  <2>5. QED
    BY <2>1, <2>2, <2>3, <2>4 DEF Decisions, Settled
<1>8. /\ episodes[r] \notin Final /\ stored[r] \notin Final
      /\ rows # Nobody => rows.nodes[r] \notin Final
  <2>1. /\ episodes[r] \notin Decided /\ stored[r] \notin Decided
        /\ rows # Nobody => rows.nodes[r] \notin Decided
    BY <1>1, NotYetDecided DEF Flushing
  <2>2. /\ episodes[r] # "kept" /\ stored[r] # "kept"
        /\ rows # Nobody => rows.nodes[r] # "kept"
    BY <1>1, StatesAre DEF Inv, State, Decided
  <2>3. QED
    BY <2>1, <2>2 DEF Final
<1>9. Agrees'
  <2>1. ASSUME NEW n \in Node, NEW s \in Final, episodes[n] = s
        PROVE  episodes'[n] = s
    <3>1. n # r
      BY <1>8, <2>1
    <3>2. CASE n \in Request
      BY <1>1, <2>1, <3>1, <3>2
    <3>3. CASE n = Memory
      BY <2>1, <3>3, StatesAre, <1>1 DEF Inv, Final, Decided
    <3>4. QED
      BY <3>2, <3>3 DEF Node
  <2>2. QED
    BY <2>1 DEF Inv, Agrees
<1>10. ASSUME NEW q \in Request
       PROVE  (Cause(q) => Cause(q)') /\ (Doing(q) => Doing(q)' \/ Cause(q)')
  <2>1. Cause(q) => Cause(q)'
    BY DEF Cause
  <2>2. Doing(q) => Doing(q)'
    BY <1>1, <1>2, <1>3, <1>4 DEF Doing
  <2>3. QED
    BY <2>1, <2>2
<1>11. Causes'
  <2>1. ASSUME NEW q \in Request
        PROVE  /\ Answered(q, stored[q])'
               /\ rows # Nobody => Answered(q, rows.nodes[q])'
    BY <1>10, AnswersStay DEF Inv, Causes
  <2>2. ASSUME NEW q \in Request \ {r}
        PROVE  Answered(q, episodes[q])'
    <3>1. episodes'[q] = episodes[q] /\ Answered(q, episodes[q])
      BY <1>1 DEF Inv, Causes
    <3>2. QED
      BY <1>10, <3>1 DEF Answered
  <2>3. Answered(r, episodes[r])'
    <3>1. Doing(r)'
      BY <1>1, <1>3, <1>4 DEF Doing
    <3>2. episodes'[r] = "failed" => Cause(r)'
      BY <1>1, <1>10 DEF Inv, Causes, Answered
    <3>3. QED
      BY <3>1, <3>2 DEF Answered
  <2>4. \A q \in Request : Answered(q, episodes[q])'
    BY <2>2, <2>3
  <2>5. QED
    BY <2>1, <2>4 DEF Causes
<1>12. ASSUME NEW v \in Worker, Busy(v)', pc'[v].request \notin missed'
       PROVE  CarriedBy(v)'
  <2>1. CASE v = w
    BY <1>1, <1>3, <1>12, <2>1 DEF CarriedBy, Working
  <2>2. CASE v # w
    <3>1. Busy(v) /\ pc'[v] = pc[v] /\ pc[v].request \notin missed
      BY <1>2, <1>12, <2>2
    <3>2. CarriedBy(v) /\ pc[v].request \in Request
      BY <3>1, PlaceIs DEF Inv, Carried
    <3>3. episodes'[pc[v].request] = episodes[pc[v].request]
      BY <1>1, <2>2, <3>1, <3>2, OneLifecycle DEF Inv
    <3>4. QED
      BY <3>1, <3>2, <3>3 DEF CarriedBy
  <2>3. QED
    BY <2>1, <2>2
<1>13. Carried'
  BY <1>12 DEF Carried
<1>14. RecordsTell'
  BY DEF Inv, RecordsTell
<1>15. Ghosts'
  <2>1. brain = "up"
    BY DEF Inv, Lives
  <2>2. \A q \in Request : episodes'[q] = "open" => q \in here' \cup missed'
    BY <1>1, <2>1 DEF Inv, Ghosts, NoGhosts
  <2>3. QED
    BY <2>1, <2>2 DEF Ghosts, NoGhosts
<1>16. QED
  BY <1>5, <1>7, <1>9, <1>11, <1>13, <1>14, <1>15 DEF Inv

\* Writing one Episode of a graph.
LEMMA WriteIs ==
    ASSUME Types, NEW r \in Request, NEW state \in State, Write(r, state)
    PROVE  /\ episodes' \in Graph /\ episodes'[r] = state
           /\ \A q \in Request \ {r} : episodes'[q] = episodes[q]
           /\ episodes'[Memory] = episodes[Memory]
BY EpisodesNames DEF Write, Types, Graph, Node

LEMMA OpenEpisodeKeeps == ASSUME Inv, NEW w \in Worker, OpenEpisode(w) PROVE Inv'
<1>1. PICK r \in Request : r = pc[w].request
  <2>1. pc[w].at = "open"
    BY DEF OpenEpisode, At
  <2>2. QED
    BY <2>1, PlaceIs DEF Inv
<1>2. /\ pc[w].at = "open" /\ pc' = [pc EXCEPT ![w] = Run("flush", r, "nothing")]
      /\ UNCHANGED <<brain, rows, told, stored, storedMembers, chains, crashes, cut, here>>
      /\ \/ Refused(r)
         \/ Write(r, IF episodes[r] = "absent" THEN "open" ELSE episodes[r]) /\ UNCHANGED members /\ Sound
  BY <1>1 DEF OpenEpisode, At, Goto, Store, History
<1>3. Busy(w)
  BY <1>2, PlaceIs DEF Inv
<1>4. /\ pc' = [pc EXCEPT ![w] = pc'[w]] /\ pc'[w] = Run("flush", r, "nothing")
      /\ pc' \in [Worker -> Place \cup {Idle}]
  BY <1>2, PlacesAre DEF Inv, Types, Flushing
<1>5. /\ episodes[r] \notin Decided /\ episodes[r] \in State
      /\ members # {} => episodes[Memory] = "kept"
  BY <1>1, <1>2, <1>3, NotYetDecided, StatesAre DEF Inv, Flushing, Agrees
<1>6. "nothing" \notin Decided /\ "open" \in State /\ "open" \notin Decided
  BY DEF Decided, State
<1>7. CASE Refused(r)
  <2>1. UNCHANGED <<episodes, members>> /\ missed' = missed \cup {r} /\ Fault
    BY <1>7 DEF Refused, Miss
  <2>2. Types'
    BY <1>2, <1>4, <2>1, FaultsAre DEF Inv, Types
  <2>3. QED
    BY <1>1, <1>2, <1>3, <1>4, <1>5, <2>1, <2>2, MemoryStep
<1>8. CASE /\ Write(r, IF episodes[r] = "absent" THEN "open" ELSE episodes[r])
           /\ UNCHANGED members /\ Sound
  <2>1. /\ episodes' \in Graph
        /\ episodes'[r] = (IF episodes[r] = "absent" THEN "open" ELSE episodes[r])
        /\ \A q \in Request \ {r} : episodes'[q] = episodes[q]
        /\ episodes'[Memory] = episodes[Memory]
    BY <1>5, <1>6, <1>8, WriteIs DEF Inv
  <2>2. UNCHANGED <<members, faults, missed>>
    BY <1>8 DEF Sound
  <2>3. Types'
    BY <1>2, <1>4, <2>1, <2>2 DEF Inv, Types
  <2>4. Shows(episodes'[r], "nothing") /\ episodes'[r] \notin Decided
        /\ (episodes'[r] = "failed" => episodes[r] = "failed")
    BY <1>5, <1>6, <2>1 DEF Shows
  <2>5. QED
    BY <1>1, <1>2, <1>3, <1>4, <1>5, <1>6, <2>1, <2>2, <2>3, <2>4, MemoryStep
<1>9. QED
  BY <1>2, <1>7, <1>8

LEMMA SuspendEpisodeKeeps == ASSUME Inv, NEW w \in Worker, SuspendEpisode(w) PROVE Inv'
<1>1. PICK r \in Request : r = pc[w].request
  <2>1. pc[w].at = "interpret"
    BY DEF SuspendEpisode, At
  <2>2. QED
    BY <2>1, PlaceIs DEF Inv
<1>2. /\ pc[w].at = "interpret" /\ pc' = [pc EXCEPT ![w] = Run("flush", r, "pending")]
      /\ UNCHANGED <<brain, rows, told, stored, storedMembers, chains, crashes, cut, here>>
      /\ \/ Refused(r)
         \/ Write(r, IF episodes[r] = "absent" THEN "absent" ELSE "suspended") /\ UNCHANGED members /\ Sound
  BY <1>1 DEF SuspendEpisode, At, Goto, Store, History
<1>3. Busy(w)
  BY <1>2, PlaceIs DEF Inv
<1>4. /\ pc' = [pc EXCEPT ![w] = pc'[w]] /\ pc'[w] = Run("flush", r, "pending")
      /\ pc' \in [Worker -> Place \cup {Idle}]
  BY <1>2, PlacesAre DEF Inv, Types, Flushing
<1>5. /\ episodes[r] \notin Decided /\ (members # {} => episodes[Memory] = "kept")
      /\ r \notin missed => episodes[r] # "absent"
  BY <1>1, <1>2, <1>3, NotYetDecided DEF Inv, Flushing, Agrees, Carried, CarriedBy, Working
<1>6. /\ "pending" \notin Decided /\ {"absent", "suspended"} \subseteq State
      /\ {"absent", "suspended"} \cap Decided = {}
  BY DEF Decided, State
<1>7. CASE Refused(r)
  <2>1. UNCHANGED <<episodes, members>> /\ missed' = missed \cup {r} /\ Fault
    BY <1>7 DEF Refused, Miss
  <2>2. Types'
    BY <1>2, <1>4, <2>1, FaultsAre DEF Inv, Types
  <2>3. QED
    BY <1>1, <1>2, <1>3, <1>4, <1>5, <2>1, <2>2, MemoryStep
<1>8. CASE /\ Write(r, IF episodes[r] = "absent" THEN "absent" ELSE "suspended")
           /\ UNCHANGED members /\ Sound
  <2>1. /\ episodes' \in Graph
        /\ episodes'[r] = (IF episodes[r] = "absent" THEN "absent" ELSE "suspended")
        /\ \A q \in Request \ {r} : episodes'[q] = episodes[q]
        /\ episodes'[Memory] = episodes[Memory]
    BY <1>6, <1>8, WriteIs DEF Inv
  <2>2. UNCHANGED <<members, faults, missed>>
    BY <1>8 DEF Sound
  <2>3. Types'
    BY <1>2, <1>4, <2>1, <2>2 DEF Inv, Types
  <2>4. /\ r \notin missed' => Shows(episodes'[r], "pending")
        /\ episodes'[r] \notin Decided /\ episodes'[r] # "failed"
    BY <1>5, <1>6, <2>1, <2>2 DEF Shows
  <2>5. QED
    BY <1>1, <1>2, <1>3, <1>4, <1>5, <1>6, <2>1, <2>2, <2>3, <2>4, MemoryStep
<1>9. QED
  BY <1>2, <1>7, <1>8

LEMMA CloseEpisodeKeeps == ASSUME Inv, NEW w \in Worker, CloseEpisode(w) PROVE Inv'
<1>1. PICK r \in Request, o \in Decided : r = pc[w].request /\ o = pc[w].outcome
  <2>1. pc[w].at = "close"
    BY DEF CloseEpisode, At
  <2>2. QED
    BY <2>1, PlaceIs DEF Inv
<1>2. /\ pc[w].at = "close" /\ pc' = [pc EXCEPT ![w] = [pc[w] EXCEPT !.at = "flush"]]
      /\ UNCHANGED <<brain, rows, told, stored, storedMembers, chains, crashes, cut, here>>
  BY DEF CloseEpisode, At, Goto, Store, History
<1>3. Busy(w)
  BY <1>2, PlaceIs DEF Inv
<1>4. /\ pc' = [pc EXCEPT ![w] = pc'[w]] /\ pc'[w] = Run("flush", r, o)
      /\ pc' \in [Worker -> Place \cup {Idle}]
  <2>1. pc'[w] = Run("flush", r, o)
    BY <1>1, <1>2, <1>3, MovedIs DEF Inv
  <2>2. QED
    BY <1>2, <2>1, PlacesAre DEF Inv, Types, Flushing
<1>5. /\ episodes[r] \notin Decided /\ (members # {} => episodes[Memory] = "kept")
      /\ r \in chains
  BY <1>1, <1>2, <1>3, NotYetDecided DEF Inv, Flushing, Agrees, Decisions
<1>6. o \in State /\ o # "failed" /\ o # "nothing" /\ o # "pending"
  BY DEF Decided, State
<1>7. CASE Refused(r)
  <2>1. UNCHANGED <<episodes, members>> /\ missed' = missed \cup {r} /\ Fault
    BY <1>7 DEF Refused, Miss
  <2>2. Types'
    BY <1>2, <1>4, <2>1, FaultsAre DEF Inv, Types
  <2>3. QED
    BY <1>1, <1>2, <1>3, <1>4, <1>5, <2>1, <2>2, MemoryStep
<1>8. CASE Write(r, o) /\ UNCHANGED members /\ (Fault \/ Outrun(w)) /\ Miss(r)
  <2>1. /\ episodes' \in Graph /\ episodes'[r] = o
        /\ \A q \in Request \ {r} : episodes'[q] = episodes[q]
        /\ episodes'[Memory] = episodes[Memory]
    BY <1>6, <1>8, WriteIs DEF Inv
  <2>2. UNCHANGED members /\ missed' = missed \cup {r} /\ (Fault \/ UNCHANGED faults)
    BY <1>8 DEF Miss, Outrun
  <2>3. Types'
    BY <1>2, <1>4, <2>1, <2>2, FaultsAre DEF Inv, Types
  <2>4. QED
    BY <1>1, <1>2, <1>3, <1>4, <1>5, <1>6, <2>1, <2>2, <2>3, MemoryStep
<1>9. CASE /\ episodes' = [episodes EXCEPT ![r] = o, ![Memory] = "kept"]
           /\ members' = members \cup {r} /\ Sound
  <2>1. /\ episodes' \in Graph /\ episodes'[r] = o /\ episodes'[Memory] = "kept"
        /\ \A q \in Request \ {r} : episodes'[q] = episodes[q]
    BY <1>6, <1>9, EpisodesNames DEF Inv, Types, Graph, Node
  <2>2. members' = members \cup {r} /\ UNCHANGED <<missed, faults>>
    BY <1>9 DEF Sound
  <2>3. Types'
    BY <1>2, <1>4, <2>1, <2>2 DEF Inv, Types
  <2>4. Shows(episodes'[r], o)
    BY <1>6, <2>1 DEF Shows
  <2>5. QED
    BY <1>1, <1>2, <1>3, <1>4, <1>5, <1>6, <2>1, <2>2, <2>3, <2>4, MemoryStep
<1>10. QED
  BY <1>1, <1>7, <1>8, <1>9 DEF CloseEpisode

\* A flush that goes on under the mutex leaves every lifecycle where it was.
LEMMA FlushGoesOn ==
    ASSUME Inv, NEW w \in Worker, pc[w].at \in Flushing, NEW at \in {"nodes", "edges"},
           pc' = [pc EXCEPT ![w] = [pc[w] EXCEPT !.at = at]],
           rows = Nobody \/ rows.owner = w, rows'.owner = w,
           UNCHANGED <<brain, told, episodes, members, chains, cut, here, missed>>
    PROVE  /\ Lives' /\ Ghosts' /\ pc' \in [Worker -> Place \cup {Idle}] /\ Busy(w)
           /\ pc'[w].at = at /\ pc'[w].request = pc[w].request /\ pc'[w].outcome = pc[w].outcome
           /\ \A v \in Worker \ {w} : /\ pc'[v] = pc[v] /\ (Busy(v)' <=> Busy(v))
                                      /\ pc[v].at \notin {"nodes", "edges"}
           /\ \A q \in Request, s \in Decided : Settled(q, s) => Settled(q, s)'
           /\ \A q \in Request : (Cause(q) => Cause(q)') /\ (Doing(q) => Doing(q)' \/ Cause(q)')
           /\ \A v \in Worker : pc'[v].at = "close" => pc'[v].request \in chains'
<1>1. Busy(w) /\ pc[w].request \in Request
      /\ pc[w].outcome \in Decided \cup {"nothing", "pending"}
  BY PlaceIs DEF Inv, Flushing
<1>2. pc'[w] = Run(at, pc[w].request, pc[w].outcome)
  BY <1>1, MovedIs DEF Inv
<1>3. /\ pc'[w].at = at /\ pc'[w].request = pc[w].request /\ pc'[w].outcome = pc[w].outcome
      /\ pc'[w] \in Place
  BY <1>1, <1>2, PlacesAre DEF Flushing
<1>4. /\ pc' \in [Worker -> Place \cup {Idle}] /\ pc' = [pc EXCEPT ![w] = pc'[w]]
      /\ \A v \in Worker \ {w} : pc'[v] = pc[v]
  BY <1>2, <1>3 DEF Inv, Types
<1>5. Busy(w)'
  BY <1>3 DEF Busy, Idle
<1>6. \A v \in Worker \ {w} : rows.owner # v /\ rows'.owner # v
  BY EpisodesNames DEF Nobody
<1>7. \A v \in Worker \ {w} : (Busy(v)' <=> Busy(v)) /\ pc[v].at \notin {"nodes", "edges"}
  BY <1>4, <1>6 DEF Inv, Lives, Busy
<1>8. Lives'
  BY <1>1, <1>3, <1>4, <1>6, LivesGoOn
<1>9. Ghosts'
  BY DEF Inv, Ghosts, NoGhosts
<1>10. ASSUME NEW q \in Request, NEW s \in Decided, Settled(q, s)
       PROVE  Settled(q, s)'
  <2>1. \A v \in Worker : pc[v].at \in Flushing =>
          /\ pc'[v].at \in Flushing /\ pc'[v].request = pc[v].request
          /\ pc'[v].outcome = pc[v].outcome
    BY <1>3, <1>4 DEF Flushing
  <2>2. QED
    BY <1>10, <2>1 DEF Settled
<1>11. \A q \in Request : Cause(q) => Cause(q)'
  BY DEF Cause
<1>12. \A q \in Request : Doing(q) => Doing(q)'
  BY <1>3, <1>4, <1>5, <1>7 DEF Doing
<1>13. \A v \in Worker : pc'[v].at = "close" => pc'[v].request \in chains'
  BY <1>3, <1>4 DEF Inv, Decisions
<1>14. QED
  BY <1>1, <1>3, <1>4, <1>7, <1>8, <1>9, <1>10, <1>11, <1>12, <1>13

LEMMA ReadRowsKeeps == ASSUME Inv, NEW w \in Worker, ReadRows(w) PROVE Inv'
<1>1. /\ pc[w].at = "flush" /\ rows = Nobody /\ brain = "up"
      /\ rows' = [owner |-> w, nodes |-> episodes, edges |-> members]
      /\ pc' = [pc EXCEPT ![w] = [pc[w] EXCEPT !.at = "nodes"]]
      /\ UNCHANGED <<brain, told, episodes, members, stored, storedMembers, chains, crashes, cut,
                     here, faults, missed>>
  BY DEF ReadRows, At, Goto, Local, Store, History, Sound
<1>2. /\ Lives' /\ Ghosts' /\ pc' \in [Worker -> Place \cup {Idle}] /\ Busy(w)
      /\ pc'[w].at = "nodes" /\ pc'[w].request = pc[w].request /\ pc'[w].outcome = pc[w].outcome
      /\ \A v \in Worker \ {w} : /\ pc'[v] = pc[v] /\ (Busy(v)' <=> Busy(v))
                                 /\ pc[v].at \notin {"nodes", "edges"}
      /\ \A q \in Request, s \in Decided : Settled(q, s) => Settled(q, s)'
      /\ \A q \in Request : (Cause(q) => Cause(q)') /\ (Doing(q) => Doing(q)' \/ Cause(q)')
      /\ \A v \in Worker : pc'[v].at = "close" => pc'[v].request \in chains'
  BY <1>1, FlushGoesOn DEF Flushing
<1>3. Types'
  BY <1>1, <1>2 DEF Inv, Types
<1>4. Decisions'
  BY <1>1, <1>2 DEF Inv, Decisions
<1>5. Agrees'
  BY <1>1 DEF Inv, Agrees
<1>6. Causes'
  <2>1. \A q \in Request : Answered(q, episodes[q])' /\ Answered(q, stored[q])'
    BY <1>1, <1>2, AnswersStay DEF Inv, Causes
  <2>2. QED
    BY <1>1, <2>1 DEF Causes, Answered
<1>7. ASSUME NEW v \in Worker, Busy(v)', pc'[v].request \notin missed'
      PROVE  CarriedBy(v)'
  <2>1. CASE v = w
    <3>1. CarriedBy(w)
      BY <1>1, <1>2, <1>7, <2>1 DEF Inv, Carried
    <3>2. Shows(episodes[pc[w].request], pc[w].outcome)
          /\ (pc[w].outcome \in Decided => pc[w].request \in members)
      BY <1>1, <3>1 DEF CarriedBy, Flushing
    <3>3. members # {} => episodes[Memory] = "kept"
      BY DEF Inv, Agrees
    <3>4. QED
      BY <1>1, <1>2, <2>1, <3>2, <3>3 DEF CarriedBy, Working, Shows
  <2>2. CASE v # w
    <3>1. CarriedBy(v) /\ pc'[v] = pc[v]
      BY <1>1, <1>2, <1>7, <2>2 DEF Inv, Carried
    <3>2. pc[v].at \notin {"nodes", "edges"}
      BY <1>2, <2>2
    <3>3. UNCHANGED <<episodes, members, stored>>
      BY <1>1
    <3>4. QED
      BY <3>1, <3>2, <3>3 DEF CarriedBy
  <2>3. QED
    BY <2>1, <2>2
<1>8. Carried'
  BY <1>7 DEF Carried
<1>9. RecordsTell'
  BY <1>1 DEF Inv, RecordsTell
<1>10. QED
  BY <1>2, <1>3, <1>4, <1>5, <1>6, <1>8, <1>9 DEF Inv

\* What a flush writes over what is stored.
LEMMA WriteNodesIs ==
    ASSUME Inv, NEW w \in Worker, WriteNodes(w)
    PROVE  /\ stored' \in Graph
           /\ \A n \in Node : stored'[n] = IF rows.nodes[n] # "absent" THEN rows.nodes[n] ELSE stored[n]
<1>1. rows \in [owner : Worker, nodes : Graph, edges : SUBSET Request]
  BY RowsAre DEF Inv, Lives, WriteNodes, At
<1>2. stored' = [n \in Node |-> IF n \in Present(rows.nodes) THEN rows.nodes[n] ELSE stored[n]]
  BY DEF WriteNodes
<1>3. \A n \in Node : stored'[n] = IF rows.nodes[n] # "absent" THEN rows.nodes[n] ELSE stored[n]
  BY <1>2 DEF Present
<1>4. rows.nodes \in Graph /\ stored \in Graph
  BY <1>1 DEF Inv, Types
<1>5. stored' \in [Node -> State \cup {"kept"}]
  BY <1>2, <1>4 DEF Graph
<1>6. stored'[Memory] \in {"absent", "kept"} /\ \A r \in Request : stored'[r] \in State
  BY <1>3, <1>4 DEF Graph, Node
<1>7. QED
  BY <1>3, <1>5, <1>6 DEF Graph

LEMMA WriteNodesKeeps == ASSUME Inv, NEW w \in Worker, WriteNodes(w) PROVE Inv'
<1>1. /\ pc[w].at = "nodes" /\ rows.owner = w /\ rows # Nobody /\ brain = "up"
      /\ rows \in [owner : Worker, nodes : Graph, edges : SUBSET Request]
      /\ pc' = [pc EXCEPT ![w] = [pc[w] EXCEPT !.at = "edges"]]
      /\ UNCHANGED <<brain, told, episodes, members, storedMembers, chains, crashes, cut,
                     here, faults, missed>>
  BY RowsAre DEF WriteNodes, At, Goto, Local, History, Sound, Inv, Lives
<1>2. rows' = [owner |-> w, nodes |-> episodes, edges |-> members]
  BY <1>1 DEF WriteNodes
<1>3. /\ stored' \in Graph
      /\ \A n \in Node : stored'[n] = IF rows.nodes[n] # "absent" THEN rows.nodes[n] ELSE stored[n]
  BY WriteNodesIs
<1>4. /\ Lives' /\ Ghosts' /\ pc' \in [Worker -> Place \cup {Idle}] /\ Busy(w)
      /\ pc'[w].at = "edges" /\ pc'[w].request = pc[w].request /\ pc'[w].outcome = pc[w].outcome
      /\ \A v \in Worker \ {w} : /\ pc'[v] = pc[v] /\ (Busy(v)' <=> Busy(v))
                                 /\ pc[v].at \notin {"nodes", "edges"}
      /\ \A q \in Request, s \in Decided : Settled(q, s) => Settled(q, s)'
      /\ \A q \in Request : (Cause(q) => Cause(q)') /\ (Doing(q) => Doing(q)' \/ Cause(q)')
      /\ \A v \in Worker : pc'[v].at = "close" => pc'[v].request \in chains'
  <2>1. rows'.owner = w
    BY <1>2
  <2>2. QED
    BY <1>1, <2>1, FlushGoesOn DEF Flushing
<1>5. Types'
  BY <1>1, <1>2, <1>3, <1>4 DEF Inv, Types
<1>6. /\ "absent" \notin Final
      /\ \A n \in Node : stored'[n] \in Final => episodes[n] = stored'[n]
      /\ \A n \in Node : stored[n] \in Final => stored'[n] = stored[n]
  <2>1. "absent" \notin Final
    BY DEF Final, Decided
  <2>2. QED
    BY <1>1, <1>3, <2>1 DEF Inv, Agrees
<1>7. Decisions'
  <2>1. \A q \in Request, s \in Decided : stored'[q] = s => episodes[q] = s
    BY <1>6 DEF Final, Node
  <2>2. \A q \in Request, s \in Decided : episodes[q] = s => Settled(q, s)'
    BY <1>4 DEF Inv, Decisions
  <2>3. \A q \in Request, s \in Decided : stored'[q] = s => Settled(q, s)'
    BY <2>1, <2>2
  <2>4. \A q \in Request, s \in Decided : episodes'[q] = s => Settled(q, s)'
    BY <1>1, <2>2
  <2>5. QED
    BY <1>4, <2>3, <2>4 DEF Decisions, Settled
<1>8. Agrees'
  <2>1. storedMembers # {} => stored'[Memory] = "kept"
    BY <1>6 DEF Inv, Agrees, Final, Node
  <2>2. QED
    BY <1>1, <1>2, <1>6, <2>1 DEF Inv, Agrees
<1>9. Causes'
  <2>1. \A q \in Request : Answered(q, episodes[q])' /\ Answered(q, stored[q])'
    BY <1>1, <1>3, <1>4 DEF Inv, Causes, Answered, Node
  <2>2. QED
    BY <1>1, <1>2, <2>1 DEF Causes, Answered
<1>10. ASSUME NEW v \in Worker, Busy(v)', pc'[v].request \notin missed'
       PROVE  CarriedBy(v)'
  <2>1. CASE v = w
    <3>1. CarriedBy(w) /\ pc[w].request \in Request /\ Memory \in Node
      BY <1>1, <1>4, <1>10, <2>1, PlaceIs DEF Inv, Carried, Node
    <3>2. /\ Shows(episodes[pc[w].request], pc[w].outcome)
          /\ pc[w].outcome \in Decided => pc[w].request \in members
          /\ Shows(rows.nodes[pc[w].request], pc[w].outcome)
          /\ pc[w].outcome \in Decided => rows.nodes[Memory] = "kept"
          /\ pc[w].request \in Node
      BY <1>1, <3>1 DEF CarriedBy, Flushing, Node
    <3>3. pc[w].outcome \in Decided \cup {"nothing", "pending"} /\ "absent" \notin Decided
      BY <1>1, PlaceIs DEF Inv, Flushing, Decided
    <3>4. Shows(stored'[pc[w].request], pc[w].outcome)
          /\ (pc[w].outcome \in Decided => stored'[Memory] = "kept")
      BY <1>3, <3>1, <3>2, <3>3 DEF Shows
    <3>5. QED
      BY <1>1, <1>2, <1>4, <2>1, <3>2, <3>4 DEF CarriedBy, Working, Flushing
  <2>2. CASE v # w
    <3>1. CarriedBy(v) /\ pc'[v] = pc[v] /\ pc[v].request \in Node
      BY <1>1, <1>4, <1>10, <2>2, PlaceIs DEF Inv, Carried, Node
    <3>2. pc[v].at \notin {"nodes", "edges"}
      BY <1>4, <2>2
    <3>3. stored[pc[v].request] # "absent" => stored'[pc[v].request] # "absent"
      BY <1>3, <3>1
    <3>4. QED
      BY <1>1, <3>1, <3>2, <3>3 DEF CarriedBy, Shows
  <2>3. QED
    BY <2>1, <2>2
<1>11. Carried'
  BY <1>10 DEF Carried
<1>12. RecordsTell'
  BY <1>1, <1>6 DEF Inv, RecordsTell, Final, Node
<1>13. QED
  BY <1>4, <1>5, <1>7, <1>8, <1>9, <1>11, <1>12 DEF Inv

\* A flush that is over, done or failed, gives the mutex back.
LEMMA FlushEndKeeps ==
    ASSUME Inv, NEW w \in Worker, pc[w].at \in {"nodes", "edges"}, FlushEnds(w), Types',
           missed \subseteq missed', storedMembers \subseteq storedMembers',
           storedMembers' # {} => stored[Memory] = "kept",
           pc[w].request \notin missed' =>
             /\ pc[w].at = "edges"
             /\ {r \in rows.edges : stored[r] # "absent" /\ stored[Memory] # "absent"}
                  \subseteq storedMembers'
    PROVE  Inv'
<1>1. PICK r \in Request, o \in Decided \cup {"nothing", "pending"} :
        /\ r = pc[w].request /\ o = pc[w].outcome /\ Busy(w) /\ r \notin cut
        /\ told[r] = "nothing" /\ told \in [Request -> Told] /\ pc \in [Worker -> Place \cup {Idle}]
  BY PlaceIs DEF Inv, Lives, Types, Flushing
<1>2. /\ rows' = Nobody /\ rows.owner = w
      /\ UNCHANGED <<brain, stored, chains, episodes, members, crashes, cut, here>>
      /\ o = "nothing" => pc' = [pc EXCEPT ![w] = Run("interpret", r, "nothing")] /\ told' = told
      /\ o # "nothing" => pc' = [pc EXCEPT ![w] = Idle] /\ told' = [told EXCEPT ![r] = o]
  BY <1>1 DEF FlushEnds, Local, History, Goto, Inv, Lives
<1>3. /\ pc' = [pc EXCEPT ![w] = pc'[w]]
      /\ \A v \in Worker \ {w} : pc'[v] = pc[v] /\ (Busy(v)' <=> Busy(v))
      /\ o = "nothing" => pc'[w] = Run("interpret", r, "nothing")
      /\ o # "nothing" => pc'[w] = Idle
      /\ \A q \in Request \ {r} : told'[q] = told[q]
      /\ o # "nothing" => told'[r] = o
  BY <1>1, <1>2 DEF Busy
<1>4. /\ o = "nothing" => pc'[w].at = "interpret" /\ pc'[w].request = r /\ Busy(w)'
      /\ o # "nothing" => pc'[w].at = "idle" /\ ~Busy(w)'
      /\ "nothing" \notin Decided
  BY <1>3, PlacesAre DEF Busy, Idle, Decided
<1>5. \A v \in Worker \ {w} : pc[v].at \notin {"nodes", "edges"} /\ rows.owner # v /\ rows'.owner # v
  BY <1>2, EpisodesNames DEF Inv, Lives, Nobody
<1>6. Lives'
  <2>1. pc'[w].at \notin {"nodes", "edges"} /\ rows'.owner # w
    BY <1>2, <1>4, EpisodesNames DEF Nobody
  <2>2. QED
    BY <1>1, <1>2, <1>3, <1>4, <1>5, <2>1, LivesGoOn
<1>7. ASSUME NEW q \in Request, NEW s \in Decided, Settled(q, s)
      PROVE  Settled(q, s)'
  <2>1. CASE \E v \in Worker : pc[v].at \in Flushing /\ pc[v].request = q /\ pc[v].outcome = s
    <3>1. PICK v \in Worker : pc[v].at \in Flushing /\ pc[v].request = q /\ pc[v].outcome = s
      BY <2>1
    <3>2. CASE v = w
      BY <1>1, <1>2, <1>3, <1>4, <1>7, <3>1, <3>2 DEF Settled
    <3>3. CASE v # w
      BY <1>2, <1>3, <1>7, <3>1, <3>3 DEF Settled
    <3>4. QED
      BY <3>2, <3>3
  <2>2. CASE q \in cut \/ told[q] = s
    BY <1>1, <1>2, <1>3, <1>4, <1>7, <2>2 DEF Settled
  <2>3. QED
    BY <1>7, <2>1, <2>2 DEF Settled
<1>8. Decisions'
  <2>1. \A v \in Worker : pc'[v].at = "close" => pc'[v].request \in chains'
    BY <1>2, <1>3, <1>4 DEF Inv, Decisions
  <2>2. QED
    BY <1>2, <1>7, <2>1 DEF Inv, Decisions
<1>9. Agrees'
  BY <1>2 DEF Inv, Agrees
<1>10. r \notin missed' =>
         /\ pc[w].at = "edges"
         /\ Shows(episodes[r], o) /\ Shows(stored[r], o)
         /\ o \in Decided => stored[Memory] = "kept" /\ r \in rows.edges
  BY <1>1 DEF Inv, Carried, CarriedBy, Flushing
<1>11. \A q \in Request : Cause(q) => Cause(q)'
  BY <1>1, <1>2, <1>3 DEF Cause
<1>12. ASSUME NEW q \in Request, NEW s, Answered(q, s), q = r => s = episodes[r] \/ s = stored[r]
       PROVE  (s = "failed" => Cause(q)') /\ (s = "open" => Cause(q)' \/ Doing(q)')
  <2>1. s = "failed" => Cause(q)'
    BY <1>11, <1>12 DEF Answered
  <2>2. ASSUME s = "open", Doing(q)
        PROVE  Cause(q)' \/ Doing(q)'
    <3>1. CASE q # r
      BY <1>1, <1>3, <2>2, <3>1 DEF Doing
    <3>2. CASE q = r /\ o = "nothing"
      BY <1>4, <3>2 DEF Doing
    <3>3. CASE q = r /\ o # "nothing"
      <4>1. ~Shows("open", o)
        BY <1>1, <3>3 DEF Shows, Decided
      <4>2. r \in missed'
        BY <1>10, <1>12, <2>2, <3>3, <4>1
      <4>3. QED
        BY <3>3, <4>2 DEF Cause
    <3>4. QED
      BY <3>1, <3>2, <3>3
  <2>3. QED
    BY <1>11, <1>12, <2>1, <2>2 DEF Answered
<1>13. Causes'
  <2>1. ASSUME NEW q \in Request
        PROVE  /\ episodes'[q] = "failed" => Cause(q)'
               /\ episodes'[q] = "open" => Cause(q)' \/ Doing(q)'
               /\ stored'[q] = "failed" => Cause(q)'
               /\ stored'[q] = "open" => Cause(q)' \/ Doing(q)'
    <3>1. Answered(q, episodes[q]) /\ Answered(q, stored[q])
      BY DEF Inv, Causes
    <3>2. QED
      BY <1>2, <1>12, <3>1
  <2>2. QED
    BY <1>2, <2>1 DEF Causes, Answered
<1>14. ASSUME NEW v \in Worker, Busy(v)', pc'[v].request \notin missed'
       PROVE  CarriedBy(v)'
  <2>1. CASE v = w
    <3>1. o = "nothing" /\ pc'[v].at = "interpret" /\ pc'[v].request = r
      BY <1>4, <1>14, <2>1
    <3>2. episodes[r] # "absent" /\ stored[r] # "absent"
      BY <1>10, <1>14, <3>1 DEF Shows
    <3>3. QED
      BY <1>2, <3>1, <3>2 DEF CarriedBy, Flushing
  <2>2. CASE v # w
    <3>1. CarriedBy(v) /\ pc'[v] = pc[v]
      BY <1>3, <1>14, <2>2 DEF Inv, Carried
    <3>2. pc[v].at \notin {"nodes", "edges"}
      BY <1>5, <2>2
    <3>3. QED
      BY <1>2, <3>1, <3>2 DEF CarriedBy
  <2>3. QED
    BY <2>1, <2>2
<1>15. Carried'
  BY <1>14 DEF Carried
<1>16. RecordsTell'
  <2>1. ASSUME NEW q \in Request, told'[q] \in Decided, q \notin missed'
        PROVE  stored'[q] = told'[q] /\ q \in storedMembers'
    <3>1. CASE q # r
      BY <1>2, <1>3, <2>1, <3>1 DEF Inv, RecordsTell
    <3>2. CASE q = r /\ o = "nothing"
      BY <1>1, <1>2, <1>4, <2>1, <3>2
    <3>3. CASE q = r /\ o # "nothing"
      <4>1. told'[r] = o /\ o \in Decided
        BY <1>3, <2>1, <3>3
      <4>2. stored[r] = o /\ stored[Memory] = "kept" /\ r \in rows.edges
        BY <1>10, <2>1, <3>3, <4>1 DEF Shows
      <4>3. o # "absent"
        BY <4>1 DEF Decided
      <4>4. r \in storedMembers'
        BY <1>1, <2>1, <3>3, <4>2, <4>3
      <4>5. QED
        BY <1>2, <3>3, <4>1, <4>2, <4>4
    <3>4. QED
      BY <3>1, <3>2, <3>3
  <2>2. QED
    BY <2>1 DEF RecordsTell
<1>17. Ghosts'
  BY <1>2 DEF Inv, Ghosts, NoGhosts
<1>18. QED
  BY <1>6, <1>8, <1>9, <1>13, <1>15, <1>16, <1>17 DEF Inv

\* The types of what a finished flush leaves.
LEMMA FlushEndTypes ==
    ASSUME Inv, NEW w \in Worker, pc[w].at \in {"nodes", "edges"}, FlushEnds(w),
           storedMembers' \subseteq Request, missed' \subseteq missed \cup {pc[w].request},
           Fault \/ UNCHANGED faults
    PROVE  Types'
<1>1. /\ pc[w].request \in Request
      /\ pc[w].outcome \in Decided \cup {"nothing", "pending"}
  BY PlaceIs DEF Inv, Flushing, Busy, Idle
<1>2. pc' \in [Worker -> Place \cup {Idle}] /\ told' \in [Request -> Told]
  BY <1>1, PlacesAre DEF FlushEnds, Goto, Inv, Types, Told
<1>3. /\ rows' = Nobody
      /\ UNCHANGED <<brain, stored, chains, episodes, members, crashes, cut, here>>
  BY DEF FlushEnds, Local, History
<1>4. QED
  BY <1>1, <1>2, <1>3, FaultsAre DEF Inv, Types

LEMMA WriteEdgesKeeps == ASSUME Inv, NEW w \in Worker, WriteEdges(w) PROVE Inv'
<1>1. /\ pc[w].at = "edges" /\ FlushEnds(w) /\ UNCHANGED <<faults, missed>>
      /\ storedMembers' = storedMembers \cup {r \in rows.edges : {r, Memory} \subseteq Present(stored)}
  BY DEF WriteEdges, At, Sound
<1>2. rows.edges \subseteq Request /\ storedMembers \subseteq Request /\ stored[Memory] \in {"absent", "kept"}
  <2>1. rows \in [owner : Worker, nodes : Graph, edges : SUBSET Request]
    BY <1>1, RowsAre DEF Inv, Lives
  <2>2. QED
    BY <2>1 DEF Inv, Types, Graph
<1>3. {r \in rows.edges : {r, Memory} \subseteq Present(stored)} =
        {r \in rows.edges : stored[r] # "absent" /\ stored[Memory] # "absent"}
  BY <1>2 DEF Present, Node
<1>4. Types'
  BY <1>1, <1>2, FlushEndTypes DEF Inv
<1>5. storedMembers' # {} => stored[Memory] = "kept"
  BY <1>1, <1>2, <1>3 DEF Inv, Agrees
<1>6. QED
  BY <1>1, <1>3, <1>4, <1>5, FlushEndKeeps

LEMMA FlushFailsKeeps == ASSUME Inv, NEW w \in Worker, FlushFails(w) PROVE Inv'
<1>1. /\ pc[w].at \in {"nodes", "edges"} /\ FlushEnds(w) /\ (Fault \/ UNCHANGED faults)
      /\ missed' = missed \cup {pc[w].request} /\ storedMembers' = storedMembers
  BY DEF FlushFails, Miss, Inv, Lives
<1>2. Types'
  BY <1>1, FlushEndTypes DEF Inv, Types
<1>3. storedMembers' # {} => stored[Memory] = "kept"
  BY <1>1 DEF Inv, Agrees
<1>4. QED
  BY <1>1, <1>2, <1>3, FlushEndKeeps

------------------------------------------------------------------------------
LEMMA CrashKeeps == ASSUME Inv, Crash PROVE Inv'
<1> DEFINE Cut == {pc[w].request : w \in {v \in Worker : pc[v] # Idle}}
<1>1. /\ crashes < MaxCrashes /\ crashes' = crashes + 1 /\ brain' = "down"
      /\ cut' = cut \cup Cut /\ pc' = [w \in Worker |-> Idle] /\ rows' = Nobody
      /\ episodes' = [n \in Node |-> "absent"] /\ members' = {} /\ here' = {}
      /\ UNCHANGED <<told, stored, storedMembers, chains, faults, missed>>
  BY DEF Crash, Store, Sound
<1>2. \A r \in Cut : r \in Request /\ told[r] = "nothing"
  BY PlaceIs DEF Inv, Lives, Busy
<1>3. \A r : Doing(r) => r \in Cut
  BY DEF Doing, Busy
<1>4. /\ episodes' \in Graph /\ \A n \in Node : episodes'[n] = "absent"
      /\ \A w \in Worker : pc'[w] = Idle
  BY <1>1 DEF Graph, Node, State
<1>5. Types'
  <2>1. crashes' \in 0 .. MaxCrashes
    BY <1>1, EpisodesBounds DEF Inv, Types
  <2>2. cut' \subseteq Request
    BY <1>1, <1>2 DEF Inv, Types
  <2>3. QED
    BY <1>1, <1>4, <2>1, <2>2 DEF Inv, Types
<1>6. Lives'
  BY <1>1, <1>2, <1>4, EpisodesNames DEF Inv, Lives, Busy, Idle, Nobody
<1>7. Decisions'
  <2>1. ASSUME NEW q \in Request, NEW s \in Decided, Settled(q, s)
        PROVE  Settled(q, s)'
    <3>1. CASE \E v \in Worker : pc[v].at \in Flushing /\ pc[v].request = q /\ pc[v].outcome = s
      <4>1. q \in Cut
        BY <3>1 DEF Flushing, Idle
      <4>2. QED
        BY <1>1, <2>1, <4>1 DEF Settled
    <3>2. CASE q \in cut \/ told[q] = s
      BY <1>1, <2>1, <3>2 DEF Settled
    <3>3. QED
      BY <2>1, <3>1, <3>2 DEF Settled
  <2>2. \A q \in Request : episodes'[q] \notin Decided
    BY <1>4 DEF Decided, Node
  <2>3. \A w \in Worker : pc'[w].at # "close"
    BY <1>4 DEF Idle
  <2>4. QED
    BY <1>1, <2>1, <2>2, <2>3 DEF Inv, Decisions
<1>8. Agrees'
  BY <1>1 DEF Inv, Agrees
<1>9. Causes'
  <2>1. \A q \in Request : (Cause(q) => Cause(q)') /\ (Doing(q) => Cause(q)')
    BY <1>1, <1>3 DEF Cause
  <2>2. \A q \in Request : Answered(q, stored[q])'
    BY <1>1, <2>1, AnswersStay DEF Inv, Causes
  <2>3. \A q \in Request : Answered(q, episodes[q])'
    BY <1>4 DEF Answered, Node
  <2>4. QED
    BY <1>1, <2>2, <2>3 DEF Causes
<1>10. Carried' /\ RecordsTell'
  BY <1>1, <1>4 DEF Inv, Carried, Busy, RecordsTell
<1>11. Ghosts'
  BY <1>1 DEF Ghosts, NoGhosts
<1>12. QED
  BY <1>5, <1>6, <1>7, <1>8, <1>9, <1>10, <1>11 DEF Inv

\* No lifecycle runs in a brain that is not up.
LEMMA NobodyWorks ==
    ASSUME Inv, brain # "up"
    PROVE  /\ \A w \in Worker : pc[w] = Idle
           /\ \A r : ~Doing(r)
           /\ rows = Nobody
           /\ \A r, s : Settled(r, s) => r \in chains /\ (r \in cut \/ told[r] = s)
<1>1. \A w \in Worker : pc[w] = Idle
  BY DEF Inv, Lives, Busy
<1>2. \A w \in Worker : rows.owner # w
  BY <1>1 DEF Inv, Lives, Idle
<1>3. QED
  BY <1>1, <1>2, RowsAre DEF Inv, Doing, Busy, Settled, Flushing, Idle

\* A step of a boot: nobody works before it or after it.
LEMMA BootStep ==
    ASSUME Inv, brain # "up", UNCHANGED <<pc, rows, told, cut, chains, storedMembers>>, Types',
           missed \subseteq missed', Agrees', Ghosts',
           \A q \in Request, s \in Decided :
             s \in {episodes'[q], stored'[q]} => s \in {episodes[q], stored[q]},
           \A q \in Request :
             {episodes'[q], stored'[q]} \cap {"open", "failed"} # {} =>
               {episodes[q], stored[q]} \cap {"open", "failed"} # {},
           \A q \in Request : stored[q] \in Decided => stored'[q] = stored[q]
    PROVE  Inv'
<1>1. /\ \A w \in Worker : pc[w] = Idle
      /\ \A r : ~Doing(r)
      /\ rows = Nobody
      /\ \A r, s : Settled(r, s) => r \in chains /\ (r \in cut \/ told[r] = s)
  BY NobodyWorks
<1>2. Lives'
  BY <1>1 DEF Inv, Lives, Busy
<1>3. Decisions'
  <2>1. ASSUME NEW q \in Request, NEW s \in Decided, s \in {episodes[q], stored[q]}
        PROVE  Settled(q, s)'
    <3>1. Settled(q, s)
      BY <2>1 DEF Inv, Decisions
    <3>2. QED
      BY <1>1, <3>1 DEF Settled
  <2>2. \A q \in Request, s \in Decided : s \in {episodes'[q], stored'[q]} => Settled(q, s)'
    BY <2>1
  <2>3. \A w \in Worker : pc'[w].at # "close"
    BY <1>1 DEF Idle
  <2>4. QED
    BY <2>2, <2>3 DEF Decisions, Settled
<1>4. Causes'
  <2>1. \A q \in Request : {episodes[q], stored[q]} \cap {"open", "failed"} # {} => Cause(q)
    BY <1>1 DEF Inv, Causes, Answered
  <2>2. \A q \in Request : Cause(q) => Cause(q)'
    BY DEF Cause
  <2>3. \A q \in Request : {episodes'[q], stored'[q]} \cap {"open", "failed"} # {} => Cause(q)'
    BY <2>1, <2>2
  <2>4. QED
    BY <1>1, <2>3 DEF Causes, Answered
<1>5. Carried' /\ RecordsTell'
  BY <1>1 DEF Inv, Carried, Busy, RecordsTell
<1>6. QED
  BY <1>2, <1>3, <1>4, <1>5 DEF Inv

LEMMA BootKeeps == ASSUME Inv, Boot PROVE Inv'
<1>1. /\ brain = "down" /\ brain' = "booting"
      /\ episodes' = stored /\ members' = storedMembers
      /\ UNCHANGED <<pc, rows, told, stored, storedMembers, chains, crashes, cut, here, faults, missed>>
  BY DEF Boot, Store, History, Sound
<1>2. Types'
  BY <1>1 DEF Inv, Types
<1>3. rows = Nobody
  BY <1>1, NobodyWorks
<1>4. Agrees'
  BY <1>1, <1>3 DEF Inv, Agrees
<1>5. Ghosts'
  BY <1>1 DEF Inv, Ghosts, NoGhosts
<1>6. QED
  BY <1>1, <1>2, <1>4, <1>5, BootStep

LEMMA RecoverKeeps == ASSUME Inv, NEW r \in Request, Recover(r) PROVE Inv'
<1>1. /\ brain = "booting" /\ episodes[r] = "open" /\ here' = here \cup {r}
      /\ UNCHANGED <<brain, pc, rows, told, crashes, cut, stored, storedMembers, chains>>
      /\ Refused(r) \/ (Write(r, "failed") /\ UNCHANGED members /\ Sound)
  BY DEF Recover, Store
<1>2. rows = Nobody /\ "open" \notin Final /\ "failed" \in State /\ "failed" \notin Decided
      /\ r # Memory /\ stored[r] \notin Final
  <2>1. "open" \notin Final
    BY DEF Final, Decided
  <2>2. stored[r] \notin Final
    BY <1>1, <2>1 DEF Inv, Agrees, Node
  <2>3. QED
    BY <1>1, <2>1, <2>2, NobodyWorks, EpisodesNames DEF State, Decided
<1>3. CASE Refused(r)
  <2>1. UNCHANGED <<episodes, members>> /\ missed' = missed \cup {r} /\ Fault
    BY <1>3 DEF Refused, Miss
  <2>2. Types'
    BY <1>1, <2>1, FaultsAre DEF Inv, Types
  <2>3. Agrees'
    BY <1>1, <1>2, <2>1 DEF Inv, Agrees
  <2>4. Ghosts'
    BY <1>1, <2>1 DEF Inv, Ghosts, NoGhosts
  <2>5. QED
    BY <1>1, <2>1, <2>2, <2>3, <2>4, BootStep
<1>4. CASE Write(r, "failed") /\ UNCHANGED members /\ Sound
  <2>1. /\ episodes' \in Graph /\ episodes'[r] = "failed"
        /\ \A q \in Request \ {r} : episodes'[q] = episodes[q]
        /\ episodes'[Memory] = episodes[Memory]
        /\ UNCHANGED <<members, faults, missed>>
    BY <1>2, <1>4, WriteIs DEF Inv, Sound
  <2>2. Types'
    BY <1>1, <2>1 DEF Inv, Types
  <2>3. Agrees'
    <3>1. \A n \in Node \ {r} : episodes'[n] = episodes[n]
      BY <2>1 DEF Node
    <3>2. QED
      BY <1>1, <1>2, <2>1, <3>1 DEF Inv, Agrees
  <2>4. Ghosts'
    <3>1. \A q \in here' : episodes'[q] = "open" => q \in missed'
      <4>1. r \notin {q \in here' : episodes'[q] = "open"}
        BY <2>1
      <4>2. here \subseteq Request
        BY DEF Inv, Types
      <4>3. QED
        BY <1>1, <2>1, <4>1, <4>2 DEF Inv, Ghosts
    <3>2. QED
      BY <1>1, <3>1 DEF Ghosts, NoGhosts
  <2>5. \A q \in Request, s \in Decided :
          s \in {episodes'[q], stored'[q]} => s \in {episodes[q], stored[q]}
    BY <1>1, <1>2, <2>1
  <2>6. \A q \in Request :
          {episodes'[q], stored'[q]} \cap {"open", "failed"} # {} =>
            {episodes[q], stored[q]} \cap {"open", "failed"} # {}
    <3>1. \A q \in Request \ {r} : {episodes'[q], stored'[q]} = {episodes[q], stored[q]}
      BY <1>1, <2>1
    <3>2. {episodes[r], stored[r]} \cap {"open", "failed"} # {}
      BY <1>1
    <3>3. QED
      BY <3>1, <3>2
  <2>7. QED
    BY <1>1, <2>1, <2>2, <2>3, <2>4, <2>5, <2>6, BootStep
<1>5. QED
  BY <1>1, <1>3, <1>4

LEMMA FinishBootKeeps == ASSUME Inv, FinishBoot PROVE Inv'
<1>1. /\ brain = "booting" /\ \A r \in Request : episodes[r] = "open" => r \in here
      /\ brain' = "up" /\ here' = {} /\ (Fault \/ UNCHANGED faults) /\ missed' = missed
      /\ stored' = episodes \/ stored' = stored
      /\ UNCHANGED <<storedMembers, chains, pc, rows, told, crashes, cut, episodes, members>>
  BY DEF FinishBoot, Local, Sound
<1>2. Types'
  BY <1>1, FaultsAre DEF Inv, Types
<1>3. rows = Nobody
  BY <1>1, NobodyWorks
<1>4. \A n \in Node : stored[n] \in Final => episodes[n] = stored[n] /\ stored'[n] = stored[n]
  BY <1>1 DEF Inv, Agrees
<1>5. Agrees'
  <2>1. storedMembers' # {} => stored'[Memory] = "kept"
    BY <1>1, <1>4 DEF Inv, Agrees, Final, Node
  <2>2. QED
    BY <1>1, <1>3, <1>4, <2>1 DEF Inv, Agrees
<1>6. Ghosts'
  BY <1>1 DEF Inv, Ghosts, NoGhosts
<1>7. \A q \in Request : stored[q] \in Decided => stored'[q] = stored[q]
  BY <1>4 DEF Final, Node
<1>8. QED
  BY <1>1, <1>2, <1>5, <1>6, <1>7, BootStep

------------------------------------------------------------------------------
LEMMA InitHolds == Init => Inv
<1> SUFFICES ASSUME Init
             PROVE  Inv
  OBVIOUS
<1>1. /\ brain = "down" /\ episodes = [n \in Node |-> "absent"] /\ stored = episodes
      /\ members = {} /\ storedMembers = {} /\ chains = {} /\ pc = [w \in Worker |-> Idle]
      /\ rows = Nobody /\ told = [r \in Request |-> "nothing"] /\ faults = 0 /\ crashes = 0
      /\ missed = {} /\ cut = {} /\ here = {}
  BY DEF Init
<1>2. /\ episodes \in Graph /\ \A n \in Node : episodes[n] = "absent" /\ stored[n] = "absent"
      /\ \A w \in Worker : pc[w] = Idle
  BY <1>1 DEF Graph, Node, State
<1>3. Types
  <2>1. told \in [Request -> Told]
    BY <1>1 DEF Told
  <2>2. faults \in 0 .. MaxFaults /\ crashes \in 0 .. MaxCrashes
    BY <1>1, EpisodesBounds
  <2>3. QED
    BY <1>1, <1>2, <2>1, <2>2 DEF Types
<1>4. Lives
  BY <1>1, <1>2, EpisodesNames DEF Lives, Busy, Idle, Nobody
<1>5. Decisions /\ Causes
  BY <1>2 , <1>1 DEF Decisions, Causes, Answered, Decided, Node, Idle
<1>6. Agrees
  BY <1>1 DEF Agrees
<1>7. Carried /\ RecordsTell /\ Ghosts
  BY <1>1, <1>2 DEF Carried, Busy, RecordsTell, Decided, Ghosts, NoGhosts
<1>8. QED
  BY <1>3, <1>4, <1>5, <1>6, <1>7 DEF Inv

LEMMA StutterHolds == Inv /\ UNCHANGED vars => Inv'
<1> SUFFICES ASSUME Inv, UNCHANGED vars
             PROVE  Inv'
  OBVIOUS
<1>1. UNCHANGED <<brain, episodes, members, stored, storedMembers, chains, pc, rows, told, faults,
                 crashes, missed, cut, here>>
  BY DEF vars
<1>2. Types' /\ Lives' /\ Agrees'
  BY <1>1 DEF Inv, Types, Lives, Busy, Agrees
<1>3. Decisions' /\ Causes'
  BY <1>1 DEF Inv, Decisions, Settled, Causes, Answered, Cause, Doing, Busy
<1>4. Carried' /\ RecordsTell' /\ Ghosts'
  BY <1>1 DEF Inv, Carried, CarriedBy, Busy, RecordsTell, Ghosts, NoGhosts
<1>5. QED
  BY <1>2, <1>3, <1>4 DEF Inv

\* The three views of an Episode agree, every lifecycle has carried its own so far,
\* and an open or failed one has its cause (orchestrator.py, run_lifecycle).
THEOREM EpisodesInvariant == Spec => []Inv
<1>1. Inv /\ [Next]_vars => Inv'
  <2> SUFFICES ASSUME Inv, [Next]_vars
               PROVE  Inv'
    OBVIOUS
  <2>1. CASE \E w \in Worker : Lifecycle(w)
    <3>1. PICK w \in Worker : Lifecycle(w)
      BY <2>1
    <3>2. CASE \E r \in Request : Submit(w, r)
      BY <3>2, SubmitKeeps
    <3>3. CASE OpenEpisode(w) \/ SuspendEpisode(w) \/ CloseEpisode(w)
      BY <3>3, OpenEpisodeKeeps, SuspendEpisodeKeeps, CloseEpisodeKeeps
    <3>4. CASE Plan(w) \/ PersistChain(w) \/ \E answer \in Status : Decide(w, answer)
      BY <3>4, PlanKeeps, PersistChainKeeps, DecideKeeps
    <3>5. CASE PhaseRaises(w)
      BY <3>5, RaiseKeeps DEF PhaseRaises, Sound
    <3>6. CASE ReadRows(w) \/ WriteNodes(w) \/ WriteEdges(w) \/ FlushFails(w)
      BY <3>6, ReadRowsKeeps, WriteNodesKeeps, WriteEdgesKeeps, FlushFailsKeeps
    <3>7. QED
      BY <3>1, <3>2, <3>3, <3>4, <3>5, <3>6 DEF Lifecycle
  <2>2. CASE Crash \/ Boot \/ FinishBoot \/ \E r \in Request : Recover(r)
    BY <2>2, CrashKeeps, BootKeeps, FinishBootKeeps, RecoverKeeps
  <2>3. CASE UNCHANGED vars
    BY <2>3, StutterHolds
  <2>4. QED
    BY <2>1, <2>2, <2>3 DEF Next
<1>2. QED
  BY <1>1, InitHolds, PTL DEF Spec

\* The store never lies about a request, over any number of crashes: its Episode is
\* there while it works, and what it was told is there (orchestrator.py, consolidate.py).
THEOREM EpisodesStoreIsSound == Spec => []StoreIsSound
<1>1. Inv => StoreIsSound
  <2> SUFFICES ASSUME Inv
               PROVE  StoreIsSound
    OBVIOUS
  <2>1. \A w \in Worker : pc[w] # Idle =>
          pc[w] \in [at : {"open", "close"} \cup Working \cup Flushing,
                    request : Request, outcome : Told \ {"raised"}]
    <3>1. ASSUME NEW p \in Place
          PROVE  p \in [at : {"open", "close"} \cup Working \cup Flushing,
                        request : Request, outcome : Told \ {"raised"}]
      BY DEF Place, Working, Flushing, Told, Decided
    <3>2. QED
      BY <3>1, PlaceIs DEF Inv, Busy
  <2>2. \A g \in {episodes, stored} : DOMAIN g = Node /\ \A r \in Request : g[r] \in State
    BY DEF Inv, Types, Graph
  <2>3. TypeOK
    BY <2>1, <2>2 DEF TypeOK, Inv, Types, Lives, Agrees, Busy
  <2>4. Bookmarked
    BY DEF Bookmarked, Inv, Carried, CarriedBy, Busy
  <2>5. RootsAreThere
    BY DEF RootsAreThere, Inv, Decisions, Settled
  <2>6. QED
    BY <2>3, <2>4, <2>5 DEF Inv, StoreIsSound
<1>2. QED
  BY <1>1, EpisodesInvariant, PTL

\* A recovery fails what a crash or a failure left open and nothing else, and no
\* ghost stays open in a brain that is up (crash_recovery.py).
THEOREM EpisodesRecoveryIsExact == Spec => []RecoveryIsExact
<1>1. Inv => RecoveryIsExact
  BY DEF Inv, Causes, Answered, Cause, Ghosts, RecoveryIsExact, FailedHasCause
<1>2. QED
  BY <1>1, EpisodesInvariant, PTL

\* No flush and no scan replaces a decision that is stored (graph_repository.py,
\* crash_recovery.py).
THEOREM EpisodesDecidedIsFinal == Spec => DecidedIsFinal
<1>1. Inv /\ [Next]_vars =>
        [\A r \in Request : stored[r] \in Decided => stored'[r] = stored[r]]_vars
  <2> SUFFICES ASSUME Inv, Next, NEW r \in Request, stored[r] \in Decided
               PROVE  stored'[r] = stored[r]
    OBVIOUS
  <2>1. CASE \E w \in Worker : WriteNodes(w)
    <3>1. PICK w \in Worker : WriteNodes(w)
      BY <2>1
    <3>2. rows # Nobody
      BY <3>1, RowsAre DEF WriteNodes, At, Inv, Lives
    <3>3. rows.nodes[r] = stored[r] /\ r \in Node
      BY <3>2 DEF Inv, Agrees, Final, Node
    <3>4. QED
      BY <3>1, <3>3, WriteNodesIs
  <2>2. CASE FinishBoot
    <3>1. episodes[r] = stored[r]
      BY <2>2 DEF FinishBoot, Inv, Agrees, Final, Node
    <3>2. QED
      BY <2>2, <3>1 DEF FinishBoot
  <2>3. CASE \E w \in Worker : Lifecycle(w) /\ ~WriteNodes(w)
    BY <2>3 DEF Lifecycle, Submit, OpenEpisode, SuspendEpisode, Plan, Decide, PhaseRaises, Raise,
           PersistChain, CloseEpisode, ReadRows, WriteEdges, FlushFails, FlushEnds, Store
  <2>4. CASE Crash \/ Boot \/ \E q \in Request : Recover(q)
    BY <2>4 DEF Crash, Boot, Recover, Store
  <2>5. QED
    BY <2>1, <2>2, <2>3, <2>4 DEF Next
<1>2. QED
  BY <1>1, EpisodesInvariant, PTL DEF Spec, DecidedIsFinal

-----------------------------------------------------------------------------
\* A set of naturals that is not empty has a least element.
LEMMA LeastNumber ==
    ASSUME NEW S, \A s \in S : s \in Nat, S # {}
    PROVE  \E x \in S : \A y \in S : x <= y
<1> DEFINE R == OpToRel(<, Nat)
<1>1. IsWellFoundedOn(R, Nat)
  BY NatLessThanWellFounded, Zenon
<1>2. \A x, y \in Nat : y < x => <<y, x>> \in R
  BY DEF OpToRel
<1> HIDE DEF R
<1>3. S \subseteq Nat
  OBVIOUS
<1>4. PICK x \in S : \A y \in S : ~(<<y, x>> \in R)
  BY <1>1, <1>3, WFMin
<1>5. \A y \in S : ~(y < x)
  BY <1>2, <1>4
<1>6. ASSUME NEW y \in S
      PROVE  x <= y
  <2>1. x \in Nat /\ y \in Nat /\ ~(y < x)
    BY <1>5
  <2>2. QED
    BY <2>1
<1>7. QED
  BY <1>6

\* What holds of 0, and of each number if of the one before, holds up to a bound.
LEMMA UpTo ==
    ASSUME NEW n \in Nat, NEW S, 0 \in S,
           \A i \in 0 .. n : i \in S /\ i + 1 <= n => i + 1 \in S
    PROVE  \A i \in 0 .. n : i \in S
<1> DEFINE T == {i \in 0 .. n : i \notin S}
<1>1. SUFFICES ASSUME T # {} PROVE FALSE
  OBVIOUS
<1>2. \A i \in T : i \in Nat
  OBVIOUS
<1>3. PICK x \in T : \A y \in T : x <= y
  BY <1>1, <1>2, LeastNumber
<1>4. x # 0 /\ x \in 0 .. n /\ x \notin S
  BY <1>3
<1>5. x - 1 \in 0 .. n /\ x - 1 \notin T
  BY <1>3, <1>4
<1>6. x - 1 \in S /\ (x - 1) + 1 = x /\ x <= n
  BY <1>4, <1>5
<1>7. QED
  BY <1>4, <1>5, <1>6

-----------------------------------------------------------------------------
\* How many of the first members completed.
Count(mask, i) == Cardinality({j \in 1 .. i : mask[j]})

\* Of no members none completed.
LEMMA CountOfNone == ASSUME NEW mask PROVE Count(mask, 0) = 0
<1>1. {j \in 1 .. 0 : mask[j]} = {}
  OBVIOUS
<1>2. QED
  BY <1>1, FS_EmptySet DEF Count

\* One member more: one more if it completed.
LEMMA CountNext ==
    ASSUME NEW n \in Nat, NEW mask, NEW i \in 1 .. n
    PROVE  /\ Count(mask, i - 1) \in Nat
           /\ Count(mask, i) = IF mask[i] THEN Count(mask, i - 1) + 1 ELSE Count(mask, i - 1)
<1> DEFINE S == {j \in 1 .. i - 1 : mask[j]}
<1>1. IsFiniteSet(S)
  <2>1. IsFiniteSet(1 .. i - 1)
    BY FS_Interval
  <2>2. S \in SUBSET (1 .. i - 1)
    OBVIOUS
  <2>3. QED
    BY <2>1, <2>2, FS_Subset
<1>2. i \notin S
  OBVIOUS
<1>3. {j \in 1 .. i : mask[j]} = IF mask[i] THEN S \cup {i} ELSE S
  <2>1. 1 .. i = (1 .. i - 1) \cup {i}
    OBVIOUS
  <2>2. QED
    BY <2>1
<1>4. Cardinality(S) \in Nat
  BY <1>1, FS_CardinalityType
<1>5. Cardinality(S \cup {i}) = Cardinality(S) + 1
  BY <1>1, <1>2, FS_AddElement
<1>6. QED
  BY <1>3, <1>4, <1>5 DEF Count

\* The count is a number.
LEMMA CountIsNat ==
    ASSUME NEW mask, NEW i \in Nat PROVE Count(mask, i) \in Nat
<1>1. i + 1 \in 1 .. i + 1 /\ (i + 1) - 1 = i
  OBVIOUS
<1>2. QED
  BY <1>1, CountNext

\* Between two members there are those of them that completed.
LEMMA CountGrows ==
    ASSUME NEW n \in Nat, NEW mask, NEW i \in 0 .. n, NEW j \in 0 .. n, i <= j
    PROVE  Count(mask, i) <= Count(mask, j)
<1> DEFINE S == {k \in 0 .. n : i + k <= n => Count(mask, i) <= Count(mask, i + k)}
<1>1. 0 \in S
  BY CountIsNat
<1>2. ASSUME NEW k \in 0 .. n, k \in S, k + 1 <= n
      PROVE  k + 1 \in S
  <2>1. SUFFICES ASSUME i + (k + 1) <= n PROVE Count(mask, i) <= Count(mask, i + (k + 1))
    BY <1>2
  <2>2. i + k <= n /\ i + (k + 1) \in 1 .. n /\ (i + (k + 1)) - 1 = i + k /\ i + k \in Nat
    BY <2>1
  <2>3. Count(mask, i) <= Count(mask, i + k)
    BY <1>2, <2>2
  <2>4. Count(mask, i + (k + 1)) >= Count(mask, i + k)
    BY <2>2, CountNext
  <2>5. Count(mask, i) \in Nat /\ Count(mask, i + k) \in Nat /\ Count(mask, i + (k + 1)) \in Nat
    BY <2>2, CountIsNat
  <2>6. QED
    BY <2>3, <2>4, <2>5
<1>3. j - i \in 0 .. n /\ i + (j - i) = j
  OBVIOUS
<1> HIDE DEF S
<1>4. \A k \in 0 .. n : k \in S
  BY <1>1, <1>2, UpTo
<1>5. QED
  BY <1>3, <1>4 DEF S

\* Two masks count alike as far as they agree.
LEMMA CountAgrees ==
    ASSUME NEW i \in Nat, NEW mask, NEW new, \A j \in 1 .. i : new[j] = mask[j]
    PROVE  Count(new, i) = Count(mask, i)
<1>1. {j \in 1 .. i : new[j]} = {j \in 1 .. i : mask[j]}
  OBVIOUS
<1>2. QED
  BY <1>1 DEF Count

\* The place of the value of a member is the count up to it.
LEMMA MemberPlaceIs ==
    ASSUME NEW mask \in Seq(BOOLEAN), NEW i \in 0 .. Len(mask)
    PROVE  Completed(SubSeq(mask, 1, i)) = Count(mask, i)
<1> DEFINE s == SubSeq(mask, 1, i)
<1>1. DOMAIN s = 1 .. i /\ \A j \in 1 .. i : s[j] = mask[j]
  OBVIOUS
<1> HIDE DEF s
<1>2. {j \in DOMAIN s : s[j]} = {j \in 1 .. i : mask[j]}
  BY <1>1
<1>3. QED
  BY <1>2 DEF Completed, Count, s

\* The members that completed, by their count.
LEMMA CompletedIs ==
    ASSUME NEW mask \in Seq(BOOLEAN) PROVE Completed(mask) = Count(mask, Len(mask))
<1>1. DOMAIN mask = 1 .. Len(mask)
  OBVIOUS
<1>2. QED
  BY <1>1 DEF Completed, Count

-----------------------------------------------------------------------------
\* FlattenSeq puts one sequence after the other.
LEMMA FlattenIs ==
    ASSUME NEW R, NEW s \in Seq(Seq(R))
    PROVE  \E g : /\ g[0] = <<>> /\ \A i \in 0 .. Len(s) : g[i] \in Seq(R)
                  /\ \A i \in 1 .. Len(s) : g[i] = g[i - 1] \o s[i]
                  /\ FlattenSeq(s) = g[Len(s)]
<1> DEFINE n == Len(s)
           Flat(f, k) == f = [i \in 1 .. k |-> IF i = 1 THEN s[i] ELSE f[i - 1] \o s[i]]
           S == {k \in 0 .. n : \E f : Flat(f, k)}
<1>1. n \in Nat /\ \A i \in 1 .. n : s[i] \in Seq(R)
  OBVIOUS
<1>2. \A k \in 0 .. n : k \in S
  <2>1. 0 \in S
    <3>1. Flat(<<>>, 0)
      OBVIOUS
    <3> HIDE DEF Flat
    <3>2. \E f : Flat(f, 0)
      BY <3>1
    <3>3. 0 \in 0 .. n
      BY <1>1
    <3>4. QED
      BY <3>2, <3>3
  <2>2. ASSUME NEW k \in 0 .. n, k \in S, k + 1 <= n
        PROVE  k + 1 \in S
    <3>1. PICK f : Flat(f, k)
      BY <2>2
    <3> DEFINE h == [i \in 1 .. k + 1 |-> IF i <= k THEN f[i]
                                          ELSE IF i = 1 THEN s[i] ELSE f[i - 1] \o s[i]]
    <3>2. ASSUME NEW i \in 1 .. k + 1
          PROVE  h[i] = IF i = 1 THEN s[i] ELSE h[i - 1] \o s[i]
      <4>1. CASE i <= k
        <5>0. i \in 1 .. k
          BY <4>1
        <5>1. f[i] = IF i = 1 THEN s[i] ELSE f[i - 1] \o s[i]
          BY <3>1, <5>0, Zenon
        <5>2. i # 1 => h[i - 1] = f[i - 1]
          BY <4>1
        <5>3. QED
          BY <4>1, <5>0, <5>1, <5>2
      <4>2. CASE i = k + 1
        <5>1. i # 1 => h[i - 1] = f[i - 1]
          BY <4>2
        <5>2. h[i] = IF i = 1 THEN s[i] ELSE f[i - 1] \o s[i]
          BY <4>2
        <5>3. QED
          BY <5>1, <5>2
      <4>3. QED
        BY <4>1, <4>2
    <3>3. Flat(h, k + 1)
      <4>1. DOMAIN h = 1 .. k + 1 /\ h = [i \in 1 .. k + 1 |-> h[i]]
        OBVIOUS
      <4> HIDE DEF h
      <4>2. QED
        BY <3>2, <4>1
    <3> HIDE DEF h, Flat
    <3>4. QED
      BY <3>3, <2>2, <1>1
  <2> HIDE DEF S
  <2>3. QED
    BY <2>1, <2>2, <1>1, UpTo
<1> DEFINE F == CHOOSE f : Flat(f, n)
           g == [i \in 0 .. n |-> IF i = 0 THEN <<>> ELSE F[i]]
<1>3. Flat(F, n)
  <2>0. n \in 0 .. n
    BY <1>1
  <2>1. n \in S
    BY <2>0, <1>2, Zenon
  <2>2. \E f : Flat(f, n)
    BY <2>1
  <2> HIDE DEF Flat
  <2>3. QED
    BY <2>2
<1>4. FlattenSeq(s) = IF n = 0 THEN s ELSE F[n]
  BY DEF FlattenSeq
<1> HIDE DEF F
<1>5. g[0] = <<>>
  BY <1>1
<1>6. ASSUME NEW i \in 1 .. n
      PROVE  g[i] = g[i - 1] \o s[i]
  <2>1. F[i] = IF i = 1 THEN s[i] ELSE F[i - 1] \o s[i]
    BY <1>3
  <2>2. g[i] = F[i] /\ (i # 1 => g[i - 1] = F[i - 1]) /\ (i = 1 => g[i - 1] = <<>>)
    BY <1>1
  <2>3. s[i] \in Seq(R)
    BY <1>1
  <2>4. <<>> \o s[i] = s[i]
    BY <2>3
  <2>5. QED
    BY <2>1, <2>2, <2>4
<1>7. FlattenSeq(s) = g[n]
  <2>1. CASE n = 0
    <3>1. s = <<>>
      BY <2>1
    <3>2. QED
      BY <3>1, <2>1, <1>4, <1>5
  <2>2. CASE n # 0
    BY <1>1, <1>4, <2>2
  <2>3. QED
    BY <2>1, <2>2
<1> HIDE DEF g
<1> DEFINE G == {i \in 0 .. n : g[i] \in Seq(R)}
<1>8. 0 \in G
  <2>1. 0 \in 0 .. n /\ g[0] \in Seq(R)
    BY <1>1, <1>5
  <2>2. QED
    BY <2>1, Zenon
<1>9. ASSUME NEW i \in 0 .. n, i \in G, i + 1 <= n
      PROVE  i + 1 \in G
  <2>0. i + 1 \in 1 .. n /\ (i + 1) - 1 = i /\ i + 1 \in 0 .. n
    BY <1>1, <1>9
  <2>1. g[i + 1] = g[i] \o s[i + 1]
    BY <1>6, <2>0
  <2>2. s[i + 1] \in Seq(R) /\ g[i] \in Seq(R)
    BY <1>1, <1>9, <2>0
  <2>3. g[i + 1] \in Seq(R)
    BY <2>1, <2>2
  <2>4. QED
    BY <2>0, <2>3, Zenon
<1> HIDE DEF G
<1>10. \A i \in 0 .. n : i \in G
  BY <1>1, <1>8, <1>9, UpTo
<1>11. \A i \in 0 .. n : g[i] \in Seq(R)
  BY <1>10 DEF G
<1>12. QED
  BY <1>5, <1>6, <1>7, <1>11

\* It has all that the sequences have, and nothing else.
LEMMA FlattenHas ==
    ASSUME NEW R, NEW s \in Seq(Seq(R))
    PROVE  /\ FlattenSeq(s) \in Seq(R)
           /\ \A i \in 1 .. Len(s) : Range(s[i]) \subseteq Range(FlattenSeq(s))
<1>1. PICK g : /\ g[0] = <<>> /\ \A i \in 0 .. Len(s) : g[i] \in Seq(R)
               /\ \A i \in 1 .. Len(s) : g[i] = g[i - 1] \o s[i]
               /\ FlattenSeq(s) = g[Len(s)]
  BY FlattenIs
<1>2. Len(s) \in Nat
  OBVIOUS
<1>3. \A a, b \in Seq(R) : Range(a) \subseteq Range(a \o b) /\ Range(b) \subseteq Range(a \o b)
  <2>1. SUFFICES ASSUME NEW a \in Seq(R), NEW b \in Seq(R)
                 PROVE  Range(a) \subseteq Range(a \o b) /\ Range(b) \subseteq Range(a \o b)
    OBVIOUS
  <2>2. \A i \in 1 .. Len(a) : (a \o b)[i] = a[i] /\ i \in 1 .. Len(a \o b)
    OBVIOUS
  <2>3. \A i \in 1 .. Len(b) : (a \o b)[Len(a) + i] = b[i] /\ Len(a) + i \in 1 .. Len(a \o b)
    OBVIOUS
  <2>4. DOMAIN a = 1 .. Len(a) /\ DOMAIN b = 1 .. Len(b) /\ DOMAIN (a \o b) = 1 .. Len(a \o b)
    OBVIOUS
  <2>5. QED
    BY <2>2, <2>3, <2>4 DEF Range
<1>4. ASSUME NEW i \in 1 .. Len(s)
      PROVE  Range(s[i]) \subseteq Range(g[Len(s)])
  <2> DEFINE S == {k \in 0 .. Len(s) : i <= k => Range(s[i]) \subseteq Range(g[k])}
  <2>1. 0 \in S
    BY <1>2
  <2>2. ASSUME NEW k \in 0 .. Len(s), k \in S, k + 1 <= Len(s)
        PROVE  k + 1 \in S
    <3>1. k + 1 \in 1 .. Len(s) /\ (k + 1) - 1 = k
      BY <1>2, <2>2
    <3>0. g[k + 1] = g[k] \o s[k + 1]
      BY <1>1, <3>1
    <3>2. g[k + 1] = g[k] \o s[k + 1] /\ g[k] \in Seq(R) /\ s[k + 1] \in Seq(R)
      BY <1>1, <3>0, <3>1
    <3>3. Range(g[k]) \subseteq Range(g[k + 1]) /\ Range(s[k + 1]) \subseteq Range(g[k + 1])
      BY <1>3, <3>2
    <3>4. i <= k \/ i > k
      BY <1>2
    <3>5. CASE i <= k
      BY <2>2, <3>1, <3>3, <3>5
    <3>6. CASE i > k
      <4>1. i <= k + 1 => i = k + 1
        BY <3>6, <1>2
      <4>2. QED
        BY <3>1, <3>3, <4>1
    <3>7. QED
      BY <3>4, <3>5, <3>6
  <2> HIDE DEF S
  <2>3. \A k \in 0 .. Len(s) : k \in S
    BY <1>2, <2>1, <2>2, UpTo
  <2>4. Len(s) \in 0 .. Len(s) /\ i <= Len(s)
    BY <1>2
  <2>5. QED
    BY <2>3, <2>4 DEF S
<1>5. QED
  BY <1>1, <1>2, <1>4

-----------------------------------------------------------------------------
\* What the blackboard says of where a value came from.
Said(R) == [kind : {"produced", "interpreted", "unrecorded"}, by : Seq(R)]

\* The values of the members that completed, and the graphs, the marks and the
\* origins of all members are in step.  R has the runs behind the values, G
\* the graphs; one: each member is the work of one run.
InStep(items, ids, mask, origins, one, G, R) ==
  /\ items \in Seq(Seq(R)) /\ ids \in Seq(Reference) /\ mask \in Seq(BOOLEAN)
  /\ origins \in Seq(Said(R) \cup {Nothing})
  /\ Len(ids) = Len(mask) /\ Len(origins) = Len(mask)
  /\ Len(items) = Count(mask, Len(mask))
  /\ \A i \in 1 .. Len(mask) :
       /\ mask[i] <=> origins[i] # Nothing
       /\ ids[i] \in G \cup {NoRun}
       /\ mask[i] => /\ one => items[Count(mask, i)] = <<ids[i]>>
                     /\ origins[i].kind = "produced" => items[Count(mask, i)] = origins[i].by

\* A map that begins is in step.
LEMMA InStepNone ==
    ASSUME NEW one, NEW G, NEW R
    PROVE  InStep(<<>>, <<>>, <<>>, <<>>, one, G, R)
<1>1. Len(<<>>) = 0 /\ 1 .. 0 = {}
  OBVIOUS
<1>2. <<>> \in Seq(Seq(R)) /\ <<>> \in Seq(Reference) /\ <<>> \in Seq(BOOLEAN)
      /\ <<>> \in Seq(Said(R) \cup {Nothing})
  OBVIOUS
<1>3. Count(<<>>, 0) = 0
  BY CountOfNone
<1>4. QED
  BY <1>1, <1>2, <1>3 DEF InStep

\* More graphs, and more runs, do not matter.
LEMMA InStepMore ==
    ASSUME NEW items, NEW ids, NEW mask, NEW origins, NEW one, NEW G, NEW H, NEW R, NEW Q,
           InStep(items, ids, mask, origins, one, G, R), G \subseteq H, R \subseteq Q
    PROVE  InStep(items, ids, mask, origins, one, H, Q)
<1>1. items \in Seq(Seq(Q))
  <2>1. Seq(R) \subseteq Seq(Q)
    OBVIOUS
  <2>2. QED
    BY <2>1 DEF InStep
<1>2. origins \in Seq(Said(Q) \cup {Nothing})
  <2>1. Seq(R) \subseteq Seq(Q)
    OBVIOUS
  <2>2. Said(R) \cup {Nothing} \subseteq Said(Q) \cup {Nothing}
    BY <2>1 DEF Said
  <2>3. QED
    BY <2>2 DEF InStep
<1>3. QED
  BY <1>1, <1>2 DEF InStep

\* Nor does it, to know less of the members.
LEMMA InStepLess ==
    ASSUME NEW items, NEW ids, NEW mask, NEW origins, NEW one, NEW two, NEW G, NEW R,
           InStep(items, ids, mask, origins, one, G, R), two => one
    PROVE  InStep(items, ids, mask, origins, two, G, R)
BY DEF InStep

\* A member that completed has an origin.
LEMMA SaidIsSomething ==
    ASSUME NEW R, NEW said \in Said(R) PROVE said # Nothing
BY DEF Said, Nothing, Origin, Nowhere

\* A member that completed is put at the end.
LEMMA InStepCompletes ==
    ASSUME NEW items, NEW ids, NEW mask, NEW origins, NEW one, NEW G, NEW R,
           InStep(items, ids, mask, origins, one, G, R),
           NEW by \in Seq(R), NEW said \in Said(R), NEW id \in Reference,
           id \in G \cup {NoRun}, one => by = <<id>>, said.kind = "produced" => said.by = by
    PROVE  InStep(Append(items, by), Append(ids, id), Append(mask, TRUE),
                  Append(origins, said), one, G, R)
<1> DEFINE n == Len(mask)
           mask2 == Append(mask, TRUE)
           ids2 == Append(ids, id)
           origins2 == Append(origins, said)
           items2 == Append(items, by)
<1>1. items \in Seq(Seq(R)) /\ ids \in Seq(Reference) /\ mask \in Seq(BOOLEAN)
      /\ origins \in Seq(Said(R) \cup {Nothing})
      /\ Len(ids) = n /\ Len(origins) = n /\ Len(items) = Count(mask, n) /\ n \in Nat
  BY DEF InStep
<1>2. items2 \in Seq(Seq(R)) /\ ids2 \in Seq(Reference) /\ mask2 \in Seq(BOOLEAN)
      /\ origins2 \in Seq(Said(R) \cup {Nothing})
  BY <1>1
<1>3. Len(mask2) = n + 1 /\ Len(ids2) = n + 1 /\ Len(origins2) = n + 1
      /\ Len(items2) = Count(mask, n) + 1
  BY <1>1
<1>4. \A i \in 1 .. n : mask2[i] = mask[i] /\ ids2[i] = ids[i] /\ origins2[i] = origins[i]
  BY <1>1
<1>5. mask2[n + 1] = TRUE /\ ids2[n + 1] = id /\ origins2[n + 1] = said
  BY <1>1
<1>6. \A i \in 1 .. Len(items) : items2[i] = items[i]
  BY <1>1
<1>7. items2[Len(items) + 1] = by
  BY <1>1
<1> HIDE DEF mask2, ids2, origins2, items2
<1>8. \A i \in 0 .. n : Count(mask2, i) = Count(mask, i)
  <2>1. SUFFICES ASSUME NEW i \in 0 .. n PROVE Count(mask2, i) = Count(mask, i)
    OBVIOUS
  <2>2. i \in Nat /\ \A j \in 1 .. i : mask2[j] = mask[j]
    BY <1>1, <1>4
  <2>3. QED
    BY <2>2, CountAgrees
<1>9. Count(mask2, n + 1) = Count(mask, n) + 1
  <2>1. n + 1 \in 1 .. n + 1 /\ (n + 1) - 1 = n
    BY <1>1
  <2>2. QED
    <3>1. n + 1 \in Nat /\ n \in 0 .. n
      BY <1>1
    <3>2. Count(mask2, n + 1) = Count(mask2, (n + 1) - 1) + 1
      BY <1>5, <2>1, <3>1, CountNext
    <3>3. QED
      BY <1>8, <2>1, <3>1, <3>2
<1>10. ASSUME NEW i \in 1 .. n + 1
       PROVE  /\ mask2[i] <=> origins2[i] # Nothing
              /\ ids2[i] \in G \cup {NoRun}
              /\ mask2[i] => /\ one => items2[Count(mask2, i)] = <<ids2[i]>>
                             /\ origins2[i].kind = "produced" => items2[Count(mask2, i)] = origins2[i].by
  <2>1. CASE i = n + 1
    BY <1>1, <1>5, <1>7, <1>9, <2>1, SaidIsSomething
  <2>2. CASE i \in 1 .. n
    <3>1. mask[i] => Count(mask, i) \in 1 .. Len(items)
      <4>1. SUFFICES ASSUME mask[i] PROVE Count(mask, i) \in 1 .. Len(items)
        OBVIOUS
      <4>2. Count(mask, i) = Count(mask, i - 1) + 1 /\ Count(mask, i - 1) \in Nat
        BY <4>1, <2>2, <1>1, CountNext
      <4>3. Count(mask, i) <= Count(mask, n)
        <5>1. i \in 0 .. n /\ n \in 0 .. n /\ i <= n
          BY <2>2, <1>1
        <5>2. QED
          BY <5>1, <1>1, CountGrows
      <4>4. Count(mask, n) \in Nat
        BY <1>1, CountIsNat
      <4>5. QED
        BY <1>1, <4>2, <4>3, <4>4
    <3>2. mask2[i] = mask[i] /\ ids2[i] = ids[i] /\ origins2[i] = origins[i]
          /\ Count(mask2, i) = Count(mask, i)
      BY <1>1, <1>4, <1>8, <2>2
    <3>3. mask[i] => items2[Count(mask, i)] = items[Count(mask, i)]
      BY <1>6, <3>1
    <3>4. QED
      BY <2>2, <3>2, <3>3 DEF InStep
  <2>3. QED
    BY <1>1, <2>1, <2>2
<1>11. InStep(items2, ids2, mask2, origins2, one, G, R)
  BY <1>2, <1>3, <1>9, <1>10 DEF InStep
<1>12. QED
  BY <1>11 DEF mask2, ids2, origins2, items2

\* A member that stopped has no value, and its place in the rest.
LEMMA InStepStops ==
    ASSUME NEW items, NEW ids, NEW mask, NEW origins, NEW one, NEW G, NEW R,
           InStep(items, ids, mask, origins, one, G, R),
           NEW id \in Reference, id \in G \cup {NoRun}
    PROVE  InStep(items, Append(ids, id), Append(mask, FALSE),
                  Append(origins, Nothing), one, G, R)
<1> DEFINE n == Len(mask)
           mask2 == Append(mask, FALSE)
           ids2 == Append(ids, id)
           origins2 == Append(origins, Nothing)
<1>1. items \in Seq(Seq(R)) /\ ids \in Seq(Reference) /\ mask \in Seq(BOOLEAN)
      /\ origins \in Seq(Said(R) \cup {Nothing})
      /\ Len(ids) = n /\ Len(origins) = n /\ Len(items) = Count(mask, n) /\ n \in Nat
  BY DEF InStep
<1>2. ids2 \in Seq(Reference) /\ mask2 \in Seq(BOOLEAN) /\ origins2 \in Seq(Said(R) \cup {Nothing})
  BY <1>1
<1> DEFINE N == Nothing
<1> HIDE DEF N
<1>0. N \in Said(R) \cup {Nothing} /\ origins2 = Append(origins, N)
  BY DEF N
<1>3. Len(mask2) = n + 1 /\ Len(ids2) = n + 1 /\ Len(origins2) = n + 1
  BY <1>0, <1>1
<1>4. \A i \in 1 .. n : mask2[i] = mask[i] /\ ids2[i] = ids[i] /\ origins2[i] = origins[i]
  BY <1>1
<1>5. mask2[n + 1] = FALSE /\ ids2[n + 1] = id /\ origins2[n + 1] = Nothing
  <2>1. origins2[n + 1] = N
    <3>1. Len(origins) = n /\ origins \in Seq(Said(R) \cup {Nothing})
      BY <1>1
    <3> HIDE DEF n, origins2
    <3>2. Append(origins, N)[Len(origins) + 1] = N
      BY <3>1
    <3>3. QED
      BY <1>0, <3>1, <3>2
  <2>2. QED
    BY <1>1, <2>1 DEF N
<1> HIDE DEF mask2, ids2, origins2
<1>6. \A i \in 0 .. n : Count(mask2, i) = Count(mask, i)
  <2>1. SUFFICES ASSUME NEW i \in 0 .. n PROVE Count(mask2, i) = Count(mask, i)
    OBVIOUS
  <2>2. i \in Nat /\ \A j \in 1 .. i : mask2[j] = mask[j]
    BY <1>1, <1>4
  <2>3. QED
    BY <2>2, CountAgrees
<1>7. Count(mask2, n + 1) = Count(mask, n)
  <2>1. n + 1 \in 1 .. n + 1 /\ (n + 1) - 1 = n
    BY <1>1
  <2>2. QED
    BY <1>1, <1>5, <1>6, <2>1, CountNext
<1>8. ASSUME NEW i \in 1 .. n + 1
      PROVE  /\ mask2[i] <=> origins2[i] # Nothing
             /\ ids2[i] \in G \cup {NoRun}
             /\ mask2[i] => /\ one => items[Count(mask2, i)] = <<ids2[i]>>
                            /\ origins2[i].kind = "produced" => items[Count(mask2, i)] = origins2[i].by
  <2>1. CASE i = n + 1
    BY <1>5, <2>1
  <2>2. CASE i \in 1 .. n
    <3>1. mask2[i] = mask[i] /\ ids2[i] = ids[i] /\ origins2[i] = origins[i]
          /\ Count(mask2, i) = Count(mask, i)
      BY <1>1, <1>4, <1>6, <2>2
    <3>2. QED
      BY <2>2, <3>1 DEF InStep
  <2>3. QED
    BY <1>1, <2>1, <2>2
<1>9. InStep(items, ids2, mask2, origins2, one, G, R)
  BY <1>1, <1>2, <1>3, <1>7, <1>8 DEF InStep
<1>10. QED
  BY <1>9 DEF mask2, ids2, origins2

-----------------------------------------------------------------------------
\* InsertAt and RemoveAt move what comes after the place.
LEMMA InsertIs ==
    ASSUME NEW S, NEW s \in Seq(S), NEW c \in 0 .. Len(s), NEW e \in S
    PROVE  LET t == InsertAt(s, c + 1, e)
           IN  /\ t \in Seq(S) /\ Len(t) = Len(s) + 1 /\ t[c + 1] = e
               /\ \A p \in 1 .. c : t[p] = s[p]
               /\ \A p \in c + 1 .. Len(s) : t[p + 1] = s[p]
<1> DEFINE a == SubSeq(s, 1, c)
           b == SubSeq(s, c + 1, Len(s))
           t == (a \o <<e>>) \o b
<1>1. Len(s) \in Nat /\ c \in Nat /\ c <= Len(s)
  OBVIOUS
<1>2. a \in Seq(S) /\ Len(a) = c /\ \A p \in 1 .. c : a[p] = s[p]
  BY <1>1
<1>3. b \in Seq(S) /\ Len(b) = Len(s) - c /\ \A p \in 1 .. Len(s) - c : b[p] = s[c + p]
  BY <1>1
<1> HIDE DEF a, b
<1>4. a \o <<e>> \in Seq(S) /\ Len(a \o <<e>>) = c + 1 /\ (a \o <<e>>)[c + 1] = e
      /\ \A p \in 1 .. c : (a \o <<e>>)[p] = a[p]
  BY <1>1, <1>2
<1> DEFINE d == a \o <<e>>
<1> HIDE DEF d
<1>5. d \in Seq(S) /\ Len(d) = c + 1 /\ d[c + 1] = e /\ \A p \in 1 .. c : d[p] = a[p]
  BY <1>4 DEF d
<1>6. d \o b \in Seq(S) /\ Len(d \o b) = Len(s) + 1
      /\ (\A p \in 1 .. c + 1 : (d \o b)[p] = d[p])
      /\ (\A p \in 1 .. Len(s) - c : (d \o b)[(c + 1) + p] = b[p])
  BY <1>1, <1>3, <1>5
<1>7. \A p \in c + 1 .. Len(s) : (d \o b)[p + 1] = s[p]
  <2>1. SUFFICES ASSUME NEW p \in c + 1 .. Len(s) PROVE (d \o b)[p + 1] = s[p]
    OBVIOUS
  <2> DEFINE q == p - c
  <2>2. q \in 1 .. Len(s) - c /\ (c + 1) + q = p + 1 /\ c + q = p
    BY <1>1
  <2> HIDE DEF q
  <2>3. (d \o b)[(c + 1) + q] = b[q] /\ b[q] = s[c + q]
    BY <2>2, <1>3, <1>6
  <2>4. QED
    BY <2>2, <2>3
<1>8. InsertAt(s, c + 1, e) = d \o b
  <2>1. (c + 1) - 1 = c
    BY <1>1
  <2>2. QED
    BY <2>1 DEF InsertAt, a, b, d
<1>9. c + 1 \in 1 .. c + 1 /\ \A p \in 1 .. c : p \in 1 .. c + 1
  BY <1>1
<1>10. QED
  <2>1. t = d \o b
    BY DEF d
  <2>2. InsertAt(s, c + 1, e) = d \o b
    BY <1>8
  <2>3. \A p \in 1 .. c : (d \o b)[p] = s[p]
    BY <1>2, <1>5, <1>6, <1>9
  <2>4. (d \o b)[c + 1] = e
    BY <1>5, <1>6, <1>9
  <2> HIDE DEF t, d
  <2>5. QED
    BY <1>6, <1>7, <1>8, <2>3, <2>4

\* A sequence without one of its entries.
LEMMA RemoveIs ==
    ASSUME NEW S, NEW s \in Seq(S), NEW c \in 0 .. Len(s) - 1
    PROVE  LET t == RemoveAt(s, c + 1)
           IN  /\ t \in Seq(S) /\ Len(t) = Len(s) - 1
               /\ \A p \in 1 .. c : t[p] = s[p]
               /\ \A p \in c + 1 .. Len(s) - 1 : t[p] = s[p + 1]
<1> DEFINE a == SubSeq(s, 1, c)
           b == SubSeq(s, c + 2, Len(s))
<1>1. Len(s) \in Nat /\ c \in Nat /\ c < Len(s)
  OBVIOUS
<1>2. a \in Seq(S) /\ Len(a) = c /\ \A p \in 1 .. c : a[p] = s[p]
  BY <1>1
<1>3. b \in Seq(S) /\ Len(b) = Len(s) - (c + 1)
      /\ \A p \in 1 .. Len(s) - (c + 1) : b[p] = s[(c + 1) + p]
  BY <1>1
<1> HIDE DEF a, b
<1>4. a \o b \in Seq(S) /\ Len(a \o b) = Len(s) - 1
      /\ (\A p \in 1 .. c : (a \o b)[p] = a[p])
      /\ (\A p \in 1 .. Len(s) - (c + 1) : (a \o b)[c + p] = b[p])
  BY <1>1, <1>2, <1>3
<1>5. \A p \in c + 1 .. Len(s) - 1 : (a \o b)[p] = s[p + 1]
  <2>1. SUFFICES ASSUME NEW p \in c + 1 .. Len(s) - 1 PROVE (a \o b)[p] = s[p + 1]
    OBVIOUS
  <2> DEFINE q == p - c
  <2>2. q \in 1 .. Len(s) - (c + 1) /\ c + q = p /\ (c + 1) + q = p + 1
    BY <1>1
  <2> HIDE DEF q
  <2>3. (a \o b)[c + q] = b[q] /\ b[q] = s[(c + 1) + q]
    BY <2>2, <1>3, <1>4
  <2>4. QED
    BY <2>2, <2>3
<1>6. RemoveAt(s, c + 1) = a \o b
  <2>1. (c + 1) - 1 = c /\ (c + 1) + 1 = c + 2
    BY <1>1
  <2>2. QED
    BY <2>1 DEF RemoveAt, a, b
<1>7. QED
  BY <1>2, <1>4, <1>5, <1>6

\* One mark changed changes the count from there on.
LEMMA CountChanged ==
    ASSUME NEW mask \in Seq(BOOLEAN), NEW i \in 1 .. Len(mask), NEW b \in BOOLEAN
    PROVE  LET new == [mask EXCEPT ![i] = b]
           IN  /\ \A j \in 0 .. i - 1 : Count(new, j) = Count(mask, j)
               /\ \A j \in i .. Len(mask) :
                    Count(new, j) + (IF mask[i] THEN 1 ELSE 0) = Count(mask, j) + (IF b THEN 1 ELSE 0)
<1> DEFINE n == Len(mask)
           new == [mask EXCEPT ![i] = b]
           was == IF mask[i] THEN 1 ELSE 0
           is == IF b THEN 1 ELSE 0
<1>1. n \in Nat /\ i \in 1 .. n /\ \A j \in 1 .. n : new[j] = IF j = i THEN b ELSE mask[j]
  OBVIOUS
<1>2. was \in {0, 1} /\ is \in {0, 1}
  OBVIOUS
<1> HIDE DEF new
<1>3. ASSUME NEW j \in 0 .. i - 1
      PROVE  Count(new, j) = Count(mask, j)
  <2>1. j \in Nat /\ \A q \in 1 .. j : new[q] = mask[q]
    BY <1>1
  <2>2. QED
    BY <2>1, CountAgrees
<1>4. Count(new, i) + was = Count(mask, i) + is
  <2>1. Count(new, i) = IF new[i] THEN Count(new, i - 1) + 1 ELSE Count(new, i - 1)
    BY <1>1, CountNext
  <2>2. Count(mask, i) = IF mask[i] THEN Count(mask, i - 1) + 1 ELSE Count(mask, i - 1)
    BY <1>1, CountNext
  <2>3. Count(new, i - 1) = Count(mask, i - 1) /\ Count(mask, i - 1) \in Nat
    BY <1>1, <1>3, CountIsNat
  <2>4. new[i] = b
    BY <1>1
  <2>5. QED
    BY <2>1, <2>2, <2>3, <2>4
<1> DEFINE S == {k \in 0 .. n : i <= k => Count(new, k) + was = Count(mask, k) + is}
<1>5. 0 \in S
  BY <1>1
<1>6. ASSUME NEW k \in 0 .. n, k \in S, k + 1 <= n
      PROVE  k + 1 \in S
  <2>1. k + 1 \in 1 .. n /\ (k + 1) - 1 = k
    BY <1>1, <1>6
  <2>2. CASE k + 1 <= i
    <3>1. i <= k + 1 => i = k + 1
      BY <2>1, <2>2, <1>1
    <3>2. QED
      BY <3>1, <2>1, <1>4
  <2>3. CASE i <= k
    <3>1. Count(new, k) + was = Count(mask, k) + is
      BY <1>6, <2>3
    <3>2. Count(new, k + 1) = IF new[k + 1] THEN Count(new, k) + 1 ELSE Count(new, k)
      BY <1>1, <2>1, CountNext
    <3>3. Count(mask, k + 1) = IF mask[k + 1] THEN Count(mask, k) + 1 ELSE Count(mask, k)
      BY <1>1, <2>1, CountNext
    <3>4. new[k + 1] = mask[k + 1]
      BY <1>1, <2>1, <2>3
    <3>5. Count(new, k) \in Nat /\ Count(mask, k) \in Nat
      BY CountIsNat
    <3>6. Count(new, k + 1) + was = Count(mask, k + 1) + is
      BY <1>2, <3>1, <3>2, <3>3, <3>4, <3>5
    <3>7. QED
      BY <3>6, <2>1
  <2>4. QED
    BY <2>2, <2>3, <1>1
<1> HIDE DEF S
<1>7. \A k \in 0 .. n : k \in S
  BY <1>1, <1>5, <1>6, UpTo
<1>8. \A j \in i .. n : Count(new, j) + was = Count(mask, j) + is
  BY <1>1, <1>7 DEF S
<1>9. QED
  BY <1>3, <1>8 DEF new

-----------------------------------------------------------------------------
\* The place of a member that completed, before, at and after the i-th.
LEMMA PlacesAround ==
    ASSUME NEW mask \in Seq(BOOLEAN), NEW i \in 1 .. Len(mask)
    PROVE  /\ Count(mask, i - 1) \in Nat /\ Count(mask, i) \in Nat
           /\ Count(mask, i) = IF mask[i] THEN Count(mask, i - 1) + 1 ELSE Count(mask, i - 1)
           /\ Count(mask, i) <= Count(mask, Len(mask)) /\ Count(mask, Len(mask)) \in Nat
           /\ \A q \in 1 .. i - 1 : mask[q] => Count(mask, q) \in 1 .. Count(mask, i - 1)
           /\ \A q \in i + 1 .. Len(mask) :
                mask[q] => Count(mask, q) \in Count(mask, i) + 1 .. Count(mask, Len(mask))
<1> DEFINE n == Len(mask)
<1>1. n \in Nat /\ i \in 1 .. n /\ i - 1 \in 0 .. n
  OBVIOUS
<1> HIDE DEF n
<1>2. /\ Count(mask, i - 1) \in Nat
      /\ Count(mask, i) = IF mask[i] THEN Count(mask, i - 1) + 1 ELSE Count(mask, i - 1)
  BY <1>1, CountNext
<1>3. Count(mask, i) \in Nat /\ Count(mask, n) \in Nat
  BY <1>1, CountIsNat
<1>4. Count(mask, i) <= Count(mask, n)
  <2>1. i \in 0 .. n /\ n \in 0 .. n /\ i <= n
    BY <1>1
  <2>2. QED
    BY <1>1, <2>1, CountGrows
<1>5. ASSUME NEW q \in 1 .. i - 1, mask[q]
      PROVE  Count(mask, q) \in 1 .. Count(mask, i - 1)
  <2>1. q \in 1 .. n /\ q \in 0 .. n /\ q <= i - 1
    BY <1>1
  <2>2. Count(mask, q - 1) \in Nat /\ Count(mask, q) = Count(mask, q - 1) + 1
    BY <1>1, <1>5, <2>1, CountNext
  <2>3. Count(mask, q) <= Count(mask, i - 1)
    BY <1>1, <2>1, CountGrows
  <2>4. QED
    BY <1>2, <2>2, <2>3
<1>6. ASSUME NEW q \in i + 1 .. n, mask[q]
      PROVE  Count(mask, q) \in Count(mask, i) + 1 .. Count(mask, n)
  <2>1. q \in 1 .. n /\ q \in 0 .. n /\ q - 1 \in 0 .. n /\ i <= q - 1 /\ q <= n /\ n \in 0 .. n
        /\ i \in 0 .. n
    BY <1>1
  <2>2. Count(mask, q - 1) \in Nat /\ Count(mask, q) = Count(mask, q - 1) + 1
    BY <1>1, <1>6, <2>1, CountNext
  <2>3. Count(mask, i) <= Count(mask, q - 1)
    BY <1>1, <2>1, CountGrows
  <2>4. Count(mask, q) <= Count(mask, n)
    BY <1>1, <2>1, CountGrows
  <2>5. QED
    BY <1>3, <2>2, <2>3, <2>4
<1>7. QED
  BY <1>2, <1>3, <1>4, <1>5, <1>6 DEF n

\* The run of one member in the place of an earlier one.
LEMMA InStepSplice ==
    ASSUME NEW items, NEW ids, NEW mask, NEW origins, NEW one, NEW G, NEW R,
           InStep(items, ids, mask, origins, one, G, R),
           NEW its, NEW is, NEW ms, NEW os, InStep(its, is, ms, os, one, G, R),
           Len(ms) = 1, NEW i \in 1 .. Len(mask)
    PROVE  LET c == Count(mask, i - 1)
               t == CASE ms[1] /\ mask[i] -> [items EXCEPT ![c + 1] = its[1]]
                      [] ms[1] /\ ~mask[i] -> InsertAt(items, c + 1, its[1])
                      [] ~ms[1] /\ mask[i] -> RemoveAt(items, c + 1)
                      [] OTHER -> items
           IN  InStep(t, [ids EXCEPT ![i] = is[1]], [mask EXCEPT ![i] = ms[1]],
                      [origins EXCEPT ![i] = os[1]], one, G, R)
<1> DEFINE n == Len(mask)
           c == Count(mask, i - 1)
           b == ms[1]
           v == its[1]
           t == CASE b /\ mask[i] -> [items EXCEPT ![c + 1] = v]
                  [] b /\ ~mask[i] -> InsertAt(items, c + 1, v)
                  [] ~b /\ mask[i] -> RemoveAt(items, c + 1)
                  [] OTHER -> items
           mask2 == [mask EXCEPT ![i] = b]
           ids2 == [ids EXCEPT ![i] = is[1]]
           origins2 == [origins EXCEPT ![i] = os[1]]
<1>1. items \in Seq(Seq(R)) /\ ids \in Seq(Reference) /\ mask \in Seq(BOOLEAN)
      /\ origins \in Seq(Said(R) \cup {Nothing})
      /\ Len(ids) = n /\ Len(origins) = n /\ Len(items) = Count(mask, n) /\ n \in Nat /\ i \in 1 .. n
  BY DEF InStep
<1>2. b \in BOOLEAN /\ is[1] \in Reference /\ os[1] \in Said(R) \cup {Nothing}
      /\ is[1] \in G \cup {NoRun} /\ (b <=> os[1] # Nothing)
  <2>1. ms \in Seq(BOOLEAN) /\ is \in Seq(Reference) /\ os \in Seq(Said(R) \cup {Nothing})
        /\ Len(is) = 1 /\ Len(os) = 1 /\ 1 \in 1 .. Len(ms)
    BY DEF InStep
  <2>2. b \in BOOLEAN /\ is[1] \in Reference /\ os[1] \in Said(R) \cup {Nothing}
    BY <2>1
  <2>3. is[1] \in G \cup {NoRun} /\ (b <=> os[1] # Nothing)
    BY <2>1 DEF InStep
  <2>4. QED
    BY <2>2, <2>3
<1>3. b => v \in Seq(R) /\ (one => v = <<is[1]>>) /\ (os[1].kind = "produced" => v = os[1].by)
  <2>1. SUFFICES ASSUME b
                 PROVE  v \in Seq(R) /\ (one => v = <<is[1]>>) /\ (os[1].kind = "produced" => v = os[1].by)
    OBVIOUS
  <2>2. Count(ms, 1) = Count(ms, 0) + 1
    <3>1. 1 \in Nat /\ 1 \in 1 .. 1 /\ 1 - 1 = 0
      OBVIOUS
    <3>2. QED
      BY <2>1, <3>1, CountNext
  <2>3. Count(ms, 1) = 1
    BY <2>2, CountOfNone
  <2>4. Len(its) = 1 /\ its \in Seq(Seq(R))
    BY <2>3 DEF InStep
  <2>5. 1 \in 1 .. Len(ms)
    OBVIOUS
  <2>6. QED
    BY <2>1, <2>3, <2>4, <2>5 DEF InStep
<1>4. mask2 \in Seq(BOOLEAN) /\ Len(mask2) = n
      /\ \A q \in 1 .. n : mask2[q] = IF q = i THEN b ELSE mask[q]
  BY <1>1, <1>2
<1>5. ids2 \in Seq(Reference) /\ Len(ids2) = n
      /\ \A q \in 1 .. n : ids2[q] = IF q = i THEN is[1] ELSE ids[q]
  BY <1>1, <1>2
<1>6. origins2 \in Seq(Said(R) \cup {Nothing}) /\ Len(origins2) = n
      /\ \A q \in 1 .. n : origins2[q] = IF q = i THEN os[1] ELSE origins[q]
  BY <1>1, <1>2
<1>7. /\ c \in Nat /\ Count(mask, i) \in Nat
      /\ Count(mask, i) = IF mask[i] THEN c + 1 ELSE c
      /\ Count(mask, i) <= Len(items) /\ Len(items) \in Nat
      /\ \A q \in 1 .. i - 1 : mask[q] => Count(mask, q) \in 1 .. c
      /\ \A q \in i + 1 .. n : mask[q] => Count(mask, q) \in Count(mask, i) + 1 .. Len(items)
  BY <1>1, PlacesAround
<1>8. /\ \A j \in 0 .. i - 1 : Count(mask2, j) = Count(mask, j)
      /\ \A j \in i .. n :
           Count(mask2, j) + (IF mask[i] THEN 1 ELSE 0) = Count(mask, j) + (IF b THEN 1 ELSE 0)
  BY <1>1, <1>2, CountChanged
<1>9. \A j \in 0 .. n : Count(mask, j) \in Nat /\ Count(mask2, j) \in Nat
  BY <1>1, CountIsNat
<1> HIDE DEF mask2, ids2, origins2, b, v, n, c
<1>10. SUFFICES
         /\ t \in Seq(Seq(R)) /\ Len(t) = Count(mask2, n)
         /\ \A q \in 1 .. i - 1 : mask[q] => t[Count(mask, q)] = items[Count(mask, q)]
         /\ \A q \in i + 1 .. n : mask[q] => t[Count(mask2, q)] = items[Count(mask, q)]
         /\ b => t[Count(mask2, i)] = v
  <2> HIDE DEF t
  <2>1. ASSUME /\ t \in Seq(Seq(R)) /\ Len(t) = Count(mask2, n)
               /\ \A q \in 1 .. i - 1 : mask[q] => t[Count(mask, q)] = items[Count(mask, q)]
               /\ \A q \in i + 1 .. n : mask[q] => t[Count(mask2, q)] = items[Count(mask, q)]
               /\ b => t[Count(mask2, i)] = v,
               NEW q \in 1 .. n
        PROVE  /\ mask2[q] <=> origins2[q] # Nothing
               /\ ids2[q] \in G \cup {NoRun}
               /\ mask2[q] => /\ one => t[Count(mask2, q)] = <<ids2[q]>>
                              /\ origins2[q].kind = "produced" => t[Count(mask2, q)] = origins2[q].by
    <3>1. CASE q = i
      BY <1>2, <1>3, <1>4, <1>5, <1>6, <2>1, <3>1
    <3>2. CASE q # i
      <4>1. mask2[q] = mask[q] /\ ids2[q] = ids[q] /\ origins2[q] = origins[q]
        BY <1>4, <1>5, <1>6, <2>1, <3>2
      <4>2. mask[q] => t[Count(mask2, q)] = items[Count(mask, q)]
        <5>1. CASE q < i
          <6>1. q \in 1 .. i - 1 /\ q \in 0 .. i - 1
            BY <1>1, <5>1
          <6>2. QED
            BY <1>8, <2>1, <6>1
        <5>2. CASE q > i
          <6>1. q \in i + 1 .. n
            BY <1>1, <5>2
          <6>2. QED
            BY <2>1, <6>1
        <5>3. QED
          BY <1>1, <3>2, <5>1, <5>2
      <4>3. /\ mask[q] <=> origins[q] # Nothing
            /\ ids[q] \in G \cup {NoRun}
            /\ mask[q] => /\ one => items[Count(mask, q)] = <<ids[q]>>
                          /\ origins[q].kind = "produced" => items[Count(mask, q)] = origins[q].by
        BY DEF InStep, n
      <4>4. QED
        BY <4>1, <4>2, <4>3
    <3>3. QED
      BY <3>1, <3>2
  <2>2. QED
    BY <1>4, <1>5, <1>6, <2>1 DEF InStep, t, mask2, ids2, origins2, b, v, n, c
<1>11. ASSUME NEW q \in i + 1 .. n, mask[q]
       PROVE  /\ Count(mask, q) \in Count(mask, i) + 1 .. Len(items)
              /\ Count(mask2, q) + (IF mask[i] THEN 1 ELSE 0) = Count(mask, q) + (IF b THEN 1 ELSE 0)
              /\ Count(mask2, q) \in Nat
  <2>1. q \in i .. n /\ q \in 0 .. n
    BY <1>1
  <2>2. QED
    BY <1>7, <1>8, <1>9, <1>11, <2>1
<1>12. /\ Count(mask2, n) + (IF mask[i] THEN 1 ELSE 0) = Len(items) + (IF b THEN 1 ELSE 0)
       /\ Count(mask2, i) + (IF mask[i] THEN 1 ELSE 0) = Count(mask, i) + (IF b THEN 1 ELSE 0)
       /\ Count(mask2, n) \in Nat /\ Count(mask2, i) \in Nat
  <2>1. n \in i .. n /\ i \in i .. n /\ n \in 0 .. n /\ i \in 0 .. n
    BY <1>1
  <2>2. Count(mask, n) = Len(items)
    BY <1>1
  <2>3. QED
    BY <1>8, <1>9, <2>1, <2>2
<1>13. CASE b /\ mask[i]
  <2>1. t = [items EXCEPT ![c + 1] = v]
    BY <1>13
  <2>2. c + 1 \in 1 .. Len(items)
    BY <1>7, <1>13
  <2>3. t \in Seq(Seq(R)) /\ Len(t) = Len(items)
        /\ \A p \in 1 .. Len(items) : t[p] = IF p = c + 1 THEN v ELSE items[p]
    BY <1>1, <1>3, <1>13, <2>1, <2>2
  <2> HIDE DEF t
  <2>4. ASSUME NEW q \in 1 .. i - 1, mask[q]
        PROVE  t[Count(mask, q)] = items[Count(mask, q)]
    <3>1. Count(mask, q) \in 1 .. c
      BY <1>7, <2>4
    <3>2. Count(mask, q) \in 1 .. Len(items) /\ Count(mask, q) # c + 1
      BY <1>7, <2>2, <3>1
    <3>3. QED
      BY <2>3, <3>2
  <2>5. ASSUME NEW q \in i + 1 .. n, mask[q]
        PROVE  t[Count(mask2, q)] = items[Count(mask, q)]
    <3>1. Count(mask2, q) = Count(mask, q) /\ Count(mask, q) \in 1 .. Len(items) /\ Count(mask, q) # c + 1
      BY <1>7, <1>11, <1>13, <2>5
    <3>2. QED
      BY <2>3, <3>1
  <2>6. Count(mask2, n) = Len(items) /\ Count(mask2, i) = c + 1
    BY <1>7, <1>12, <1>13
  <2>7. QED
    BY <2>2, <2>3, <2>4, <2>5, <2>6
<1>14. CASE b /\ ~mask[i]
  <2>1. t = InsertAt(items, c + 1, v)
    BY <1>14
  <2>2. c \in 0 .. Len(items)
    BY <1>7, <1>14
  <2>3. t \in Seq(Seq(R)) /\ Len(t) = Len(items) + 1 /\ t[c + 1] = v
        /\ (\A p \in 1 .. c : t[p] = items[p])
        /\ (\A p \in c + 1 .. Len(items) : t[p + 1] = items[p])
    <3> HIDE DEF t
    <3> DEFINE S == Seq(R)
    <3>1. v \in S /\ items \in Seq(S)
      BY <1>1, <1>3, <1>14
    <3> HIDE DEF S
    <3>2. t \in Seq(S)
      BY <2>1, <2>2, <3>1, InsertIs
    <3>3. Len(t) = Len(items) + 1
      BY <2>1, <2>2, <3>1, InsertIs
    <3>4. t[c + 1] = v
      BY <2>1, <2>2, <3>1, InsertIs
    <3>5. \A p \in 1 .. c : t[p] = items[p]
      BY <2>1, <2>2, <3>1, InsertIs
    <3>6. \A p \in c + 1 .. Len(items) : t[p + 1] = items[p]
      <4>1. \A p \in c + 1 .. Len(items) : InsertAt(items, c + 1, v)[p + 1] = items[p]
        BY <2>2, <3>1, InsertIs
      <4>2. QED
        BY <2>1, <4>1
    <3>7. QED
      BY <3>2, <3>3, <3>4, <3>5, <3>6 DEF S
  <2> HIDE DEF t
  <2>4. ASSUME NEW q \in 1 .. i - 1, mask[q]
        PROVE  t[Count(mask, q)] = items[Count(mask, q)]
    BY <1>7, <2>3, <2>4
  <2>5. ASSUME NEW q \in i + 1 .. n, mask[q]
        PROVE  t[Count(mask2, q)] = items[Count(mask, q)]
    <3>1. Count(mask2, q) = Count(mask, q) + 1 /\ Count(mask, q) \in c + 1 .. Len(items)
      BY <1>7, <1>11, <1>14, <2>5
    <3>2. QED
      BY <2>3, <3>1
  <2>6. Count(mask2, n) = Len(items) + 1 /\ Count(mask2, i) = c + 1
    BY <1>7, <1>12, <1>14
  <2>7. QED
    BY <2>2, <2>3, <2>4, <2>5, <2>6
<1>15. CASE ~b /\ mask[i]
  <2>1. t = RemoveAt(items, c + 1)
    BY <1>15
  <2>2. c \in 0 .. Len(items) - 1
    BY <1>7, <1>15
  <2>3. t \in Seq(Seq(R)) /\ Len(t) = Len(items) - 1
        /\ (\A p \in 1 .. c : t[p] = items[p])
        /\ (\A p \in c + 1 .. Len(items) - 1 : t[p] = items[p + 1])
    <3> HIDE DEF t
    <3>1. QED
      BY <1>1, <2>1, <2>2, RemoveIs
  <2> HIDE DEF t
  <2>4. ASSUME NEW q \in 1 .. i - 1, mask[q]
        PROVE  t[Count(mask, q)] = items[Count(mask, q)]
    BY <1>7, <2>3, <2>4
  <2>5. ASSUME NEW q \in i + 1 .. n, mask[q]
        PROVE  t[Count(mask2, q)] = items[Count(mask, q)]
    <3> DEFINE p == Count(mask2, q)
    <3>1. Count(mask, q) = p + 1 /\ p \in c + 1 .. Len(items) - 1
      BY <1>7, <1>11, <1>15, <2>5
    <3> HIDE DEF p
    <3>2. t[p] = items[p + 1]
      BY <2>3, <3>1
    <3>3. QED
      BY <3>1, <3>2 DEF p
  <2>6. Count(mask2, n) = Len(items) - 1
    BY <1>7, <1>12, <1>15
  <2>7. QED
    BY <1>15, <2>2, <2>3, <2>4, <2>5, <2>6
<1>16. CASE ~b /\ ~mask[i]
  <2>1. t = items
    BY <1>16
  <2> HIDE DEF t
  <2>2. ASSUME NEW q \in i + 1 .. n, mask[q]
        PROVE  t[Count(mask2, q)] = items[Count(mask, q)]
    <3>1. Count(mask2, q) = Count(mask, q)
      BY <1>7, <1>11, <1>16, <2>2
    <3>2. QED
      BY <2>1, <3>1
  <2>3. Count(mask2, n) = Len(items)
    BY <1>7, <1>12, <1>16
  <2>4. QED
    BY <1>1, <1>16, <2>1, <2>2, <2>3
<1>17. QED
  BY <1>2, <1>13, <1>14, <1>15, <1>16
\* What a collection says of itself is where its members come from.
LEMMA CollectionIsTrue ==
    ASSUME NEW items, NEW ids, NEW mask, NEW origins, NEW one, NEW G, NEW R,
           InStep(items, ids, mask, origins, one, G, R)
    PROVE  /\ CollectionOrigin(origins) \in Said(R)
           /\ FlattenSeq(items) \in Seq(R)
           /\ \/ CollectionOrigin(origins).kind = "unrecorded"
              \/ /\ CollectionOrigin(origins).kind = "produced"
                 /\ CollectionOrigin(origins).by = FlattenSeq(items)
<1> DEFINE n == Len(mask)
           bys == [i \in DOMAIN origins |-> origins[i].by]
           others == \E i \in DOMAIN origins : origins[i].kind \in {"interpreted", "unrecorded"}
<1>1. items \in Seq(Seq(R)) /\ mask \in Seq(BOOLEAN) /\ origins \in Seq(Said(R) \cup {Nothing})
      /\ Len(origins) = n /\ Len(items) = Count(mask, n) /\ n \in Nat /\ DOMAIN origins = 1 .. n
  BY DEF InStep
<1>2. \A i \in 1 .. n : origins[i] \in Said(R) \cup {Nothing}
  BY <1>1
<1>3. \A i \in 1 .. n : origins[i].by \in Seq(R)
  <2>1. <<>> \in Seq(R) /\ Nothing.by = <<>>
    BY DEF Nothing, Origin
  <2>2. QED
    BY <1>2, <2>1 DEF Said
<1>4. bys \in Seq(Seq(R)) /\ Len(bys) = n /\ \A i \in 1 .. n : bys[i] = origins[i].by
  BY <1>1, <1>3
<1>5. FlattenSeq(bys) \in Seq(R) /\ FlattenSeq(items) \in Seq(R)
  <2> HIDE DEF bys
  <2>1. QED
    BY <1>1, <1>4, FlattenHas
<1>6. CollectionOrigin(origins) = IF others THEN Unrecorded ELSE Produced(FlattenSeq(bys))
  BY DEF CollectionOrigin
<1> HIDE DEF bys, others
<1>7. <<>> \in Seq(R)
  OBVIOUS
<1>8. ASSUME ~others PROVE FlattenSeq(bys) = FlattenSeq(items)
  <2>1. PICK g : /\ g[0] = <<>> /\ \A i \in 0 .. n : g[i] \in Seq(R)
                 /\ \A i \in 1 .. n : g[i] = g[i - 1] \o bys[i]
                 /\ FlattenSeq(bys) = g[n]
    <3>1. PICK g : /\ g[0] = <<>> /\ \A i \in 0 .. Len(bys) : g[i] \in Seq(R)
                   /\ \A i \in 1 .. Len(bys) : g[i] = g[i - 1] \o bys[i]
                   /\ FlattenSeq(bys) = g[Len(bys)]
      BY <1>4, FlattenIs
    <3>2. QED
      BY <1>4, <3>1
  <2>2. PICK h : /\ h[0] = <<>> /\ \A i \in 0 .. Len(items) : h[i] \in Seq(R)
                 /\ \A i \in 1 .. Len(items) : h[i] = h[i - 1] \o items[i]
                 /\ FlattenSeq(items) = h[Len(items)]
    BY <1>1, FlattenIs
  <2> DEFINE S == {k \in 0 .. n : g[k] = h[Count(mask, k)]}
  <2>3. 0 \in S
    BY <1>1, <2>1, <2>2, CountOfNone
  <2>4. ASSUME NEW k \in 0 .. n, k \in S, k + 1 <= n
        PROVE  k + 1 \in S
    <3>1. k + 1 \in 1 .. n /\ (k + 1) - 1 = k /\ k + 1 \in 0 .. n /\ n \in 0 .. n
      <4>1. n \in Nat
        BY <1>1
      <4> HIDE DEF n, S
      <4>2. QED
        BY <4>1, <2>4
    <3>2. g[k] = h[Count(mask, k)] /\ g[k] \in Seq(R)
      BY <2>1, <2>4
    <3>3. g[k + 1] = g[k] \o bys[k + 1]
      BY <2>1, <3>1
    <3>4. Count(mask, k) \in Nat
          /\ Count(mask, k + 1) = IF mask[k + 1] THEN Count(mask, k) + 1 ELSE Count(mask, k)
      BY <1>1, <3>1, CountNext
    <3>5. mask[k + 1] <=> (origins[k + 1] # Nothing)
      BY <3>1 DEF InStep
    <3>6. CASE mask[k + 1]
      <4>1. Count(mask, k + 1) <= Len(items)
        <5> HIDE DEF n
        <5>1. Count(mask, k + 1) <= Count(mask, n)
          BY <1>1, <2>4, <3>1, CountGrows
        <5>2. QED
          BY <1>1, <5>1
      <4>2. Count(mask, k + 1) \in 1 .. Len(items) /\ Count(mask, k + 1) - 1 = Count(mask, k)
        <5>1. Len(items) \in Nat
          BY <1>1
        <5>2. QED
          BY <3>4, <3>6, <4>1, <5>1
      <4>3. h[Count(mask, k + 1)] = h[Count(mask, k)] \o items[Count(mask, k + 1)]
        <5> DEFINE c == Count(mask, k + 1)
                   c0 == Count(mask, k)
        <5>1. c \in 1 .. Len(items) /\ c - 1 = c0
          BY <4>2
        <5> HIDE DEF c, c0
        <5>2. h[c] = h[c - 1] \o items[c]
          BY <2>2, <5>1
        <5>3. h[c] = h[c0] \o items[c]
          BY <5>1, <5>2
        <5>4. QED
          BY <5>3 DEF c, c0
      <4>4. origins[k + 1].kind = "produced"
        <5>1. origins[k + 1] \in Said(R)
          BY <1>2, <3>1, <3>5, <3>6
        <5>2. origins[k + 1].kind \notin {"interpreted", "unrecorded"}
          BY <1>1, <1>8, <3>1 DEF others
        <5>3. QED
          BY <5>1, <5>2 DEF Said
      <4>5. items[Count(mask, k + 1)] = origins[k + 1].by
        BY <3>1, <3>6, <4>4 DEF InStep
      <4>6. bys[k + 1] = items[Count(mask, k + 1)]
        BY <1>4, <3>1, <4>5
      <4>7. QED
        BY <3>1, <3>2, <3>3, <4>3, <4>6
    <3>7. CASE ~mask[k + 1]
      <4>1. bys[k + 1] = <<>>
        BY <1>4, <3>1, <3>5, <3>7 DEF Nothing, Origin
      <4>2. g[k + 1] = g[k]
        BY <3>2, <3>3, <4>1
      <4>3. QED
        BY <3>1, <3>2, <3>4, <3>7, <4>2
    <3>8. QED
      BY <3>6, <3>7
  <2> HIDE DEF S
  <2>5. \A k \in 0 .. n : k \in S
    BY <1>1, <2>3, <2>4, UpTo
  <2>6. n \in 0 .. n
    BY <1>1
  <2>7. g[n] = h[Count(mask, n)]
    BY <2>5, <2>6 DEF S
  <2>8. QED
    BY <1>1, <2>1, <2>2, <2>7
<1>9. CASE others
  BY <1>5, <1>6, <1>7, <1>9 DEF Unrecorded, Origin, Said
<1>10. CASE ~others
  BY <1>5, <1>6, <1>8, <1>10 DEF Produced, Origin, Said
<1>11. QED
  BY <1>9, <1>10

-----------------------------------------------------------------------------
\* What a frame is made of.
Outcomes == {Nowhere, "completed", "failed", "stopped"}
Values(R) == [by : Seq(R), items : Seq(Seq(R)), said : Said(R), from : Seq(R), short : BOOLEAN]
Slices == Seq([run : Reference, made : SUBSET DataState, stopped : BOOLEAN])
Fans(R) == [open : BOOLEAN, size : Nat, at : Nat, retry : Nat, composed : BOOLEAN,
            items : Seq(Seq(R)), ids : Seq(Reference), mask : Seq(BOOLEAN),
            origins : Seq(Said(R) \cup {Nothing}), short : BOOLEAN]
IsFrame(f) ==
  f = [plan |-> f.plan, path |-> f.path, next |-> f.next, only |-> f.only,
       board |-> f.board, carriers |-> f.carriers, fan |-> f.fan, last |-> f.last,
       slice |-> f.slice]

\* The members of a collection come from runs the collection comes from.
BoardOK(b, R) ==
  /\ b = [ds \in DOMAIN b |-> b[ds]] /\ DOMAIN b \subseteq DataState
  /\ \A ds \in DOMAIN b :
       /\ b[ds] \in Values(R)
       /\ \A i \in 1 .. Len(b[ds].items) : Range(b[ds].items[i]) \subseteq Range(b[ds].by)

SizeIn(b, ds) == IF ds \in DOMAIN b THEN Len(b[ds].items) ELSE 0
ShortIn(b, ds) == ds \in DOMAIN b /\ b[ds].short
\* The members of a map that have no sub_plan, or one that ends in one run.
OneRun(m) == m.sub = <<>> \/ Last(m.sub).kind # "map"
FirstMember(f) == IF f.only = 0 THEN 1 ELSE f.only

\* The fan of a map that is under way is in step so far.
FanOK(f, G, R) ==
  IF ~f.fan.open THEN f.fan = NoFan
  ELSE LET m == f.plan[f.next]
       IN /\ f.next <= Len(f.plan) /\ m.kind = "map" /\ m.shared \subseteq DOMAIN f.board
          /\ FirstMember(f) <= f.fan.at /\ f.fan.at <= f.fan.size + 1
          /\ f.fan.size = (IF f.only = 0 THEN SizeIn(f.board, m.reads) ELSE f.only)
          /\ f.only <= SizeIn(f.board, m.reads)
          /\ FirstMember(f) + Len(f.fan.mask) = f.fan.at
          /\ InStep(f.fan.items, f.fan.ids, f.fan.mask, f.fan.origins, OneRun(m), G, R)
          /\ f.fan.short => m.sub # <<>>
          /\ f.fan.retry < RetryCap

\* The carriers of a collection are in step with it; a map has written it.
CarriersOK(f, G, R) ==
  /\ DOMAIN f.carriers \subseteq DOMAIN f.board
  /\ \A ds \in DOMAIN f.carriers :
       /\ MapsTo(f, ds) # {}
       /\ InStep(f.board[ds].items, f.carriers[ds].ids, f.carriers[ds].mask,
                 f.carriers[ds].origins, \A m \in MapsTo(f, ds) : OneRun(m), G, R)

\* A map that has been run has a mark for each member of what it read.
MapsDone(f) ==
  \A k \in DOMAIN f.plan : f.plan[k].kind = "map" =>
    LET out == Last(f.plan[k].writes)
    IN /\ k < f.next \/ (k = f.next /\ f.only > 0) =>
            /\ out \in DOMAIN f.carriers
            /\ Len(f.carriers[out].mask) = SizeIn(f.board, f.plan[k].reads)
       /\ k < f.next /\ f.board[out].short =>
            \/ ~AllOf(f.carriers[out].mask)
            \/ f.plan[k].sub # <<>>
            \/ ShortIn(f.board, f.plan[k].reads)

FrameOK(f, G, R) ==
  /\ IsFrame(f) /\ f.plan \in Seq(Milestones) /\ f.path \in Seq(Nat)
  /\ f.next \in 1 .. Len(f.plan) + 1 /\ f.only \in 0 .. MaxSize + 1 /\ f.last \in Outcomes
  /\ f.slice \in Slices /\ \A i \in 1 .. Len(f.slice) : f.slice[i].run \in G
  /\ BoardOK(f.board, R)
  /\ f.fan \in Fans(R) /\ FanOK(f, G, R)
  /\ CarriersOK(f, G, R) /\ MapsDone(f)

\* What a fold among the milestones S has concluded is whole.
FoldsOK(f, S) ==
  \A k \in DOMAIN f.plan \cap S :
    LET m == f.plan[k]
        v == f.board[Last(m.writes)]
    IN k < f.next /\ m.kind = "fold" /\ Last(m.writes) \in DOMAIN f.board =>
         /\ m.reads \in DOMAIN f.board /\ v.from = f.board[m.reads].by
         /\ m.reads \in DOMAIN f.carriers =>
              /\ AllOf(f.carriers[m.reads].mask)
              /\ v.short => \E map \in MapsTo(f, m.reads) :
                              map.sub # <<>> \/ ShortIn(f.board, map.reads)

\* What a sub_plan has been given, and what it promises: its target was made by
\* the last graph collected, and it has written nothing ahead.
GivenBy(p) == p.plan[p.next].shared \cup {p.plan[p.next].member}
Terminal(f) ==
  f.next > Len(f.plan) /\ f.last = "completed" /\ Last(f.plan).kind # "map" =>
    LET target == Last(Last(f.plan).writes)
        n == Len(f.slice)
    IN n > 0 /\ target \in f.slice[n].made /\ f.board[target].by = <<f.slice[n].run>>
Unwritten(f) ==
  \A k \in DOMAIN f.plan : k >= f.next => Range(f.plan[k].writes) \cap DOMAIN f.board = {}
InnerOK(f, given, failed) ==
  /\ f.only = 0 /\ Terminal(f) /\ Unwritten(f) /\ FoldsOK(f, DOMAIN f.plan)
  /\ \A ds \in DOMAIN f.board : \/ IsTrue(f.board[ds])
                                \/ ds \in given /\ (IsPartOfTruth(f.board[ds]) \/ failed)

\* The frame f runs the sub_plan of a member of the map that p is at.
Within(p, f, failed) ==
  /\ p.next <= Len(p.plan) /\ p.fan.open /\ p.fan.at <= p.fan.size
  /\ p.plan[p.next].sub # <<>> /\ f.plan = p.plan[p.next].sub
  /\ InnerOK(f, GivenBy(p), failed)
Extends(path, f) ==
  LET n == Len(f.path)
  IN /\ Len(path) >= n + 2 /\ \A i \in 1 .. n : path[i] = f.path[i]
     /\ path[n + 1] = f.next /\ path[n + 2] = f.fan.at

Tower(fs, G, R, failed) ==
  /\ fs \in Seq(Range(fs)) /\ Len(fs) > 0
  /\ \A d \in 1 .. Len(fs) : FrameOK(fs[d], G, R)
  /\ \A d \in 2 .. Len(fs) : Within(fs[d - 1], fs[d], failed)
  /\ \A d, e \in 1 .. Len(fs) : d < e => Extends(fs[e].path, fs[d])

-----------------------------------------------------------------------------
\* More graphs do not matter.
LEMMA FrameMore ==
    ASSUME NEW f, NEW G, NEW H, NEW R, FrameOK(f, G, R), G \subseteq H
    PROVE  FrameOK(f, H, R)
<1>1. FanOK(f, H, R)
  <2>1. FanOK(f, G, R)
    BY DEF FrameOK
  <2>2. QED
    BY <2>1, InStepMore DEF FanOK
<1>2. CarriersOK(f, H, R)
  <2>1. CarriersOK(f, G, R)
    BY DEF FrameOK
  <2>2. QED
    BY <2>1, InStepMore DEF CarriersOK
<1>3. QED
  BY <1>1, <1>2 DEF FrameOK

\* Nor do they to all the frames.
LEMMA TowerMore ==
    ASSUME NEW fs, NEW G, NEW H, NEW R, NEW failed, Tower(fs, G, R, failed), G \subseteq H
    PROVE  Tower(fs, H, R, failed)
BY FrameMore DEF Tower

\* A sequence with its last entry replaced, with one more, with one less.
LEMMA SeqReplace ==
    ASSUME NEW fs, fs \in Seq(Range(fs)), Len(fs) > 0, NEW g
    PROVE  LET s == [fs EXCEPT ![Len(fs)] = g]
           IN  /\ s \in Seq(Range(s)) /\ Len(s) = Len(fs)
               /\ s[Len(fs)] = g /\ \A i \in 1 .. Len(fs) - 1 : s[i] = fs[i]
<1> DEFINE n == Len(fs)
           s == [fs EXCEPT ![n] = g]
<1>1. n \in Nat /\ n \in 1 .. n /\ DOMAIN fs = 1 .. n
  OBVIOUS
<1>2. s \in Seq(Range(fs) \cup {g}) /\ Len(s) = n /\ DOMAIN s = 1 .. n
      /\ s[n] = g /\ \A i \in 1 .. n - 1 : s[i] = fs[i]
  BY <1>1
<1> HIDE DEF s
<1>3. \A i \in 1 .. n : s[i] \in Range(s)
  BY <1>2 DEF Range
<1>4. s \in Seq(Range(s))
  BY <1>2, <1>3
<1>5. QED
  BY <1>2, <1>4 DEF s

\* With one more.
LEMMA SeqPush ==
    ASSUME NEW fs, fs \in Seq(Range(fs)), NEW g
    PROVE  LET s == Append(fs, g)
           IN  /\ s \in Seq(Range(s)) /\ Len(s) = Len(fs) + 1
               /\ s[Len(fs) + 1] = g /\ \A i \in 1 .. Len(fs) : s[i] = fs[i]
<1> DEFINE n == Len(fs)
           s == Append(fs, g)
           T == Range(fs) \cup {g}
<1>1. n \in Nat /\ fs \in Seq(T) /\ g \in T
  OBVIOUS
<1> HIDE DEF T
<1>2. s \in Seq(T) /\ Len(s) = n + 1 /\ DOMAIN s = 1 .. n + 1
      /\ s[n + 1] = g /\ \A i \in 1 .. n : s[i] = fs[i]
  BY <1>1
<1> HIDE DEF s
<1>3. \A i \in 1 .. n + 1 : s[i] \in Range(s)
  BY <1>2 DEF Range
<1>4. s \in Seq(Range(s))
  BY <1>2, <1>3
<1>5. QED
  BY <1>2, <1>4 DEF s

\* With one less.
LEMMA SeqPop ==
    ASSUME NEW fs, fs \in Seq(Range(fs)), Len(fs) > 1
    PROVE  LET s == SubSeq(fs, 1, Len(fs) - 1)
           IN  /\ s \in Seq(Range(s)) /\ Len(s) = Len(fs) - 1
               /\ \A i \in 1 .. Len(fs) - 1 : s[i] = fs[i]
<1> DEFINE n == Len(fs)
           s == SubSeq(fs, 1, n - 1)
<1>1. n \in Nat
  OBVIOUS
<1>2. s \in Seq(Range(fs)) /\ Len(s) = n - 1 /\ DOMAIN s = 1 .. n - 1
      /\ \A i \in 1 .. n - 1 : s[i] = fs[i]
  BY <1>1
<1> HIDE DEF s
<1>3. \A i \in 1 .. n - 1 : s[i] \in Range(s)
  BY <1>2 DEF Range
<1>4. s \in Seq(Range(s))
  BY <1>2, <1>3
<1>5. QED
  BY <1>2, <1>4 DEF s

\* Of a tower: the last frame goes on; another is put on it; the last is taken off.
LEMMA TowerReplace ==
    ASSUME NEW fs, NEW G, NEW R, NEW failed, Tower(fs, G, R, failed),
           NEW g, FrameOK(g, G, R), g.path = fs[Len(fs)].path,
           Len(fs) > 1 => Within(fs[Len(fs) - 1], g, failed)
    PROVE  Tower([fs EXCEPT ![Len(fs)] = g], G, R, failed)
<1> DEFINE n == Len(fs)
           s == [fs EXCEPT ![n] = g]
<1>1. fs \in Seq(Range(fs)) /\ n > 0 /\ n \in Nat
  BY DEF Tower
<1>2. s \in Seq(Range(s)) /\ Len(s) = n /\ s[n] = g /\ \A i \in 1 .. n - 1 : s[i] = fs[i]
  BY <1>1, SeqReplace
<1> HIDE DEF s
<1>3. ASSUME NEW d \in 1 .. n
      PROVE  FrameOK(s[d], G, R)
  <2>1. CASE d = n
    BY <1>2, <2>1
  <2>2. CASE d # n
    <3>1. s[d] = fs[d]
      BY <1>1, <1>2, <2>2
    <3>2. QED
      BY <3>1 DEF Tower
  <2>3. QED
    BY <2>1, <2>2
<1>4. ASSUME NEW d \in 2 .. n
      PROVE  Within(s[d - 1], s[d], failed)
  <2>1. s[d - 1] = fs[d - 1]
    BY <1>1, <1>2
  <2>2. CASE d = n
    BY <1>1, <1>2, <2>1, <2>2
  <2>3. CASE d < n
    BY <1>1, <1>2, <2>1, <2>3 DEF Tower
  <2>4. QED
    BY <1>1, <2>2, <2>3
<1>5. ASSUME NEW d \in 1 .. n, NEW e \in 1 .. n, d < e
      PROVE  Extends(s[e].path, s[d])
  <2>1. s[d] = fs[d] /\ s[e].path = fs[e].path
    BY <1>1, <1>2, <1>5
  <2>2. Extends(fs[e].path, fs[d])
    BY <1>5 DEF Tower
  <2>3. QED
    BY <2>1, <2>2
<1>6. QED
  BY <1>1, <1>2, <1>3, <1>4, <1>5 DEF Tower, s

\* Another frame is put on.
LEMMA TowerPush ==
    ASSUME NEW fs, NEW G, NEW R, NEW failed, Tower(fs, G, R, failed),
           NEW g, FrameOK(g, G, R), Within(fs[Len(fs)], g, failed),
           g.path = Append(Append(fs[Len(fs)].path, fs[Len(fs)].next), fs[Len(fs)].fan.at)
    PROVE  Tower(Append(fs, g), G, R, failed)
<1> DEFINE n == Len(fs)
           s == Append(fs, g)
           f == fs[n]
<1>1. fs \in Seq(Range(fs)) /\ n > 0 /\ n \in Nat /\ n \in 1 .. n
  BY DEF Tower
<1>2. s \in Seq(Range(s)) /\ Len(s) = n + 1 /\ s[n + 1] = g /\ \A i \in 1 .. n : s[i] = fs[i]
  BY <1>1, SeqPush
<1>3. f.path \in Seq(Nat) /\ f.next \in Nat /\ f.fan.at \in Nat
  <2>1. FrameOK(f, G, R)
    BY <1>1 DEF Tower
  <2>2. QED
    BY <2>1 DEF FrameOK, Fans
<1> HIDE DEF s, f
<1>4. /\ Len(g.path) = Len(f.path) + 2 /\ \A i \in 1 .. Len(f.path) : g.path[i] = f.path[i]
      /\ g.path[Len(f.path) + 1] = f.next /\ g.path[Len(f.path) + 2] = f.fan.at
  <2> DEFINE a == Append(f.path, f.next)
  <2>1. a \in Seq(Nat) /\ Len(a) = Len(f.path) + 1 /\ (\A i \in 1 .. Len(f.path) : a[i] = f.path[i])
        /\ a[Len(f.path) + 1] = f.next /\ Len(f.path) \in Nat
    BY <1>3
  <2> HIDE DEF a
  <2>2. g.path = Append(a, f.fan.at)
    BY DEF a, f
  <2>3. Len(g.path) = Len(a) + 1 /\ (\A i \in 1 .. Len(a) : g.path[i] = a[i])
        /\ g.path[Len(a) + 1] = f.fan.at
    BY <1>3, <2>1, <2>2
  <2>4. Len(a) + 1 = Len(f.path) + 2 /\ Len(f.path) + 1 \in 1 .. Len(a)
        /\ \A i \in 1 .. Len(f.path) : i \in 1 .. Len(a)
    BY <2>1
  <2>5. g.path[Len(f.path) + 1] = a[Len(f.path) + 1] /\ g.path[Len(f.path) + 2] = f.fan.at
        /\ Len(g.path) = Len(f.path) + 2
    <3> DEFINE k == Len(f.path) + 1
               k2 == Len(f.path) + 2
    <3>1. k \in 1 .. Len(a) /\ Len(a) + 1 = k2
      BY <2>4
    <3> HIDE DEF k, k2
    <3>2. g.path[k] = a[k] /\ g.path[k2] = f.fan.at /\ Len(g.path) = k2
      BY <2>3, <3>1
    <3>3. QED
      BY <3>2 DEF k, k2
  <2>6. \A i \in 1 .. Len(f.path) : g.path[i] = f.path[i]
    BY <2>1, <2>3, <2>4
  <2>7. QED
    BY <2>1, <2>5, <2>6
<1>5. ASSUME NEW d \in 1 .. n + 1
      PROVE  FrameOK(s[d], G, R)
  BY <1>1, <1>2 DEF Tower
<1>6. ASSUME NEW d \in 2 .. n + 1
      PROVE  Within(s[d - 1], s[d], failed)
  <2>1. s[d - 1] = fs[d - 1]
    BY <1>1, <1>2
  <2>2. CASE d = n + 1
    BY <1>1, <1>2, <2>1, <2>2
  <2>3. CASE d <= n
    BY <1>1, <1>2, <2>1, <2>3 DEF Tower
  <2>4. QED
    BY <1>1, <2>2, <2>3
<1>7. ASSUME NEW d \in 1 .. n + 1, NEW e \in 1 .. n + 1, d < e
      PROVE  Extends(s[e].path, s[d])
  <2>1. s[d] = fs[d] /\ d \in 1 .. n
    BY <1>1, <1>2, <1>7
  <2>2. CASE e <= n
    <3>1. Extends(fs[e].path, fs[d])
      BY <1>1, <1>7, <2>1, <2>2 DEF Tower
    <3>2. QED
      BY <1>1, <1>2, <2>1, <2>2, <3>1
  <2>3. CASE e = n + 1 /\ d = n
    <3>1. s[e] = g /\ s[d] = f
      BY <1>2, <2>1, <2>3 DEF f
    <3>2. Len(f.path) \in Nat
      BY <1>3
    <3>3. Extends(g.path, f)
      BY <1>4, <3>2 DEF Extends
    <3>4. QED
      BY <3>1, <3>3
  <2>4. CASE e = n + 1 /\ d < n
    <3>1. Extends(f.path, fs[d])
      BY <1>1, <2>1, <2>4 DEF Tower, f
    <3>2. fs[d].path \in Seq(Nat)
      BY <2>1 DEF Tower, FrameOK
    <3> DEFINE h == fs[d]
               m == Len(h.path)
    <3>a. m \in Nat /\ Len(f.path) \in Nat
      BY <1>3, <3>2
    <3>b. /\ Len(f.path) >= m + 2 /\ \A i \in 1 .. m : f.path[i] = h.path[i]
          /\ f.path[m + 1] = h.next /\ f.path[m + 2] = h.fan.at
      BY <3>1 DEF Extends
    <3> HIDE DEF h, m
    <3>c. m + 1 \in 1 .. Len(f.path) /\ m + 2 \in 1 .. Len(f.path)
          /\ \A i \in 1 .. m : i \in 1 .. Len(f.path)
      BY <3>a, <3>b
    <3>d. /\ Len(g.path) >= m + 2 /\ \A i \in 1 .. m : g.path[i] = h.path[i]
          /\ g.path[m + 1] = h.next /\ g.path[m + 2] = h.fan.at
      <4> DEFINE k == m + 1
                 k2 == m + 2
      <4>1. g.path[k] = f.path[k] /\ g.path[k2] = f.path[k2]
        <5> HIDE DEF k, k2
        <5>1. k \in 1 .. Len(f.path) /\ k2 \in 1 .. Len(f.path)
          BY <3>c DEF k, k2
        <5>2. QED
          BY <1>4, <5>1
      <4>2. Len(g.path) >= m + 2
        BY <1>4, <3>a, <3>b
      <4>3. \A i \in 1 .. m : g.path[i] = h.path[i]
        BY <1>4, <3>b, <3>c
      <4>4. QED
        BY <3>b, <4>1, <4>2, <4>3
    <3>3. Extends(g.path, fs[d])
      BY <3>d DEF Extends, h, m
    <3>4. QED
      BY <1>2, <2>1, <2>4, <3>3
  <2>5. QED
    BY <1>1, <1>7, <2>2, <2>3, <2>4
<1>8. QED
  BY <1>1, <1>2, <1>5, <1>6, <1>7 DEF Tower, s

\* The last frame is taken off.
LEMMA TowerPop ==
    ASSUME NEW fs, NEW G, NEW R, NEW failed, Tower(fs, G, R, failed), Len(fs) > 1
    PROVE  /\ Tower(SubSeq(fs, 1, Len(fs) - 1), G, R, failed)
           /\ Len(SubSeq(fs, 1, Len(fs) - 1)) = Len(fs) - 1
           /\ \A d \in 1 .. Len(fs) - 1 : SubSeq(fs, 1, Len(fs) - 1)[d] = fs[d]
<1> DEFINE n == Len(fs)
           s == SubSeq(fs, 1, n - 1)
<1>1. fs \in Seq(Range(fs)) /\ n > 1 /\ n \in Nat
  BY DEF Tower
<1>2. s \in Seq(Range(s)) /\ Len(s) = n - 1 /\ \A i \in 1 .. n - 1 : s[i] = fs[i]
  BY <1>1, SeqPop
<1> HIDE DEF s
<1>3. \A d \in 1 .. n - 1 : FrameOK(s[d], G, R)
  BY <1>1, <1>2 DEF Tower
<1>4. \A d \in 2 .. n - 1 : Within(s[d - 1], s[d], failed)
  BY <1>1, <1>2 DEF Tower
<1>5. \A d, e \in 1 .. n - 1 : d < e => Extends(s[e].path, s[d])
  BY <1>1, <1>2 DEF Tower
<1>6. QED
  BY <1>1, <1>2, <1>3, <1>4, <1>5 DEF Tower, s

-----------------------------------------------------------------------------
\* What a milestone writes.
LEMMA WritesAre ==
    ASSUME NEW m \in Milestones
    PROVE  /\ m.kind \in {"leaf", "map", "fold", "notional"}
           /\ m.writes \in Seq(DataState) /\ Range(m.writes) \subseteq DataState
           /\ m.kind # "notional" => Last(m.writes) \in Range(m.writes)
           /\ m.kind \in {"map", "fold"} => Range(m.writes) = {Last(m.writes)}
           /\ m.sub \in Seq(Milestones) /\ m.shared \subseteq DataState
           /\ m.sub # <<>> => /\ m.member \in DataState /\ Last(m.sub).kind # "notional"
                              /\ Layered(m.sub, m.shared \cup {m.member})
<1>1. m.kind \in {"leaf", "map", "fold", "notional"} /\ m.writes \in Seq(DataState)
      /\ (m.kind # "notional" => m.writes # <<>>)
      /\ (m.kind \in {"map", "fold"} => Len(m.writes) = 1)
      /\ m.sub \in Seq(Milestones) /\ m.shared \subseteq DataState
  BY PlansAssumption DEF PlansAreLayered, IsMilestone
<1>2. DOMAIN m.writes = 1 .. Len(m.writes) /\ Len(m.writes) \in Nat
      /\ (\A i \in 1 .. Len(m.writes) : m.writes[i] \in DataState)
      /\ (m.writes # <<>> => Len(m.writes) > 0)
  BY <1>1
<1>3. Range(m.writes) \subseteq DataState
  BY <1>2 DEF Range
<1>4. m.kind # "notional" => Last(m.writes) \in Range(m.writes)
  BY <1>1, <1>2 DEF Last, Range
<1>5. m.kind \in {"map", "fold"} => Range(m.writes) = {Last(m.writes)}
  <2>1. SUFFICES ASSUME m.kind \in {"map", "fold"}
                 PROVE  Range(m.writes) = {Last(m.writes)}
    OBVIOUS
  <2>2. DOMAIN m.writes = {1} /\ Len(m.writes) = 1
    BY <1>1, <1>2, <2>1
  <2>3. QED
    BY <2>2 DEF Last, Range
<1>6. QED
  BY <1>1, <1>3, <1>4, <1>5, PlansAssumption DEF PlansAreLayered, IsMilestone

\* What a blackboard has when something is written to it.
LEMMA PutDomain ==
    ASSUME NEW b, NEW more
    PROVE  DOMAIN Put(b, more) = DOMAIN b \cup DOMAIN more
BY DEF Put

\* What has been written is there.
LEMMA PutNew ==
    ASSUME NEW b, NEW more, NEW ds, ds \in DOMAIN more
    PROVE  Put(b, more)[ds] = more[ds]
BY DEF Put

\* What has not been written stays.
LEMMA PutOld ==
    ASSUME NEW b, NEW more, NEW ds, ds \in DOMAIN b, ds \notin DOMAIN more
    PROVE  Put(b, more)[ds] = b[ds]
BY DEF Put

\* A blackboard stays sound when sound values are written.
LEMMA BoardPut ==
    ASSUME NEW b, NEW more, NEW R, BoardOK(b, R), BoardOK(more, R)
    PROVE  BoardOK(Put(b, more), R)
<1>1. \A ds \in DOMAIN Put(b, more) : \/ ds \in DOMAIN more /\ Put(b, more)[ds] = more[ds]
                                      \/ ds \in DOMAIN b /\ Put(b, more)[ds] = b[ds]
  <2>1. SUFFICES ASSUME NEW ds \in DOMAIN Put(b, more), ds \notin DOMAIN more
                 PROVE  ds \in DOMAIN b /\ Put(b, more)[ds] = b[ds]
    BY PutDomain, PutNew, PutOld
  <2>2. ds \in DOMAIN b
    <3>1. DOMAIN Put(b, more) = DOMAIN b \cup DOMAIN more
      BY PutDomain
    <3>2. QED
      BY <2>1, <3>1
  <2>3. QED
    BY <2>1, <2>2, PutDomain, PutNew, PutOld
<1>2. DOMAIN Put(b, more) \subseteq DataState
  <2>1. DOMAIN b \subseteq DataState /\ DOMAIN more \subseteq DataState
    BY DEF BoardOK
  <2>2. QED
    BY <2>1, PutDomain
<1>3. ASSUME NEW ds \in DOMAIN Put(b, more)
      PROVE  /\ Put(b, more)[ds] \in Values(R)
             /\ \A i \in 1 .. Len(Put(b, more)[ds].items) :
                  Range(Put(b, more)[ds].items[i]) \subseteq Range(Put(b, more)[ds].by)
  BY <1>1 DEF BoardOK
<1>4. Put(b, more) = [ds \in DOMAIN Put(b, more) |-> Put(b, more)[ds]]
  BY DEF Put
<1>5. QED
  BY <1>2, <1>3, <1>4 DEF BoardOK

\* What a fold concludes from, as it is run.
Whole(f, v) ==
  LET m == f.plan[f.next]
  IN /\ m.reads \in DOMAIN f.board /\ v.from = f.board[m.reads].by
     /\ m.reads \in DOMAIN f.carriers => AllOf(f.carriers[m.reads].mask)
     /\ v.short = f.board[m.reads].short

\* A map writes with its collection v the carriers c.
Carries(f, g, v, c, G, R) ==
  LET m == f.plan[f.next]
  IN /\ g.carriers = Put(f.carriers, [ds \in {Last(m.writes)} |-> c])
     /\ InStep(v.items, c.ids, c.mask, c.origins, OneRun(m), G, R)
     /\ Len(c.mask) = SizeIn(f.board, m.reads)
     /\ v.short => ~AllOf(c.mask) \/ m.sub # <<>> \/ ShortIn(f.board, m.reads)

\* The milestone that f is at has ended, which gives g; outs is what it wrote.
EndsAs(f, g, outs, G, R) ==
  LET m == f.plan[f.next]
      out == Last(m.writes)
  IN /\ f.next <= Len(f.plan)
     /\ IsFrame(g) /\ g.plan = f.plan /\ g.path = f.path /\ g.next = f.next + 1
     /\ g.only = 0 /\ g.fan = NoFan /\ g.last \in {"completed", "failed", "stopped"}
     /\ g.slice \in Slices /\ \A i \in 1 .. Len(g.slice) : g.slice[i].run \in G
     /\ g.board = Put(f.board, outs) /\ DOMAIN outs \subseteq Range(m.writes) /\ BoardOK(outs, R)
     /\ m.reads \in DOMAIN f.board => \A ds \in DOMAIN outs : outs[ds].from = f.board[m.reads].by
     /\ m.kind # "notional" /\ (g.last = "completed" \/ (g.last = "stopped" /\ m.kind = "map"))
          => out \in DOMAIN outs
     /\ \A ds \in DOMAIN outs :
          \/ IsTrue(outs[ds])
          \/ m.kind = "leaf" /\ g.last = "failed" /\ ds \in DOMAIN f.board
     /\ m.kind = "leaf" /\ g.last # "failed" => DOMAIN outs = Range(m.writes)
     /\ m.kind = "fold" /\ DOMAIN outs # {} => Whole(f, outs[out])
     /\ m.kind # "map" => g.carriers = f.carriers
     /\ m.kind = "map" => DOMAIN outs = {out} /\ \E c : Carries(f, g, outs[out], c, G, R)

\* What was there of another milestone, and what those up to here read, stays.
LEMMA EndsKeeps ==
    ASSUME NEW f, NEW g, NEW outs, NEW G, NEW R, NEW given,
           FrameOK(f, G, R), EndsAs(f, g, outs, G, R), Layered(f.plan, given)
    PROVE  /\ f.next \in DOMAIN f.plan /\ f.plan[f.next] \in Milestones
           /\ DOMAIN g.board = DOMAIN f.board \cup DOMAIN outs
           /\ DOMAIN f.carriers \subseteq DOMAIN g.carriers
           /\ \A ds : ds \notin DOMAIN outs =>
                /\ ds \in DOMAIN g.board <=> ds \in DOMAIN f.board
                /\ ds \in DOMAIN f.board => g.board[ds] = f.board[ds]
           /\ \A ds : ds \notin Range(f.plan[f.next].writes) =>
                /\ ds \in DOMAIN g.carriers <=> ds \in DOMAIN f.carriers
                /\ ds \in DOMAIN f.carriers => g.carriers[ds] = f.carriers[ds]
           /\ \A k \in DOMAIN f.plan : k # f.next =>
                /\ Range(f.plan[k].writes) \cap DOMAIN outs = {}
                /\ Range(f.plan[k].writes) \cap Range(f.plan[f.next].writes) = {}
           /\ \A k \in DOMAIN f.plan : k <= f.next =>
                f.plan[k].reads \notin Range(f.plan[f.next].writes)
           /\ given \cap DOMAIN outs = {}
<1> DEFINE n == f.next
           m == f.plan[n]
<1>1. f.plan \in Seq(Milestones) /\ n \in 1 .. Len(f.plan) + 1 /\ n <= Len(f.plan)
  BY DEF FrameOK, EndsAs
<1>2. n \in DOMAIN f.plan /\ m \in Milestones
  BY <1>1
<1>3. g.board = Put(f.board, outs) /\ DOMAIN outs \subseteq Range(m.writes)
  BY DEF EndsAs
<1>4. DOMAIN g.board = DOMAIN f.board \cup DOMAIN outs
  BY <1>3, PutDomain, PutNew, PutOld
<1>5. \A ds : ds \notin DOMAIN outs =>
        /\ ds \in DOMAIN g.board <=> ds \in DOMAIN f.board
        /\ ds \in DOMAIN f.board => g.board[ds] = f.board[ds]
  <2>1. SUFFICES ASSUME NEW ds, ds \notin DOMAIN outs
                 PROVE  /\ ds \in DOMAIN g.board <=> ds \in DOMAIN f.board
                        /\ ds \in DOMAIN f.board => g.board[ds] = f.board[ds]
    OBVIOUS
  <2>2. ds \in DOMAIN f.board => g.board[ds] = f.board[ds]
    BY <1>3, <2>1, PutDomain, PutNew, PutOld
  <2>3. QED
    BY <1>4, <2>1, <2>2
<1>6. /\ DOMAIN f.carriers \subseteq DOMAIN g.carriers
      /\ \A ds : ds \notin Range(m.writes) =>
           /\ ds \in DOMAIN g.carriers <=> ds \in DOMAIN f.carriers
           /\ ds \in DOMAIN f.carriers => g.carriers[ds] = f.carriers[ds]
  <2>1. CASE m.kind # "map"
    BY <2>1 DEF EndsAs
  <2>2. CASE m.kind = "map"
    <3>1. PICK c : g.carriers = Put(f.carriers, [ds \in {Last(m.writes)} |-> c])
      BY <2>2 DEF EndsAs, Carries
    <3>2. Last(m.writes) \in Range(m.writes)
      BY <1>2, <2>2, WritesAre
    <3>3. DOMAIN [ds \in {Last(m.writes)} |-> c] = {Last(m.writes)}
      OBVIOUS
    <3> DEFINE new == [ds \in {Last(m.writes)} |-> c]
    <3> HIDE DEF new
    <3>4. DOMAIN new = {Last(m.writes)} /\ g.carriers = Put(f.carriers, new)
      BY <3>1, <3>3 DEF new
    <3>5. DOMAIN g.carriers = DOMAIN f.carriers \cup DOMAIN new
      BY <3>4, PutDomain, PutNew, PutOld
    <3>6. \A ds \in DOMAIN f.carriers : ds \notin DOMAIN new => g.carriers[ds] = f.carriers[ds]
      BY <3>4, PutDomain, PutNew, PutOld
    <3>7. QED
      BY <3>2, <3>4, <3>5, <3>6
  <2>3. QED
    BY <2>1, <2>2
<1>7. ASSUME NEW k \in DOMAIN f.plan
      PROVE  /\ Range(f.plan[k].writes) \cap given = {}
             /\ k # n => Range(f.plan[k].writes) \cap Range(m.writes) = {}
             /\ k <= n => Range(m.writes) \cap Needs(f.plan[k]) = {}
  BY <1>2 DEF Layered
<1>8. \A k \in DOMAIN f.plan : k <= n => f.plan[k].reads \notin Range(m.writes)
  BY <1>7 DEF Needs
<1>9. QED
  BY <1>2, <1>3, <1>4, <1>5, <1>6, <1>7, <1>8
\* The only map that writes a data state is the one at its position.
LEMMA MapsToOne ==
    ASSUME NEW f, NEW given, NEW n \in DOMAIN f.plan, f.plan \in Seq(Milestones),
           Layered(f.plan, given), f.plan[n].kind # "notional"
    PROVE  /\ \A m \in MapsTo(f, Last(f.plan[n].writes)) : m = f.plan[n]
           /\ f.plan[n].kind = "map" => f.plan[n] \in MapsTo(f, Last(f.plan[n].writes))
<1>1. ASSUME NEW k \in DOMAIN f.plan, f.plan[k].kind = "map",
             Last(f.plan[k].writes) = Last(f.plan[n].writes)
      PROVE  k = n
  <2>1. f.plan[k] \in Milestones /\ f.plan[n] \in Milestones
    OBVIOUS
  <2>2. Last(f.plan[k].writes) \in Range(f.plan[k].writes)
    BY <1>1, <2>1, WritesAre
  <2>3. Last(f.plan[n].writes) \in Range(f.plan[n].writes)
    BY <2>1, WritesAre
  <2>4. k # n => Range(f.plan[n].writes) \cap Range(f.plan[k].writes) = {}
    BY DEF Layered
  <2>5. QED
    BY <1>1, <2>2, <2>3, <2>4
<1>2. QED
  BY <1>1 DEF MapsTo

\* A frame whose milestone ends stays in step.
LEMMA EndsFrame ==
    ASSUME NEW f, NEW g, NEW outs, NEW G, NEW R, NEW given,
           FrameOK(f, G, R), EndsAs(f, g, outs, G, R), Layered(f.plan, given)
    PROVE  FrameOK(g, G, R)
<1> DEFINE n == f.next
           m == f.plan[n]
           out == Last(m.writes)
<1>1. /\ n \in DOMAIN f.plan /\ m \in Milestones
      /\ DOMAIN g.board = DOMAIN f.board \cup DOMAIN outs
      /\ DOMAIN f.carriers \subseteq DOMAIN g.carriers
      /\ \A ds : ds \notin DOMAIN outs =>
           /\ ds \in DOMAIN g.board <=> ds \in DOMAIN f.board
           /\ ds \in DOMAIN f.board => g.board[ds] = f.board[ds]
      /\ \A ds : ds \notin Range(m.writes) =>
           /\ ds \in DOMAIN g.carriers <=> ds \in DOMAIN f.carriers
           /\ ds \in DOMAIN f.carriers => g.carriers[ds] = f.carriers[ds]
      /\ \A k \in DOMAIN f.plan : k # n =>
           /\ Range(f.plan[k].writes) \cap DOMAIN outs = {}
           /\ Range(f.plan[k].writes) \cap Range(m.writes) = {}
      /\ \A k \in DOMAIN f.plan : k <= n => f.plan[k].reads \notin Range(m.writes)
  BY EndsKeeps
<1>2. /\ f.plan \in Seq(Milestones) /\ f.path \in Seq(Nat) /\ n \in 1 .. Len(f.plan)
      /\ BoardOK(f.board, R) /\ CarriersOK(f, G, R) /\ MapsDone(f)
  BY DEF FrameOK, EndsAs
<1>3. /\ IsFrame(g) /\ g.plan = f.plan /\ g.path = f.path /\ g.next = n + 1 /\ g.only = 0
      /\ g.fan = NoFan /\ g.last \in {"completed", "failed", "stopped"}
      /\ g.slice \in Slices /\ \A i \in 1 .. Len(g.slice) : g.slice[i].run \in G
      /\ g.board = Put(f.board, outs) /\ DOMAIN outs \subseteq Range(m.writes) /\ BoardOK(outs, R)
  BY DEF EndsAs
<1>4. /\ m.kind = "map" =>
           DOMAIN outs = {out} /\ \E c : Carries(f, g, outs[out], c, G, R)
      /\ m.kind # "map" => g.carriers = f.carriers
  BY DEF EndsAs
<1>5. BoardOK(g.board, R)
  BY <1>2, <1>3, BoardPut
<1>6. g.fan \in Fans(R) /\ FanOK(g, G, R)
  <2>1. NoFan \in Fans(R)
    BY DEF NoFan, Fans
  <2>2. NoFan.open = FALSE
    BY DEF NoFan
  <2>3. QED
    BY <1>3, <2>1, <2>2 DEF FanOK
<1>7. g.next \in 1 .. Len(g.plan) + 1 /\ g.only \in 0 .. MaxSize + 1 /\ g.last \in Outcomes
  <2>1. n \in 1 .. Len(f.plan) /\ g.plan = f.plan /\ g.next = n + 1
    BY <1>2, <1>3
  <2>2. g.next \in 1 .. Len(g.plan) + 1
    BY <2>1
  <2>3. g.only \in 0 .. MaxSize + 1
    BY <1>3, RequestConstants
  <2>4. g.last \in Outcomes
    BY <1>3 DEF Outcomes
  <2>5. QED
    BY <2>2, <2>3, <2>4
<1>8. \A ds : MapsTo(g, ds) = MapsTo(f, ds)
  <2>1. g.plan = f.plan
    BY <1>3, Zenon
  <2>2. QED
    BY <2>1 DEF MapsTo
\* The new carriers of a map.
<1>9. ASSUME m.kind = "map"
      PROVE  /\ out \in DOMAIN g.carriers /\ out \in DOMAIN g.board
             /\ DOMAIN g.carriers = DOMAIN f.carriers \cup {out}
             /\ m \in MapsTo(f, out) /\ \A k \in MapsTo(f, out) : k = m
             /\ InStep(g.board[out].items, g.carriers[out].ids, g.carriers[out].mask,
                       g.carriers[out].origins, OneRun(m), G, R)
             /\ Len(g.carriers[out].mask) = SizeIn(f.board, m.reads)
             /\ g.board[out].short => \/ ~AllOf(g.carriers[out].mask) \/ m.sub # <<>>
                                      \/ ShortIn(f.board, m.reads)
  <2>0. PICK c : Carries(f, g, outs[out], c, G, R)
    BY <1>4, <1>9
  <2>1. /\ g.carriers = Put(f.carriers, [ds \in {out} |-> c])
        /\ InStep(outs[out].items, c.ids, c.mask, c.origins, OneRun(m), G, R)
        /\ Len(c.mask) = SizeIn(f.board, m.reads)
        /\ outs[out].short => ~AllOf(c.mask) \/ m.sub # <<>> \/ ShortIn(f.board, m.reads)
    BY <2>0 DEF Carries
  <2> DEFINE new == [ds \in {out} |-> c]
  <2>2. DOMAIN new = {out} /\ new[out] = c
    OBVIOUS
  <2> HIDE DEF new
  <2>3. g.carriers = Put(f.carriers, new)
    BY <2>1 DEF new
  <2>4. DOMAIN g.carriers = DOMAIN f.carriers \cup {out} /\ g.carriers[out] = c
    <3>1. out \in DOMAIN new
      BY <2>2
    <3>2. DOMAIN g.carriers = DOMAIN f.carriers \cup {out}
      BY <2>2, <2>3, PutDomain
    <3>3. g.carriers[out] = new[out]
      BY <2>3, <3>1, PutNew
    <3>4. QED
      BY <2>2, <3>2, <3>3
  <2>5. DOMAIN outs = {out}
    BY <1>4, <1>9
  <2>6. out \in DOMAIN g.board /\ g.board[out] = outs[out]
    BY <1>1, <1>3, <2>5, PutNew
  <2>7. m \in MapsTo(f, out) /\ \A k \in MapsTo(f, out) : k = m
    BY <1>1, <1>2, <1>9, MapsToOne
  <2>8. QED
    BY <2>1, <2>4, <2>6, <2>7
\* A data state that a map writes is not written by another milestone.
<1>10. ASSUME NEW ds \in DOMAIN g.carriers, ~(m.kind = "map" /\ ds = out)
       PROVE  /\ ds \in DOMAIN f.carriers /\ g.carriers[ds] = f.carriers[ds]
              /\ ds \in DOMAIN f.board /\ g.board[ds] = f.board[ds]
  <2>1. ds \in DOMAIN f.carriers
    BY <1>4, <1>9, <1>10
  <2>2. ds \in DOMAIN f.board /\ MapsTo(f, ds) # {}
    BY <1>2, <2>1 DEF CarriersOK
  <2>3. PICK k \in DOMAIN f.plan : f.plan[k].kind = "map" /\ Last(f.plan[k].writes) = ds
    BY <2>2 DEF MapsTo
  <2>4. k # n
    BY <1>10, <2>3
  <2>5. ds \in Range(f.plan[k].writes)
    <3>1. f.plan[k] \in Milestones
      BY <1>2
    <3>2. QED
      BY <2>3, <3>1, WritesAre
  <2>6. ds \notin Range(m.writes)
    BY <1>1, <2>4, <2>5
  <2>7. ds \notin DOMAIN outs
    BY <1>3, <2>6
  <2>8. QED
    BY <1>1, <2>1, <2>2, <2>6, <2>7
<1>11. CarriersOK(g, G, R)
  <2> DEFINE Kept(ds) ==
               /\ ds \in DOMAIN g.board
               /\ MapsTo(g, ds) # {}
               /\ InStep(g.board[ds].items, g.carriers[ds].ids, g.carriers[ds].mask,
                         g.carriers[ds].origins, \A k \in MapsTo(g, ds) : OneRun(k), G, R)
             Writes(ds) == m.kind = "map" /\ ds = out
  <2>1. ASSUME NEW ds \in DOMAIN g.carriers
        PROVE  Kept(ds)
    <3>1. CASE Writes(ds)
      <4>1. (\A k \in MapsTo(g, ds) : OneRun(k)) => OneRun(m)
        <5>1. m \in MapsTo(g, ds)
          BY <1>8, <1>9, <3>1, Zenon
        <5>2. QED
          BY <5>1, Zenon
      <4>2. InStep(g.board[ds].items, g.carriers[ds].ids, g.carriers[ds].mask,
                   g.carriers[ds].origins, OneRun(m), G, R)
        BY <1>9, <3>1, Zenon
      <4>3. InStep(g.board[ds].items, g.carriers[ds].ids, g.carriers[ds].mask,
                   g.carriers[ds].origins, \A k \in MapsTo(g, ds) : OneRun(k), G, R)
        BY <4>1, <4>2, InStepLess
      <4>4. QED
        BY <1>8, <1>9, <3>1, <4>3, Zenon
    <3>2. CASE ~Writes(ds)
      <4>1. /\ ds \in DOMAIN f.carriers /\ g.carriers[ds] = f.carriers[ds]
            /\ ds \in DOMAIN f.board /\ g.board[ds] = f.board[ds]
        BY <1>10, <3>2
      <4>2. /\ MapsTo(f, ds) # {}
            /\ InStep(f.board[ds].items, f.carriers[ds].ids, f.carriers[ds].mask,
                      f.carriers[ds].origins, \A k \in MapsTo(f, ds) : OneRun(k), G, R)
        BY <1>2, <4>1 DEF CarriersOK
      <4>3. ds \in DOMAIN g.board
        BY <1>1, <4>1
      <4>4. MapsTo(g, ds) = MapsTo(f, ds)
        BY <1>8
      <4>5. QED
        BY <4>1, <4>2, <4>3, <4>4, InStepLess
    <3> HIDE DEF Kept, Writes
    <3>3. QED
      BY <3>1, <3>2
  <2>2. QED
    BY <2>1 DEF CarriersOK
<1>12. MapsDone(g)
  <2>1. SUFFICES ASSUME NEW k \in DOMAIN f.plan, f.plan[k].kind = "map", k < n + 1
                 PROVE  LET o == Last(f.plan[k].writes)
                        IN /\ o \in DOMAIN g.carriers
                           /\ Len(g.carriers[o].mask) = SizeIn(g.board, f.plan[k].reads)
                           /\ g.board[o].short =>
                                \/ ~AllOf(g.carriers[o].mask)
                                \/ f.plan[k].sub # <<>>
                                \/ ShortIn(g.board, f.plan[k].reads)
    BY <1>3 DEF MapsDone
  <2> DEFINE o == Last(f.plan[k].writes)
             r == f.plan[k].reads
  <2>2. k <= n /\ k \in Nat /\ n \in Nat
    BY <1>2, <2>1
  <2>3. r \notin Range(m.writes) /\ r \notin DOMAIN outs
    BY <1>1, <1>3, <2>2
  <2>4. SizeIn(g.board, r) = SizeIn(f.board, r)
    BY <1>1, <2>3 DEF SizeIn
  <2>5. CASE k = n
    <3>1. (r \in DOMAIN f.board => g.board[r] = f.board[r]) /\ (r \in DOMAIN g.board <=> r \in DOMAIN f.board)
      BY <1>1, <2>3
    <3>2. g.board[o].short => \/ ~AllOf(g.carriers[o].mask) \/ m.sub # <<>> \/ ShortIn(f.board, r)
      BY <1>9, <2>1, <2>5
    <3>3. ShortIn(f.board, r) => ShortIn(g.board, r)
      BY <3>1 DEF ShortIn
    <3>4. QED
      BY <1>9, <2>1, <2>4, <2>5, <3>2, <3>3
  <2>6. CASE k < n
    <3>1. /\ o \in DOMAIN f.carriers
          /\ Len(f.carriers[o].mask) = SizeIn(f.board, r)
          /\ f.board[o].short => \/ ~AllOf(f.carriers[o].mask)
                                 \/ f.plan[k].sub # <<>>
                                 \/ ShortIn(f.board, r)
      BY <1>2, <2>1, <2>6 DEF MapsDone
    <3>2. o \in DOMAIN g.carriers
      BY <1>1, <3>1
    <3>3. ~(m.kind = "map" /\ o = out)
      <4>1. o \in Range(f.plan[k].writes)
        <5>1. f.plan[k] \in Milestones
          BY <1>2
        <5>2. QED
          BY <2>1, <5>1, WritesAre
      <4>2. k # n
        BY <2>2, <2>6
      <4>3. o \notin Range(m.writes)
        BY <1>1, <4>1, <4>2
      <4>4. m.kind = "map" => out \in Range(m.writes)
        BY <1>1, WritesAre
      <4>5. QED
        BY <4>3, <4>4
    <3>4. g.carriers[o] = f.carriers[o] /\ g.board[o] = f.board[o]
      BY <1>10, <3>2, <3>3
    <3>5. ShortIn(f.board, r) => ShortIn(g.board, r)
      BY <1>1, <2>3 DEF ShortIn
    <3>6. QED
      BY <2>4, <3>1, <3>2, <3>4, <3>5
  <2>7. QED
    BY <2>2, <2>5, <2>6
<1>13. QED
  BY <1>2, <1>3, <1>5, <1>6, <1>7, <1>11, <1>12 DEF FrameOK

\* What its folds have concluded stays whole.
LEMMA EndsFolds ==
    ASSUME NEW f, NEW g, NEW outs, NEW G, NEW R, NEW given, NEW S, NEW T,
           FrameOK(f, G, R), EndsAs(f, g, outs, G, R), Layered(f.plan, given),
           FoldsOK(f, S), \A k \in T : k < f.next => k \in S,
           LET m == f.plan[f.next]
           IN f.next \in T /\ m.kind = "fold" /\ Last(m.writes) \in DOMAIN g.board => DOMAIN outs # {}
    PROVE  FoldsOK(g, T)
<1> DEFINE n == f.next
           w == f.plan[n]
<1>1. /\ n \in DOMAIN f.plan /\ w \in Milestones
      /\ DOMAIN f.carriers \subseteq DOMAIN g.carriers
      /\ \A ds : ds \notin DOMAIN outs =>
           /\ ds \in DOMAIN g.board <=> ds \in DOMAIN f.board
           /\ ds \in DOMAIN f.board => g.board[ds] = f.board[ds]
      /\ \A ds : ds \notin Range(w.writes) =>
           /\ ds \in DOMAIN g.carriers <=> ds \in DOMAIN f.carriers
           /\ ds \in DOMAIN f.carriers => g.carriers[ds] = f.carriers[ds]
      /\ \A k \in DOMAIN f.plan : k # n => Range(f.plan[k].writes) \cap Range(w.writes) = {}
      /\ \A k \in DOMAIN f.plan : k <= n => f.plan[k].reads \notin Range(w.writes)
  BY EndsKeeps
<1>2. /\ f.plan \in Seq(Milestones) /\ n \in 1 .. Len(f.plan) /\ DOMAIN f.plan = 1 .. Len(f.plan)
      /\ CarriersOK(f, G, R) /\ MapsDone(f)
  BY DEF FrameOK, EndsAs
<1>3. /\ g.plan = f.plan /\ g.next = n + 1
      /\ g.board = Put(f.board, outs) /\ DOMAIN outs \subseteq Range(w.writes)
      /\ w.kind = "fold" /\ DOMAIN outs # {} => Whole(f, outs[Last(w.writes)])
  BY DEF EndsAs
<1>4. \A ds : MapsTo(g, ds) = MapsTo(f, ds)
  BY <1>3 DEF MapsTo
<1>5. \A k \in DOMAIN f.plan : k <= n =>
        /\ f.plan[k].reads \in DOMAIN g.board <=> f.plan[k].reads \in DOMAIN f.board
        /\ f.plan[k].reads \in DOMAIN f.board => g.board[f.plan[k].reads] = f.board[f.plan[k].reads]
        /\ f.plan[k].reads \in DOMAIN g.carriers <=> f.plan[k].reads \in DOMAIN f.carriers
        /\ f.plan[k].reads \in DOMAIN f.carriers => g.carriers[f.plan[k].reads] = f.carriers[f.plan[k].reads]
  BY <1>1, <1>3
\* A map whose collection a milestone up to here reads comes before it.
<1>6. ASSUME NEW k \in DOMAIN f.plan, k <= n, NEW map \in MapsTo(f, f.plan[k].reads)
      PROVE  \E j \in DOMAIN f.plan : /\ map = f.plan[j] /\ map.kind = "map" /\ j < k
                                      /\ Last(map.writes) = f.plan[k].reads
  <2>1. PICK j \in DOMAIN f.plan : /\ map = f.plan[j] /\ map.kind = "map"
                                   /\ Last(map.writes) = f.plan[k].reads
    BY <1>6 DEF MapsTo
  <2>2. f.plan[j] \in Milestones
    BY <1>2
  <2>3. Last(f.plan[j].writes) \in Range(f.plan[j].writes)
    BY <2>1, <2>2, WritesAre
  <2>4. k <= j => Range(f.plan[j].writes) \cap Needs(f.plan[k]) = {}
    BY DEF Layered
  <2>5. ~(k <= j)
    BY <2>1, <2>3, <2>4 DEF Needs
  <2>6. QED
    BY <1>2, <2>1, <2>5
<1>7. ASSUME NEW k \in DOMAIN f.plan, k <= n, NEW map \in MapsTo(f, f.plan[k].reads)
      PROVE  ShortIn(f.board, map.reads) => ShortIn(g.board, map.reads)
  <2>1. PICK j \in DOMAIN f.plan : map = f.plan[j] /\ j < k
    BY <1>6, <1>7
  <2>2. j <= n
    BY <1>2, <1>7, <2>1
  <2>3. QED
    BY <1>5, <2>1, <2>2 DEF ShortIn
<1>8. SUFFICES ASSUME NEW k \in DOMAIN f.plan, k \in T, k < n + 1, f.plan[k].kind = "fold",
                      Last(f.plan[k].writes) \in DOMAIN g.board
               PROVE  LET m == f.plan[k]
                          v == g.board[Last(m.writes)]
                      IN /\ m.reads \in DOMAIN g.board /\ v.from = g.board[m.reads].by
                         /\ m.reads \in DOMAIN g.carriers =>
                              /\ AllOf(g.carriers[m.reads].mask)
                              /\ v.short => \E map \in MapsTo(f, m.reads) :
                                              map.sub # <<>> \/ ShortIn(g.board, map.reads)
  BY <1>3, <1>4 DEF FoldsOK
<1> DEFINE m == f.plan[k]
           out == Last(m.writes)
<1>9. k <= n /\ k \in Nat /\ n \in Nat /\ m \in Milestones /\ out \in Range(m.writes)
  <2>1. k <= n /\ k \in Nat /\ n \in Nat /\ m \in Milestones
    BY <1>2, <1>8
  <2>2. QED
    BY <1>8, <2>1, WritesAre
<1>10. CASE k = n
  <2>1. DOMAIN outs # {}
    BY <1>8, <1>10
  <2>2. Whole(f, outs[out]) /\ Range(m.writes) = {out}
    BY <1>3, <1>8, <1>9, <1>10, <2>1, WritesAre
  <2>3. out \in DOMAIN outs
    BY <1>3, <1>10, <2>1, <2>2
  <2>4. g.board[out] = outs[out]
    BY <1>3, <2>3, PutNew
  <2>5. /\ m.reads \in DOMAIN f.board /\ outs[out].from = f.board[m.reads].by
        /\ m.reads \in DOMAIN f.carriers => AllOf(f.carriers[m.reads].mask)
        /\ outs[out].short = f.board[m.reads].short
    BY <1>10, <2>2 DEF Whole
  <2>6. ASSUME m.reads \in DOMAIN f.carriers, f.board[m.reads].short
        PROVE  \E map \in MapsTo(f, m.reads) : map.sub # <<>> \/ ShortIn(f.board, map.reads)
    <3>1. PICK map : map \in MapsTo(f, m.reads)
      BY <1>2, <2>6 DEF CarriersOK
    <3>2. PICK j \in DOMAIN f.plan : /\ map = f.plan[j] /\ map.kind = "map" /\ j < k
                                     /\ Last(map.writes) = m.reads
      BY <1>6, <1>9, <3>1
    <3>3. \/ ~AllOf(f.carriers[m.reads].mask)
          \/ f.plan[j].sub # <<>>
          \/ ShortIn(f.board, f.plan[j].reads)
      BY <1>2, <1>10, <2>6, <3>2 DEF MapsDone
    <3>4. QED
      BY <2>5, <2>6, <3>1, <3>2, <3>3
  <2>7. QED
    BY <1>5, <1>7, <1>9, <2>4, <2>5, <2>6
<1>11. CASE k # n
  <2>1. k < n /\ k \in S
    BY <1>8, <1>9, <1>11
  <2>2. out \notin DOMAIN outs
    BY <1>1, <1>3, <1>9, <1>11
  <2>3. out \in DOMAIN f.board /\ g.board[out] = f.board[out]
    BY <1>1, <1>8, <2>2
  <2>4. /\ m.reads \in DOMAIN f.board /\ f.board[out].from = f.board[m.reads].by
        /\ m.reads \in DOMAIN f.carriers =>
             /\ AllOf(f.carriers[m.reads].mask)
             /\ f.board[out].short => \E map \in MapsTo(f, m.reads) :
                                         map.sub # <<>> \/ ShortIn(f.board, map.reads)
    <3>1. k \in DOMAIN f.plan \cap S /\ k < f.next /\ m.kind = "fold" /\ out \in DOMAIN f.board
      BY <1>8, <2>1, <2>3
    <3>2. QED
      BY <3>1, Zenon DEF FoldsOK
  <2>5. QED
    BY <1>5, <1>7, <1>9, <2>3, <2>4
<1>12. QED
  BY <1>10, <1>11

\* An entry of a sequence.
LEMMA EntryIs ==
    ASSUME NEW S, NEW s \in Seq(S), NEW i \in 1 .. Len(s)
    PROVE  s[i] \in S
OBVIOUS

\* The graph of a leaf or a fold that completed is the last one collected.
MadeLast(f, g, outs) ==
  LET m == f.plan[f.next]
      n == Len(g.slice)
  IN g.last = "completed" /\ m.kind \in {"leaf", "fold"} =>
       /\ n > 0 /\ Last(m.writes) \in g.slice[n].made
       /\ outs[Last(m.writes)].by = <<g.slice[n].run>>

\* A milestone of a sub_plan has ended.
LEMMA EndsWithin ==
    ASSUME NEW p, NEW f, NEW g, NEW outs, NEW G, NEW R, NEW failed,
           FrameOK(p, G, R), FrameOK(f, G, R), EndsAs(f, g, outs, G, R), Within(p, f, failed),
           MadeLast(f, g, outs)
    PROVE  Within(p, g, failed) /\ Layered(f.plan, GivenBy(p))
<1> DEFINE n == f.next
           m == f.plan[n]
           given == GivenBy(p)
<1>1. /\ p.next <= Len(p.plan) /\ p.fan.open /\ p.fan.at <= p.fan.size
      /\ p.plan[p.next].sub # <<>> /\ f.plan = p.plan[p.next].sub
      /\ InnerOK(f, given, failed)
  BY DEF Within
<1>2. p.plan[p.next] \in Milestones
  <2>1. p.plan \in Seq(Milestones) /\ p.next \in 1 .. Len(p.plan)
    <3>1. p.plan \in Seq(Milestones) /\ p.next \in 1 .. Len(p.plan) + 1
      BY DEF FrameOK
    <3>2. QED
      BY <1>1, <3>1
  <2>2. QED
    BY <2>1, EntryIs, Zenon
<1>3. Layered(f.plan, given) /\ Last(f.plan).kind # "notional"
  BY <1>1, <1>2, WritesAre DEF GivenBy
<1> HIDE DEF given
<1>4. /\ n \in DOMAIN f.plan /\ m \in Milestones
      /\ DOMAIN g.board = DOMAIN f.board \cup DOMAIN outs
      /\ \A ds : ds \notin DOMAIN outs =>
           /\ ds \in DOMAIN g.board <=> ds \in DOMAIN f.board
           /\ ds \in DOMAIN f.board => g.board[ds] = f.board[ds]
      /\ \A k \in DOMAIN f.plan : k # n => Range(f.plan[k].writes) \cap DOMAIN outs = {}
      /\ given \cap DOMAIN outs = {}
  BY <1>3, EndsKeeps
<1>5. /\ f.plan \in Seq(Milestones) /\ n \in 1 .. Len(f.plan) /\ DOMAIN f.plan = 1 .. Len(f.plan)
  BY DEF FrameOK, EndsAs
<1>6. /\ g.plan = f.plan /\ g.next = n + 1 /\ g.only = 0
      /\ g.board = Put(f.board, outs) /\ DOMAIN outs \subseteq Range(m.writes)
      /\ m.kind # "notional" /\ g.last = "completed" => Last(m.writes) \in DOMAIN outs
      /\ \A ds \in DOMAIN outs :
          \/ IsTrue(outs[ds])
          \/ m.kind = "leaf" /\ g.last = "failed" /\ ds \in DOMAIN f.board
  BY Zenon DEF EndsAs
<1>7. /\ Unwritten(f) /\ FoldsOK(f, DOMAIN f.plan)
      /\ \A ds \in DOMAIN f.board : \/ IsTrue(f.board[ds])
                                    \/ ds \in given /\ (IsPartOfTruth(f.board[ds]) \/ failed)
  BY <1>1 DEF InnerOK
<1>8. Range(m.writes) \cap DOMAIN f.board = {}
  BY <1>4, <1>5, <1>7 DEF Unwritten
<1>9. Unwritten(g)
  <2>1. ASSUME NEW k \in DOMAIN f.plan, k >= n + 1
        PROVE  Range(f.plan[k].writes) \cap DOMAIN g.board = {}
    <3>1. k # n /\ k >= n
      BY <1>5, <2>1
    <3>2. QED
      BY <1>4, <1>7, <3>1 DEF Unwritten
  <2>2. QED
    BY <1>6, <2>1 DEF Unwritten
<1>10. ASSUME NEW ds \in DOMAIN g.board
       PROVE  \/ IsTrue(g.board[ds])
              \/ ds \in given /\ (IsPartOfTruth(g.board[ds]) \/ failed)
  <2>1. CASE ds \in DOMAIN outs
    <3>1. g.board[ds] = outs[ds]
      BY <1>6, <2>1, PutNew
    <3>2. ds \notin DOMAIN f.board
      BY <1>6, <1>8, <2>1
    <3>3. QED
      BY <1>6, <2>1, <3>1, <3>2
  <2>2. CASE ds \notin DOMAIN outs
    BY <1>4, <1>7, <2>2
  <2>3. QED
    BY <2>1, <2>2
<1>11. FoldsOK(g, DOMAIN g.plan)
  <2>1. m.kind = "fold" /\ Last(m.writes) \in DOMAIN g.board => DOMAIN outs # {}
    <3>1. m.kind = "fold" => Last(m.writes) \notin DOMAIN f.board
      BY <1>4, <1>8, WritesAre
    <3>2. QED
      BY <1>4, <3>1
  <2>2. \A k \in DOMAIN f.plan : k < n => k \in DOMAIN f.plan
    OBVIOUS
  <2>3. FoldsOK(g, DOMAIN f.plan)
    BY <1>3, <1>7, <2>1, <2>2, EndsFolds
  <2>4. QED
    BY <1>6, <2>3
<1>12. Terminal(g)
  <2>1. SUFFICES ASSUME n + 1 > Len(f.plan), g.last = "completed", Last(f.plan).kind # "map"
                 PROVE  LET target == Last(Last(f.plan).writes)
                            q == Len(g.slice)
                        IN q > 0 /\ target \in g.slice[q].made /\ g.board[target].by = <<g.slice[q].run>>
    BY <1>6 DEF Terminal
  <2>2. n = Len(f.plan)
    BY <1>5, <2>1
  <2>3. Last(f.plan) = m
    BY <2>2 DEF Last
  <2>4. m.kind \in {"leaf", "fold"}
    BY <1>3, <1>4, <2>1, <2>3, WritesAre
  <2>5. Last(m.writes) \in DOMAIN outs
    BY <1>6, <2>1, <2>4
  <2>6. g.board[Last(m.writes)] = outs[Last(m.writes)]
    BY <1>6, <2>5, PutNew
  <2>7. QED
    BY <2>1, <2>3, <2>4, <2>6 DEF MadeLast
<1>13. InnerOK(g, given, failed)
  BY <1>6, <1>9, <1>10, <1>11, <1>12 DEF InnerOK
<1>14. QED
  <2>1. Layered(f.plan, GivenBy(p))
    BY <1>3 DEF given
  <2>2. InnerOK(g, GivenBy(p), failed)
    BY <1>13 DEF given
  <2>3. g.plan = p.plan[p.next].sub
    BY <1>1, <1>6
  <2>4. QED
    BY <1>1, <2>1, <2>2, <2>3, Zenon DEF Within

-----------------------------------------------------------------------------
\* The members of a map.
SameBut(f, g) ==
  /\ IsFrame(g) /\ g.plan = f.plan /\ g.path = f.path /\ g.next = f.next /\ g.only = f.only
  /\ g.board = f.board /\ g.carriers = f.carriers /\ g.last = f.last

\* A frame whose map goes on stays in step.
LEMMA FanChanges ==
    ASSUME NEW f, NEW g, NEW G, NEW R, FrameOK(f, G, R), SameBut(f, g),
           g.slice \in Slices, \A i \in 1 .. Len(g.slice) : g.slice[i].run \in G,
           g.fan \in Fans(R), FanOK(g, G, R)
    PROVE  FrameOK(g, G, R)
<1>1. CarriersOK(g, G, R)
  <2>1. \A ds : MapsTo(g, ds) = MapsTo(f, ds)
    BY DEF SameBut, MapsTo
  <2>2. CarriersOK(f, G, R) /\ g.board = f.board /\ g.carriers = f.carriers
    BY DEF FrameOK, SameBut
  <2>3. ASSUME NEW ds \in DOMAIN g.carriers
        PROVE  /\ MapsTo(g, ds) # {}
               /\ InStep(g.board[ds].items, g.carriers[ds].ids, g.carriers[ds].mask,
                         g.carriers[ds].origins, \A m \in MapsTo(g, ds) : OneRun(m), G, R)
    <3>1. MapsTo(g, ds) = MapsTo(f, ds)
      BY <2>1
    <3>2. QED
      BY <2>2, <3>1, InStepLess DEF CarriersOK
  <2>4. QED
    BY <2>2, <2>3 DEF CarriersOK
<1>2. MapsDone(g)
  <2>1. MapsDone(f)
    BY DEF FrameOK
  <2>2. QED
    BY <2>1 DEF MapsDone, SameBut
<1>3. QED
  BY <1>1, <1>2 DEF FrameOK, SameBut

\* It stays what the frame below it runs.
LEMMA FanWithin ==
    ASSUME NEW p, NEW f, NEW g, NEW failed, NEW G, NEW R, FrameOK(f, G, R),
           Within(p, f, failed), SameBut(f, g), f.next <= Len(f.plan)
    PROVE  Within(p, g, failed)
<1>1. FoldsOK(f, DOMAIN f.plan) /\ Unwritten(f) /\ f.only = 0
      /\ \A ds \in DOMAIN f.board : \/ IsTrue(f.board[ds])
                                    \/ ds \in GivenBy(p) /\ (IsPartOfTruth(f.board[ds]) \/ failed)
  BY DEF Within, InnerOK
<1>2. g.plan = f.plan /\ g.next = f.next /\ g.only = f.only /\ g.board = f.board
      /\ g.carriers = f.carriers
  BY DEF SameBut
<1>3. Terminal(g)
  <2>1. f.next \in Nat /\ Len(f.plan) \in Nat
    BY DEF FrameOK
  <2>2. QED
    BY <1>2, <2>1 DEF Terminal
<1>4. FoldsOK(g, DOMAIN g.plan)
  <2>1. \A ds : MapsTo(g, ds) = MapsTo(f, ds)
    BY <1>2 DEF MapsTo
  <2>2. QED
    BY <1>1, <1>2, <2>1 DEF FoldsOK
<1>5. Unwritten(g)
  BY <1>1, <1>2 DEF Unwritten
<1>6. InnerOK(g, GivenBy(p), failed)
  BY <1>1, <1>2, <1>3, <1>4, <1>5 DEF InnerOK
<1>7. QED
  BY <1>2, <1>6 DEF Within

\* A member of the map that f is at has ended: g is what comes of it.
\* The frame f at a member, h, and what the member has made.
Made(fan) == [fan EXCEPT !.composed = TRUE]
MemberStarts(f, h, G, R) ==
  /\ SameBut(f, h) /\ (h.fan = f.fan \/ h.fan = Made(f.fan))
  /\ h.slice \in Slices /\ \A i \in 1 .. Len(h.slice) : h.slice[i].run \in G
MemberMade(m, by, said, id, completed, short, G, R) ==
  /\ by \in Seq(R) /\ said \in Said(R) \cup {Nothing} /\ id \in Reference
  /\ id \in G \cup {NoRun}
  /\ completed => /\ said \in Said(R)
                  /\ said.kind = "produced" => said.by = by
                  /\ OneRun(m) => by = <<id>>
  /\ short => m.sub # <<>>

\* A member ends: values, masks, graphs and origins get one entry each.
LEMMA MemberEndsFrame ==
    ASSUME NEW f, NEW h, NEW G, NEW R, FrameOK(f, G, R), MemberStarts(f, h, G, R),
           f.next <= Len(f.plan), f.fan.open, f.fan.at <= f.fan.size,
           NEW by, NEW said, NEW id, NEW completed \in BOOLEAN, NEW short \in BOOLEAN,
           MemberMade(f.plan[f.next], by, said, id, completed, short, G, R)
    PROVE  LET g == MemberEnds(h, by, said, id, completed, short)
           IN FrameOK(g, G, R) /\ SameBut(f, g) /\ g.fan.at = f.fan.at + 1 /\ g.fan.open
              /\ g.fan.size = f.fan.size
<1> DEFINE g == MemberEnds(h, by, said, id, completed, short)
           m == f.plan[f.next]
<1>a. /\ SameBut(f, h) /\ (h.fan = f.fan \/ h.fan = Made(f.fan))
      /\ h.slice \in Slices /\ \A i \in 1 .. Len(h.slice) : h.slice[i].run \in G
  BY DEF MemberStarts
<1>b. /\ by \in Seq(R) /\ said \in Said(R) \cup {Nothing} /\ id \in Reference
      /\ id \in G \cup {NoRun}
      /\ completed => /\ said \in Said(R)
                      /\ said.kind = "produced" => said.by = by
                      /\ OneRun(f.plan[f.next]) => by = <<id>>
      /\ short => f.plan[f.next].sub # <<>>
  BY DEF MemberMade
<1> USE <1>a, <1>b
<1>1. h.fan \in Fans(R) /\ h.fan.open /\ h.fan.size = f.fan.size /\ h.fan.at = f.fan.at
      /\ h.fan.items = f.fan.items /\ h.fan.ids = f.fan.ids /\ h.fan.mask = f.fan.mask
      /\ h.fan.origins = f.fan.origins /\ h.fan.short = f.fan.short
  <2>1. f.fan \in Fans(R)
    BY DEF FrameOK
  <2>2. QED
    BY <2>1 DEF Fans, Made
<1>2. IsFrame(h)
  BY DEF SameBut
<1>3. /\ SameBut(h, g) /\ g.slice = h.slice /\ g.fan \in Fans(R)
      /\ g.fan.open = h.fan.open /\ g.fan.size = h.fan.size
      /\ g.fan.at = h.fan.at + 1 /\ g.fan.retry = 0
      /\ g.fan.items = (IF completed THEN Append(h.fan.items, by) ELSE h.fan.items)
      /\ g.fan.ids = Append(h.fan.ids, id) /\ g.fan.mask = Append(h.fan.mask, completed)
      /\ g.fan.origins = Append(h.fan.origins, IF completed THEN said ELSE Nothing)
      /\ (g.fan.short <=> (h.fan.short \/ short))
  <2> DEFINE fan == h.fan
             new == [fan EXCEPT !.at = @ + 1, !.retry = 0,
                     !.items = IF completed THEN Append(@, by) ELSE @,
                     !.ids = Append(@, id), !.mask = Append(@, completed),
                     !.origins = Append(@, IF completed THEN said ELSE Nothing),
                     !.short = @ \/ short]
  <2>1. g = [h EXCEPT !.fan = new]
    BY DEF MemberEnds
  <2>2. /\ fan.at \in Nat /\ fan.items \in Seq(Seq(R)) /\ fan.ids \in Seq(Reference)
        /\ fan.mask \in Seq(BOOLEAN) /\ fan.origins \in Seq(Said(R) \cup {Nothing})
        /\ fan.short \in BOOLEAN /\ fan \in Fans(R)
    BY <1>1 DEF Fans
  <2>3. /\ fan.at + 1 \in Nat /\ 0 \in Nat
        /\ (IF completed THEN Append(fan.items, by) ELSE fan.items) \in Seq(Seq(R))
        /\ Append(fan.ids, id) \in Seq(Reference) /\ Append(fan.mask, completed) \in Seq(BOOLEAN)
        /\ (fan.short \/ short) \in BOOLEAN
    BY <2>2
  <2>4. Append(fan.origins, IF completed THEN said ELSE Nothing) \in Seq(Said(R) \cup {Nothing})
    <3>1. (IF completed THEN said ELSE Nothing) \in Said(R) \cup {Nothing}
      OBVIOUS
    <3>2. QED
      BY <2>2, <3>1
  <2>5. /\ new.open = fan.open /\ new.size = fan.size
        /\ new.at = fan.at + 1 /\ new.retry = 0
        /\ new.items = (IF completed THEN Append(fan.items, by) ELSE fan.items)
        /\ new.ids = Append(fan.ids, id) /\ new.mask = Append(fan.mask, completed)
        /\ new.origins = Append(fan.origins, IF completed THEN said ELSE Nothing)
        /\ new.short = (fan.short \/ short)
    BY <2>2 DEF Fans
  <2>6. new \in Fans(R)
    BY <2>2, <2>3, <2>4 DEF Fans
  <2> HIDE DEF new, fan
  <2>7. SameBut(h, [h EXCEPT !.fan = new]) /\ [h EXCEPT !.fan = new].fan = new
        /\ [h EXCEPT !.fan = new].slice = h.slice
    BY <1>2 DEF SameBut, IsFrame
  <2> HIDE DEF g
  <2>8. QED
    BY <1>2, <2>1, <2>5, <2>6, <2>7 DEF fan
<1> HIDE DEF g
<1>4. SameBut(f, g)
  BY <1>3 DEF SameBut
<1>5. FanOK(f, G, R) /\ f.fan \in Fans(R) /\ f.only \in Nat
  BY RequestConstants DEF FrameOK
<1>6. /\ m.kind = "map" /\ m.shared \subseteq DOMAIN f.board
      /\ FirstMember(f) <= f.fan.at
      /\ f.fan.size = (IF f.only = 0 THEN SizeIn(f.board, m.reads) ELSE f.only)
      /\ f.only <= SizeIn(f.board, m.reads)
      /\ FirstMember(f) + Len(f.fan.mask) = f.fan.at
      /\ InStep(f.fan.items, f.fan.ids, f.fan.mask, f.fan.origins, OneRun(m), G, R)
      /\ f.fan.short => m.sub # <<>>
  BY <1>5 DEF FanOK
<1>7. f.fan.at \in Nat /\ f.fan.size \in Nat /\ f.fan.mask \in Seq(BOOLEAN)
      /\ f.fan.short \in BOOLEAN
  BY <1>5 DEF Fans
<1>8. InStep(g.fan.items, g.fan.ids, g.fan.mask, g.fan.origins, OneRun(m), G, R)
  <2>1. CASE completed
    <3>1. g.fan.items = Append(f.fan.items, by) /\ g.fan.ids = Append(f.fan.ids, id)
          /\ g.fan.mask = Append(f.fan.mask, TRUE) /\ g.fan.origins = Append(f.fan.origins, said)
      BY <1>1, <1>3, <2>1
    <3>2. InStep(Append(f.fan.items, by), Append(f.fan.ids, id), Append(f.fan.mask, TRUE),
                 Append(f.fan.origins, said), OneRun(m), G, R)
      <4>1. said \in Said(R) /\ (said.kind = "produced" => said.by = by)
            /\ (OneRun(m) => by = <<id>>)
        BY <2>1
      <4>2. QED
        BY <1>6, <4>1, InStepCompletes
    <3>3. QED
      BY <3>1, <3>2
  <2>2. CASE ~completed
    <3>1. g.fan.items = f.fan.items /\ g.fan.ids = Append(f.fan.ids, id)
          /\ g.fan.mask = Append(f.fan.mask, FALSE) /\ g.fan.origins = Append(f.fan.origins, Nothing)
      BY <1>1, <1>3, <2>2
    <3>2. InStep(f.fan.items, Append(f.fan.ids, id), Append(f.fan.mask, FALSE),
                 Append(f.fan.origins, Nothing), OneRun(m), G, R)
      BY <1>6, InStepStops
    <3>3. QED
      BY <3>1, <3>2
  <2>3. QED
    BY <2>1, <2>2
<1>9. FirstMember(g) <= g.fan.at /\ g.fan.at <= g.fan.size + 1
      /\ FirstMember(g) + Len(g.fan.mask) = g.fan.at
  <2>1. Len(g.fan.mask) = Len(f.fan.mask) + 1 /\ Len(f.fan.mask) \in Nat
    BY <1>1, <1>3, <1>7
  <2>2. FirstMember(g) = FirstMember(f) /\ FirstMember(f) \in Nat
    BY <1>4, <1>5 DEF FirstMember, SameBut
  <2>3. g.fan.at = f.fan.at + 1 /\ g.fan.size = f.fan.size
    BY <1>1, <1>3
  <2>4. FirstMember(f) <= f.fan.at /\ FirstMember(f) + Len(f.fan.mask) = f.fan.at
        /\ f.fan.at <= f.fan.size /\ f.fan.at \in Nat /\ f.fan.size \in Nat
    BY <1>6, <1>7
  <2> DEFINE a == f.fan.at
             b == FirstMember(f)
             c == Len(f.fan.mask)
             s == f.fan.size
  <2>5. b <= a /\ b + c = a /\ a <= s /\ a \in Nat /\ b \in Nat /\ c \in Nat /\ s \in Nat
    BY <2>1, <2>2, <2>4
  <2>6. FirstMember(g) = b /\ g.fan.at = a + 1 /\ g.fan.size = s /\ Len(g.fan.mask) = c + 1
    BY <2>1, <2>2, <2>3
  <2> HIDE DEF a, b, c, s
  <2>7. QED
    BY <2>5, <2>6
<1>10. FanOK(g, G, R)
  <2>1. g.fan.open /\ g.fan.retry < RetryCap /\ (g.fan.short => m.sub # <<>>)
    <3>1. 0 < RetryCap
      BY RequestConstants
    <3>2. QED
      BY <1>1, <1>3, <1>6, <1>7, <3>1
  <2>2. g.plan[g.next] = m /\ g.next = f.next /\ g.plan = f.plan /\ g.board = f.board
        /\ g.only = f.only
    BY <1>4 DEF SameBut
  <2>3. g.fan.size = f.fan.size
    BY <1>1, <1>3
  <2>4. QED
    BY <1>6, <1>8, <1>9, <2>1, <2>2, <2>3 DEF FanOK
<1>11. FrameOK(g, G, R)
  BY <1>3, <1>4, <1>10, FanChanges
<1>12. QED
  BY <1>1, <1>3, <1>4, <1>11 DEF g

\* A new frame, for the sub_plan of a member.
LEMMA NewFrame ==
    ASSUME NEW p, NEW f, NEW G, NEW R, NEW failed, NEW board, NEW path \in Seq(Nat),
           FrameOK(p, G, R), p.next <= Len(p.plan), p.fan.open, p.fan.at <= p.fan.size,
           p.plan[p.next].sub # <<>>, f = Frame(p.plan[p.next].sub, path, board),
           DOMAIN board = GivenBy(p), BoardOK(board, R),
           \A ds \in DOMAIN board : IsTrue(board[ds]) \/ IsPartOfTruth(board[ds]) \/ failed
    PROVE  FrameOK(f, G, R) /\ Within(p, f, failed)
<1> DEFINE m == p.plan[p.next]
<1>1. m \in Milestones
  <2>1. p.plan \in Seq(Milestones) /\ p.next \in 1 .. Len(p.plan)
    BY DEF FrameOK
  <2>2. QED
    BY <2>1
<1>2. m.sub \in Seq(Milestones) /\ Layered(m.sub, GivenBy(p)) /\ Len(m.sub) \in Nat /\ Len(m.sub) > 0
  <2>1. m.sub \in Seq(Milestones) /\ Layered(m.sub, GivenBy(p))
    BY <1>1, WritesAre DEF GivenBy
  <2>2. QED
    BY <2>1
<1>3. /\ IsFrame(f) /\ f.plan = m.sub /\ f.path = path /\ f.next = 1 /\ f.only = 0
      /\ f.board = board /\ f.carriers = <<>> /\ f.fan = NoFan /\ f.last = Nowhere
      /\ f.slice = <<>>
  BY DEF Frame, IsFrame
<1>4. DOMAIN f.carriers = {} /\ Len(f.slice) = 0 /\ f.slice \in Slices
  BY <1>3 DEF Slices
<1>5. f.fan \in Fans(R) /\ FanOK(f, G, R)
  <2>1. NoFan \in Fans(R) /\ NoFan.open = FALSE
    <3>1. NoFan \in Fans(R)
      BY DEF NoFan, Fans
    <3>2. NoFan.open = FALSE
      BY DEF NoFan
    <3>3. QED
      BY <3>1, <3>2
  <2>2. QED
    BY <1>3, <2>1 DEF FanOK
<1>6. MapsDone(f)
  <2>1. \A k \in DOMAIN f.plan : ~(k < f.next) /\ ~(k = f.next /\ f.only > 0)
    BY <1>2, <1>3
  <2>2. QED
    BY <2>1, Zenon DEF MapsDone
<1>7. CarriersOK(f, G, R)
  BY <1>4 DEF CarriersOK
<1>8. FrameOK(f, G, R)
  <2>1. f.next \in 1 .. Len(f.plan) + 1 /\ f.only \in 0 .. MaxSize + 1 /\ f.last \in Outcomes
    BY <1>2, <1>3, RequestConstants DEF Outcomes
  <2>2. \A i \in 1 .. Len(f.slice) : f.slice[i].run \in G
    BY <1>4
  <2>3. QED
    BY <1>2, <1>3, <1>4, <1>5, <1>6, <1>7, <2>1, <2>2 DEF FrameOK
<1>9. InnerOK(f, GivenBy(p), failed)
  <2>1. Terminal(f)
    <3>1. ~(f.next > Len(f.plan))
      BY <1>2, <1>3
    <3>2. QED
      BY <3>1, Zenon DEF Terminal
  <2>2. Unwritten(f)
    BY <1>2, <1>3, Zenon DEF Unwritten, Layered
  <2>3. FoldsOK(f, DOMAIN f.plan)
    <3>1. \A k \in DOMAIN f.plan : ~(k < f.next)
      BY <1>2, <1>3
    <3>2. QED
      BY <3>1, Zenon DEF FoldsOK
  <2>4. QED
    BY <1>3, <2>1, <2>2, <2>3, Zenon DEF InnerOK
<1>10. QED
  BY <1>3, <1>8, <1>9 DEF Within

-----------------------------------------------------------------------------
\* The invariant.
Recent == {r \in Reference : r.attempt >= since}
Stored == Range(graphs)
Failed == \E k \in DOMAIN plan : LeafFailed(k)

\* The frame of the plan itself.
TopOK ==
  /\ Top.plan = plan /\ Top.path = <<>> /\ Top.slice = <<>>
  /\ FoldsOK(Top, {k \in DOMAIN plan : Ended(k) = "completed"})
  /\ \A ds \in DOMAIN Top.board :
       \/ IsTrue(Top.board[ds])
       \/ \E k \in DOMAIN plan : /\ ds \in Range(plan[k].writes)
                                 /\ LeafFailed(k) \/ ToRunAgain(k)
\* What has been run of the plan, and what was read where it was written.
HasMade(j) ==
  /\ plan[j].kind # "notional"
  /\ Ended(j) = "completed" \/ (Ended(j) = "stopped" /\ plan[j].kind = "map")
LastOK ==
  /\ DOMAIN last = DOMAIN plan
  /\ \A k \in DOMAIN plan : k >= Top.next => last[k] = None
  /\ \A j \in DOMAIN plan : HasMade(j) => Out(j) \in DOMAIN Top.board
  /\ \A k, j \in DOMAIN plan :
       Ended(k) = "completed" /\ plan[k].kind # "notional" /\ HasMade(j) /\ Out(j) = plan[k].reads
         => Top.board[Out(k)].from = Top.board[Out(j)].by

\* A run whose graph is there comes before what is being run.
Behind(p, f) ==
  LET n == Len(f.path)
  IN /\ Len(p) > n /\ \A i \in 1 .. n : p[i] = f.path[i]
     /\ \/ p[n + 1] < f.next
        \/ p[n + 1] = f.next /\ f.fan.open /\ Len(p) > n + 1 /\ p[n + 2] < f.fan.at
Passed(g) == status = "running" /\ g.attempt = attempt =>
               \E d \in 1 .. Len(frames) : Behind(g.path, frames[d])
GraphsOK ==
  /\ graphs \in Seq(Reference) /\ IsInjective(graphs)
  /\ \A i \in 1 .. Len(graphs) : graphs[i].attempt <= attempt /\ Passed(graphs[i])

\* The record has the milestones of the plan in their order, each no earlier
\* than its position; where no sub_plan comes before, at its position.
SubMap(m) == plan[m].kind = "map" /\ plan[m].sub # <<>>
Runs == [path : Seq(Nat), attempt : Nat, status : Outcomes]
RecordOK ==
  /\ record \in Seq(Runs) /\ Len(record) >= Top.next - 1
  /\ \A q \in 1 .. Len(record) : Len(record[q].path) > 0
  /\ \A q \in 1 .. Len(record) : Len(record[q].path) = 1 =>
       LET k == record[q].path[1]
       IN /\ k \in 1 .. Top.next - 1 /\ k <= q
          /\ last[k] = [attempt |-> record[q].attempt, status |-> record[q].status]
  /\ \A q \in 1 .. Top.next - 1 :
       (\A m \in 1 .. q : ~SubMap(m)) => record[q].path = <<q>>
  /\ (\A m \in DOMAIN plan : m <= Top.next => ~SubMap(m)) => Len(record) = Top.next - 1
  /\ lost \subseteq 1 .. Top.next - 1
  /\ \A k \in 1 .. Top.next - 1 :
       \/ \E q \in 1 .. Len(record) : record[q].path = <<k>>
       \/ k \in lost /\ \E m \in 1 .. k : SubMap(m)

StatusOK ==
  /\ status \in {"running", "raised", "completed", "conceded", "dont_know"}
  /\ why # "carriers"
  /\ status = "conceded" => why = "abort" \/ StoppedShort
  /\ status = "dont_know" => ~StoppedShort

RequestInv ==
  /\ plan \in Plans /\ attempt \in 0 .. Budget /\ since \in 0 .. attempt /\ size \in 0 .. MaxSize
  /\ Tower(frames, Stored, Recent, Failed)
  /\ TopOK /\ LastOK /\ GraphsOK /\ RecordOK /\ StatusOK

-----------------------------------------------------------------------------
\* What the invariant says of the frame that is running.
LEMMA HereIs ==
    ASSUME RequestInv
    PROVE  /\ Len(frames) \in Nat /\ Len(frames) > 0 /\ Here = frames[Len(frames)]
           /\ DOMAIN frames = 1 .. Len(frames) /\ Top = frames[1]
           /\ FrameOK(Here, Stored, Recent) /\ FrameOK(Top, Stored, Recent)
           /\ \E given : Layered(Here.plan, given)
           /\ Layered(plan, {Seed}) /\ plan \in Seq(Milestones) /\ Len(plan) \in Nat /\ Len(plan) > 0
           /\ Len(frames) > 1 => Within(frames[Len(frames) - 1], Here, Failed)
           /\ Len(frames) = 1 => Here = Top
<1>1. Tower(frames, Stored, Recent, Failed) /\ TopOK /\ plan \in Plans
  BY DEF RequestInv
<1>2. Len(frames) \in Nat /\ Len(frames) > 0 /\ DOMAIN frames = 1 .. Len(frames)
  BY <1>1 DEF Tower
<1>3. Here = frames[Len(frames)] /\ Top = frames[1]
  BY DEF Here, Last, Top
<1>4. \A d \in 1 .. Len(frames) : FrameOK(frames[d], Stored, Recent)
  BY <1>1 DEF Tower
<1>5. FrameOK(frames[Len(frames)], Stored, Recent) /\ FrameOK(frames[1], Stored, Recent)
  BY <1>2, <1>4
<1>6. Layered(plan, {Seed}) /\ plan \in Seq(Milestones) /\ plan # <<>>
  BY <1>1, PlansAssumption DEF PlansAreLayered, IsMilestone
<1>7. Len(plan) \in Nat /\ Len(plan) > 0
  BY <1>6
<1>8. Len(frames) > 1 => Within(frames[Len(frames) - 1], frames[Len(frames)], Failed)
  BY <1>1, <1>2 DEF Tower
<1>9. \E given : Layered(Here.plan, given)
  <2>1. CASE Len(frames) = 1
    BY <1>1, <1>3, <1>6, <2>1 DEF TopOK
  <2>2. CASE Len(frames) > 1
    <3> DEFINE p == frames[Len(frames) - 1]
    <3>1. FrameOK(p, Stored, Recent)
      BY <1>2, <1>4, <2>2
    <3>2. Within(p, Here, Failed)
      BY <1>3, <1>8, <2>2
    <3> HIDE DEF p
    <3>3. p.plan[p.next] \in Milestones
      <4>1. p.plan \in Seq(Milestones) /\ p.next \in 1 .. Len(p.plan)
        BY <3>1, <3>2 DEF FrameOK, Within
      <4>2. QED
        BY <4>1
    <3>4. Layered(Here.plan, GivenBy(p))
      BY <3>2, <3>3, WritesAre DEF Within, GivenBy
    <3>5. QED
      BY <3>4
  <2>3. QED
    BY <1>2, <2>1, <2>2
<1>10. QED
  BY <1>2, <1>3, <1>5, <1>6, <1>7, <1>8, <1>9

\* The paths of the runs of the milestone, and of the member, that is running.
LEMMA PathsAre ==
    ASSUME RequestInv
    PROVE  /\ Path \in Seq(Nat) /\ Len(Path) = Len(Here.path) + 1 /\ Len(Here.path) \in Nat
           /\ \A i \in 1 .. Len(Here.path) : Path[i] = Here.path[i]
           /\ Path[Len(Here.path) + 1] = Here.next
           /\ MemberPath \in Seq(Nat) /\ Len(MemberPath) = Len(Here.path) + 2
           /\ \A i \in 1 .. Len(Here.path) : MemberPath[i] = Here.path[i]
           /\ MemberPath[Len(Here.path) + 1] = Here.next
           /\ MemberPath[Len(Here.path) + 2] = Fan.at
<1> DEFINE f == Here
           n == Len(f.path)
<1>1. FrameOK(f, Stored, Recent)
  BY HereIs
<1> HIDE DEF f
<1>2. f.path \in Seq(Nat) /\ f.next \in Nat /\ f.fan.at \in Nat /\ n \in Nat
  <2>1. f.path \in Seq(Nat) /\ f.next \in Nat /\ f.fan.at \in Nat
    BY <1>1 DEF FrameOK, Fans
  <2>2. QED
    BY <2>1
<1> HIDE DEF n
<1> DEFINE a == Append(f.path, f.next)
<1>3. /\ a \in Seq(Nat) /\ Len(a) = n + 1 /\ \A i \in 1 .. n : a[i] = f.path[i]
      /\ a[n + 1] = f.next
  BY <1>2 DEF n
<1> HIDE DEF a
<1> DEFINE b == Append(a, f.fan.at)
<1>4. /\ b \in Seq(Nat) /\ Len(b) = Len(a) + 1 /\ \A i \in 1 .. Len(a) : b[i] = a[i]
      /\ b[Len(a) + 1] = f.fan.at
  BY <1>2, <1>3
<1> HIDE DEF b
<1>5. /\ Len(b) = n + 2 /\ (\A i \in 1 .. n : b[i] = f.path[i]) /\ b[n + 1] = f.next
      /\ b[n + 2] = f.fan.at
  <2>1. n + 1 \in 1 .. Len(a) /\ Len(a) + 1 = n + 2 /\ \A i \in 1 .. n : i \in 1 .. Len(a)
    BY <1>2, <1>3
  <2> DEFINE k == n + 1
             k2 == n + 2
  <2>2. k \in 1 .. Len(a) /\ Len(a) + 1 = k2 /\ a[k] = f.next
    BY <1>3, <2>1
  <2> HIDE DEF k, k2
  <2>3. b[k] = f.next /\ b[k2] = f.fan.at /\ Len(b) = k2
    BY <1>4, <2>2
  <2>4. \A i \in 1 .. n : b[i] = f.path[i]
    BY <1>3, <1>4, <2>1
  <2>5. QED
    BY <2>3, <2>4 DEF k, k2
<1>6. Path = a /\ MemberPath = b
  BY DEF Path, MemberPath, Fan, a, b, f
<1>7. QED
  BY <1>2, <1>3, <1>4, <1>5, <1>6 DEF f, n, Fan

\* No graph is there of what is running.
LEMMA NotPassed ==
    ASSUME RequestInv, status = "running", NEW p,
           \/ p = Path
           \/ p = MemberPath
    PROVE  \A retry : \A i \in 1 .. Len(graphs) : graphs[i] # RunRef(p, retry)
<1> DEFINE f == Here
           n == Len(frames)
<1>1. /\ Tower(frames, Stored, Recent, Failed) /\ GraphsOK
  BY DEF RequestInv
<1>2. /\ n \in Nat /\ n > 0 /\ f = frames[n] /\ FrameOK(f, Stored, Recent)
  BY HereIs
<1>3. /\ Len(f.path) \in Nat /\ \A i \in 1 .. Len(f.path) : p[i] = f.path[i]
      /\ p[Len(f.path) + 1] = f.next
      /\ \/ Len(p) = Len(f.path) + 1
         \/ Len(p) = Len(f.path) + 2 /\ p[Len(f.path) + 2] = f.fan.at
  BY PathsAre DEF Fan
<1> HIDE DEF f
<1>4. f.next \in Nat /\ f.fan.at \in Nat
  BY <1>2 DEF FrameOK, Fans
<1>5. ~Behind(p, f)
  <2>1. p[Len(f.path) + 1] = f.next /\ ~(f.next < f.next) /\ ~(f.fan.at < f.fan.at)
    BY <1>3, <1>4
  <2>2. Len(p) > Len(f.path) + 1 => p[Len(f.path) + 2] = f.fan.at
    BY <1>3
  <2>3. QED
    BY <2>1, <2>2 DEF Behind
<1>6. ASSUME NEW d \in 1 .. n, d < n
      PROVE  ~Behind(p, frames[d])
  <2> DEFINE h == frames[d]
             m == Len(h.path)
  <2>1. Extends(f.path, h) /\ FrameOK(h, Stored, Recent)
    BY <1>1, <1>2, <1>6 DEF Tower
  <2>2. h.path \in Seq(Nat) /\ h.next \in Nat /\ h.fan.at \in Nat /\ m \in Nat
    <3>1. h.path \in Seq(Nat) /\ h.next \in Nat /\ h.fan.at \in Nat
      BY <2>1 DEF FrameOK, Fans
    <3>2. QED
      BY <3>1
  <2>3. Len(f.path) >= m + 2 /\ f.path[m + 1] = h.next /\ f.path[m + 2] = h.fan.at
    BY <2>1 DEF Extends
  <2> HIDE DEF h, m
  <2> DEFINE k == m + 1
             k2 == m + 2
  <2>4. k \in 1 .. Len(f.path) /\ k2 \in 1 .. Len(f.path) /\ f.path[k] = h.next /\ f.path[k2] = h.fan.at
    BY <1>3, <2>2, <2>3
  <2> HIDE DEF k, k2
  <2>5. p[k] = h.next /\ p[k2] = h.fan.at
    BY <1>3, <2>4
  <2>6. ~(h.next < h.next) /\ ~(h.fan.at < h.fan.at)
    BY <2>2
  <2>7. QED
    BY <2>5, <2>6 DEF Behind, k, k2, m, h
<1>7. ~\E d \in 1 .. n : Behind(p, frames[d])
  <2>1. ASSUME NEW d \in 1 .. n
        PROVE  ~Behind(p, frames[d])
    <3>1. CASE d = n
      BY <1>2, <1>5, <3>1
    <3>2. CASE d # n
      BY <1>2, <1>6, <3>2
    <3>3. QED
      BY <3>1, <3>2
  <2>2. QED
    BY <2>1
<1>8. ASSUME NEW retry, NEW i \in 1 .. Len(graphs), graphs[i] = RunRef(p, retry)
      PROVE  FALSE
  <2>1. graphs[i].path = p /\ graphs[i].attempt = attempt
    BY <1>8 DEF RunRef
  <2>2. Passed(graphs[i])
    BY <1>1 DEF GraphsOK
  <2>3. QED
    BY <1>7, <2>1, <2>2 DEF Passed
<1>9. QED
  BY <1>8

\* One more graph, of a new run.
LEMMA OneMore ==
    ASSUME NEW s \in Seq(Reference), IsInjective(s), NEW run \in Reference,
           \A i \in 1 .. Len(s) : s[i] # run
    PROVE  /\ Append(s, run) \in Seq(Reference) /\ IsInjective(Append(s, run))
           /\ Range(Append(s, run)) = Range(s) \cup {run}
           /\ Len(Append(s, run)) = Len(s) + 1 /\ Append(s, run)[Len(s) + 1] = run
           /\ \A i \in 1 .. Len(s) : Append(s, run)[i] = s[i]
<1> DEFINE t == Append(s, run)
           n == Len(s)
<1>1. /\ t \in Seq(Reference) /\ Len(t) = n + 1 /\ t[n + 1] = run
      /\ (\A i \in 1 .. n : t[i] = s[i]) /\ n \in Nat
      /\ DOMAIN t = 1 .. n + 1 /\ DOMAIN s = 1 .. n
  OBVIOUS
<1> HIDE DEF t, n
<1>2. IsInjective(t)
  <2>1. \A i, j \in 1 .. n : s[i] = s[j] => i = j
    BY <1>1 DEF IsInjective
  <2>2. \A i \in 1 .. n : s[i] # run
    BY DEF n
  <2>3. ASSUME NEW i \in 1 .. n + 1, NEW j \in 1 .. n + 1, t[i] = t[j]
        PROVE  i = j
    <3>1. CASE i \in 1 .. n /\ j \in 1 .. n
      BY <1>1, <2>1, <2>3, <3>1
    <3>2. CASE i = n + 1 /\ j \in 1 .. n
      BY <1>1, <2>2, <2>3, <3>2
    <3>3. CASE i \in 1 .. n /\ j = n + 1
      BY <1>1, <2>2, <2>3, <3>3
    <3>4. QED
      BY <1>1, <3>1, <3>2, <3>3
  <2>4. QED
    BY <1>1, <2>3 DEF IsInjective
<1>3. Range(t) = Range(s) \cup {run}
  <2>1. \A i \in 1 .. n + 1 : i \in 1 .. n \/ i = n + 1
    BY <1>1
  <2>2. n + 1 \in 1 .. n + 1 /\ \A i \in 1 .. n : i \in 1 .. n + 1
    BY <1>1
  <2>3. QED
    BY <1>1, <2>1, <2>2 DEF Range
<1>4. QED
  BY <1>1, <1>2, <1>3 DEF t, n

\* The reference of a run of this attempt.
LEMMA RunIs ==
    ASSUME RequestInv, NEW p \in Seq(Nat), NEW retry \in 0 .. RetryCap
    PROVE  RunRef(p, retry) \in Reference /\ RunRef(p, retry) \in Recent
<1>1. attempt \in 0 .. Budget /\ since \in 0 .. attempt
  BY DEF RequestInv
<1>2. RunRef(p, retry) \in Reference
  BY <1>1 DEF RunRef, Reference
<1>3. RunRef(p, retry).attempt >= since
  BY <1>1 DEF RunRef
<1>4. QED
  BY <1>2, <1>3 DEF Recent

\* Graphs stay behind what is running, and the new one is.
LEMMA GraphsKept ==
    ASSUME RequestInv, status = "running", attempt' = attempt,
           NEW p, NEW retry \in 0 .. RetryCap, p = Path \/ p = MemberPath,
           graphs' = graphs \/ graphs' = Append(graphs, RunRef(p, retry)),
           status' = "running" =>
             /\ \A q \in Seq(Nat) : (\E d \in 1 .. Len(frames) : Behind(q, frames[d])) =>
                                    (\E d \in 1 .. Len(frames') : Behind(q, frames'[d]))
             /\ graphs' = graphs \/ \E d \in 1 .. Len(frames') : Behind(p, frames'[d])
    PROVE  /\ GraphsOK' /\ Stored \subseteq Stored'
           /\ graphs' = Append(graphs, RunRef(p, retry)) => RunRef(p, retry) \in Stored'
           /\ graphs' \in Seq(Reference)
<1> DEFINE run == RunRef(p, retry)
<1>1. graphs \in Seq(Reference) /\ IsInjective(graphs) /\ attempt \in Nat
      /\ \A i \in 1 .. Len(graphs) : graphs[i].attempt <= attempt /\ Passed(graphs[i])
  BY DEF RequestInv, GraphsOK
<1>2. run \in Reference /\ run.attempt = attempt /\ run.path = p
  <2>1. p \in Seq(Nat)
    BY PathsAre
  <2>2. QED
    BY <2>1, RunIs DEF RunRef
<1>3. \A i \in 1 .. Len(graphs) : graphs[i] # run
  BY NotPassed
<1> HIDE DEF run
<1>4. ASSUME NEW i \in 1 .. Len(graphs)
      PROVE  graphs[i].attempt <= attempt' /\ Passed(graphs[i])'
  <2>1. graphs[i] \in Reference /\ graphs[i].attempt <= attempt /\ Passed(graphs[i])
    BY <1>1
  <2>2. PICK q : q = graphs[i]
    OBVIOUS
  <2>3. q.path \in Seq(Nat)
    BY <2>1, <2>2 DEF Reference
  <2>4. Passed(q) /\ q.attempt <= attempt
    BY <2>1, <2>2
  <2>5. status' = "running" /\ q.attempt = attempt' =>
          \E d \in 1 .. Len(frames') : Behind(q.path, frames'[d])
    BY <2>3, <2>4 DEF Passed
  <2>7. QED
    BY <2>2, <2>4, <2>5 DEF Passed
<1>5. CASE graphs' = graphs
  BY <1>1, <1>4, <1>5 DEF GraphsOK, Stored
<1>6. CASE graphs' = Append(graphs, run)
  <2>1. /\ graphs' \in Seq(Reference) /\ IsInjective(graphs') /\ Range(graphs') = Range(graphs) \cup {run}
        /\ Len(graphs') = Len(graphs) + 1 /\ graphs'[Len(graphs) + 1] = run
        /\ \A i \in 1 .. Len(graphs) : graphs'[i] = graphs[i]
    BY <1>1, <1>2, <1>3, <1>6, OneMore
  <2>2. status' = "running" => \E d \in 1 .. Len(frames') : Behind(p, frames'[d])
    BY <2>1, <1>1
  <2>3. QED
    BY <1>1, <1>2, <1>4, <2>1, <2>2 DEF GraphsOK, Stored, Passed
<1>7. QED
  BY <1>5, <1>6 DEF run

\* How a frame that goes on stays ahead of what has been run.
LEMMA BehindGoesOn ==
    ASSUME NEW f, NEW g, f.next \in Nat, f.fan.at \in Nat, f.path \in Seq(Nat),
           g.path = f.path, NEW q \in Seq(Nat), Behind(q, f),
           \/ g.next = f.next + 1
           \/ /\ g.next = f.next /\ g.fan.at \in Nat
              /\ f.fan.open => g.fan.open /\ g.fan.at >= f.fan.at
    PROVE  Behind(q, g)
<1> DEFINE n == Len(f.path)
           k == n + 1
           k2 == n + 2
<1>1. /\ Len(q) > n /\ \A i \in 1 .. n : q[i] = f.path[i]
      /\ \/ q[k] < f.next
         \/ q[k] = f.next /\ f.fan.open /\ Len(q) > k /\ q[k2] < f.fan.at
  BY DEF Behind
<1>2. n \in Nat /\ Len(q) \in Nat
  OBVIOUS
<1> HIDE DEF n
<1>3. q[k] \in Nat
  BY <1>1, <1>2
<1>4. Len(q) > k => q[k2] \in Nat
  BY <1>2
<1> HIDE DEF k, k2
<1>5. \/ q[k] < g.next
      \/ q[k] = g.next /\ g.fan.open /\ Len(q) > k /\ q[k2] < g.fan.at
  BY <1>1, <1>3, <1>4
<1>6. QED
  BY <1>1, <1>5 DEF Behind, n, k, k2

-----------------------------------------------------------------------------
\* The frame of the plan as it is before and after a step in a sub_plan.
LEMMA TopStays ==
    ASSUME RequestInv, UNCHANGED <<plan, last, since, attempt>>,
           Top'.plan = Top.plan, Top'.path = Top.path, Top'.slice = Top.slice,
           Top'.next = Top.next, Top'.board = Top.board, Top'.carriers = Top.carriers
    PROVE  /\ TopOK' /\ LastOK' /\ (Failed' <=> Failed)
           /\ UNCHANGED <<record, lost>> => RecordOK'
<1>1. TopOK /\ LastOK /\ RecordOK
  BY DEF RequestInv
<1>2. PICK t : t = Top
  OBVIOUS
<1>3. PICK u : u = Top'
  OBVIOUS
<1>4. /\ u.plan = t.plan /\ u.path = t.path /\ u.slice = t.slice
      /\ u.next = t.next /\ u.board = t.board /\ u.carriers = t.carriers
  BY <1>2, <1>3
<1>5. \A k \in DOMAIN plan : /\ LeafFailed(k)' <=> LeafFailed(k)
                             /\ ToRunAgain(k)' <=> ToRunAgain(k)
                             /\ Ended(k)' = Ended(k)
  BY <1>2, <1>3, <1>4 DEF LeafFailed, ToRunAgain, Ended
<1>6. Failed' <=> Failed
  BY <1>5 DEF Failed
<1>7. TopOK'
  <2> DEFINE S == {k \in DOMAIN plan : Ended(k) = "completed"}
  <2>1. t.plan = plan /\ t.path = <<>> /\ t.slice = <<>> /\ FoldsOK(t, S)
    BY <1>1, <1>2 DEF TopOK
  <2> HIDE DEF S
  <2>2. FoldsOK(u, S)
    <3>1. \A ds : MapsTo(u, ds) = MapsTo(t, ds)
      BY <1>4 DEF MapsTo
    <3>2. QED
      BY <1>4, <2>1, <3>1 DEF FoldsOK
  <2>3. S = {k \in DOMAIN plan' : Ended(k)' = "completed"}
    BY <1>5 DEF S
  <2>4. \A ds \in DOMAIN t.board :
         \/ IsTrue(t.board[ds])
         \/ \E k \in DOMAIN plan : /\ ds \in Range(plan[k].writes)
                                   /\ LeafFailed(k) \/ ToRunAgain(k)
    BY <1>1, <1>2 DEF TopOK
  <2>5. \A ds \in DOMAIN u.board :
         \/ IsTrue(u.board[ds])
         \/ \E k \in DOMAIN plan' : /\ ds \in Range(plan'[k].writes)
                                    /\ LeafFailed(k)' \/ ToRunAgain(k)'
    BY <1>4, <1>5, <2>4
  <2>6. FoldsOK(u, {k \in DOMAIN plan' : Ended(k)' = "completed"})
    BY <2>2, <2>3
  <2>7. u.plan = plan' /\ u.path = <<>> /\ u.slice = <<>>
    BY <1>4, <2>1
  <2>8. QED
    BY <1>3, <2>5, <2>6, <2>7 DEF TopOK
<1>8. LastOK'
  <2>1. \A k \in DOMAIN plan : (HasMade(k)' <=> HasMade(k)) /\ Out(k)' = Out(k)
    BY <1>5 DEF HasMade, Out
  <2>2. /\ DOMAIN last = DOMAIN plan
        /\ \A k \in DOMAIN plan : k >= t.next => last[k] = None
        /\ \A j \in DOMAIN plan : HasMade(j) => Out(j) \in DOMAIN t.board
        /\ \A k, j \in DOMAIN plan :
             Ended(k) = "completed" /\ plan[k].kind # "notional" /\ HasMade(j) /\ Out(j) = plan[k].reads
               => t.board[Out(k)].from = t.board[Out(j)].by
    BY <1>1, <1>2 DEF LastOK
  <2>3. /\ DOMAIN last' = DOMAIN plan'
        /\ \A k \in DOMAIN plan' : k >= u.next => last'[k] = None
    BY <1>4, <2>2
  <2>4. /\ \A j \in DOMAIN plan' : HasMade(j)' => Out(j)' \in DOMAIN u.board
        /\ \A k, j \in DOMAIN plan' :
             Ended(k)' = "completed" /\ plan'[k].kind # "notional" /\ HasMade(j)' /\ Out(j)' = plan'[k].reads
               => u.board[Out(k)'].from = u.board[Out(j)'].by
    BY <1>4, <1>5, <2>1, <2>2
  <2>5. QED
    BY <1>3, <2>3, <2>4 DEF LastOK, None
<1>9. UNCHANGED <<record, lost>> => RecordOK'
  <2> SUFFICES ASSUME UNCHANGED <<record, lost>>
               PROVE  RecordOK'
    OBVIOUS
  <2>1. t.next = Top'.next /\ t.next = Top.next
    BY <1>2, <1>3, <1>4
  <2>2. \A m \in DOMAIN plan : SubMap(m)' <=> SubMap(m)
    BY DEF SubMap
  <2>3. QED
    BY <1>1, <2>1, <2>2 DEF RecordOK, SubMap
<1>10. QED
  BY <1>6, <1>7, <1>8, <1>9

-----------------------------------------------------------------------------
\* The milestone at hand ends: g is what comes of its frame, outs what it wrote.
Ending(g, outs) ==
  /\ frames' = [frames EXCEPT ![Len(frames)] = g]
  /\ EndsAs(Here, g, outs, Stored', Recent)
  /\ Len(frames) = 1 => g.slice = <<>>
  /\ record' = Append(record, [path |-> Path, attempt |-> attempt, status |-> g.last])
  /\ last' = IF Len(frames) > 1 THEN last
             ELSE [last EXCEPT ![Here.next] = [attempt |-> attempt, status |-> g.last]]
  /\ UNCHANGED <<plan, attempt, status, size, why, since, lost>>
  /\ graphs' = graphs \/ graphs' = Append(graphs, RunRef(Path, 0))
  /\ LET m == Milestone
         n == Len(g.slice)
     IN Len(frames) > 1 /\ g.last = "completed" /\ m.kind \in {"leaf", "fold"} =>
          /\ n > 0 /\ Last(m.writes) \in g.slice[n].made
          /\ outs[Last(m.writes)].by = <<g.slice[n].run>>

\* What a failed leaf excuses, it excuses in every frame.
LEMMA TowerFailed ==
    ASSUME NEW fs, NEW G, NEW R, NEW a, NEW b, Tower(fs, G, R, a), a => b
    PROVE  Tower(fs, G, R, b)
<1>1. ASSUME NEW p, NEW f, Within(p, f, a)
      PROVE  Within(p, f, b)
  BY <1>1 DEF Within, InnerOK
<1>2. \A d \in 2 .. Len(fs) : Within(fs[d - 1], fs[d], b)
  BY <1>1 DEF Tower
<1>3. QED
  BY <1>2 DEF Tower

\* It does not matter to a plan that runs no sub_plan.
LEMMA TowerOne ==
    ASSUME NEW fs, NEW G, NEW R, NEW a, NEW b, Tower(fs, G, R, a), Len(fs) = 1
    PROVE  Tower(fs, G, R, b)
<1>1. \A d \in 2 .. Len(fs) : Within(fs[d - 1], fs[d], b)
  OBVIOUS
<1>2. QED
  BY <1>1 DEF Tower

\* The frame that is run next is the last one there will be.
LEMMA HereNext == Here' = frames'[Len(frames')]
BY Zenon DEF Here, Last

\* The last frame changes, the others stay.
LEMMA LastChanges ==
    ASSUME RequestInv, NEW g, frames' = [frames EXCEPT ![Len(frames)] = g], g.path = Here.path
    PROVE  /\ Len(frames') = Len(frames) /\ frames'[Len(frames)] = g
           /\ \A d \in 1 .. Len(frames) - 1 : frames'[d] = frames[d]
           /\ Len(frames) = 1 => Top' = g
           /\ Len(frames) > 1 => Top' = Top
           /\ Here' = g
<1>1. frames \in Seq(Range(frames)) /\ Len(frames) > 0 /\ Len(frames) \in Nat
  BY DEF RequestInv, Tower
<1>2. /\ Len(frames') = Len(frames) /\ frames'[Len(frames)] = g
      /\ \A d \in 1 .. Len(frames) - 1 : frames'[d] = frames[d]
  BY <1>1, SeqReplace
<1>3. Len(frames) = 1 => Top' = g
  BY <1>2 DEF Top
<1>4. Len(frames) > 1 => Top' = Top
  <2>1. Len(frames) > 1 => 1 \in 1 .. Len(frames) - 1
    BY <1>1
  <2>2. Top = frames[1] /\ Top' = frames'[1]
    BY DEF Top
  <2>3. QED
    BY <1>2, <2>1, <2>2
<1>5. Here' = g
  <2>1. Len(frames') = Len(frames) /\ frames'[Len(frames)] = g
    BY <1>2
  <2>2. frames'[Len(frames')] = g
    BY <2>1, Zenon
  <2>3. QED
    BY <2>2, HereNext, Zenon
<1>6. QED
  BY <1>2, <1>3, <1>4, <1>5

\* What is behind the frames stays behind them, when the last goes on to g.
LEMMA StaysBehind ==
    ASSUME RequestInv, NEW g, frames' = [frames EXCEPT ![Len(frames)] = g], g.path = Here.path,
           \/ g.next = Here.next + 1
           \/ /\ g.next = Here.next /\ g.fan.at \in Nat
              /\ Here.fan.open => g.fan.open /\ g.fan.at >= Here.fan.at
    PROVE  \A q \in Seq(Nat) : (\E d \in 1 .. Len(frames) : Behind(q, frames[d])) =>
                               (\E d \in 1 .. Len(frames') : Behind(q, frames'[d]))
<1> DEFINE n == Len(frames)
<1>1. n \in Nat /\ n > 0 /\ Here = frames[n] /\ FrameOK(Here, Stored, Recent)
  BY HereIs
<1>2. Len(frames') = n /\ frames'[n] = g /\ \A d \in 1 .. n - 1 : frames'[d] = frames[d]
  BY LastChanges
<1>3. Here.next \in Nat /\ Here.fan.at \in Nat /\ Here.path \in Seq(Nat)
  BY <1>1 DEF FrameOK, Fans
<1>4. ASSUME NEW q \in Seq(Nat), NEW d \in 1 .. n, Behind(q, frames[d])
      PROVE  \E e \in 1 .. n : Behind(q, frames'[e])
  <2>1. CASE d = n
    <3>1. Behind(q, Here)
      BY <1>1, <1>4, <2>1
    <3>2. Behind(q, g)
      BY <1>3, <3>1, BehindGoesOn
    <3>3. n \in 1 .. n
      BY <1>1
    <3>4. QED
      BY <1>2, <3>2, <3>3
  <2>2. CASE d # n
    <3>1. d \in 1 .. n - 1
      BY <1>1, <2>2
    <3>2. QED
      BY <1>2, <1>4, <3>1
  <2>3. QED
    BY <2>1, <2>2
<1>5. QED
  BY <1>2, <1>4, Zenon

\* The graph of the milestone that ended is behind what runs next.
LEMMA EndingGraphs ==
    ASSUME RequestInv, More, NEW g, NEW outs, Ending(g, outs)
    PROVE  GraphsOK' /\ Stored \subseteq Stored' /\ graphs' \in Seq(Reference)
<1>1. g.path = Here.path /\ g.next = Here.next + 1 /\ frames' = [frames EXCEPT ![Len(frames)] = g]
  BY DEF Ending, EndsAs
<1>2. \A q \in Seq(Nat) : (\E d \in 1 .. Len(frames) : Behind(q, frames[d])) =>
                          (\E d \in 1 .. Len(frames') : Behind(q, frames'[d]))
  BY <1>1, StaysBehind
<1>3. \E d \in 1 .. Len(frames') : Behind(Path, frames'[d])
  <2>1. Len(frames) \in Nat /\ Len(frames) > 0 /\ FrameOK(Here, Stored, Recent)
    BY HereIs
  <2>2. Here.next \in Nat /\ Len(Here.path) \in Nat
    BY <2>1, PathsAre DEF FrameOK
  <2>3. Here.next < g.next
    BY <1>1, <2>2
  <2>4. Behind(Path, g)
    BY <1>1, <2>2, <2>3, PathsAre DEF Behind
  <2>5. QED
    BY <1>1, <2>1, <2>4, LastChanges
<1>4. status = "running" /\ attempt' = attempt /\ 0 \in 0 .. RetryCap
  BY RequestConstants DEF More, Ending
<1>5. graphs' = graphs \/ graphs' = Append(graphs, RunRef(Path, 0))
  BY DEF Ending
<1>6. QED
  BY <1>2, <1>3, <1>4, <1>5, GraphsKept

\* The frames, when a milestone ends.
LEMMA EndingTower ==
    ASSUME RequestInv, More, NEW g, NEW outs, Ending(g, outs)
    PROVE  Tower(frames', Stored', Recent, Failed')
<1> DEFINE f == Here
           n == Len(frames)
<1>1. Tower(frames, Stored, Recent, Failed)
  BY DEF RequestInv
<1>2. n \in Nat /\ n > 0 /\ f = frames[n] /\ FrameOK(f, Stored, Recent)
      /\ (n > 1 => Within(frames[n - 1], f, Failed))
  BY HereIs
<1>3. EndsAs(f, g, outs, Stored', Recent) /\ frames' = [frames EXCEPT ![n] = g]
      /\ Stored \subseteq Stored'
  BY EndingGraphs DEF Ending
<1>4. PICK G : G = Stored'
  OBVIOUS
<1>5. PICK a : a = Failed
  OBVIOUS
<1>6. PICK b : b = Failed'
  OBVIOUS
<1>7. Tower(frames, G, Recent, a)
  BY <1>1, <1>3, <1>4, <1>5, TowerMore
<1>8. FrameOK(f, G, Recent) /\ EndsAs(f, g, outs, G, Recent)
  BY <1>2, <1>3, <1>4, FrameMore
<1>9. PICK given : Layered(f.plan, given)
  BY HereIs
<1>10. FrameOK(g, G, Recent) /\ g.path = frames[n].path
  <2>1. FrameOK(g, G, Recent)
    BY <1>8, <1>9, EndsFrame
  <2>2. QED
    BY <1>2, <1>8, <2>1 DEF EndsAs
<1>11. Tower(frames, G, Recent, b)
  <2>1. CASE n = 1
    BY <1>7, <2>1, TowerOne
  <2>2. CASE n # 1
    <3>1. last' = last /\ plan' = plan
      <4>1. n > 1
        BY <1>2, <2>2
      <4>2. QED
        BY <4>1 DEF Ending
    <3>2. Failed' <=> Failed
      BY <3>1 DEF Failed, LeafFailed, Ended
    <3>3. a => b
      BY <1>5, <1>6, <3>2
    <3>4. QED
      BY <1>7, <3>3, TowerFailed
  <2>3. QED
    BY <2>1, <2>2
<1>12. n > 1 => Within(frames[n - 1], g, b)
  <2> SUFFICES ASSUME n > 1
               PROVE  Within(frames[n - 1], g, b)
    OBVIOUS
  <2> DEFINE p == frames[n - 1]
  <2>1. Within(p, frames[n], b) /\ FrameOK(p, G, Recent)
    BY <1>2, <1>11 DEF Tower
  <2>2. Within(p, f, b)
    BY <1>2, <2>1
  <2>3. MadeLast(f, g, outs)
    BY DEF MadeLast, Ending, Milestone
  <2> HIDE DEF p, f
  <2>4. Within(p, g, b)
    BY <1>8, <2>1, <2>2, <2>3, EndsWithin
  <2>5. QED
    BY <2>4 DEF p
<1>13. Tower([frames EXCEPT ![n] = g], G, Recent, b)
  BY <1>10, <1>11, <1>12, TowerReplace
<1>14. QED
  BY <1>3, <1>4, <1>6, <1>13

-----------------------------------------------------------------------------
\* The plan's own frame ends a milestone.
LEMMA EndingTop ==
    ASSUME RequestInv, More, NEW g, NEW outs, Ending(g, outs), Len(frames) = 1
    PROVE  TopOK'
<1>a. PICK f : f = Here
  OBVIOUS
<1>b. PICK n : n = f.next
  OBVIOUS
<1> DEFINE m == f.plan[n]
<1>1. TopOK /\ LastOK
  BY DEF RequestInv
<1>2. f = Top /\ FrameOK(f, Stored, Recent) /\ Layered(f.plan, {Seed}) /\ f.plan = plan
  BY <1>1, <1>a, HereIs DEF TopOK
<1>3. PICK G : G = Stored'
  OBVIOUS
<1>4. FrameOK(f, G, Recent) /\ EndsAs(f, g, outs, G, Recent)
  <2>1. Stored \subseteq G /\ EndsAs(f, g, outs, G, Recent)
    BY <1>3, <1>a, EndingGraphs DEF Ending
  <2>2. QED
    BY <1>2, <2>1, FrameMore
<1>5. /\ n \in DOMAIN f.plan /\ m \in Milestones
      /\ DOMAIN g.board = DOMAIN f.board \cup DOMAIN outs
      /\ \A ds : ds \notin DOMAIN outs =>
           /\ ds \in DOMAIN g.board <=> ds \in DOMAIN f.board
           /\ ds \in DOMAIN f.board => g.board[ds] = f.board[ds]
  BY <1>2, <1>4, <1>b, EndsKeeps
<1>6. /\ g.plan = f.plan /\ g.path = f.path /\ g.next = n + 1 /\ g.slice = <<>>
      /\ g.board = Put(f.board, outs) /\ DOMAIN outs \subseteq Range(m.writes)
      /\ \A ds \in DOMAIN outs :
           \/ IsTrue(outs[ds])
           \/ m.kind = "leaf" /\ g.last = "failed" /\ ds \in DOMAIN f.board
      /\ (m.kind = "leaf" /\ g.last # "failed" => DOMAIN outs = Range(m.writes))
      /\ (m.kind = "fold" /\ g.last = "completed" => Last(m.writes) \in DOMAIN outs)
  <2>1. g.slice = <<>>
    BY DEF Ending
  <2>2. QED
    BY <1>4, <1>b, <2>1 DEF EndsAs
<1>7. Top' = g
  BY <1>4, <1>a, LastChanges DEF Ending, EndsAs
<1>8. /\ n \in Nat /\ DOMAIN last = DOMAIN plan
      /\ plan' = plan /\ since' = since /\ attempt' = attempt
      /\ last'[n] = [attempt |-> attempt, status |-> g.last]
      /\ \A k \in DOMAIN plan : k # n => last'[k] = last[k]
  <2>1. n \in Nat
    BY <1>2, <1>b DEF FrameOK
  <2>2. DOMAIN last = DOMAIN plan
    BY <1>1 DEF LastOK
  <2>3. last' = [last EXCEPT ![n] = [attempt |-> attempt, status |-> g.last]]
        /\ UNCHANGED <<plan, since, attempt>>
    BY <1>a, <1>b DEF Ending
  <2>4. QED
    BY <1>2, <1>5, <2>1, <2>2, <2>3
<1>9. \A k \in DOMAIN plan : k # n => (Ended(k)' = Ended(k) /\ (LeafFailed(k)' <=> LeafFailed(k)))
  BY <1>8 DEF Ended, LeafFailed
<1>10. Ended(n)' = g.last
  BY <1>8 DEF Ended
<1>11. FoldsOK(g, {k \in DOMAIN plan' : Ended(k)' = "completed"})
  <2> DEFINE S == {k \in DOMAIN plan : Ended(k) = "completed"}
             T == {k \in DOMAIN plan' : Ended(k)' = "completed"}
  <2>1. FoldsOK(f, S)
    BY <1>1, <1>2 DEF TopOK
  <2>2. \A k \in T : k < n => k \in S
    BY <1>8, <1>9
  <2>3. n \in T /\ m.kind = "fold" /\ Last(m.writes) \in DOMAIN g.board => DOMAIN outs # {}
    BY <1>6, <1>10
  <2> HIDE DEF S, T
  <2>4. FoldsOK(g, T)
    BY <1>2, <1>4, <1>b, <2>1, <2>2, <2>3, EndsFolds
  <2>5. QED
    BY <2>4 DEF T
<1>12. ASSUME NEW ds \in DOMAIN g.board
       PROVE  \/ IsTrue(g.board[ds])
              \/ \E k \in DOMAIN plan : /\ ds \in Range(plan[k].writes)
                                        /\ LeafFailed(k)' \/ ToRunAgain(k)'
  <2>1. CASE ds \in DOMAIN outs
    <3>1. g.board[ds] = outs[ds]
      BY <1>6, <2>1, PutNew
    <3>2. CASE m.kind = "leaf" /\ g.last = "failed"
      <4>1. LeafFailed(n)'
        BY <1>2, <1>8, <1>10, <3>2 DEF LeafFailed
      <4>2. QED
        BY <1>2, <1>5, <1>6, <2>1, <4>1
    <3>3. QED
      BY <1>6, <2>1, <3>1, <3>2
  <2>2. CASE ds \notin DOMAIN outs
    <3>1. ds \in DOMAIN f.board /\ g.board[ds] = f.board[ds]
      BY <1>5, <2>2
    <3>2. CASE IsTrue(f.board[ds])
      BY <3>1, <3>2
    <3>3. CASE ~IsTrue(f.board[ds])
      <4>1. PICK k \in DOMAIN plan : ds \in Range(plan[k].writes) /\ (LeafFailed(k) \/ ToRunAgain(k))
        BY <1>1, <1>2, <3>1, <3>3 DEF TopOK
      <4>2. CASE k = n
        <5>1. m.kind = "leaf"
          BY <1>2, <4>1, <4>2 DEF LeafFailed, ToRunAgain
        <5>2. g.last = "failed"
          BY <1>2, <1>6, <2>2, <4>1, <4>2, <5>1
        <5>3. LeafFailed(n)'
          BY <1>2, <1>8, <1>10, <5>1, <5>2 DEF LeafFailed
        <5>4. QED
          BY <4>1, <4>2, <5>3
      <4>3. CASE k # n
        <5>1. CASE LeafFailed(k)
          BY <1>9, <4>1, <4>3, <5>1
        <5>2. CASE ToRunAgain(k)
          <6>1. k \in Nat
            BY HereIs
          <6>2. k >= n + 1
            BY <1>2, <1>b, <1>8, <4>3, <5>2, <6>1 DEF ToRunAgain
          <6>3. ToRunAgain(k)'
            BY <1>6, <1>7, <1>8, <5>2, <6>2 DEF ToRunAgain
          <6>4. QED
            BY <4>1, <6>3
        <5>3. QED
          BY <4>1, <5>1, <5>2
      <4>4. QED
        BY <4>2, <4>3
    <3>4. QED
      BY <3>2, <3>3
  <2>3. QED
    BY <2>1, <2>2
<1>13. g.plan = plan' /\ g.path = <<>>
  BY <1>1, <1>2, <1>6, <1>8 DEF TopOK
<1>14. QED
  BY <1>6, <1>7, <1>8, <1>11, <1>12, <1>13 DEF TopOK

\* The chain is current, when a milestone of the plan ends.
LEMMA EndingLast ==
    ASSUME RequestInv, More, NEW g, NEW outs, Ending(g, outs), Len(frames) = 1
    PROVE  LastOK'
<1>a. PICK f : f = Here
  OBVIOUS
<1>b. PICK n : n = f.next
  OBVIOUS
<1> DEFINE m == f.plan[n]
<1>1. TopOK /\ LastOK
  BY DEF RequestInv
<1>2. f = Top /\ FrameOK(f, Stored, Recent) /\ Layered(f.plan, {Seed}) /\ f.plan = plan
  BY <1>1, <1>a, HereIs DEF TopOK
<1>3. PICK G : G = Stored'
  OBVIOUS
<1>4. FrameOK(f, G, Recent) /\ EndsAs(f, g, outs, G, Recent)
  <2>1. Stored \subseteq G /\ EndsAs(f, g, outs, G, Recent)
    BY <1>3, <1>a, EndingGraphs DEF Ending
  <2>2. QED
    BY <1>2, <2>1, FrameMore
<1>5. /\ n \in DOMAIN f.plan /\ m \in Milestones
      /\ DOMAIN g.board = DOMAIN f.board \cup DOMAIN outs
      /\ \A ds : ds \notin DOMAIN outs =>
           /\ ds \in DOMAIN g.board <=> ds \in DOMAIN f.board
           /\ ds \in DOMAIN f.board => g.board[ds] = f.board[ds]
      /\ \A k \in DOMAIN f.plan : k # n => Range(f.plan[k].writes) \cap DOMAIN outs = {}
      /\ \A k \in DOMAIN f.plan : k <= n => f.plan[k].reads \notin Range(m.writes)
  BY <1>2, <1>4, <1>b, EndsKeeps
<1>6. /\ g.next = n + 1
      /\ g.board = Put(f.board, outs) /\ DOMAIN outs \subseteq Range(m.writes)
      /\ (m.reads \in DOMAIN f.board => \A ds \in DOMAIN outs : outs[ds].from = f.board[m.reads].by)
      /\ (m.kind # "notional" /\ (g.last = "completed" \/ (g.last = "stopped" /\ m.kind = "map"))
            => Last(m.writes) \in DOMAIN outs)
  BY <1>4, <1>b DEF EndsAs
<1>7. Top' = g
  BY <1>4, <1>a, LastChanges DEF Ending, EndsAs
<1>8. /\ n \in Nat /\ DOMAIN last = DOMAIN plan /\ DOMAIN last' = DOMAIN plan
      /\ plan' = plan
      /\ last'[n] = [attempt |-> attempt, status |-> g.last]
      /\ \A k \in DOMAIN plan : k # n => last'[k] = last[k]
  <2>1. n \in Nat
    BY <1>2, <1>b DEF FrameOK
  <2>2. DOMAIN last = DOMAIN plan
    BY <1>1 DEF LastOK
  <2>3. last' = [last EXCEPT ![n] = [attempt |-> attempt, status |-> g.last]]
        /\ UNCHANGED plan
    BY <1>a, <1>b DEF Ending
  <2>4. QED
    BY <1>2, <1>5, <2>1, <2>2, <2>3
<1>9. ASSUME NEW k \in DOMAIN plan, k >= n + 1
      PROVE  last'[k] = None
  <2>1. k # n /\ k >= n
    BY <1>8, <1>9, HereIs
  <2>2. QED
    BY <1>1, <1>2, <1>b, <1>8, <2>1 DEF LastOK
<1>10. \A k \in DOMAIN plan : k # n => (Ended(k)' = Ended(k) /\ (HasMade(k)' <=> HasMade(k)))
  BY <1>8 DEF Ended, HasMade
<1>11. Ended(n)' = g.last /\ Out(n) = Last(m.writes)
       /\ (HasMade(n)' => Out(n) \in DOMAIN outs /\ m.kind # "notional")
  <2>1. Ended(n)' = g.last
    BY <1>8 DEF Ended
  <2>2. HasMade(n)' => m.kind # "notional" /\ (g.last = "completed" \/ (g.last = "stopped" /\ m.kind = "map"))
    BY <1>2, <1>8, <2>1 DEF HasMade
  <2>3. Out(n) = Last(m.writes)
    BY <1>2 DEF Out
  <2>4. QED
    BY <1>6, <2>1, <2>2, <2>3
<1>12. \A k \in DOMAIN plan : plan[k].kind # "notional" => Out(k) \in Range(plan[k].writes)
  <2>1. \A k \in DOMAIN plan : plan[k] \in Milestones
    BY HereIs
  <2>2. QED
    BY <2>1, WritesAre DEF Out
<1>13. ASSUME NEW j \in DOMAIN plan, HasMade(j)', j # n
       PROVE  /\ Out(j) \in DOMAIN f.board /\ Out(j) \notin DOMAIN outs
              /\ Out(j) \in DOMAIN g.board /\ g.board[Out(j)] = f.board[Out(j)]
  <2>1. HasMade(j) /\ plan[j].kind # "notional"
    BY <1>10, <1>13 DEF HasMade
  <2>2. Out(j) \in DOMAIN f.board
    BY <1>1, <1>2, <2>1 DEF LastOK
  <2>3. Out(j) \notin DOMAIN outs
    BY <1>2, <1>5, <1>12, <1>13, <2>1
  <2>4. QED
    BY <1>5, <2>2, <2>3
<1>14. ASSUME NEW j \in DOMAIN plan, HasMade(j)'
       PROVE  Out(j) \in DOMAIN g.board
  BY <1>5, <1>11, <1>13, <1>14
<1>15. ASSUME NEW k \in DOMAIN plan, NEW j \in DOMAIN plan, Ended(k)' = "completed",
              plan[k].kind # "notional", HasMade(j)', Out(j) = plan[k].reads
       PROVE  g.board[Out(k)].from = g.board[Out(j)].by
  <2>1. k \in Nat /\ HasMade(k)'
    BY <1>8, <1>15, HereIs DEF HasMade
  <2>2. k <= n
    <3>1. ~(k >= n + 1)
      BY <1>9, <1>15 DEF Ended, None, Nowhere
    <3>2. QED
      BY <1>8, <2>1, <3>1
  <2>3. j # n
    <3>1. SUFFICES ASSUME j = n PROVE FALSE
      OBVIOUS
    <3>2. plan[j].kind # "notional"
      BY <1>2, <1>11, <1>15, <3>1
    <3>3. Out(j) \in Range(m.writes)
      BY <1>2, <1>12, <3>1, <3>2
    <3>4. QED
      BY <1>2, <1>5, <1>15, <2>2, <3>3
  <2>4. Out(j) \in DOMAIN f.board /\ g.board[Out(j)] = f.board[Out(j)]
    BY <1>13, <1>15, <2>3
  <2>5. CASE k = n
    <3>1. Out(k) \in DOMAIN outs /\ m.reads = Out(j)
      BY <1>2, <1>11, <1>15, <2>1, <2>5
    <3>2. g.board[Out(k)] = outs[Out(k)]
      BY <1>6, <3>1, PutNew
    <3>3. QED
      BY <1>6, <2>4, <3>1, <3>2
  <2>6. CASE k # n
    <3>1. g.board[Out(k)] = f.board[Out(k)]
      BY <1>13, <2>1, <2>6
    <3>2. Ended(k) = "completed" /\ HasMade(j)
      BY <1>10, <1>15, <2>3, <2>6
    <3>3. f.board[Out(k)].from = f.board[Out(j)].by
      BY <1>1, <1>2, <1>15, <3>2 DEF LastOK
    <3>4. QED
      BY <2>4, <3>1, <3>3
  <2>7. QED
    BY <2>5, <2>6
<1>16. \A k \in DOMAIN plan : Out(k)' = Out(k)
  BY <1>8 DEF Out
<1>17. QED
  BY <1>6, <1>7, <1>8, <1>9, <1>14, <1>15, <1>16 DEF LastOK, None

-----------------------------------------------------------------------------
\* Above the frame of the plan, what is being run is the map the plan is at.
LEMMA TopIsAtMap ==
    ASSUME RequestInv, Len(frames) > 1
    PROVE  /\ Top.next \in DOMAIN plan /\ SubMap(Top.next) /\ Top.fan.open
           /\ Len(Here.path) \in Nat /\ Len(Here.path) >= 2
<1> DEFINE n == Len(frames)
<1>1. n \in Nat /\ Here = frames[n] /\ Top = frames[1] /\ FrameOK(Top, Stored, Recent)
      /\ FrameOK(Here, Stored, Recent)
  BY HereIs
<1>2. Tower(frames, Stored, Recent, Failed) /\ Top.plan = plan /\ Top.path = <<>>
  BY DEF RequestInv, TopOK
<1>3. Within(frames[1], frames[2], Failed) /\ Extends(frames[n].path, frames[1])
  <2>1. 2 \in 2 .. n /\ 2 - 1 = 1 /\ n \in 1 .. n /\ 1 \in 1 .. n /\ 1 < n
    BY <1>1
  <2>2. QED
    BY <1>2, <2>1 DEF Tower
<1>4. Top.next <= Len(Top.plan) /\ Top.fan.open /\ Top.plan[Top.next].sub # <<>>
  BY <1>1, <1>3 DEF Within
<1>5. Top.next \in 1 .. Len(Top.plan) + 1 /\ Top.plan \in Seq(Milestones)
      /\ FanOK(Top, Stored, Recent)
  BY <1>1 DEF FrameOK
<1>6. Top.next \in DOMAIN plan
  BY <1>2, <1>4, <1>5
<1>7. SubMap(Top.next)
  BY <1>2, <1>4, <1>5 DEF FanOK, SubMap
<1>8. Here.path \in Seq(Nat)
  BY <1>1 DEF FrameOK
<1>9. Len(Here.path) \in Nat /\ Len(Here.path) >= 2
  <2>1. Len(Here.path) >= Len(Top.path) + 2
    BY <1>1, <1>3 DEF Extends
  <2>2. Len(Top.path) = 0
    BY <1>2
  <2>3. QED
    BY <1>8, <2>1, <2>2
<1>10. QED
  BY <1>4, <1>6, <1>7, <1>9

\* The record, when a milestone ends.
LEMMA EndingRecord ==
    ASSUME RequestInv, More, NEW g, NEW outs, Ending(g, outs)
    PROVE  RecordOK'
<1>1. RecordOK /\ TopOK /\ LastOK /\ attempt \in Nat
  BY DEF RequestInv
<1>2. PICK t : t = Top.next
  OBVIOUS
<1>3. PICK r : r = [path |-> Path, attempt |-> attempt, status |-> g.last]
  OBVIOUS
<1>4. PICK c : c = Len(record)
  OBVIOUS
<1>5. /\ record \in Seq(Runs) /\ c \in Nat /\ t \in Nat /\ t > 0 /\ c >= t - 1
      /\ t \in 1 .. Len(plan) + 1 /\ Len(plan) \in Nat
  <2>1. record \in Seq(Runs) /\ c >= t - 1
    BY <1>1, <1>2, <1>4 DEF RecordOK
  <2>2. c \in Nat
    BY <1>4, <2>1
  <2>3. FrameOK(Top, Stored, Recent) /\ Top.plan = plan /\ Len(plan) \in Nat
    BY <1>1, HereIs DEF TopOK
  <2>4. t \in 1 .. Len(plan) + 1
    BY <1>2, <2>3 DEF FrameOK
  <2>5. QED
    BY <2>1, <2>2, <2>3, <2>4
<1>6. g.last \in {"completed", "failed", "stopped"} /\ g.next = Here.next + 1 /\ g.path = Here.path
      /\ frames' = [frames EXCEPT ![Len(frames)] = g]
      /\ record' = Append(record, r) /\ plan' = plan /\ lost' = lost
  BY <1>3 DEF Ending, EndsAs
<1>7. r \in Runs /\ Len(r.path) = Len(Here.path) + 1 /\ r.path = Path
  BY <1>1, <1>3, <1>6, PathsAre DEF Runs, Outcomes
<1>8. /\ record' \in Seq(Runs) /\ Len(record') = c + 1 /\ record'[c + 1] = r
      /\ \A q \in 1 .. c : record'[q] = record[q]
  BY <1>4, <1>5, <1>6, <1>7
<1>9. /\ \A q \in 1 .. c : Len(record[q].path) > 0
      /\ \A q \in 1 .. c : Len(record[q].path) = 1 =>
           /\ record[q].path[1] \in 1 .. t - 1 /\ record[q].path[1] <= q
           /\ last[record[q].path[1]] = [attempt |-> record[q].attempt, status |-> record[q].status]
      /\ \A q \in 1 .. t - 1 : (\A x \in 1 .. q : ~SubMap(x)) => record[q].path = <<q>>
      /\ (\A x \in DOMAIN plan : x <= t => ~SubMap(x)) => c = t - 1
      /\ lost \subseteq 1 .. t - 1
      /\ \A k \in 1 .. t - 1 : \/ \E q \in 1 .. c : record[q].path = <<k>>
                               \/ k \in lost /\ \E x \in 1 .. k : SubMap(x)
  <2>1. \A q \in 1 .. Len(record) : Len(record[q].path) = 1 =>
           /\ record[q].path[1] \in 1 .. Top.next - 1 /\ record[q].path[1] <= q
           /\ last[record[q].path[1]] = [attempt |-> record[q].attempt, status |-> record[q].status]
    BY <1>1 DEF RecordOK
  <2>2. QED
    BY <1>1, <1>2, <1>4, <2>1 DEF RecordOK
<1>10. \A x : SubMap(x)' <=> SubMap(x)
  BY <1>6 DEF SubMap
<1>11. CASE Len(frames) > 1
  <2>1. Top'.next = t /\ last' = last
    BY <1>2, <1>6, <1>11, LastChanges DEF Ending
  <2>2. t \in DOMAIN plan /\ SubMap(t) /\ Len(r.path) > 1
    BY <1>2, <1>7, <1>11, TopIsAtMap
  <2>3. \A q \in 1 .. c + 1 : q \in 1 .. c \/ q = c + 1
    BY <1>5
  <2>4. \A q \in 1 .. c + 1 : Len(record'[q].path) > 0
    BY <1>8, <1>9, <2>2, <2>3
  <2>5. ASSUME NEW q \in 1 .. c + 1, Len(record'[q].path) = 1
        PROVE  LET k == record'[q].path[1]
               IN /\ k \in 1 .. t - 1 /\ k <= q
                  /\ last'[k] = [attempt |-> record'[q].attempt, status |-> record'[q].status]
    <3>1. q \in 1 .. c /\ record'[q] = record[q]
      <4>1. CASE q = c + 1
        <5>1. record'[q].path = r.path /\ Len(r.path) = 1
          BY <1>8, <2>5, <4>1
        <5>2. Len(r.path) # 1
          BY <1>7, <2>2, PathsAre
        <5>3. QED
          BY <5>1, <5>2
      <4>2. CASE q \in 1 .. c
        BY <1>8, <4>2
      <4>3. QED
        BY <2>3, <4>1, <4>2
    <3>2. QED
      BY <1>9, <2>1, <2>5, <3>1
  <2>6. ASSUME NEW q \in 1 .. t - 1, \A x \in 1 .. q : ~SubMap(x)'
        PROVE  record'[q].path = <<q>>
    <3>1. q \in 1 .. c
      BY <1>5
    <3>2. \A x \in 1 .. q : ~SubMap(x)
      BY <1>10, <2>6
    <3>3. record[q].path = <<q>>
      BY <1>9, <3>2
    <3>4. QED
      BY <1>8, <3>1, <3>3
  <2>7. ~(\A x \in DOMAIN plan' : x <= t => ~SubMap(x)')
    <3>1. t \in DOMAIN plan' /\ t <= t /\ SubMap(t)'
      BY <1>5, <1>6, <1>10, <2>2
    <3>2. QED
      BY <3>1
  <2>8. ASSUME NEW k \in 1 .. t - 1
        PROVE  \/ \E q \in 1 .. c + 1 : record'[q].path = <<k>>
               \/ k \in lost' /\ \E x \in 1 .. k : SubMap(x)'
    <3>1. CASE \E q \in 1 .. c : record[q].path = <<k>>
      BY <1>5, <1>8, <3>1
    <3>2. CASE k \in lost /\ \E x \in 1 .. k : SubMap(x)
      BY <1>6, <1>10, <3>2
    <3>3. QED
      BY <1>9, <3>1, <3>2
  <2>9. Len(record') >= t - 1 /\ lost' \subseteq 1 .. t - 1
    BY <1>5, <1>6, <1>8, <1>9
  <2>10. QED
    BY <1>8, <2>1, <2>4, <2>5, <2>6, <2>7, <2>8, <2>9 DEF RecordOK
<1>12. CASE Len(frames) = 1
  <2>1. Top'.next = t + 1 /\ Here.next = t /\ Here = Top
    BY <1>2, <1>6, <1>12, LastChanges, HereIs
  <2>2. r.path = <<t>> /\ Len(r.path) = 1 /\ r.path[1] = t
    <3>1. Here.path = <<>> /\ Here.next = t
      BY <1>1, <2>1 DEF TopOK
    <3>2. Path = Append(<<>>, t)
      BY <3>1 DEF Path
    <3>3. Append(<<>>, t) = <<t>> /\ Len(<<t>>) = 1 /\ <<t>>[1] = t
      OBVIOUS
    <3>4. QED
      BY <1>7, <3>2, <3>3
  <2>3. t \in DOMAIN plan
    <3>1. Here.next <= Len(Here.plan) /\ Here.plan = plan
      BY <1>1, <2>1 DEF More, TopOK
    <3>2. QED
      BY <1>5, <2>1, <3>1, HereIs
  <2>4. last'[t] = [attempt |-> r.attempt, status |-> r.status]
        /\ \A k \in DOMAIN plan : k # t => last'[k] = last[k]
    <3>1. last' = [last EXCEPT ![t] = [attempt |-> attempt, status |-> g.last]]
      BY <1>12, <2>1 DEF Ending
    <3>2. DOMAIN last = DOMAIN plan
      BY <1>1 DEF LastOK
    <3>3. QED
      BY <1>3, <2>3, <3>1, <3>2
  <2>5. \A q \in 1 .. c + 1 : q \in 1 .. c \/ q = c + 1
    BY <1>5
  <2>6. ASSUME NEW q \in 1 .. c + 1
        PROVE  Len(record'[q].path) > 0
    <3>1. CASE q = c + 1
      <4>1. Len(record'[q].path) = 1
        BY <1>8, <2>2, <3>1
      <4>2. QED
        BY <4>1
    <3>2. CASE q \in 1 .. c
      BY <1>8, <1>9, <3>2
    <3>3. QED
      BY <2>5, <3>1, <3>2
  <2>7. ASSUME NEW q \in 1 .. c + 1, Len(record'[q].path) = 1
        PROVE  LET k == record'[q].path[1]
               IN /\ k \in 1 .. t /\ k <= q
                  /\ last'[k] = [attempt |-> record'[q].attempt, status |-> record'[q].status]
    <3>1. CASE q \in 1 .. c
      <4>1. record'[q] = record[q] /\ Len(record[q].path) = 1
        BY <1>8, <2>7, <3>1
      <4>2. PICK k : k = record[q].path[1]
        OBVIOUS
      <4>3. k \in 1 .. t - 1 /\ k <= q /\ last[k] = [attempt |-> record[q].attempt, status |-> record[q].status]
        BY <1>9, <3>1, <4>1, <4>2
      <4>4. k \in DOMAIN plan /\ k # t /\ k \in 1 .. t
        BY <1>5, <4>3, HereIs
      <4>5. QED
        BY <2>4, <4>1, <4>2, <4>3, <4>4
    <3>2. CASE q = c + 1
      <4>1. record'[q] = r /\ r.path[1] = t /\ t \in 1 .. t /\ t <= q
        BY <1>5, <1>8, <2>2, <3>2
      <4>2. QED
        BY <2>4, <4>1
    <3>3. QED
      BY <2>5, <3>1, <3>2
  <2>8. (\A x \in DOMAIN plan : x <= t => ~SubMap(x)) => c = t - 1
    BY <1>9
  <2>9. ASSUME NEW q \in 1 .. t, \A x \in 1 .. q : ~SubMap(x)'
        PROVE  record'[q].path = <<q>>
    <3>1. \A x \in 1 .. q : ~SubMap(x)
      BY <1>10, <2>9
    <3>2. CASE q \in 1 .. t - 1
      <4>1. record[q].path = <<q>>
        BY <1>9, <3>1, <3>2
      <4>2. q \in 1 .. c
        BY <1>5, <3>2
      <4>3. QED
        BY <1>8, <4>1, <4>2
    <3>3. CASE q = t
      <4>1. \A x \in DOMAIN plan : x <= t => x \in 1 .. q
        BY <1>5, <3>3, HereIs
      <4>2. c = t - 1
        BY <2>8, <3>1, <4>1
      <4>3. c + 1 = q
        BY <1>5, <3>3, <4>2
      <4>4. QED
        BY <1>8, <2>2, <3>3, <4>3
    <3>4. QED
      BY <1>5, <3>2, <3>3
  <2>10. (\A x \in DOMAIN plan' : x <= t + 1 => ~SubMap(x)') => c + 1 = (t + 1) - 1
    <3>1. SUFFICES ASSUME \A x \in DOMAIN plan' : x <= t + 1 => ~SubMap(x)'
                   PROVE  c + 1 = (t + 1) - 1
      OBVIOUS
    <3>2. \A x \in DOMAIN plan : x <= t => ~SubMap(x)
      <4>1. \A x \in DOMAIN plan : x <= t => x <= t + 1
        BY <1>5, HereIs
      <4>2. QED
        BY <1>6, <1>10, <3>1, <4>1
    <3>3. QED
      BY <1>5, <2>8, <3>2
  <2>11. ASSUME NEW k \in 1 .. t
         PROVE  \/ \E q \in 1 .. c + 1 : record'[q].path = <<k>>
                \/ k \in lost' /\ \E x \in 1 .. k : SubMap(x)'
    <3>1. CASE k = t
      <4>1. c + 1 \in 1 .. c + 1
        BY <1>5
      <4>2. QED
        BY <1>8, <2>2, <3>1, <4>1
    <3>2. CASE k \in 1 .. t - 1 /\ \E q \in 1 .. c : record[q].path = <<k>>
      BY <1>5, <1>8, <3>2
    <3>3. CASE k \in lost /\ \E x \in 1 .. k : SubMap(x)
      BY <1>6, <1>10, <3>3
    <3>4. k = t \/ k \in 1 .. t - 1
      BY <1>5
    <3>5. QED
      BY <1>9, <3>1, <3>2, <3>3, <3>4
  <2>12. Len(record') >= t /\ lost' \subseteq 1 .. t
    BY <1>5, <1>6, <1>8, <1>9
  <2>13. (t + 1) - 1 = t
    BY <1>5
  <2> DEFINE u == t + 1
  <2>14. u - 1 = t /\ Top'.next = u /\ ((\A x \in DOMAIN plan' : x <= u => ~SubMap(x)') => Len(record') = u - 1)
    BY <1>8, <2>1, <2>10, <2>13
  <2> HIDE DEF u
  <2>15. QED
    BY <1>8, <2>6, <2>7, <2>9, <2>11, <2>12, <2>14 DEF RecordOK
<1>13. QED
  BY <1>11, <1>12, HereIs

\* A milestone that ends keeps the invariant.
LEMMA EndingKeeps ==
    ASSUME RequestInv, More, NEW g, NEW outs, Ending(g, outs)
    PROVE  RequestInv'
<1>1. Tower(frames', Stored', Recent, Failed') /\ GraphsOK' /\ RecordOK'
  BY EndingTower, EndingGraphs, EndingRecord
<1>2. UNCHANGED <<plan, attempt, status, size, why, since>> /\ status = "running"
      /\ frames' = [frames EXCEPT ![Len(frames)] = g] /\ g.path = Here.path
  BY DEF Ending, EndsAs, More
<1>3. Recent' = Recent
  BY <1>2 DEF Recent
<1>4. TopOK' /\ LastOK'
  <2>1. CASE Len(frames) = 1
    BY <2>1, EndingTop, EndingLast
  <2>2. CASE Len(frames) > 1
    <3>1. Top' = Top /\ last' = last
      BY <1>2, <2>2, LastChanges DEF Ending
    <3>2. QED
      BY <1>2, <3>1, TopStays
  <2>3. QED
    BY <2>1, <2>2, HereIs
<1>5. StatusOK'
  <2>1. status' = "running" /\ why' = why /\ why # "carriers"
    BY <1>2 DEF RequestInv, StatusOK
  <2>2. QED
    BY <2>1 DEF StatusOK
<1>6. plan' \in Plans /\ attempt' \in 0 .. Budget /\ since' \in 0 .. attempt' /\ size' \in 0 .. MaxSize
  BY <1>2 DEF RequestInv
<1>7. Tower(frames, Stored, Recent, Failed)'
  BY <1>1, <1>3
<1>8. QED
  BY <1>1, <1>4, <1>5, <1>6, <1>7 DEF RequestInv

-----------------------------------------------------------------------------
\* What Finish makes of the frame.
LEMMA FinishIs ==
    ASSUME RequestInv, More, NEW outcome, NEW board, NEW carriers, NEW slice,
           Finish(outcome, board, carriers, slice)
    PROVE  \E g : /\ frames' = [frames EXCEPT ![Len(frames)] = g]
                  /\ IsFrame(g) /\ g.plan = Here.plan /\ g.path = Here.path
                  /\ g.next = Here.next + 1 /\ g.only = 0 /\ g.fan = NoFan /\ g.last = outcome
                  /\ g.board = board /\ g.carriers = carriers /\ g.slice = slice
<1>1. PICK f : f = Here
  OBVIOUS
<1>2. IsFrame(f)
  BY <1>1, HereIs DEF FrameOK
<1> DEFINE g == [f EXCEPT !.next = @ + 1, !.only = 0, !.fan = NoFan,
                          !.last = outcome, !.board = board,
                          !.carriers = carriers, !.slice = slice]
<1>3. frames' = [frames EXCEPT ![Len(frames)] = g]
  BY <1>1 DEF Finish, Continue
<1>4. /\ g.plan = f.plan /\ g.path = f.path
      /\ g.next = f.next + 1 /\ g.only = 0 /\ g.fan = NoFan /\ g.last = outcome
      /\ g.board = board /\ g.carriers = carriers /\ g.slice = slice
      /\ IsFrame(g)
  <2> DEFINE S == [plan : {f.plan}, path : {f.path}, next : {f.next, f.next + 1},
                   only : {f.only, 0}, board : {f.board, board},
                   carriers : {f.carriers, carriers}, fan : {f.fan, NoFan},
                   last : {f.last, outcome}, slice : {f.slice, slice}]
  <2>1. f \in S
    BY <1>2 DEF IsFrame
  <2>2. /\ g.plan = f.plan /\ g.path = f.path
        /\ g.next = f.next + 1 /\ g.only = 0 /\ g.fan = NoFan /\ g.last = outcome
        /\ g.board = board /\ g.carriers = carriers /\ g.slice = slice
    BY <2>1
  <2>3. g \in S
    BY <2>1
  <2> HIDE DEF g
  <2>4. IsFrame(g)
    BY <2>3 DEF IsFrame
  <2>5. QED
    BY <2>2, <2>4
<1> HIDE DEF g
<1>5. /\ IsFrame(g) /\ g.plan = f.plan /\ g.path = f.path
      /\ g.next = f.next + 1 /\ g.only = 0 /\ g.fan = NoFan /\ g.last = outcome
      /\ g.board = board /\ g.carriers = carriers /\ g.slice = slice
  BY <1>4
<1>6. QED
  BY <1>1, <1>3, <1>5

\* A milestone that ends as its kind does keeps the invariant.
LEMMA FinishKeeps ==
    ASSUME RequestInv, More, NEW outcome \in {"completed", "failed", "stopped"}, NEW outs,
           NEW carriers, NEW slice, Finish(outcome, Put(Board, outs), carriers, slice),
           graphs' = graphs \/ graphs' = Append(graphs, RunRef(Path, 0)),
           slice \in Slices, \A i \in 1 .. Len(slice) : slice[i].run \in Stored',
           Len(frames) = 1 => slice = Here.slice,
           Len(frames) > 1 /\ outcome = "completed" /\ Milestone.kind \in {"leaf", "fold"} =>
             /\ Len(slice) > 0 /\ Last(Milestone.writes) \in slice[Len(slice)].made
             /\ outs[Last(Milestone.writes)].by = <<slice[Len(slice)].run>>,
           DOMAIN outs \subseteq Range(Milestone.writes), BoardOK(outs, Recent),
           Milestone.reads \in DOMAIN Board =>
             \A ds \in DOMAIN outs : outs[ds].from = Board[Milestone.reads].by,
           Milestone.kind # "notional"
             /\ (outcome = "completed" \/ (outcome = "stopped" /\ Milestone.kind = "map"))
             => Last(Milestone.writes) \in DOMAIN outs,
           \A ds \in DOMAIN outs :
             \/ IsTrue(outs[ds])
             \/ Milestone.kind = "leaf" /\ outcome = "failed" /\ ds \in DOMAIN Board,
           Milestone.kind = "leaf" /\ outcome # "failed" => DOMAIN outs = Range(Milestone.writes),
           Milestone.kind = "fold" /\ DOMAIN outs # {} => Whole(Here, outs[Last(Milestone.writes)]),
           Milestone.kind # "map" => carriers = Here.carriers,
           Milestone.kind = "map" =>
             /\ DOMAIN outs = {Last(Milestone.writes)}
             /\ \A g : g.carriers = carriers =>
                  \E c : Carries(Here, g, outs[Last(Milestone.writes)], c, Stored', Recent)
    PROVE  RequestInv'
<1>1. PICK g : /\ frames' = [frames EXCEPT ![Len(frames)] = g]
               /\ IsFrame(g) /\ g.plan = Here.plan /\ g.path = Here.path
               /\ g.next = Here.next + 1 /\ g.only = 0 /\ g.fan = NoFan /\ g.last = outcome
               /\ g.board = Put(Board, outs) /\ g.carriers = carriers /\ g.slice = slice
  BY FinishIs
<1>2. Milestone = Here.plan[Here.next] /\ Board = Here.board
  BY DEF Milestone, Board
<1>3. EndsAs(Here, g, outs, Stored', Recent)
  <2>1. Here.next <= Len(Here.plan)
    BY DEF More
  <2>2. PICK G : G = Stored'
    OBVIOUS
  <2>3. PICK R : R = Recent
    OBVIOUS
  <2>4. \A i \in 1 .. Len(g.slice) : g.slice[i].run \in G
    BY <1>1, <2>2
  <2>5. Here.plan[Here.next].kind = "map" =>
          \E c : Carries(Here, g, outs[Last(Here.plan[Here.next].writes)], c, G, R)
    BY <1>1, <1>2, <2>2, <2>3
  <2>6. EndsAs(Here, g, outs, G, R)
    BY <1>1, <1>2, <2>1, <2>3, <2>4, <2>5 DEF EndsAs
  <2>7. QED
    BY <2>2, <2>3, <2>6
<1>4. Len(frames) = 1 => g.slice = <<>>
  <2>1. Len(frames) = 1 => Here.slice = <<>>
    BY HereIs DEF RequestInv, TopOK
  <2>2. QED
    BY <1>1, <2>1
<1>5. Ending(g, outs)
  BY <1>1, <1>3, <1>4 DEF Ending, Finish
<1>6. QED
  BY <1>5, EndingKeeps

\* The slice, with what has just been run.
LEMMA CollectedIs ==
    ASSUME RequestInv, NEW run \in Reference, run \in Stored', Stored \subseteq Stored',
           NEW made \in SUBSET DataState, NEW stopped \in BOOLEAN
    PROVE  /\ Collected(run, made, stopped) \in Slices
           /\ \A i \in 1 .. Len(Collected(run, made, stopped)) :
                Collected(run, made, stopped)[i].run \in Stored'
           /\ Len(frames) = 1 => Collected(run, made, stopped) = Here.slice
           /\ Len(frames) > 1 =>
                LET s == Collected(run, made, stopped)
                IN Len(s) > 0 /\ s[Len(s)].made = made /\ s[Len(s)].run = run
<1> DEFINE e == [run |-> run, made |-> made, stopped |-> stopped]
           T == [run : Reference, made : SUBSET DataState, stopped : BOOLEAN]
<1>1. PICK z : z = Here.slice
  OBVIOUS
<1>2. PICK G : G = Stored'
  OBVIOUS
<1>3. z \in Seq(T) /\ \A i \in 1 .. Len(z) : z[i].run \in G
  <2>1. FrameOK(Here, Stored, Recent)
    BY HereIs
  <2>2. QED
    BY <1>1, <1>2, <2>1 DEF FrameOK, Slices
<1>4. e \in T /\ e.run = run /\ e.made = made /\ run \in G
  BY <1>2
<1> HIDE DEF e, T
<1>5. /\ Append(z, e) \in Seq(T) /\ Len(Append(z, e)) = Len(z) + 1 /\ Append(z, e)[Len(z) + 1] = e
      /\ \A i \in 1 .. Len(z) : Append(z, e)[i] = z[i]
      /\ Len(z) \in Nat
  BY <1>3, <1>4
<1>6. \A i \in 1 .. Len(z) + 1 : Append(z, e)[i].run \in G
  <2>1. \A i \in 1 .. Len(z) + 1 : i \in 1 .. Len(z) \/ i = Len(z) + 1
    BY <1>5
  <2>2. QED
    BY <1>3, <1>4, <1>5, <2>1
<1>7. CASE Len(frames) = 1
  <2>1. Collected(run, made, stopped) = z
    BY <1>1, <1>7 DEF Collected
  <2>2. QED
    BY <1>1, <1>2, <1>3, <1>7, <2>1 DEF Slices, T
<1>8. CASE Len(frames) # 1
  <2>1. Collected(run, made, stopped) = Append(z, e)
    BY <1>1, <1>8 DEF Collected, e
  <2>2. Len(Append(z, e)) > 0
    BY <1>5
  <2>3. Append(z, e)[Len(Append(z, e))] = e
    BY <1>5
  <2>4. QED
    BY <1>2, <1>4, <1>5, <1>6, <1>8, <2>1, <2>2, <2>3 DEF Slices, T
<1>9. QED
  BY <1>7, <1>8

-----------------------------------------------------------------------------
\* What is known of the milestone at hand.
LEMMA MilestoneIs ==
    ASSUME RequestInv, More
    PROVE  /\ Milestone \in Milestones /\ Here.next \in DOMAIN Here.plan
           /\ Milestone = Here.plan[Here.next]
           /\ BoardOK(Board, Recent) /\ FrameOK(Here, Stored, Recent)
<1>1. FrameOK(Here, Stored, Recent)
  BY HereIs
<1>2. Here.plan \in Seq(Milestones) /\ Here.next \in 1 .. Len(Here.plan) + 1
      /\ BoardOK(Here.board, Recent)
  BY <1>1 DEF FrameOK
<1>3. Here.next \in DOMAIN Here.plan
  BY <1>2 DEF More
<1>4. QED
  BY <1>1, <1>2, <1>3 DEF Milestone, Board

\* Nothing is written.
LEMMA PutNone ==
    ASSUME NEW b, NEW more, NEW R, BoardOK(b, R), DOMAIN more = {}
    PROVE  Put(b, more) = b
BY DEF Put, BoardOK

\* A milestone without a target.
LEMMA NotionalKeeps ==
    ASSUME RequestInv, Notional PROVE RequestInv'
<1> DEFINE outs == [ds \in {} |-> Nothing]
<1>1. More /\ Milestone.kind = "notional" /\ graphs' = graphs
      /\ Finish("completed", Board, Here.carriers, Here.slice)
  BY DEF Notional
<1>2. DOMAIN outs = {}
  OBVIOUS
<1>3. FrameOK(Here, Stored, Recent)
  BY HereIs
<1> HIDE DEF outs
<1>4. Put(Board, outs) = Board
  BY <1>1, <1>2, MilestoneIs, PutNone
<1>5. Here.slice \in Slices /\ \A i \in 1 .. Len(Here.slice) : Here.slice[i].run \in Stored'
  BY <1>1, <1>3 DEF FrameOK, Stored
<1>6. BoardOK(outs, Recent)
  BY <1>2 DEF BoardOK, outs
<1>7. QED
  BY <1>1, <1>2, <1>4, <1>5, <1>6, FinishKeeps
\* The graph of a run of the milestone, or of the member.
LEMMA StoredMore ==
    ASSUME RequestInv, NEW p, p = Path \/ p = MemberPath, NEW retry \in 0 .. RetryCap,
           graphs' = Append(graphs, RunRef(p, retry))
    PROVE  /\ RunRef(p, retry) \in Reference /\ RunRef(p, retry) \in Recent
           /\ RunRef(p, retry) \in Stored' /\ Stored \subseteq Stored'
<1>1. RunRef(p, retry) \in Reference /\ RunRef(p, retry) \in Recent
  BY PathsAre, RunIs
<1>2. graphs \in Seq(Reference)
  BY DEF RequestInv, GraphsOK
<1>3. PICK r : r = RunRef(p, retry)
  OBVIOUS
<1>4. PICK t : t = Append(graphs, r)
  OBVIOUS
<1>5. /\ DOMAIN t = 1 .. Len(graphs) + 1 /\ t[Len(graphs) + 1] = r /\ Len(graphs) \in Nat
      /\ DOMAIN graphs = 1 .. Len(graphs) /\ \A i \in 1 .. Len(graphs) : t[i] = graphs[i]
  BY <1>1, <1>2, <1>3, <1>4
<1>6. Len(graphs) + 1 \in 1 .. Len(graphs) + 1 /\ \A i \in 1 .. Len(graphs) : i \in 1 .. Len(graphs) + 1
  BY <1>5
<1>7. r \in Range(t) /\ Range(graphs) \subseteq Range(t)
  BY <1>5, <1>6 DEF Range
<1>8. QED
  BY <1>1, <1>3, <1>4, <1>7 DEF Stored

\* A leaf, whether it succeeds or fails on the way.
LEMMA LeafKeeps ==
    ASSUME RequestInv, NEW done \in 0 .. 2, NEW n \in 0 .. MaxSize, Leaf(done, n)
    PROVE  RequestInv'
<1>1. PICK run : run = RunRef(Path, 0)
  OBVIOUS
<1>2. PICK m : m = Milestone
  OBVIOUS
<1>3. PICK b : b = Board
  OBVIOUS
<1>4. PICK start : start = b[m.reads]
  OBVIOUS
<1> DEFINE ok == done = Len(m.writes)
           made == Range(SubSeq(m.writes, 1, done))
           said(ds) == IF ok THEN Produced(<<run>>)
                       ELSE IF ds \in DOMAIN b THEN b[ds].said ELSE Unrecorded
           outs == [ds \in made |->
             Value(<<run>>, [i \in 1 .. n |-> <<run>>], said(ds), start.by, start.short)]
           outcome == IF ok THEN "completed" ELSE "failed"
           slice == Collected(run, made, ~ok)
<1>5. /\ More /\ m.kind = "leaf" /\ done <= Len(m.writes)
      /\ (done > 0 => m.reads \in DOMAIN b)
      /\ Finish(outcome, Put(b, outs), Here.carriers, slice)
      /\ graphs' = Append(graphs, run)
  BY <1>1, <1>2, <1>3, <1>4 DEF Leaf, Walk
<1>6. m \in Milestones /\ BoardOK(b, Recent)
  BY <1>2, <1>3, <1>5, MilestoneIs
<1>7. run \in Reference /\ run \in Recent /\ run \in Stored' /\ Stored \subseteq Stored'
  <2>1. 0 \in 0 .. RetryCap
    BY RequestConstants
  <2>2. QED
    BY <1>1, <1>5, <2>1, StoredMore
<1>8. m.writes \in Seq(DataState) /\ Len(m.writes) \in Nat /\ m.writes # <<>>
      /\ Range(m.writes) \subseteq DataState /\ Last(m.writes) \in Range(m.writes)
  <2>1. m.writes \in Seq(DataState) /\ m.writes # <<>>
    BY <1>5, <1>6, PlansAssumption DEF PlansAreLayered, IsMilestone
  <2>2. Len(m.writes) \in Nat
    BY <2>1
  <2>3. m.kind # "notional"
    BY <1>5
  <2>4. Range(m.writes) \subseteq DataState /\ Last(m.writes) \in Range(m.writes)
    BY <1>6, <2>3, WritesAre
  <2>5. QED
    BY <2>1, <2>2, <2>4
<1>9. made \subseteq Range(m.writes) /\ made \in SUBSET DataState
      /\ (ok => made = Range(m.writes)) /\ (done = 0 => made = {})
  <2> DEFINE s == SubSeq(m.writes, 1, done)
  <2>1. DOMAIN s = 1 .. done /\ (\A i \in 1 .. done : s[i] = m.writes[i])
        /\ DOMAIN m.writes = 1 .. Len(m.writes)
    BY <1>5, <1>8
  <2>2. \A i \in 1 .. done : i \in 1 .. Len(m.writes)
    BY <1>5, <1>8
  <2>3. ok => 1 .. done = 1 .. Len(m.writes)
    OBVIOUS
  <2>4. done = 0 => 1 .. done = {}
    OBVIOUS
  <2> HIDE DEF s, ok
  <2>5. Range(s) \subseteq Range(m.writes) /\ (ok => Range(s) = Range(m.writes))
        /\ (done = 0 => Range(s) = {})
    BY <2>1, <2>2, <2>3, <2>4 DEF Range
  <2>6. QED
    BY <1>8, <2>5 DEF s
<1> HIDE DEF made, ok
<1>10. /\ slice \in Slices /\ (\A i \in 1 .. Len(slice) : slice[i].run \in Stored')
       /\ (Len(frames) = 1 => slice = Here.slice)
       /\ (Len(frames) > 1 => Len(slice) > 0 /\ slice[Len(slice)].made = made
                              /\ slice[Len(slice)].run = run)
  <2> DEFINE st == ~ok
  <2>1. st \in BOOLEAN /\ slice = Collected(run, made, st)
    BY DEF ok
  <2> HIDE DEF st, slice
  <2>2. QED
    BY <1>7, <1>9, <2>1, CollectedIs
<1> HIDE DEF slice
<1>11. DOMAIN outs = made
  OBVIOUS
<1>12. ASSUME NEW ds \in made
       PROVE  /\ outs[ds] = Value(<<run>>, [i \in 1 .. n |-> <<run>>], said(ds), start.by, start.short)
              /\ outs[ds] \in Values(Recent) /\ outs[ds].by = <<run>> /\ outs[ds].from = start.by
              /\ \A i \in 1 .. Len(outs[ds].items) : Range(outs[ds].items[i]) \subseteq Range(outs[ds].by)
              /\ IsTrue(outs[ds]) \/ (~ok /\ ds \in DOMAIN b)
  <2>1. outs[ds] = Value(<<run>>, [i \in 1 .. n |-> <<run>>], said(ds), start.by, start.short)
    OBVIOUS
  <2>2. m.reads \in DOMAIN b
    BY <1>5, <1>9
  <2>3. start \in Values(Recent)
    BY <1>4, <1>6, <2>2 DEF BoardOK
  <2>4. start.by \in Seq(Recent) /\ start.short \in BOOLEAN
    BY <2>3 DEF Values
  <2>5. <<run>> \in Seq(Recent)
    BY <1>7
  <2>6. Produced(<<run>>) \in Said(Recent) /\ Unrecorded \in Said(Recent)
    BY <2>5 DEF Produced, Unrecorded, Origin, Said
  <2>7. ds \in DOMAIN b => b[ds].said \in Said(Recent)
    BY <1>6 DEF BoardOK, Values
  <2>8. said(ds) \in Said(Recent)
    BY <2>6, <2>7
  <2> DEFINE items == [i \in 1 .. n |-> <<run>>]
  <2>9. items \in Seq(Seq(Recent)) /\ Len(items) = n /\ \A i \in 1 .. n : items[i] = <<run>>
    BY <2>5
  <2>10. \/ said(ds) = Produced(<<run>>)
         \/ said(ds) = Unrecorded
         \/ ~ok /\ ds \in DOMAIN b
    OBVIOUS
  <2>11. PICK q : q = said(ds)
    OBVIOUS
  <2> HIDE DEF items, said
  <2>12. outs[ds] = [by |-> <<run>>, items |-> items, said |-> q, from |-> start.by, short |-> start.short]
    BY <2>1, <2>11 DEF Value, items
  <2> HIDE DEF outs
  <2>13. outs[ds] \in Values(Recent) /\ outs[ds].by = <<run>> /\ outs[ds].from = start.by
         /\ outs[ds].items = items /\ outs[ds].said = q
    BY <2>4, <2>5, <2>8, <2>9, <2>11, <2>12 DEF Values
  <2>14. \A i \in 1 .. Len(outs[ds].items) : Range(outs[ds].items[i]) \subseteq Range(outs[ds].by)
    BY <2>9, <2>13
  <2>15. IsTrue(outs[ds]) \/ (~ok /\ ds \in DOMAIN b)
    <3>1. CASE q = Produced(<<run>>)
      BY <2>13, <3>1 DEF IsTrue, Produced, Origin
    <3>2. CASE q = Unrecorded
      BY <2>13, <3>2 DEF IsTrue, Unrecorded, Origin
    <3>3. QED
      BY <2>10, <2>11, <3>1, <3>2
  <2>16. QED
    BY <2>1, <2>13, <2>14, <2>15
<1>13. outs = [ds \in DOMAIN outs |-> outs[ds]]
  OBVIOUS
<1> HIDE DEF outs
<1>14. BoardOK(outs, Recent)
  BY <1>9, <1>11, <1>12, <1>13 DEF BoardOK
<1>15. outcome \in {"completed", "failed", "stopped"} /\ (outcome # "failed" <=> ok)
       /\ (outcome = "completed" <=> ok) /\ outcome # "stopped"
  OBVIOUS
<1> HIDE DEF outcome
<1>16. /\ DOMAIN outs \subseteq Range(m.writes)
       /\ (m.reads \in DOMAIN b => \A ds \in DOMAIN outs : outs[ds].from = b[m.reads].by)
       /\ (outcome = "completed" => Last(m.writes) \in DOMAIN outs)
       /\ (outcome # "failed" => DOMAIN outs = Range(m.writes))
       /\ (\A ds \in DOMAIN outs : IsTrue(outs[ds]) \/ (outcome = "failed" /\ ds \in DOMAIN b))
  BY <1>4, <1>8, <1>9, <1>11, <1>12, <1>15
<1>17. Len(frames) > 1 /\ outcome = "completed" =>
         /\ Len(slice) > 0 /\ Last(m.writes) \in slice[Len(slice)].made
         /\ outs[Last(m.writes)].by = <<slice[Len(slice)].run>>
  BY <1>8, <1>9, <1>10, <1>11, <1>12, <1>15
<1>18. QED
  BY <1>1, <1>2, <1>3, <1>5, <1>10, <1>14, <1>15, <1>16, <1>17, FinishKeeps

-----------------------------------------------------------------------------
\* The domain of a fold is in step with its mask.
LEMMA NeverOutOfStep ==
    ASSUME RequestInv, More PROVE ~OutOfStep
<1>1. PICK f : f = Here
  OBVIOUS
<1>2. PICK m : m = Milestone
  OBVIOUS
<1>3. SUFFICES ASSUME m.reads \in DOMAIN f.carriers
               PROVE  Len(Domain) = Completed(MaskHere)
  BY <1>1, <1>2 DEF OutOfStep
<1>4. CarriersOK(f, Stored, Recent)
  BY <1>1, HereIs DEF FrameOK
<1>5. m.reads \in DOMAIN f.board /\ Domain = f.board[m.reads].items /\ MaskHere = f.carriers[m.reads].mask
  BY <1>1, <1>2, <1>3, <1>4 DEF CarriersOK, Domain, MaskHere, Board
<1>6. InStep(f.board[m.reads].items, f.carriers[m.reads].ids, f.carriers[m.reads].mask,
             f.carriers[m.reads].origins, \A x \in MapsTo(f, m.reads) : OneRun(x), Stored, Recent)
  BY <1>3, <1>4, Zenon DEF CarriersOK
<1>7. Len(Domain) = Count(MaskHere, Len(MaskHere)) /\ MaskHere \in Seq(BOOLEAN)
  BY <1>5, <1>6, Zenon DEF InStep
<1>8. QED
  BY <1>7, CompletedIs

\* A fold that must stop.
LEMMA FoldStopsKeeps ==
    ASSUME RequestInv, FoldStops PROVE RequestInv'
<1> DEFINE outs == [ds \in {} |-> Nothing]
           run == RunRef(Path, 0)
           slice == Collected(run, {}, TRUE)
<1>1. More /\ Milestone.kind = "fold" /\ graphs' = Append(graphs, run)
      /\ Finish("stopped", Board, Here.carriers, slice)
  BY NeverOutOfStep DEF FoldStops
<1>2. DOMAIN outs = {}
  OBVIOUS
<1> HIDE DEF outs, run
<1>3. Put(Board, outs) = Board
  BY <1>1, <1>2, MilestoneIs, PutNone
<1>4. run \in Reference /\ run \in Stored' /\ Stored \subseteq Stored'
  <2>1. 0 \in 0 .. RetryCap
    BY RequestConstants
  <2>2. QED
    BY <1>1, <2>1, StoredMore DEF run
<1>5. /\ slice \in Slices /\ (\A i \in 1 .. Len(slice) : slice[i].run \in Stored')
      /\ (Len(frames) = 1 => slice = Here.slice)
  BY <1>4, CollectedIs
<1>6. BoardOK(outs, Recent)
  BY <1>2 DEF BoardOK, outs
<1> HIDE DEF slice
<1>7. QED
  BY <1>1, <1>2, <1>3, <1>5, <1>6, FinishKeeps DEF run

\* A fold that concludes, or fails.
LEMMA FoldKeeps ==
    ASSUME RequestInv, NEW ok \in BOOLEAN, Fold(ok) PROVE RequestInv'
<1>1. PICK run : run = RunRef(Path, 0)
  OBVIOUS
<1>2. PICK m : m = Milestone
  OBVIOUS
<1>3. PICK b : b = Board
  OBVIOUS
<1>4. PICK domain : domain = b[m.reads]
  OBVIOUS
<1>a. PICK out : out = Last(m.writes)
  OBVIOUS
<1> DEFINE done == IF ok THEN 1 ELSE 0
           made == Range(SubSeq(m.writes, 1, done))
           outs == [ds \in made |-> Value(<<run>>, <<>>, Produced(<<run>>), domain.by, domain.short)]
           outcome == IF ok THEN "completed" ELSE "failed"
           st == ~ok
           slice == Collected(run, made, st)
<1>5. /\ More /\ m.kind = "fold" /\ ~MustStop
      /\ Finish(outcome, Put(b, outs), Here.carriers, slice)
      /\ graphs' = Append(graphs, run)
  BY <1>1, <1>2, <1>3, <1>4 DEF Fold, Walk
<1>6. m \in Milestones /\ BoardOK(b, Recent)
  BY <1>2, <1>3, <1>5, MilestoneIs
<1>7. run \in Reference /\ run \in Recent /\ run \in Stored' /\ Stored \subseteq Stored'
  <2>1. 0 \in 0 .. RetryCap
    BY RequestConstants
  <2>2. QED
    BY <1>1, <1>5, <2>1, StoredMore
<1>8. m.writes \in Seq(DataState) /\ Len(m.writes) = 1 /\ out \in DataState
      /\ Range(m.writes) = {out}
  <2>1. m.writes \in Seq(DataState) /\ Len(m.writes) = 1
    BY <1>5, <1>6, PlansAssumption DEF PlansAreLayered, IsMilestone
  <2>2. Range(m.writes) = {out} /\ Range(m.writes) \subseteq DataState
    BY <1>5, <1>6, <1>a, WritesAre
  <2>3. QED
    BY <2>1, <2>2
<1>9. made = IF ok THEN {out} ELSE {}
  <2>1. SubSeq(m.writes, 1, 1) = m.writes
    BY <1>8
  <2>2. DOMAIN SubSeq(m.writes, 1, 0) = {}
    BY <1>8
  <2>3. QED
    BY <1>8, <2>1, <2>2 DEF Range
<1> HIDE DEF made
<1>10. /\ slice \in Slices /\ (\A i \in 1 .. Len(slice) : slice[i].run \in Stored')
       /\ (Len(frames) = 1 => slice = Here.slice)
       /\ (Len(frames) > 1 => Len(slice) > 0 /\ slice[Len(slice)].made = made
                              /\ slice[Len(slice)].run = run)
  <2>1. st \in BOOLEAN /\ made \in SUBSET DataState
    BY <1>8, <1>9
  <2> HIDE DEF st
  <2>2. QED
    BY <1>7, <2>1, CollectedIs
<1> HIDE DEF slice
<1>11. DOMAIN outs = made
  OBVIOUS
<1>12. m.reads \in DOMAIN b /\ (m.reads \in DOMAIN Here.carriers => AllOf(Here.carriers[m.reads].mask))
  BY <1>2, <1>3, <1>5 DEF MustStop, Domain, MaskHere
<1>13. domain \in Values(Recent)
  BY <1>4, <1>6, <1>12 DEF BoardOK
<1>14. ASSUME NEW ds \in made
       PROVE  /\ outs[ds] \in Values(Recent) /\ outs[ds].by = <<run>> /\ outs[ds].from = domain.by
              /\ outs[ds].short = domain.short
              /\ \A i \in 1 .. Len(outs[ds].items) : Range(outs[ds].items[i]) \subseteq Range(outs[ds].by)
              /\ IsTrue(outs[ds])
  <2>1. outs[ds] = [by |-> <<run>>, items |-> <<>>, said |-> Produced(<<run>>),
                    from |-> domain.by, short |-> domain.short]
    BY DEF Value
  <2>2. <<run>> \in Seq(Recent) /\ <<>> \in Seq(Seq(Recent))
    BY <1>7
  <2>3. Produced(<<run>>) \in Said(Recent) /\ Produced(<<run>>).kind = "produced"
        /\ Produced(<<run>>).by = <<run>>
    BY <2>2 DEF Produced, Origin, Said
  <2> HIDE DEF outs
  <2>4. outs[ds] \in Values(Recent) /\ outs[ds].by = <<run>> /\ outs[ds].from = domain.by
        /\ outs[ds].short = domain.short /\ outs[ds].items = <<>> /\ outs[ds].said = Produced(<<run>>)
    BY <1>13, <2>1, <2>2, <2>3 DEF Values
  <2>5. IsTrue(outs[ds])
    BY <2>3, <2>4 DEF IsTrue
  <2>6. QED
    BY <2>4, <2>5
<1>15. outs = [ds \in DOMAIN outs |-> outs[ds]]
  OBVIOUS
<1> HIDE DEF outs
<1>16. BoardOK(outs, Recent)
  BY <1>8, <1>9, <1>11, <1>14, <1>15 DEF BoardOK
<1>17. outcome \in {"completed", "failed", "stopped"} /\ (outcome = "completed" <=> ok) /\ outcome # "stopped"
  OBVIOUS
<1> HIDE DEF outcome
<1>18. /\ DOMAIN outs \subseteq Range(m.writes)
       /\ (m.reads \in DOMAIN b => \A ds \in DOMAIN outs : outs[ds].from = b[m.reads].by)
       /\ (outcome = "completed" => Last(m.writes) \in DOMAIN outs)
       /\ (\A ds \in DOMAIN outs : IsTrue(outs[ds]))
  BY <1>4, <1>a, <1>8, <1>9, <1>11, <1>14, <1>17
<1>19. Len(frames) > 1 /\ outcome = "completed" =>
         /\ Len(slice) > 0 /\ Last(m.writes) \in slice[Len(slice)].made
         /\ outs[Last(m.writes)].by = <<slice[Len(slice)].run>>
  BY <1>a, <1>9, <1>10, <1>14, <1>17
<1>20. DOMAIN outs # {} => Whole(Here, outs[Last(m.writes)])
  <2>1. SUFFICES ASSUME DOMAIN outs # {}
                 PROVE  Whole(Here, outs[out])
    BY <1>a
  <2>2. out \in made
    BY <1>9, <1>11, <2>1
  <2>3. outs[out].from = domain.by /\ outs[out].short = domain.short
    BY <1>14, <2>2
  <2>4. Here.plan[Here.next] = m /\ Here.board = b
    BY <1>2, <1>3 DEF Milestone, Board
  <2>5. QED
    BY <1>4, <1>12, <2>3, <2>4 DEF Whole
<1>21. QED
  BY <1>1, <1>2, <1>3, <1>5, <1>10, <1>16, <1>17, <1>18, <1>19, <1>20, FinishKeeps

-----------------------------------------------------------------------------
\* Nothing is made of no members.
LEMMA FlattenOfNone == FlattenSeq(<<>>) = <<>>
<1>1. <<>> \in Seq(Seq({})) /\ Len(<<>>) = 0
  OBVIOUS
<1>2. PICK g : g[0] = <<>> /\ FlattenSeq(<<>>) = g[Len(<<>>)]
  BY <1>1, FlattenIs
<1>3. QED
  BY <1>1, <1>2

\* A map writes a collection that is in step with its carriers.
LEMMA MapWritesKeeps ==
    ASSUME RequestInv, More, Milestone.kind = "map", graphs' = graphs,
           NEW items, NEW ids, NEW mask, NEW origins, NEW short \in BOOLEAN,
           InStep(items, ids, mask, origins, OneRun(Milestone), Stored, Recent),
           Len(mask) = SizeIn(Board, Milestone.reads), short => Milestone.sub # <<>>,
           MapWrites(items, ids, mask, origins, short)
    PROVE  RequestInv'
<1>1. PICK m : m = Milestone
  OBVIOUS
<1>2. PICK b : b = Board
  OBVIOUS
<1>3. PICK out : out = Last(m.writes)
  OBVIOUS
<1>4. PICK all : all = b[m.reads]
  OBVIOUS
<1>5. PICK R : R = Recent
  OBVIOUS
<1>6. PICK said : said = CollectionOrigin(origins)
  OBVIOUS
<1>7. PICK none : none = CollectionOrigin(<<>>)
  OBVIOUS
<1> DEFINE by == FlattenSeq(items)
           short2 == short \/ ~AllOf(mask) \/ all.short
           list == Value(by, items, said, all.by, short2)
           empty == Value(<<>>, <<>>, none, <<>>, FALSE)
           v == IF m.reads \in DOMAIN b THEN list ELSE empty
           outs == [ds \in {out} |-> v]
           c == [ids |-> ids, mask |-> mask, origins |-> origins]
           carriers == Put(Here.carriers, [ds \in {out} |-> c])
           outcome == IF AllOf(mask) THEN "completed" ELSE "stopped"
<1>8. Finish(outcome, Put(b, outs), carriers, Here.slice)
  BY <1>1, <1>2, <1>3, <1>4, <1>6, <1>7 DEF MapWrites
<1>9. m \in Milestones /\ BoardOK(b, R) /\ FrameOK(Here, Stored, Recent)
      /\ Here.plan[Here.next] = m /\ Here.board = b
  BY <1>1, <1>2, <1>5, MilestoneIs DEF Board
<1>10. Range(m.writes) = {out} /\ out \in DataState
  <2>1. Range(m.writes) = {out} /\ Range(m.writes) \subseteq DataState
    BY <1>1, <1>3, <1>9, WritesAre
  <2>2. QED
    BY <2>1
<1>11. InStep(items, ids, mask, origins, OneRun(m), Stored, R)
  BY <1>1, <1>5
<1>12. /\ by \in Seq(R) /\ said \in Said(R)
       /\ (said.kind = "unrecorded" \/ (said.kind = "produced" /\ said.by = by))
       /\ \A i \in 1 .. Len(items) : Range(items[i]) \subseteq Range(by)
       /\ items \in Seq(Seq(R))
  <2>1. items \in Seq(Seq(R))
    BY <1>11 DEF InStep
  <2>2. QED
    BY <1>6, <1>11, <2>1, CollectionIsTrue, FlattenHas
<1>13. /\ none \in Said(R)
       /\ (none.kind = "unrecorded" \/ (none.kind = "produced" /\ none.by = <<>>))
  <2>1. InStep(<<>>, <<>>, <<>>, <<>>, TRUE, Stored, R)
    BY InStepNone
  <2>2. QED
    BY <1>7, <2>1, CollectionIsTrue, FlattenOfNone
<1> HIDE DEF by
<1>14. /\ v \in Values(R) /\ (\A i \in 1 .. Len(v.items) : Range(v.items[i]) \subseteq Range(v.by))
       /\ IsTrue(v) /\ (m.reads \in DOMAIN b => v.from = all.by)
       /\ InStep(v.items, ids, mask, origins, OneRun(m), Stored, R)
       /\ (v.short => ~AllOf(mask) \/ m.sub # <<>> \/ ShortIn(b, m.reads))
  <2>1. CASE m.reads \in DOMAIN b
    <3>1. v = list
      BY <2>1
    <3>2. all \in Values(R)
      BY <1>4, <1>9, <2>1 DEF BoardOK
    <3>3. all.by \in Seq(R) /\ all.short \in BOOLEAN
      BY <3>2 DEF Values
    <3>4. short2 \in BOOLEAN /\ (short2 => short \/ ~AllOf(mask) \/ all.short)
      OBVIOUS
    <3> HIDE DEF short2
    <3>5. list = [by |-> by, items |-> items, said |-> said, from |-> all.by, short |-> short2]
      BY DEF Value
    <3> HIDE DEF list, v
    <3>6. /\ v \in Values(R) /\ v.by = by /\ v.items = items /\ v.said = said
          /\ v.from = all.by /\ v.short = short2
      BY <1>12, <3>1, <3>3, <3>4, <3>5 DEF Values
    <3>7. IsTrue(v)
      BY <1>12, <3>6 DEF IsTrue
    <3>8. v.short => ~AllOf(mask) \/ m.sub # <<>> \/ ShortIn(b, m.reads)
      <4>1. SUFFICES ASSUME short2
                     PROVE  ~AllOf(mask) \/ m.sub # <<>> \/ ShortIn(b, m.reads)
        BY <3>6
      <4>2. CASE all.short
        BY <1>4, <2>1, <4>2 DEF ShortIn
      <4>3. QED
        BY <1>1, <3>4, <4>1, <4>2
    <3>9. InStep(v.items, ids, mask, origins, OneRun(m), Stored, R)
      BY <1>11, <3>6
    <3>10. \A i \in 1 .. Len(v.items) : Range(v.items[i]) \subseteq Range(v.by)
      BY <1>12, <3>6
    <3>11. QED
      BY <3>6, <3>7, <3>8, <3>9, <3>10
  <2>2. CASE m.reads \notin DOMAIN b
    <3>1. v = [by |-> <<>>, items |-> <<>>, said |-> none, from |-> <<>>, short |-> FALSE]
      BY <2>2 DEF Value
    <3> HIDE DEF v
    <3>2. <<>> \in Seq(R) /\ <<>> \in Seq(Seq(R)) /\ Len(<<>>) = 0
      OBVIOUS
    <3>3. v \in Values(R) /\ v.by = <<>> /\ v.items = <<>> /\ v.said = none /\ v.short = FALSE
      BY <1>13, <3>1, <3>2 DEF Values
    <3>4. IsTrue(v)
      BY <1>13, <3>3 DEF IsTrue
    <3>5. Len(mask) = 0
      BY <1>1, <1>2, <2>2 DEF SizeIn
    <3>6. Len(items) = 0 /\ items \in Seq(Seq(R))
      BY <1>11, <3>5, CountOfNone DEF InStep
    <3>7. items = <<>>
      BY <3>6
    <3>8. InStep(v.items, ids, mask, origins, OneRun(m), Stored, R)
      BY <1>11, <3>3, <3>7
    <3>9. \A i \in 1 .. Len(v.items) : Range(v.items[i]) \subseteq Range(v.by)
      BY <3>2, <3>3
    <3>10. QED
      BY <2>2, <3>3, <3>4, <3>8, <3>9
  <2>3. QED
    BY <2>1, <2>2
<1> HIDE DEF v
<1>15. DOMAIN outs = {out} /\ outs[out] = v /\ outs = [ds \in DOMAIN outs |-> outs[ds]]
  OBVIOUS
<1> HIDE DEF outs
<1>16. BoardOK(outs, R)
  BY <1>10, <1>14, <1>15 DEF BoardOK
<1>17. outcome \in {"completed", "failed", "stopped"}
  OBVIOUS
<1> HIDE DEF outcome
<1>18. Here.slice \in Slices /\ \A i \in 1 .. Len(Here.slice) : Here.slice[i].run \in Stored'
  BY <1>9 DEF FrameOK, Stored
<1>19. ASSUME NEW g, g.carriers = carriers
       PROVE  \E x : Carries(Here, g, outs[out], x, Stored', Recent)
  <2>1. c.ids = ids /\ c.mask = mask /\ c.origins = origins
    OBVIOUS
  <2>2. g.carriers = Put(Here.carriers, [ds \in {out} |-> c])
    BY <1>19
  <2>3. PICK G : G = Stored'
    OBVIOUS
  <2>4. InStep(v.items, ids, mask, origins, OneRun(m), G, R)
    BY <1>14, <2>3 DEF Stored
  <2>5. Len(mask) = SizeIn(b, m.reads)
    BY <1>1, <1>2
  <2> HIDE DEF c
  <2>6. Carries(Here, g, v, c, G, R)
    BY <1>3, <1>9, <1>14, <2>1, <2>2, <2>4, <2>5 DEF Carries
  <2>7. QED
    BY <1>5, <1>15, <2>3, <2>6
<1> HIDE DEF carriers
<1>20. /\ DOMAIN outs \subseteq Range(m.writes)
       /\ (m.reads \in DOMAIN b => \A ds \in DOMAIN outs : outs[ds].from = b[m.reads].by)
       /\ Last(m.writes) \in DOMAIN outs
       /\ (\A ds \in DOMAIN outs : IsTrue(outs[ds]))
       /\ DOMAIN outs = {Last(m.writes)}
  BY <1>3, <1>4, <1>10, <1>14, <1>15
<1>21. m.kind = "map" /\ m.kind # "leaf" /\ m.kind # "fold"
  BY <1>1
<1>22. QED
  BY <1>1, <1>2, <1>3, <1>5, <1>8, <1>16, <1>17, <1>18, <1>19, <1>20, <1>21, FinishKeeps

\* A map that has run all its members.
LEMMA FinishMapKeeps ==
    ASSUME RequestInv, FinishMap PROVE RequestInv'
<1>1. PICK f : f = Here
  OBVIOUS
<1>2. FrameOK(f, Stored, Recent) /\ Milestone = f.plan[f.next] /\ Board = f.board /\ Fan = f.fan
  BY <1>1, HereIs DEF Milestone, Board, Fan
<1>3. /\ More /\ Milestone.kind = "map" /\ f.fan.open /\ f.fan.at > f.fan.size /\ f.only = 0
      /\ MapWrites(f.fan.items, f.fan.ids, f.fan.mask, f.fan.origins, f.fan.short)
      /\ graphs' = graphs
  BY <1>1, <1>2 DEF FinishMap
<1>4. FanOK(f, Stored, Recent) /\ f.fan \in Fans(Recent)
  BY <1>2 DEF FrameOK
<1>5. /\ InStep(f.fan.items, f.fan.ids, f.fan.mask, f.fan.origins, OneRun(Milestone), Stored, Recent)
      /\ (f.fan.short => Milestone.sub # <<>>) /\ f.fan.short \in BOOLEAN
      /\ f.fan.at <= f.fan.size + 1 /\ f.fan.size = SizeIn(f.board, Milestone.reads)
      /\ 1 + Len(f.fan.mask) = f.fan.at
  BY <1>2, <1>3, <1>4 DEF FanOK, Fans, FirstMember
<1>6. Len(f.fan.mask) = SizeIn(Board, Milestone.reads)
  <2>1. f.fan.at \in Nat /\ f.fan.size \in Nat /\ Len(f.fan.mask) \in Nat
    BY <1>4 DEF Fans
  <2>2. QED
    BY <1>2, <1>3, <1>5, <2>1
<1>7. QED
  BY <1>3, <1>5, <1>6, MapWritesKeeps

\* A map that has run one member again.
LEMMA FinishTargetedKeeps ==
    ASSUME RequestInv, FinishTargeted PROVE RequestInv'
<1>1. PICK f : f = Here
  OBVIOUS
<1>2. PICK m : m = Milestone
  OBVIOUS
<1>3. PICK out : out = Last(m.writes)
  OBVIOUS
<1>4. PICK old : old = f.carriers[out]
  OBVIOUS
<1>5. PICK items : items = f.board[out].items
  OBVIOUS
<1>6. PICK i : i = f.only
  OBVIOUS
<1>7. FrameOK(f, Stored, Recent) /\ m = f.plan[f.next] /\ Board = f.board /\ Fan = f.fan
  BY <1>1, <1>2, HereIs, Zenon DEF Milestone, Board, Fan
<1>8. More /\ m.kind = "map" /\ f.fan.open /\ f.fan.at > f.fan.size /\ i > 0 /\ graphs' = graphs
  BY <1>1, <1>2, <1>6, <1>7, Zenon DEF FinishTargeted
<1>9. /\ FanOK(f, Stored, Recent) /\ f.fan \in Fans(Recent) /\ i \in Nat /\ MapsDone(f)
      /\ CarriersOK(f, Stored, Recent) /\ f.next \in DOMAIN f.plan /\ f.plan \in Seq(Milestones)
  <2>1. f.next \in DOMAIN f.plan
    BY <1>1, <1>8, MilestoneIs
  <2>2. QED
    BY <1>6, <1>7, <2>1 DEF FrameOK
<1>10. /\ InStep(f.fan.items, f.fan.ids, f.fan.mask, f.fan.origins, OneRun(m), Stored, Recent)
       /\ f.fan.at <= f.fan.size + 1 /\ f.fan.size = i
       /\ i + Len(f.fan.mask) = f.fan.at /\ i <= SizeIn(f.board, m.reads)
  BY <1>6, <1>7, <1>8, <1>9 DEF FanOK, FirstMember
<1>11. Len(f.fan.mask) = 1
  <2>1. f.fan.at \in Nat /\ Len(f.fan.mask) \in Nat
    BY <1>9 DEF Fans
  <2> DEFINE at == f.fan.at
             k == Len(f.fan.mask)
  <2>2. at > i /\ at <= i + 1 /\ i + k = at /\ at \in Nat /\ k \in Nat /\ i \in Nat
    BY <1>8, <1>9, <1>10, <2>1
  <2> HIDE DEF at, k
  <2>3. k = 1
    BY <2>2
  <2>4. QED
    BY <2>3 DEF k
<1>12. out \in DOMAIN f.carriers /\ Len(old.mask) = SizeIn(f.board, m.reads)
  BY <1>3, <1>4, <1>6, <1>7, <1>8, <1>9 DEF MapsDone
<1>13. InStep(items, old.ids, old.mask, old.origins, OneRun(m), Stored, Recent)
  <2>1. InStep(items, old.ids, old.mask, old.origins, \A x \in MapsTo(f, out) : OneRun(x), Stored, Recent)
    BY <1>4, <1>5, <1>9, <1>12 DEF CarriersOK
  <2>2. PICK given : Layered(f.plan, given)
    BY <1>1, HereIs
  <2>3. \A x \in MapsTo(f, out) : x = m
    BY <1>3, <1>7, <1>8, <1>9, <2>2, MapsToOne
  <2>4. OneRun(m) => \A x \in MapsTo(f, out) : OneRun(x)
    BY <2>3
  <2> DEFINE two == OneRun(m)
             one == \A x \in MapsTo(f, out) : OneRun(x)
  <2>5. InStep(items, old.ids, old.mask, old.origins, one, Stored, Recent) /\ (two => one)
    BY <2>1, <2>4
  <2> HIDE DEF one, two
  <2>6. InStep(items, old.ids, old.mask, old.origins, two, Stored, Recent)
    BY <2>5, InStepLess
  <2>7. QED
    BY <2>6 DEF two
<1>14. old.mask \in Seq(BOOLEAN) /\ Len(items) = Count(old.mask, Len(old.mask))
       /\ i \in 1 .. Len(old.mask) /\ i - 1 \in 0 .. Len(old.mask) /\ Len(old.mask) \in Nat
  <2>1. old.mask \in Seq(BOOLEAN) /\ Len(items) = Count(old.mask, Len(old.mask))
    BY <1>13 DEF InStep
  <2>2. Len(old.mask) \in Nat
    BY <2>1
  <2>3. QED
    BY <1>8, <1>9, <1>10, <1>12, <2>1, <2>2
<1>15. Len(items) = Completed(old.mask)
  BY <1>14, CompletedIs
<1>16. PICK c : c = Completed(SubSeq(old.mask, 1, i - 1))
  OBVIOUS
<1>17. c = Count(old.mask, i - 1)
  BY <1>14, <1>16, MemberPlaceIs
<1> DEFINE fan == f.fan
           t == CASE fan.mask[1] /\ old.mask[i] -> [items EXCEPT ![c + 1] = fan.items[1]]
                  [] fan.mask[1] /\ ~old.mask[i] -> InsertAt(items, c + 1, fan.items[1])
                  [] ~fan.mask[1] /\ old.mask[i] -> RemoveAt(items, c + 1)
                  [] OTHER -> items
           ids == [old.ids EXCEPT ![i] = fan.ids[1]]
           mask == [old.mask EXCEPT ![i] = fan.mask[1]]
           origins == [old.origins EXCEPT ![i] = fan.origins[1]]
<1>18. Splice(items, old.mask, i) = t
  BY <1>7, <1>16 DEF Splice
<1>19. MapWrites(t, ids, mask, origins, FALSE)
  <2>1. MapWrites(Splice(items, old.mask, i), ids, mask, origins, FALSE)
    BY <1>1, <1>2, <1>3, <1>4, <1>5, <1>6, <1>7, <1>15, Zenon DEF FinishTargeted
  <2> HIDE DEF t
  <2>2. QED
    BY <1>18, <2>1, Zenon
<1>20. InStep(t, ids, mask, origins, OneRun(m), Stored, Recent)
  <2> DEFINE one == OneRun(m)
  <2>1. /\ InStep(items, old.ids, old.mask, old.origins, one, Stored, Recent)
        /\ InStep(fan.items, fan.ids, fan.mask, fan.origins, one, Stored, Recent)
        /\ Len(fan.mask) = 1
    BY <1>10, <1>11, <1>13
  <2> HIDE DEF one, fan
  <2>2. InStep(t, ids, mask, origins, one, Stored, Recent)
    BY <1>14, <1>17, <2>1, InStepSplice
  <2>3. QED
    BY <2>2 DEF one
<1>21. Len(mask) = SizeIn(Board, m.reads)
  BY <1>7, <1>12, <1>14
<1> HIDE DEF t, ids, mask, origins
<1>22. QED
  BY <1>2, <1>8, <1>19, <1>20, <1>21, MapWritesKeeps

-----------------------------------------------------------------------------
\* A frame with another fan.
LEMMA FanSet ==
    ASSUME NEW f, IsFrame(f), NEW x
    PROVE  LET g == [f EXCEPT !.fan = x]
           IN SameBut(f, g) /\ g.fan = x /\ g.slice = f.slice
<1> DEFINE S == [plan : {f.plan}, path : {f.path}, next : {f.next},
                 only : {f.only}, board : {f.board},
                 carriers : {f.carriers}, fan : {f.fan, x},
                 last : {f.last}, slice : {f.slice}]
           g == [f EXCEPT !.fan = x]
<1>1. f \in S
  BY DEF IsFrame
<1>2. g \in S /\ g.fan = x
  BY <1>1
<1> HIDE DEF g
<1>3. QED
  BY <1>2 DEF SameBut, IsFrame, g

\* A frame with another slice.
LEMMA SliceSet ==
    ASSUME NEW f, IsFrame(f), NEW x
    PROVE  LET g == [f EXCEPT !.slice = x]
           IN SameBut(f, g) /\ g.fan = f.fan /\ g.slice = x
<1> DEFINE S == [plan : {f.plan}, path : {f.path}, next : {f.next},
                 only : {f.only}, board : {f.board},
                 carriers : {f.carriers}, fan : {f.fan},
                 last : {f.last}, slice : {f.slice, x}]
           g == [f EXCEPT !.slice = x]
<1>1. f \in S
  BY DEF IsFrame
<1>2. g \in S /\ g.slice = x
  BY <1>1
<1> HIDE DEF g
<1>3. QED
  BY <1>2 DEF SameBut, IsFrame, g

\* A step of a member, which changes the fan of the map, and the slice, alone.
LEMMA MemberKeeps ==
    ASSUME RequestInv, More, NEW g, frames' = [frames EXCEPT ![Len(frames)] = g],
           FrameOK(g, Stored', Recent), SameBut(Here, g), Len(frames) = 1 => g.slice = <<>>,
           Here.fan.open => g.fan.open /\ g.fan.at >= Here.fan.at,
           UNCHANGED <<plan, attempt, record, status, size, why, last, since, lost>>,
           NEW retry \in 0 .. RetryCap,
           \/ graphs' = graphs
           \/ /\ graphs' = Append(graphs, RunRef(MemberPath, retry))
              /\ g.fan.open /\ g.fan.at = Here.fan.at + 1
    PROVE  RequestInv'
<1> DEFINE n == Len(frames)
<1>1. PICK f : f = Here
  OBVIOUS
<1>2. /\ n \in Nat /\ n > 0 /\ f = frames[n] /\ FrameOK(f, Stored, Recent)
      /\ (n > 1 => Within(frames[n - 1], f, Failed)) /\ (n = 1 => f = Top)
  BY <1>1, HereIs
<1>3. f.next \in Nat /\ f.fan.at \in Nat /\ f.path \in Seq(Nat) /\ g.fan.at \in Nat
      /\ g.path = f.path /\ g.next = f.next
  <2>a. FrameOK(f, Stored, Recent)
    BY <1>2
  <2>1. f.next \in Nat /\ f.fan.at \in Nat /\ f.path \in Seq(Nat)
    <3>1. f.next \in 1 .. Len(f.plan) + 1 /\ f.plan \in Seq(Milestones) /\ f.path \in Seq(Nat)
          /\ f.fan \in Fans(Recent)
      BY <2>a DEF FrameOK
    <3>2. f.fan.at \in Nat
      BY <3>1 DEF Fans
    <3>3. f.next \in Nat
      BY <3>1
    <3>4. QED
      BY <3>1, <3>2, <3>3
  <2>2. g.fan.at \in Nat
    BY DEF FrameOK, Fans
  <2>3. QED
    BY <1>1, <2>1, <2>2 DEF SameBut
<1>4. \A q \in Seq(Nat) : (\E d \in 1 .. Len(frames) : Behind(q, frames[d])) =>
                          (\E d \in 1 .. Len(frames') : Behind(q, frames'[d]))
  BY <1>1, <1>3, StaysBehind
<1>5. /\ Len(frames') = n /\ frames'[n] = g /\ (n = 1 => Top' = g) /\ (n > 1 => Top' = Top)
  BY <1>1, <1>3, LastChanges
<1>6. graphs' = graphs \/ \E d \in 1 .. Len(frames') : Behind(MemberPath, frames'[d])
  <2>1. SUFFICES ASSUME g.fan.open, g.fan.at = f.fan.at + 1
                 PROVE  \E d \in 1 .. Len(frames') : Behind(MemberPath, frames'[d])
    BY <1>1
  <2>2. f.fan.at < g.fan.at
    BY <1>3, <2>1
  <2> DEFINE k == Len(f.path) + 1
             k2 == Len(f.path) + 2
  <2>3. /\ Len(MemberPath) = k2 /\ \A i \in 1 .. Len(f.path) : MemberPath[i] = f.path[i]
        /\ MemberPath[k] = f.next /\ MemberPath[k2] = f.fan.at
    BY <1>1, PathsAre DEF Fan
  <2>4. k2 > Len(f.path) /\ k2 > k
    BY <1>3
  <2> HIDE DEF k, k2
  <2>5. /\ Len(MemberPath) > Len(g.path) /\ \A i \in 1 .. Len(g.path) : MemberPath[i] = g.path[i]
        /\ MemberPath[k] = g.next /\ g.fan.open /\ Len(MemberPath) > k /\ MemberPath[k2] < g.fan.at
    BY <1>3, <2>1, <2>2, <2>3, <2>4
  <2>6. Behind(MemberPath, g)
    BY <1>3, <2>5 DEF Behind, k, k2
  <2>7. n \in 1 .. Len(frames') /\ frames'[n] = g
    BY <1>2, <1>5
  <2>8. QED
    BY <2>6, <2>7
<1>7. status = "running" /\ attempt' = attempt
  BY DEF More
<1>8. GraphsOK' /\ Stored \subseteq Stored'
  BY <1>4, <1>6, <1>7, GraphsKept
<1>9. PICK G : G = Stored'
  OBVIOUS
<1>10. TopOK' /\ LastOK' /\ RecordOK' /\ (Failed' <=> Failed)
  <2>1. /\ Top'.plan = Top.plan /\ Top'.path = Top.path /\ Top'.slice = Top.slice
        /\ Top'.next = Top.next /\ Top'.board = Top.board /\ Top'.carriers = Top.carriers
    <3>1. CASE n = 1
      <4>1. Top.slice = <<>>
        BY DEF RequestInv, TopOK
      <4>2. QED
        BY <1>1, <1>2, <1>5, <3>1, <4>1 DEF SameBut
    <3>2. CASE n # 1
      BY <1>2, <1>5, <3>2
    <3>3. QED
      BY <3>1, <3>2
  <2>2. QED
    BY <2>1, TopStays
<1>11. Tower(frames', Stored', Recent, Failed')
  <2>1. PICK a : a = Failed
    OBVIOUS
  <2>2. PICK b : b = Failed'
    OBVIOUS
  <2>3. Tower(frames, Stored, Recent, a)
    BY <2>1 DEF RequestInv
  <2>4. a => b
    BY <1>10, <2>1, <2>2
  <2>5. Tower(frames, Stored, Recent, b)
    BY <2>3, <2>4, TowerFailed
  <2>6. Tower(frames, G, Recent, b)
    BY <1>8, <1>9, <2>5, TowerMore
  <2>7. n > 1 => Within(frames[n - 1], g, b)
    <3> SUFFICES ASSUME n > 1
                 PROVE  Within(frames[n - 1], g, b)
      OBVIOUS
    <3> DEFINE p == frames[n - 1]
    <3>1. Within(p, f, b)
      BY <1>2, <2>5 DEF Tower
    <3>2. f.next <= Len(f.plan)
      BY <1>1 DEF More
    <3>3. SameBut(f, g)
      BY <1>1
    <3> HIDE DEF p
    <3>4. Within(p, g, b)
      BY <1>2, <3>1, <3>2, <3>3, FanWithin
    <3>5. QED
      BY <3>4 DEF p
  <2>8. FrameOK(g, G, Recent) /\ g.path = frames[n].path
    BY <1>2, <1>3, <1>9
  <2>9. Tower([frames EXCEPT ![n] = g], G, Recent, b)
    BY <2>6, <2>7, <2>8, TowerReplace
  <2>10. QED
    BY <1>9, <2>2, <2>9
<1>12. Recent' = Recent
  BY DEF Recent
<1>13. StatusOK'
  <2>1. status' = "running" /\ why' = why /\ why # "carriers"
    BY <1>7 DEF RequestInv, StatusOK
  <2>2. QED
    BY <2>1 DEF StatusOK
<1>14. plan' \in Plans /\ attempt' \in 0 .. Budget /\ since' \in 0 .. attempt' /\ size' \in 0 .. MaxSize
  BY DEF RequestInv
<1>15. Tower(frames, Stored, Recent, Failed)'
  BY <1>11, <1>12
<1>16. QED
  BY <1>8, <1>10, <1>13, <1>14, <1>15 DEF RequestInv

\* A map that begins.
LEMMA StartMapKeeps ==
    ASSUME RequestInv, StartMap PROVE RequestInv'
<1>1. PICK f : f = Here
  OBVIOUS
<1>2. PICK m : m = Milestone
  OBVIOUS
<1>3. PICK s : s = SizeOf(m.reads)
  OBVIOUS
<1> DEFINE at == IF f.only = 0 THEN 1 ELSE f.only
           sz == IF f.only = 0 THEN s ELSE f.only
           fan == [NoFan EXCEPT !.open = TRUE, !.at = at, !.size = sz]
           g == [f EXCEPT !.fan = fan]
<1>4. /\ More /\ m.kind = "map" /\ ~f.fan.open /\ m.shared \subseteq DOMAIN f.board /\ f.only <= s
      /\ frames' = [frames EXCEPT ![Len(frames)] = g] /\ graphs' = graphs
      /\ UNCHANGED <<plan, attempt, record, status, size, why, last, since, lost>>
  BY <1>1, <1>2, <1>3 DEF StartMap, Continue, Fan, Board
<1>5. FrameOK(f, Stored, Recent) /\ m = f.plan[f.next] /\ Board = f.board /\ f.next <= Len(f.plan)
  BY <1>1, <1>2, <1>4, HereIs DEF Milestone, Board, More
<1>6. IsFrame(f) /\ f.only \in Nat /\ BoardOK(f.board, Recent) /\ f.slice \in Slices
      /\ \A i \in 1 .. Len(f.slice) : f.slice[i].run \in Stored
  BY <1>5, RequestConstants DEF FrameOK
<1>7. s = SizeIn(f.board, m.reads) /\ s \in Nat
  <2>1. s = SizeIn(f.board, m.reads)
    BY <1>3, <1>5 DEF SizeOf, SizeIn
  <2>2. m.reads \in DOMAIN f.board => f.board[m.reads].items \in Seq(Seq(Recent))
    BY <1>6 DEF BoardOK, Values
  <2>3. QED
    BY <2>1, <2>2 DEF SizeIn
<1>8. at \in Nat /\ sz \in Nat /\ at <= sz + 1 /\ at > 0
  BY <1>6, <1>7
<1> HIDE DEF at, sz
<1>9. NoFan \in Fans(Recent) /\ NoFan.retry = 0 /\ NoFan.items = <<>> /\ NoFan.ids = <<>>
      /\ NoFan.mask = <<>> /\ NoFan.origins = <<>> /\ NoFan.short = FALSE
  BY DEF NoFan, Fans
<1>10. /\ fan \in Fans(Recent) /\ fan.open /\ fan.size = sz /\ fan.at = at /\ fan.retry = 0
       /\ fan.items = <<>> /\ fan.ids = <<>> /\ fan.mask = <<>> /\ fan.origins = <<>>
       /\ fan.short = FALSE
  BY <1>8, <1>9 DEF Fans
<1> HIDE DEF fan
<1>11. SameBut(f, g) /\ g.fan = fan /\ g.slice = f.slice
  BY <1>6, FanSet
<1> HIDE DEF g
<1>12. FanOK(g, Stored, Recent)
  <2>1. /\ fan.open /\ fan.size = sz /\ fan.at = at /\ fan.retry = 0 /\ fan.items = <<>>
        /\ fan.ids = <<>> /\ fan.mask = <<>> /\ fan.origins = <<>> /\ fan.short = FALSE
    BY <1>10
  <2>2. InStep(fan.items, fan.ids, fan.mask, fan.origins, OneRun(m), Stored, Recent)
    BY <2>1, InStepNone
  <2>3. FirstMember(g) = at /\ FirstMember(g) + Len(fan.mask) = at
    <3>1. FirstMember(g) = at
      BY <1>11 DEF FirstMember, SameBut, at
    <3>2. Len(fan.mask) = 0
      BY <2>1
    <3>3. QED
      BY <1>8, <3>1, <3>2
  <2>4. 0 < RetryCap
    BY RequestConstants
  <2>5. sz = IF g.only = 0 THEN SizeIn(g.board, m.reads) ELSE g.only
    BY <1>7, <1>11 DEF SameBut, sz
  <2>6. g.plan = f.plan /\ g.next = f.next /\ g.board = f.board /\ g.only = f.only
    BY <1>11 DEF SameBut
  <2>7. QED
    BY <1>4, <1>5, <1>7, <1>8, <1>11, <2>1, <2>2, <2>3, <2>4, <2>5, <2>6 DEF FanOK
<1>13. FrameOK(g, Stored, Recent)
  BY <1>5, <1>6, <1>10, <1>11, <1>12, FanChanges
<1>14. FrameOK(g, Stored', Recent)
  BY <1>4, <1>13 DEF Stored
<1>15. Len(frames) = 1 => g.slice = <<>>
  <2>1. Len(frames) = 1 => f.slice = <<>>
    BY <1>1, HereIs DEF RequestInv, TopOK
  <2>2. QED
    BY <1>11, <2>1
<1>16. 0 \in 0 .. RetryCap
  BY RequestConstants
<1>17. QED
  BY <1>1, <1>4, <1>11, <1>14, <1>15, <1>16, MemberKeeps

-----------------------------------------------------------------------------
\* The pipeline of the members is composed.
LEMMA ComposedIs ==
    ASSUME RequestInv
    PROVE  SameBut(Here, Composed) /\ Composed.slice = Here.slice
           /\ Composed.fan = [Here.fan EXCEPT !.composed = TRUE]
<1>1. PICK f : f = Here
  OBVIOUS
<1>2. IsFrame(f)
  BY <1>1, HereIs DEF FrameOK
<1>3. Composed = [f EXCEPT !.fan = [f.fan EXCEPT !.composed = TRUE]]
  BY <1>1 DEF Composed
<1>4. QED
  BY <1>1, <1>2, <1>3, FanSet

\* Two changes of the fan and the slice are one.
LEMMA SameButTrans ==
    ASSUME NEW f, NEW g, NEW h, SameBut(f, g), SameBut(g, h) PROVE SameBut(f, h)
BY DEF SameBut

\* A member that has been run as one run.
LEMMA MemberRunKeeps ==
    ASSUME RequestInv, InMember, Milestone.sub = <<>>, NEW base, base = Here \/ base = Composed,
           NEW run, run = RunRef(MemberPath, Fan.retry),
           NEW completed \in BOOLEAN, NEW stopped \in BOOLEAN, NEW by, NEW said,
           \/ completed /\ by = <<run>> /\ said = Produced(<<run>>)
           \/ ~completed /\ by = <<>> /\ said = Nothing,
           Continue(MemberEnds([base EXCEPT !.slice = Collected(run, {}, stopped)],
                               by, said, run, completed, FALSE)),
           graphs' = Append(graphs, run), Rest
    PROVE  RequestInv'
<1>1. PICK f : f = Here
  OBVIOUS
<1>2. PICK m : m = Milestone
  OBVIOUS
<1>3. PICK G : G = Stored'
  OBVIOUS
<1>4. PICK slice : slice = Collected(run, {}, stopped)
  OBVIOUS
<1>5. PICK retry : retry = f.fan.retry
  OBVIOUS
<1>a. PICK short \in BOOLEAN : short = FALSE
  OBVIOUS
<1>6. /\ More /\ m.kind = "map" /\ f.fan.open /\ f.fan.at <= f.fan.size /\ m.sub = <<>>
      /\ m = f.plan[f.next] /\ f.next <= Len(f.plan) /\ FrameOK(f, Stored, Recent)
  BY <1>1, <1>2, HereIs DEF InMember, Milestone, Fan, More
<1>7. retry \in 0 .. RetryCap /\ run = RunRef(MemberPath, retry)
  <2>1. FanOK(f, Stored, Recent) /\ f.fan \in Fans(Recent)
    BY <1>6 DEF FrameOK
  <2>2. f.fan.retry < RetryCap /\ f.fan.retry \in Nat
    BY <1>6, <2>1 DEF FanOK, Fans
  <2>3. QED
    BY <1>1, <1>5, <2>2, RequestConstants DEF Fan
<1>8. run \in Reference /\ run \in Recent /\ run \in G /\ Stored \subseteq G
  BY <1>3, <1>7, StoredMore
<1>9. FrameOK(f, G, Recent)
  BY <1>6, <1>8, FrameMore
<1>10. slice \in Slices /\ (\A i \in 1 .. Len(slice) : slice[i].run \in G)
       /\ (Len(frames) = 1 => slice = Here.slice)
  <2>1. run \in Stored' /\ Stored \subseteq Stored' /\ {} \in SUBSET DataState
    BY <1>3, <1>8
  <2>2. /\ slice \in Slices /\ (\A i \in 1 .. Len(slice) : slice[i].run \in Stored')
        /\ (Len(frames) = 1 => slice = Here.slice)
    BY <1>4, <1>8, <2>1, CollectedIs
  <2>3. QED
    BY <1>3, <2>2
<1> DEFINE h == [base EXCEPT !.slice = slice]
           g == MemberEnds(h, by, said, run, completed, short)
<1>11. SameBut(f, h) /\ (h.fan = f.fan \/ h.fan = Made(f.fan)) /\ h.slice = slice
  <2>1. SameBut(f, base) /\ (base.fan = f.fan \/ base.fan = Made(f.fan))
    <3>1. CASE base = Here
      BY <1>1, <1>6, <3>1 DEF SameBut, FrameOK
    <3>2. CASE base = Composed
      BY <1>1, <3>2, ComposedIs DEF Made
    <3>3. QED
      BY <3>1, <3>2
  <2>2. IsFrame(base)
    BY <2>1 DEF SameBut
  <2>3. SameBut(base, h) /\ h.fan = base.fan /\ h.slice = slice
    BY <2>2, SliceSet
  <2> HIDE DEF h
  <2>4. QED
    BY <2>1, <2>3, SameButTrans
<1>12. frames' = [frames EXCEPT ![Len(frames)] = g]
  BY <1>4, <1>a DEF Continue
<1> HIDE DEF h
<1>13. <<run>> \in Seq(Recent) /\ <<>> \in Seq(Recent)
  BY <1>8
<1>14. by \in Seq(Recent) /\ said \in Said(Recent) \cup {Nothing}
       /\ (completed => /\ said \in Said(Recent)
                        /\ said.kind = "produced" => said.by = by
                        /\ OneRun(f.plan[f.next]) => by = <<run>>)
  <2>1. by \in Seq(Recent)
    BY <1>13
  <2>2. Produced(<<run>>) \in Said(Recent) /\ Produced(<<run>>).by = <<run>>
    BY <1>13 DEF Said, Produced, Origin
  <2>3. completed => said = Produced(<<run>>) /\ by = <<run>>
    OBVIOUS
  <2>4. completed \/ said = Nothing
    OBVIOUS
  <2>5. QED
    BY <2>1, <2>2, <2>3, <2>4
<1>15. FrameOK(g, G, Recent) /\ SameBut(f, g) /\ g.fan.at = f.fan.at + 1 /\ g.fan.open
  <2>1. (\A i \in 1 .. Len(h.slice) : h.slice[i].run \in G) /\ h.slice \in Slices
    BY <1>10, <1>11
  <2>2. run \in G \cup {NoRun}
    BY <1>8
  <2>3. short => f.plan[f.next].sub # <<>>
    BY <1>a
  <2>4. /\ FrameOK(f, G, Recent) /\ SameBut(f, h) /\ f.next <= Len(f.plan) /\ f.fan.open
        /\ f.fan.at <= f.fan.size /\ by \in Seq(Recent) /\ said \in Said(Recent) \cup {Nothing}
        /\ run \in Reference
    BY <1>6, <1>8, <1>9, <1>11, <1>14
  <2>5. h.fan = f.fan \/ h.fan = Made(f.fan)
    BY <1>11
  <2>6. completed => /\ said \in Said(Recent)
                     /\ said.kind = "produced" => said.by = by
                     /\ OneRun(f.plan[f.next]) => by = <<run>>
    BY <1>14
  <2>7. MemberStarts(f, h, G, Recent)
    BY <2>1, <2>4, <2>5 DEF MemberStarts
  <2>8. MemberMade(f.plan[f.next], by, said, run, completed, short, G, Recent)
    BY <2>2, <2>3, <2>4, <2>6 DEF MemberMade
  <2>9. QED
    BY <2>4, <2>7, <2>8, MemberEndsFrame
<1>16. g.slice = slice
  <2>1. IsFrame(h)
    BY <1>11 DEF SameBut
  <2>2. QED
    BY <1>11, <2>1, FanSet DEF MemberEnds
<1> HIDE DEF g
<1>17. Len(frames) = 1 => g.slice = <<>>
  <2>1. Len(frames) = 1 => f.slice = <<>>
    BY <1>1, HereIs DEF RequestInv, TopOK
  <2>2. QED
    BY <1>1, <1>10, <1>16, <2>1
<1>18. f.fan.at \in Nat
  <2>1. f.fan \in Fans(Recent)
    BY <1>6 DEF FrameOK
  <2>2. QED
    BY <2>1 DEF Fans
<1>19. g.fan.at >= f.fan.at
  BY <1>15, <1>18
<1>20. QED
  BY <1>1, <1>3, <1>6, <1>7, <1>12, <1>15, <1>17, <1>19, MemberKeeps DEF Rest

\* No route leads to what a member is to make.
LEMMA MemberNoRouteKeeps ==
    ASSUME RequestInv, MemberNoRoute PROVE RequestInv'
<1>1. PICK run : run = RunRef(MemberPath, Fan.retry)
  OBVIOUS
<1>2. /\ InMember /\ Milestone.sub = <<>>
      /\ Continue(MemberEnds([Here EXCEPT !.slice = Collected(run, {}, FALSE)],
                             <<>>, Nothing, run, FALSE, FALSE))
      /\ graphs' = Append(graphs, run) /\ Rest
  BY <1>1 DEF MemberNoRoute
<1>3. FALSE \in BOOLEAN
  OBVIOUS
<1>4. QED
  BY <1>1, <1>2, <1>3, MemberRunKeeps

\* A member that completes.
LEMMA MemberSucceedsKeeps ==
    ASSUME RequestInv, MemberSucceeds PROVE RequestInv'
<1>1. PICK run : run = RunRef(MemberPath, Fan.retry)
  OBVIOUS
<1>2. /\ InMember /\ Milestone.sub = <<>>
      /\ Continue(MemberEnds([Composed EXCEPT !.slice = Collected(run, {}, FALSE)],
                             <<run>>, Produced(<<run>>), run, TRUE, FALSE))
      /\ graphs' = Append(graphs, run) /\ Rest
  BY <1>1 DEF MemberSucceeds
<1>3. FALSE \in BOOLEAN /\ TRUE \in BOOLEAN
  OBVIOUS
<1>4. QED
  BY <1>1, <1>2, <1>3, MemberRunKeeps

\* A member that stops.
LEMMA MemberStopsKeeps ==
    ASSUME RequestInv, MemberStops PROVE RequestInv'
<1>1. PICK run : run = RunRef(MemberPath, Fan.retry)
  OBVIOUS
<1>2. /\ InMember /\ Milestone.sub = <<>>
      /\ Continue(MemberEnds([Composed EXCEPT !.slice = Collected(run, {}, TRUE)],
                             <<>>, Nothing, run, FALSE, FALSE))
      /\ graphs' = Append(graphs, run) /\ Rest
  BY <1>1 DEF MemberStops
<1>3. FALSE \in BOOLEAN /\ TRUE \in BOOLEAN
  OBVIOUS
<1>4. QED
  BY <1>1, <1>2, <1>3, MemberRunKeeps

\* A member that is tried again.
LEMMA MemberRetriesKeeps ==
    ASSUME RequestInv, MemberRetries PROVE RequestInv'
<1>1. PICK f : f = Here
  OBVIOUS
<1>2. PICK base : base = Composed
  OBVIOUS
<1>3. /\ More /\ f.fan.open /\ f.fan.retry + 1 < RetryCap /\ FrameOK(f, Stored, Recent)
      /\ Continue([Composed EXCEPT !.fan.retry = @ + 1]) /\ graphs' = graphs /\ Rest
  BY <1>1, HereIs DEF MemberRetries, InMember, Fan
<1>4. SameBut(f, base) /\ base.slice = f.slice /\ base.fan = [f.fan EXCEPT !.composed = TRUE]
  BY <1>1, <1>2, ComposedIs
<1> DEFINE fan == [base.fan EXCEPT !.retry = @ + 1]
           g == [base EXCEPT !.fan = fan]
<1>5. frames' = [frames EXCEPT ![Len(frames)] = g]
  BY <1>2, <1>3 DEF Continue
<1>6. FanOK(f, Stored, Recent) /\ f.fan \in Fans(Recent) /\ f.slice \in Slices
      /\ \A i \in 1 .. Len(f.slice) : f.slice[i].run \in Stored
  BY <1>3 DEF FrameOK
<1>7. /\ base.fan \in Fans(Recent) /\ base.fan.open = f.fan.open /\ base.fan.size = f.fan.size
      /\ base.fan.at = f.fan.at /\ base.fan.items = f.fan.items /\ base.fan.ids = f.fan.ids
      /\ base.fan.mask = f.fan.mask /\ base.fan.origins = f.fan.origins
      /\ base.fan.short = f.fan.short /\ base.fan.retry = f.fan.retry
  BY <1>4, <1>6 DEF Fans
<1>8. /\ fan \in Fans(Recent) /\ fan.open = f.fan.open /\ fan.size = f.fan.size
      /\ fan.at = f.fan.at /\ fan.items = f.fan.items /\ fan.ids = f.fan.ids
      /\ fan.mask = f.fan.mask /\ fan.origins = f.fan.origins
      /\ fan.short = f.fan.short /\ fan.retry = f.fan.retry + 1
  <2> DEFINE z == base.fan
  <2>1. z \in Fans(Recent) /\ fan = [z EXCEPT !.retry = z.retry + 1]
    BY <1>7
  <2>2. z.retry + 1 \in Nat
    BY <1>7 DEF Fans
  <2> HIDE DEF z, fan
  <2>3. /\ fan \in Fans(Recent) /\ fan.open = z.open /\ fan.size = z.size
        /\ fan.at = z.at /\ fan.items = z.items /\ fan.ids = z.ids
        /\ fan.mask = z.mask /\ fan.origins = z.origins
        /\ fan.short = z.short /\ fan.retry = z.retry + 1
    BY <2>1, <2>2 DEF Fans
  <2>4. QED
    BY <1>7, <2>3 DEF z
<1> HIDE DEF fan
<1>9. SameBut(f, g) /\ g.fan = fan /\ g.slice = f.slice
  <2>1. IsFrame(base)
    BY <1>4 DEF SameBut
  <2>2. SameBut(base, g) /\ g.fan = fan /\ g.slice = base.slice
    BY <2>1, FanSet
  <2> HIDE DEF g
  <2>3. QED
    BY <1>4, <2>2, SameButTrans
<1> HIDE DEF g
<1>10. FanOK(g, Stored, Recent)
  BY <1>3, <1>6, <1>8, <1>9 DEF FanOK, SameBut, FirstMember
<1>11. FrameOK(g, Stored, Recent)
  BY <1>3, <1>6, <1>8, <1>9, <1>10, FanChanges
<1>12. FrameOK(g, Stored', Recent)
  BY <1>3, <1>11 DEF Stored
<1>13. Len(frames) = 1 => g.slice = <<>>
  <2>1. Len(frames) = 1 => f.slice = <<>>
    BY <1>1, HereIs DEF RequestInv, TopOK
  <2>2. QED
    BY <1>9, <2>1
<1>14. 0 \in 0 .. RetryCap /\ g.fan.open /\ g.fan.at >= f.fan.at
  <2>1. f.fan.at \in Nat
    BY <1>6 DEF Fans
  <2>2. g.fan.at >= f.fan.at
    BY <1>8, <1>9, <2>1
  <2>3. g.fan.open
    BY <1>3, <1>8, <1>9
  <2>4. QED
    BY <2>2, <2>3, RequestConstants
<1>15. QED
  BY <1>1, <1>3, <1>5, <1>9, <1>12, <1>13, <1>14, MemberKeeps DEF Rest

-----------------------------------------------------------------------------
\* The frames change while the plan's own stays as it is but for its fan.
LEMMA FramesKeep ==
    ASSUME RequestInv, status = "running", graphs' = graphs, Rest,
           Tower(frames', Stored, Recent, Failed),
           Top'.plan = Top.plan, Top'.path = Top.path, Top'.slice = Top.slice,
           Top'.next = Top.next, Top'.board = Top.board, Top'.carriers = Top.carriers,
           \A q \in Seq(Nat) : (\E d \in 1 .. Len(frames) : Behind(q, frames[d])) =>
                               (\E d \in 1 .. Len(frames') : Behind(q, frames'[d]))
    PROVE  RequestInv'
<1>1. UNCHANGED <<plan, attempt, record, status, size, why, last, since, lost>>
  BY DEF Rest
<1>2. 0 \in 0 .. RetryCap /\ attempt' = attempt
  BY <1>1, RequestConstants
<1>3. GraphsOK'
  BY <1>2, GraphsKept
<1>4. TopOK' /\ LastOK' /\ RecordOK' /\ (Failed' <=> Failed)
  BY <1>1, TopStays
<1>5. Recent' = Recent /\ Stored' = Stored
  BY <1>1 DEF Recent, Stored
<1>6. StatusOK'
  <2>1. status' = "running" /\ why' = why /\ why # "carriers"
    BY <1>1 DEF RequestInv, StatusOK
  <2>2. QED
    BY <2>1 DEF StatusOK
<1>7. plan' \in Plans /\ attempt' \in 0 .. Budget /\ since' \in 0 .. attempt' /\ size' \in 0 .. MaxSize
  BY <1>1 DEF RequestInv
<1>8. Tower(frames, Stored, Recent, Failed)'
  <2>1. PICK a : a = Failed
    OBVIOUS
  <2>2. PICK b : b = Failed'
    OBVIOUS
  <2>3. Tower(frames', Stored, Recent, a)
    BY <2>1
  <2>4. a => b
    BY <1>4, <2>1, <2>2
  <2>5. Tower(frames', Stored, Recent, b)
    BY <2>3, <2>4, TowerFailed
  <2>6. QED
    BY <1>5, <2>2, <2>5
<1>9. QED
  BY <1>3, <1>4, <1>6, <1>7, <1>8 DEF RequestInv

\* What a map hands to its members says what is so, unless a leaf has failed.
LEMMA NeedsAreTrue ==
    ASSUME RequestInv, More, NEW ds \in Needs(Milestone) \cap DOMAIN Board
    PROVE  IsTrue(Board[ds]) \/ IsPartOfTruth(Board[ds]) \/ Failed
<1>1. PICK f : f = Here
  OBVIOUS
<1>2. f.board = Board /\ f.plan[f.next] = Milestone /\ f.next \in DOMAIN f.plan
  BY <1>1, MilestoneIs DEF Board
<1>3. CASE Len(frames) > 1
  <2>1. Within(frames[Len(frames) - 1], f, Failed)
    BY <1>1, <1>3, HereIs
  <2>2. QED
    BY <1>2, <2>1 DEF Within, InnerOK
<1>4. CASE Len(frames) = 1
  <2>1. f = Top /\ TopOK /\ Layered(plan, {Seed}) /\ f.plan = plan
    BY <1>1, <1>4, HereIs DEF RequestInv, TopOK
  <2>2. SUFFICES ASSUME ~IsTrue(Board[ds])
                 PROVE  Failed
    OBVIOUS
  <2>3. PICK k \in DOMAIN plan : ds \in Range(plan[k].writes) /\ (LeafFailed(k) \/ ToRunAgain(k))
    BY <1>2, <2>1, <2>2 DEF TopOK
  <2>4. ~ToRunAgain(k)
    <3>1. SUFFICES ASSUME ToRunAgain(k) PROVE FALSE
      OBVIOUS
    <3>2. f.next <= k
      <4>1. k >= f.next
        BY <2>1, <3>1 DEF ToRunAgain
      <4>2. k \in Nat /\ f.next \in Nat
        BY <1>2, <2>1, HereIs
      <4>3. QED
        BY <4>1, <4>2
    <3>3. Range(plan[k].writes) \cap Needs(plan[f.next]) = {}
      BY <1>2, <2>1, <3>2 DEF Layered
    <3>4. QED
      BY <1>2, <2>1, <2>3, <3>3
  <2>5. QED
    BY <2>3, <2>4 DEF Failed
<1>5. QED
  BY <1>3, <1>4, HereIs

\* A member that is a plan of its own begins.
LEMMA StartSubPlanKeeps ==
    ASSUME RequestInv, NEW n \in 0 .. MaxSize, StartSubPlan(n) PROVE RequestInv'
<1>1. PICK f : f = Here
  OBVIOUS
<1>2. PICK m : m = Milestone
  OBVIOUS
<1>3. PICK all : all = f.board[m.reads]
  OBVIOUS
<1>4. PICK at : at = f.fan.at
  OBVIOUS
<1>5. PICK R : R = Recent
  OBVIOUS
<1>6. PICK b : b = f.board
  OBVIOUS
<1> DEFINE e == all.items[at]
           member == Value(e, [i \in 1 .. n |-> e], all.said, <<>>, FALSE)
           board == [ds \in m.shared \cup {m.member} |-> IF ds = m.member THEN member ELSE b[ds]]
           new == Frame(m.sub, MemberPath, board)
<1>7. /\ More /\ m.kind = "map" /\ f.fan.open /\ at <= f.fan.size /\ m.sub # <<>>
      /\ frames' = Append(frames, new) /\ graphs' = graphs /\ Rest
  BY <1>1, <1>2, <1>3, <1>4, <1>6 DEF StartSubPlan, InMember, Fan, Board
<1>8. FrameOK(f, Stored, R) /\ m = f.plan[f.next] /\ f.next <= Len(f.plan) /\ m \in Milestones
      /\ Board = b /\ status = "running"
  BY <1>1, <1>2, <1>5, <1>6, <1>7, HereIs, MilestoneIs DEF Milestone, Board, More
<1>9. BoardOK(b, R) /\ FanOK(f, Stored, R) /\ f.fan \in Fans(R) /\ f.only \in Nat
  BY <1>6, <1>8, RequestConstants DEF FrameOK
<1>10. at \in Nat /\ f.fan.size \in Nat
  BY <1>4, <1>9 DEF Fans
<1>11. m.shared \subseteq DOMAIN b /\ FirstMember(f) <= at
       /\ f.fan.size = (IF f.only = 0 THEN SizeIn(b, m.reads) ELSE f.only)
       /\ f.only <= SizeIn(b, m.reads)
  BY <1>4, <1>6, <1>7, <1>8, <1>9 DEF FanOK
<1>12. m.reads \in DOMAIN b /\ at \in 1 .. Len(all.items) /\ all \in Values(R)
       /\ Range(all.items[at]) \subseteq Range(all.by)
  <2>1. FirstMember(f) > 0
    BY <1>9 DEF FirstMember
  <2>2. m.reads \in DOMAIN b
    <3>1. SUFFICES ASSUME m.reads \notin DOMAIN b PROVE FALSE
      OBVIOUS
    <3>2. SizeIn(b, m.reads) = 0
      BY <3>1 DEF SizeIn
    <3>3. f.only = 0 /\ f.fan.size = 0
      BY <1>9, <1>11, <3>2
    <3>4. FirstMember(f) \in Nat
      BY <1>9 DEF FirstMember
    <3>5. QED
      BY <1>7, <1>10, <1>11, <2>1, <3>3, <3>4
  <2>3. all \in Values(R) /\ (\A i \in 1 .. Len(all.items) : Range(all.items[i]) \subseteq Range(all.by))
    BY <1>3, <1>6, <1>9, <2>2 DEF BoardOK
  <2>4. SizeIn(b, m.reads) = Len(all.items) /\ Len(all.items) \in Nat
    <3>1. SizeIn(b, m.reads) = Len(all.items)
      BY <1>3, <1>6, <2>2 DEF SizeIn
    <3>2. all.items \in Seq(Seq(R))
      BY <2>3 DEF Values
    <3>3. QED
      BY <3>1, <3>2
  <2>5. at \in 1 .. Len(all.items)
    <3>1. FirstMember(f) \in Nat
      BY <1>9 DEF FirstMember
    <3>2. at <= Len(all.items)
      BY <1>7, <1>9, <1>10, <1>11, <2>4
    <3>3. QED
      BY <1>10, <1>11, <2>1, <2>4, <3>1, <3>2
  <2>6. QED
    BY <2>2, <2>3, <2>5
<1>13. all.by \in Seq(R) /\ all.items \in Seq(Seq(R)) /\ all.said \in Said(R) /\ e \in Seq(R)
  <2>1. all.by \in Seq(R) /\ all.items \in Seq(Seq(R)) /\ all.said \in Said(R)
    BY <1>12 DEF Values
  <2>2. QED
    BY <1>12, <2>1
<1>14. Range(e) \subseteq Range(all.by)
  BY <1>12
<1> HIDE DEF e
<1>15. /\ member \in Values(R) /\ member.by = e /\ member.said = all.said
       /\ \A i \in 1 .. Len(member.items) : Range(member.items[i]) \subseteq Range(member.by)
  <2> DEFINE items == [i \in 1 .. n |-> e]
  <2>1. items \in Seq(Seq(R)) /\ Len(items) = n /\ \A i \in 1 .. n : items[i] = e
    BY <1>13
  <2>2. member = [by |-> e, items |-> items, said |-> all.said, from |-> <<>>, short |-> FALSE]
    BY DEF Value
  <2> HIDE DEF items, member
  <2>3. <<>> \in Seq(R)
    OBVIOUS
  <2>4. member \in Values(R) /\ member.by = e /\ member.said = all.said /\ member.items = items
    BY <1>13, <2>1, <2>2, <2>3 DEF Values
  <2>5. \A i \in 1 .. Len(member.items) : Range(member.items[i]) \subseteq Range(member.by)
    BY <2>1, <2>4
  <2>6. QED
    BY <2>4, <2>5
<1>16. IsTrue(member) \/ IsPartOfTruth(member) \/ Failed
  <2>1. m.reads \in Needs(Milestone) \cap DOMAIN Board
    BY <1>2, <1>8, <1>12 DEF Needs
  <2>2. IsTrue(Board[m.reads]) \/ IsPartOfTruth(Board[m.reads]) \/ Failed
    BY <1>7, <2>1, NeedsAreTrue
  <2>3. IsTrue(all) \/ IsPartOfTruth(all) \/ Failed
    BY <1>3, <1>6, <1>8, <2>2
  <2> HIDE DEF member
  <2>4. CASE all.said.kind = "produced" /\ Range(all.by) \subseteq Range(all.said.by)
    BY <1>14, <1>15, <2>4 DEF IsPartOfTruth
  <2>5. CASE all.said.kind = "interpreted" /\ all.by = <<>>
    <3>1. Range(all.by) = {}
      BY <2>5 DEF Range
    <3>2. Range(e) = {}
      BY <1>14, <3>1
    <3>3. e = <<>>
      <4>1. \A i \in 1 .. Len(e) : e[i] \in Range(e)
        BY <1>13 DEF Range
      <4>2. Len(e) = 0
        BY <1>13, <3>2, <4>1
      <4>3. QED
        BY <1>13, <4>2
    <3>4. QED
      BY <1>15, <2>5, <3>3 DEF IsTrue
  <2>6. CASE all.said.kind = "unrecorded"
    BY <1>15, <2>6 DEF IsTrue
  <2>7. all.said.kind = "produced" /\ all.said.by = all.by => Range(all.by) \subseteq Range(all.said.by)
    OBVIOUS
  <2>8. QED
    BY <2>3, <2>4, <2>5, <2>6, <2>7 DEF IsTrue, IsPartOfTruth
<1> HIDE DEF member
<1>17. DOMAIN board = GivenBy(f) /\ board = [ds \in DOMAIN board |-> board[ds]]
       /\ \A ds \in DOMAIN board : board[ds] = IF ds = m.member THEN member ELSE b[ds]
  BY <1>8 DEF GivenBy
<1>18. GivenBy(f) = m.shared \cup {m.member}
  BY <1>8 DEF GivenBy
<1>19. m.shared \subseteq DataState /\ m.member \in DataState
  BY <1>7, <1>8, WritesAre
<1> HIDE DEF board
<1>20. BoardOK(board, R)
  <2>1. ASSUME NEW ds \in DOMAIN board
        PROVE  /\ board[ds] \in Values(R)
               /\ \A i \in 1 .. Len(board[ds].items) : Range(board[ds].items[i]) \subseteq Range(board[ds].by)
    <3>1. CASE ds = m.member
      BY <1>15, <1>17, <3>1
    <3>2. CASE ds # m.member
      <4>1. ds \in DOMAIN b /\ board[ds] = b[ds]
        BY <1>11, <1>17, <1>18, <3>2
      <4>2. QED
        BY <1>9, <4>1 DEF BoardOK
    <3>3. QED
      BY <3>1, <3>2
  <2>2. QED
    BY <1>17, <1>18, <1>19, <2>1 DEF BoardOK
<1>21. \A ds \in DOMAIN board : IsTrue(board[ds]) \/ IsPartOfTruth(board[ds]) \/ Failed
  <2>1. ASSUME NEW ds \in DOMAIN board
        PROVE  IsTrue(board[ds]) \/ IsPartOfTruth(board[ds]) \/ Failed
    <3>1. CASE ds = m.member
      BY <1>16, <1>17, <3>1
    <3>2. CASE ds # m.member
      <4>1. ds \in DOMAIN b /\ board[ds] = b[ds] /\ ds \in m.shared
        BY <1>11, <1>17, <1>18, <3>2
      <4>2. ds \in Needs(Milestone) \cap DOMAIN Board
        BY <1>2, <1>8, <4>1 DEF Needs
      <4>3. IsTrue(Board[ds]) \/ IsPartOfTruth(Board[ds]) \/ Failed
        BY <1>7, <4>2, NeedsAreTrue
      <4>4. QED
        BY <1>8, <4>1, <4>3
    <3>3. QED
      BY <3>1, <3>2
  <2>2. QED
    BY <2>1
<1>22. PICK a : a = Failed
  OBVIOUS
<1>23. \A ds \in DOMAIN board : IsTrue(board[ds]) \/ IsPartOfTruth(board[ds]) \/ a
  BY <1>21, <1>22
<1>24. MemberPath \in Seq(Nat)
  BY PathsAre
<1>25. FrameOK(new, Stored, R) /\ Within(f, new, a)
  <2>1. new = Frame(f.plan[f.next].sub, MemberPath, board) /\ f.plan[f.next].sub # <<>>
        /\ f.fan.at <= f.fan.size
    BY <1>4, <1>7, <1>8
  <2> HIDE DEF new
  <2>2. QED
    BY <1>7, <1>8, <1>17, <1>20, <1>23, <1>24, <2>1, NewFrame
<1>26. Len(frames) \in Nat /\ Len(frames) > 0 /\ f = frames[Len(frames)] /\ Top = frames[1]
       /\ Tower(frames, Stored, Recent, Failed)
  BY <1>1, HereIs DEF RequestInv
<1>27. new.path = Append(Append(f.path, f.next), f.fan.at)
  BY <1>1 DEF Frame, MemberPath, Path, Fan
<1> HIDE DEF new
<1>28. Tower(Append(frames, new), Stored, R, a)
  <2>1. Tower(frames, Stored, R, a)
    BY <1>5, <1>22, <1>26
  <2>2. QED
    BY <1>25, <1>26, <1>27, <2>1, TowerPush
<1>29. Len(frames') = Len(frames) + 1 /\ \A d \in 1 .. Len(frames) : frames'[d] = frames[d]
  <2>1. frames \in Seq(Range(frames))
    BY <1>26 DEF Tower
  <2>2. QED
    BY <1>7, <2>1, SeqPush
<1>30. Top' = Top
  BY <1>26, <1>29 DEF Top
<1>31. ASSUME NEW q \in Seq(Nat), NEW d \in 1 .. Len(frames), Behind(q, frames[d])
       PROVE  \E d2 \in 1 .. Len(frames') : Behind(q, frames'[d2])
  <2>1. d \in 1 .. Len(frames') /\ frames'[d] = frames[d]
    BY <1>26, <1>29
  <2>2. QED
    BY <1>31, <2>1
<1>32. Tower(frames', Stored, Recent, Failed)
  BY <1>5, <1>7, <1>22, <1>28
<1>33. \A q \in Seq(Nat) : (\E d \in 1 .. Len(frames) : Behind(q, frames[d])) =>
                           (\E d \in 1 .. Len(frames') : Behind(q, frames'[d]))
  BY <1>31
<1>34. QED
  BY <1>7, <1>8, <1>30, <1>32, <1>33, FramesKeep

-----------------------------------------------------------------------------
\* What has been run, and how, stays as it is.
LEMMA NothingRunsKeeps ==
    ASSUME RequestInv, UNCHANGED <<plan, frames, attempt, record, size, last, since, lost>>,
           GraphsOK', Stored \subseteq Stored', StatusOK'
    PROVE  RequestInv'
<1>1. Top' = Top
  BY DEF Top
<1>2. TopOK' /\ LastOK' /\ RecordOK' /\ (Failed' <=> Failed)
  BY <1>1, TopStays
<1>3. Recent' = Recent
  BY DEF Recent
<1>4. PICK a : a = Failed
  OBVIOUS
<1>5. PICK b : b = Failed'
  OBVIOUS
<1>6. PICK G : G = Stored'
  OBVIOUS
<1>7. Tower(frames, Stored, Recent, a)
  BY <1>4 DEF RequestInv
<1>8. a => b
  BY <1>2, <1>4, <1>5
<1>9. Tower(frames, Stored, Recent, b)
  BY <1>7, <1>8, TowerFailed
<1>10. Tower(frames, G, Recent, b)
  BY <1>6, <1>9, TowerMore
<1>11. Tower(frames, Stored, Recent, Failed)'
  BY <1>3, <1>5, <1>6, <1>10
<1>12. plan' \in Plans /\ attempt' \in 0 .. Budget /\ since' \in 0 .. attempt' /\ size' \in 0 .. MaxSize
  BY DEF RequestInv
<1>13. QED
  BY <1>2, <1>11, <1>12 DEF RequestInv

\* An exception that nothing catches.
LEMMA UncaughtKeeps ==
    ASSUME RequestInv, status = "running", NEW reason, reason # "carriers", Uncaught(reason),
           graphs' = graphs \/ graphs' = Append(graphs, RunRef(Path, 0))
    PROVE  RequestInv'
<1>1. UNCHANGED <<plan, frames, attempt, record, size, last, since, lost>>
      /\ status' = "raised" /\ why' = reason
  BY DEF Uncaught
<1>2. GraphsOK' /\ Stored \subseteq Stored'
  <2>1. 0 \in 0 .. RetryCap /\ attempt' = attempt /\ status' # "running"
    BY <1>1, RequestConstants
  <2>2. QED
    BY <2>1, GraphsKept
<1>3. StatusOK'
  BY <1>1 DEF StatusOK
<1>4. QED
  BY <1>1, <1>2, <1>3, NothingRunsKeeps

\* The steps that raise what nothing catches.
LEMMA LeafNoRouteKeeps ==
    ASSUME RequestInv, LeafNoRoute PROVE RequestInv'
BY UncaughtKeeps DEF LeafNoRoute, More

\* A capacity is gone.
LEMMA WithdrawnKeeps ==
    ASSUME RequestInv, Withdrawn PROVE RequestInv'
BY UncaughtKeeps DEF Withdrawn, More

\* A map without its shared inputs, or beyond its members.
LEMMA MapRaisesKeeps ==
    ASSUME RequestInv, MapRaises PROVE RequestInv'
<1>1. status = "running" /\ graphs' = graphs
  BY DEF MapRaises, More
<1>2. Uncaught("shared") \/ Uncaught("index")
  BY DEF MapRaises
<1>3. QED
  BY <1>1, <1>2, UncaughtKeeps

\* The capacity of a fold is gone.
LEMMA FoldWithdrawnKeeps ==
    ASSUME RequestInv, FoldWithdrawn PROVE RequestInv'
BY UncaughtKeeps DEF FoldWithdrawn, More

\* The request is over.
LEMMA EndKeeps ==
    ASSUME RequestInv, AttemptOver, NEW outcome, NEW reason, End(outcome, reason),
           outcome \in {"completed", "conceded", "dont_know"}, reason # "carriers",
           outcome = "conceded" => reason = "abort" \/ StoppedShort,
           outcome = "dont_know" => ~StoppedShort
    PROVE  RequestInv'
<1>1. /\ UNCHANGED <<plan, frames, attempt, record, graphs, size, last, since, lost>>
      /\ status' = outcome /\ why' = reason /\ status = "running"
  BY DEF End, AttemptOver
<1>2. GraphsOK' /\ Stored \subseteq Stored'
  <2>1. 0 \in 0 .. RetryCap /\ attempt' = attempt /\ status' # "running" /\ graphs' = graphs
    BY <1>1, RequestConstants
  <2>2. QED
    BY <1>1, <2>1, GraphsKept
<1>3. StoppedShort' <=> StoppedShort
  BY <1>1 DEF StoppedShort
<1>4. StatusOK'
  BY <1>1, <1>3 DEF StatusOK
<1>5. QED
  BY <1>1, <1>2, <1>4, NothingRunsKeeps

\* The judges give up.
LEMMA AbortKeeps ==
    ASSUME RequestInv, Abort PROVE RequestInv'
BY EndKeeps DEF Abort

\* The judges conclude.
LEMMA ConcludeKeeps ==
    ASSUME RequestInv, NEW sufficient \in BOOLEAN, Conclude(sufficient) PROVE RequestInv'
<1> DEFINE outcome == IF sufficient THEN "completed"
                      ELSE IF StoppedShort THEN "conceded" ELSE "dont_know"
<1>1. AttemptOver /\ End(outcome, Nowhere)
  BY DEF Conclude
<1>2. outcome \in {"completed", "conceded", "dont_know"}
      /\ (outcome = "conceded" => StoppedShort) /\ (outcome = "dont_know" => ~StoppedShort)
  OBVIOUS
<1> HIDE DEF outcome
<1>3. Nowhere # "carriers"
  BY DEF Nowhere
<1>4. QED
  BY <1>1, <1>2, <1>3, EndKeeps

\* Nothing happens.
LEMMA OverKeeps ==
    ASSUME RequestInv, UNCHANGED requestVars PROVE RequestInv'
<1>1. /\ UNCHANGED <<plan, frames, attempt, record, size, last, since, lost>>
      /\ UNCHANGED <<graphs, status, why>>
  BY DEF requestVars
<1>2. GraphsOK'
  <2>1. GraphsOK
    BY DEF RequestInv
  <2>2. QED
    BY <1>1, <2>1 DEF GraphsOK, Passed
<1>3. StatusOK'
  <2>1. StatusOK
    BY DEF RequestInv
  <2>2. QED
    BY <1>1, <2>1 DEF StatusOK, StoppedShort
<1>4. Stored \subseteq Stored'
  BY <1>1 DEF Stored
<1>5. QED
  BY <1>1, <1>2, <1>3, <1>4, NothingRunsKeeps

-----------------------------------------------------------------------------
\* The blackboard of a request that begins.
LEMMA StartFrameIs ==
    ASSUME plan \in Plans, size \in 0 .. MaxSize, NEW G, NEW R
    PROVE  /\ FrameOK(Start, G, R) /\ IsFrame(Start) /\ Start.plan = plan /\ Start.path = <<>>
           /\ Start.next = 1 /\ Start.only = 0 /\ Start.fan = NoFan /\ Start.slice = <<>>
           /\ \A ds \in DOMAIN Start.board : IsTrue(Start.board[ds])
<1> DEFINE items == [i \in 1 .. size |-> <<>>]
           v == Value(<<>>, items, Interpreted, <<>>, FALSE)
           board == [ds \in {Seed} |-> v]
           f == Start
<1>1. /\ IsFrame(f) /\ f.plan = plan /\ f.path = <<>> /\ f.next = 1 /\ f.only = 0
      /\ f.board = board /\ f.carriers = <<>> /\ f.fan = NoFan /\ f.last = Nowhere
      /\ f.slice = <<>>
  BY DEF Start, Frame, IsFrame
<1>2. items \in Seq(Seq(R)) /\ Len(items) = size /\ \A i \in 1 .. size : items[i] = <<>>
  <2>1. <<>> \in Seq(R)
    OBVIOUS
  <2>2. QED
    BY <2>1
<1> HIDE DEF items
<1>3. /\ v \in Values(R) /\ v.items = items /\ v.by = <<>> /\ IsTrue(v)
  <2>1. <<>> \in Seq(R) /\ Interpreted \in Said(R) /\ Interpreted.kind = "interpreted"
    BY DEF Interpreted, Origin, Said
  <2>2. v = [by |-> <<>>, items |-> items, said |-> Interpreted, from |-> <<>>, short |-> FALSE]
    BY DEF Value
  <2> HIDE DEF v
  <2>3. v \in Values(R) /\ v.items = items /\ v.by = <<>> /\ v.said = Interpreted
    BY <1>2, <2>1, <2>2 DEF Values
  <2>4. QED
    BY <2>1, <2>3 DEF IsTrue
<1> HIDE DEF v
<1>4. BoardOK(board, R) /\ \A ds \in DOMAIN board : IsTrue(board[ds])
  <2>1. \A i \in 1 .. Len(v.items) : Range(v.items[i]) \subseteq Range(v.by)
    <3>1. Range(<<>>) = {}
      BY DEF Range
    <3>2. QED
      BY <1>2, <1>3, <3>1
  <2>2. DOMAIN board \subseteq DataState
    BY RequestConstants
  <2>3. QED
    BY <1>3, <2>1, <2>2 DEF BoardOK
<1> HIDE DEF board, f
<1>5. plan \in Seq(Milestones) /\ Len(plan) \in Nat /\ Len(plan) > 0
  BY PlansAssumption DEF PlansAreLayered, IsMilestone
<1>6. DOMAIN f.carriers = {} /\ Len(f.slice) = 0 /\ f.slice \in Slices
  BY <1>1 DEF Slices
<1>7. f.fan \in Fans(R) /\ FanOK(f, G, R)
  <2>1. NoFan \in Fans(R) /\ NoFan.open = FALSE
    BY DEF NoFan, Fans
  <2>2. QED
    BY <1>1, <2>1 DEF FanOK
<1>8. MapsDone(f)
  <2>1. \A k \in DOMAIN f.plan : ~(k < f.next) /\ ~(k = f.next /\ f.only > 0)
    BY <1>1, <1>5
  <2>2. QED
    BY <2>1 DEF MapsDone
<1>9. CarriersOK(f, G, R)
  BY <1>6 DEF CarriersOK
<1>10. FrameOK(f, G, R)
  <2>1. f.next \in 1 .. Len(f.plan) + 1 /\ f.only \in 0 .. MaxSize + 1 /\ f.last \in Outcomes
    BY <1>1, <1>5, RequestConstants DEF Outcomes
  <2>2. \A i \in 1 .. Len(f.slice) : f.slice[i].run \in G
    BY <1>6
  <2>3. <<>> \in Seq(Nat)
    OBVIOUS
  <2>4. QED
    BY <1>1, <1>4, <1>5, <1>6, <1>7, <1>8, <1>9, <2>1, <2>2, <2>3 DEF FrameOK
<1>11. QED
  BY <1>1, <1>4, <1>10 DEF f

\* A tower of one frame.
LEMMA OneFrame ==
    ASSUME NEW g, NEW G, NEW R, NEW failed, FrameOK(g, G, R)
    PROVE  Tower(<<g>>, G, R, failed)
<1>1. <<g>> \in Seq({g}) /\ Len(<<g>>) = 1 /\ <<g>>[1] = g /\ Range(<<g>>) = {g}
  BY DEF Range
<1>2. QED
  BY <1>1 DEF Tower

\* A request, or its plan once more, begins.
Begins ==
  /\ plan \in Plans /\ size \in 0 .. MaxSize /\ frames = <<Start>> /\ record = <<>>
  /\ last = [i \in DOMAIN plan |-> None] /\ lost = {}
BeginsOK == Tower(frames, Stored, Recent, Failed) /\ TopOK /\ LastOK /\ RecordOK

\* What a request that begins has run is in step.
LEMMA BeginsIs == Begins => BeginsOK
<1> SUFFICES ASSUME Begins PROVE BeginsOK
  OBVIOUS
<1>1. plan \in Plans /\ size \in 0 .. MaxSize /\ frames = <<Start>> /\ Top = Start
  BY DEF Begins, Top
<1>2. \A G, R : FrameOK(Start, G, R)
  BY <1>1, StartFrameIs
<1>3. /\ Start.plan = plan /\ Start.path = <<>> /\ Start.next = 1 /\ Start.slice = <<>>
      /\ \A ds \in DOMAIN Start.board : IsTrue(Start.board[ds])
  BY <1>1, StartFrameIs
<1>4. Tower(frames, Stored, Recent, Failed)
  <2>1. PICK a : a = Failed
    OBVIOUS
  <2>2. Tower(<<Start>>, Stored, Recent, a)
    BY <1>2, OneFrame
  <2>3. QED
    BY <1>1, <2>1, <2>2
<1>5. plan \in Seq(Milestones) /\ Len(plan) \in Nat /\ DOMAIN plan = 1 .. Len(plan)
  BY <1>1, PlansAssumption DEF PlansAreLayered, IsMilestone
<1>6. \A k \in DOMAIN plan : Ended(k) = Nowhere /\ last[k] = None /\ ~(k < 1) /\ ~HasMade(k)
  BY <1>5 DEF Begins, Ended, None, HasMade, Nowhere
<1>7. TopOK
  <2>1. FoldsOK(Top, {k \in DOMAIN plan : Ended(k) = "completed"})
    BY <1>1, <1>3, <1>6 DEF FoldsOK
  <2>2. QED
    BY <1>1, <1>3, <2>1 DEF TopOK
<1>8. LastOK
  <2>1. DOMAIN last = DOMAIN plan
    BY DEF Begins
  <2>2. QED
    BY <1>6, <2>1 DEF LastOK
<1>9. RecordOK
  <2>1. record = <<>> /\ lost = {} /\ Top.next = 1
    BY <1>1, <1>3 DEF Begins
  <2>2. record \in Seq(Runs) /\ Len(record) = 0 /\ 1 .. Len(record) = {} /\ 1 .. Top.next - 1 = {}
        /\ Top.next - 1 = 0
    BY <2>1
  <2>3. QED
    BY <2>1, <2>2 DEF RecordOK
<1>10. QED
  BY <1>4, <1>7, <1>8, <1>9 DEF BeginsOK

\* The invariant holds as the request starts.
LEMMA RequestInvInit == RequestInit => RequestInv
<1> SUFFICES ASSUME RequestInit PROVE RequestInv
  OBVIOUS
<1>1. /\ plan \in Plans /\ size \in 0 .. MaxSize /\ frames = <<Start>> /\ attempt = 0 /\ since = 0
      /\ record = <<>> /\ graphs = <<>> /\ status = "running" /\ why = Nowhere /\ lost = {}
      /\ last = [i \in DOMAIN plan |-> None]
  BY RequestConstants DEF RequestInit, None
<1>2. BeginsOK
  BY <1>1, BeginsIs DEF Begins
<1>3. GraphsOK
  <2>1. graphs \in Seq(Reference) /\ Len(graphs) = 0 /\ IsInjective(graphs)
    BY <1>1 DEF IsInjective
  <2>2. QED
    BY <2>1 DEF GraphsOK
<1>4. StatusOK
  BY <1>1 DEF StatusOK, Nowhere
<1>5. attempt \in 0 .. Budget /\ since \in 0 .. attempt
  BY <1>1, RequestConstants
<1>6. QED
  BY <1>1, <1>2, <1>3, <1>4, <1>5 DEF RequestInv, BeginsOK

\* A new attempt leaves every graph behind.
LEMMA NewAttemptGraphs ==
    ASSUME RequestInv, attempt' = attempt + 1, graphs' = graphs
    PROVE  GraphsOK' /\ Stored' = Stored /\ attempt \in Nat
<1>1. GraphsOK /\ attempt \in Nat
  BY DEF RequestInv
<1>2. ASSUME NEW i \in 1 .. Len(graphs)
      PROVE  graphs[i].attempt <= attempt' /\ graphs[i].attempt # attempt'
  <2>1. graphs[i] \in Reference /\ graphs[i].attempt <= attempt
    BY <1>1 DEF GraphsOK
  <2>2. graphs[i].attempt \in Nat
    BY <2>1, RequestConstants DEF Reference
  <2>3. QED
    BY <1>1, <2>1, <2>2
<1>3. \A i \in 1 .. Len(graphs) : graphs[i].attempt <= attempt' /\ Passed(graphs[i])'
  BY <1>2 DEF Passed
<1>4. GraphsOK'
  BY <1>1, <1>3 DEF GraphsOK
<1>5. QED
  BY <1>1, <1>4 DEF Stored

\* The plan is run again from the start.
LEMMA ReplanWholeKeeps ==
    ASSUME RequestInv, ReplanWhole PROVE RequestInv'
<1>1. /\ attempt' = attempt + 1 /\ since' = attempt + 1 /\ attempt < Budget /\ frames' = <<Start>>
      /\ record' = <<>> /\ last' = [i \in DOMAIN plan |-> None] /\ lost' = {}
      /\ UNCHANGED <<plan, graphs, status, size, why>>
  BY DEF ReplanWhole
<1>2. GraphsOK' /\ attempt \in Nat
  BY <1>1, NewAttemptGraphs
<1>3. plan' \in Plans /\ size' \in 0 .. MaxSize
  BY <1>1 DEF RequestInv
<1>4. Begins'
  BY <1>1, <1>3 DEF Begins, Start
<1>5. BeginsOK'
  BY <1>4, BeginsIs, PTL
<1>6. StatusOK'
  <2>1. status' = "running" /\ why' = why /\ why # "carriers"
    BY <1>1 DEF RequestInv, StatusOK, ReplanWhole, AttemptOver
  <2>2. QED
    BY <2>1 DEF StatusOK
<1>7. attempt' \in 0 .. Budget /\ since' \in 0 .. attempt'
  BY <1>1, <1>2, RequestConstants
<1>8. QED
  BY <1>2, <1>3, <1>5, <1>6, <1>7 DEF RequestInv, BeginsOK

-----------------------------------------------------------------------------
Back(t, i, j) == [t EXCEPT !.next = i, !.only = j]

\* A frame that is put back to a member of a map that has been run.
LEMMA PutBack ==
    ASSUME NEW t, NEW G, NEW R, FrameOK(t, G, R), NEW i \in DOMAIN t.plan, i < t.next,
           t.fan = NoFan, NEW j \in 0 .. MaxSize + 1, t.plan[i].kind = "map"
    PROVE  LET g == Back(t, i, j)
           IN  /\ FrameOK(g, G, R) /\ g.plan = t.plan /\ g.path = t.path /\ g.next = i
               /\ g.slice = t.slice /\ g.board = t.board /\ g.carriers = t.carriers
<1> DEFINE S == [plan : {t.plan}, path : {t.path}, next : {t.next, i}, only : {t.only, j},
                 board : {t.board}, carriers : {t.carriers}, fan : {t.fan}, last : {t.last},
                 slice : {t.slice}]
           g == Back(t, i, j)
<1>1. t \in S
  <2>1. t = [plan |-> t.plan, path |-> t.path, next |-> t.next, only |-> t.only,
             board |-> t.board, carriers |-> t.carriers, fan |-> t.fan, last |-> t.last,
             slice |-> t.slice]
    BY DEF FrameOK, IsFrame
  <2>2. QED
    BY <2>1
<1>2. /\ IsFrame(g) /\ g.plan = t.plan /\ g.path = t.path /\ g.next = i /\ g.only = j
      /\ g.board = t.board /\ g.carriers = t.carriers /\ g.fan = t.fan /\ g.last = t.last
      /\ g.slice = t.slice
  <2>1. g \in S /\ g.next = i /\ g.only = j
    BY <1>1 DEF Back
  <2> HIDE DEF g
  <2>2. IsFrame(g)
    BY <2>1 DEF IsFrame
  <2>3. QED
    BY <2>1, <2>2
<1> HIDE DEF g, S
<1>3. /\ t.plan \in Seq(Milestones) /\ t.path \in Seq(Nat) /\ t.next \in 1 .. Len(t.plan) + 1
      /\ t.last \in Outcomes /\ t.slice \in Slices
      /\ (\A k \in 1 .. Len(t.slice) : t.slice[k].run \in G)
      /\ BoardOK(t.board, R) /\ t.fan \in Fans(R) /\ CarriersOK(t, G, R) /\ MapsDone(t)
  BY DEF FrameOK
<1>4. i \in Nat /\ i \in 1 .. Len(t.plan) + 1 /\ DOMAIN t.plan = 1 .. Len(t.plan)
  BY <1>3
<1>5. FanOK(g, G, R)
  <2>1. ~NoFan.open
    BY DEF NoFan
  <2>2. QED
    BY <1>2, <2>1 DEF FanOK
<1>6. CarriersOK(g, G, R)
  <2>1. \A ds : MapsTo(g, ds) = MapsTo(t, ds)
    BY <1>2 DEF MapsTo
  <2>2. ASSUME NEW ds \in DOMAIN g.carriers
        PROVE  /\ MapsTo(g, ds) # {}
               /\ InStep(g.board[ds].items, g.carriers[ds].ids, g.carriers[ds].mask,
                         g.carriers[ds].origins, \A m \in MapsTo(g, ds) : OneRun(m), G, R)
    <3>1. MapsTo(g, ds) = MapsTo(t, ds)
      BY <2>1
    <3>2. QED
      BY <1>2, <1>3, <3>1, InStepLess DEF CarriersOK
  <2>3. DOMAIN g.carriers \subseteq DOMAIN g.board
    BY <1>2, <1>3 DEF CarriersOK
  <2>4. QED
    BY <2>2, <2>3 DEF CarriersOK
<1>7. MapsDone(g)
  <2>1. \A k \in DOMAIN t.plan : k < i \/ k = i => k < t.next
    BY <1>3, <1>4
  <2>2. QED
    BY <1>2, <1>3, <2>1 DEF MapsDone
<1>8. FrameOK(g, G, R)
  BY <1>2, <1>3, <1>4, <1>5, <1>6, <1>7 DEF FrameOK
<1>9. QED
  BY <1>2, <1>8 DEF g

\* The plan is run again from a member of a map on.
LEMMA ReplanMemberKeeps ==
    ASSUME RequestInv, NEW i \in DOMAIN plan, NEW j \in 1 .. MaxSize + 1, ReplanMember(i, j)
    PROVE  RequestInv'
<1>1. PICK t : t = Top
  OBVIOUS
<1> DEFINE g == Back(t, i, j)
           S == {k \in DOMAIN plan : Ended(k) = "completed"}
<1>2. /\ status = "running" /\ Len(frames) = 1 /\ Here.next > Len(plan) /\ Resolved(i)
      /\ attempt < Budget /\ attempt' = attempt + 1 /\ frames' = <<[Here EXCEPT !.next = i, !.only = j]>>
      /\ record' = KeptBelow(i)
      /\ last' = [k \in DOMAIN plan |-> IF k < i THEN last[k] ELSE None]
      /\ lost' = {k \in 1 .. i - 1 : \A r \in Range(record') : r.path # <<k>>}
      /\ UNCHANGED <<plan, graphs, status, size, why, since>>
  BY DEF ReplanMember, AttemptOver
<1>3. /\ t = Here /\ FrameOK(t, Stored, Recent) /\ TopOK /\ LastOK /\ RecordOK
      /\ plan \in Seq(Milestones) /\ Len(plan) \in Nat
  BY <1>1, <1>2, HereIs DEF RequestInv
<1>4. /\ t.plan = plan /\ t.path = <<>> /\ t.slice = <<>> /\ FoldsOK(t, S)
  BY <1>1, <1>3 DEF TopOK
<1>5. frames' = <<g>>
  BY <1>2, <1>3 DEF Back
<1>6. t.next \in Nat /\ t.next > Len(plan) /\ t.next = Len(plan) + 1 /\ i \in Nat /\ i < t.next
      /\ i > 0 /\ i <= Len(plan) /\ DOMAIN plan = 1 .. Len(plan)
  <2>1. t.next \in 1 .. Len(plan) + 1
    BY <1>3, <1>4 DEF FrameOK
  <2>2. QED
    BY <1>2, <1>3, <2>1
<1>7. t.fan = NoFan
  <2>1. FanOK(t, Stored, Recent)
    BY <1>3 DEF FrameOK
  <2>2. ~(t.next <= Len(t.plan))
    BY <1>3, <1>4, <1>6
  <2>3. QED
    BY <2>1, <2>2 DEF FanOK
<1>8. plan[i].kind = "map" /\ plan[i].sub = <<>>
  BY <1>2 DEF Resolved
<1>9. /\ FrameOK(g, Stored, Recent) /\ g.plan = plan /\ g.path = <<>> /\ g.next = i
      /\ g.slice = <<>> /\ g.board = t.board /\ g.carriers = t.carriers
  <2>1. j \in 0 .. MaxSize + 1
    BY RequestConstants
  <2>2. i \in DOMAIN t.plan /\ t.plan[i].kind = "map" /\ i < t.next
    BY <1>4, <1>6, <1>8
  <2>3. FrameOK(g, Stored, Recent) /\ g.plan = t.plan /\ g.path = t.path /\ g.next = i
        /\ g.slice = t.slice /\ g.board = t.board /\ g.carriers = t.carriers
    BY <1>3, <1>7, <2>1, <2>2, PutBack
  <2>4. QED
    BY <1>4, <2>3
<1> HIDE DEF g, S
<1>10. Top' = g /\ Recent' = Recent
  BY <1>2, <1>5 DEF Top, Recent
<1>11. GraphsOK' /\ Stored' = Stored /\ attempt \in Nat
  BY <1>2, NewAttemptGraphs
<1>12. Tower(frames, Stored, Recent, Failed)'
  <2>1. PICK b : b = Failed'
    OBVIOUS
  <2>2. Tower(<<g>>, Stored, Recent, b)
    BY <1>9, OneFrame
  <2>3. QED
    BY <1>5, <1>10, <1>11, <2>1, <2>2
<1>13. \A k \in DOMAIN plan : last'[k] = IF k < i THEN last[k] ELSE None
  BY <1>2
<1>14. \A k \in DOMAIN plan : Ended(k)' # Nowhere => k < i /\ Ended(k)' = Ended(k)
  <2>1. None.status = Nowhere
    BY DEF None
  <2>2. QED
    BY <1>13, <2>1 DEF Ended
<1>15. \A k \in DOMAIN plan : k < i => last'[k] = last[k] /\ Ended(k)' = Ended(k)
  BY <1>13 DEF Ended
<1>16. TopOK'
  <2> DEFINE T == {k \in DOMAIN plan' : Ended(k)' = "completed"}
  <2>1. T \subseteq S
    BY <1>2, <1>14 DEF S, Nowhere
  <2> HIDE DEF T
  <2>2. FoldsOK(g, T)
    <3>1. \A ds : MapsTo(g, ds) = MapsTo(t, ds)
      BY <1>4, <1>9 DEF MapsTo
    <3>2. \A k \in DOMAIN plan : k < i => k < t.next
      BY <1>6
    <3>3. QED
      BY <1>4, <1>9, <2>1, <3>1, <3>2 DEF FoldsOK
  <2>3. ASSUME NEW ds \in DOMAIN g.board, ~IsTrue(g.board[ds])
        PROVE  \E k \in DOMAIN plan' : /\ ds \in Range(plan'[k].writes)
                                       /\ LeafFailed(k)' \/ ToRunAgain(k)'
    <3>1. PICK k \in DOMAIN plan : ds \in Range(plan[k].writes) /\ (LeafFailed(k) \/ ToRunAgain(k))
      BY <1>1, <1>3, <1>9, <2>3 DEF TopOK
    <3>2. LeafFailed(k)
      <4>1. ~ToRunAgain(k)
        <5>1. ~(k >= t.next)
          BY <1>6
        <5>2. QED
          BY <1>1, <5>1 DEF ToRunAgain
      <4>2. QED
        BY <3>1, <4>1
    <3>3. CASE k < i
      <4>1. LeafFailed(k)'
        BY <1>2, <1>15, <3>2, <3>3 DEF LeafFailed
      <4>2. QED
        BY <1>2, <3>1, <4>1
    <3>4. CASE ~(k < i)
      <4>1. k >= g.next /\ since' < attempt'
        <5>1. k \in Nat /\ since \in 0 .. attempt /\ since' = since
          BY <1>2, <1>6 DEF RequestInv
        <5>2. QED
          BY <1>2, <1>6, <1>9, <1>11, <3>4, <5>1
      <4>2. plan'[k].kind = "leaf"
        BY <1>2, <3>2 DEF LeafFailed
      <4>3. ToRunAgain(k)'
        BY <1>10, <4>1, <4>2 DEF ToRunAgain
      <4>4. QED
        BY <1>2, <3>1, <4>3
    <3>5. QED
      BY <3>3, <3>4
  <2>4. QED
    BY <1>2, <1>9, <1>10, <2>2, <2>3 DEF TopOK, T
<1>17. LastOK'
  <2>1. DOMAIN last' = DOMAIN plan'
    BY <1>2
  <2>2. \A k \in DOMAIN plan' : k >= g.next => last'[k] = None
    <3>1. ASSUME NEW k \in DOMAIN plan, k >= i
          PROVE  last'[k] = None
      <4>1. ~(k < i)
        BY <1>6, <3>1
      <4>2. QED
        BY <1>13, <4>1
    <3>2. QED
      BY <1>2, <1>9, <3>1
  <2>3. \A k \in DOMAIN plan : (HasMade(k)' => HasMade(k)) /\ Out(k)' = Out(k)
    BY <1>2, <1>14 DEF HasMade, Out, Nowhere
  <2>4. \A k \in DOMAIN plan : Ended(k)' = "completed" => Ended(k) = "completed"
    BY <1>14 DEF Nowhere
  <2>5. /\ \A k \in DOMAIN plan : HasMade(k) => Out(k) \in DOMAIN t.board
        /\ \A k, m \in DOMAIN plan :
             Ended(k) = "completed" /\ plan[k].kind # "notional" /\ HasMade(m) /\ Out(m) = plan[k].reads
               => t.board[Out(k)].from = t.board[Out(m)].by
    BY <1>1, <1>3 DEF LastOK
  <2>6. /\ \A k \in DOMAIN plan' : HasMade(k)' => Out(k)' \in DOMAIN g.board
        /\ \A k, m \in DOMAIN plan' :
             Ended(k)' = "completed" /\ plan'[k].kind # "notional" /\ HasMade(m)' /\ Out(m)' = plan'[k].reads
               => g.board[Out(k)'].from = g.board[Out(m)'].by
    BY <1>2, <1>9, <2>3, <2>4, <2>5
  <2>7. QED
    BY <1>10, <2>1, <2>2, <2>6 DEF LastOK, None
<1>18. RecordOK'
  <2> DEFINE n == i - 1
             s == record'
  <2>1. /\ record \in Seq(Runs) /\ Len(record) >= t.next - 1
        /\ \A q \in 1 .. Len(record) : Len(record[q].path) > 0
        /\ \A q \in 1 .. Len(record) : Len(record[q].path) = 1 =>
             LET k == record[q].path[1]
             IN /\ k \in 1 .. t.next - 1 /\ k <= q
                /\ last[k] = [attempt |-> record[q].attempt, status |-> record[q].status]
        /\ \A q \in 1 .. t.next - 1 :
             (\A m \in 1 .. q : ~SubMap(m)) => record[q].path = <<q>>
    BY <1>1, <1>3 DEF RecordOK
  <2>2. n \in Nat /\ n <= Len(record) /\ n < t.next - 1
    <3>1. Len(record) \in Nat
      BY <2>1
    <3>2. QED
      BY <1>6, <2>1, <3>1
  <2>3. s = SubSeq(record, 1, n)
    BY <1>2 DEF KeptBelow
  <2> HIDE DEF s, n
  <2>4. s \in Seq(Runs) /\ Len(s) = n /\ DOMAIN s = 1 .. n /\ \A q \in 1 .. n : s[q] = record[q]
    BY <2>1, <2>2, <2>3
  <2>5. \A q \in 1 .. n : q \in 1 .. Len(record) /\ q \in 1 .. t.next - 1 /\ q < i /\ q \in DOMAIN plan
    BY <1>6, <2>1, <2>2 DEF n
  <2>6. \A k \in 1 .. t.next - 1 : k <= n => k \in 1 .. n
    BY <2>2
  <2>7. \A q \in 1 .. n : Len(s[q].path) = 1 =>
          LET k == s[q].path[1]
          IN /\ k \in 1 .. n /\ k <= q
             /\ last'[k] = [attempt |-> s[q].attempt, status |-> s[q].status]
    <3>1. ASSUME NEW q \in 1 .. n, Len(s[q].path) = 1, NEW k, k = s[q].path[1]
          PROVE  k \in 1 .. n /\ k <= q
                 /\ last'[k] = [attempt |-> s[q].attempt, status |-> s[q].status]
      <4>1. s[q] = record[q] /\ q \in 1 .. Len(record)
        BY <2>4, <2>5
      <4>2. k \in 1 .. t.next - 1 /\ k <= q
            /\ last[k] = [attempt |-> s[q].attempt, status |-> s[q].status]
        BY <2>1, <3>1, <4>1
      <4>3. k \in 1 .. n
        BY <2>2, <4>2
      <4>4. last'[k] = last[k]
        BY <1>15, <2>5, <4>3
      <4>5. QED
        BY <4>2, <4>3, <4>4
    <3>2. QED
      BY <3>1
  <2>8. \A q \in 1 .. n : (\A m \in 1 .. q : ~SubMap(m)) => s[q].path = <<q>>
    BY <2>1, <2>4, <2>5
  <2>9. lost' = {k \in 1 .. n : \A r \in Range(s) : r.path # <<k>>}
    BY <1>2 DEF n, s
  <2>10. ASSUME NEW k \in 1 .. n
         PROVE  \/ \E q \in 1 .. Len(s) : s[q].path = <<k>>
                \/ k \in lost' /\ \E m \in 1 .. k : SubMap(m)
    <3>1. CASE \A m \in 1 .. k : ~SubMap(m)
      BY <2>4, <2>8, <3>1
    <3>2. CASE \E m \in 1 .. k : SubMap(m)
      <4>1. k \in lost' \/ \E r \in Range(s) : r.path = <<k>>
        BY <2>9
      <4>2. \A r \in Range(s) : \E q \in 1 .. Len(s) : r = s[q]
        BY <2>4 DEF Range
      <4>3. QED
        BY <3>2, <4>1, <4>2
    <3>3. QED
      BY <3>1, <3>2
  <2>11. \A m : SubMap(m)' <=> SubMap(m)
    BY <1>2 DEF SubMap
  <2>12. \A q \in 1 .. Len(s) : Len(s[q].path) > 0
    BY <2>1, <2>4, <2>5
  <2>13. Top'.next - 1 = n /\ Len(s) >= n
    BY <1>9, <1>10, <2>2, <2>4 DEF n
  <2>14. lost' \subseteq 1 .. n
    BY <2>9
  <2>15. /\ s \in Seq(Runs) /\ Len(s) >= n /\ Len(s) = n
         /\ \A q \in 1 .. Len(s) : Len(s[q].path) = 1 =>
              LET k == s[q].path[1]
              IN /\ k \in 1 .. n /\ k <= q
                 /\ last'[k] = [attempt |-> s[q].attempt, status |-> s[q].status]
         /\ \A q \in 1 .. n : (\A m \in 1 .. q : ~SubMap(m)') => s[q].path = <<q>>
         /\ \A k \in 1 .. n : \/ \E q \in 1 .. Len(s) : s[q].path = <<k>>
                              \/ k \in lost' /\ \E m \in 1 .. k : SubMap(m)'
    BY <2>4, <2>7, <2>8, <2>10, <2>11, <2>13
  <2>16. QED
    BY <2>12, <2>13, <2>14, <2>15 DEF RecordOK, s
<1>19. StatusOK'
  <2>1. status' = "running" /\ why' = why /\ why # "carriers"
    BY <1>2 DEF RequestInv, StatusOK
  <2>2. QED
    BY <2>1 DEF StatusOK
<1>20. plan' \in Plans /\ attempt' \in 0 .. Budget /\ since' \in 0 .. attempt' /\ size' \in 0 .. MaxSize
  <2>1. plan \in Plans /\ since \in 0 .. attempt /\ size \in 0 .. MaxSize
    BY DEF RequestInv
  <2>2. QED
    BY <1>2, <1>11, <2>1, RequestConstants
<1>21. QED
  BY <1>11, <1>12, <1>16, <1>17, <1>18, <1>19, <1>20 DEF RequestInv

-----------------------------------------------------------------------------
\* The last graph among some of a slice.
LEMMA LastGraphIs ==
    ASSUME NEW slice \in Slices, NEW S, S \subseteq DOMAIN slice
    PROVE  /\ LastGraph(slice, S) \in Reference
           /\ S = {} => LastGraph(slice, S) = NoRun
           /\ S # {} => \E x \in S : /\ LastGraph(slice, S) = slice[x].run
                                     /\ \A y \in S : y <= x
<1> DEFINE n == Len(slice)
<1>1. /\ n \in Nat /\ DOMAIN slice = 1 .. n
      /\ \A i \in 1 .. n : slice[i].run \in Reference
  <2> DEFINE X == [run : Reference, made : SUBSET DataState, stopped : BOOLEAN]
  <2>1. slice \in Seq(X) /\ \A e \in X : e.run \in Reference
    BY DEF Slices
  <2> HIDE DEF X
  <2>2. n \in Nat /\ DOMAIN slice = 1 .. n /\ \A i \in 1 .. n : slice[i] \in X
    BY <2>1
  <2>3. QED
    BY <2>1, <2>2
<1> HIDE DEF n
<1>2. CASE S = {}
  <2>1. NoRun \in Reference
    BY RequestConstants DEF NoRun, Reference
  <2>2. QED
    BY <1>2, <2>1 DEF LastGraph
<1>3. CASE S # {}
  <2> DEFINE T == {n - s : s \in S}
  <2>1. \A s \in S : s \in 1 .. n
    BY <1>1
  <2>2. (\A e \in T : e \in Nat) /\ T # {}
    BY <1>1, <1>3, <2>1
  <2>3. PICK e \in T : \A y \in T : e <= y
    <3> HIDE DEF T
    <3>1. QED
      BY <2>2, LeastNumber
  <2>4. PICK x \in S : e = n - x
    BY <2>3
  <2>5. \A y \in S : x >= y
    <3>1. ASSUME NEW y \in S
          PROVE  x >= y
      <4>1. n - y \in T
        OBVIOUS
      <4>2. n - x <= n - y
        BY <2>3, <2>4, <4>1
      <4>3. QED
        BY <1>1, <2>1, <4>2
    <3>2. QED
      BY <3>1
  <2>6. Max(S) \in S /\ \A y \in S : Max(S) >= y
    BY <2>5 DEF Max
  <2>7. PICK m : m = Max(S)
    OBVIOUS
  <2>8. m \in 1 .. n /\ LastGraph(slice, S) = slice[m].run /\ \A y \in S : y <= m
    BY <1>3, <2>1, <2>6, <2>7 DEF LastGraph
  <2>9. slice[m].run \in Reference
    BY <1>1, <2>8
  <2>10. QED
    BY <1>3, <2>6, <2>7, <2>8, <2>9
<1>4. QED
  BY <1>2, <1>3

\* The slice of a sub_plan is handed to the plan it is in.
LEMMA SlicesJoin ==
    ASSUME NEW s \in Slices, NEW t \in Slices, NEW G,
           \A i \in 1 .. Len(s) : s[i].run \in G, \A i \in 1 .. Len(t) : t[i].run \in G
    PROVE  s \o t \in Slices /\ \A i \in 1 .. Len(s \o t) : (s \o t)[i].run \in G
<1> DEFINE u == s \o t
<1>1. /\ u \in Slices /\ Len(u) = Len(s) + Len(t) /\ Len(s) \in Nat /\ Len(t) \in Nat
      /\ \A i \in 1 .. Len(s) : u[i] = s[i]
      /\ \A i \in Len(s) + 1 .. Len(s) + Len(t) : u[i] = t[i - Len(s)]
  BY DEF Slices
<1> HIDE DEF u
<1>2. ASSUME NEW i \in 1 .. Len(u)
      PROVE  u[i].run \in G
  <2>1. CASE i <= Len(s)
    BY <1>1, <2>1
  <2>2. CASE i > Len(s)
    <3>1. i - Len(s) \in 1 .. Len(t) /\ u[i] = t[i - Len(s)]
      BY <1>1, <2>2
    <3>2. PICK j \in 1 .. Len(t) : u[i] = t[j]
      BY <3>1
    <3>3. QED
      BY <3>2
  <2>3. QED
    BY <1>1, <2>1, <2>2
<1>3. QED
  BY <1>1, <1>2 DEF u

\* The last two entries give way to one.
LEMMA SeqSwap ==
    ASSUME NEW fs, fs \in Seq(Range(fs)), Len(fs) > 1, NEW g
    PROVE  Append(SubSeq(fs, 1, Len(fs) - 2), g)
             = [SubSeq(fs, 1, Len(fs) - 1) EXCEPT ![Len(fs) - 1] = g]
<1> DEFINE n == Len(fs)
           T == Range(fs) \cup {g}
           a == SubSeq(fs, 1, n - 2)
           b == SubSeq(fs, 1, n - 1)
<1>1. n \in Nat /\ n > 1 /\ fs \in Seq(T) /\ g \in T
  OBVIOUS
<1> HIDE DEF T
<1>2. /\ a \in Seq(T) /\ Len(a) = n - 2 /\ \A i \in 1 .. n - 2 : a[i] = fs[i]
      /\ b \in Seq(T) /\ Len(b) = n - 1 /\ \A i \in 1 .. n - 1 : b[i] = fs[i]
  <2>1. \A k \in 0 .. n : /\ SubSeq(fs, 1, k) \in Seq(T) /\ Len(SubSeq(fs, 1, k)) = k
                         /\ \A i \in 1 .. k : SubSeq(fs, 1, k)[i] = fs[i]
    BY <1>1
  <2>2. n - 1 \in 0 .. n /\ n - 2 \in 0 .. n
    BY <1>1
  <2> HIDE DEF n
  <2>3. QED
    BY <2>1, <2>2
<1> HIDE DEF a, b, n
<1> DEFINE c == Append(a, g)
           d == [b EXCEPT ![n - 1] = g]
<1>3. /\ c \in Seq(T) /\ Len(c) = n - 1 /\ c[n - 1] = g /\ \A i \in 1 .. n - 2 : c[i] = a[i]
  <2>1. Len(a) + 1 = n - 1
    BY <1>1, <1>2
  <2>2. c \in Seq(T) /\ Len(c) = Len(a) + 1 /\ c[Len(a) + 1] = g /\ \A i \in 1 .. Len(a) : c[i] = a[i]
    BY <1>1, <1>2
  <2>3. QED
    BY <1>2, <2>1, <2>2
<1>4. /\ d \in Seq(T) /\ Len(d) = n - 1 /\ d[n - 1] = g
      /\ \A i \in 1 .. n - 1 : i # n - 1 => d[i] = b[i]
  BY <1>1, <1>2
<1> HIDE DEF c, d
<1>5. ASSUME NEW i \in 1 .. n - 1
      PROVE  c[i] = d[i]
  <2>1. CASE i = n - 1
    BY <1>3, <1>4, <2>1
  <2>2. CASE i # n - 1
    <3>1. i \in 1 .. n - 2
      BY <1>1, <2>2
    <3>2. QED
      BY <1>2, <1>3, <1>4, <2>2, <3>1
  <2>3. QED
    BY <2>1, <2>2
<1>6. c = d
  BY <1>3, <1>4, <1>5
<1>7. QED
  BY <1>6 DEF c, d, a, b, n

\* The frame of a sub_plan is taken off; the map it was for, g, has one member more.
LEMMA MemberEndedKeeps ==
    ASSUME RequestInv, status = "running", Len(frames) > 1, NEW g,
           frames' = Append(SubSeq(frames, 1, Len(frames) - 2), g),
           FrameOK(g, Stored, Recent), SameBut(frames[Len(frames) - 1], g),
           g.fan.open, g.fan.at = frames[Len(frames) - 1].fan.at + 1,
           Len(frames) = 2 => g.slice = frames[Len(frames) - 1].slice,
           graphs' = graphs, Rest
    PROVE  RequestInv'
<1> DEFINE n == Len(frames)
           m == n - 1
           s == SubSeq(frames, 1, m)
<1>1. PICK p : p = frames[m]
  OBVIOUS
<1>2. PICK f : f = frames[n]
  OBVIOUS
<1>3. PICK a : a = Failed
  OBVIOUS
<1>4. /\ Tower(frames, Stored, Recent, a) /\ n \in Nat /\ n > 1 /\ Top = frames[1]
      /\ frames \in Seq(Range(frames))
  BY <1>3, HereIs DEF RequestInv, Tower
<1>5. m \in 1 .. n /\ n \in 2 .. n /\ m < n /\ n \in 1 .. n /\ m \in Nat /\ m > 0 /\ n = m + 1
  BY <1>4
<1>6. FrameOK(p, Stored, Recent) /\ Extends(f.path, p) /\ Within(p, f, a)
  BY <1>1, <1>2, <1>4, <1>5 DEF Tower
<1>7. p.next <= Len(p.plan) /\ p.fan.open /\ SameBut(p, g)
  BY <1>1, <1>6 DEF Within
<1>8. Tower(s, Stored, Recent, a) /\ Len(s) = m /\ \A d \in 1 .. m : s[d] = frames[d]
  BY <1>4, TowerPop
<1>9. frames' = [s EXCEPT ![m] = g]
  BY <1>4, SeqSwap
<1> HIDE DEF s, m
<1>10. g.path = p.path /\ g.next = p.next /\ g.plan = p.plan /\ g.board = p.board
       /\ g.carriers = p.carriers
  BY <1>7 DEF SameBut
<1>11. p.next \in Nat /\ p.fan.at \in Nat /\ p.path \in Seq(Nat) /\ g.fan.at \in Nat
       /\ g.fan.at = p.fan.at + 1
  <2>1. p.path \in Seq(Nat) /\ p.next \in 1 .. Len(p.plan) + 1 /\ p.plan \in Seq(Milestones)
        /\ p.fan \in Fans(Recent)
    BY <1>6 DEF FrameOK
  <2>2. p.fan.at \in Nat
    BY <2>1 DEF Fans
  <2>3. g.fan.at = p.fan.at + 1
    BY <1>1 DEF m
  <2>4. QED
    BY <2>1, <2>2, <2>3
<1>12. Len(s) > 1 => Within(s[Len(s) - 1], g, a)
  <2> SUFFICES ASSUME m > 1 PROVE Within(s[m - 1], g, a)
    BY <1>8
  <2>1. m - 1 \in 1 .. m /\ m \in 2 .. m /\ m \in 1 .. m
    BY <1>5
  <2>2. Within(s[m - 1], s[m], a)
    BY <1>8, <2>1 DEF Tower
  <2>3. s[m] = p
    BY <1>1, <1>8, <2>1
  <2> DEFINE h == s[m - 1]
  <2> HIDE DEF h
  <2>4. Within(h, p, a)
    BY <2>2, <2>3 DEF h
  <2>5. Within(h, g, a)
    BY <1>6, <1>7, <2>4, FanWithin
  <2>6. QED
    BY <2>5 DEF h
<1>13. s[m] = p
  BY <1>1, <1>5, <1>8
<1>14. Tower(frames', Stored, Recent, a)
  <2>1. g.path = s[Len(s)].path
    BY <1>8, <1>10, <1>13
  <2>2. Tower([s EXCEPT ![Len(s)] = g], Stored, Recent, a)
    BY <1>8, <1>12, <2>1, TowerReplace
  <2>3. QED
    BY <1>8, <1>9, <2>2
<1>15. /\ Len(frames') = m /\ frames'[m] = g /\ \A d \in 1 .. m - 1 : frames'[d] = frames[d]
  <2>1. s \in Seq(Range(s)) /\ Len(s) = m /\ m > 0
    BY <1>5, <1>8 DEF Tower
  <2>2. /\ Len(frames') = m /\ frames'[m] = g /\ \A d \in 1 .. m - 1 : frames'[d] = s[d]
    BY <1>9, <2>1, SeqReplace
  <2>3. \A d \in 1 .. m - 1 : d \in 1 .. m
    BY <1>5
  <2>4. QED
    BY <1>8, <2>2, <2>3
<1>16. /\ Top'.plan = Top.plan /\ Top'.path = Top.path /\ Top'.slice = Top.slice
       /\ Top'.next = Top.next /\ Top'.board = Top.board /\ Top'.carriers = Top.carriers
  <2>1. CASE m = 1
    <3>1. Top = p /\ Top' = g
      BY <1>1, <1>4, <1>15, <2>1 DEF Top
    <3>2. g.slice = p.slice
      BY <1>1, <1>5, <2>1
    <3>3. QED
      BY <1>10, <3>1, <3>2
  <2>2. CASE m # 1
    <3>1. 1 \in 1 .. m - 1
      BY <1>5, <2>2
    <3>2. Top' = Top
      BY <1>4, <1>15, <3>1 DEF Top
    <3>3. QED
      BY <3>2
  <2>3. QED
    BY <2>1, <2>2
<1>17. ASSUME NEW q \in Seq(Nat), NEW d \in 1 .. n, Behind(q, frames[d])
       PROVE  \E e \in 1 .. Len(frames') : Behind(q, frames'[e])
  <2>1. CASE d \in 1 .. m - 1
    <3>1. d \in 1 .. Len(frames') /\ frames'[d] = frames[d]
      BY <1>5, <1>15, <2>1
    <3>2. QED
      BY <1>17, <3>1
  <2>2. m \in 1 .. Len(frames') /\ frames'[m] = g
    BY <1>5, <1>15
  <2>3. CASE d = m
    <3>1. Behind(q, p)
      BY <1>1, <1>17, <2>3
    <3>2. g.fan.at >= p.fan.at
      BY <1>11
    <3>3. Behind(q, g)
      BY <1>10, <1>11, <3>1, <3>2, BehindGoesOn
    <3>4. QED
      BY <2>2, <3>3
  <2>4. CASE d = n
    <3>1. Behind(q, f)
      BY <1>2, <1>17, <2>4
    <3>2. Behind(q, g)
      <4> DEFINE c == Len(p.path)
                 k == c + 1
                 k2 == c + 2
      <4>1. /\ Len(f.path) >= k2 /\ \A i \in 1 .. c : f.path[i] = p.path[i]
            /\ f.path[k] = p.next /\ f.path[k2] = p.fan.at
        BY <1>6 DEF Extends
      <4>2. Len(q) > Len(f.path) /\ \A i \in 1 .. Len(f.path) : q[i] = f.path[i]
        BY <3>1 DEF Behind
      <4>3. c \in Nat /\ Len(q) \in Nat /\ Len(f.path) \in Nat
        <5>1. FrameOK(f, Stored, Recent)
          BY <1>2, <1>4, <1>5 DEF Tower
        <5>2. f.path \in Seq(Nat)
          BY <5>1 DEF FrameOK
        <5>3. QED
          BY <1>11, <5>2
      <4> HIDE DEF c
      <4>4. k \in 1 .. Len(f.path) /\ k2 \in 1 .. Len(f.path) /\ \A i \in 1 .. c : i \in 1 .. Len(f.path)
        BY <4>1, <4>3
      <4>5. Len(q) > c /\ Len(q) > k
        BY <4>1, <4>2, <4>3
      <4> HIDE DEF k, k2
      <4>6. /\ \A i \in 1 .. c : q[i] = p.path[i]
            /\ q[k] = p.next /\ q[k2] = p.fan.at
        BY <4>1, <4>2, <4>4
      <4>7. q[k] = g.next /\ g.fan.open /\ q[k2] < g.fan.at
        BY <1>10, <1>11, <4>6
      <4>8. QED
        BY <1>10, <4>5, <4>6, <4>7 DEF Behind, c, k, k2
    <3>3. QED
      BY <2>2, <3>2
  <2>5. QED
    <3>1. d \in 1 .. m - 1 \/ d = m \/ d = n
      BY <1>5, <1>17
    <3>2. QED
      BY <2>1, <2>3, <2>4, <3>1, Zenon
<1>18. \A q \in Seq(Nat) : (\E d \in 1 .. Len(frames) : Behind(q, frames[d])) =>
                           (\E d \in 1 .. Len(frames') : Behind(q, frames'[d]))
  BY <1>17
<1>19. Tower(frames', Stored, Recent, Failed)
  BY <1>3, <1>14
<1>20. QED
  BY <1>16, <1>18, <1>19, FramesKeep

\* A member that is a plan of its own ends.
LEMMA EndSubPlanKeeps ==
    ASSUME RequestInv, EndSubPlan PROVE RequestInv'
<1>1. PICK f : f = Here
  OBVIOUS
<1>2. PICK p : p = frames[Len(frames) - 1]
  OBVIOUS
<1>3. PICK R : R = Recent
  OBVIOUS
<1>4. PICK a : a = Failed
  OBVIOUS
<1>5. PICK G : G = Stored
  OBVIOUS
<1>6. PICK b : b = f.board
  OBVIOUS
<1> DEFINE n == Len(frames)
           lm == Last(f.plan)
           target == Last(lm.writes)
           ok == f.last = "completed"
           slice == f.slice
           producers == {i \in DOMAIN slice : target \in slice[i].made}
           stops == {i \in DOMAIN slice : slice[i].stopped}
           producer == LastGraph(slice, producers)
           stop == LastGraph(slice, stops)
           outer == IF n = 2 THEN p ELSE [p EXCEPT !.slice = @ \o slice]
           final == IF stop # NoRun \/ slice = <<>> THEN stop ELSE Last(slice).run
<1>7. status = "running" /\ n > 1 /\ f.next > Len(f.plan)
  BY <1>1 DEF EndSubPlan
<1>8. CASE ok # (target \in DOMAIN b)
  <2>1. Uncaught("disagree") /\ graphs' = graphs
    BY <1>1, <1>2, <1>6, <1>8 DEF EndSubPlan, Board
  <2>2. QED
    BY <1>7, <2>1, UncaughtKeeps
<1>9. CASE ok = (target \in DOMAIN b)
  <2>1. /\ frames' = Append(SubSeq(frames, 1, n - 2),
               IF ok THEN MemberEnds(outer, b[target].by, b[target].said, producer, TRUE, b[target].short)
               ELSE MemberEnds(outer, <<>>, Nothing, final, FALSE, FALSE))
        /\ graphs' = graphs /\ Rest
    BY <1>1, <1>2, <1>6, <1>9 DEF EndSubPlan, Board
  <2>2. /\ n \in Nat /\ FrameOK(f, G, R) /\ Within(p, f, a)
    BY <1>1, <1>2, <1>3, <1>4, <1>5, <1>7, HereIs
  <2>3. FrameOK(p, G, R)
    <3>1. n - 1 \in 1 .. n
      BY <1>7, <2>2
    <3>2. QED
      BY <1>2, <1>3, <1>5, <3>1 DEF RequestInv, Tower
  <2>4. /\ p.next <= Len(p.plan) /\ p.fan.open /\ p.fan.at <= p.fan.size
        /\ p.plan[p.next].sub # <<>> /\ f.plan = p.plan[p.next].sub
        /\ InnerOK(f, GivenBy(p), a)
    BY <2>2 DEF Within
  <2>5. PICK pm : pm = p.plan[p.next]
    OBVIOUS
  <2>6. pm \in Milestones /\ p.slice \in Slices /\ (\A i \in 1 .. Len(p.slice) : p.slice[i].run \in G)
        /\ IsFrame(p)
    <3>1. p.plan \in Seq(Milestones) /\ p.next \in 1 .. Len(p.plan) + 1 /\ p.slice \in Slices
          /\ (\A i \in 1 .. Len(p.slice) : p.slice[i].run \in G) /\ IsFrame(p)
      BY <2>3 DEF FrameOK
    <3>2. QED
      BY <2>4, <2>5, <3>1
  <2>7. /\ slice \in Slices /\ (\A i \in 1 .. Len(slice) : slice[i].run \in G)
        /\ BoardOK(b, R) /\ f.plan \in Seq(Milestones)
    BY <1>6, <2>2 DEF FrameOK
  <2>8. DOMAIN slice = 1 .. Len(slice) /\ Len(slice) \in Nat
    BY <2>7 DEF Slices
  <2>9. lm \in Milestones /\ lm = f.plan[Len(f.plan)] /\ Len(f.plan) \in DOMAIN f.plan
        /\ lm.kind # "notional" /\ Layered(f.plan, GivenBy(p))
    <3>1. f.plan # <<>> /\ Last(f.plan).kind # "notional" /\ Layered(f.plan, GivenBy(p))
      BY <2>4, <2>5, <2>6, WritesAre DEF GivenBy
    <3>2. QED
      BY <2>7, <3>1 DEF Last
  <2>10. target \in Range(lm.writes) /\ target \notin GivenBy(p)
    <3>1. target \in Range(lm.writes)
      BY <2>9, WritesAre
    <3>2. Range(lm.writes) \cap GivenBy(p) = {}
      BY <2>9 DEF Layered
    <3>3. QED
      BY <3>1, <3>2
  <2>11. PICK st : st = stop
    OBVIOUS
  <2>12. PICK pr : pr = producer
    OBVIOUS
  <2> HIDE DEF lm
  <2>13. st \in Reference /\ st \in G \cup {NoRun}
    <3>1. stops \subseteq DOMAIN slice
      OBVIOUS
    <3>2. PICK S : S = stops
      OBVIOUS
    <3>3. S \subseteq DOMAIN slice /\ st = LastGraph(slice, S)
      BY <2>11, <3>1, <3>2
    <3>4. QED
      BY <2>7, <2>8, <3>3, LastGraphIs
  <2>14. pr \in Reference /\ pr \in G \cup {NoRun}
         /\ (Len(slice) \in producers => pr = slice[Len(slice)].run)
    <3>1. PICK S : S = producers
      OBVIOUS
    <3>2. S \subseteq DOMAIN slice /\ pr = LastGraph(slice, S)
      BY <2>12, <3>1
    <3>3. Len(slice) \in S => pr = slice[Len(slice)].run
      <4>1. SUFFICES ASSUME Len(slice) \in S PROVE pr = slice[Len(slice)].run
        OBVIOUS
      <4>2. PICK x \in S : pr = slice[x].run /\ \A y \in S : y <= x
        BY <2>7, <3>2, <4>1, LastGraphIs
      <4>3. x = Len(slice)
        BY <2>8, <3>2, <4>1, <4>2
      <4>4. QED
        BY <4>2, <4>3
    <3>4. QED
      BY <2>7, <2>8, <3>1, <3>2, <3>3, LastGraphIs
  <2>15. PICK fin : fin = final
    OBVIOUS
  <2>16. fin \in Reference /\ fin \in G \cup {NoRun}
    <3>1. CASE st # NoRun \/ slice = <<>>
      BY <2>11, <2>13, <2>15, <3>1
    <3>2. CASE ~(st # NoRun \/ slice = <<>>)
      <4>1. fin = slice[Len(slice)].run
        BY <2>11, <2>15, <3>2 DEF Last
      <4>2. Len(slice) \in 1 .. Len(slice)
        BY <2>7, <2>8, <3>2 DEF Slices
      <4>3. slice[Len(slice)].run \in Reference
        <5> DEFINE X == [run : Reference, made : SUBSET DataState, stopped : BOOLEAN]
        <5>1. slice \in Seq(X) /\ \A e \in X : e.run \in Reference
          BY <2>7 DEF Slices
        <5> HIDE DEF X
        <5>2. QED
          BY <4>2, <5>1
      <4>4. QED
        BY <2>7, <4>1, <4>2, <4>3
    <3>3. QED
      BY <3>1, <3>2
  <2>17. PICK h : h = outer
    OBVIOUS
  <2>18. MemberStarts(p, h, G, R) /\ (n = 2 => h = p)
    <3>1. CASE n = 2
      <4>1. h = p
        BY <2>17, <3>1
      <4>2. SameBut(p, p)
        BY <2>6 DEF SameBut
      <4>3. QED
        BY <2>6, <4>1, <4>2 DEF MemberStarts
    <3>2. CASE n # 2
      <4> DEFINE x == p.slice \o slice
      <4>1. h = [p EXCEPT !.slice = x]
        BY <2>17, <3>2
      <4>2. x \in Slices /\ \A i \in 1 .. Len(x) : x[i].run \in G
        BY <2>6, <2>7, SlicesJoin
      <4> HIDE DEF x
      <4>3. SameBut(p, h) /\ h.fan = p.fan /\ h.slice = x
        BY <2>6, <4>1, SliceSet
      <4>4. QED
        BY <3>2, <4>2, <4>3 DEF MemberStarts
    <3>3. QED
      BY <3>1, <3>2
  <2> HIDE DEF outer, producer, stop, final
  <2>19. ASSUME NEW by, NEW said, NEW id, NEW completed \in BOOLEAN, NEW short \in BOOLEAN,
                MemberMade(pm, by, said, id, completed, short, G, R),
                frames' = Append(SubSeq(frames, 1, n - 2), MemberEnds(h, by, said, id, completed, short))
         PROVE  RequestInv'
    <3>1. PICK g : g = MemberEnds(h, by, said, id, completed, short)
      OBVIOUS
    <3>2. FrameOK(g, G, R) /\ SameBut(p, g) /\ g.fan.at = p.fan.at + 1 /\ g.fan.open
      BY <2>3, <2>4, <2>5, <2>18, <2>19, <3>1, MemberEndsFrame
    <3>3. n = 2 => g.slice = p.slice
      <4>1. n = 2 => h = p
        BY <2>18
      <4>2. IsFrame(h)
        BY <2>18 DEF MemberStarts, SameBut
      <4>3. g.slice = h.slice
        BY <3>1, <4>2, FanSet DEF MemberEnds
      <4>4. QED
        BY <4>1, <4>3
    <3>4. frames' = Append(SubSeq(frames, 1, Len(frames) - 2), g)
      BY <2>19, <3>1
    <3>5. QED
      BY <1>2, <1>3, <1>5, <1>7, <2>1, <3>2, <3>3, <3>4, MemberEndedKeeps
  <2>20. CASE ok
    <3>1. target \in DOMAIN b
      BY <1>9, <2>20
    <3>2. PICK v : v = b[target]
      OBVIOUS
    <3>3. v.by \in Seq(R) /\ v.said \in Said(R) /\ v.short \in BOOLEAN
      <4>1. v \in Values(R)
        BY <2>7, <3>1, <3>2 DEF BoardOK
      <4>2. QED
        BY <4>1 DEF Values
    <3>4. IsTrue(v)
      BY <1>6, <2>4, <2>10, <3>1, <3>2 DEF InnerOK
    <3>5. v.said.kind = "produced" => v.said.by = v.by
      BY <3>4 DEF IsTrue
    <3>6. OneRun(pm) => v.by = <<pr>>
      <4>1. SUFFICES ASSUME OneRun(pm) PROVE v.by = <<pr>>
        OBVIOUS
      <4>2. Last(f.plan).kind # "map"
        BY <2>4, <2>5, <4>1, Zenon DEF OneRun
      <4>3. Len(slice) > 0 /\ target \in slice[Len(slice)].made /\ b[target].by = <<slice[Len(slice)].run>>
        BY <1>6, <1>7, <2>4, <2>20, <4>2, Zenon DEF InnerOK, Terminal, lm
      <4>4. Len(slice) \in producers
        BY <2>8, <4>3
      <4>5. QED
        BY <2>14, <3>2, <4>3, <4>4
    <3>7. PICK completed \in BOOLEAN : completed = TRUE
      OBVIOUS
    <3>8. v.short => pm.sub # <<>>
      BY <2>4, <2>5
    <3>9. MemberMade(pm, v.by, v.said, pr, completed, v.short, G, R)
      BY <2>14, <3>3, <3>5, <3>6, <3>8 DEF MemberMade
    <3>10. frames' = Append(SubSeq(frames, 1, n - 2), MemberEnds(h, v.by, v.said, pr, completed, v.short))
      BY <2>1, <2>12, <2>17, <2>20, <3>2, <3>7
    <3>11. QED
      BY <2>19, <3>3, <3>9, <3>10
  <2>21. CASE ~ok
    <3>1. PICK no \in BOOLEAN : no = FALSE
      OBVIOUS
    <3>2. <<>> \in Seq(R)
      OBVIOUS
    <3>3. MemberMade(pm, <<>>, Nothing, fin, no, no, G, R)
      BY <2>16, <3>1, <3>2 DEF MemberMade
    <3>4. frames' = Append(SubSeq(frames, 1, n - 2), MemberEnds(h, <<>>, Nothing, fin, no, no))
      BY <2>1, <2>15, <2>17, <2>21, <3>1
    <3>5. QED
      BY <2>19, <3>3, <3>4
  <2>22. QED
    BY <2>20, <2>21
<1>10. QED
  BY <1>8, <1>9

-----------------------------------------------------------------------------
\* Every step keeps the invariant.
LEMMA RequestInvNext == RequestInv /\ [RequestNext]_requestVars => RequestInv'
<1> SUFFICES ASSUME RequestInv, [RequestNext]_requestVars PROVE RequestInv'
  OBVIOUS
<1>1. CASE UNCHANGED requestVars
  BY <1>1, OverKeeps
<1>2. CASE Notional
  BY <1>2, NotionalKeeps
<1>3. CASE Withdrawn
  BY <1>3, WithdrawnKeeps
<1>4. CASE LeafNoRoute
  BY <1>4, LeafNoRouteKeeps
<1>5. ASSUME NEW done \in 0 .. 2, NEW n \in 0 .. MaxSize, Leaf(done, n) PROVE RequestInv'
  BY <1>5, LeafKeeps
<1>6. CASE MapRaises
  BY <1>6, MapRaisesKeeps
<1>7. CASE StartMap
  BY <1>7, StartMapKeeps
<1>8. CASE FinishMap
  BY <1>8, FinishMapKeeps
<1>9. CASE FinishTargeted
  BY <1>9, FinishTargetedKeeps
<1>10. CASE MemberNoRoute
  BY <1>10, MemberNoRouteKeeps
<1>11. CASE MemberSucceeds
  BY <1>11, MemberSucceedsKeeps
<1>12. CASE MemberRetries
  BY <1>12, MemberRetriesKeeps
<1>13. CASE MemberStops
  BY <1>13, MemberStopsKeeps
<1>14. ASSUME NEW n \in 0 .. MaxSize, StartSubPlan(n) PROVE RequestInv'
  BY <1>14, StartSubPlanKeeps
<1>15. CASE EndSubPlan
  BY <1>15, EndSubPlanKeeps
<1>16. CASE FoldStops
  BY <1>16, FoldStopsKeeps
<1>17. CASE FoldWithdrawn
  BY <1>17, FoldWithdrawnKeeps
<1>18. ASSUME NEW ok \in BOOLEAN, Fold(ok) PROVE RequestInv'
  BY <1>18, FoldKeeps
<1>19. CASE Abort
  BY <1>19, AbortKeeps
<1>20. ASSUME NEW sufficient \in BOOLEAN, Conclude(sufficient) PROVE RequestInv'
  BY <1>20, ConcludeKeeps
<1>21. CASE ReplanWhole
  BY <1>21, ReplanWholeKeeps
<1>22. ASSUME NEW i \in DOMAIN plan, NEW j \in 1 .. MaxSize + 1, ReplanMember(i, j) PROVE RequestInv'
  BY <1>22, ReplanMemberKeeps
<1>23. CASE Over
  BY <1>23, OverKeeps DEF Over
<1>24. QED
  BY <1>1, <1>2, <1>3, <1>4, <1>5, <1>6, <1>7, <1>8, <1>9, <1>10, <1>11, <1>12, <1>13,
     <1>14, <1>15, <1>16, <1>17, <1>18, <1>19, <1>20, <1>21, <1>22, <1>23 DEF RequestNext

\* The inductive invariant of a request under execution: frames, graphs, record
\* and status fit together after every step (Orchestrator.run_lifecycle).
THEOREM RequestInvariant == RequestSpec => []RequestInv
<1>1. RequestInit => RequestInv
  BY RequestInvInit
<1>2. RequestInv /\ [RequestNext]_requestVars => RequestInv'
  BY RequestInvNext
<1>3. QED
  BY <1>1, <1>2, PTL DEF RequestSpec

-----------------------------------------------------------------------------
\* What the invariant says of every frame.
LEMMA FramesAre ==
    ASSUME RequestInv
    PROVE  /\ Len(frames) \in Nat /\ Len(frames) > 0 /\ DOMAIN frames = 1 .. Len(frames)
           /\ \A f \in Range(frames) : \E d \in 1 .. Len(frames) : f = frames[d]
           /\ \A d \in 1 .. Len(frames) : FrameOK(frames[d], Stored, Recent)
           /\ \A d \in 1 .. Len(frames) : d # 1 => Within(frames[d - 1], frames[d], Failed)
           /\ Top = frames[1] /\ Top.plan = plan /\ plan \in Seq(Milestones)
           /\ Top.next \in 1 .. Len(plan) + 1 /\ Len(plan) \in Nat
<1>1. Tower(frames, Stored, Recent, Failed) /\ TopOK
  BY DEF RequestInv
<1>2. Len(frames) \in Nat /\ Len(frames) > 0 /\ DOMAIN frames = 1 .. Len(frames) /\ Top = frames[1]
      /\ FrameOK(Top, Stored, Recent) /\ plan \in Seq(Milestones) /\ Len(plan) \in Nat
  BY HereIs
<1>3. \A f \in Range(frames) : \E d \in 1 .. Len(frames) : f = frames[d]
  BY <1>2 DEF Range
<1>4. \A d \in 1 .. Len(frames) : FrameOK(frames[d], Stored, Recent)
  BY <1>1 DEF Tower
<1>5. \A d \in 2 .. Len(frames) : Within(frames[d - 1], frames[d], Failed)
  BY <1>1 DEF Tower
<1>6. \A d \in 1 .. Len(frames) : d # 1 => d \in 2 .. Len(frames)
  BY <1>2
<1>7. Top.plan = plan
  BY <1>1 DEF TopOK
<1>8. Top.next \in 1 .. Len(plan) + 1
  BY <1>2, <1>7 DEF FrameOK
<1>9. QED
  BY <1>2, <1>3, <1>4, <1>5, <1>6, <1>7, <1>8

\* The invariant has the types of the variables.
LEMMA TypeFollows ==
    ASSUME RequestInv PROVE RequestTypeOK
<1>1. ASSUME NEW f \in Range(frames)
      PROVE  /\ f.next \in 1 .. Len(f.plan) + 1 /\ f.only \in 0 .. MaxSize + 1
             /\ DOMAIN f.board \subseteq DataState
             /\ DOMAIN f.carriers \subseteq DOMAIN f.board
             /\ f.fan.retry < RetryCap /\ f.fan.at <= f.fan.size + 1
  <2>1. FrameOK(f, Stored, Recent)
    BY FramesAre
  <2>2. /\ f.next \in 1 .. Len(f.plan) + 1 /\ f.only \in 0 .. MaxSize + 1
        /\ BoardOK(f.board, Recent) /\ CarriersOK(f, Stored, Recent) /\ FanOK(f, Stored, Recent)
    BY <2>1 DEF FrameOK
  <2>3. f.fan.retry < RetryCap /\ f.fan.at <= f.fan.size + 1
    <3>1. CASE f.fan.open
      BY <2>2, <3>1 DEF FanOK
    <3>2. CASE ~f.fan.open
      <4>1. f.fan = NoFan
        BY <2>2, <3>2 DEF FanOK
      <4>2. f.fan.retry = 0 /\ f.fan.at = 0 /\ f.fan.size = 0
        BY <4>1 DEF NoFan
      <4>3. QED
        BY <4>2, RequestConstants
    <3>3. QED
      BY <3>1, <3>2
  <2>4. DOMAIN f.board \subseteq DataState /\ DOMAIN f.carriers \subseteq DOMAIN f.board
    BY <2>2 DEF BoardOK, CarriersOK
  <2>5. QED
    BY <2>2, <2>3, <2>4
<1>2. frames # <<>> /\ frames[1].plan = plan
  <2>1. Len(frames) > 0 /\ frames[1].plan = plan
    BY FramesAre
  <2>2. Len(<<>>) = 0
    OBVIOUS
  <2>3. QED
    BY <2>1, <2>2
<1>3. Range(graphs) \subseteq Reference
  <2>1. graphs \in Seq(Reference)
    BY DEF RequestInv, GraphsOK
  <2>2. QED
    BY <2>1 DEF Range
<1>4. lost \subseteq DOMAIN plan
  <2>1. lost \subseteq 1 .. Top.next - 1 /\ Top.next \in 1 .. Len(plan) + 1 /\ plan \in Seq(Milestones)
    BY FramesAre DEF RequestInv, RecordOK
  <2>2. 1 .. Top.next - 1 \subseteq 1 .. Len(plan) /\ DOMAIN plan = 1 .. Len(plan)
    BY <2>1
  <2>3. QED
    BY <2>1, <2>2
<1>5. QED
  BY <1>1, <1>2, <1>3, <1>4 DEF RequestTypeOK, RequestInv, StatusOK

\* The carriers of the collections agree.
LEMMA CarriersFollow ==
    ASSUME RequestInv PROVE CarriersAgree
<1>1. why # "carriers" /\ IsInjective(graphs)
  BY DEF RequestInv, StatusOK, GraphsOK
<1>2. ASSUME NEW f \in Range(frames), NEW ds \in DOMAIN f.carriers
      PROVE  LET c == f.carriers[ds]
                 items == f.board[ds].items
                 place(i) == Completed(SubSeq(c.mask, 1, i))
             IN /\ Len(c.ids) = Len(c.mask) /\ Len(c.origins) = Len(c.mask)
                /\ Len(items) = Completed(c.mask)
                /\ \A i \in DOMAIN c.mask :
                     /\ c.mask[i] <=> c.origins[i] # Nothing
                     /\ c.ids[i] \in Range(graphs) \cup {NoRun}
                     /\ c.mask[i] /\ (\A m \in MapsTo(f, ds) :
                           m.sub = <<>> \/ Last(m.sub).kind # "map") =>
                          items[place(i)] = <<c.ids[i]>>
  <2>1. PICK c : c = f.carriers[ds]
    OBVIOUS
  <2>2. PICK items : items = f.board[ds].items
    OBVIOUS
  <2>3. /\ Len(c.ids) = Len(c.mask) /\ Len(c.origins) = Len(c.mask)
        /\ Len(items) = Completed(c.mask)
        /\ \A i \in DOMAIN c.mask :
             /\ c.mask[i] <=> c.origins[i] # Nothing
             /\ c.ids[i] \in Range(graphs) \cup {NoRun}
             /\ c.mask[i] /\ (\A m \in MapsTo(f, ds) : OneRun(m)) =>
                  items[Completed(SubSeq(c.mask, 1, i))] = <<c.ids[i]>>
    <3> DEFINE one == \A m \in MapsTo(f, ds) : OneRun(m)
    <3>1. FrameOK(f, Stored, Recent)
      BY FramesAre
    <3>2. CarriersOK(f, Stored, Recent)
      BY <3>1 DEF FrameOK
    <3>3. InStep(items, c.ids, c.mask, c.origins, one, Stored, Recent)
      BY <2>1, <2>2, <3>2 DEF CarriersOK
    <3> HIDE DEF one
    <3>4. c.mask \in Seq(BOOLEAN) /\ DOMAIN c.mask = 1 .. Len(c.mask) /\ Len(c.mask) \in Nat
      BY <3>3 DEF InStep
    <3>5. Completed(c.mask) = Count(c.mask, Len(c.mask))
      BY <3>4, CompletedIs
    <3>6. ASSUME NEW i \in DOMAIN c.mask
          PROVE  Completed(SubSeq(c.mask, 1, i)) = Count(c.mask, i)
      <4>1. i \in 0 .. Len(c.mask)
        BY <3>4
      <4>2. QED
        BY <3>4, <4>1, MemberPlaceIs
    <3>7. QED
      BY <3>3, <3>4, <3>5, <3>6 DEF InStep, Stored, one
  <2>4. QED
    BY <2>1, <2>2, <2>3 DEF OneRun
<1>3. QED
  BY <1>1, <1>2 DEF CarriersAgree

\* What is said of where values come from is true.
LEMMA OriginsFollow ==
    ASSUME RequestInv PROVE OriginsAreTrue
<1>1. ASSUME NEW d \in DOMAIN frames, NEW ds \in DOMAIN frames[d].board,
             NEW v, v = frames[d].board[ds]
      PROVE  \/ IsTrue(v)
             \/ d > 1 /\ ds \in Given(d) /\ (IsPartOfTruth(v) \/ \E k \in DOMAIN plan : LeafFailed(k))
             \/ d = 1 /\ \E k \in DOMAIN plan : /\ ds \in Range(plan[k].writes)
                                                /\ LeafFailed(k) \/ ToRunAgain(k)
  <2>1. CASE d = 1
    BY <1>1, <2>1, FramesAre DEF RequestInv, TopOK
  <2>2. CASE d # 1
    <3>1. Within(frames[d - 1], frames[d], Failed) /\ d > 1
      BY <2>2, FramesAre
    <3>2. IsTrue(v) \/ (ds \in GivenBy(frames[d - 1]) /\ (IsPartOfTruth(v) \/ Failed))
      BY <1>1, <3>1 DEF Within, InnerOK
    <3>3. GivenBy(frames[d - 1]) = Given(d)
      BY <2>2 DEF GivenBy, Given
    <3>4. QED
      BY <3>1, <3>2, <3>3 DEF Failed
  <2>3. QED
    BY <2>1, <2>2
<1>2. QED
  BY <1>1 DEF OriginsAreTrue

\* For any plans, sizes, caps and budgets the values a map has written, its masks,
\* graphs and origins are in step, no two runs share a graph, and origins are true
\* (_run_map_milestone, _splice_member, _collection_origin in execution.py).
THEOREM CarriersAlwaysSound == RequestSpec => []CarriersAreSound
<1>1. RequestInv => CarriersAreSound
  BY TypeFollows, CarriersFollow, OriginsFollow DEF CarriersAreSound
<1>2. QED
  BY <1>1, RequestInvariant, PTL

\* A fold has always concluded from the values of every member, as they are now
\* (_run_fold_milestone in execution.py).
THEOREM ConclusionsAlwaysWhole == RequestSpec => []ConclusionsAreWhole
<1>1. RequestInv => ConclusionsAreWhole
  <2> SUFFICES ASSUME RequestInv PROVE ConclusionsAreWhole
    OBVIOUS
  <2>1. ASSUME NEW f \in Range(frames), NEW k \in DOMAIN f.plan,
               NEW m, m = f.plan[k], NEW v, v = f.board[Last(m.writes)],
               k < f.next, m.kind = "fold", Last(m.writes) \in DOMAIN f.board,
               f = Top => Ended(k) = "completed"
        PROVE  /\ v.from = f.board[m.reads].by
               /\ m.reads \in DOMAIN f.carriers =>
                    /\ AllOf(f.carriers[m.reads].mask)
                    /\ v.short => \E map \in MapsTo(f, m.reads) :
                                    map.sub # <<>> \/ f.board[map.reads].short
    <3>1. PICK d \in 1 .. Len(frames) : f = frames[d]
      BY FramesAre
    <3>2. \E S : FoldsOK(f, S) /\ k \in S
      <4>1. CASE d = 1
        <5>1. f = Top /\ f.plan = plan
          BY <3>1, <4>1, FramesAre
        <5>2. FoldsOK(f, {i \in DOMAIN plan : Ended(i) = "completed"})
          BY <5>1 DEF RequestInv, TopOK
        <5>3. QED
          BY <2>1, <5>1, <5>2
      <4>2. CASE d # 1
        <5>1. Within(frames[d - 1], f, Failed)
          BY <3>1, <4>2, FramesAre
        <5>2. FoldsOK(f, DOMAIN f.plan)
          BY <5>1 DEF Within, InnerOK
        <5>3. QED
          BY <5>2
      <4>3. QED
        BY <4>1, <4>2
    <3>3. /\ v.from = f.board[m.reads].by
          /\ m.reads \in DOMAIN f.carriers =>
               /\ AllOf(f.carriers[m.reads].mask)
               /\ v.short => \E map \in MapsTo(f, m.reads) :
                               map.sub # <<>> \/ ShortIn(f.board, map.reads)
      BY <2>1, <3>2 DEF FoldsOK
    <3>4. QED
      BY <3>3 DEF ShortIn
  <2>2. QED
    BY <2>1 DEF ConclusionsAreWhole
<1>2. QED
  BY <1>1, RequestInvariant, PTL

\* What completed has always been run on what was made last, after any number of
\* replans, and a new blackboard has nothing of an earlier attempt (replan_check.py).
THEOREM ChainAlwaysCurrent == RequestSpec => []ChainIsCurrent
<1>1. RequestInv => ChainIsCurrent
  <2> SUFFICES ASSUME RequestInv PROVE ChainIsCurrent
    OBVIOUS
  <2>1. ASSUME NEW k \in DOMAIN plan, NEW j \in DOMAIN plan,
               Ended(k) = "completed", plan[k].kind # "notional",
               plan[j].kind # "notional", Out(j) = plan[k].reads,
               \/ Ended(j) = "completed"
               \/ Ended(j) = "stopped" /\ plan[j].kind = "map"
        PROVE  Top.board[Out(k)].from = Top.board[Out(j)].by
    BY <2>1 DEF RequestInv, LastOK, HasMade
  <2>2. ASSUME NEW ds \in DOMAIN Top.board, NEW run \in Range(Top.board[ds].by)
        PROVE  run.attempt >= since
    <3>1. FrameOK(Top, Stored, Recent)
      BY HereIs
    <3>2. BoardOK(Top.board, Recent)
      BY <3>1 DEF FrameOK
    <3>3. Top.board[ds] \in Values(Recent)
      BY <3>2 DEF BoardOK
    <3>4. Top.board[ds].by \in Seq(Recent)
      BY <3>3 DEF Values
    <3>5. run \in Recent
      BY <3>4 DEF Range
    <3>6. QED
      BY <3>5 DEF Recent
  <2>3. QED
    BY <2>1, <2>2 DEF ChainIsCurrent
<1>2. QED
  BY <1>1, RequestInvariant, PTL

\* The record always has the last run of each milestone but for those a targeted
\* replan is known to lose, and the outcome is earned (terminal_attempt_stopped_short).
THEOREM RecordAlwaysSound == RequestSpec => []RecordIsSound
<1>1. RequestInv => RecordIsSound
  <2> SUFFICES ASSUME RequestInv PROVE RecordIsSound
    OBVIOUS
  <2>1. /\ record \in Seq(Runs) /\ DOMAIN record = 1 .. Len(record)
        /\ \A q \in 1 .. Len(record) : Len(record[q].path) > 0
        /\ \A q \in 1 .. Len(record) : Len(record[q].path) = 1 =>
             LET k == record[q].path[1]
             IN /\ k \in 1 .. Top.next - 1
                /\ last[k] = [attempt |-> record[q].attempt, status |-> record[q].status]
        /\ \A k \in 1 .. Top.next - 1 :
             \/ \E q \in 1 .. Len(record) : record[q].path = <<k>>
             \/ k \in lost /\ \E m \in 1 .. k : SubMap(m)
    <3>1. record \in Seq(Runs)
      BY DEF RequestInv, RecordOK
    <3>2. DOMAIN record = 1 .. Len(record)
      BY <3>1
    <3>3. QED
      BY <3>1, <3>2 DEF RequestInv, RecordOK
  <2>2. \A r \in Range(record) : \E q \in 1 .. Len(record) : r = record[q]
    BY <2>1 DEF Range
  <2>3. \A q \in 1 .. Len(record) : record[q] \in Range(record)
    BY <2>1 DEF Range
  <2>4. /\ Top.next \in 1 .. Len(plan) + 1 /\ Len(plan) \in Nat /\ DOMAIN plan = 1 .. Len(plan)
    BY FramesAre
  <2>5. RecordTells
    <3>1. \A r \in Range(record) : Len(r.path) = 1 =>
            last[r.path[1]] = [attempt |-> r.attempt, status |-> r.status]
      BY <2>1, <2>2
    <3>2. \A k \in 1 .. Top.next - 1 :
            \/ \E r \in Range(record) : r.path = <<k>>
            \/ k \in lost /\ \E m \in 1 .. k : plan[m].kind = "map" /\ plan[m].sub # <<>>
      BY <2>1, <2>3 DEF SubMap
    <3>3. QED
      BY <3>1, <3>2 DEF RecordTells
  <2>6. StatusOK /\ LastOK
    BY DEF RequestInv
  <2>7. ASSUME status = "conceded", why # "abort"
        PROVE  \/ \E k \in DOMAIN plan : Ended(k) = "stopped"
               \/ \E r \in Range(record) : Len(r.path) > 1 /\ r.status = "stopped"
    <3>1. PICK q \in 1 .. Len(record) : record[q].status = "stopped"
      BY <2>1, <2>6, <2>7 DEF StatusOK, StoppedShort
    <3>2. CASE Len(record[q].path) = 1
      <4>1. PICK k : k = record[q].path[1]
        OBVIOUS
      <4>a. /\ k \in 1 .. Top.next - 1
            /\ last[k] = [attempt |-> record[q].attempt, status |-> record[q].status]
        BY <2>1, <3>2, <4>1
      <4>2. k \in 1 .. Top.next - 1 /\ last[k].status = "stopped"
        BY <3>1, <4>a
      <4>3. k \in DOMAIN plan
        BY <2>4, <4>2
      <4>4. QED
        BY <4>2, <4>3 DEF Ended
    <3>3. CASE Len(record[q].path) > 1
      BY <2>3, <3>1, <3>3
    <3>4. Len(record[q].path) \in Nat /\ Len(record[q].path) > 0
      <4>1. record[q] \in Runs
        BY <2>1
      <4>2. record[q].path \in Seq(Nat)
        BY <4>1 DEF Runs
      <4>3. QED
        BY <2>1, <4>2
    <3>5. Len(record[q].path) = 1 \/ Len(record[q].path) > 1
      <4>1. PICK l : l = Len(record[q].path)
        OBVIOUS
      <4>2. l \in Nat /\ l > 0
        BY <3>4, <4>1
      <4>3. l = 1 \/ l > 1
        BY <4>2
      <4>4. QED
        BY <4>1, <4>3
    <3>6. QED
      BY <3>2, <3>3, <3>5
  <2>8. ASSUME status = "dont_know", NEW k \in DOMAIN plan, Ended(k) = "stopped"
        PROVE  (\E r \in Range(record) : r.status = "failed") \/ lost # {}
    <3>1. k \in 1 .. Top.next - 1
      <4>1. ~(k >= Top.next)
        <5>1. k >= Top.next => Ended(k) = Nowhere
          BY <2>6 DEF LastOK, Ended, None
        <5>2. QED
          BY <2>8, <5>1 DEF Nowhere
      <4>2. QED
        BY <2>4, <4>1
    <3>2. CASE \E q \in 1 .. Len(record) : record[q].path = <<k>>
      <4>1. PICK q \in 1 .. Len(record) : record[q].path = <<k>>
        BY <3>2
      <4>2. Len(record[q].path) = 1 /\ record[q].path[1] = k
        BY <4>1
      <4>3. last[k] = [attempt |-> record[q].attempt, status |-> record[q].status]
        BY <2>1, <4>2
      <4>4. record[q].status = "stopped"
        BY <2>8, <4>3 DEF Ended
      <4>5. \E i \in 1 .. Len(record) : record[i].status = "failed"
        BY <2>1, <2>6, <2>8, <4>4 DEF StatusOK, StoppedShort
      <4>6. QED
        BY <2>3, <4>5
    <3>3. CASE k \in lost
      BY <3>3
    <3>4. QED
      BY <2>1, <3>1, <3>2, <3>3
  <2>9. OutcomeIsEarned
    BY <2>7, <2>8 DEF OutcomeIsEarned
  <2>10. QED
    BY <2>5, <2>9 DEF RecordIsSound
<1>2. QED
  BY <1>1, RequestInvariant, PTL
=============================================================================

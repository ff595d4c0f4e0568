-------------------------- MODULE RequestExecution --------------------------
(***************************************************************************)
(* The execution of one request: the milestones of its plan are run in     *)
(* order over a blackboard, judged, and run again within a budget          *)
(* (Orchestrator.run_lifecycle in mindsos_intelligence/orchestrator.py,    *)
(* execution.py, pipeline_execution.py, replan_check.py).                  *)
(*                                                                         *)
(* A leaf is a pipeline of capacities.  A map runs a pipeline, or a plan   *)
(* of its own, for each member of a collection and keeps going when a      *)
(* member stops; a fold reduces what the members have made.  A capacity    *)
(* may succeed, fail or ask for input, and no route may lead to a target:  *)
(* the environment decides, at every dispatch.                             *)
(*                                                                         *)
(* What a value says is left out; what is kept of it is where it is from.  *)
(***************************************************************************)
EXTENDS Naturals, Sequences, FiniteSets, SequencesExt

CONSTANTS DataState,
          Milestones, \* those of the plans and of their sub_plans
          Plans,      \* sequences of milestones
          Seed,       \* the data state the request starts with
          MaxSize,    \* how many members a collection has
          RetryCap,   \* MEMBER_RETRY_CAP
          Budget      \* DEFAULT_PER_REQUEST_REPLAN_BUDGET

ASSUME RequestConstants ==
  /\ Seed \in DataState /\ MaxSize \in Nat /\ Budget \in Nat
  /\ RetryCap \in Nat \ {0}

(* A milestone: its kind; the data state it reads (of a map: the           *)
(* collection); those its steps write, one after the other; whether the    *)
(* last is a collection (of a leaf); and, of a map, the data states shared *)
(* with the members, the one a member is in, and the sub_plan, or <<>>.    *)
(* The last of a sub_plan writes its sub_target.                           *)
Needs(milestone) == {milestone.reads} \cup milestone.shared

(* The order of a planner that the executor depends on                     *)
(* (_build_from_milestones): nothing is written at or after what needs it, *)
(* and what is given, or written once, is not written again.               *)
Layered(milestones, given) ==
  \A k, j \in DOMAIN milestones :
    /\ Range(milestones[k].writes) \cap given = {}
    /\ j # k => Range(milestones[k].writes) \cap Range(milestones[j].writes) = {}
    /\ j <= k => Range(milestones[k].writes) \cap Needs(milestones[j]) = {}

(* PlanResult.milestone_specs: a map and a fold have one out_ds.           *)
IsMilestone(m) ==
  /\ m.kind \in {"leaf", "map", "fold", "notional"}
  /\ m.writes \in Seq(DataState) /\ m.shared \subseteq DataState
  /\ m.kind # "notional" => m.writes # <<>>
  /\ m.kind \in {"map", "fold"} => Len(m.writes) = 1
  /\ m.sub \in Seq(Milestones)
  /\ m.sub # <<>> => /\ m.member \in DataState
                     /\ Last(m.sub).kind # "notional"
                     /\ Layered(m.sub, m.shared \cup {m.member})

PlansAreLayered ==
  /\ Plans \subseteq Seq(Milestones) \ {<<>>}
  /\ \A p \in Plans : Layered(p, {Seed})
  /\ \A m \in Milestones : IsMilestone(m)

ASSUME PlansAssumption == PlansAreLayered

VARIABLES plan,
          frames,    \* the sequences of milestones being run, the inner last
          attempt,   \* replans, the run_attempt of the execution
          record,    \* request_run.pipeline_runs, with their status
          graphs,    \* capacity_graphs, by the references of their runs
          status,    \* where the request is, and how it ended
          size,      \* the members of the seed, if it is a collection
          why,       \* history: what was raised, or whether it was an abort
          last,      \* history: the last run of each milestone of the plan
          since,     \* history: the attempt that began with a new blackboard
          lost       \* history: milestones whose run the record dropped
requestVars == <<plan, frames, attempt, record, graphs, status, size, why, last, since, lost>>

Nowhere == "none"
Origin(kind, by) == [kind |-> kind, by |-> by]
Interpreted == Origin("interpreted", <<>>)
Unrecorded == Origin("unrecorded", <<>>)
Produced(by) == Origin("produced", by)
Nothing == Origin(Nowhere, <<>>)

(* What the blackboard has under a data state: the runs that have made it; *)
(* of a collection, those that have made each member; start_origin_key:    *)
(* what it says of itself; history: the runs behind what it was made from, *)
(* and whether a member was missing there.                                 *)
Value(by, items, said, from, short) ==
  [by |-> by, items |-> items, said |-> said, from |-> from, short |-> short]

NoFan == [open |-> FALSE, size |-> 0, at |-> 0, retry |-> 0, composed |-> FALSE,
          items |-> <<>>, ids |-> <<>>, mask |-> <<>>, origins |-> <<>>,
          short |-> FALSE]
(* carriers: of each collection a map has written, member_graph_ids,       *)
(* member_completed and member_origins.  slice: the graphs collected since *)
(* the sub_plan began.                                                     *)
Frame(milestones, path, board) ==
  [plan |-> milestones, path |-> path, next |-> 1, only |-> 0, board |-> board,
   carriers |-> <<>>, fan |-> NoFan, last |-> Nowhere, slice |-> <<>>]

Start == Frame(plan, <<>>,
  [ds \in {Seed} |-> Value(<<>>, [i \in 1 .. size |-> <<>>], Interpreted, <<>>, FALSE)])

RequestInit ==
  /\ plan \in Plans
  /\ size \in IF Head(plan).kind = "map" THEN 0 .. MaxSize ELSE {0}
  /\ frames = <<Start>>
  /\ attempt = 0 /\ since = 0
  /\ record = <<>> /\ graphs = <<>>
  /\ status = "running" /\ why = Nowhere
  /\ last = [i \in DOMAIN plan |-> [attempt |-> 0, status |-> Nowhere]]
  /\ lost = {}

-----------------------------------------------------------------------------
Here == Last(frames)
More == status = "running" /\ Here.next <= Len(Here.plan)
Milestone == Here.plan[Here.next]
Board == Here.board
Fan == Here.fan
Path == Append(Here.path, Here.next)
MemberPath == Append(Path, Fan.at)

(* A mutant: the attempt is not part of the reference.                     *)
MutRunNoAttempt(path, retry) == [path |-> path, attempt |-> 0, retry |-> retry]

(* The reference of a run, pipelinerun:{request}:{path}:{attempt}:r{retry} *)
RunRef(path, retry) == [path |-> path, attempt |-> attempt, retry |-> retry]
NoRun == [path |-> <<>>, attempt |-> 0, retry |-> 0]
Completed(mask) == Cardinality({i \in DOMAIN mask : mask[i]})
AllOf(mask) == \A i \in DOMAIN mask : mask[i]

Put(board, more) == [ds \in DOMAIN board \cup DOMAIN more |->
                       IF ds \in DOMAIN more THEN more[ds] ELSE board[ds]]

(* The graph of a run goes to capacity_graphs.  The whole request needs no *)
(* slice.                                                                  *)
Collected(run, made, stopped) ==
  IF Len(frames) = 1 THEN Here.slice
  ELSE Append(Here.slice, [run |-> run, made |-> made, stopped |-> stopped])

Continue(frame) == frames' = [frames EXCEPT ![Len(frames)] = frame]

(* An exception that nothing catches.                                      *)
Uncaught(reason) == /\ status' = "raised" /\ why' = reason
                 /\ UNCHANGED <<plan, frames, attempt, record, size, last, since, lost>>

(* The milestone ends: its PipelineRun is appended to the request's list.  *)
Finish(outcome, board, carriers, slice) ==
  /\ Continue([Here EXCEPT !.next = @ + 1, !.only = 0, !.fan = NoFan,
                           !.last = outcome, !.board = board,
                           !.carriers = carriers, !.slice = slice])
  /\ record' = Append(record, [path |-> Path, attempt |-> attempt, status |-> outcome])
  /\ last' = IF Len(frames) > 1 THEN last
             ELSE [last EXCEPT ![Here.next] = [attempt |-> attempt, status |-> outcome]]
  /\ UNCHANGED <<plan, attempt, status, size, why, since, lost>>

(* A milestone without a target in a plan that has one: a notional record. *)
Notional ==
  /\ More /\ Milestone.kind = "notional"
  /\ Finish("completed", Board, Here.carriers, Here.slice)
  /\ UNCHANGED graphs

-----------------------------------------------------------------------------
(* A leaf                                                                  *)

(* A run that found no route leaves a graph with its manifest alone.       *)
LeafNoRoute ==
  /\ More /\ Milestone.kind = "leaf"
  /\ graphs' = Append(graphs, RunRef(Path, 0))
  /\ Uncaught("no route")

(* The capacity is gone, or needs a model that is not there: dispatch      *)
(* raises, for whatever runs.                                              *)
Withdrawn ==
  /\ More
  /\ \/ Milestone.kind = "leaf"
     \/ Milestone.kind = "map" /\ Fan.open /\ Milestone.sub = <<>>
        /\ Fan.at <= Fan.size
  /\ Uncaught("withdrawn")
  /\ UNCHANGED graphs

(* execute_pipeline: the first done of the steps succeed, the next one, if *)
(* any, fails or asks.                                                     *)
Walk(milestone, done) == [success |-> done = Len(milestone.writes),
                          made |-> Range(SubSeq(milestone.writes, 1, done))]

(* A step without its input fails.  A failed run returns what its steps    *)
(* have made, but no origins.                                              *)
Leaf(done, n) ==
  /\ More /\ Milestone.kind = "leaf" /\ done <= Len(Milestone.writes)
  /\ n > 0 => Milestone.many /\ done = Len(Milestone.writes)
  /\ done > 0 => Milestone.reads \in DOMAIN Board
  /\ LET run == RunRef(Path, 0)
         ok == Walk(Milestone, done).success
         made == Walk(Milestone, done).made
         start == Board[Milestone.reads]
         said(ds) == IF ok THEN Produced(<<run>>)
                     ELSE IF ds \in DOMAIN Board THEN Board[ds].said
                     ELSE Unrecorded
         outputs == [ds \in made |->
           Value(<<run>>, [i \in 1 .. n |-> <<run>>], said(ds), start.by, start.short)]
     IN /\ Finish(IF ok THEN "completed" ELSE "failed", Put(Board, outputs),
                  Here.carriers, Collected(run, made, ~ok))
        /\ graphs' = Append(graphs, run)

-----------------------------------------------------------------------------
(* A map                                                                   *)
SizeOf(ds) == IF ds \in DOMAIN Board THEN Len(Board[ds].items) ELSE 0

(* _resolve_shared_inputs, and a target beyond the members.                *)
MapRaises ==
  /\ More /\ Milestone.kind = "map" /\ ~Fan.open
  /\ \/ ~(Milestone.shared \subseteq DOMAIN Board) /\ Uncaught("shared")
     \/ /\ Milestone.shared \subseteq DOMAIN Board
        /\ Here.only > SizeOf(Milestone.reads) /\ Uncaught("index")
  /\ UNCHANGED graphs

StartMap ==
  /\ More /\ Milestone.kind = "map" /\ ~Fan.open
  /\ Milestone.shared \subseteq DOMAIN Board
  /\ Here.only <= SizeOf(Milestone.reads)
  /\ Continue([Here EXCEPT !.fan =
       [NoFan EXCEPT !.open = TRUE,
                     !.at = IF Here.only = 0 THEN 1 ELSE Here.only,
                     !.size = IF Here.only = 0 THEN SizeOf(Milestone.reads)
                                               ELSE Here.only]])
  /\ UNCHANGED <<plan, attempt, record, graphs, status, size, why, last, since, lost>>

(* A member has ended: a _MemberOutcome.                                   *)
MemberEnds(frame, by, said, id, completed, short) ==
  LET fan == frame.fan
  IN [frame EXCEPT !.fan =
       [fan EXCEPT !.at = @ + 1, !.retry = 0,
                   !.items = IF completed THEN Append(@, by) ELSE @,
                   !.ids = Append(@, id), !.mask = Append(@, completed),
                   !.origins = Append(@, IF completed THEN said ELSE Nothing),
                   !.short = @ \/ short]]

InMember == More /\ Milestone.kind = "map" /\ Fan.open /\ Fan.at <= Fan.size
Rest == UNCHANGED <<plan, attempt, record, status, size, why, last, since, lost>>

(* Composed for the first member that has a route, and used again.         *)
MemberNoRoute ==
  /\ InMember /\ Milestone.sub = <<>> /\ ~Fan.composed
  /\ LET run == RunRef(MemberPath, Fan.retry)
     IN /\ Continue(MemberEnds([Here EXCEPT !.slice = Collected(run, {}, FALSE)],
                               <<>>, Nothing, run, FALSE, FALSE))
        /\ graphs' = Append(graphs, run)
  /\ Rest

Composed == [Here EXCEPT !.fan.composed = TRUE]
MemberSucceeds ==
  /\ InMember /\ Milestone.sub = <<>>
  /\ LET run == RunRef(MemberPath, Fan.retry)
     IN /\ Continue(MemberEnds([Composed EXCEPT !.slice = Collected(run, {}, FALSE)],
                               <<run>>, Produced(<<run>>), run, TRUE, FALSE))
        /\ graphs' = Append(graphs, run)
  /\ Rest

(* A mutant: the count begins again at the cap.                            *)
MutMemberRetriesAlways ==
  /\ InMember /\ Milestone.sub = <<>>
  /\ Continue([Composed EXCEPT !.fan.retry = (@ + 1) % RetryCap])
  /\ UNCHANGED graphs
  /\ Rest

(* It failed: again, if the capacity and the failure are retryable and the *)
(* cap is not reached.                                                     *)
MemberRetries ==
  /\ InMember /\ Milestone.sub = <<>> /\ Fan.retry + 1 < RetryCap
  /\ Continue([Composed EXCEPT !.fan.retry = @ + 1])
  /\ UNCHANGED graphs
  /\ Rest

(* It failed for good, or asked: it stops, and the graph of this last run  *)
(* is kept.                                                                *)
MemberStops ==
  /\ InMember /\ Milestone.sub = <<>>
  /\ LET run == RunRef(MemberPath, Fan.retry)
     IN /\ Continue(MemberEnds([Composed EXCEPT !.slice = Collected(run, {}, TRUE)],
                               <<>>, Nothing, run, FALSE, FALSE))
        /\ graphs' = Append(graphs, run)
  /\ Rest

(* A member that is a plan of its own gets a blackboard of its own; it may *)
(* be a collection of n members itself.                                    *)
StartSubPlan(n) ==
  /\ InMember /\ Milestone.sub # <<>>
  /\ LET all == Board[Milestone.reads]
         member == Value(all.items[Fan.at], [i \in 1 .. n |-> all.items[Fan.at]],
                         all.said, <<>>, FALSE)
         board == [ds \in Milestone.shared \cup {Milestone.member} |->
                     IF ds = Milestone.member THEN member ELSE Board[ds]]
     IN frames' = Append(frames, Frame(Milestone.sub, MemberPath, board))
  /\ UNCHANGED graphs
  /\ Rest

LastGraph(slice, indexes) == IF indexes = {} THEN NoRun ELSE slice[Max(indexes)].run

EndSubPlan ==
  /\ status = "running" /\ Len(frames) > 1 /\ Here.next > Len(Here.plan)
  /\ LET target == Last(Last(Here.plan).writes)
         ok == Here.last = "completed"
         slice == Here.slice
         producer == LastGraph(slice, {i \in DOMAIN slice : target \in slice[i].made})
         stop == LastGraph(slice, {i \in DOMAIN slice : slice[i].stopped})
         parent == frames[Len(frames) - 1]
         outer == IF Len(frames) = 2 THEN parent
                  ELSE [parent EXCEPT !.slice = @ \o slice]
     IN IF ok # (target \in DOMAIN Board)
        THEN Uncaught("disagree") /\ UNCHANGED graphs
        ELSE /\ frames' = Append(SubSeq(frames, 1, Len(frames) - 2),
               IF ok THEN MemberEnds(outer, Board[target].by, Board[target].said,
                                     producer, TRUE, Board[target].short)
               ELSE MemberEnds(outer, <<>>, Nothing,
                      IF stop # NoRun \/ slice = <<>> THEN stop ELSE Last(slice).run,
                      FALSE, FALSE))
             /\ UNCHANGED graphs
             /\ Rest

(* A mutant: the first member speaks for all.                              *)
MutCollectionOriginFirst(origins) ==
  LET known == SelectSeq(origins, LAMBDA o : o # Nothing)
  IN IF known = <<>> THEN Produced(<<>>) ELSE Head(known)

(* _collection_origin: a member that did not complete has made nothing.    *)
CollectionOrigin(origins) ==
  IF \E i \in DOMAIN origins : origins[i].kind \in {"interpreted", "unrecorded"} THEN Unrecorded
  ELSE Produced(FlattenSeq([i \in DOMAIN origins |-> origins[i].by]))

(* The map writes the collection and its carriers.                         *)
MapWrites(items, ids, mask, origins, short) ==
  LET out == Last(Milestone.writes)
      collection == Board[Milestone.reads]
      list == Value(FlattenSeq(items), items, CollectionOrigin(origins), collection.by,
                    short \/ ~AllOf(mask) \/ collection.short)
      empty == Value(<<>>, <<>>, CollectionOrigin(<<>>), <<>>, FALSE)
  IN Finish(IF AllOf(mask) THEN "completed" ELSE "stopped",
            Put(Board, [ds \in {out} |->
                          IF Milestone.reads \in DOMAIN Board THEN list ELSE empty]),
            Put(Here.carriers, [ds \in {out} |-> [ids |-> ids, mask |-> mask,
                                                  origins |-> origins]]),
            Here.slice)

FinishMap ==
  /\ More /\ Milestone.kind = "map" /\ Fan.open /\ Fan.at > Fan.size /\ Here.only = 0
  /\ MapWrites(Fan.items, Fan.ids, Fan.mask, Fan.origins, Fan.short)
  /\ UNCHANGED graphs

(* A mutant: the value of a member that has now stopped stays.             *)
MutSpliceLeaves(items, mask, i) ==
  LET before == Completed(SubSeq(mask, 1, i - 1)) IN
  CASE Fan.mask[1] /\ mask[i]  -> [items EXCEPT ![before + 1] = Fan.items[1]]
    [] Fan.mask[1] /\ ~mask[i] -> InsertAt(items, before + 1, Fan.items[1])
    [] OTHER                   -> items

(* A targeted run has run one member, which takes its place among the      *)
(* others.                                                                 *)
Splice(items, mask, i) ==
  LET before == Completed(SubSeq(mask, 1, i - 1)) IN
  CASE Fan.mask[1] /\ mask[i]  -> [items EXCEPT ![before + 1] = Fan.items[1]]
    [] Fan.mask[1] /\ ~mask[i] -> InsertAt(items, before + 1, Fan.items[1])
    [] ~Fan.mask[1] /\ mask[i] -> RemoveAt(items, before + 1)
    [] OTHER                   -> items

FinishTargeted ==
  /\ More /\ Milestone.kind = "map" /\ Fan.open /\ Fan.at > Fan.size /\ Here.only > 0
  /\ LET out == Last(Milestone.writes)
         old == Here.carriers[out]
         items == Board[out].items
     IN IF Len(items) # Completed(old.mask) THEN Uncaught("carriers")
        ELSE MapWrites(Splice(items, old.mask, Here.only),
                       [old.ids EXCEPT ![Here.only] = Fan.ids[1]],
                       [old.mask EXCEPT ![Here.only] = Fan.mask[1]],
                       [old.origins EXCEPT ![Here.only] = Fan.origins[1]], FALSE)
  /\ UNCHANGED graphs

-----------------------------------------------------------------------------
(* A fold                                                                  *)
Domain == IF Milestone.reads \in DOMAIN Board THEN Board[Milestone.reads].items ELSE <<>>
MaskHere == IF Milestone.reads \in DOMAIN Here.carriers
            THEN Here.carriers[Milestone.reads].mask ELSE <<>>
OutOfStep == /\ Milestone.reads \in DOMAIN Here.carriers
             /\ Len(Domain) # Completed(MaskHere)
(* A mutant: only an empty domain stops the fold.                          *)
MutMustStopEmpty == Domain = <<>>

(* partial_domain, empty_domain                                            *)
MustStop == ~AllOf(MaskHere) \/ Domain = <<>>

FoldStops ==
  /\ More /\ Milestone.kind = "fold"
  /\ IF OutOfStep THEN Uncaught("carriers") /\ UNCHANGED graphs
     ELSE /\ MustStop
          /\ Finish("stopped", Board, Here.carriers, Collected(RunRef(Path, 0), {}, TRUE))
          /\ graphs' = Append(graphs, RunRef(Path, 0))

(* A mutant: an earlier conclusion stays.                                  *)
MutFoldKeeps(ok) ==
  /\ More /\ Milestone.kind = "fold" /\ ~OutOfStep /\ ~MustStop
  /\ LET run == RunRef(Path, 0)
         domain == Board[Milestone.reads]
         made == Walk(Milestone, IF ok THEN 1 ELSE 0).made
         outputs == [ds \in made |->
           Value(<<run>>, <<>>, Produced(<<run>>), domain.by, domain.short)]
     IN /\ Finish(IF ok THEN "completed" ELSE "failed", Put(outputs, Board),
                  Here.carriers, Collected(run, made, ~ok))
        /\ graphs' = Append(graphs, run)

Fold(ok) ==
  /\ More /\ Milestone.kind = "fold" /\ ~OutOfStep /\ ~MustStop
  /\ LET run == RunRef(Path, 0)
         domain == Board[Milestone.reads]
         made == Walk(Milestone, IF ok THEN 1 ELSE 0).made
         outputs == [ds \in made |->
           Value(<<run>>, <<>>, Produced(<<run>>), domain.by, domain.short)]
     IN /\ Finish(IF ok THEN "completed" ELSE "failed", Put(Board, outputs),
                  Here.carriers, Collected(run, made, ~ok))
        /\ graphs' = Append(graphs, run)

FoldWithdrawn ==
  /\ More /\ Milestone.kind = "fold" /\ ~OutOfStep /\ ~MustStop
  /\ Uncaught("withdrawn") /\ UNCHANGED graphs

-----------------------------------------------------------------------------
(* The attempt is over: the capacities sufficient and should_replan judge. *)
AttemptOver == status = "running" /\ Len(frames) = 1 /\ Here.next > Len(plan)

End(outcome, reason) ==
  /\ status' = outcome /\ why' = reason
  /\ UNCHANGED <<plan, frames, attempt, record, graphs, size, last, since, lost>>

Abort == AttemptOver /\ End("conceded", "abort")

(* A mutant: nothing failed is enough.                                     *)
MutStoppedShortNoFailure == \A i \in DOMAIN record : record[i].status # "failed"

(* terminal_attempt_stopped_short                                          *)
StoppedShort ==
  /\ \E i \in DOMAIN record : record[i].status = "stopped"
  /\ \A i \in DOMAIN record : record[i].status # "failed"

Conclude(sufficient) ==
  /\ AttemptOver
  /\ End(IF sufficient THEN "completed"
         ELSE IF StoppedShort THEN "conceded" ELSE "dont_know", Nowhere)

None == [attempt |-> 0, status |-> Nowhere]
(* A mutant: the blackboard is not replaced.                               *)
MutReplanWholeKeeps ==
  /\ AttemptOver /\ attempt < Budget
  /\ attempt' = attempt + 1 /\ since' = attempt + 1
  /\ frames' = <<[Here EXCEPT !.next = 1]>> /\ record' = <<>>
  /\ last' = [i \in DOMAIN plan |-> None] /\ lost' = {}
  /\ UNCHANGED <<plan, graphs, status, size, why>>

(* From the start, on a new blackboard.                                    *)
ReplanWhole ==
  /\ AttemptOver /\ attempt < Budget
  /\ attempt' = attempt + 1 /\ since' = attempt + 1
  /\ frames' = <<Start>> /\ record' = <<>>
  /\ last' = [i \in DOMAIN plan |-> None] /\ lost' = {}
  /\ UNCHANGED <<plan, graphs, status, size, why>>

(* resolve_member_target: a map of the plan without a sub_plan.            *)
Resolved(i) == plan[i].kind = "map" /\ plan[i].sub = <<>>
(* A mutant: one further.                                                  *)
MutKeptBelowNext(i) == SubSeq(record, 1, i)

(* invalidate_at_and_below cuts the list at the map's position.            *)
KeptBelow(i) == SubSeq(record, 1, i - 1)
(* From member j of that map on, over the blackboard there is.             *)
ReplanMember(i, j) ==
  /\ AttemptOver /\ attempt < Budget /\ Resolved(i)
  /\ attempt' = attempt + 1
  /\ frames' = <<[Here EXCEPT !.next = i, !.only = j]>>
  /\ record' = KeptBelow(i)
  /\ last' = [k \in DOMAIN plan |-> IF k < i THEN last[k] ELSE None]
  /\ lost' = {k \in 1 .. i - 1 : \A r \in Range(record') : r.path # <<k>>}
  /\ UNCHANGED <<plan, graphs, status, size, why, since>>

Over == status # "running" /\ UNCHANGED requestVars

RequestNext ==
  \/ Notional \/ Withdrawn
  \/ LeafNoRoute \/ (\E done \in 0 .. 2, n \in 0 .. MaxSize : Leaf(done, n))
  \/ MapRaises \/ StartMap \/ FinishMap \/ FinishTargeted
  \/ MemberNoRoute \/ MemberSucceeds \/ MemberRetries \/ MemberStops
  \/ (\E n \in 0 .. MaxSize : StartSubPlan(n)) \/ EndSubPlan
  \/ FoldStops \/ FoldWithdrawn \/ (\E ok \in BOOLEAN : Fold(ok))
  \/ Abort \/ (\E sufficient \in BOOLEAN : Conclude(sufficient))
  \/ ReplanWhole \/ (\E i \in DOMAIN plan, j \in 1 .. MaxSize + 1 : ReplanMember(i, j))
  \/ Over
RequestSpec == RequestInit /\ [][RequestNext]_requestVars /\ WF_requestVars(RequestNext)

-----------------------------------------------------------------------------
Reference == [path : Seq(Nat), attempt : 0 .. Budget, retry : 0 .. RetryCap]
RequestTypeOK ==
  /\ plan \in Plans
  /\ frames # <<>> /\ frames[1].plan = plan
  /\ \A f \in Range(frames) :
       /\ f.next \in 1 .. Len(f.plan) + 1 /\ f.only \in 0 .. MaxSize + 1
       /\ DOMAIN f.board \subseteq DataState
       /\ DOMAIN f.carriers \subseteq DOMAIN f.board
       /\ f.fan.retry < RetryCap /\ f.fan.at <= f.fan.size + 1
  /\ attempt \in 0 .. Budget /\ since \in 0 .. attempt
  /\ Range(graphs) \subseteq Reference
  /\ status \in {"running", "raised", "completed", "conceded", "dont_know"}
  /\ size \in 0 .. MaxSize /\ lost \subseteq DOMAIN plan

MapsTo(f, ds) == {f.plan[k] : k \in {k \in DOMAIN f.plan :
                     f.plan[k].kind = "map" /\ Last(f.plan[k].writes) = ds}}
Top == frames[1]
Ended(k) == last[k].status
Out(k) == Last(plan[k].writes)

(* The values of a map, the mask of the members that completed, the graphs *)
(* and the origins of all of them keep step, also when one member is run   *)
(* again: the i-th graph is the one that made the i-th member's value, and *)
(* no two runs share a graph (execution.py: member_completed_key and       *)
(* _run_map_milestone, whose ValueErrors never come).                      *)
CarriersAgree ==
  /\ why # "carriers"
  /\ IsInjective(graphs)
  /\ \A f \in Range(frames) : \A ds \in DOMAIN f.carriers :
       LET c == f.carriers[ds]
           items == f.board[ds].items
           place(i) == Completed(SubSeq(c.mask, 1, i))
       IN /\ Len(c.ids) = Len(c.mask) /\ Len(c.origins) = Len(c.mask)
          /\ Len(items) = Completed(c.mask)
          /\ \A i \in DOMAIN c.mask :
               /\ c.mask[i] <=> c.origins[i] # Nothing
               /\ c.ids[i] \in Range(graphs) \cup {NoRun}
               /\ c.mask[i] /\ (\A m \in MapsTo(f, ds) :
                     m.sub = <<>> \/ Last(m.sub).kind # "map") =>
                    items[place(i)] = <<c.ids[i]>>

(* What the blackboard says of where a value came from is true; what a     *)
(* member is given of its collection says what the collection says.  Not   *)
(* so what a failed leaf of the plan has left under the origin of an       *)
(* earlier attempt (_run_leaf_pipeline returns values without origins),    *)
(* until it is run again, and what a member has been given of that.        *)
IsTrue(v) ==
  \/ v.said.kind = "produced" /\ v.said.by = v.by
  \/ v.said.kind = "interpreted" /\ v.by = <<>>
  \/ v.said.kind = "unrecorded"
IsPartOfTruth(v) ==
  IsTrue(v) \/ (v.said.kind = "produced" /\ Range(v.by) \subseteq Range(v.said.by))
Given(d) == IF d = 1 THEN {Seed}
            ELSE LET map == frames[d - 1].plan[frames[d - 1].next]
                 IN map.shared \cup {map.member}
LeafFailed(k) == plan[k].kind = "leaf" /\ Ended(k) = "failed"
ToRunAgain(k) == plan[k].kind = "leaf" /\ k >= Top.next /\ since < attempt
OriginsAreTrue ==
  \A d \in DOMAIN frames : \A ds \in DOMAIN frames[d].board :
    LET v == frames[d].board[ds]
    IN \/ IsTrue(v)
       \/ d > 1 /\ ds \in Given(d) /\ (IsPartOfTruth(v) \/ \E k \in DOMAIN plan : LeafFailed(k))
       \/ d = 1 /\ \E k \in DOMAIN plan : /\ ds \in Range(plan[k].writes)
                                          /\ LeafFailed(k) \/ ToRunAgain(k)

(* A fold concludes from what every member has made, in their order.  A    *)
(* member is missing only if it was missing from the collection itself:    *)
(* only the fold that reads a map looks at its mask (_run_fold_milestone). *)
ConclusionsAreWhole ==
  \A f \in Range(frames) : \A k \in DOMAIN f.plan :
    LET m == f.plan[k]
        v == f.board[Last(m.writes)]
    IN /\ k < f.next /\ m.kind = "fold" /\ Last(m.writes) \in DOMAIN f.board
       /\ f = Top => Ended(k) = "completed"
       => /\ v.from = f.board[m.reads].by
          /\ m.reads \in DOMAIN f.carriers =>
               /\ AllOf(f.carriers[m.reads].mask)
               /\ v.short => \E map \in MapsTo(f, m.reads) :
                               map.sub # <<>> \/ f.board[map.reads].short

(* Of two milestones that completed, the one that reads was run on what    *)
(* the other made last; and a new blackboard has nothing of an earlier     *)
(* attempt (orchestrator.py and replan_check.py: a targeted replan runs    *)
(* the map, its fold and all that is downstream).                          *)
ChainIsCurrent ==
  /\ \A k, j \in DOMAIN plan :
       /\ Ended(k) = "completed" /\ plan[k].kind # "notional"
       /\ plan[j].kind # "notional" /\ Out(j) = plan[k].reads
       /\ \/ Ended(j) = "completed"
          \/ Ended(j) = "stopped" /\ plan[j].kind = "map"
       => Top.board[Out(k)].from = Top.board[Out(j)].by
  /\ \A ds \in DOMAIN Top.board : \A run \in Range(Top.board[ds].by) :
       run.attempt >= since

(* The list of runs that the outcome is read from has the last run of each *)
(* milestone and none that was invalidated, but for what a targeted replan *)
(* cuts off when a map with a sub_plan comes first, whose members' runs    *)
(* are in the same list (invalidate_at_and_below).                         *)
RecordTells ==
  /\ \A r \in Range(record) : Len(r.path) = 1 =>
       last[r.path[1]] = [attempt |-> r.attempt, status |-> r.status]
  /\ \A k \in 1 .. Top.next - 1 :
       \/ \E r \in Range(record) : r.path = <<k>>
       \/ k \in lost /\ \E m \in 1 .. k : plan[m].kind = "map" /\ plan[m].sub # <<>>

(* A request is conceded only if a milestone stopped, be it one of a       *)
(* sub_plan that went on; if one of the plan stopped, it is dont_know only *)
(* if something failed as well or the record lost it                       *)
(* (terminal_attempt_stopped_short).                                       *)
OutcomeIsEarned ==
  LET stopped == \E k \in DOMAIN plan : Ended(k) = "stopped"
      failed == \E r \in Range(record) : r.status = "failed"
      within == \E r \in Range(record) : Len(r.path) > 1 /\ r.status = "stopped"
  IN /\ status = "conceded" => why = "abort" \/ stopped \/ within
     /\ status = "dont_know" /\ stopped => failed \/ lost # {}

(* Every request comes to an end: attempts and replans are bounded.        *)
RequestEnds == <>(status # "running")

(* What an attempt hands to the next step and to the next attempt is in    *)
(* step with what has been run: values, masks, graphs and origins          *)
(* (execution.py).                                                         *)
CarriersAreSound == RequestTypeOK /\ CarriersAgree /\ OriginsAreTrue

(* The outcome is read from a record that tells the truth (orchestrator.py *)
(* and replan_check.py).                                                   *)
RecordIsSound == RecordTells /\ OutcomeIsEarned
=============================================================================
